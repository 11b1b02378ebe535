SPECIFICATION FairSpec
CONSTANTS
    acme = acme
    other = other
    s1 = s1
    s2 = s2
    Clients = {acme, other}
    Mock = {acme}
    Syncs = {s1, s2}
    MaxVersion = 4
    MaxRestarts = 1
INVARIANT TypeOK
INVARIANT ServesDirectory
INVARIANT IInv
PROPERTY NeverOlder
PROPERTY StartsUp
PROPERTY CatchesUp
CHECK_DEADLOCK FALSE
