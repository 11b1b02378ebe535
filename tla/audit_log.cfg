SPECIFICATION FairSpec
CONSTANTS
    Genesis = Genesis
    r1 = r1
    r2 = r2
    i1 = i1
    i2 = i2
    Requests = {r1, r2}
    Instances = {i1, i2}
    Kinds = {"authorize", "decide", "plain"}
    MaxClock = 1
    Faults = {"db", "crash", "skew"}
INVARIANT TypeOK
INVARIANT QuietEntriesAreChained
INVARIANT ReferencesExist
INVARIANT DecisionsAreOnRecord
INVARIANT IInv
PROPERTY SuccessIsAudited
CHECK_DEADLOCK FALSE
