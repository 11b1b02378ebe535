SPECIFICATION Spec
CONSTANTS
    r1 = r1
    r2 = r2
    r3 = r3
    r4 = r4
    k1 = k1
    k2 = k2
    None = None
    Requests = {r1, r2, r3, r4}
    Keys = {k1, k2}
    MaxClock = 1
SYMMETRY Symmetry
INVARIANT TypeOK
INVARIANT EventsMatchRows
INVARIANT OwnSuccessIsAnnounced
PROPERTY KeepsPromise
CHECK_DEADLOCK FALSE
