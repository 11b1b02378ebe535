SPECIFICATION Spec
CONSTANTS
    r1 = r1
    r2 = r2
    r3 = r3
    i1 = i1
    i2 = i2
    k1 = k1
    None = None
    Requests = {r1, r2, r3}
    Keys = {k1}
    Instances = {i1, i2}
    Calls <- MixedCalls
    MaxClock = 1
    FaultSets = {{"crash", "redis", "db", "broker", "slow", "cacheLoss", "resend", "redisLoss"},
                 {"redis", "db", "slow", "redisLoss"},
                 {"crash", "redis", "db", "broker"}}
SYMMETRY EqualRoles
INVARIANT TypeOK
INVARIANT AtMostOneInitiation
INVARIANT SuccessIsBacked
INVARIANT SameKeySameResult
INVARIANT MutualExclusion
INVARIANT ConflictHasRival
INVARIANT IInv
CHECK_DEADLOCK FALSE
