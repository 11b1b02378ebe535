SPECIFICATION FairSpec
CONSTANTS
    r1 = r1
    r2 = r2
    r3 = r3
    i1 = i1
    i2 = i2
    k1 = k1
    None = None
    Requests = {r1, r2, r3}
    Keys = {k1}
    Instances = {i1}
    Calls <- RefusedCalls
    MaxClock = 1
    FaultSets = {{"redis", "db", "broker", "slow", "resend", "redisLoss"},
                 {"crash", "redis", "db", "broker", "cacheLoss"}}
INVARIANT LocalReplayReturnsOriginal
PROPERTY LocksAreFreed
PROPERTY KeepsPromise
CHECK_DEADLOCK FALSE
