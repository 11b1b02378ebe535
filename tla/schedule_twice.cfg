SPECIFICATION Spec
CONSTANTS
    r1 = r1
    r2 = r2
    r3 = r3
    i1 = i1
    i2 = i2
    k1 = k1
    None = None
    Requests = {r1, r2}
    Keys = {k1}
    Instances = {i1}
    Calls <- OneSchedule
    MaxClock = 1
    FaultSets = {{}}
SYMMETRY EqualRoles
INVARIANT AtMostOneSchedule
CHECK_DEADLOCK FALSE
