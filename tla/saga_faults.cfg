SPECIFICATION FairSpec
CONSTANTS
    uuid = uuid
    payment = payment
    N = 4
    ExecutionId = uuid
    BusinessIds = {uuid, payment}
    Managers = {"none", "transaction", "autocommit"}
    FaultSets <- ThreeFaultSets
INVARIANT TypeOK
INVARIANT CompletedMeansApplied
INVARIANT StepsInOrder
INVARIANT CompensatedOnce
INVARIANT IInv
PROPERTY Terminates
PROPERTY KeepsContract
CHECK_DEADLOCK FALSE
