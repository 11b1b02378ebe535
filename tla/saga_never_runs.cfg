SPECIFICATION Spec
CONSTANTS
    uuid = uuid
    payment = payment
    N = 2
    ExecutionId = uuid
    BusinessIds = {payment}
    Managers = {"transaction", "autocommit"}
    FaultSets <- NoFault
INVARIANT FirstStepExecuted
CHECK_DEADLOCK FALSE
