CONSTANTS
    a1 = a1
    a2 = a2
    None = None
    Actions <- OneAction
    Priority <- MCPriority
    Workers = {w1}
    Admins = {d1}
    Agents = {f1}
    BatchSize = 1
    MaxAttempts = 2
    MaxCalls = 2
    MaxFaults = 2
    MaxRestarts = 1
    MaxDrops = 1
SPECIFICATION Spec
CHECK_DEADLOCK FALSE
INVARIANT ApprovalHasCause
INVARIANT RelayIsRecorded
INVARIANT ProcessingIsOwned
INVARIANT StatusAgreesWithVerdict
PROPERTY GateHolds
PROPERTY AnsweredIsFinal
PROPERTY FailedForwardIsOpen
