CONSTANTS
    a1 = a1
    a2 = a2
    None = None
    Actions <- OneAction
    Priority <- MCPriority
    Workers = {w1, w2}
    Admins = {}
    Agents = {}
    BatchSize = 1
    MaxAttempts = 1
    MaxCalls = 0
    MaxFaults = 0
    MaxRestarts = 0
    MaxDrops = 0
SPECIFICATION Spec
CHECK_DEADLOCK FALSE
INVARIANT ClaimedByOneWorker
