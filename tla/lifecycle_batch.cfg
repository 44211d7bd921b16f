CONSTANTS
    a1 = a1
    a2 = a2
    None = None
    Actions <- TwoActions
    Priority <- MCPriority
    Workers = {w1}
    Admins = {d1}
    Agents = {}
    BatchSize = 2
    MaxAttempts = 1
    MaxCalls = 0
    MaxFaults = 2
    MaxRestarts = 0
    MaxDrops = 0
SPECIFICATION FairSpec
CHECK_DEADLOCK FALSE
INVARIANT OneVerdict
PROPERTY EveryActionDecided
