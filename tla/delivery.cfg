SPECIFICATION FairSpec
CONSTANTS
    a1 = a1
    a2 = a2
    agent = agent
    other = other
    ip = ip
    Actions <- MCActions
    Agents <- MCAgents
    Owner <- MCOwner
    Sockets = {k}
    AgentOf <- MCAgentOf
    SourceOf <- MCSourceOf
    Sources <- MCSources
    Watchers = {w}
    Nothing = Nothing
    Capacity = 1
    MaxPolls = 2
    MaxRequests = 1
    Window = 1
    MaxTime = 2
    MaxFaults = 1
    MaxRestarts = 1
INVARIANTS
    AnnouncedIsSaved
    NothingIsMissedUntold
    PostedUntilHeard
PROPERTIES
    RefusalsAreEarned
    SocketsEnd
CHECK_DEADLOCK FALSE
