CONSTANTS
    r1 = r1
    r2 = r2
    w1 = w1
    w2 = w2
    Null = Null
    Replicas <- OneReplica
    Writers <- OneWriter
    Home <- MCHome
    Events <- OneEvent
    Recorded <- OneEvent
    Joined <- MCJoined
    LegacyStamps = {"sqlite", "rfc3339"}
    Wal = TRUE
    Strict = FALSE
    MaxLegacy = 2
    MaxRows = 2
    MaxFaults = 0
    MaxCrashes = 0
    MaxEdits = 0
    MaxCuts = 0
SPECIFICATION Spec
CHECK_DEADLOCK FALSE
INVARIANT ChainUnbroken
