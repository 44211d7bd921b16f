CONSTANTS
    r1 = r1
    r2 = r2
    w1 = w1
    w2 = w2
    Null = Null
    Replicas <- TwoReplicas
    Writers <- TwoWriters
    Home <- MCHome
    Events <- MCEvents
    Recorded <- OneEvent
    Joined <- MCJoined
    LegacyStamps = {"sqlite"}
    Wal = FALSE
    Strict = FALSE
    MaxLegacy = 2
    MaxRows = 3
    MaxFaults = 1
    MaxCrashes = 2
    MaxEdits = 1
    MaxCuts = 1
SPECIFICATION FairSpec
CHECK_DEADLOCK FALSE
INVARIANT ChainUnbroken
INVARIANT EditsAreFound
PROPERTY AppendOnly
PROPERTY LossIsNoticed
PROPERTY TransactionsEnd
PROPERTY ComesUp
