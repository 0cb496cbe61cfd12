SPECIFICATION FairSpec
CONSTANTS
    MaxTasks = 2
    MaxQueueSize = 1
    Gemini <- Second
    Verified <- NoTasks
    Unreplayable <- First
    Events <- CrashAndCancel
    MaxEvents = 2
    MaxFaults = 1
INVARIANTS
    AuditTruth
    AtMostOneTurn
PROPERTIES
    RunsEnd
    QueueDrains
    CancelConverges
CHECK_DEADLOCK FALSE
