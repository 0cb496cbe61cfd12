SPECIFICATION Spec
CONSTANTS
    MaxTasks = 3
    MaxQueueSize = 1
    Gemini <- Third
    Verified <- First
    Unreplayable <- Second
    Events <- Disturbances
    MaxEvents = 2
    MaxFaults = 0
INVARIANTS
    TypeOK
    CancelWins
    FifoOrder
    WriterExclusion
    StoppedRunNotCompleted
PROPERTIES
    TerminalIsFinal
    QueueSurvivesShutdown
CHECK_DEADLOCK FALSE
