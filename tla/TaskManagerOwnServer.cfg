SPECIFICATION Spec
CONSTANTS
    MaxTasks = 2
    MaxQueueSize = 1
    Gemini <- NoTasks
    Verified <- NoTasks
    Unreplayable <- NoTasks
    Events <- CancelOnly
    MaxEvents = 1
    MaxFaults = 0
INVARIANTS
    OwnServer
CHECK_DEADLOCK FALSE
