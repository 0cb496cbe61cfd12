SPECIFICATION FairSpec
CONSTANTS
    Runs = {r1, r2}
    Calls = {c1}
    Steps = 1
    MaxAttempts = 1
    MaxTasks = 2
    Events <- CrashAndPause
    MaxEvents = 1
    MaxFaults = 1
PROPERTIES
    AuditFollows
    RunProgresses
