SPECIFICATION FairSpec
CONSTANTS
    Runs = {r1}
    Calls = {c1}
    Steps = 1
    MaxAttempts = 1
    MaxTasks = 1
    Events <- Crashes
    MaxEvents = 1
    MaxFaults = 0
PROPERTIES
    DurableAudit
