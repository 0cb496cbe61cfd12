SPECIFICATION Spec
CONSTANTS
    Runs = {r1}
    Calls = {c1, c2}
    Steps = 2
    MaxAttempts = 2
    MaxTasks = 4
    Events <- Disturbances
    MaxEvents = 2
    MaxFaults = 1
INVARIANTS
    TypeOK
    AtMostOneTask
    NoTwoLive
    PassNeedsEvidence
PROPERTIES
    VerdictIsFinal
    PausePreventsDispatch
