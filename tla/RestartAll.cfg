SPECIFICATION RestartSpec
CONSTANTS
    Requests = {"q1", "q2", "q3"}
    NoRequest = "none"
    MaxBridges = 1
    MaxDeaths = 1
    MaxDenied = 1
INVARIANTS
    RestartTypeOK
    HandOffSafe
CHECK_DEADLOCK FALSE
