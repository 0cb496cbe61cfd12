SPECIFICATION RestartSpec
CONSTANTS
    Requests = {"q1", "q2", "q3"}
    NoRequest = "none"
    MaxBridges = 1
    MaxDeaths = 0
    MaxDenied = 1
INVARIANT
    KeepsNewerLocks
CHECK_DEADLOCK FALSE
