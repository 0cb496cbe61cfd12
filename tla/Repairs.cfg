CONSTANTS
  Sups = {"s1", "s2"}
  Order <- Observed
  Core = "core"
  Tunnel = "tunnel"
  Boot <- Started
  Budget = 2
  NoSup = "none"
  MaxStarts = 1
  MaxFailures = 1
  x1 = x1
  x2 = x2
  Sends = {x1, x2}
  NoSend = NoSend
  MaxGivenUp = 1
  MaxStale = 1
  Workers = {"w1", "w2"}
  NoWorker = "none"
  MaxEntries = 2
  MaxListed = 2
  Needs <- SecondNeedsFirst
  Readers = {}
  MaxParallel = 1
  ErrorLimit = 2
  MaxUpsets = 2
  q1 = q1
  q2 = q2
  Requests = {q1, q2}
  NoRequest = "none"
  MaxBridges = 2
  MaxDeaths = 1
  MaxDenied = 1
SPECIFICATION RepairsSpec
INVARIANTS RepairsTypeOK SupervisorSafe TurnSafe ReceiptsAreTrue HandOffSafe
PROPERTIES RepairConverges SendReturns QueueDelivers
CHECK_DEADLOCK FALSE
