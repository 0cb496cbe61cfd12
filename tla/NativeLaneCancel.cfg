CONSTANTS
  r1 = r1
  r2 = r2
  Reqs = {r1, r2}
  None = None
  MaxQueued = 2
  MaxCrashes = 1
  MaxTries = 2
  FaultModels <- CancelOnly
SYMMETRY Symmetry
SPECIFICATION Spec
INVARIANT WriterExclusion
CHECK_DEADLOCK FALSE
