CONSTANTS
  r1 = r1
  r2 = r2
  Reqs = {r1, r2}
  None = None
  MaxQueued = 2
  MaxCrashes = 1
  MaxTries = 2
  FaultModels <- Models
SYMMETRY Symmetry
SPECIFICATION Spec
INVARIANTS TypeOK SentAtMostOnce AnswerIsDurable
PROPERTIES TerminalIsTruth LeaseSpec
CHECK_DEADLOCK FALSE
