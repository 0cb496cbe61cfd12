CONSTANTS
  b1 = b1
  b2 = b2
  b3 = b3
  g1 = g1
  g2 = g2
  Nobody = Nobody
  Bridges = {b1, b2, b3}
  Grants = {g1, g2}
  Guesses = 2
  MaxCodes = 1
  Worlds <- Imports
SPECIFICATION AuthSpec
SYMMETRY AuthSymmetry
INVARIANT WithdrawnIsFinal
CHECK_DEADLOCK FALSE
