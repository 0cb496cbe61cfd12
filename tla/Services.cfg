CONSTANTS
  b1 = b1
  b2 = b2
  b3 = b3
  g1 = g1
  g2 = g2
  Nobody = Nobody
  Bridges = {b1, b2, b3}
  Grants = {g1, g2}
  Guesses = 2
  MaxCodes = 1
  Worlds <- Accidents
  Last = 2
  Tries = 2
  MaxReviews = 2
  MaxEdits = 1
  MaxUpsets = 2
  o1 = o1
  o2 = o2
  Ops = {o1, o2}
  NoOp = NoOp
  MaxMishaps = 3
  k1 = k1
  k2 = k2
  k3 = k3
  Calls = {k1, k2, k3}
  Mutating = {k1, k2}
  MaxConns = 2
  NoConn = NoConn
SPECIFICATION ServicesSpec
SYMMETRY AuthSymmetry
VIEW ReadAgain
INVARIANTS ServicesTypeOK OneWriter GrantsSafe OneActor CreateSafe ClientSafe
PROPERTY StartsReviewed
CHECK_DEADLOCK FALSE
