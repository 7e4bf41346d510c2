SPECIFICATION Spec
CONSTANTS
  w1 = w1
  w2 = w2
  g1 = g1
  g2 = g2
  k1 = k1
  k2 = k2
  Workspaces = {w1, w2}
  Generations = {g1, g2}
  Keys = {k1, k2}
  NoKey = NoKey
  Unasked = Unasked
  None = None
  PaidBy <- BothPaid
  Claims <- Contested
  Limit = 2
  MaxLinks = 1
  MaxFailures = 0
SYMMETRY Symmetry
INVARIANTS
  OnlyThePayerIsPaid
  OnFileOnceAnswered
PROPERTIES
  VerifiedStands
