SPECIFICATION FairSpec
CONSTANTS
  a1 = a1
  a2 = a2
  a3 = a3
  r1 = r1
  r2 = r2
  r3 = r3
  Agents = {a1, a2, a3}
  Records = {r1, r2, r3}
  None = None
  Author <- MostlyOne
  MaxFailures = 1
  MaxRows = 4
  Newest = 3
  MaxLimit = 12
  TextCost = 1
  RefCost = 1
  HeadCost = 1
  SideCost = 1
  Limits = {2, 8, 13}
PROPERTIES
  EarnsOnce
  EventuallyCredited
INVARIANT
  RecallTellsTheTruth
