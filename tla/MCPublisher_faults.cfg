SPECIFICATION Spec
CONSTANTS
  a1 = a1
  a2 = a2
  w1 = w1
  w2 = w2
  Workspaces = {w1}
  Addresses = {a1, a2}
  NoWallet = NoWallet
  None = None
  ForeignRoot <- SomebodyElsesRoot
  Modes = {"live"}
  MaxPeriod = 4
  Budgets <- Disturbed
SYMMETRY Symmetry
INVARIANTS
  NothingPaidTwice
  FiledUnderItsOwnRoot
  PublishedMeansOnChain
PROPERTIES
  KeepsTheBook
  CursorFollowsLedger
