SPECIFICATION Spec
CONSTANTS
  a1 = a1
  a2 = a2
  s1 = s1
  s2 = s2
  Schedulers = {s1, s2}
  Addresses = {a1, a2}
  Windows <- AnyWindows
  MaxAmount = 1
  MaxChanges = 1
  MaxCalls = 3
  None = None
  Workspaces = {"u", "v", "w"}
  Payees = {"p", "q"}
  BasisPoints = 4
  MinutesPerDay = 4
  MaxUnits = 2
  Ceilings = {11}
  Rates = {2}
  Caps = {0, 1, 3, 5}
  Minutes = {2, 3}
  MaxEntries = 5
  MaxOwed = 2
SYMMETRY Symmetry
CHECK_DEADLOCK FALSE
INVARIANTS
  OnlyARacePaysTwice
  AcceptedFiguresStand
  PoolBounds
  WalletsAreIndependent
  QuietPeriodsPay
  RootsProve
