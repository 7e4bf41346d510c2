CONSTANTS
  r1 = r1
  r2 = r2
  p1 = p1
  p2 = p2
  None = None
  RecordIds = {r1, r2}
  Askers = {p1, p2}
  MaxWrites = 3
  Retention = 1
  Budgets <- MCOneCrash
SPECIFICATION Spec
INVARIANT
  NothingAcknowledgedComesBack
CHECK_DEADLOCK FALSE
