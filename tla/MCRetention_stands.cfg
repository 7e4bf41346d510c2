\* Deleted text stays deleted: summaries, snapshots and restores beside writes.
CONSTANTS
  r1 = r1
  r2 = r2
  p1 = p1
  p2 = p2
  None = None
  RecordIds = {r1, r2}
  Askers = {p1, p2}
  MaxWrites = 3
  Retention = 1
  Budgets <- MCBudgets
SPECIFICATION Spec
CHECK_DEADLOCK FALSE
SYMMETRY Symmetry
INVARIANTS
  DeletionStands
  SummariesTellTheTruth
PROPERTIES
  WholeSnapshotsLoad
