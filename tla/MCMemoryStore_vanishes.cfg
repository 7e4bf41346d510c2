SPECIFICATION Spec
CONSTANTS
  a1 = a1
  r1 = r1
  r2 = r2
  r3 = r3
  t1 = t1
  t2 = t2
  v1 = v1
  v2 = v2
  v3 = v3
  u1 = u1
  Agents = {a1}
  Owner = Owner
  RecordIds = {r1, r2, r3}
  Contents <- Mixed
  AnyTopic = AnyTopic
  NoValue = NoValue
  Sense <- Folded
  Named = {1}
  None = None
  MaxRows = 3
  MaxImport = 2
PROPERTY OpenConflictsStand
