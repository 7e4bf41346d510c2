CONSTANTS
  a1 = a1
  a2 = a2
  c1 = c1
  c2 = c2
  c3 = c3
  w1 = w1
  w2 = w2
  k1 = k1
  k2 = k2
  t1 = t1
  t2 = t2
  p1 = p1
  p2 = p2
  r1 = r1
  r2 = r2
  None = None
  Emails = {"e"}
  Addresses = {a1, a2}
  Callers = {c1, c2, c3}
  MaxNonces = 3
  NonceLife = 1
  MaxAccounts = 4
  Workspaces = {w1, w2}
  Connections = {k1, k2}
  Tabs = {t1, t2}
  Operations = {"add", "forget"}
  SubagentDefaults = {"add"}
  AgentsMax = 1
  MaxAgents = 3
  MaxKeys = 3
  Window = 4
  Limit = 3
  SweepInterval = 3
  MaxTracked = 2
  LastId = 3
  Page = 2
  Processes = {p1, p2}
  Columns <- MCColumns
  MaxAttempts = 2
  Reports = {r1, r2}
  Credits = {"c"}
  Month = 1
  Budgets <- MCBudgets
SPECIFICATION Spec
CHECK_DEADLOCK FALSE
SYMMETRY Symmetry
INVARIANTS
  OneNonceOneAttempt
  OneAddressOneAccount
  AccountsKeepTheirDoors
  RevokedGetNowhere
  RetryAfterIsTrue
  LimitsHold
  FeedIsSeamless
  OpensWholeOrSaysWhy
  PagesAddUp
