SPECIFICATION FairSpec
CONSTANTS
  a1 = a1
  a2 = a2
  k1 = k1
  k2 = k2
  Accounts = {a1, a2}
  Keys = {k1, k2}
  None = None
  Token = Token
  MaxAmount = 2
  MaxRoots = 3
  MaxFunds = 4
  MaxDepth = 2
INVARIANTS
  BooksMatchDeliveries
  NeverPaidPastPromise
  NothingPromisedIsLost
PROPERTIES
  EverybodyIsPaid
