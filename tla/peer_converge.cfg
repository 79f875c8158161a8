\* A route change with a loss or a restart; a shutdown or a disabled tunnel, after
\* which nothing may be left to do.  Distances on both sides of the limit.
CONSTANTS
  A = A
  B = B
  Peers <- MCPeers
  Networks = {1}
  Dists = {1, 14}
  Weight = 1
  NoRoute = NoRoute
  None = None
  RetryLimit = 1
  TickleLimit = 1
  ChunkSize = 1
  MaxID = 3
  MaxConn = 3
  ConnWraps = TRUE
  ShortTickle = FALSE
  TickleBeforeData = FALSE
  Version <- Version1
  Initial <- OnlyA
  Budgets <- Recoveries
SPECIFICATION FairSpec
INVARIANTS SettledViewsAgree
CHECK_DEADLOCK FALSE
PROPERTIES EventuallyViewsAgree
