\* Two chunks per table, interrupted by restarts, losses, a failed send, a
\* duplicated datagram or a shutdown.  B asks for a protocol version jrouter does not
\* speak.  With one router stopped, the other one may have nothing left to do.
CONSTANTS
  A = A
  B = B
  Peers <- MCPeers
  Networks = {1, 2}
  Dists = {1}
  Weight = 0
  NoRoute = NoRoute
  None = None
  RetryLimit = 1
  TickleLimit = 1
  ChunkSize = 1
  MaxID = 4
  MaxConn = 5
  ConnWraps = TRUE
  ShortTickle = FALSE
  TickleBeforeData = FALSE
  Version <- OtherVersionB
  Initial <- OnlyB
  Budgets <- Interruptions
SPECIFICATION FairSpec
INVARIANTS RefusedVersion
PROPERTIES EventuallyViewsAgree
CHECK_DEADLOCK FALSE
