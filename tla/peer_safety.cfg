\* Hasty timers and a duplicated datagram, or two of a crash, a failed send and a
\* Router Down from the receiver; two chunks per table.  A receiver that has used up its
\* MaxConn connection IDs stops, which is only the bound.
CONSTANTS
  A = A
  B = B
  Peers <- MCPeers
  Networks = {1, 2}
  Dists = {1}
  Weight = 0
  NoRoute = NoRoute
  None = None
  RetryLimit = 1
  TickleLimit = 1
  ChunkSize = 1
  MaxID = 3
  MaxConn = 4
  ConnWraps = FALSE
  ShortTickle = FALSE
  TickleBeforeData = TRUE
  Version <- Version1
  Initial <- OnlyA
  Budgets <- DelaysOrFaults
SPECIFICATION Spec
INVARIANTS TypeOK OutstandingPacket FreshConnections NoRoutesUnlessOpen
PROPERTIES OneOutstanding
CHECK_DEADLOCK FALSE
