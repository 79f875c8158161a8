\* Every scenario of MCSetups: identities, loop investigations, and what comes of them.
CONSTANTS
  N1 = N1
  N2 = N2
  Names = {N1, N2}
  IPs = {1, 2, 3}
  LocalIP = 3
  Setups <- MCSetups
  QueueCap = 1
  Attempts = 2
  MaxHandles = 2
  NoName = NoName
SPECIFICATION FairSpec
INVARIANTS TableConsistent LoopMapsAgree DisabledByOwnProbe
PROPERTIES IdentityStable PeersSettle
CHECK_DEADLOCK FALSE
