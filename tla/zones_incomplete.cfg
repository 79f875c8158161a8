\* A remapped network.
CONSTANTS
  A = A
  B = B
  C = C
  X = X
  ca = ca
  cb = cb
  cc = cc
  cd = cd
  cx = cx
  LocalRouter = A
  PeerRouter = B
  Networks = {1, 2}
  Locals = {1, 2, 3}
  Zones = {1, 2, 3}
  None = None
  NetsPerReq = 1
  Setups <- RemappedZones
  Routers <- MCRouters
  Cables <- MCCables
  ZoneNames = {1, 2, 3}
  Internets <- MCInternets
  Worlds <- IncompleteWorlds
SPECIFICATION FairSpec
PROPERTIES RetryUntilComplete
CHECK_DEADLOCK FALSE
