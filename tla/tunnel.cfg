\* Zone lists with losses, duplicates, early retries, withdrawn routes and a lost
\* connection; packets and lookups through remapping, clusters, hiding, hop weight and
\* reduction, and wrong tables; a lookup for a network that is being learned.  Packets
\* are delivered and none is left in the end.
CONSTANTS
  A = A
  B = B
  C = C
  X = X
  ca = ca
  cb = cb
  cc = cc
  cd = cd
  cx = cx
  LocalRouter = A
  PeerRouter = B
  Networks = {1, 2}
  Locals = {1, 2, 3}
  Zones = {1, 2, 3}
  None = None
  NetsPerReq = 1
  Setups <- MCSetups
  Routers <- MCRouters
  Cables <- MCCables
  ZoneNames = {1, 2, 3}
  Internets <- MCInternets
  Worlds <- MCWorlds
SPECIFICATION FairSpec
INVARIANTS TypeOK WholeLists NeverForgotten RightPlace HiddenKept ChecksumsHold HopsCount
PROPERTIES ZonesArrive Arrives
CHECK_DEADLOCK FALSE
