\* One call at a time, each thread three; routes do not age.
CONSTANTS
  rtmp = rtmp
  aurp = aurp
  maint = maint
  peers = peers
  Router = Router
  Tunnel = Tunnel
  Zone1 = Zone1
  Zone2 = Zone2
  Threads = {rtmp, aurp}
  Ops <- OpsOfThreads
  Own <- OwnOfThreads
  Targets <- MCTargets
  AgedTargets = {Router}
  Rank <- MCRank
  Networks = {1, 2, 3}
  Ranges <- TwoStarts
  Dists = {1, 2}
  Zones = {Zone1, Zone2}
  None = None
  Concurrent = FALSE
  MaxAge = 0
  MaxClock = 0
  MaxCalls = 3
SPECIFICATION Spec
INVARIANTS IndexesAgree ObserversAgree
PROPERTIES ZonesOutliveRoutes
CHECK_DEADLOCK FALSE
