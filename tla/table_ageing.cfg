\* One call at a time; routes age, and a refresh brings the distance it had.
CONSTANTS
  rtmp = rtmp
  aurp = aurp
  maint = maint
  peers = peers
  Router = Router
  Tunnel = Tunnel
  Zone1 = Zone1
  Zone2 = Zone2
  Threads = {rtmp, aurp, maint}
  Ops <- OpsOfThreads
  Own <- OwnOfThreads
  Targets <- MCTargets
  AgedTargets = {Router}
  Rank <- MCRank
  Networks = {1}
  Ranges <- One
  Dists = {1}
  Zones = {Zone1}
  None = None
  Concurrent = FALSE
  MaxAge = 0
  MaxClock = 2
  MaxCalls = 3
SPECIFICATION FairSpec
INVARIANTS ObserversAgree
PROPERTIES ExpiryReported
CHECK_DEADLOCK FALSE
