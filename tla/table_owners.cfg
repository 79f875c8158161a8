\* Calls for different targets, and pruning, overlap.
CONSTANTS
  rtmp = rtmp
  aurp = aurp
  maint = maint
  peers = peers
  Router = Router
  Tunnel = Tunnel
  Zone1 = Zone1
  Zone2 = Zone2
  Threads = {rtmp, aurp, maint}
  Ops <- OpsOfThreads
  Own <- OwnOfThreads
  Targets <- MCTargets
  AgedTargets = {Router}
  Rank <- MCRank
  Networks = {1, 2}
  Ranges <- SameStart
  Dists = {1}
  Zones = {Zone1}
  None = None
  Concurrent = TRUE
  MaxAge = 0
  MaxClock = 1
  MaxCalls = 2
SPECIFICATION Spec
INVARIANTS IndexesAgree ZoneIndexesAgree
CHECK_DEADLOCK FALSE
