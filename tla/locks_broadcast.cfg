\* A broadcast request (RoutesForZone) beside two goroutines that change the table.
CONSTANTS
  rtmp = rtmp
  aurp = aurp
  nbp = nbp
  Threads = {rtmp, aurp, nbp}
  Calls <- WithBroadcast
  None = None
SPECIFICATION Spec
INVARIANTS SomeoneGoesOn
