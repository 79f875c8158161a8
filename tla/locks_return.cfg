\* Two goroutines that change the table and one that reads its zones.
CONSTANTS
  rtmp = rtmp
  aurp = aurp
  nbp = nbp
  Threads = {rtmp, aurp, nbp}
  Calls <- WithZoneList
  None = None
SPECIFICATION Spec
INVARIANTS TypeOK SomeoneGoesOn
