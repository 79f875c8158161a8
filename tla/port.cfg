\* Every cable of MCSetups: addresses, authority, the settled cable, and Send's promise.
CONSTANTS
  A = A
  B = B
  Routers <- MCRouters
  Port = A
  Nodes = {1, 2, 3}
  Startup <- MCStartup
  ProbeLimit = 2
  SeedPeriod = 6
  DelayTicks = 1
  TimeoutTicks = 2
  Setups <- MCSetups
  NoRange = NoRange
  NoZone = NoZone
  Packets <- MCPackets
  Dest <- MCDest
  maxOutboxSize = 2
  MaxLearn = 1
  Prompt = TRUE
  None = None
SPECIFICATION FairSpec
INVARIANTS TypeOK UniqueAddresses AuthorityOwnsRange CasesHaveOutboxes NoLostWakeup
PROPERTIES AuthorityReturns CableSettles KeepsPromise
CHECK_DEADLOCK FALSE
