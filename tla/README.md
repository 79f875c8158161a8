# A TLA+ model of the P-AURP router

P-AURP (module name `jrouter`) is an EtherTalk/AURP router written in Go. It
learns routes and zones on local EtherTalk cables (RTMP, ZIP), exchanges them
with other routers over UDP tunnels (AURP, RFC 1504), and forwards AppleTalk
packets between the two. This directory holds TLA+ modules of its control, TLC
configurations that check them on small instances, and TLAPS proofs of the main
safety properties for instances of any size.

`PROJECT.json` lists the components, the runs, the source lines behind every
definition, the hazards and the findings.

## The system

| Part | Code | State | Operations | Model |
| --- | --- | --- | --- | --- |
| AURP-Tr | `aurp/transport.go`, `aurp/aurp.go` | connection IDs, sequence numbers | Inc/Reset, packet constructors | `Transport`, `AURPPeer` |
| AURP peer | `router/aurp_peer.go` | receiver and sender state, retry counter, outstanding packet, queued events | Handle loop: 11 packet handlers, two tickers, reconnect, shutdown, loop confirmation | `AURPPeer` |
| Export | `router/aurp_routing.go` | none (functions of two routes) | event for a transition, coalescing, chunking | `AURPPeer`, in part |
| Route table | `router/route_table.go`, `route.go`, `zones.go` | routes by target class and by network, zones in both directions, observers | upsert, update, delete, prune, zone changes, lookups | `RouteTable`, `TableLocks` |
| Peer table | `router/aurp_peer_table.go` | peers by name and by address, DNS backoff | resolve, refresh candidates, start and reconnect | `PeerTable` |
| AURP input | `router/aurp.go` | a bounded queue per peer | dispatch of datagrams | `PeerTable`; the data path in `Forwarding` |
| Zone information | `router/aurp_zone.go` | requested networks, partial answers | request, assemble, retry, loop check | `ZoneInfo` |
| Data path | `router/router.go`, `aurp_remap.go`, `aurp_cluster.go`, `aurp_device_hide.go` | none | choose route, hop count, rewrite, filter | `Policy`, `Forwarding` |
| Loop probe | `router/aurp_loop.go` | investigations by token and by route | start, attempt, return, retire | `PeerTable`; a confirmed loop is an action of `AURPPeer` too |
| Seed and AARP | `router/seed.go`, `aarp.go` | seed authority, cable range, address, mapping table | observe, promote, expire, probe, rebind | `PortStartup`; the mapping table in `Outbox` |
| EtherTalk port | `router/etalk_port.go` | packets that wait for an address | push, pop, resend, expire | `Outbox`, an implementation of `DatagramBuffer` |
| RTMP, ZIP | `router/rtmp.go`, `zip.go` | the route table's and the port's | one handler per packet | in part: `PortStartup`, `ZoneInfo` |
| NBP, AEP | `router/nbp*.go`, `aep.go` | none | lookups and echo | `Forwarding` |
| Encoding, configuration, status, devices | `atalk/`, `aurp/*.go`, `config.go`, `status/`, `main.go` | none that matters here | | not modelled, but for the rules `Policy` assumes |

One goroutine reads the UDP socket and hands routing packets to the goroutine of
the peer they come from (the *Handle loop*); each EtherTalk port has goroutines
for input, address resolution and buffered packets; the route table is shared,
and tells the peers about every change of a best route by calling them back on
the goroutine that made the change.

What is hard about it, and hardly reached by a test: datagrams that are lost,
duplicated or delayed past a retry; two one-way connections that share a retry
counter; a restart on one side while the other still holds the old connection;
route changes that fall between the packets of a snapshot; 16-bit counters that
wrap; callbacks from other goroutines; snapshots that are stale when they are
used; DNS that answers late and differently; addresses that change their meaning at
the ends of a tunnel; tables that are wrong while they converge; and what must
happen eventually once the network is quiet again. The hazards of `PROJECT.json` give the lines.

## Modules

`Transport` has the sequence numbers `1..MaxID` with `Succ` and `Pred`
(`MaxID` is 65535 in the code).

`AURPPeer` has two routers, each with one `AURPPeer` object for the other. The
record `peer[p]` has a field for each field of the Go struct that the control
depends on, under its Go name; `net` is the set of datagrams in flight,
`exported[p]` what router `p`'s table would advertise. Each case of the Handle
loop is an action:

| Action | Code |
| --- | --- |
| `StartHandle`, `Reconnect` | `Handle` up to its loop, `case <-reconnectCh` |
| `ReceiverRetry`, `ReceiverGivesUp`, `SendTickle`, `ProbeSender` | the branches of `rtickerTasks` |
| `SendUpdates`, `SenderRetry`, `SenderGivesUp` | the branches of `stickerTasks` |
| `HandleOpenReq` ... `HandleTickleAck` | the handlers of the same names |
| `DropOtherConnection` | `checkLocalConnID`, `checkRemoteConnID` |
| `HandleOutOfSequence` | `checkRemoteSeq` when the number is not the expected one |
| `ForwardTickle`, `ForwardTickleStore` | `sendTickleBeforeDataIfNeeded`, on the goroutine that forwards data |
| `Shutdown`, `ShutdownStep`, `ShutdownFails` | `gracefulSenderShutdown` |
| `InputEnds` | `AURPInput` returns, since its context is the one that ended `Handle` |
| `ConfirmLoop` | `handleConfirmedRoutingLoop` |
| `SendFails` | a failed UDP write, which ends the loop, between two events or in the middle of a handler (`HandlerFails`) |
| `ChangeRoute` | a best route changes and the observer is called |
| `Restart` | the process is killed and started again |
| `Lose`, `Unheard`, `ReceiverRD` | UDP, and a packet only other implementations send |

Abstractions of `AURPPeer`:

- A route is a network and a distance; `NoRoute` is every route that is not
  advertised. Zone information, the SZI and SUI flags, hiding and remapping are
  left out: they do not influence the variables kept here.
- There is no clock. A timer fires when nothing is in flight, or, at the cost of
  one `hasty` step, while something is. A retry interval of 10 s is far longer
  than a datagram lives; a hasty step is one that is delayed longer.
- `SendTickle` may fall into the retries of an outstanding packet, since the
  last-heard time counts from the last packet heard, but only once per outstanding
  packet unless `ShortTickle`: the default last-heard timeout of 90 s is longer than
  five retries, a configured one of 30 s is not.
- A closing peer hears datagrams until `InputEnds`; after that (`mode = "deaf"`) only
  its retry limit ends `gracefulSenderShutdown`.
- A handler that fails in the middle has kept what it did to the receiver state, the
  routes and the network; everything else is set again by the next `Handle`. One case is
  left out, a RI-Req that fails after the RI-Ack of an early RI-Upd was sent; and any
  other failed write ends the loop, also the RI-Req of `aurp_peer.go:1818`, after which
  the code goes on as if it had been lost.
- Whatever the environment does (lose, duplicate, delay, crash, change a route)
  draws on `budget`, one of `Budgets`, which says how often each may happen. The properties that
  hold "eventually" are about what happens when the environment has calmed down.
- `sendRetries` stops at the larger of the two limits, beyond which the code only
  compares it.
- A table is sent lowest network first, `ChunkSize` tuples per datagram.
- A restarted process has a connection ID not used before. The code draws a
  random one; the chance of meeting an old one is 1 in 65535.
- With `ConnWraps = FALSE` a receiver that has used all `MaxConn` connection IDs
  takes no step that needs another: a bound, not a behaviour of the code.
- A change of the table and the call of the observer are one step here.

`MCAURPPeer` names the instances: two routers `A` and `B`, what they export, and
the budgets.

`RouteTable` has the table that all goroutines share. `byClass`, `byNetwork`,
`zoneNames` and `networksByZone` are the four indexes of the code; `told` is what
observers were last told about the network a range starts at. The code has no
lock for a whole operation: it locks one index or one network at a time. So a call
is a record of local variables, `call[t]`, with a program counter, and each
critical section is an action:

| Action | Code |
| --- | --- |
| `BeginUpsert`, ..., `BeginReplaceZones` | the callers, and the checks before the first lock |
| `DeleteTarget`, `PruneExpiredRoutes` | the first critical section, which empties `byClass` |
| `Look`, `LookAgain` | `Lookup` (`lookupIgnoringAge`) for the best route before and after |
| `Find`, `Store`, `Take` | `find`, the write and the delete of `byClass` |
| `Remove`, `Append`, `Replace` | one network of the loops over `byNetwork` |
| `Clear` | `clearZonesForNetworkIfNoRoutes` |
| `SetZones` | the locked part of `AddZonesToNetwork`, `ReplaceZonesForNetwork` |
| `InformObservers` | `informObservers` |

Abstractions of `RouteTable`:

- Routes carry what the operations compare: target, range, distance and time of
  the last refresh. `Rank` is the order of targets with equal distance. Whether a
  network is extended, and traffic counters, are left out.
- Equal copies of a route in one list are one element of a set.
- Ranges overlap only if they start at the same network.
- Distances above 15 and inverted ranges, which are rejected at once, do not occur.
- A call is over long before the route it stores expires (`NoCallOutlastsAge`:
  microseconds against ten minutes). Otherwise time passes at any moment.
- With `Concurrent = FALSE` a call begins when no other is running.

`MCRouteTable` has the goroutines: `rtmp` (a port that hears an AppleTalk router),
`aurp` (a peer's Handle loop), `maint` (`RunMaintenance`) and `peers` (the peer
table, when the address of a peer changes).

`TableLocks` has what `RouteTable` leaves out, the nesting of the locks: an
operation is the sequence of its lock operations (`Locked`, `RLocked`), and
`sync.RWMutex` is modelled as Go documents it: readers that come after a waiting
writer block. All calls are for the same network and class, which is the worst
case, since no operation holds two of either. `MCTableLocks` has two goroutines
that change the table and one that reads it.

`PortStartup` has the ports of the routers on one cable, each with its four
goroutines. `seed[r]` and `aarp[r]` are the Go structs; `loop[r]` has the locals of
`RunSeedState`; `wire` is the set of frames under way.

| Action | Code |
| --- | --- |
| `AARPTick`, `AARPRebind`, `AARPFrame` | the cases of the select in `AARPMachine.Run` |
| `SeedStart`, `SeedTick` | `RunSeedState`: before its loop; a tick up to the snapshot |
| `SeedAct`, `activateCableRange` | an observed range is rebound to and, when AARP owns it, activated |
| `SeedDecide`, `activateCableRange`, `SeedPromote`, `activateConfiguredZones` | the rest of the tick: wait, rebind to the configured range, or take over |
| `RTMPBroadcast` | `broadcastRTMPData` |
| `Serve` | `Serve` with the handlers of GetNetInfo, its reply and RTMP Data |
| `Lose`, `Crash`, `Foreign` | the cable, a router that stops, a router of another make |

Time is counted in AARP ticks and seed ticks: `SeedPeriod` of the one make one of the
other, and a frame crosses the cable, or is lost, before its sender's timer fires
again. Ages are numbers of seed ticks. The steps of a seed tick interleave with AARP and
with Serve, which may change the controller behind the snapshot; `RTMPBroadcast`, every
ten seconds, does not fall into the moment a seed tick takes. `activateCableRange` is one
step, since nothing that runs meanwhile depends on its middle.

`Outbox` has `Send` and what happens to a packet whose next hop has no hardware
address yet. A wait channel is an address with a generation; `learn` closes the
channel of the entry and begins the next. `Lookup` and `Push` are the two halves of
`Send`, between which the table may change; `Build`, `Refresh`, `resendAARPRequests`,
`outboxPop` and `SendNext` are the goroutine `Outbox` from one critical section to the
next. With `Prompt`, a packet whose channel was closed is on its way before the entry
expires again, 30 s later. `DatagramBuffer` says what this amounts to for a caller of
`Send`: a packet goes out once, now or later, and is given up only when it is late or
pushed out by younger ones. `KeepsPromise` is the refinement, with `held` all packets
that are being pushed, in an outbox or taken out of one.

`EtherTalkPort` puts the two side by side: packets come once the port has a route with
a zone.

`PeerTable` has the peer table with the goroutines that use it: resolution of names at
startup and by the periodic scan (`Visit`, `LookupIP`, `ResolveCandidate`, `Resolved`,
`setConfiguredCandidates`, `Wake`), the start and end of a peer's `Handle`
(`HandleCheck`, `HandleRun`, `Reconnect`, `GivesUp`, `Receive`, `HandleFails`,
`LoopDetected`), `AURPInput` (`InputRead`, `InputStart`, `InputPush`) and the loop
investigations (`startLoopInvestigation`, `Investigate`, `retireLoopInvestigation`,
`LoopProbeReturn`). A step is one critical section, or one access to an atomic. What
`Handle` does with packets is `AURPPeer`'s; here the receiver is open or unconnected,
after any packet. `unheard` marks a peer whose `Handle` a send error has ended and from
which no datagram has come since.
Backoff is a Boolean: how long it lasts is left to time. `MaxHandles` bounds how many
`Handle` goroutines of one peer are about to run.

`Policy` has the arithmetic of remapping, hiding, hop counts, distances and clusters,
as operators. Rules are a list in the order of the configuration, of which the first that
applies is taken; `ValidRules` is what `LoadConfig` admits: disjoint local ranges, and
disjoint remote ranges only among rules with the same selector, though two selectors
(`b` and `cfg:b`) may stand for one peer.

`ZoneInfo` has a zone list on its way from an AppleTalk router by ZIP to router B and
from there by AURP to router A: the zone part of `handleRIRsp` and `handleRIUpd`
(`HandleRIRsp`, `HandleNA`, `HandleND`), `HandleZIReq`, `HandleZIRsp`,
`RetryIncompleteZoneInfo`, and `HandleRTMP`, `HandleZIPReply` at B. The connection
below is a number, and its routing packets are not lost: that is `AURPPeer`. After a
route was withdrawn at B it does not come back before A was told, and B queries a
network by ZIP only before it has announced it. Zone names are numbers of one size, `fit`
of which fill a datagram.

`Forwarding` has packets that cross an internet of routers, cables and tunnels:
`ServeForward`, `ServeLocal` and `FromTunnel` are what a router does with a packet from
a cable, for itself, and from a tunnel; `HostReceives` is a host that answers
(external); `Churn` changes the tables to any others of the scenario. A network is one
number, an address its network, a LkUp-Reply has one tuple, a checksum is the tuple of
the fields it was computed from. Where several routes are equally good, any is taken.
A packet carries the cables it is really about (`from`, `to`) and the number of routers
it has passed (`steps`), which the code does not see.

`AURPTunnel` composes the two: A's table in `Forwarding` is what `ZoneInfo` has learned,
and a host at A repeats a name lookup until it is answered. `MCEtherTalkPort`,
`MCPeerTable` and `MCAURPTunnel` name the scenarios; a behaviour is about one of them.

## Runs

Runs that pass:

| Run | Shows |
| --- | --- |
| `peer_safety` | type correctness, `OutstandingPacket`, `OneOutstanding`, `FreshConnections`, `NoRoutesUnlessOpen` for tables of two chunks and data that tickles: with two hasty timers, with one and a duplicated datagram, and with any two of a crash in mid-flight, a failed write, in the middle of a handler too, and a foreign Router Down |
| `peer_converge` | both routers end up with each other's routes after a loss and a change, and after a restart and a change; after a shutdown or a confirmed loop the other router has dropped the routes. Distances 1 and 14 with weight 1, so that one route is beyond the limit |
| `peer_chunks` | the same, in the end, for a table of two datagrams, interrupted by a restart and a duplicate, by two restarts, two losses, a failed write or a shutdown; its sender, which asks for another protocol version, never gets a connection or a route itself |
| `table_sequential` | without overlap and ageing, every operation leaves the route indexes and the observers in agreement, and zones go with the last route |
| `table_ageing` | with ageing, observers learn of every expiry, if a refresh brings the old distance |
| `table_owners` | overlapping calls for different targets, and pruning during a refresh, leave the route indexes in agreement; the zone indexes agree at any moment |
| `locks_return` | the calls that change the table or read its zones never all wait for one another, and leave nothing locked |
| `port` | on seven cables (hard, soft and non-seed ports, a crash, a lost frame, an unlucky draw, a foreign router, traffic): no two nodes share an address; a soft seed has authority only with an address in its range, and the range the cable's and routed, with its zones once the promotion is complete; a cable with a soft seed gets an authority again; every port comes up and a soft seed yields to a hard one; waiting packets have a goroutine that knows of them and are treated as `DatagramBuffer` promises |
| `peers` | in six scenarios (changing DNS, two names for one host, open peering, failing sends, loops): a peer is found under its name and under the address it uses, identities are never taken over, the two maps of investigations agree, only a tunnel's own Probe disables it, and in the end every usable name has a peer whose `Handle` runs, unless its tunnel is disabled or it is `Deserted` (see below) |
| `tunnel` | zone lists arrive whole, never put together from lists of different lengths, and in the end if they do not change; no need is forgotten, a loop is suspected only on a whole list; what reaches a host was meant for it, through remapping with rules that overlap, clusters and hiding; checksums hold in tunnels and at hosts; with weighted tunnels no packet passes more routers than it counts; and lookups, answers and data arrive, also while A still has to learn B's networks |

Runs that show a disagreement between the code and what is written about it (the
findings of `PROJECT.json` quote the lines):

| Run | Shows |
| --- | --- |
| `locks_broadcast` | `RoutesForZone` takes a read lock twice and deadlocks with a writer in between |
| `zones_incomplete` | the zones of a remapped network are not requested |

### Other deviations

TLC finds these with one of the configurations changed as given (with
`SPECIFICATION Spec` for an INVARIANT, and no other property); `PROJECT.json` lists the
hazards behind them.

- `aurp_peer.go:322-324` discards a change that "leaves the remote peer with exactly
  the same exported view it started with". A withdrawal queued before the RI-Rsp
  snapshot is cancelled by the route's return, and the receiver never gets the route.
  `peer_converge` with `Dists = {1}`, `Weight = 0`, `MaxConn = 5`,
  `Budgets <- TwoChanges`, `INVARIANT SettledViewsAgree`.
- A sender at its retry limit closes (`aurp_peer.go:1110`) but keeps answering
  Tickles, so the receiver does not reconnect; `docs/RFC1504-CONFORMANCE.md:7-9`
  promises recovery. `peer_converge` with `Dists = {1}`, `Weight = 0`, `MaxID = 3`,
  `MaxConn = 3`, `Initial <- Nothing`, `Budgets <- LossesAndChange`,
  `PROPERTY EventuallyViewsAgree`. (`ProbeSender` counts its first send as a try:
  `peer_chunks` with `Budgets <- LossAndChange` needs one loss only.) The next two change
  the first of these configurations:
- A late RI-Ack of an earlier connection connects a sender that has no connection ID
  (`checkRemoteConnID` accepts any); it then drops every Open-Req. With
  `Initial <- OnlyA`, `Budgets <- OneSendFailure`, `MaxID = 4`, `MaxConn = 5`.
- With a last-heard timeout below the length of a retry sequence, Tickles keep
  resetting the shared retry counter and an outstanding packet never gives up. With
  `ShortTickle = TRUE`, `Budgets <- LossAndChange`.
- A send error leaves a receiver Connected with its routes and without a loop. When the
  other router then stops, no datagram comes that would start the loop again, and the
  routes stay. `peer_chunks` with `Budgets <- FailureAndShutdown`,
  `PROPERTY EventuallyViewsAgree`.
- For the same reason the scan does not reconnect such a peer: it looks at peers whose
  receiver is unconnected (`aurp_peer_table.go:647`), though `:607-608` says it looks "for
  configured peers that are disconnected, and attempts to connect them". `peers` with
  `PROPERTY ScanReconnects`. `PeersSettle` calls these peers `Deserted`.
- `Forward` stores the receiver state from another goroutine than the Handle loop,
  which has moved on. The first configuration with `TickleBeforeData = TRUE`,
  `Budgets <- OneShutdown`, `PROPERTY TickleFromConnected`.
- An expired route is refreshed at a worse distance before it is pruned; observers keep
  the old one, against `route_table.go:250-252`. `table_ageing` with `Dists = {1, 2}`,
  `MaxClock = 1`, `MaxCalls = 2`, `INVARIANT ObserversAgree`. With
  `INVARIANT ListedZonesRoutable`: `AllZoneNames` lists a zone without a valid route.
- Zones are cleared between the two halves of a refresh, against `zones.go:110-111`.
  `table_owners` with `Threads = {rtmp, aurp}`, `Networks = {1}`, `Ranges <- One`,
  `MaxClock = 0`, `PROPERTY ZonesOutliveRoutes`. With `INVARIANT ObserversAgree`:
  overlapping calls inform the observers in the wrong order. With
  `Threads = {aurp, peers}` and `INVARIANT IndexesAgree`: `DeleteTarget` by the peer
  table overtakes `UpsertRoute` by the Handle loop and leaves a route in the forwarding
  index.
- A list that has grown while it was collected is answered with another total, which
  `applyExtendedZIRsp` rejects with every retry (`aurp_zone.go:375`).
  `zones_incomplete` with `Setups <- Grown`, `Worlds <- GrownWorlds`.
- Pieces of an extended ZI-Rsp carry the length of their list and nothing else of it: a
  late piece of an earlier list of the same length is put together with pieces of the
  current one. `tunnel` with `INVARIANT NeverMixed`. `WholeLists` says what holds
  nevertheless, and that whole lists are published where no two have one length. A
  collection that grows beyond its length is deleted (`aurp_zone.go:401`) and not asked for
  again, which `NeverForgotten` exempts; it takes longer lists than the scenarios have.
- A full `ReceiveCh` of a tunnel that a loop has disabled stops `AURPInput` for all
  peers; `docs/RFC1504-CONFORMANCE.md:76-77` asks for bounded receive queues. `peers`
  with `Setups <- Blocked`, `PROPERTY InputGoesOn`.
- `broadcastRTMPData` sets the cable range before `activateCableRange` has compared it
  with the old one, whose direct route then stays;
  `router/phase2_addressing_test.go:149` calls that "obsolete direct route remained
  after range replacement". `port` with `Setups <- Replaced`,
  `INVARIANT OneDirectRoute`.
- `outboxPop` puts an outbox back under a channel that has another one by now, which is
  lost. `port` with `Prompt = FALSE`, `MaxLearn = 2`, `PROPERTY KeepsPromise`.

Seen in the code while modelling, and left out of the scenarios or allowed by the
properties:

- A send error ends `Handle` with the receiver state as it was, and ends the `Outbox`
  goroutine for good; a check of `tunnelDisabled` before the compare-and-swap of
  `running` lets a just disabled tunnel run once more (`aurp_peer.go:771`).
- `ResolveConfiguredPeer` creates a peer before it fails at a later candidate;
  `setConfiguredCandidates` accepts the router's own address; a peer that open peering
  has created keeps a configured name from getting its address.
- `Rebind` drops a newer range while an older one waits, and repeating it restarts
  probing; a seed conflict lasts until the process ends; two soft seeds that hear each
  other both yield and one comes back after the timeout.
- The receiver of ZIP Extended Replies does not compare the announced count: a network
  with some of its zones is not asked for again. AURP does not renew a complete list.
- `handleNBPFwdReq` stops at the first port with the zone unless the router itself
  matches the lookup, keeps the checksum of a request from a cable whose function it
  changes (which `ChecksumsHold` exempts: a `LkUp` or `FwdReq` at hosts), and a FwdReq from a cable router for another cable of this router is
  broadcast there. `AURPInput` compares with the configured range of a port, not with
  the learned one (`aurp.go:179`).
- With the default weight 0 hop counts do not grow in tunnels (the comment at
  `aurp.go:198-202` says so): three routers with wrong tables can pass a packet round
  without end, and so can hop-count reduction. `HopsCount` is about positive weights.
- `handleClusteredNBPFwdReq` ends with the first error of `Forward`. The errors the model
  has come from the hop count and are the same for all members.
- ND and NRC events are remapped by the first rule for their first network, NA and NDC by
  the first that holds the whole range: where rules overlap they may differ
  (`RangeFollowsNetworks`).
- `HandleRTMP` ends at the first tuple `UpsertRoute` rejects.
- The loops `n <= NetEnd` of the route table do not end for a range that ends at 65535.
  `LoadConfig` refuses it for a port; ranges in routing packets are not checked.
- Every send, of data too, sets `lastSend`, which the retry timers of both roles read
  (`aurp_peer.go:2378`): steady traffic can postpone a retransmission. `AURPPeer` has no
  clock and includes any one delay, but not an endless one.

### Bounds

Two routers are the whole AURP protocol: an `AURPPeer` object talks to one other.
`RetryLimit = 1` stands for 5 and gives each wait a retry and a limit; `MaxID` 3 or 4
makes sequence numbers wrap within a run; one or two networks with `ChunkSize = 1` make
tables of one and of two datagrams; a budget of one or two per kind of fault is what
TLC can explore with all interleavings; a run takes each of its budgets in turn.
Combinations of more faults than a run's budget are not explored by TLC; the proofs
have no such bound.

The table runs have two targets, up to three networks and two or three calls per
thread: a range that shrinks, a competing route and a zone that goes need no more.
`MaxAge = 0` lets a route expire with the next tick.

`port` has two routers, one-network ranges and three node numbers: two that want one
address, one that is taken and one that is free. `ProbeLimit = 2` (10 in the code)
survives one lost frame, `SeedPeriod = 6` leaves time for a reroll between seed ticks,
`DelayTicks = 1` and `TimeoutTicks = 2` keep their order. Three packets for one host
overflow an outbox of two. `peers` has two names, two remote addresses and our own; a
queue of one is full with the second packet; two attempts are a first and a last one.
In `tunnel`, lists have up to three zones, two or one to a datagram, so that an answer
has up to three pieces, and one network has two lists of the same length in turn; networks
with the same number at three sites make remapping necessary, two rules for one site
overlap, and a chain of a cable router and two tunnels is long enough for every
order of counting, weighting and reducing.

### Fairness

Packets that are not lost arrive, a Handle loop with an event takes it (weak fairness:
each is a goroutine that Go schedules). A ticker fires every second whatever else
happens, and the peer table signals every ten seconds, so a timer branch that is
enabled again and again is taken (strong fairness of `RTickerTasks`, `STickerTasks`,
`Reconnect`). Nothing is assumed of the environment. In `RouteTable` a call that has
begun goes on, and pruning, which a ticker starts every 30 seconds, is strongly fair:
other calls may keep it from running for a while.

The other modules follow the same rule: weak fairness for goroutines, strong fairness
for what a ticker does, since events of other kinds may disable it for a moment
(`AARPTick`, `SeedTick` and `RTMPBroadcast` in `PortStartup`, where a seed tick that has
begun goes on, `SeedGoesOn`; the scan's visits and
resolutions in `PeerTable`, the retries of `ZoneInfo`). In `PeerTable`, `Reconnect` and
`LoopDetected` are cases of one select with the others, and Go chooses among ready
cases at random. `Outbox` has no fairness: its properties are about safety.

Deadlock is checked except where a run can really end: `peer_converge` and `peer_chunks`,
where routers may be gone, and `peer_safety` with `ConnWraps = FALSE`, where a receiver may
have used up its connection IDs. It is not checked in the table runs either, where
every thread has a bounded number of calls, nor in `port`, `peers`, `tunnel` and
`zones_incomplete`, where a settled cable, peer table or internet has nothing left to
do.

## Proofs

The theorems on `AURPPeer` hold for any finite set of networks, any distances below 15, any
limits, chunk size, `MaxID >= 3`, and any budget: any number of losses,
duplicates, crashes and changes.

- `AURPPeer_proofs`: `TypeCorrect` (`TypeOK`) and `PacketToRepeat`
  (`OutstandingPacket`). The two are proved together as `Typed`: the type of a
  repeated datagram depends on the packet being there, and an RI-Rsp that is
  resumed must be one. First come lemmas on what each piece of a handler (`Sent`,
  `SendNextRIRsp`, `DisconnectReceiver`, ...) does to the type and to the
  outstanding packet, then one lemma per action.
- `AURPConnection_proofs`: `ConnectionsStayApart` (`FreshConnections`) and
  `NoRouteOfAClosedConnection` (`NoRoutesUnlessOpen`), on the assumption
  `ConnWraps = FALSE`. `NoRoutesUnlessOpen` is not inductive: an RI-Rsp of the
  current connection that arrived before the Open-Rsp would install routes. That
  none exists follows from `FreshConnections`: no datagram, and no packet kept
  for repetition, belongs to a connection that is not open yet. The inductive
  invariant `Fresh` is both together with `Typed`. Each action is shown to do
  one of a few things to its receiver role (`RecvOK`), to its sender role
  (`SendOK`) and to the network (`OutOK`).
- `AURPSequence_proofs`: `OnePacketOutstanding` (`OneOutstanding`), an action
  property, from `Typed`: only `HandleRIAck` moves from one wait to another.

- `RouteTable_proofs`: `ZoneIndexesStayInAgreement` (`ZoneIndexesAgree`), for any
  number of threads, networks and zones and any interleaving. The invariant is
  inductive once it is known that the indexes are functions on all networks: both
  change in one critical section, to what `Reindexed` makes of the names the
  network has in that very section.

The assumption `ConnWraps = FALSE` is needed: after 65535 reconnections within
the life of one datagram, a packet of an old connection could be taken for one of
the new. In `peer_safety` TLC checks under it.

The proofs about the data path hold for any set of routers, cables and scenarios that
satisfies `Configured`: rules as `LoadConfig` admits them, weights below 15.

- `Forwarding_proofs`, on `Policy`: which numbers are translated back into the peer's own
  (`RemapReturns`: exactly those of networks that a rule brings here, or whose number no
  rule gives to another), that these networks stay different (`RemapKeepsApart`), when a
  remapped cable range is the range of its remapped networks (`RangeFollowsNetworks`:
  exactly when no earlier rule overlaps it, for ranges that a rule holds as a whole),
  a route is hidden exactly when one of its networks is
  (`RangeHiddenWithNetwork`), a reduced hop count suffices for the way that remains
  (`ReductionSuffices`), an accepted distance has grown (`DistanceGrows`). The remapping
  theorems are equivalences for every list `ValidRules` admits. The way here takes the
  first of several rules; the way back has one at most, since local ranges are disjoint
  (`OneRule`). That there is a first rule is the well-foundedness of the numbers
  (`FirstExists`).
- `Forwarding_proofs`, on `Forwarding`: `FwdTypeCorrect` (`FwdTypeOK`) and `HopsAreCounted`
  (`HopsCount`). `HopsCount` is not inductive as it stands: the hop a packet counts on
  entering a tunnel stands for the router at its other end, so a packet inside a tunnel
  must have counted one more than it has passed. `Good` says so of one packet; the
  lemmas show it of what each operator (`SendOn`, `ForwardToPeer`, `Output`,
  `LeaveTunnel`, `handleNBPFwdReq`, ...) makes of a good packet, and the invariant is
  `FwdTypeOK` with every packet good.

The proofs about the outboxes hold for any finite set of packets, any next hops, any
limit above 0 and any number of times an address is learned.

- `Outbox_proofs`: `OutboxTypes` (`OutTypeOK`), `PoppedOutboxesExist`
  (`CasesHaveOutboxes`) and `WakeupsArrive` (`NoLostWakeup`), for the port with its
  startup (`Spec` of `EtherTalkPort`, which leaves the outboxes alone). The invariant
  `Inv` adds that the goroutine has cases only while it selects: that is why a channel it
  deletes itself cannot be among them, and only it deletes.
- `Push_proofs` and `Promise_proofs`: `SendKeepsItsPromise` (`KeepsPromise`), the refinement of
  `DatagramBuffer`, on the assumption `Prompt`. It needs two more invariants. `Apart`: a
  packet is in one place only, and in an outbox of its own next hop; without it,
  dropping an outbox could also drop a packet that waits elsewhere. `Current`: a closed
  channel that packets wait on belongs to a valid entry, so `outboxPop` always finds the
  address. One lemma per action says which step of the buffer it is; `Push` into a full
  outbox is `PushOut`, because a sequence without duplicates has as many packets as places
  (`CountRange`).

Only model-checked: liveness and ENABLED, which are beyond the prover
(`EventuallyViewsAgree`, `AuthorityReturns`, `CableSettles`, `PeersSettle`,
`ZonesArrive`, `Arrives`); `SettledViewsAgree` and `RefusedVersion`; the other
properties of `RouteTable`, `Forwarding`; all of `TableLocks`, `PortStartup`,
`PeerTable` and `ZoneInfo`.

## Not modelled

- The tuples of RTMP Data packets (`buildRTMPTuplesWithClusters`, split horizon, the
  answers to RTMP requests) and the zone-list transactions of ZIP over ATP: functions of
  the table that change nothing.
- Ranges in `Forwarding`, and overlapping ranges with different starts in
  `RouteTable`.
- The export filters in `AURPPeer`: hidden networks and clusters change which routes
  exist, which `exported` already leaves open.
- The route table's callbacks together with the sender's event queue: `ChangeRoute`
  takes their place, and `ObserversAgree` says what they bring.
- Encoding and decoding, validation of the configuration beyond the assumptions named
  above, status pages and metrics, devices and the start of the process. They have no
  interleavings, and the repository's unit and fuzz tests reach them.
