------------------------------ MODULE ZoneInfo ------------------------------
(***************************************************************************)
(* How a zone list travels: from an AppleTalk router X by ZIP to jrouter   *)
(* B, which hears X's RTMP broadcasts (router/rtmp.go, router/zip.go), and *)
(* from B by AURP zone information to jrouter A (router/aurp_zone.go and   *)
(* the ZI and RI handlers of router/aurp_peer.go).  A route is valid, and  *)
(* exported, only once its network has zones.                              *)
(*                                                                         *)
(* A list that does not fit one datagram travels in pieces, which may be   *)
(* lost, duplicated or reordered.  ZIP's receiver adds each piece to what  *)
(* it has.  AURP's receiver collects the pieces in pendingZoneInfo and     *)
(* asks again until it has as many zones as every piece announces.         *)
(*                                                                         *)
(* The connection and the acknowledged routing information below are those *)
(* of AURPPeer: here they are connection numbers, and steps that need no   *)
(* repetition.  Zone names are numbers, all of one size.                   *)
(***************************************************************************)
EXTENDS Policy

CONSTANTS
  Networks,    \* network numbers of B's cables and of cables behind X, one each
  Locals,      \* the numbers they may have at A
  Zones,
  None,
  NetsPerReq,  \* networks that fit a ZI-Req
  Setups       \* scenarios

ASSUME ZoneAssumption ==
  /\ Networks \subseteq Nat /\ Locals \subseteq Nat /\ Zones \subseteq Nat
  /\ IsFiniteSet(Zones) /\ IsFiniteSet(Networks)
  /\ NetsPerReq \in Nat \ {0}

VARIABLES
  setup,     \* lists: the zone lists; direct: networks that are cables of B itself;
             \* fit: zones that fit a datagram; rules: A's remap rules; home: the zones
             \* of A's cable; left: faults
  zip,       \* ZIP Replies on their way to B
  theirs,    \* B's zone list of each network, {} without a valid route
  had,       \* every list B has had for a network
  synced,    \* whether A has had the RI-Rsp of this connection
  announced, \* networks B has announced on it
  conn,      \* its number
  requests,  \* requests on their way to B
  responses, \* ZI-Rsp packets on their way to A
  routes,    \* A's networks learned from B
  zones,     \* A's zone list of each
  pending,   \* pendingZoneInfo
  suspects,  \* networks A has started a loop investigation for
  left       \* faults left

wireVars == <<zip, requests, responses>>
senderVars == <<theirs, had>>
receiverVars == <<routes, zones, pending, suspects>>
connVars == <<synced, announced, conn>>
zoneVars == <<setup, zip, theirs, had, synced, announced, conn, requests, responses,
              routes, zones, pending, suspects, left>>

Faults == {"loss", "dup", "hasty", "withdraw", "disconnect"}

Spend(k) == left[k] > 0 /\ left' = [left EXCEPT ![k] = @ - 1]

\* A datagram is taken from the network, or delivered while a copy stays.
Taken(S, m, T) ==
  \/ T = S \ {m} /\ UNCHANGED left
  \/ T = S /\ Spend("dup")

\* The pieces of S with at most k elements, in ascending order.
Chunks(S, k) ==
  LET rank(z) == Cardinality({y \in S : y < z})
  IN {{z \in S : rank(z) \div k = i} : i \in {rank(z) \div k : z \in S}}

\* The pieces when the order is that of a Go map.
AnyChunks(S, k) ==
  LET Order == {f \in [S -> 0..(Cardinality(S) - 1)] : \A y, z \in S : f[y] = f[z] => y = z}
  IN {{{z \in S : f[z] \div k = i} : i \in {f[z] \div k : z \in S}} : f \in Order}

-----------------------------------------------------------------------------
\* B's cable: HandleRTMP and ZIP.

\* X's Reply to a ZIP Query, Extended when the list needs more than one.  X lists
\* its zones in the order of a map.
handleZIPQuery(n) ==
  \E pieces \in AnyChunks(setup.lists[n], setup.fit) :
    zip' = zip \cup {[net |-> n, zones |-> c] : c \in pieces}

\* B queries the networks it has no zones of.  Replies arrive within the ten
\* seconds between two RTMP broadcasts.
HandleRTMP(n) ==
  /\ n \notin setup.direct /\ theirs[n] = {} /\ n \notin announced
  /\ \A m \in zip : m.net # n
  /\ handleZIPQuery(n)
  /\ UNCHANGED <<setup, senderVars, connVars, requests, responses, receiverVars, left>>

\* handleZIPReply: every Reply adds its zones.
HandleZIPReply(m) ==
  /\ theirs' = [theirs EXCEPT ![m.net] = @ \cup m.zones]
  /\ had' = [had EXCEPT ![m.net] = @ \cup {theirs'[m.net]}]
  /\ Taken(zip, m, zip')
  /\ UNCHANGED <<setup, connVars, requests, responses, receiverVars>>

\* X stops: the route expires at B, and its zones go with it.
Withdraw(n) ==
  /\ n \notin setup.direct /\ theirs[n] # {} /\ Spend("withdraw")
  /\ theirs' = [theirs EXCEPT ![n] = {}]
  /\ zip' = {m \in zip : m.net # n}
  /\ UNCHANGED <<setup, had, connVars, requests, responses, receiverVars>>

-----------------------------------------------------------------------------
\* Routing information at A.

Here(n) == remapInboundNetwork(setup.rules, n)
There(m) == remapOutboundNetwork(setup.rules, m)

newPending == [total |-> 0, zones |-> {}]

\* A need that is not noted.
NeverMarked(p) == p

\* What has been collected is kept.
markZoneInfoPending(p) == IF p = None THEN newPending ELSE p

\* The Ack asks B for the zones of everything it acknowledges.
SendZoneInfo(N, needed) ==
  requests' = IF needed THEN requests \cup {[conn |-> conn, nets |-> N]} ELSE requests

\* An RI-Rsp.  Routes are stored under their numbers at A; which networks need zones
\* is asked with the numbers in the packet.
HandleRIRsp ==
  LET N == {n \in Networks : theirs[n] # {}}
      needs == {n \in N : n \in routes' /\ zones[n] = {}}
  IN /\ ~synced /\ synced' = TRUE
     /\ announced' = N
     /\ routes' = routes \cup {Here(n) : n \in N}
     /\ pending' = [m \in Locals |->
          IF m \in needs THEN markZoneInfoPending(pending[m]) ELSE IF m \in N THEN None ELSE pending[m]]
     /\ SendZoneInfo(N, needs # {})
     /\ UNCHANGED <<setup, zip, senderVars, conn, responses, zones, suspects, left>>

\* An RI-Upd with an NA event: the need is found with the number at A, and noted with
\* the one in the packet.
HandleNA(n) ==
  LET needed == zones[Here(n)] = {}
  IN /\ synced /\ theirs[n] # {} /\ n \notin announced
     /\ announced' = announced \cup {n}
     /\ routes' = routes \cup {Here(n)}
     /\ pending' = IF n \in Locals
                   THEN [pending EXCEPT ![n] = IF needed THEN markZoneInfoPending(@) ELSE None]
                   ELSE pending
     /\ SendZoneInfo({n}, needed)
     /\ UNCHANGED <<setup, zip, senderVars, synced, conn, responses, zones, suspects, left>>

DeleteRoute(n) == routes \ {n}

\* An RI-Upd with an ND event.  The last route of the network takes its zones along.
HandleND(n) ==
  /\ synced /\ theirs[n] = {} /\ n \in announced
  /\ announced' = announced \ {n}
  /\ routes' = DeleteRoute(Here(n))
  /\ zones' = [zones EXCEPT ![Here(n)] = {}]
  /\ pending' = [pending EXCEPT ![Here(n)] = None]
  /\ UNCHANGED <<setup, wireVars, senderVars, synced, conn, suspects, left>>

disconnectReceiver ==
  /\ synced /\ Spend("disconnect")
  /\ conn' = conn + 1 /\ synced' = FALSE /\ announced' = {}
  /\ routes' = {}
  /\ zones' = [m \in Locals |-> {}]
  /\ pending' = [m \in Locals |-> None]
  /\ UNCHANGED <<setup, wireVars, senderVars, suspects>>

-----------------------------------------------------------------------------
\* Zone information.

\* buildZIRspPackets: a list that fits one packet goes in a nonextended ZI-Rsp, a
\* longer one in extended ones that carry the number of its zones.
buildZIRspPackets(N) ==
  UNION {LET total == Cardinality(theirs[n])
         IN {[conn |-> conn, net |-> n, ext |-> total > setup.fit, total |-> total, zones |-> c]
              : c \in Chunks(theirs[n], setup.fit)} : n \in N}

\* handleZIReq and the Send Zone Information flag of handleRIAck, at B.
HandleZIReq(m) ==
  /\ Taken(requests, m, requests')
  /\ responses' = IF m.conn = conn THEN responses \cup buildZIRspPackets(m.nets) ELSE responses
  /\ UNCHANGED <<setup, zip, senderVars, connVars, receiverVars>>

\* noteLoopIndicativeNetwork: a network with the zones of A's own cable.
Suspicious(n, list) == IF list = setup.home THEN suspects \cup {n} ELSE suspects

\* The list of n is complete.
Publish(n, list) ==
  /\ zones' = [zones EXCEPT ![n] = list]
  /\ pending' = [pending EXCEPT ![n] = None]
  /\ suspects' = Suspicious(n, list)

\* A list applied to a network that has no route from B.
AnyNetwork(n) == n \in Locals

ownsAURPNetwork(n) == n \in routes

applyNonExtendedZIRsp(n, m) ==
  IF ownsAURPNetwork(n) THEN Publish(n, m.zones)
                        ELSE UNCHANGED <<zones, pending, suspects>>

Complete(collected, total) == Cardinality(collected) = total

\* An extended piece is dropped when its total is not the one of the pieces before it,
\* and too many zones throw the collection away.
applyExtendedZIRsp(n, m) ==
  LET p == IF pending[n] = None THEN newPending ELSE pending[n]
      total == IF p.total = 0 THEN m.total ELSE p.total
      collected == p.zones \cup m.zones
  IN IF ~ownsAURPNetwork(n) \/ total # m.total
     THEN UNCHANGED <<zones, pending, suspects>>
     ELSE IF Complete(collected, total) THEN Publish(n, collected)
     ELSE /\ pending' = [pending EXCEPT ![n] =
               IF Cardinality(collected) > total THEN None ELSE [total |-> total, zones |-> collected]]
          /\ UNCHANGED <<zones, suspects>>

HandleZIRsp(m) ==
  /\ Taken(responses, m, responses')
  /\ IF m.conn # conn THEN UNCHANGED <<zones, pending, suspects>>
     ELSE IF m.ext THEN applyExtendedZIRsp(Here(m.net), m)
     ELSE applyNonExtendedZIRsp(Here(m.net), m)
  /\ UNCHANGED <<setup, zip, senderVars, connVars, requests, routes>>

\* Nothing of this connection is on its way.  Datagrams take less than the retry
\* interval, except when a fault delays them.
Calm == \A m \in requests \cup responses : m.conn # conn

\* Once a list has begun to arrive it is not asked for again.
OnlyUntouched(n) == pending[n] # None /\ pending[n].zones = {}

Incomplete(n) == pending[n] # None

\* retryIncompleteZoneInfo, on a tick of the receiver that finds D due.
RetryIncompleteZoneInfo(D) ==
  /\ synced /\ D # {} /\ \A n \in D : Incomplete(n)
  /\ IF Calm THEN UNCHANGED left ELSE Spend("hasty")
  /\ pending' = [n \in Locals |-> IF ownsAURPNetwork(n) THEN pending[n] ELSE None]
  /\ requests' = requests \cup
       {[conn |-> conn, nets |-> c] : c \in Chunks({There(n) : n \in D \cap routes}, NetsPerReq)}
  /\ UNCHANGED <<setup, zip, senderVars, connVars, responses, routes, zones, suspects>>

-----------------------------------------------------------------------------
Lose ==
  /\ Spend("loss")
  /\ \/ \E m \in zip : zip' = zip \ {m} /\ UNCHANGED <<requests, responses>>
     \/ \E m \in requests : requests' = requests \ {m} /\ UNCHANGED <<zip, responses>>
     \/ \E m \in responses : responses' = responses \ {m} /\ UNCHANGED <<zip, requests>>
  /\ UNCHANGED <<setup, senderVars, connVars, receiverVars>>

ZoneInit ==
  /\ setup \in Setups /\ left = setup.left
  /\ zip = {} /\ requests = {} /\ responses = {}
  /\ theirs = [n \in Networks |-> IF n \in setup.direct THEN setup.lists[n] ELSE {}]
  /\ had = [n \in Networks |-> {theirs[n]} \ {{}}]
  /\ synced = FALSE /\ announced = {} /\ conn = 0
  /\ routes = {} /\ suspects = {}
  /\ zones = [m \in Locals |-> {}] /\ pending = [m \in Locals |-> None]

FromX == \E n \in Networks : HandleRTMP(n)
AtB == (\E m \in zip : HandleZIPReply(m)) \/ (\E m \in requests : HandleZIReq(m))
Routing == HandleRIRsp \/ \E n \in Networks : HandleNA(n) \/ HandleND(n)
AtA == \E m \in responses : HandleZIRsp(m)
Retry == \E D \in SUBSET Locals : RetryIncompleteZoneInfo(D)

ZoneNext ==
  FromX \/ AtB \/ Routing \/ AtA \/ Retry \/ Lose \/ disconnectReceiver
    \/ \E n \in Networks : Withdraw(n)

RetryOf(n) == \E D \in SUBSET Locals : n \in D /\ RetryIncompleteZoneInfo(D)

\* Goroutines run and datagrams arrive; the interval of a network that stays pending
\* passes, and some tick then finds it due.
ZoneFair ==
  /\ WF_zoneVars(Routing) /\ WF_zoneVars(FromX \/ AtB \/ AtA)
  /\ \A n \in Locals : SF_zoneVars(RetryOf(n))

ZoneSpec == ZoneInit /\ [][ZoneNext]_zoneVars
ZoneFairSpec == ZoneSpec /\ ZoneFair

-----------------------------------------------------------------------------
\* Every variable has its type; A holds routes only for networks announced on this
\* connection (disconnectReceiver forgets them all), and a collection that is still
\* pending has fewer zones than the pieces announce.
ZoneTypeOK ==
  /\ setup \in Setups /\ left \in [Faults -> Nat]
  /\ zip \subseteq [net : Networks, zones : SUBSET Zones]
  /\ theirs \in [Networks -> SUBSET Zones] /\ had \in [Networks -> SUBSET SUBSET Zones]
  /\ synced \in BOOLEAN /\ announced \subseteq Networks /\ conn \in Nat
  /\ requests \subseteq [conn : Nat, nets : SUBSET Networks]
  /\ responses \subseteq [conn : Nat, net : Networks, ext : BOOLEAN, total : Nat, zones : SUBSET Zones]
  /\ routes = {Here(n) : n \in announced} /\ routes \subseteq Locals /\ suspects \subseteq Locals
  /\ zones \in [Locals -> SUBSET Zones]
  /\ \A m \in Locals : pending[m] # None =>
       /\ pending[m] \in [total : Nat, zones : SUBSET Zones]
       /\ Cardinality(pending[m].zones) <= pending[m].total

\* No two of the lists B has had for n are as long as each other.  Pieces carry the length
\* of their list and nothing else of it, so a late piece of one such list is taken for a
\* piece of the other.
Unmixed(n) == \A K, L \in had[n] : Cardinality(K) = Cardinality(L) => K = L

\* A list B has had as a whole or, where lists of one length came one after the other, one
\* put together from those of its own length.
Whole(n, list) ==
  /\ list \subseteq UNION {L \in had[n] : Cardinality(L) = Cardinality(list)}
  /\ Unmixed(n) => list \in had[n]

\* A zone list at A belongs to a network A has from B, and is a list B has had as a whole:
\* pieces of lists that differ in length are never put together, and no late ZI-Rsp brings
\* zones to a network that is gone (applyNonExtendedZIRsp, applyExtendedZIRsp).  Nor is a
\* loop investigation started on a part of a list: B's was that of A's own cable
\* (noteLoopIndicativeNetwork).
WholeLists ==
  /\ \A m \in Locals : zones[m] # {} => \E n \in announced : Here(n) = m /\ Whole(n, zones[m])
  /\ \A m \in suspects : \E n \in Networks : Here(n) = m /\ Whole(n, setup.home)

\* What WholeLists leaves out, which applyExtendedZIRsp does not give: pieces of two lists
\* are never put together.
NeverMixed ==
  \A m \in Locals : zones[m] # {} => \E n \in announced : Here(n) = m /\ zones[m] \in had[n]

\* Zone information a route still needs is never forgotten: a network without zones is
\* in pendingZoneInfo, from where the ticker asks for it again.  Pieces of two lists of one
\* length are the exception, for applyExtendedZIRsp deletes a collection that grows beyond
\* the length announced.
NeverForgotten ==
  \A n \in announced : Unmixed(n) /\ zones[Here(n)] = {} => pending[Here(n)] # None

\* B's list has been the same since it first had one.
Steady(n) == Cardinality(had[n]) = 1

\* Every network that stays announced, and whose list has not changed, gets its zones in
\* the end, whatever is lost, duplicated or asked for too early (retryIncompleteZoneInfo).
ZonesArrive ==
  <>[](\A n \in announced : Steady(n) => zones[Here(n)] # {})

\* Every announced network gets its zones in the end.
RetryUntilComplete ==
  <>[](\A n \in announced : zones[Here(n)] # {})
=============================================================================
