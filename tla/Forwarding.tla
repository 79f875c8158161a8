----------------------------- MODULE Forwarding -----------------------------
(***************************************************************************)
(* How AppleTalk packets and name lookups cross an internet of jrouters:   *)
(* from cable to cable, to other AppleTalk routers and through AURP        *)
(* tunnels (router/router.go, the data path of router/aurp.go,             *)
(* AURPPeer.Forward, router/nbp.go, router/aurp_remap.go,                  *)
(* router/aurp_cluster.go, router/aurp_device_hide.go).                    *)
(*                                                                         *)
(* Every router numbers networks its own way, and remapping translates at  *)
(* the ends of a tunnel.  What the routers' tables hold is not explained   *)
(* here: a table may be wrong, and may change at any time.  A network is   *)
(* one number; an address is its network; node 0, any router of the        *)
(* network, is the field any.  A checksum is the tuple of the fields it    *)
(* was computed over, and 0 when there is none: it does not cover the hop  *)
(* count.                                                                  *)
(***************************************************************************)
EXTENDS Policy

CONSTANTS
  Routers,
  Cables,
  ZoneNames,
  Internets  \* scenarios: topology, configuration, first packets

VARIABLES
  internet, \* ports: each router's cables; number: what its routers call a cable; has,
            \* default: the zones of a cable; the configuration of each router: rules[r][q],
            \* import[r][q], export[r][q], hidden, weight, reduce, clusters, hides; the
            \* tables there may be; the first packets; the lookup a host repeats; what
            \* should arrive
  table,    \* the valid routes of each router
  packets,  \* packets under way
  arrived   \* what hosts have received: <<kind, cable>>

fwdVars == <<internet, table, packets, arrived>>

Kinds == {"data", "reply", "BrRq", "FwdReq", "LkUp", "LkUpReply"}
NBP == {"BrRq", "FwdReq", "LkUp", "LkUpReply"}

\* Where a packet is: in a frame to a router on a cable, in a frame to the hosts of a
\* cable, in a tunnel from a router to another.
AtRouter == {"router"} \X Cables \X Routers
AtHosts == {"hosts"} \X Cables
InTunnel == {"tunnel"} \X Routers \X Routers

\* from and to are the cables it really is about; steps counts the routers it has passed.
Packets ==
  [kind : Kinds, src : Nat, dst : Nat, any : BOOLEAN, hop : Hops, tuple : Nat, zone : ZoneNames,
   wild : BOOLEAN, sum : {<<>>} \cup (Kinds \X Nat \X Nat \X Nat), at : AtRouter \cup AtHosts \cup InTunnel,
   from : Cables, to : Cables, steps : Nat]

Sum(p) == <<p.kind, p.src, p.dst, p.tuple>>

Routes ==
  [start : Nat, dist : Nat, class : {"direct"}, via : Cables, zones : SUBSET ZoneNames] \cup
  [start : Nat, dist : Nat, class : {"etalk"}, via : AtRouter, zones : SUBSET ZoneNames] \cup
  [start : Nat, dist : Nat, class : {"aurp"}, via : Routers, zones : SUBSET ZoneNames]

\* What LoadConfig admits, and the first packets.
Configured(i) ==
  /\ i.ports \in [Routers -> Seq(Cables)] /\ i.number \in [Cables -> Nat]
  /\ i.rules \in [Routers -> [Routers -> Seq(Rules)]]
  /\ \A r, q \in Routers : ValidRules(i.rules[r][q])
  /\ i.weight \in [Routers -> 0..(maxRouteDistance - 1)] /\ i.reduce \in [Routers -> BOOLEAN]
  /\ i.tables \subseteq [Routers -> SUBSET Routes]
  /\ i.first \cup i.lookup \subseteq Packets
  /\ \A p \in i.first \cup i.lookup :
       p.at \in AtRouter /\ p.steps = 0 /\ p.sum \in {<<>>, Sum(p)}

ASSUME FwdAssumption == \A i \in Internets : Configured(i)

HasPort(r, c) == \E i \in DOMAIN internet.ports[r] : internet.ports[r][i] = c
Numbered(r, n) == \E i \in DOMAIN internet.ports[r] : internet.number[internet.ports[r][i]] = n

-----------------------------------------------------------------------------
\* The routing table: compareRoutePreference orders by distance, then class.

ClassRank == [direct |-> 0, etalk |-> 1, aurp |-> 2]

Prefer(a, b) ==
  a.dist < b.dist \/ (a.dist = b.dist /\ ClassRank[a.class] < ClassRank[b.class])

Best(R) == {a \in R : \A b \in R : ~Prefer(b, a)}

Lookup(r, n) == Best({t \in table[r] : t.start = n})

LookupAvoidingAURPTunnel(r, n, q) ==
  Best({t \in table[r] : t.start = n /\ ~(t.class = "aurp" /\ t.via = q)})

networksForZone(r, z) == {t.start : t \in {t \in table[r] : z \in t.zones}}

-----------------------------------------------------------------------------
\* Targets.  Each operator gives the packets that result, none when it is dropped.

\* A packet whose addresses the router has changed.
Rewritten(p, q) ==
  IF p.src = q.src /\ p.dst = q.dst /\ p.tuple = q.tuple THEN {p}
  ELSE IF p.sum \notin {<<>>, Sum(p)} THEN {} ELSE {[q EXCEPT !.sum = <<>>]}

\* EtherTalkPort.Send: to the host, or as a broadcast to the other routers.
SendOn(r, c, p) ==
  IF p.any THEN {[p EXCEPT !.at = <<"router", c, q>>] : q \in {q \in Routers \ {r} : HasPort(q, c)}}
           ELSE {[p EXCEPT !.at = <<"hosts", c>>]}

\* filterDeviceNBP: a LkUp-Reply of one tuple.
HiddenDevice(r, p, direction) == p.kind = "LkUpReply" /\ direction \in internet.hides[r]

remapOutboundDDP(r, q, p) ==
  Rewritten(p, [p EXCEPT !.dst = remapOutboundNetwork(internet.rules[r][q], @)])

\* AURPPeer.Forward.
ForwardToPeer(r, q, p) ==
  IF HiddenDevice(r, p, "export") THEN {}
  ELSE LET hop == applyAURPHopWeight(p.hop, internet.weight[r])
       IN IF hop = -1 THEN {}
          ELSE {[m EXCEPT !.hop = hop, !.at = <<"tunnel", r, q>>] : m \in remapOutboundDDP(r, q, p)}

\* A FwdReq that keeps its checksum.
KeepsChecksum(p) == p

normalizeAURPNBPFwdReqChecksum(p) == IF p.kind = "FwdReq" THEN [p EXCEPT !.sum = <<>>] ELSE p

\* prepareOutboundForRoute and Target.Forward.
ForwardTo(r, t, p) ==
  CASE t.class = "direct" -> SendOn(r, t.via, p)
    [] t.class = "etalk"  -> {[p EXCEPT !.at = t.via]}
    [] t.class = "aurp"   -> ForwardToPeer(r, t.via, normalizeAURPNBPFwdReqChecksum(p))

-----------------------------------------------------------------------------
\* Router.  Each operator gives the set of possible results.

Output(r, p) ==
  IF Lookup(r, p.dst) = {} THEN {{}} ELSE {ForwardTo(r, t, p) : t \in Lookup(r, p.dst)}

\* A packet that is forwarded with the hop count it has.
ForwardUncounted(r, p) == Output(r, p)

Forward(r, p) ==
  IF p.hop >= maxRouteDistance THEN {{}} ELSE Output(r, [p EXCEPT !.hop = @ + 1])

\* OutputFromAURP: hop-count reduction, and the limit for another router.
LeaveTunnel(r, t, p) ==
  IF p.hop >= maxRouteDistance /\ t.class # "direct" THEN {}
  ELSE LET hop == IF internet.reduce[r] /\ t.class # "aurp" THEN reduceAURPHopCount(p.hop, t.dist)
                  ELSE p.hop
       IN IF hop = -1 THEN {} ELSE ForwardTo(r, t, [p EXCEPT !.hop = hop])

\* What router r hides from its peer q, and q's networks that r does not want.
exportNetworkHidden(r, q, n) == networkHidden(internet.hidden[r] \cup internet.export[r][q], n)
importNetworkHidden(r, q, n) == networkHidden(internet.import[r][q], n)

OutputFromAURP(r, q, p) ==
  LET ways == LookupAvoidingAURPTunnel(r, p.dst, q)
  IN IF exportNetworkHidden(r, q, p.dst) \/ ways = {} THEN {{}}
     ELSE {LeaveTunnel(r, t, p) : t \in ways}

\* A choice of one result from each of the sets in f, all put together.
Together(f) ==
  {UNION {g[k] : k \in DOMAIN f} : g \in {g \in [DOMAIN f -> UNION {f[k] : k \in DOMAIN f}] :
                                            \A k \in DOMAIN f : g[k] \in f[k]}}

-----------------------------------------------------------------------------
\* Name binding.

\* A lookup multicast on a cable, to its hosts and its other routers.
ZoneMulticast(r, c, p) ==
  LET m == [p EXCEPT !.kind = "LkUp", !.dst = 0, !.any = TRUE]
  IN {[m EXCEPT !.at = <<"hosts", c>>]} \cup SendOn(r, c, m)

\* The answer of the router itself, with its address on the cable c.
helloWorldThisIsMe(c, p) ==
  IF p.wild /\ p.zone = internet.default[c]
  THEN {[p EXCEPT !.kind = "LkUpReply", !.src = internet.number[c], !.dst = p.tuple,
                  !.tuple = internet.number[c], !.any = FALSE, !.hop = 0, !.sum = <<>>,
                  !.from = c, !.to = p.from, !.steps = 0]}
  ELSE {}

\* Every port that has the zone.
AllPorts(r, p) == {i \in DOMAIN internet.ports[r] : p.zone \in internet.has[internet.ports[r][i]]}

\* handleNBPFwdReq goes through the ports that have the zone up to the first on which the
\* router itself does not answer, or cannot.
AskedPorts(r, p) ==
  {i \in AllPorts(r, p) :
     \A j \in AllPorts(r, p) :
       j < i => helloWorldThisIsMe(internet.ports[r][j], p) # {} /\ Lookup(r, p.tuple) # {}}

handleNBPFwdReq(r, p) ==
  Together([i \in AskedPorts(r, p) |->
    LET c == internet.ports[r][i]
    IN {ZoneMulticast(r, c, p) \cup R :
          R \in IF helloWorldThisIsMe(c, p) = {} THEN {{}}
                ELSE UNION {Output(r, m) : m \in helloWorldThisIsMe(c, p)}}])

\* handleNBPBrRq: for every network that has the zone, a LkUp on the cable if it is one of
\* the router's own (and the router's answer, on the cable of the request), else a FwdReq.
handleNBPBrRq(r, c, p) ==
  LET new == [p EXCEPT !.hop = 0, !.sum = <<>>, !.steps = 0]
      Ask(t) ==
        IF t.class = "direct"
        THEN {ZoneMulticast(r, t.via, [new EXCEPT !.src = internet.number[c]])
                \cup UNION {SendOn(r, c, m) : m \in helloWorldThisIsMe(c, p)}}
        ELSE Output(r, [new EXCEPT !.kind = "FwdReq", !.dst = t.start, !.any = TRUE])
  IN Together([n \in networksForZone(r, p.zone) |-> UNION {Ask(t) : t \in Lookup(r, n)}])

\* The network that stands for a cluster.
FirstMember(r, c, p) == {n \in {c[1]} : \E t \in table[r] : t.start = n}

\* handleClusteredNBPFwdReq: the lookup goes to every member that has the zone.  It ends
\* with the first error of Forward; the errors that are modelled, those of the hop count,
\* are the same for every member.
ClusterMembers(r, c, p) ==
  {t.start : t \in {t \in table[r] :
     t.class = "aurp" /\ containsRoute(c, <<t.start, t.start>>) /\ p.zone \in t.zones}}

handleClusteredNBPFwdReq(r, c, p) ==
  Together([n \in ClusterMembers(r, c, p) |-> Forward(r, [p EXCEPT !.dst = n])])

-----------------------------------------------------------------------------
\* Steps.

Passed(p) == [p EXCEPT !.steps = @ + 1]

Become(p, Results) ==
  /\ \E Q \in Results : packets' = (packets \ {p}) \cup Q
  /\ UNCHANGED <<internet, table, arrived>>

\* Serve, for a packet of another network: clusters, then Forward.
ServeForward(p) ==
  LET r == p.at[3]
      c == p.at[2]
      near == clusterForNetwork(internet.clusters[r], p.dst)
  IN /\ p.at[1] = "router" /\ p.dst \notin {0, internet.number[c]}
     /\ IF p.kind = "FwdReq" /\ near # {}
        THEN Become(p, handleClusteredNBPFwdReq(r, CHOOSE g \in near : TRUE, Passed(p)))
        ELSE Become(p, Forward(r, Passed(p)))

\* HandleAEP: the request turned round, without its checksum.
EchoReply(c, p) ==
  [p EXCEPT !.kind = "reply", !.src = p.dst, !.dst = p.src, !.any = FALSE, !.sum = <<>>,
            !.from = c, !.to = p.from, !.steps = 0]

\* HandleNBP, for a LkUp: the answer is sent on the cable.
AnswerLkUp(r, c, p) ==
  UNION {IF m.dst = internet.number[c] THEN SendOn(r, c, m) ELSE {} : m \in helloWorldThisIsMe(c, p)}

\* Serve, for a packet to the router.  Packets to other nodes of the cable are ignored.
ServeLocal(p) ==
  LET r == p.at[3]
      c == p.at[2]
  IN /\ p.at[1] = "router" /\ p.dst \in {0, internet.number[c]}
     /\ CASE p.any /\ p.kind = "BrRq"   -> Become(p, handleNBPBrRq(r, c, p))
          [] p.any /\ p.kind = "FwdReq" -> Become(p, handleNBPFwdReq(r, Passed(p)))
          [] p.any /\ p.kind = "LkUp"   -> Become(p, {AnswerLkUp(r, c, p)})
          [] p.any /\ p.kind = "data"   -> Become(p, Output(r, EchoReply(c, p)))
          [] OTHER -> Become(p, {{}})

remapInboundDDP(r, q, p) ==
  LET rules == internet.rules[r][q]
  IN Rewritten(p, [p EXCEPT !.src = remapInboundNetwork(rules, @),
                            !.tuple = IF p.kind \in NBP THEN remapInboundNetwork(rules, @) ELSE @])

HandleNBPFromAURP(r, p) == IF p.kind = "FwdReq" THEN handleNBPFwdReq(r, p) ELSE {{}}

\* AURPInput, for an encapsulated packet.
HandleFromTunnel(r, q, p) ==
  IF HiddenDevice(r, p, "import") \/ networkHidden(internet.hidden[r], p.dst) THEN {{}}
  ELSE IF p.any /\ Numbered(r, p.dst) THEN HandleNBPFromAURP(r, p)
  ELSE OutputFromAURP(r, q, p)

FromTunnel(p) ==
  LET q == p.at[2]
      r == p.at[3]
      known == IF importNetworkHidden(r, q, p.src) THEN {}
               ELSE remapInboundDDP(r, q, Passed(p))
  IN /\ p.at[1] = "tunnel"
     /\ Become(p, IF known = {} THEN {{}} ELSE UNION {HandleFromTunnel(r, q, m) : m \in known})

\* A route appears, disappears or changes.
Churn ==
  /\ \E T \in internet.tables : table' = T /\ table # T
  /\ UNCHANGED <<internet, packets, arrived>>

-----------------------------------------------------------------------------
\* Hosts (external).  A host answers a packet, answers a lookup with its own address,
\* and uses the address an answer brings.

Answer(p, c) ==
  LET new == [p EXCEPT !.src = internet.number[c], !.hop = 0, !.any = FALSE,
                       !.from = c, !.to = p.from, !.steps = 0]
  IN CASE p.kind = "data"      -> {[new EXCEPT !.kind = "reply", !.dst = p.src]}
       [] p.kind = "LkUp"      -> {[new EXCEPT !.kind = "LkUpReply", !.dst = p.tuple,
                                               !.tuple = internet.number[c]]}
       [] p.kind = "LkUpReply" -> {[new EXCEPT !.kind = "data", !.dst = p.tuple, !.tuple = 0]}
       [] OTHER                -> {}

Placed(p, at) == [p EXCEPT !.at = at, !.sum = Sum(p)]

HostReceives(p) ==
  LET c == p.at[2]
  IN /\ p.at[1] = "hosts"
     /\ arrived' = arrived \cup {<<p.kind, c>>}
     /\ \E at \in {<<"router", c, r>> : r \in {r \in Routers : HasPort(r, c)}} :
          packets' = (packets \ {p}) \cup
            {Placed(m, IF m.dst = internet.number[c] THEN <<"hosts", c>> ELSE at) : m \in Answer(p, c)}
     /\ UNCHANGED <<internet, table>>

FwdInit ==
  /\ internet \in Internets
  /\ table \in internet.tables
  /\ packets = internet.first
  /\ arrived = {}

Move(p) == ServeForward(p) \/ ServeLocal(p) \/ FromTunnel(p) \/ HostReceives(p)

FwdNext == (\E p \in packets : Move(p)) \/ Churn

FwdSpec == FwdInit /\ [][FwdNext]_fwdVars

-----------------------------------------------------------------------------
\* Every packet is of its type, with a hop count of four bits.
FwdTypeOK ==
  /\ internet \in Internets
  /\ table \in [Routers -> SUBSET Routes]
  /\ packets \subseteq Packets
  /\ arrived \subseteq Kinds \X Cables

\* Addresses keep their meaning: what reaches a host, through any number of remapping
\* tunnels, was meant for it: packets, answers to the source address it saw, and packets
\* to the address a name lookup brought.  A lookup reaches only cables with its zone.
RightPlace ==
  \A p \in packets : p.at[1] = "hosts" =>
    IF p.kind = "LkUp" THEN p.zone \in internet.has[p.at[2]] ELSE p.to = p.at[2]

\* Nothing a host of another site sends to a hidden network arrives there, even from a
\* router that still has a route to it.
HiddenKept ==
  \A p \in packets : p.at[1] = "hosts" /\ p.kind # "LkUp" =>
    \A r \in Routers : HasPort(r, p.at[2]) /\ ~HasPort(r, p.from)
                         => \A g \in internet.hidden[r] : internet.number[p.at[2]] \notin g[1]..g[2]

\* A checksum that enters a tunnel, or that a host receives, is still the one of the
\* packet: remapping and tunnels have cleared it when an address changes, and that of a
\* FwdReq before the peer turns the packet into a lookup (Rewritten,
\* normalizeAURPNBPFwdReqChecksum).  Requests that come from a cable and go to a cable
\* keep a checksum that is not theirs (handleNBPFwdReq, handleClusteredNBPFwdReq).
ChecksumsHold ==
  \A p \in packets :
    /\ p.at[1] = "tunnel" => p.sum \in (IF p.kind = "FwdReq" THEN {<<>>} ELSE {<<>>, Sum(p)})
    /\ p.at[1] = "hosts" /\ p.kind \notin {"FwdReq", "LkUp"} => p.sum \in {<<>>, Sum(p)}

\* Where tunnels have weight and nothing reduces hop counts, no table, however wrong and
\* however it changes, lets a packet pass more routers than its hop count says, so at
\* most 15: the hop a tunnel adds on entry stands for the router it leads to, where
\* OutputFromAURP counts none.
HopsCount ==
  (\A r \in Routers : internet.weight[r] > 0 /\ ~internet.reduce[r]) =>
    \A p \in packets : p.steps <= p.hop + (IF p.kind = "LkUp" THEN 1 ELSE 0)
=============================================================================
