------------------------- MODULE Forwarding_proofs -------------------------
(***************************************************************************)
(* The data path.  First what remapping and hop counting promise, for      *)
(* every set of rules that LoadConfig admits and every number; then that   *)
(* packets keep their type, and that hop counts bound the routers they     *)
(* pass, in every internet of jrouters, for all tables and however they    *)
(* change.                                                                 *)
(***************************************************************************)
EXTENDS Forwarding, WellFoundedInduction, TLAPS

(* Policy. *)

\* The ends of a range.
LEMMA RangeEnds ==
  ASSUME NEW g \in Ranges
  PROVE  g[1] \in Nat /\ g[2] \in Nat /\ g[1] <= g[2]
<1>1. g \in Numbers \X Numbers /\ g[1] <= g[2]
  BY DEF Ranges
<1>2. g[1] \in Numbers /\ g[2] \in Numbers
  BY <1>1
<1>3. QED
  BY <1>1, <1>2 DEF Numbers

\* A rule moves a number to the same place of its other range, and back.
LEMMA RuleMoves ==
  ASSUME NEW r \in Rules, SameSize(r), NEW n \in Nat
  PROVE  /\ contains(r.remote, n) =>
              /\ remapNetworkNumber(n, r.remote, r.local) \in Nat
              /\ contains(r.local, remapNetworkNumber(n, r.remote, r.local))
              /\ remapNetworkNumber(remapNetworkNumber(n, r.remote, r.local), r.local, r.remote) = n
         /\ contains(r.local, n) =>
              /\ remapNetworkNumber(n, r.local, r.remote) \in Nat
              /\ contains(r.remote, remapNetworkNumber(n, r.local, r.remote))
              /\ remapNetworkNumber(remapNetworkNumber(n, r.local, r.remote), r.remote, r.local) = n
<1> r.remote \in Ranges /\ r.local \in Ranges
  BY DEF Rules
<1>1. /\ r.remote[1] \in Nat /\ r.remote[2] \in Nat /\ r.local[1] \in Nat /\ r.local[2] \in Nat
      /\ r.remote[1] <= r.remote[2] /\ r.local[1] <= r.local[2]
  BY RangeEnds
<1>2. r.remote[2] - r.remote[1] = r.local[2] - r.local[1]
  BY DEF SameSize
<1>3. QED
  BY <1>1, <1>2 DEF contains, remapNetworkNumber

\* A nonempty set of places has a first one.
LEMMA FirstExists ==
  ASSUME NEW I \in SUBSET Nat, I # {}
  PROVE  First(I) \in I /\ \A j \in I : First(I) <= j
<1>1. \E i \in I : \A j \in I : ~(<<j, i>> \in OpToRel(<, Nat))
  BY NatLessThanWellFounded, WFMin, Zenon
<1>2. PICK i \in I : \A j \in I : ~(<<j, i>> \in OpToRel(<, Nat))
  BY <1>1, Zenon
<1>3. ASSUME NEW j \in I
      PROVE  i <= j
  <2>1. j < i => <<j, i>> \in OpToRel(<, Nat)
    BY Zenon DEF OpToRel
  <2>2. ~(j < i)
    BY <1>2, <2>1, Zenon
  <2>3. i \in Nat /\ j \in Nat
    OBVIOUS
  <2>4. QED
    BY <2>2, <2>3
<1>4. \E k \in I : \A j \in I : k <= j
  BY <1>3
<1>5. QED
  BY <1>4, Zenon DEF First

\* The rules of a list that LoadConfig admits.
LEMMA RulesOf ==
  ASSUME NEW rules, ValidRules(rules)
  PROVE  /\ DOMAIN rules \subseteq Nat
         /\ \A i \in DOMAIN rules : rules[i] \in Rules /\ SameSize(rules[i])
BY DEF ValidRules

\* A number here belongs to one rule at most.
LEMMA OneRule ==
  ASSUME NEW rules, ValidRules(rules), NEW n \in Nat,
         NEW i \in DOMAIN rules, NEW j \in DOMAIN rules,
         contains(rules[i].local, n), contains(rules[j].local, n)
  PROVE  i = j
<1>1. rules[i].local \in Ranges /\ rules[j].local \in Ranges
  BY RulesOf DEF Rules
<1>2. /\ rules[i].local[1] \in Nat /\ rules[i].local[2] \in Nat
      /\ rules[j].local[1] \in Nat /\ rules[j].local[2] \in Nat
  BY <1>1, RangeEnds
<1>3. i # j => ~overlaps(rules[i].local, rules[j].local)
  BY DEF ValidRules
<1>4. QED
  BY <1>2, <1>3 DEF overlaps, contains

\* What arrives is given its number by the first rule for it.
LEMMA Inbound ==
  ASSUME NEW rules, ValidRules(rules), NEW n \in Nat
  PROVE  /\ remapInboundNetwork(rules, n) \in Nat
         /\ Inward(rules, n) # {} =>
              LET i == First(Inward(rules, n)) IN
              /\ i \in DOMAIN rules /\ contains(rules[i].remote, n)
              /\ \A j \in Inward(rules, n) : i <= j
              /\ remapInboundNetwork(rules, n) = remapNetworkNumber(n, rules[i].remote, rules[i].local)
<1>1. CASE Inward(rules, n) = {}
  BY <1>1 DEF remapInboundNetwork
<1>2. CASE Inward(rules, n) # {}
  <2> DEFINE i == First(Inward(rules, n))
  <2>1. Inward(rules, n) \in SUBSET Nat
    BY RulesOf DEF Inward
  <2>2. i \in Inward(rules, n) /\ \A j \in Inward(rules, n) : i <= j
    BY <1>2, <2>1, FirstExists
  <2>3. i \in DOMAIN rules /\ contains(rules[i].remote, n)
    BY <2>2 DEF Inward
  <2>4. remapInboundNetwork(rules, n) = remapNetworkNumber(n, rules[i].remote, rules[i].local)
    BY <1>2 DEF remapInboundNetwork
  <2> HIDE DEF i
  <2>5. rules[i] \in Rules /\ SameSize(rules[i])
    BY <2>3, RulesOf
  <2>6. remapNetworkNumber(n, rules[i].remote, rules[i].local) \in Nat
    BY <2>3, <2>5, RuleMoves
  <2>7. QED
    BY <2>2, <2>3, <2>4, <2>6 DEF i
<1>3. QED
  BY <1>1, <1>2

\* What leaves is translated by the one rule for it.
LEMMA Outbound ==
  ASSUME NEW rules, ValidRules(rules), NEW n \in Nat
  PROVE  /\ remapOutboundNetwork(rules, n) \in Nat
         /\ \A i \in Outward(rules, n) :
              remapOutboundNetwork(rules, n) = remapNetworkNumber(n, rules[i].local, rules[i].remote)
<1>1. CASE Outward(rules, n) = {}
  BY <1>1 DEF remapOutboundNetwork
<1>2. CASE Outward(rules, n) # {}
  <2> DEFINE k == First(Outward(rules, n))
  <2>1. Outward(rules, n) \in SUBSET Nat
    BY RulesOf DEF Outward
  <2>2. k \in Outward(rules, n)
    BY <1>2, <2>1, FirstExists
  <2>3. remapOutboundNetwork(rules, n) = remapNetworkNumber(n, rules[k].local, rules[k].remote)
    BY <1>2 DEF remapOutboundNetwork
  <2> HIDE DEF k
  <2>4. k \in DOMAIN rules /\ contains(rules[k].local, n)
    BY <2>2 DEF Outward
  <2>5. rules[k] \in Rules /\ SameSize(rules[k])
    BY <2>4, RulesOf
  <2>6. remapNetworkNumber(n, rules[k].local, rules[k].remote) \in Nat
    BY <2>4, <2>5, RuleMoves
  <2>7. ASSUME NEW i \in Outward(rules, n)
        PROVE  i = k
    <3>1. i \in DOMAIN rules /\ contains(rules[i].local, n)
      BY <2>7 DEF Outward
    <3>2. QED
      BY <3>1, <2>4, OneRule
  <2>8. QED
    BY <2>3, <2>6, <2>7
<1>3. QED
  BY <1>1, <1>2

\* A network of the peer whose number at this router is its own: a rule brings it here,
\* or it keeps its number and no rule gives that number to another.
Distinct(rules, n) == Inward(rules, n) # {} \/ Outward(rules, n) = {}

\* Exactly the networks with a number of their own come back to the peer as they came,
\* whatever rules LoadConfig admits and however their remote ranges overlap; a network
\* that keeps its number although a rule has given that number to another does not
\* (remapInboundNetwork, remapOutboundNetwork).
THEOREM RemapReturns ==
  ASSUME NEW rules, ValidRules(rules), NEW n \in Nat
  PROVE  remapOutboundNetwork(rules, remapInboundNetwork(rules, n)) = n <=> Distinct(rules, n)
<1>1. CASE Inward(rules, n) # {}
  <2> DEFINE i == First(Inward(rules, n))
  <2>1. /\ i \in DOMAIN rules /\ contains(rules[i].remote, n)
        /\ remapInboundNetwork(rules, n) = remapNetworkNumber(n, rules[i].remote, rules[i].local)
    BY <1>1, Inbound
  <2> HIDE DEF i
  <2>2. rules[i] \in Rules /\ SameSize(rules[i])
    BY <2>1, RulesOf
  <2> DEFINE m == remapNetworkNumber(n, rules[i].remote, rules[i].local)
  <2>3. m \in Nat /\ contains(rules[i].local, m) /\ remapNetworkNumber(m, rules[i].local, rules[i].remote) = n
    BY <2>1, <2>2, RuleMoves
  <2> HIDE DEF m
  <2>4. i \in Outward(rules, m)
    BY <2>1, <2>3 DEF Outward
  <2>5. remapOutboundNetwork(rules, m) = n
    BY <2>3, <2>4, Outbound
  <2>6. QED
    BY <1>1, <2>1, <2>5 DEF Distinct, m
<1>2. CASE Inward(rules, n) = {} /\ Outward(rules, n) = {}
  BY <1>2 DEF Distinct, remapInboundNetwork, remapOutboundNetwork
<1>3. CASE Inward(rules, n) = {} /\ Outward(rules, n) # {}
  <2>1. PICK i : i \in Outward(rules, n)
    BY <1>3
  <2>2. i \in DOMAIN rules /\ contains(rules[i].local, n)
    BY <2>1 DEF Outward
  <2>3. rules[i] \in Rules /\ SameSize(rules[i])
    BY <2>2, RulesOf
  <2>4. contains(rules[i].remote, remapNetworkNumber(n, rules[i].local, rules[i].remote))
    BY <2>2, <2>3, RuleMoves
  <2>5. ~contains(rules[i].remote, n)
    BY <1>3, <2>2 DEF Inward
  <2>6. remapOutboundNetwork(rules, n) # n
    BY <2>1, <2>4, <2>5, Outbound
  <2>7. remapInboundNetwork(rules, n) = n
    BY <1>3 DEF remapInboundNetwork
  <2>8. QED
    BY <1>3, <2>6, <2>7 DEF Distinct
<1>4. QED
  BY <1>1, <1>2, <1>3

\* Two networks of a peer that have numbers of their own never get the same number here
\* (remapInboundNetwork).
THEOREM RemapKeepsApart ==
  ASSUME NEW rules, ValidRules(rules), NEW n \in Nat, NEW m \in Nat,
         Distinct(rules, n), Distinct(rules, m),
         remapInboundNetwork(rules, n) = remapInboundNetwork(rules, m)
  PROVE  n = m
BY RemapReturns

\* Hop-count reduction leaves the packet the hops it has to go, and never raises its hop
\* count (reduceAURPHopCount).
THEOREM ReductionSuffices ==
  ASSUME NEW hop \in Hops, NEW remaining \in Nat, reduceAURPHopCount(hop, remaining) # -1
  PROVE  /\ reduceAURPHopCount(hop, remaining) \in Hops
         /\ reduceAURPHopCount(hop, remaining) + remaining <= maxRouteDistance
         /\ reduceAURPHopCount(hop, remaining) <= hop
BY DEF reduceAURPHopCount, Hops, maxRouteDistance

\* The distance of a route through a tunnel grows with every tunnel it passes, and stays
\* within the limit: a distance that goes round a cycle of routers counts to the limit
\* (weightedAURPDistance).
THEOREM DistanceGrows ==
  ASSUME NEW d \in Nat, NEW weight \in Nat, NEW penalty \in Nat,
         weightedAURPDistance(d, weight, penalty) # -1
  PROVE  /\ weightedAURPDistance(d, weight, penalty) \in 1..maxRouteDistance
         /\ weightedAURPDistance(d, weight, penalty) > d + weight
BY DEF weightedAURPDistance, maxRouteDistance

\* Two ranges overlap exactly when they share a number.
LEMMA SharedNumber ==
  ASSUME NEW h \in Ranges, NEW g \in Ranges
  PROVE  overlaps(h, g) <=> \E n \in g[1]..g[2] : contains(h, n)
<1>1. /\ g[1] \in Nat /\ g[2] \in Nat /\ g[1] <= g[2]
      /\ h[1] \in Nat /\ h[2] \in Nat /\ h[1] <= h[2]
  BY RangeEnds
<1>2. ASSUME overlaps(h, g)
      PROVE  \E n \in g[1]..g[2] : contains(h, n)
  <2>1. CASE g[1] >= h[1]
    <3>1. g[1] \in g[1]..g[2] /\ contains(h, g[1])
      BY <1>1, <1>2, <2>1 DEF overlaps, contains
    <3>2. QED
      BY <3>1
  <2>2. CASE g[1] < h[1]
    <3>1. h[1] \in g[1]..g[2] /\ contains(h, h[1])
      BY <1>1, <1>2, <2>2 DEF overlaps, contains
    <3>2. QED
      BY <3>1
  <2>3. QED
    BY <1>1, <2>1, <2>2
<1>3. ASSUME NEW n \in g[1]..g[2], contains(h, n)
      PROVE  overlaps(h, g)
  BY <1>1, <1>3 DEF overlaps, contains
<1>4. QED
  BY <1>2, <1>3

\* Routing information and packets are remapped alike, when a rule holds the whole
\* advertised range, exactly if no rule before it holds a part of the range: then the
\* networks of the range have the same numbers in packets (remapInboundNetwork) as the
\* route (remapInboundRange).
THEOREM RangeFollowsNetworks ==
  ASSUME NEW rules, ValidRules(rules), NEW g \in Ranges, Holding(rules, g) # {}
  PROVE  LET h == remapInboundRange(rules, g)
         IN (\A n \in g[1]..g[2] : remapInboundNetwork(rules, n) = h[1] + (n - g[1]))
              <=> (\A j \in DOMAIN rules :
                     j < First(Holding(rules, g)) => ~overlaps(rules[j].remote, g))
<1> DEFINE k == First(Holding(rules, g))
           h == remapInboundRange(rules, g)
<1>1. Holding(rules, g) \in SUBSET Nat
  BY RulesOf DEF Holding
<1>2. k \in Holding(rules, g)
  BY <1>1, FirstExists
<1>3. h = <<remapNetworkNumber(g[1], rules[k].remote, rules[k].local),
            remapNetworkNumber(g[2], rules[k].remote, rules[k].local)>>
  BY DEF remapInboundRange
<1> HIDE DEF k, h
<1>4. k \in DOMAIN rules /\ rules[k].remote[1] <= g[1] /\ g[2] <= rules[k].remote[2]
  BY <1>2 DEF Holding
<1>5. rules[k] \in Rules /\ SameSize(rules[k]) /\ rules[k].remote \in Ranges /\ rules[k].local \in Ranges
  BY <1>4, RulesOf DEF Rules
<1>6. /\ g[1] \in Nat /\ g[2] \in Nat /\ g[1] <= g[2]
      /\ rules[k].remote[1] \in Nat /\ rules[k].remote[2] \in Nat
      /\ rules[k].local[1] \in Nat /\ rules[k].local[2] \in Nat
  BY <1>5, RangeEnds
<1>7. g[1] \in g[1]..g[2]
  BY <1>6
<1>8. \A n \in g[1]..g[2] : n \in Nat /\ contains(rules[k].remote, n)
  BY <1>4, <1>6 DEF contains
<1>9. \A n \in g[1]..g[2] :
        remapNetworkNumber(n, rules[k].remote, rules[k].local) = rules[k].local[1] + (n - rules[k].remote[1])
  BY <1>8 DEF remapNetworkNumber
<1>10. h[1] = rules[k].local[1] + (g[1] - rules[k].remote[1])
  BY <1>3, <1>7, <1>9
<1>11. \A n \in g[1]..g[2] :
         h[1] + (n - g[1]) = remapNetworkNumber(n, rules[k].remote, rules[k].local)
  BY <1>6, <1>9, <1>10
<1>12. \A n \in g[1]..g[2] : k \in Inward(rules, n)
  BY <1>4, <1>8 DEF Inward
<1>13. ASSUME \A j \in DOMAIN rules : j < k => ~overlaps(rules[j].remote, g),
              NEW n \in g[1]..g[2]
       PROVE  remapInboundNetwork(rules, n) = h[1] + (n - g[1])
  <2> DEFINE i == First(Inward(rules, n))
  <2>1. /\ i \in DOMAIN rules /\ contains(rules[i].remote, n) /\ i <= k
        /\ remapInboundNetwork(rules, n) = remapNetworkNumber(n, rules[i].remote, rules[i].local)
    BY <1>8, <1>12, Inbound
  <2> HIDE DEF i
  <2>2. rules[i].remote \in Ranges
    BY <2>1, RulesOf DEF Rules
  <2>3. overlaps(rules[i].remote, g)
    BY <2>1, <2>2, SharedNumber
  <2>4. i \in Nat /\ k \in Nat
    BY <1>4, <2>1, RulesOf
  <2>5. i = k
    BY <1>13, <2>1, <2>3, <2>4
  <2>6. QED
    BY <1>11, <2>1, <2>5
<1>14. ASSUME NEW j \in DOMAIN rules, j < k, overlaps(rules[j].remote, g)
       PROVE  \E n \in g[1]..g[2] : remapInboundNetwork(rules, n) # h[1] + (n - g[1])
  <2>1. rules[j].remote \in Ranges
    BY RulesOf DEF Rules
  <2>2. PICK n \in g[1]..g[2] : contains(rules[j].remote, n)
    BY <1>14, <2>1, SharedNumber
  <2>3. n \in Nat /\ j \in Inward(rules, n)
    BY <1>8, <2>2 DEF Inward
  <2> DEFINE i == First(Inward(rules, n))
  <2>4. /\ i \in DOMAIN rules /\ contains(rules[i].remote, n) /\ i <= j
        /\ remapInboundNetwork(rules, n) = remapNetworkNumber(n, rules[i].remote, rules[i].local)
    BY <2>3, Inbound
  <2> HIDE DEF i
  <2>5. i \in Nat /\ j \in Nat /\ k \in Nat
    BY <1>4, <2>4, RulesOf
  <2>6. i # k
    BY <1>14, <2>4, <2>5
  <2> DEFINE a == remapNetworkNumber(n, rules[i].remote, rules[i].local)
             b == remapNetworkNumber(n, rules[k].remote, rules[k].local)
  <2>7. rules[i] \in Rules /\ SameSize(rules[i])
    BY <2>4, RulesOf
  <2>8. a \in Nat /\ contains(rules[i].local, a)
    BY <2>3, <2>4, <2>7, RuleMoves
  <2>9. contains(rules[k].local, b)
    BY <1>5, <1>8, <2>3, RuleMoves
  <2> HIDE DEF a, b
  <2>10. a # b
    BY <1>4, <2>4, <2>6, <2>8, <2>9, OneRule
  <2>11. h[1] + (n - g[1]) = b
    BY <1>11, <2>2 DEF b
  <2>12. QED
    BY <2>2, <2>4, <2>10, <2>11 DEF a
<1>15. QED
  BY <1>13, <1>14 DEF k, h

\* A range is kept out of the routing information (exportRangeHidden, importRangeHidden)
\* exactly when packets of one of its networks are dropped (networkHidden).
THEOREM RangeHiddenWithNetwork ==
  ASSUME NEW hidden \in SUBSET Ranges, NEW g \in Ranges
  PROVE  rangeHidden(hidden, g) <=> \E n \in g[1]..g[2] : networkHidden(hidden, n)
<1>1. \A h \in hidden : overlaps(h, g) <=> \E n \in g[1]..g[2] : contains(h, n)
  BY SharedNumber
<1>2. QED
  BY <1>1 DEF rangeHidden, networkHidden

-----------------------------------------------------------------------------
(* Forwarding. *)

Places == AtRouter \cup AtHosts \cup InTunnel

Weighted == \A r \in Routers : internet.weight[r] > 0 /\ ~internet.reduce[r]
Slack(p) == IF p.kind = "LkUp" THEN 1 ELSE 0

\* A packet that has passed no more routers than its hop count says: what a router sends.
Fits(p) == p \in Packets /\ (Weighted => p.steps <= p.hop + Slack(p))

\* In a tunnel it has a hop to spare for the router it leads to.
Good(p) == Fits(p) /\ (Weighted /\ p.at \in InTunnel => p.steps + 1 <= p.hop + Slack(p))

Sound == Configured(internet) /\ table \in [Routers -> SUBSET Routes]

\* Changes of fields.
LEMMA SetAt ==
  ASSUME NEW p \in Packets, NEW at \in Places
  PROVE  LET m == [p EXCEPT !.at = at] IN
         /\ m \in Packets /\ m.at = at /\ m.hop = p.hop /\ m.steps = p.steps
         /\ m.kind = p.kind /\ m.dst = p.dst /\ m.any = p.any
BY DEF Packets, Places

\* The hop count, here as the router writes it into the four bits.
LEMMA SetHop ==
  ASSUME NEW p \in Packets, NEW hop \in Hops
  PROVE  LET m == [p EXCEPT !.hop = hop] IN
         /\ m \in Packets /\ m.at = p.at /\ m.hop = hop /\ m.steps = p.steps
         /\ m.kind = p.kind /\ m.dst = p.dst
BY DEF Packets

\* The destination, as remapping writes it.
LEMMA SetDst ==
  ASSUME NEW p \in Packets, NEW dst \in Nat
  PROVE  LET m == [p EXCEPT !.dst = dst] IN
         /\ m \in Packets /\ m.at = p.at /\ m.hop = p.hop /\ m.steps = p.steps /\ m.kind = p.kind
BY DEF Packets

\* The checksum, computed or cleared.
LEMMA SetSum ==
  ASSUME NEW p \in Packets
  PROVE  LET m == [p EXCEPT !.sum = <<>>] IN
         /\ m \in Packets /\ m.at = p.at /\ m.hop = p.hop /\ m.steps = p.steps
         /\ m.kind = p.kind /\ m.dst = p.dst
BY DEF Packets

\* Source and tuple, as remapping on arrival writes them.
LEMMA SetSource ==
  ASSUME NEW p \in Packets, NEW src \in Nat, NEW tuple \in Nat
  PROVE  LET m == [p EXCEPT !.src = src, !.tuple = tuple] IN
         m \in Packets /\ m.at = p.at /\ m.hop = p.hop /\ m.steps = p.steps /\ m.kind = p.kind
BY DEF Packets

\* The count of routers passed.
LEMMA SetSteps ==
  ASSUME NEW p \in Packets
  PROVE  LET m == Passed(p) IN
         /\ m \in Packets /\ m.at = p.at /\ m.hop = p.hop /\ m.steps = p.steps + 1
         /\ m.kind = p.kind /\ m.dst = p.dst /\ m.any = p.any
BY DEF Packets, Passed

\* A packet that is not in a tunnel.
LEMMA PlacesApart ==
  ASSUME NEW at
  PROVE  /\ at \in AtRouter => at \notin InTunnel /\ at[1] = "router" /\ at[2] \in Cables /\ at[3] \in Routers
         /\ at \in AtHosts => at \notin InTunnel /\ at[1] = "hosts" /\ at[2] \in Cables
         /\ at \in InTunnel => at[1] = "tunnel" /\ at[2] \in Routers /\ at[3] \in Routers
BY DEF AtRouter, AtHosts, InTunnel

-----------------------------------------------------------------------------
\* Targets.

\* A packet that is put somewhere else keeps the hops it has counted.
LEMMA FitsMoved ==
  ASSUME NEW p, Fits(p), NEW at \in AtRouter \cup AtHosts
  PROVE  Good([p EXCEPT !.at = at])
<1>1. p \in Packets /\ at \in Places /\ at \notin InTunnel
  BY PlacesApart DEF Fits, Places
<1> DEFINE m == [p EXCEPT !.at = at]
<1>2. m \in Packets /\ m.at = at /\ m.hop = p.hop /\ m.steps = p.steps /\ m.kind = p.kind
  BY <1>1, SetAt
<1>3. QED
  BY <1>1, <1>2 DEF Fits, Good, Slack

\* EtherTalkPort.Send changes only where the packet is.
LEMMA SendOnGood ==
  ASSUME NEW r, NEW c \in Cables, NEW p, Fits(p)
  PROVE  \A m \in SendOn(r, c, p) : Good(m)
<1>1. \A q \in Routers : <<"router", c, q>> \in AtRouter
  BY DEF AtRouter
<1>2. <<"hosts", c>> \in AtHosts
  BY DEF AtHosts
<1>3. QED
  BY <1>1, <1>2, FitsMoved DEF SendOn

\* Remapping changes addresses only.
LEMMA RewrittenFits ==
  ASSUME NEW p \in Packets, NEW q \in Packets,
         q.hop = p.hop, q.steps = p.steps, q.kind = p.kind, q.at = p.at,
         NEW m \in Rewritten(p, q)
  PROVE  m \in Packets /\ m.hop = p.hop /\ m.steps = p.steps /\ m.kind = p.kind /\ m.at = p.at
BY SetSum DEF Rewritten

\* remapOutboundDDP changes the destination, and clears the checksum.
LEMMA OutboundFits ==
  ASSUME Sound, NEW r \in Routers, NEW q \in Routers, NEW p \in Packets,
         NEW m \in remapOutboundDDP(r, q, p)
  PROVE  m \in Packets /\ m.hop = p.hop /\ m.steps = p.steps /\ m.kind = p.kind /\ m.at = p.at
<1> DEFINE dst == remapOutboundNetwork(internet.rules[r][q], p.dst)
           n == [p EXCEPT !.dst = dst]
<1>1. ValidRules(internet.rules[r][q]) /\ p.dst \in Nat
  BY DEF Sound, Configured, Packets
<1>2. dst \in Nat
  BY <1>1, Outbound
<1>3. n \in Packets /\ n.at = p.at /\ n.hop = p.hop /\ n.steps = p.steps /\ n.kind = p.kind
  BY <1>2, SetDst
<1>4. m \in Rewritten(p, n)
  BY DEF remapOutboundDDP
<1>5. QED
  BY <1>3, <1>4, RewrittenFits

\* remapInboundDDP changes source and tuple, and clears the checksum.
LEMMA InboundFits ==
  ASSUME Sound, NEW r \in Routers, NEW q \in Routers, NEW p \in Packets,
         NEW m \in remapInboundDDP(r, q, p)
  PROVE  m \in Packets /\ m.hop = p.hop /\ m.steps = p.steps /\ m.kind = p.kind /\ m.at = p.at
<1> DEFINE src == remapInboundNetwork(internet.rules[r][q], p.src)
           tuple == IF p.kind \in NBP THEN remapInboundNetwork(internet.rules[r][q], p.tuple) ELSE p.tuple
           n == [p EXCEPT !.src = src, !.tuple = tuple]
<1>1. ValidRules(internet.rules[r][q]) /\ p.src \in Nat /\ p.tuple \in Nat
  BY DEF Sound, Configured, Packets
<1>2. src \in Nat /\ tuple \in Nat
  BY <1>1, Inbound
<1> HIDE DEF src, tuple
<1>3. n \in Packets /\ n.at = p.at /\ n.hop = p.hop /\ n.steps = p.steps /\ n.kind = p.kind
  BY <1>2, SetSource
<1>4. m \in Rewritten(p, n)
  BY DEF remapInboundDDP, src, tuple
<1>5. QED
  BY <1>3, <1>4, RewrittenFits

\* AURPPeer.Forward adds the weight, or drops the packet when the field would overflow.
LEMMA ForwardToPeerGood ==
  ASSUME Sound, NEW r \in Routers, NEW q \in Routers, NEW p, Fits(p),
         NEW m \in ForwardToPeer(r, q, p)
  PROVE  Good(m)
<1> DEFINE w == internet.weight[r]
           hop == applyAURPHopWeight(p.hop, w)
           at == <<"tunnel", r, q>>
<1>1. p \in Packets /\ p.hop \in Hops /\ p.steps \in Nat
  BY DEF Fits, Packets
<1>2. w \in Nat /\ (Weighted => w > 0)
  <2>1. internet.weight \in [Routers -> 0..(maxRouteDistance - 1)]
    BY DEF Sound, Configured
  <2>2. w \in 0..(maxRouteDistance - 1)
    BY <2>1
  <2>3. QED
    BY <2>2 DEF Weighted, maxRouteDistance
<1>3. hop # -1 /\ \E n \in remapOutboundDDP(r, q, p) : m = [n EXCEPT !.hop = hop, !.at = at]
  BY DEF ForwardToPeer
<1>4. hop \in Hops /\ hop = p.hop + w
  BY <1>1, <1>2, <1>3 DEF applyAURPHopWeight, Hops, maxRouteDistance
<1>5. PICK n \in remapOutboundDDP(r, q, p) : m = [n EXCEPT !.hop = hop, !.at = at]
  BY <1>3
<1>6. n \in Packets /\ n.steps = p.steps /\ n.kind = p.kind
  BY <1>1, OutboundFits
<1>7. at \in Places
  BY DEF Places, InTunnel
<1> HIDE DEF hop, at
<1>8. m \in Packets /\ m.hop = hop /\ m.steps = p.steps /\ m.kind = p.kind
  <2>1. hop \in Hops /\ n \in Packets
    BY <1>4, <1>6
  <2> HIDE DEF w
  <2> DEFINE k == [n EXCEPT !.hop = hop, !.at = at]
  <2>2. k \in Packets /\ k.hop = hop /\ k.steps = n.steps /\ k.kind = n.kind
    BY <2>1, <1>7 DEF Packets, Places
  <2>3. QED
    BY <2>2, <1>5, <1>6
<1>9. m.hop \in Nat /\ p.hop \in Nat
  BY <1>1, <1>4, <1>8 DEF Hops, maxRouteDistance
<1>10. Weighted => m.steps + 1 <= m.hop + Slack(m)
  BY <1>1, <1>2, <1>4, <1>8, <1>9 DEF Fits, Slack
<1>11. QED
  BY <1>1, <1>8, <1>9, <1>10 DEF Good, Fits, Slack

\* Clearing a FwdReq's checksum leaves the rest.
LEMMA NormalizedFits ==
  ASSUME NEW p, Fits(p)
  PROVE  Fits(normalizeAURPNBPFwdReqChecksum(p))
BY SetSum DEF Fits, normalizeAURPNBPFwdReqChecksum, Slack

\* A target of any class gets a packet that fits.
LEMMA ForwardToGood ==
  ASSUME Sound, NEW r \in Routers, NEW t \in Routes, NEW p, Fits(p), NEW m \in ForwardTo(r, t, p)
  PROVE  Good(m)
<1>1. CASE t.class = "direct"
  <2>1. t.via \in Cables /\ m \in SendOn(r, t.via, p)
    BY <1>1 DEF Routes, ForwardTo
  <2>2. QED
    BY <2>1, SendOnGood
<1>2. CASE t.class = "etalk"
  <2>1. t.via \in AtRouter /\ m = [p EXCEPT !.at = t.via]
    BY <1>2 DEF Routes, ForwardTo
  <2>2. QED
    BY <2>1, FitsMoved
<1>3. CASE t.class = "aurp"
  <2>1. t.via \in Routers /\ m \in ForwardToPeer(r, t.via, normalizeAURPNBPFwdReqChecksum(p))
    BY <1>3 DEF Routes, ForwardTo
  <2>2. QED
    BY <2>1, NormalizedFits, ForwardToPeerGood
<1>4. QED
  BY <1>1, <1>2, <1>3 DEF Routes

-----------------------------------------------------------------------------
\* Router.

\* Results that are good.
AllGood(R) == \A Q \in R : \A m \in Q : Good(m)

\* Lookups return routes of the table.
LEMMA RoutesFound ==
  ASSUME Sound, NEW r \in Routers, NEW n, NEW q
  PROVE  /\ \A t \in Lookup(r, n) : t \in Routes /\ t.start = n
         /\ \A t \in LookupAvoidingAURPTunnel(r, n, q) : t \in Routes
<1>1. table[r] \subseteq Routes
  BY DEF Sound
<1>2. QED
  BY <1>1 DEF Lookup, LookupAvoidingAURPTunnel, Best

\* Router.Output forwards by any best route.
LEMMA OutputGood ==
  ASSUME Sound, NEW r \in Routers, NEW p, Fits(p)
  PROVE  AllGood(Output(r, p))
<1>1. SUFFICES ASSUME NEW Q \in Output(r, p), NEW m \in Q
               PROVE  Good(m)
  BY DEF AllGood
<1>2. PICK t \in Lookup(r, p.dst) : Q = ForwardTo(r, t, p)
  BY <1>1 DEF Output
<1>3. t \in Routes
  BY RoutesFound
<1>4. QED
  BY <1>1, <1>2, <1>3, ForwardToGood

\* A router counts itself: the packet may have passed one router more.
LEMMA ForwardGood ==
  ASSUME Sound, NEW r \in Routers, NEW p \in Packets,
         Weighted => p.steps <= p.hop + 1 + Slack(p)
  PROVE  AllGood(Forward(r, p))
<1>1. CASE p.hop >= maxRouteDistance
  BY <1>1 DEF Forward, AllGood
<1>2. CASE ~(p.hop >= maxRouteDistance)
  <2> DEFINE hop == p.hop + 1
             m == [p EXCEPT !.hop = hop]
  <2>1. hop \in Hops
    BY <1>2 DEF Packets, Hops, maxRouteDistance
  <2>2. m \in Packets /\ m.hop = hop /\ m.steps = p.steps /\ m.kind = p.kind
    BY <2>1, SetHop
  <2>3. Fits(m)
    BY <2>2 DEF Fits, Slack
  <2>4. Forward(r, p) = Output(r, m)
    BY <1>2 DEF Forward
  <2>5. QED
    BY <2>3, <2>4, OutputGood
<1>3. QED
  BY <1>1, <1>2

\* OutputFromAURP, on one route: nothing is claimed of the count where it is reduced.
LEMMA LeaveTunnelGood ==
  ASSUME Sound, NEW r \in Routers, NEW t \in Routes, NEW p, Fits(p), NEW m \in LeaveTunnel(r, t, p)
  PROVE  Good(m)
<1> DEFINE reduced == internet.reduce[r] /\ t.class # "aurp"
           hop == IF reduced THEN reduceAURPHopCount(p.hop, t.dist) ELSE p.hop
           n == [p EXCEPT !.hop = hop]
<1>1. p \in Packets /\ p.hop \in Hops /\ t.dist \in Nat
  BY DEF Fits, Packets, Routes
<1>2. hop # -1 /\ m \in ForwardTo(r, t, n)
  BY DEF LeaveTunnel
<1>3. hop \in Hops /\ (Weighted => hop = p.hop)
  <2>1. CASE reduced
    BY <1>1, <1>2, <2>1, ReductionSuffices DEF Weighted
  <2>2. CASE ~reduced
    BY <1>1, <2>2
  <2>3. QED
    BY <2>1, <2>2
<1> HIDE DEF hop
<1>4. n \in Packets /\ n.hop = hop /\ n.steps = p.steps /\ n.kind = p.kind
  BY <1>1, <1>3, SetHop
<1>5. Fits(n)
  BY <1>3, <1>4 DEF Fits, Slack
<1>6. QED
  BY <1>2, <1>5, ForwardToGood

\* OutputFromAURP, on any route it may find.
LEMMA OutputFromAURPGood ==
  ASSUME Sound, NEW r \in Routers, NEW q \in Routers, NEW p, Fits(p)
  PROVE  AllGood(OutputFromAURP(r, q, p))
<1>1. SUFFICES ASSUME NEW Q \in OutputFromAURP(r, q, p), NEW m \in Q
               PROVE  Good(m)
  BY DEF AllGood
<1>2. PICK t \in LookupAvoidingAURPTunnel(r, p.dst, q) : Q = LeaveTunnel(r, t, p)
  BY <1>1 DEF OutputFromAURP
<1>3. t \in Routes
  BY RoutesFound
<1>4. QED
  BY <1>1, <1>2, <1>3, LeaveTunnelGood

\* Results put together from good results.
LEMMA TogetherGood ==
  ASSUME NEW f, \A k \in DOMAIN f : AllGood(f[k])
  PROVE  AllGood(Together(f))
<1>1. SUFFICES ASSUME NEW Q \in Together(f), NEW m \in Q
               PROVE  Good(m)
  BY DEF AllGood
<1>2. PICK g \in [DOMAIN f -> UNION {f[k] : k \in DOMAIN f}] :
        (\A k \in DOMAIN f : g[k] \in f[k]) /\ Q = UNION {g[k] : k \in DOMAIN f}
  BY <1>1 DEF Together
<1>3. PICK k \in DOMAIN f : m \in g[k]
  BY <1>1, <1>2
<1>4. QED
  BY <1>2, <1>3 DEF AllGood

-----------------------------------------------------------------------------
\* Name binding.

\* A lookup made from a FwdReq has passed the router that made it.
LEMMA MulticastGood ==
  ASSUME NEW r, NEW c \in Cables, NEW p \in Packets, Weighted => p.steps <= p.hop + 1
  PROVE  \A m \in ZoneMulticast(r, c, p) : Good(m)
<1> DEFINE n == [p EXCEPT !.kind = "LkUp", !.dst = 0, !.any = TRUE]
<1>1. n \in Packets /\ n.hop = p.hop /\ n.steps = p.steps /\ n.kind = "LkUp"
  BY DEF Packets, Kinds
<1>2. Fits(n)
  BY <1>1 DEF Fits, Slack
<1> HIDE DEF n
<1>3. Good([n EXCEPT !.at = <<"hosts", c>>])
  BY <1>2, FitsMoved DEF AtHosts
<1>4. \A m \in SendOn(r, c, n) : Good(m)
  BY <1>2, SendOnGood
<1>5. ZoneMulticast(r, c, p) = {[n EXCEPT !.at = <<"hosts", c>>]} \cup SendOn(r, c, n)
  BY DEF ZoneMulticast, n
<1>6. QED
  BY <1>3, <1>4, <1>5

\* The router's own answer is a new packet.
LEMMA AnswerFits ==
  ASSUME Sound, NEW c \in Cables, NEW p \in Packets, NEW m \in helloWorldThisIsMe(c, p)
  PROVE  Fits(m)
<1> DEFINE num == internet.number[c]
<1>1. num \in Nat
  BY DEF Sound, Configured
<1>2. m = [p EXCEPT !.kind = "LkUpReply", !.src = num, !.dst = p.tuple,
                  !.tuple = num, !.any = FALSE, !.hop = 0, !.sum = <<>>,
                  !.from = c, !.to = p.from, !.steps = 0]
  BY DEF helloWorldThisIsMe
<1> HIDE DEF num
<1>3. p.tuple \in Nat /\ p.from \in Cables /\ 0 \in Hops /\ "LkUpReply" \in Kinds
      /\ <<>> \in {<<>>} \cup Kinds \X Nat \X Nat \X Nat
  BY DEF Packets, Kinds, Hops, maxRouteDistance
<1>4. m \in Packets /\ m.steps = 0 /\ m.hop = 0
  BY <1>1, <1>2, <1>3 DEF Packets
<1>5. QED
  BY <1>4 DEF Fits, Slack, Packets

\* handleNBPFwdReq: lookups and the router's own answers.
LEMMA FwdReqGood ==
  ASSUME Sound, NEW r \in Routers, NEW p \in Packets, Weighted => p.steps <= p.hop + 1
  PROVE  AllGood(handleNBPFwdReq(r, p))
<1> DEFINE cable(i) == internet.ports[r][i]
           answers(i) == IF helloWorldThisIsMe(cable(i), p) = {} THEN {{}}
                         ELSE UNION {Output(r, m) : m \in helloWorldThisIsMe(cable(i), p)}
           f == [i \in AskedPorts(r, p) |-> {ZoneMulticast(r, cable(i), p) \cup R : R \in answers(i)}]
<1>1. handleNBPFwdReq(r, p) = Together(f)
  BY DEF handleNBPFwdReq
<1>2. ASSUME NEW i \in AskedPorts(r, p)
      PROVE  AllGood(f[i])
  <2>1. i \in DOMAIN internet.ports[r]
    BY DEF AskedPorts, AllPorts
  <2>2. internet.ports[r] \in Seq(Cables)
    BY DEF Sound, Configured
  <2>3. cable(i) \in Cables
    BY <2>1, <2>2
  <2>4. AllGood(answers(i))
    BY <2>3, AnswerFits, OutputGood DEF AllGood
  <2>5. \A m \in ZoneMulticast(r, cable(i), p) : Good(m)
    BY <2>3, MulticastGood
  <2>6. f[i] = {ZoneMulticast(r, cable(i), p) \cup R : R \in answers(i)}
    OBVIOUS
  <2> HIDE DEF answers, cable, f
  <2>7. QED
    BY <2>4, <2>5, <2>6 DEF AllGood
<1>3. DOMAIN f = AskedPorts(r, p)
  OBVIOUS
<1> HIDE DEF f
<1>4. QED
  BY <1>1, <1>2, <1>3, TogetherGood

\* handleNBPBrRq: lookups, FwdReqs and the router's own answer, all new packets.
LEMMA BrRqGood ==
  ASSUME Sound, NEW r \in Routers, NEW c \in Cables, NEW p \in Packets
  PROVE  AllGood(handleNBPBrRq(r, c, p))
<1> DEFINE new == [p EXCEPT !.hop = 0, !.sum = <<>>, !.steps = 0]
           near == [new EXCEPT !.src = internet.number[c]]
           far(t) == [new EXCEPT !.kind = "FwdReq", !.dst = t.start, !.any = TRUE]
           answers == UNION {SendOn(r, c, m) : m \in helloWorldThisIsMe(c, p)}
           Ask(t) == IF t.class = "direct" THEN {ZoneMulticast(r, t.via, near) \cup answers}
                     ELSE Output(r, far(t))
           f == [n \in networksForZone(r, p.zone) |-> UNION {Ask(t) : t \in Lookup(r, n)}]
<1>1. handleNBPBrRq(r, c, p) = Together(f)
  BY DEF handleNBPBrRq
<1>2. new \in Packets /\ new.hop = 0 /\ new.steps = 0 /\ internet.number[c] \in Nat
  <2>1. 0 \in Hops /\ <<>> \in {<<>>} \cup Kinds \X Nat \X Nat \X Nat
    BY DEF Hops, maxRouteDistance
  <2>2. new \in Packets /\ new.hop = 0 /\ new.steps = 0
    BY <2>1 DEF Packets
  <2>3. internet.number[c] \in Nat
    BY DEF Sound, Configured
  <2>4. QED
    BY <2>2, <2>3
<1> HIDE DEF new
<1>3. near \in Packets /\ near.hop = 0 /\ near.steps = 0
  BY <1>2 DEF Packets
<1>4. \A m \in answers : Good(m)
  BY AnswerFits, SendOnGood
<1>5. ASSUME NEW t \in Routes
      PROVE  AllGood(Ask(t))
  <2>1. CASE t.class = "direct"
    <3>1. t.via \in Cables
      BY <2>1 DEF Routes
    <3>2. Ask(t) = {ZoneMulticast(r, t.via, near) \cup answers}
      BY <2>1
    <3>3. Weighted => near.steps <= near.hop + 1
      BY <1>3
    <3> HIDE DEF near, answers, Ask
    <3>4. \A m \in ZoneMulticast(r, t.via, near) : Good(m)
      BY <3>1, <1>3, <3>3, MulticastGood
    <3>5. QED
      BY <3>2, <3>4, <1>4 DEF AllGood
  <2>2. CASE t.class # "direct"
    <3>1. t.start \in Nat /\ "FwdReq" \in Kinds
      BY DEF Routes, Kinds
    <3>2. far(t) \in Packets /\ far(t).hop = 0 /\ far(t).steps = 0
      BY <3>1, <1>2 DEF Packets
    <3>3. Fits(far(t))
      BY <3>2 DEF Fits, Slack
    <3>4. Ask(t) = Output(r, far(t))
      BY <2>2
    <3> HIDE DEF far, Ask
    <3>5. QED
      BY <3>3, <3>4, OutputGood
  <2>3. QED
    BY <2>1, <2>2
<1> HIDE DEF Ask
<1>6. ASSUME NEW n \in networksForZone(r, p.zone)
      PROVE  AllGood(f[n])
  BY <1>5, RoutesFound DEF AllGood
<1>7. DOMAIN f = networksForZone(r, p.zone)
  OBVIOUS
<1> HIDE DEF f
<1>8. QED
  BY <1>1, <1>6, <1>7, TogetherGood

\* handleClusteredNBPFwdReq forwards a copy to each member.
LEMMA ClusterGood ==
  ASSUME Sound, NEW r \in Routers, NEW g, NEW p \in Packets,
         Weighted => p.steps <= p.hop + 1 + Slack(p)
  PROVE  AllGood(handleClusteredNBPFwdReq(r, g, p))
<1> DEFINE f == [n \in ClusterMembers(r, g, p) |-> Forward(r, [p EXCEPT !.dst = n])]
<1>1. handleClusteredNBPFwdReq(r, g, p) = Together(f)
  BY DEF handleClusteredNBPFwdReq
<1>2. ASSUME NEW n \in ClusterMembers(r, g, p)
      PROVE  AllGood(f[n])
  <2>1. \A t \in table[r] : t.start \in Nat
    BY DEF Sound, Routes
  <2>2. n \in Nat
    BY <2>1 DEF ClusterMembers
  <2> DEFINE m == [p EXCEPT !.dst = n]
  <2>3. m \in Packets /\ m.hop = p.hop /\ m.steps = p.steps /\ m.kind = p.kind
    BY <2>2, SetDst
  <2> HIDE DEF m
  <2>4. AllGood(Forward(r, m))
    BY <2>3, ForwardGood DEF Slack
  <2>5. QED
    BY <2>4 DEF m
<1>3. DOMAIN f = ClusterMembers(r, g, p)
  OBVIOUS
<1> HIDE DEF f
<1>4. QED
  BY <1>1, <1>2, <1>3, TogetherGood

-----------------------------------------------------------------------------
\* Steps.

\* The inductive invariant.
Invariant == FwdTypeOK /\ \A p \in packets : Good(p)

\* The invariant gives the other lemmas their hypothesis.
LEMMA InvariantSound == Invariant => Sound
BY FwdAssumption DEF Invariant, FwdTypeOK, Sound

\* A step that replaces a packet by good ones keeps the invariant.
LEMMA BecomeGood ==
  ASSUME Invariant, NEW p \in packets, NEW R, AllGood(R), Become(p, R)
  PROVE  Invariant'
<1>1. UNCHANGED <<internet, table, arrived>> /\ \E Q \in R : packets' = (packets \ {p}) \cup Q
  BY DEF Become
<1>2. \A m \in packets' : Good(m)
  BY <1>1 DEF AllGood, Invariant
<1>3. \A m : Good(m)' <=> Good(m)
  BY <1>1 DEF Good, Fits, Weighted, Slack, Packets
<1>4. packets' \subseteq Packets
  BY <1>2 DEF Good, Fits
<1>5. FwdTypeOK'
  BY <1>1, <1>4 DEF FwdTypeOK, Invariant, Packets
<1>6. QED
  BY <1>2, <1>3, <1>5 DEF Invariant

\* Serve, for a packet of another network.
LEMMA ServeForwardGood ==
  ASSUME Invariant, NEW p \in packets, ServeForward(p)
  PROVE  Invariant'
<1> DEFINE r == p.at[3]
           near == clusterForNetwork(internet.clusters[r], p.dst)
           m == Passed(p)
<1>1. p \in Packets /\ Good(p) /\ Sound
  BY InvariantSound DEF Invariant, FwdTypeOK
<1>2. r \in Routers
  BY <1>1, PlacesApart DEF ServeForward, Packets
<1>3. m \in Packets /\ m.hop = p.hop /\ m.steps = p.steps + 1 /\ m.kind = p.kind
  BY <1>1, SetSteps
<1> HIDE DEF m
<1>4. Weighted => m.steps <= m.hop + 1 + Slack(m)
  BY <1>1, <1>3 DEF Good, Fits, Slack, Packets, Hops
<1>5. CASE Become(p, handleClusteredNBPFwdReq(r, CHOOSE g \in near : TRUE, m))
  BY <1>1, <1>2, <1>3, <1>4, <1>5, ClusterGood, BecomeGood
<1>6. CASE Become(p, Forward(r, m))
  BY <1>1, <1>2, <1>3, <1>4, <1>6, ForwardGood, BecomeGood
<1>7. QED
  BY <1>5, <1>6 DEF ServeForward, m

\* HandleAEP's reply is a new packet.
LEMMA EchoFits ==
  ASSUME NEW c \in Cables, NEW p \in Packets
  PROVE  Fits(EchoReply(c, p))
<1>1. p.src \in Nat /\ p.dst \in Nat /\ p.from \in Cables /\ p.hop \in Hops /\ "reply" \in Kinds
      /\ <<>> \in {<<>>} \cup Kinds \X Nat \X Nat \X Nat
  BY DEF Packets, Kinds
<1> DEFINE m == EchoReply(c, p)
<1>2. m \in Packets /\ m.steps = 0 /\ m.hop = p.hop
  BY <1>1 DEF Packets, EchoReply
<1>3. QED
  BY <1>1, <1>2 DEF Fits, Slack, Hops, maxRouteDistance

\* Serve, for a packet to the router, one step per branch.
LEMMA ServeLocalGood ==
  ASSUME Invariant, NEW p \in packets, ServeLocal(p)
  PROVE  Invariant'
<1> DEFINE r == p.at[3]
           c == p.at[2]
           m == Passed(p)
<1>1. p \in Packets /\ Good(p) /\ Sound
  BY InvariantSound DEF Invariant, FwdTypeOK
<1>2. r \in Routers /\ c \in Cables
  BY <1>1, PlacesApart DEF ServeLocal, Packets
<1>3. CASE Become(p, handleNBPBrRq(r, c, p))
  BY <1>1, <1>2, <1>3, BrRqGood, BecomeGood
<1>4. CASE p.kind = "FwdReq" /\ Become(p, handleNBPFwdReq(r, m))
  <2>1. m \in Packets /\ m.hop = p.hop /\ m.steps = p.steps + 1
    BY <1>1, SetSteps
  <2> HIDE DEF m
  <2>2. Weighted => m.steps <= m.hop + 1
    BY <1>1, <1>4, <2>1 DEF Good, Fits, Slack, Packets, Hops
  <2>3. QED
    BY <1>1, <1>2, <1>4, <2>1, <2>2, FwdReqGood, BecomeGood
<1>5. CASE Become(p, {AnswerLkUp(r, c, p)})
  <2>1. \A n \in AnswerLkUp(r, c, p) : Good(n)
    BY <1>1, <1>2, AnswerFits, SendOnGood DEF AnswerLkUp
  <2>2. QED
    BY <1>5, <2>1, BecomeGood DEF AllGood
<1>6. CASE Become(p, Output(r, EchoReply(c, p)))
  BY <1>1, <1>2, <1>6, EchoFits, OutputGood, BecomeGood
<1>7. CASE Become(p, {{}})
  BY <1>7, BecomeGood DEF AllGood
<1>8. QED
  BY <1>3, <1>4, <1>5, <1>6, <1>7 DEF ServeLocal

\* AURPInput's branches, once source and tuple are remapped.
LEMMA HandleFromTunnelGood ==
  ASSUME Sound, NEW r \in Routers, NEW q \in Routers, NEW p, Fits(p)
  PROVE  AllGood(HandleFromTunnel(r, q, p))
<1>1. p \in Packets /\ (Weighted => p.steps <= p.hop + 1)
  BY DEF Fits, Slack, Packets, Hops
<1>2. AllGood({{}}) /\ AllGood(handleNBPFwdReq(r, p)) /\ AllGood(OutputFromAURP(r, q, p))
  BY <1>1, FwdReqGood, OutputFromAURPGood DEF AllGood
<1>3. QED
  BY <1>2 DEF HandleFromTunnel, HandleNBPFromAURP

\* AURPInput, for an encapsulated packet.
LEMMA FromTunnelGood ==
  ASSUME Invariant, NEW p \in packets, FromTunnel(p)
  PROVE  Invariant'
<1> DEFINE q == p.at[2]
           r == p.at[3]
           m == Passed(p)
           known == IF importNetworkHidden(r, q, p.src) THEN {} ELSE remapInboundDDP(r, q, m)
           R == IF known = {} THEN {{}} ELSE UNION {HandleFromTunnel(r, q, n) : n \in known}
<1>1. p \in Packets /\ Good(p) /\ Sound
  BY InvariantSound DEF Invariant, FwdTypeOK
<1>2. r \in Routers /\ q \in Routers /\ p.at \in InTunnel
  BY <1>1, PlacesApart DEF FromTunnel, Packets
<1>3. Become(p, R)
  BY DEF FromTunnel
<1>4. m \in Packets /\ m.hop = p.hop /\ m.steps = p.steps + 1 /\ m.kind = p.kind
  BY <1>1, SetSteps
<1> HIDE DEF m
<1>5. Weighted => m.steps <= m.hop + Slack(m)
  BY <1>1, <1>2, <1>4 DEF Good, Slack
<1>6. ASSUME NEW n \in known
      PROVE  Fits(n)
  <2>1. n \in remapInboundDDP(r, q, m)
    OBVIOUS
  <2>2. n \in Packets /\ n.hop = m.hop /\ n.steps = m.steps /\ n.kind = m.kind
    BY <1>1, <1>2, <1>4, <2>1, InboundFits
  <2>3. QED
    BY <1>5, <2>2 DEF Fits, Slack
<1> HIDE DEF known
<1>7. AllGood(R)
  BY <1>1, <1>2, <1>6, HandleFromTunnelGood DEF AllGood
<1> HIDE DEF R
<1>8. QED
  BY <1>3, <1>7, BecomeGood

\* A host's answer is a new packet: it has passed no router.
LEMMA AnswerNew ==
  ASSUME Sound, NEW c \in Cables, NEW p \in Packets, NEW m \in Answer(p, c)
  PROVE  m \in Packets /\ m.steps = 0 /\ m.hop = 0
<1> DEFINE num == internet.number[c]
           new == [p EXCEPT !.src = num, !.hop = 0, !.any = FALSE, !.from = c, !.to = p.from, !.steps = 0]
<1>1. num \in Nat
  BY DEF Sound, Configured
<1> HIDE DEF num
<1>2. p.src \in Nat /\ p.tuple \in Nat /\ p.from \in Cables /\ 0 \in Hops
  BY DEF Packets, Hops, maxRouteDistance
<1>3. new \in Packets /\ new.steps = 0 /\ new.hop = 0
  BY <1>1, <1>2 DEF Packets
<1>4. \/ m = [new EXCEPT !.kind = "reply", !.dst = p.src]
      \/ m = [new EXCEPT !.kind = "LkUpReply", !.dst = p.tuple, !.tuple = num]
      \/ m = [new EXCEPT !.kind = "data", !.dst = p.tuple, !.tuple = 0]
  BY DEF Answer, num
<1> HIDE DEF new
<1>5. "reply" \in Kinds /\ "LkUpReply" \in Kinds /\ "data" \in Kinds
  BY DEF Kinds
<1>6. CASE m = [new EXCEPT !.kind = "reply", !.dst = p.src]
  BY <1>2, <1>3, <1>5, <1>6 DEF Packets
<1>7. CASE m = [new EXCEPT !.kind = "LkUpReply", !.dst = p.tuple, !.tuple = num]
  BY <1>1, <1>2, <1>3, <1>5, <1>7 DEF Packets
<1>8. CASE m = [new EXCEPT !.kind = "data", !.dst = p.tuple, !.tuple = 0]
  BY <1>2, <1>3, <1>5, <1>8 DEF Packets
<1>9. QED
  BY <1>4, <1>6, <1>7, <1>8

\* A host's answer, where the host sends it.
LEMMA PlacedGood ==
  ASSUME NEW m \in Packets, m.steps = 0, m.hop = 0, NEW at \in AtRouter \cup AtHosts
  PROVE  Good(Placed(m, at))
<1>1. Sum(m) \in {<<>>} \cup Kinds \X Nat \X Nat \X Nat
  BY DEF Sum, Packets
<1> DEFINE n == [m EXCEPT !.at = at, !.sum = Sum(m)]
<1>2. at \in Places /\ at \notin InTunnel
  BY PlacesApart DEF Places
<1>3. n \in Packets /\ n.steps = 0 /\ n.hop = 0 /\ n.at = at
  BY <1>1, <1>2 DEF Packets, Places
<1>4. QED
  BY <1>2, <1>3 DEF Good, Fits, Slack, Placed

\* A host receives and answers.
LEMMA HostReceivesGood ==
  ASSUME Invariant, NEW p \in packets, HostReceives(p)
  PROVE  Invariant'
<1> DEFINE c == p.at[2]
<1>1. p \in Packets /\ Sound
  BY InvariantSound DEF Invariant, FwdTypeOK
<1>2. c \in Cables /\ p.kind \in Kinds
  BY <1>1, PlacesApart DEF HostReceives, Packets
<1>3. PICK at \in {<<"router", c, r>> : r \in {r \in Routers : HasPort(r, c)}} :
        packets' = (packets \ {p}) \cup
          {Placed(m, IF m.dst = internet.number[c] THEN <<"hosts", c>> ELSE at) : m \in Answer(p, c)}
  BY DEF HostReceives
<1>4. at \in AtRouter /\ <<"hosts", c>> \in AtHosts
  BY <1>2, <1>3 DEF AtRouter, AtHosts
<1>5. \A m \in Answer(p, c) :
        Good(Placed(m, IF m.dst = internet.number[c] THEN <<"hosts", c>> ELSE at))
  BY <1>1, <1>2, <1>4, AnswerNew, PlacedGood
<1>6. \A m \in packets' : Good(m)
  BY <1>3, <1>5 DEF Invariant
<1>7. UNCHANGED <<internet, table>> /\ arrived' = arrived \cup {<<p.kind, c>>}
  BY DEF HostReceives
<1>8. \A m : Good(m)' <=> Good(m)
  BY <1>7 DEF Good, Fits, Weighted, Slack, Packets
<1>9. FwdTypeOK'
  BY <1>2, <1>6, <1>7 DEF FwdTypeOK, Invariant, Good, Fits, Packets
<1>10. QED
  BY <1>6, <1>8, <1>9 DEF Invariant

\* Tables change freely: the invariant does not depend on what they say.
LEMMA ChurnGood ==
  ASSUME Invariant, Churn
  PROVE  Invariant'
<1>1. table' \in [Routers -> SUBSET Routes]
  BY InvariantSound DEF Churn, Sound, Configured
<1>2. UNCHANGED <<internet, packets, arrived>>
  BY DEF Churn
<1>3. QED
  BY <1>1, <1>2 DEF Invariant, FwdTypeOK, Good, Fits, Weighted, Slack, Packets

\* The first packets are good.
LEMMA FwdInitGood == FwdInit => Invariant
<1>1. SUFFICES ASSUME FwdInit
               PROVE  Invariant
  OBVIOUS
<1>2. Configured(internet) /\ packets = internet.first /\ table \in internet.tables
  BY <1>1, FwdAssumption DEF FwdInit
<1>3. packets \subseteq Packets /\ \A p \in packets : p.at \in AtRouter /\ p.steps = 0
  BY <1>2 DEF Configured
<1>4. \A p \in packets : Good(p)
  BY <1>3, PlacesApart DEF Good, Fits, Slack, Packets, Hops
<1>5. FwdTypeOK
  BY <1>1, <1>2, <1>3 DEF FwdTypeOK, FwdInit, Configured
<1>6. QED
  BY <1>4, <1>5 DEF Invariant

\* Every step keeps the invariant.
LEMMA InvariantKept == FwdSpec => []Invariant
<1>1. ASSUME Invariant, [FwdNext]_fwdVars
      PROVE  Invariant'
  <2>1. CASE UNCHANGED fwdVars
    BY <1>1, <2>1 DEF fwdVars, Invariant, FwdTypeOK, Good, Fits, Weighted, Slack, Packets
  <2>2. CASE Churn
    BY <1>1, <2>2, ChurnGood
  <2>3. ASSUME NEW p \in packets, Move(p)
        PROVE  Invariant'
    BY <1>1, <2>3, ServeForwardGood, ServeLocalGood, FromTunnelGood, HostReceivesGood DEF Move
  <2>4. QED
    BY <1>1, <2>1, <2>2, <2>3 DEF FwdNext
<1>2. QED
  BY <1>1, FwdInitGood, PTL DEF FwdSpec

\* Whatever the internet, its configuration and its tables, every packet the routers make
\* of another is of its type: no hop count leaves the four bits of its field.
THEOREM FwdTypeCorrect == FwdSpec => []FwdTypeOK
<1>1. Invariant => FwdTypeOK
  BY DEF Invariant
<1>2. QED
  BY <1>1, InvariantKept, PTL

\* Whatever the tables hold and however they change, where every tunnel has weight and no
\* router reduces hop counts a packet has passed no more routers than its hop count says.
THEOREM HopsAreCounted == FwdSpec => []HopsCount
<1>1. Invariant => HopsCount
  BY DEF Invariant, HopsCount, Good, Fits, Weighted, Slack
<1>2. QED
  BY <1>1, InvariantKept, PTL
=============================================================================
