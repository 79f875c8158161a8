------------------------------- MODULE Policy -------------------------------
(***************************************************************************)
(* The arithmetic of the tunnel policies: network remapping                *)
(* (router/aurp_remap.go), hidden networks, hop counts and distances       *)
(* (router/router.go, router/aurp_peer.go, router/rtmp.go) and clusters    *)
(* (router/aurp_cluster.go).  Operators only, without state.               *)
(*                                                                         *)
(* A list of remap rules holds the rules that match one peer, in the order *)
(* of the configuration: rules for every peer, for its tunnel ID and for   *)
(* its address.  The first rule that applies is taken.                     *)
(***************************************************************************)
EXTENDS Integers, FiniteSets, Sequences

maxRouteDistance == 15
Hops == 0..maxRouteDistance

\* The Phase 2 startup range begins here; a cable is never given its numbers.
StartupStart == 65280
Numbers == {n \in Nat : 1 <= n /\ n <= 65535}

Ranges == {g \in Numbers \X Numbers : g[1] <= g[2]}

contains(g, n) == g[1] <= n /\ n <= g[2]
overlaps(g, h) == h[1] <= g[2] /\ h[2] >= g[1]

-----------------------------------------------------------------------------
\* Remapping.  A rule gives the peer's range and the one it has here, for the peers its
\* selector stands for.

Rules == [peer : STRING, remote : Ranges, local : Ranges]

SameSize(r) == r.remote[2] - r.remote[1] = r.local[2] - r.local[1]

\* What LoadConfig checks.  Local ranges are disjoint; remote ranges are so only among
\* rules with the same selector, and several selectors may stand for one peer.
ValidRules(rules) ==
  /\ rules \in Seq(Rules)
  /\ \A i \in DOMAIN rules : SameSize(rules[i]) /\ rules[i].local[2] < StartupStart
  /\ \A i, j \in DOMAIN rules : i # j =>
       /\ ~overlaps(rules[i].local, rules[j].local)
       /\ rules[i].peer = rules[j].peer => ~overlaps(rules[i].remote, rules[j].remote)

\* The place of a number in its range is lost.
remapToStart(n, from, to) == IF contains(from, n) THEN to[1] ELSE n

remapNetworkNumber(n, from, to) == IF contains(from, n) THEN to[1] + (n - from[1]) ELSE n

\* The first of the rules with these places.
First(I) == CHOOSE i \in I : \A j \in I : i <= j

\* The places of the rules that bring a network of the peer here, and of those that take
\* it back.
Inward(rules, n) == {i \in DOMAIN rules : contains(rules[i].remote, n)}
Outward(rules, n) == {i \in DOMAIN rules : contains(rules[i].local, n)}

remapInboundNetwork(rules, n) ==
  IF Inward(rules, n) = {} THEN n
  ELSE LET r == rules[First(Inward(rules, n))] IN remapNetworkNumber(n, r.remote, r.local)

remapOutboundNetwork(rules, n) ==
  IF Outward(rules, n) = {} THEN n
  ELSE LET r == rules[First(Outward(rules, n))] IN remapNetworkNumber(n, r.local, r.remote)

\* A range is mapped by the first rule that holds all of it.
Holding(rules, g) ==
  {i \in DOMAIN rules : rules[i].remote[1] <= g[1] /\ g[2] <= rules[i].remote[2]}

remapInboundRange(rules, g) ==
  IF Holding(rules, g) = {} THEN g
  ELSE LET r == rules[First(Holding(rules, g))]
       IN <<remapNetworkNumber(g[1], r.remote, r.local), remapNetworkNumber(g[2], r.remote, r.local)>>

-----------------------------------------------------------------------------
\* Hidden networks.

\* The end of a hidden range is left out.
hiddenBeforeEnd(hidden, n) == \E g \in hidden : g[1] <= n /\ n < g[2]

networkHidden(hidden, n) == \E g \in hidden : contains(g, n)
rangeHidden(hidden, g) == \E h \in hidden : overlaps(h, g)

-----------------------------------------------------------------------------
\* Distances and hop counts.  -1 stands for an error or an unreachable route.

\* The distance of a route that a peer advertises at distance d.
weightedAURPDistance(d, weight, penalty) ==
  IF d >= maxRouteDistance THEN -1
  ELSE LET distance == d + 1 + weight + penalty
       IN IF distance > maxRouteDistance THEN -1 ELSE distance

\* The weight is added without a limit.
addHopWeight(hop, weight) == hop + weight

\* The hop count of a packet that enters a tunnel.
applyAURPHopWeight(hop, weight) == IF hop + weight > maxRouteDistance THEN -1 ELSE hop + weight

\* The hop count of a packet that leaves a tunnel with this distance to go.
reduceAURPHopCount(hop, remaining) ==
  IF hop >= maxRouteDistance \/ remaining >= maxRouteDistance THEN -1
  ELSE IF hop + remaining <= maxRouteDistance THEN hop
  ELSE maxRouteDistance - remaining

-----------------------------------------------------------------------------
\* Clusters: ranges of remapped networks that the cables see as one network.

clusterForNetwork(clusters, n) == {c \in clusters : contains(c, n)}
containsRoute(c, g) == c[1] <= g[1] /\ g[2] <= c[2]
=============================================================================
