----------------------------- MODULE RouteTable -----------------------------
(***************************************************************************)
(* The routing table of router/route_table.go and router/zones.go.  A      *)
(* route is stored twice: in byClass, which owns it, and in byNetwork for  *)
(* every network of its range, which packets are forwarded by.  Zone names *)
(* are stored twice, by network and by zone.  Observers (the AURP peers)   *)
(* are told about every change of the best route of a range start.         *)
(*                                                                         *)
(* Every lock of the table covers one index or one network only, so an     *)
(* operation is a sequence of short critical sections.  Each of them is    *)
(* one step here, and the steps of concurrent callers interleave.          *)
(*                                                                         *)
(* Equal copies of a route in one byNetwork list are one element here.     *)
(* Ranges overlap only when they start at the same network, as AppleTalk   *)
(* prescribes.                                                             *)
(***************************************************************************)
EXTENDS Integers, FiniteSets

CONSTANTS
  Threads,     \* goroutines that change the table
  Ops,         \* the operations each of them calls
  Own,         \* the target each of them calls for
  Targets,     \* route targets
  AgedTargets, \* targets of class AppleTalkPeer, whose routes expire
  Rank,        \* preference between targets: class, then origin and key
  Networks,    \* network numbers
  Ranges,      \* ranges <<start, end>> that are advertised
  Dists,       \* distances
  Zones,       \* zone names
  None,        \* the zero Route
  Concurrent,  \* whether calls may overlap
  MaxAge,      \* maxRouteAge
  MaxClock,    \* bound on time
  MaxCalls     \* bound on the calls of each thread

OpNames == {"Upsert", "UpdateDistance", "DeleteRoute", "DeleteTarget",
            "AddZones", "ReplaceZones", "Prune"}

Starts == {g[1] : g \in Ranges}

ASSUME TableAssumption ==
  /\ Ops \in [Threads -> SUBSET OpNames]
  /\ Own \in [Threads -> Targets] /\ AgedTargets \subseteq Targets
  /\ Rank \in [Targets -> Nat]
  /\ Networks \subseteq Nat /\ IsFiniteSet(Networks)
  /\ Ranges \subseteq Networks \X Networks
  /\ \A g \in Ranges : g[1] <= g[2] /\ g[1]..g[2] \subseteq Networks
  /\ Dists \subseteq 0..15
  /\ Concurrent \in BOOLEAN
  /\ MaxAge \in Nat /\ MaxClock \in Nat /\ MaxCalls \in Nat

Time == 0..MaxClock

Route == [target : Targets, start : Networks, end : Networks, dist : Dists, seen : Time]

ASSUME NoneAssumption == None \notin Route

VARIABLES
  byClass,        \* stored routes, at most one for a target and a start
  byNetwork,      \* routes of each network
  zoneNames,      \* zone names of each network
  networksByZone, \* how often a zone's list contains each network
  told,           \* the best route observers were last told for a start
  clock,
  call,           \* the call each thread is in, with its local variables
  left            \* calls left to each thread

table == <<byClass, byNetwork>>
zones == <<zoneNames, networksByZone>>
vars == <<byClass, byNetwork, zoneNames, networksByZone, told, clock, call, left>>

-----------------------------------------------------------------------------
\* Routes.

Key(r) == <<r.target, r.start>>
RangeOf(R) == UNION {r.start..r.end : r \in R}

ExpiredRoute(r) == r.target \in AgedTargets /\ clock - r.seen > MaxAge
ValidIgnoringAge(r) == zoneNames[r.start] # {}
Valid(r) == ValidIgnoringAge(r) /\ ~ExpiredRoute(r)

\* compareRoutePreference.
Prefer(a, b) ==
  a.dist < b.dist \/ (a.dist = b.dist /\ Rank[a.target] < Rank[b.target])

\* The first of the routes R in the order of preference.  The sort is not
\* stable: any of two copies of a route may be the first.
First(R) == IF R = {} THEN {None} ELSE {a \in R : \A b \in R : ~Prefer(b, a)}

Lookup(n) == First({r \in byNetwork[n] : Valid(r)})
LookupIgnoringAge(n) == First({r \in byNetwork[n] : ValidIgnoringAge(r)})

\* What observers learn of a route.
View(r) == IF r = None THEN None ELSE [target |-> r.target, end |-> r.end, dist |-> r.dist]

-----------------------------------------------------------------------------
\* Calls.

NoCall == [pc |-> "idle"]

\* Locals: the best routes before the change, the stored routes it removes, the
\* one it adds, the networks and range starts still to be visited, and the best
\* route after the change.
NewCall(op, n) ==
  [op |-> op, pc |-> "look", start |-> n, end |-> n, dist |-> 0, zones |-> {},
   best |-> [k \in Starts |-> None], gone |-> {}, new |-> None,
   todo |-> {n}, at |-> n, starts |-> {n}, next |-> None]

Quiet == \A t \in Threads : call[t] = NoCall

CanBegin(t, op) == op \in Ops[t] /\ call[t] = NoCall /\ (Concurrent \/ Quiet)

Counted(t) == left[t] > 0 /\ left' = [left EXCEPT ![t] = @ - 1]

\* t goes on with local variables c.
Continue(t, c) == call' = [call EXCEPT ![t] = c]

Begin(t, c) ==
  /\ Counted(t) /\ Continue(t, c)
  /\ UNCHANGED <<table, zones, told, clock>>

BeginUpsert(t) ==
  /\ CanBegin(t, "Upsert")
  /\ \E g \in Ranges, d \in Dists :
       Begin(t, [NewCall("Upsert", g[1]) EXCEPT !.end = g[2], !.dist = d])

BeginUpdateDistance(t) ==
  /\ CanBegin(t, "UpdateDistance")
  /\ \E n \in Starts, d \in Dists :
       Begin(t, [NewCall("UpdateDistance", n) EXCEPT !.dist = d])

BeginDeleteRoute(t) ==
  /\ CanBegin(t, "DeleteRoute")
  /\ \E n \in Starts : Begin(t, NewCall("DeleteRoute", n))

\* A ZIP Reply, or the port's own zones.
BeginAddZones(t) ==
  /\ CanBegin(t, "AddZones")
  /\ \E n \in Starts, z \in Zones :
       Begin(t, [NewCall("AddZones", n) EXCEPT !.zones = {z}])

\* A complete ZI-Rsp, for a network the peer owns a route of.
BeginReplaceZones(t) ==
  /\ CanBegin(t, "ReplaceZones")
  /\ \E n \in Starts, zs \in SUBSET Zones \ {{}} :
       /\ \E r \in byClass : Key(r) = <<Own[t], n>>
       /\ Begin(t, [NewCall("ReplaceZones", n) EXCEPT !.zones = zs])

\* DeleteTarget and PruneExpiredRoutes begin by taking all routes of the target,
\* all expired routes, out of byClass.
TakeAll(t, op, gone) ==
  /\ gone # {}
  /\ byClass' = byClass \ gone
  /\ Continue(t, LET S == {r.start : r \in gone}
                     n == CHOOSE k \in S : TRUE
                 IN  [NewCall(op, n) EXCEPT !.gone = gone, !.todo = S, !.starts = S])
  /\ UNCHANGED <<byNetwork, zones, told, clock>>

DeleteTarget(t) ==
  /\ CanBegin(t, "DeleteTarget") /\ Counted(t)
  /\ TakeAll(t, "DeleteTarget", {r \in byClass : r.target = Own[t]})

PruneExpiredRoutes(t) ==
  /\ CanBegin(t, "Prune") /\ UNCHANGED left
  /\ TakeAll(t, "Prune", {r \in byClass : ExpiredRoute(r)})

-----------------------------------------------------------------------------
\* The steps of a call.  Step is the frame of one critical section.

Step(t, pc) == call[t].pc = pc /\ UNCHANGED <<clock, left>>

Visits(c, n) == n \in c.todo /\ \A k \in c.todo : n <= k

\* Mutant: only the start of the range is visited.
RemovingStart(c) == [c EXCEPT !.pc = "remove", !.todo = {g.start : g \in c.gone}]

\* Where a call goes when a phase is over.
Removing(c) == [c EXCEPT !.pc = "remove", !.todo = RangeOf(c.gone)]
Appending(c) == [c EXCEPT !.pc = "append", !.todo = RangeOf({c.new})]
LookingAgain(c) == [c EXCEPT !.pc = "relook", !.todo = {}]
Clearing(c) ==
  LET S == RangeOf(c.gone) \ RangeOf({c.new})
  IN  IF S = {} THEN LookingAgain(c) ELSE [c EXCEPT !.pc = "clear", !.todo = S]

\* Mutant: the route that has expired does not count as the old best route.
OldBestWhenPruned(c, n) == Lookup(n)

\* The best route before the change; for expired routes, before they expired.
OldBest(c, n) == IF c.op = "Prune" THEN LookupIgnoringAge(n) ELSE Lookup(n)

Look(t) ==
  /\ Step(t, "look")
  /\ \E n \in call[t].todo : \E b \in OldBest(call[t], n) :
       LET c == [call[t] EXCEPT !.best[n] = b, !.todo = @ \ {n}]
       IN  Continue(t,
             CASE c.todo # {} -> c
               [] c.todo = {} /\ c.op \in {"Upsert", "UpdateDistance"} ->
                    [c EXCEPT !.pc = "find"]
               [] c.todo = {} /\ c.op = "DeleteRoute" -> [c EXCEPT !.pc = "take"]
               [] c.todo = {} /\ c.op \in {"AddZones", "ReplaceZones"} ->
                    [c EXCEPT !.pc = "zones"]
               [] c.todo = {} /\ c.op \in {"DeleteTarget", "Prune"} -> Removing(c))
  /\ UNCHANGED <<table, zones, told>>

Stored(t) == {r \in byClass : Key(r) = <<Own[t], call[t].start>>}

\* find, and the new route made from what it returns.
Find(t) ==
  LET c == call[t]
      fresh == [target |-> Own[t], start |-> c.start, end |-> c.end, dist |-> c.dist,
                seen |-> clock]
  IN  /\ Step(t, "find")
      /\ \/ /\ c.op = "Upsert"
            /\ Continue(t, [c EXCEPT !.pc = "store", !.gone = Stored(t), !.new = fresh])
         \/ /\ c.op = "UpdateDistance" /\ Stored(t) = {}
            /\ Continue(t, NoCall)
         \/ /\ c.op = "UpdateDistance"
            /\ \E old \in Stored(t) :
                 Continue(t, [c EXCEPT !.pc = "store", !.gone = {old},
                                       !.new = [fresh EXCEPT !.end = old.end]])
      /\ UNCHANGED <<table, zones, told>>

\* byClass[class][key] = r.
StoredWith(r) == {s \in byClass : Key(s) # Key(r)} \cup {r}

Store(t) ==
  LET c == call[t]
  IN  /\ Step(t, "store")
      /\ byClass' = StoredWith(c.new)
      /\ Continue(t, CASE c.op = "UpdateDistance" ->
                            [c EXCEPT !.pc = "replace", !.todo = RangeOf(c.gone)]
                       [] c.op = "Upsert" /\ c.gone = {} -> Appending(c)
                       [] c.op = "Upsert" /\ c.gone # {} -> Removing(c))
      /\ UNCHANGED <<byNetwork, zones, told>>

\* DeleteRoute takes its route out of byClass.
Take(t) ==
  LET c == call[t]
  IN  /\ Step(t, "take")
      /\ byClass' = byClass \ Stored(t)
      /\ Continue(t, IF Stored(t) = {} THEN NoCall
                     ELSE Removing([c EXCEPT !.gone = Stored(t)]))
      /\ UNCHANGED <<byNetwork, zones, told>>

\* Mutant: a copy refreshed since is removed as well.
RemovesRefreshed(c, target, r) ==
  CASE c.op = "Prune" -> \E g \in c.gone : Key(g) = Key(r)
    [] c.op = "DeleteTarget" -> r.target = target
    [] OTHER -> Key(r) = <<target, c.start>>

\* The copies a call removes from the list of a network.  A copy that has been
\* refreshed since is not pruned.
Removes(c, target, r) ==
  CASE c.op = "Prune" -> \E g \in c.gone : Key(g) = Key(r) /\ r.seen <= g.seen
    [] c.op = "DeleteTarget" -> r.target = target
    [] OTHER -> Key(r) = <<target, c.start>>

\* The networks of a range are visited in order, those of a set in any order.
Remove(t) ==
  /\ Step(t, "remove")
  /\ \E n \in call[t].todo :
       LET c == [call[t] EXCEPT !.todo = @ \ {n}, !.at = n]
       IN  /\ c.op \in {"Upsert", "DeleteRoute"} => Visits(call[t], n)
           /\ byNetwork' = [byNetwork EXCEPT ![n] = {r \in @ : ~Removes(c, Own[t], r)}]
           /\ Continue(t, CASE c.op # "Upsert" -> [c EXCEPT !.pc = "clear"]
                            [] c.op = "Upsert" /\ c.todo # {} -> c
                            [] c.op = "Upsert" /\ c.todo = {} -> Appending(c))
  /\ UNCHANGED <<byClass, zones, told>>

Append(t) ==
  /\ Step(t, "append")
  /\ \E n \in call[t].todo :
       LET c == [call[t] EXCEPT !.todo = @ \ {n}]
       IN  /\ Visits(call[t], n)
           /\ byNetwork' = [byNetwork EXCEPT ![n] = @ \cup {c.new}]
           /\ Continue(t, IF c.todo = {} THEN Clearing(c) ELSE c)
  /\ UNCHANGED <<byClass, zones, told>>

\* UpdateDistance replaces the copies in place.
Replace(t) ==
  /\ Step(t, "replace")
  /\ \E n \in call[t].todo :
       LET c == [call[t] EXCEPT !.todo = @ \ {n}]
       IN  /\ Visits(call[t], n)
           /\ byNetwork' = [byNetwork EXCEPT
                ![n] = {IF Key(r) = Key(c.new) THEN c.new ELSE r : r \in @}]
           /\ Continue(t, IF c.todo = {} THEN LookingAgain(c) ELSE c)
  /\ UNCHANGED <<byClass, zones, told>>

\* Mutant: the zones go although the network has routes.
ZonesWithoutCheck(n) == {}

\* clearZonesForNetworkIfNoRoutes.
ZonesAfterClear(n) == IF byNetwork[n] = {} THEN {} ELSE zoneNames[n]

\* Mutant: a zone the network already has is appended to its list again.
ReindexedAgain(n, zs) ==
  [z \in Zones |-> [networksByZone[z] EXCEPT
     ![n] = IF z \in zoneNames[n] \ zs THEN 0 ELSE IF z \in zs THEN @ + 1 ELSE @]]

\* The networks of a zone's list once network n has the zones zs: the list loses
\* n for a zone that goes and gets n for a zone that comes.
Reindexed(n, zs) ==
  [z \in Zones |-> [networksByZone[z] EXCEPT
     ![n] = IF z \in zoneNames[n] \ zs THEN 0
            ELSE IF z \in zs \ zoneNames[n] THEN @ + 1 ELSE @]]

Clear(t) ==
  /\ Step(t, "clear")
  /\ LET upsert == call[t].op = "Upsert"
         n == IF upsert THEN CHOOSE k \in call[t].todo : Visits(call[t], k)
              ELSE call[t].at
         c == [call[t] EXCEPT !.todo = @ \ {n}]
     IN  /\ zoneNames' = [zoneNames EXCEPT ![n] = ZonesAfterClear(n)]
         /\ networksByZone' = Reindexed(n, ZonesAfterClear(n))
         /\ Continue(t, CASE c.todo = {} -> LookingAgain(c)
                          [] c.todo # {} /\ upsert -> c
                          [] c.todo # {} /\ ~upsert -> [c EXCEPT !.pc = "remove"])
  /\ UNCHANGED <<table, told>>

SetZones(t) ==
  LET c == call[t]
      zs == c.zones \cup (IF c.op = "AddZones" THEN zoneNames[c.start] ELSE {})
  IN  /\ Step(t, "zones")
      /\ zoneNames' = [zoneNames EXCEPT ![c.start] = zs]
      /\ networksByZone' = Reindexed(c.start, zs)
      /\ Continue(t, LookingAgain(c))
      /\ UNCHANGED <<table, told>>

\* The best route after the change, for the next start in order.
NextStart(c) == CHOOSE n \in c.starts : \A k \in c.starts : n <= k

LookAgain(t) ==
  LET c == call[t]
  IN  /\ Step(t, "relook")
      /\ \E b \in Lookup(NextStart(c)) :
           Continue(t, [c EXCEPT !.pc = "inform", !.next = b])
      /\ UNCHANGED <<table, zones, told>>

\* Mutant: a new distance or range is not a change.
SameTarget(old, new) ==
  (old = None <=> new = None) /\ (old # None => old.target = new.target)

LooksTheSame(old, new) == View(old) = View(new)

\* informObservers: nothing is said when the best route looks the same.
InformObservers(t) ==
  LET c == call[t]
      n == NextStart(c)
      rest == c.starts \ {n}
  IN  /\ Step(t, "inform")
      /\ told' = [told EXCEPT ![n] =
                    IF LooksTheSame(c.best[n], c.next) THEN @ ELSE View(c.next)]
      /\ Continue(t, IF rest = {} THEN NoCall
                     ELSE [c EXCEPT !.pc = "relook", !.starts = rest])
      /\ UNCHANGED <<table, zones>>

\* A call ends long before the route it stores is maxRouteAge old.
NoCallOutlastsAge ==
  \A t \in Threads :
    (call[t] # NoCall /\ call[t].new # None) => clock - call[t].new.seen < MaxAge

Tick ==
  /\ clock < MaxClock /\ clock' = clock + 1
  /\ NoCallOutlastsAge
  /\ UNCHANGED <<table, zones, told, call, left>>

-----------------------------------------------------------------------------
Init ==
  /\ byClass = {} /\ byNetwork = [n \in Networks |-> {}]
  /\ zoneNames = [n \in Networks |-> {}]
  /\ networksByZone = [z \in Zones |-> [n \in Networks |-> 0]]
  /\ told = [n \in Starts |-> None]
  /\ clock = 0
  /\ call = [t \in Threads |-> NoCall]
  /\ left = [t \in Threads |-> MaxCalls]

Calls(t) ==
  \/ BeginUpsert(t) \/ BeginUpdateDistance(t) \/ BeginDeleteRoute(t)
  \/ BeginAddZones(t) \/ BeginReplaceZones(t) \/ DeleteTarget(t)

Runs(t) ==
  \/ Look(t) \/ Find(t) \/ Store(t) \/ Take(t) \/ Remove(t) \/ Append(t)
  \/ Replace(t) \/ Clear(t) \/ SetZones(t) \/ LookAgain(t) \/ InformObservers(t)

Next == Tick \/ \E t \in Threads : Calls(t) \/ PruneExpiredRoutes(t) \/ Runs(t)

Spec == Init /\ [][Next]_vars

\* A call that has begun goes on, and RunMaintenance prunes every 30 seconds.
FairSpec ==
  /\ Spec
  /\ \A t \in Threads : WF_vars(Runs(t)) /\ SF_vars(PruneExpiredRoutes(t))

-----------------------------------------------------------------------------
\* When no call is running, the list of a network holds exactly the stored
\* routes whose range covers it: no route is forwarded by that DeleteTarget or
\* PruneExpiredRoutes could not find, none is advertised that cannot be used.
IndexesAgree ==
  Quiet => \A n \in Networks :
             byNetwork[n] = {r \in byClass : n \in r.start..r.end}

\* A zone's list contains a network once if the zone is one of the network's
\* names, and not at all otherwise (AddZonesToNetwork, ReplaceZonesForNetwork
\* and clearZonesForNetworkIfNoRoutes "keep the forward and reverse zone
\* indexes in sync").
ZoneIndexesAgree ==
  \A z \in Zones, n \in Networks :
    networksByZone[z][n] = IF z \in zoneNames[n] THEN 1 ELSE 0

NoneExpired == \A r \in byClass : ~ExpiredRoute(r)

\* When no call is running and expired routes have been pruned, the observers'
\* last notice of a network is the route Lookup returns for it.
ObserversAgree ==
  (Quiet /\ NoneExpired) =>
    \A n \in Starts : told[n] \in {View(r) : r \in Lookup(n)}

\* "removes zone metadata once a network has no stored route candidates at all":
\* a network only loses its last zone name when byClass has no route that
\* covers it.
ZonesOutliveRoutes ==
  [][\A n \in Networks :
       (zoneNames[n] # {} /\ zoneNames'[n] = {}) =>
         \A r \in byClass : n \notin r.start..r.end]_vars

\* "AURP peers receive the corresponding ND/NRC/NDC lifecycle update instead of
\* silently retaining a route that Lookup has stopped using."
ExpiryReported ==
  \A n \in Starts :
    (told[n] # None /\ Lookup(n) = {None}) ~> (told[n] = None \/ Lookup(n) # {None})

\* AllZoneNames: "all zone names known to the router having at least one valid
\* route".
ListedZonesRoutable ==
  \A z \in Zones :
    (\E n \in Networks : networksByZone[z][n] > 0) =>
       \E n \in Networks : networksByZone[z][n] > 0 /\ Lookup(n) # {None}
=============================================================================
