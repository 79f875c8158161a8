-------------------------- MODULE RouteTable_proofs --------------------------
(***************************************************************************)
(* Proof that the two zone indexes of the route table agree, for any       *)
(* threads, networks and zones and any interleaving of their calls.  It    *)
(* rests on the locks: both indexes change in one critical section (the    *)
(* network's lock, and networksByZoneMu inside it), and what is added to a *)
(* zone's list depends on the names the network has in that section.       *)
(***************************************************************************)
EXTENDS RouteTable, TLAPS

\* The indexes are a map over the networks and one list per zone.
ZoneMaps ==
  /\ zoneNames = [n \in Networks |-> zoneNames[n]]
  /\ networksByZone = [z \in Zones |-> [n \in Networks |-> networksByZone[z][n]]]

\* The inductive invariant.
ZoneInv == ZoneMaps /\ ZoneIndexesAgree

\* Giving network n the zones zs and the lists that Reindexed makes of it
\* keeps the indexes in agreement, whatever n and zs are.
LEMMA ReindexedAgrees ==
  ASSUME ZoneInv, NEW n, NEW zs,
         zoneNames' = [zoneNames EXCEPT ![n] = zs], networksByZone' = Reindexed(n, zs)
  PROVE  ZoneInv'
<1>1. ZoneMaps'
  BY DEF ZoneInv, ZoneMaps, Reindexed
<1>2. ASSUME NEW z \in Zones, NEW k \in Networks
      PROVE  networksByZone'[z][k] = IF z \in zoneNames'[k] THEN 1 ELSE 0
  <2>1. networksByZone[z][k] = IF z \in zoneNames[k] THEN 1 ELSE 0
    BY DEF ZoneInv, ZoneIndexesAgree
  <2>2. CASE k = n
    <3>1. zoneNames'[k] = zs
      BY <2>2 DEF ZoneInv, ZoneMaps
    <3>2. networksByZone'[z][k] = IF z \in zoneNames[k] \ zs THEN 0
                                  ELSE IF z \in zs \ zoneNames[k]
                                       THEN networksByZone[z][k] + 1
                                       ELSE networksByZone[z][k]
      BY <2>2 DEF ZoneInv, ZoneMaps, Reindexed
    <3> QED BY <2>1, <3>1, <3>2
  <2>3. CASE k # n
    <3>1. zoneNames'[k] = zoneNames[k] /\ networksByZone'[z][k] = networksByZone[z][k]
      BY <2>3 DEF ZoneInv, ZoneMaps, Reindexed
    <3> QED BY <2>1, <3>1
  <2> QED BY <2>2, <2>3
<1> QED BY <1>1, <1>2 DEF ZoneInv, ZoneIndexesAgree

\* A step that changes neither index keeps them in agreement.
LEMMA ZonesUnchanged ==
  ASSUME ZoneInv, UNCHANGED zones
  PROVE  ZoneInv'
BY DEF ZoneInv, ZoneMaps, ZoneIndexesAgree, zones

\* Beginning a call does not touch the zones.
LEMMA CallsKeepZones ==
  ASSUME NEW t \in Threads, Calls(t) \/ PruneExpiredRoutes(t)
  PROVE  UNCHANGED zones
<1>1. ASSUME NEW c, Begin(t, c)
      PROVE  UNCHANGED zones
  BY <1>1 DEF Begin
<1>2. ASSUME NEW op, NEW gone, TakeAll(t, op, gone)
      PROVE  UNCHANGED zones
  BY <1>2 DEF TakeAll
<1>3. CASE BeginUpsert(t)
  BY <1>1, <1>3 DEF BeginUpsert
<1>4. CASE BeginUpdateDistance(t)
  BY <1>1, <1>4 DEF BeginUpdateDistance
<1>5. CASE BeginDeleteRoute(t)
  BY <1>1, <1>5 DEF BeginDeleteRoute
<1>6. CASE BeginAddZones(t)
  BY <1>1, <1>6 DEF BeginAddZones
<1>7. CASE BeginReplaceZones(t)
  BY <1>1, <1>7 DEF BeginReplaceZones
<1>8. CASE DeleteTarget(t)
  BY <1>2, <1>8 DEF DeleteTarget
<1>9. CASE PruneExpiredRoutes(t)
  BY <1>2, <1>9 DEF PruneExpiredRoutes
<1> QED BY <1>3, <1>4, <1>5, <1>6, <1>7, <1>8, <1>9 DEF Calls

\* Each critical section of a call keeps the indexes in agreement.
LEMMA RunsKeepZones ==
  ASSUME ZoneInv, NEW t \in Threads, Runs(t)
  PROVE  ZoneInv'
<1>1. CASE Clear(t)
  <2>1. PICK n : /\ zoneNames' = [zoneNames EXCEPT ![n] = ZonesAfterClear(n)]
                 /\ networksByZone' = Reindexed(n, ZonesAfterClear(n))
    BY <1>1 DEF Clear
  <2> QED BY <2>1, ReindexedAgrees
<1>2. CASE SetZones(t)
  <2>1. PICK n, zs : /\ zoneNames' = [zoneNames EXCEPT ![n] = zs]
                     /\ networksByZone' = Reindexed(n, zs)
    BY <1>2 DEF SetZones
  <2> QED BY <2>1, ReindexedAgrees
<1>3. CASE Look(t) \/ Find(t) \/ LookAgain(t) \/ InformObservers(t)
  <2>1. UNCHANGED zones
    BY <1>3 DEF Look, Find, LookAgain, InformObservers
  <2> QED BY <2>1, ZonesUnchanged
<1>4. CASE Store(t) \/ Take(t) \/ Remove(t) \/ Append(t) \/ Replace(t)
  <2>1. UNCHANGED zones
    BY <1>4 DEF Store, Take, Remove, Append, Replace
  <2> QED BY <2>1, ZonesUnchanged
<1> QED BY <1>1, <1>2, <1>3, <1>4 DEF Runs

\* In every state, also between the critical sections of concurrent calls, a
\* zone's list holds a network exactly once if the zone is one of its names:
\* AddZonesToNetwork, ReplaceZonesForNetwork and clearZonesForNetworkIfNoRoutes
\* keep the reverse index free of duplicates and of leftovers.
THEOREM ZoneIndexesStayInAgreement == Spec => []ZoneIndexesAgree
<1>1. Init => ZoneInv
  BY DEF Init, ZoneInv, ZoneMaps, ZoneIndexesAgree
<1>2. ZoneInv /\ [Next]_vars => ZoneInv'
  <2> SUFFICES ASSUME ZoneInv, [Next]_vars
               PROVE  ZoneInv'
    OBVIOUS
  <2>1. CASE Tick \/ UNCHANGED vars
    <3>1. UNCHANGED zones
      BY <2>1 DEF Tick, vars, zones
    <3> QED BY <3>1, ZonesUnchanged
  <2>2. ASSUME NEW t \in Threads, Calls(t) \/ PruneExpiredRoutes(t) \/ Runs(t)
        PROVE  ZoneInv'
    BY <2>2, CallsKeepZones, RunsKeepZones, ZonesUnchanged
  <2> QED BY <2>1, <2>2 DEF Next
<1>3. ZoneInv => ZoneIndexesAgree
  BY DEF ZoneInv
<1> QED BY <1>1, <1>2, <1>3, PTL DEF Spec
=============================================================================
