---------------------------- MODULE MCRouteTable ----------------------------
(***************************************************************************)
(* Instances of RouteTable for TLC.  The goroutines: rtmp (an EtherTalk    *)
(* port that hears an AppleTalk router), aurp (the Handle loop of a peer), *)
(* maint (RunMaintenance) and peers (the peer table, which deletes the     *)
(* routes of a peer whose DNS endpoint has changed).                       *)
(***************************************************************************)
EXTENDS RouteTable, TLC

CONSTANTS rtmp, aurp, maint, peers, Router, Tunnel, Zone1, Zone2

MCOps ==
  (rtmp :> {"Upsert", "AddZones"}) @@
  (aurp :> {"Upsert", "UpdateDistance", "DeleteRoute", "DeleteTarget", "ReplaceZones"}) @@
  (maint :> {"Prune"}) @@ (peers :> {"DeleteTarget"})
MCOwn == (rtmp :> Router) @@ (aurp :> Tunnel) @@ (maint :> Router) @@ (peers :> Tunnel)
OpsOfThreads == [t \in Threads |-> MCOps[t]]
OwnOfThreads == [t \in Threads |-> MCOwn[t]]
MCTargets == {Router, Tunnel}
\* routePreferenceClass: AppleTalk routers before AURP peers.
MCRank == (Router :> 1) @@ (Tunnel :> 2)
SameStart == {<<1, 1>>, <<1, 2>>}
TwoStarts == {<<1, 1>>, <<1, 2>>, <<3, 3>>}
One == {<<1, 1>>}
=============================================================================
