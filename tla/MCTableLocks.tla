---------------------------- MODULE MCTableLocks ----------------------------
(***************************************************************************)
(* Instances of TableLocks for TLC: rtmp and aurp change the table, nbp    *)
(* only reads it (a port that answers a broadcast request).                *)
(***************************************************************************)
EXTENDS TableLocks, TLC

CONSTANTS rtmp, aurp, nbp

Writers ==
  (rtmp :> {"UpsertRoute", "SetZones"}) @@
  (aurp :> {"DeleteRoute", "ExportedRoutes", "TakePendingEvents", "AddObserver"})
WithZoneList == Writers @@ (nbp :> {"AllZoneNames", "ExportedRoutes"})
WithBroadcast == Writers @@ (nbp :> {"RoutesForZone"})
=============================================================================
