----------------------------- MODULE AURPTunnel -----------------------------
(***************************************************************************)
(* Zone information and forwarding together: what router A learns from its *)
(* peer B (ZoneInfo) is what its routing table holds for the name lookups  *)
(* and packets of its hosts (Forwarding).  A host repeats its lookup until *)
(* it is answered.                                                         *)
(***************************************************************************)
EXTENDS ZoneInfo, Forwarding

CONSTANTS
  LocalRouter, PeerRouter, \* A and B
  Worlds                   \* pairs of a scenario of ZoneInfo and one of Forwarding

tunnelVars == <<zoneVars, fwdVars>>

\* A's routes from B are valid once they have zones.
Learned ==
  {[start |-> m, dist |-> 1, class |-> "aurp", via |-> PeerRouter, zones |-> zones[m]]
     : m \in {m \in routes : zones[m] # {}}}

\* A knows B's networks only from B.
Learns == internet.lookup # {}

Exchange ==
  /\ ZoneNext
  /\ table' = IF Learns
              THEN [table EXCEPT ![LocalRouter] =
                      {t \in @ : t.class # "aurp" \/ t.via # PeerRouter} \cup Learned']
              ELSE table
  /\ UNCHANGED <<internet, packets, arrived>>

Carry ==
  /\ (\E p \in packets : Move(p)) \/ (~Learns /\ Churn)
  /\ UNCHANGED zoneVars

\* A host (external) looks a name up, again when nothing comes back.
Ask ==
  /\ packets = {} /\ ~(internet.awaits \subseteq arrived)
  /\ \E p \in internet.lookup : packets' = {p}
  /\ UNCHANGED <<internet, table, arrived, zoneVars>>

Init == ZoneInit /\ FwdInit /\ <<setup, internet>> \in Worlds
Next == Exchange \/ Carry \/ Ask

Spec == Init /\ [][Next]_tunnelVars

\* Goroutines run, datagrams that are not lost arrive, the host goes on asking.
FairSpec ==
  /\ Spec /\ ZoneFair
  /\ WF_fwdVars(\E p \in packets : Move(p)) /\ WF_fwdVars(Ask)

-----------------------------------------------------------------------------
\* Every variable of both has its type: collections that are pending stay below their
\* total, A has routes only for what was announced, hop counts have four bits.
TypeOK == ZoneTypeOK /\ FwdTypeOK

\* Lookups and packets arrive in the end; where A first has to learn B's networks and
\* their zones, a host that goes on asking finds the name, whatever is lost on the way
\* and even if the tunnel is closed and opened again in between.
Arrives == <>(internet.awaits \subseteq arrived)
=============================================================================
