--------------------------- MODULE EtherTalkPort ---------------------------
(***************************************************************************)
(* The EtherTalk ports of one cable with the traffic of one of them: while *)
(* seed controllers, AARP and RTMP settle the cable (PortStartup), packets *)
(* are given to Port's Send and wait for their addresses (Outbox).  The    *)
(* router forwards to a port only by a route, and a lookup finds a route   *)
(* only once it has a zone, so there is no traffic before that.            *)
(***************************************************************************)
EXTENDS PortStartup, Outbox

CONSTANT Port  \* the router whose traffic is modelled

vars == <<portVars, outVars>>

Init == PortInit /\ OutInit

\* Route.Target.Forward is Send.
Forward(p) == /\ Port \in alive /\ zoned[Port] # {} /\ p \in setup.load
              /\ Lookup(p)

Traffic == \/ \E p \in Packets : Forward(p)
           \/ \E a \in Addrs : setup.load # {} /\ learn(a)
           \/ OutStep

Next == \/ PortNext /\ UNCHANGED outVars
        \/ Traffic /\ UNCHANGED portVars

Spec == Init /\ [][Next]_vars
FairSpec == Spec /\ PortFair

\* Every variable of both has its type: probing stops with an address, the Outbox
\* goroutine is in its send loop exactly while it has packets.
TypeOK == PortTypeOK /\ OutTypeOK
=============================================================================
