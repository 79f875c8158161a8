----------------------------- MODULE MCAURPPeer -----------------------------
(***************************************************************************)
(* Instances of AURPPeer for TLC: two routers A and B, of which A starts   *)
(* with a route to export.  A budget names the environment steps of a run. *)
(***************************************************************************)
EXTENDS AURPPeer, TLC

CONSTANTS A, B

MCPeers == {A, B}
Nothing == [p \in MCPeers |-> [n \in Networks |-> NoRoute]]
OnlyA == [Nothing EXCEPT ![A] = [n \in Networks |-> 1]]
OnlyB == [Nothing EXCEPT ![B] = [n \in Networks |-> 1]]
Version1 == [p \in MCPeers |-> 1]
OtherVersionB == [Version1 EXCEPT ![B] = 2]

Calm == [k \in EnvKinds |-> 0]
With(kinds) == [k \in EnvKinds |-> IF k \in kinds THEN 1 ELSE 0]
Delays == {With({"hasty", "dup"}), [Calm EXCEPT !["hasty"] = 2]}
TwoFaults == {With({"crash", "sendfail"}), With({"crash", "receiverRD"}),
              With({"sendfail", "receiverRD"})}
DelaysOrFaults == Delays \cup TwoFaults
Recoveries == {With({"loss", "change"}), With({"restart", "change"}),
               With({"shutdown"}), With({"loop"})}
Interruptions == {With({"restart", "dup"}), With({"sendfail"}), With({"shutdown"}),
                  [Calm EXCEPT !["restart"] = 2], [Calm EXCEPT !["loss"] = 2]}
TwoChanges == {[Calm EXCEPT !["change"] = 2]}
OneSendFailure == {With({"sendfail"})}
OneShutdown == {With({"shutdown"})}
FailureAndShutdown == {With({"sendfail", "shutdown"})}
LossAndChange == {With({"loss", "change"})}
LossesAndChange == {[With({"change"}) EXCEPT !["loss"] = 2]}
=============================================================================
