-------------------------- MODULE MCEtherTalkPort --------------------------
(* Two routers A and B on a cable whose real ranges have one network each. *)
EXTENDS EtherTalkPort

CONSTANTS A, B

R1 == <<1, 1>>
R2 == <<2, 2>>
MCStartup == <<8, 9>>
MCRouters == {A, B}

MCPackets == {1, 2, 3}
MCDest == <<"host", "host", "host">>

NoFaults == [f \in Faults |-> 0]

\* Ports with a range are configured with its zone; a host holds the first address a
\* router tries, so that it has to reroll.
Cable(mA, mB, rA, rB) ==
  [mode |-> (A :> mA @@ B :> mB),
   range |-> (A :> rA @@ B :> rB),
   zone |-> (A :> (IF rA = NoRange THEN NoZone ELSE "zone") @@
             B :> (IF rB = NoRange THEN NoZone ELSE "zone")),
   zones |-> (A :> {"zone"} @@ B :> {"zone"}),
   hosts |-> {<<1, 1>>}, mortal |-> {}, foreign |-> {}, foreignZone |-> "zone",
   load |-> {}, faults |-> NoFaults]

\* A soft seed and a hard seed that may crash; a non-seed that learns the range from a
\* hard seed, over a cable that loses a frame; two hard seeds that want one address;
\* two soft seeds; a soft seed that is told another range than its own; a non-seed told
\* its range by a router of another make; a hard seed that forwards packets.
MCSetups ==
  { [Cable("soft", "hard", R1, R1) EXCEPT !.mortal = {B}, !.faults["crash"] = 1],
    [Cable("none", "hard", NoRange, R1) EXCEPT !.faults["lose"] = 1],
    [Cable("hard", "hard", R1, R1) EXCEPT
       !.hosts = {}, !.faults["unlucky"] = 1, !.faults["lose"] = 1],
    Cable("soft", "soft", R1, R1),
    [Cable("soft", "absent", R1, NoRange) EXCEPT !.foreign = {R2}, !.faults["foreign"] = 1],
    [Cable("none", "absent", NoRange, NoRange) EXCEPT !.foreign = {R1}, !.faults["foreign"] = 1],
    [Cable("hard", "absent", R1, NoRange) EXCEPT !.hosts = {}, !.load = MCPackets] }

\* A non-seed told one range and then another.
Replaced ==
  { [Cable("none", "absent", NoRange, NoRange) EXCEPT !.foreign = {R1, R2}, !.faults["foreign"] = 2] }
=============================================================================
