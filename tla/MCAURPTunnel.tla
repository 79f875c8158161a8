---------------------------- MODULE MCAURPTunnel ----------------------------
(***************************************************************************)
(* Instances of AURPTunnel for TLC.  A, B and C are jrouters with tunnels, *)
(* X is an AppleTalk router beside A.                                      *)
(***************************************************************************)
EXTENDS AURPTunnel, TLC

CONSTANTS A, B, C, X, ca, cb, cc, cd, cx

-----------------------------------------------------------------------------
\* Zone information.

Quiet == [k \in Faults |-> 0]
With(kinds) == [k \in Faults |-> IF k \in kinds THEN 1 ELSE 0]

Scenario(lists, direct, fit, rules, faults) ==
  [lists |-> lists, direct |-> direct, fit |-> fit, rules |-> rules, home |-> {1, 2}, left |-> faults]

\* Lists of network 1 alone, and of both networks; two zones fit a datagram.
One == (1 :> {1, 2, 3}) @@ (2 :> {})
Short == (1 :> {1, 2}) @@ (2 :> {1})
Both == (1 :> {1, 2, 3}) @@ (2 :> {2, 3})

\* B has the list at once, or learns it piece by piece; or every zone is a piece.
ZoneSetups ==
  {Scenario(Both, {1}, 2, <<>>, With(k))
     : k \in {{"loss", "dup"}, {"loss", "hasty"}, {"dup", "disconnect"}, {"loss", "withdraw"}}}
    \cup {Scenario(Both, {}, 2, <<>>, With(k)) : k \in {{"loss"}, {"dup"}, {"hasty"}, {"withdraw"}}}
    \cup {Scenario(Short, {}, 2, <<>>, With({"loss", "withdraw"})),
          Scenario(One, {}, 2, <<>>, With({"loss", "disconnect"})),
          Scenario(One, {1}, 2, <<>>, [With({"dup", "hasty"}) EXCEPT !["loss"] = 3]),
          Scenario(One, {}, 1, <<>>, With({"loss", "dup"})),
          Scenario(One, {}, 1, <<>>, With({"withdraw"}))}

\* Network 1 of B is network 3 at A.
RuleOneToThree == <<[peer |-> "b", remote |-> <<1, 1>>, local |-> <<3, 3>>]>>
RemappedZones == {Scenario(One, {1}, 2, RuleOneToThree, Quiet)}

\* A list that grows while A collects it.
Grown == {Scenario(One, {}, 1, <<>>, With({"loss"}))}

-----------------------------------------------------------------------------
\* Forwarding.

Red == 1
Blue == 2

MCRouters == {A, B, C, X}
MCCables == {ca, cb, cc, cd, cx}

Direct(n, cable, zs) == [start |-> n, dist |-> 0, class |-> "direct", via |-> cable, zones |-> zs]
Behind(n, dist, cable, r, zs) ==
  [start |-> n, dist |-> dist, class |-> "etalk", via |-> <<"router", cable, r>>, zones |-> zs]
Through(n, dist, q, zs) == [start |-> n, dist |-> dist, class |-> "aurp", via |-> q, zones |-> zs]

\* A packet as its host sends it.
Packet(kind, src, dst, tuple, from, to, r) ==
  [kind |-> kind, src |-> src, dst |-> dst, any |-> kind \in {"BrRq", "FwdReq"}, hop |-> 0,
   tuple |-> tuple, zone |-> Red, wild |-> FALSE, sum |-> <<kind, src, dst, tuple>>,
   at |-> <<"router", from, r>>, from |-> from, to |-> to, steps |-> 0]

Each(v) == [r \in Routers |-> v]
Unruled == Each(Each(<<>>))
Rule(peer, n, m, k) == <<[peer |-> peer, remote |-> <<n, n + k>>, local |-> <<m, m + k>>]>>

\* Cables ca, cb and cc have the same number, and so have cx and cd.  A has two rules for
\* B, under its tunnel ID and under its address, which both hold network 1: B's networks 1
\* and 2 are 11 and 13 at A.  C's 1 is 14 at A; A's networks 1-2 are 21-22 at B and C.
Remapped ==
  [ports |-> (A :> <<ca>>) @@ (B :> <<cb, cd>>) @@ (C :> <<cc>>) @@ (X :> <<ca, cx>>),
   number |-> (ca :> 1) @@ (cb :> 1) @@ (cc :> 1) @@ (cx :> 2) @@ (cd :> 2),
   has |-> [k \in Cables |-> IF k \in {cb, cc} THEN {Red} ELSE {Blue}],
   default |-> [k \in Cables |-> IF k \in {cb, cc} THEN Red ELSE Blue],
   rules |-> [Unruled EXCEPT ![A] = [@ EXCEPT ![B] = Rule("b", 1, 11, 0) \o Rule("cfg:b", 1, 12, 1), ![C] = Rule("c", 1, 14, 0)],
                           ![B] = [@ EXCEPT ![A] = Rule("a", 1, 21, 1)],
                           ![C] = [@ EXCEPT ![A] = Rule("a", 1, 21, 1)]],
   import |-> Each(Each({})), export |-> Each(Each({})), hidden |-> Each({}),
   weight |-> Each(0), reduce |-> Each(FALSE), clusters |-> Each({}), hides |-> Each({}),
   tables |-> {(A :> {Direct(1, ca, {Blue}), Behind(2, 1, ca, X, {Blue}), Through(11, 1, B, {Red}),
                      Through(13, 1, B, {Blue}), Through(14, 1, C, {Red})}) @@
               (B :> {Direct(1, cb, {Red}), Direct(2, cd, {Blue}), Through(21, 1, A, {Blue}), Through(22, 2, A, {Blue})}) @@
               (C :> {Direct(1, cc, {Red}), Through(21, 1, A, {Blue}), Through(22, 2, A, {Blue})}) @@
               (X :> {Direct(1, ca, {Blue}), Direct(2, cx, {Blue}), Behind(11, 2, ca, A, {Red}),
                      Behind(13, 2, ca, A, {Blue}), Behind(14, 2, ca, A, {Red})})},
   first |-> {}, lookup |-> {}, awaits |-> {}]

\* A packet from behind A to B's second cable, and its answer; tunnels have weight.
DataTo(n, k) == {Packet("data", 2, n, 0, cx, k, X)}
Data == [Remapped EXCEPT !.weight = Each(2), !.first = DataTo(13, cd),
                         !.awaits = {<<"data", cd>>, <<"reply", cx>>}]

\* An old packet from C: hop counts are reduced.
Reduced == [Remapped EXCEPT !.reduce = Each(TRUE), !.awaits = {<<"data", cx>>, <<"reply", cc>>},
                            !.first = {[Packet("data", 1, 22, 0, cc, cx, C) EXCEPT !.hop = 13]}]

\* A lookup from behind A, its answers, packets to the addresses they bring.
Asked == {Packet("BrRq", 2, 0, 2, cx, cx, X)}
Found == {<<"LkUp", cb>>, <<"LkUp", cc>>, <<"LkUpReply", cx>>, <<"data", cb>>, <<"data", cc>>, <<"reply", cx>>}
Names == [Remapped EXCEPT !.first = Asked, !.awaits = Found]

\* The same where the routers answer too, and where X sees B's and C's networks as one.
Wild == [Names EXCEPT !.first = {[p EXCEPT !.wild = TRUE] : p \in Asked}]
Clustered ==
  [Names EXCEPT !.clusters = [@ EXCEPT ![A] = {<<11, 14>>}],
                !.tables = {[t EXCEPT ![X] = {r \in @ : r.start \in {1, 2, 11}} \cup
                               {Behind(13, 2, ca, A, {}), Behind(14, 2, ca, A, {})}] : t \in @}]

\* A lookup and an echo on B's own cables.
Local == [Remapped EXCEPT !.first = {[Packet("BrRq", 1, 1, 1, cb, cb, B) EXCEPT !.zone = Blue],
                                     [Packet("data", 1, 0, 0, cb, cb, B) EXCEPT !.any = TRUE]},
                          !.awaits = {<<"LkUp", cd>>, <<"LkUp", ca>>, <<"LkUpReply", cb>>, <<"reply", cb>>}]

\* B hides network 2, A a device; A and C hide each other's networks.
Hiding == [Data EXCEPT !.hidden = [@ EXCEPT ![B] = {<<2, 2>>}], !.awaits = {},
                       !.hides = [@ EXCEPT ![A] = {"import"}],
                       !.import = [@ EXCEPT ![A] = [@ EXCEPT ![C] = {<<1, 1>>}]],
                       !.export = [@ EXCEPT ![A] = [@ EXCEPT ![C] = {<<1, 2>>}]],
                       !.first = @ \cup {Packet("data", 1, 21, 0, cc, ca, C)}]

\* Networks with numbers of their own, without remapping.
Unmapped ==
  [Remapped EXCEPT !.rules = Unruled, !.weight = Each(1),
                   !.number = (ca :> 1) @@ (cb :> 3) @@ (cc :> 5) @@ (cx :> 2) @@ (cd :> 4)]

\* FwdReqs with a checksum: one through a tunnel, one to A's own cable.
Checked ==
  [Unmapped EXCEPT
     !.tables = {(A :> {Direct(1, ca, {Blue}), Behind(2, 1, ca, X, {}), Through(5, 1, C, {Red})}) @@ (B :> {}) @@
                 (C :> {Direct(5, cc, {Red}), Through(2, 2, A, {})}) @@
                 (X :> {Direct(1, ca, {Blue}), Behind(5, 2, ca, A, {Red}), Direct(2, cx, {})})},
     !.first = {Packet("FwdReq", 2, 5, 2, cx, cx, X),
                [Packet("FwdReq", 2, 1, 2, cx, cx, X) EXCEPT !.zone = Blue]},
     !.awaits = {<<"LkUp", cc>>, <<"LkUp", ca>>, <<"LkUpReply", cx>>, <<"data", cc>>,
                 <<"data", ca>>, <<"reply", cx>>}]

\* Tables that may be wrong and that change: network 5 is on cable cc, or nowhere.
Ways(r) == CASE r = "A" -> {Through(5, 1, A, {})} [] r = "B" -> {Through(5, 1, B, {})}
             [] r = "C" -> {Through(5, 1, C, {})} [] r = "B or C" -> {Through(5, 1, B, {}), Through(5, 1, C, {})}
             [] r = "X" -> {Behind(5, 1, ca, X, {})} [] r = "cable" -> {Direct(5, cc, {})}
Wrong ==
  [Unmapped EXCEPT
     !.first = DataTo(5, cc),
     !.tables = {(A :> Ways(t[1]) \cup {Behind(2, 1, ca, X, {})}) @@
                 (B :> Ways(t[2]) \cup {Through(2, 2, A, {})}) @@
                 (C :> Ways(t[3]) \cup {Through(2, 2, A, {})}) @@
                 (X :> {Behind(5, 1, ca, A, {}), Direct(2, cx, {})})
                   : t \in {"C", "B", "X", "B or C"} \X {"C", "A"} \X {"cable", "A"}}]

-----------------------------------------------------------------------------
\* Both.  B's cables cb and cd are networks 1 and 2; a host on cable ca, network 4, looks
\* for a name in a zone of cb.

LookingUp ==
  [Unmapped EXCEPT
     !.ports = [@ EXCEPT ![X] = <<cx>>],
     !.number = (cb :> 1) @@ (cd :> 2) @@ (cx :> 3) @@ (ca :> 4) @@ (cc :> 5),
     !.has = (cb :> {1, 2, 3}) @@ (cd :> {2, 3}) @@ (cx :> {}) @@ (ca :> {2}) @@ (cc :> {}),
     !.tables = {(A :> {Direct(4, ca, {2})}) @@ (C :> {}) @@ (X :> {}) @@
                 (B :> {Direct(1, cb, {1, 2, 3}), Direct(2, cd, {2, 3}), Through(4, 2, A, {2})})},
     !.lookup = {Packet("BrRq", 4, 0, 4, ca, ca, A)},
     !.awaits = {<<"LkUp", cb>>, <<"LkUpReply", ca>>, <<"data", cb>>, <<"reply", ca>>}]

Empty == Scenario([n \in Networks |-> {}], {}, 1, <<>>, Quiet)
Still == [Remapped EXCEPT !.tables = {Each({})}]

MCWorlds ==
  {<<s, Still>> : s \in ZoneSetups}
    \cup {<<Empty, i>> : i \in {Data, Reduced, Names, Wild, Clustered, Local, Checked, Hiding, Wrong}}
    \cup {<<Scenario(Both, {1, 2}, 2, <<>>, With(k)), LookingUp>>
             : k \in {{"loss", "disconnect"}, {"loss", "dup"}, {"hasty"}}}
MCSetups == {w[1] : w \in MCWorlds}
MCInternets == {w[2] : w \in MCWorlds}

\* Without lookups.
IncompleteWorlds == {<<s, Still>> : s \in RemappedZones}
GrownWorlds == {<<s, Still>> : s \in Grown}
=============================================================================
