---------------------------- MODULE MCPeerTable ----------------------------
(* Two configured names, two remote addresses and our own. *)
EXTENDS PeerTable, TLC

CONSTANTS N1, N2

Budget(dns, packet, fail, timer, suspect, return) ==
  [k \in Kinds |-> CASE k = "dns" -> dns [] k = "packet" -> packet [] k = "fail" -> fail
                     [] k = "timer" -> timer [] k = "suspect" -> suspect [] k = "return" -> return]
Scenario(w1, w2, budget) ==
  [world |-> (N1 :> w1 @@ N2 :> w2), budget |-> budget, answers |-> {}, names |-> {n \in {N1, N2} : n = N1 \/ w2 # <<>>}, open |-> FALSE,
   data |-> FALSE, ports |-> {"p"}, buildable |-> TRUE]

\* DNS changes its mind, fails or answers with our own address, a connection is given up.
Changing == [Scenario(<<1, 2>>, <<3>>, Budget(1, 0, 0, 1, 0, 0)) EXCEPT
               !.answers = {<<>>, <<1>>, <<2>>, <<2, 3>>}]
\* Two names for one host.
Clash == Scenario(<<1, 2>>, <<2, 1>>, Budget(0, 0, 0, 0, 0, 0))
\* Packets from two hosts, one of them configured, with open peering.
Open == [Scenario(<<1>>, <<>>, Budget(0, 2, 0, 0, 0, 0)) EXCEPT !.open = TRUE, !.data = TRUE]
\* A send fails, as Handle starts or later.
Failing == Scenario(<<1>>, <<>>, Budget(0, 1, 2, 0, 0, 0))
\* Two investigations, and Probes that return, perhaps on another port.
Looping == [Scenario(<<1>>, <<>>, Budget(0, 0, 0, 0, 2, 2)) EXCEPT !.ports = {"p", "q"}]
\* A Probe that cannot be built.
Unbuildable == [Scenario(<<1>>, <<>>, Budget(0, 0, 0, 0, 1, 0)) EXCEPT !.buildable = FALSE]
MCSetups == {Changing, Clash, Open, Failing, Looping, Unbuildable}

\* More routing packets from a tunnel than its queue holds, and a loop confirmed.
Blocked == {Scenario(<<1>>, <<>>, Budget(0, 2, 0, 0, 1, 1))}
=============================================================================
