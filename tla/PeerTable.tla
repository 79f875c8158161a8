----------------------------- MODULE PeerTable -----------------------------
(***************************************************************************)
(* Which AURP peers exist and run: the peer table (aurp_peer_table.go),    *)
(* the UDP reader that feeds the peers (aurp.go), the life of a peer's     *)
(* Handle goroutine (aurp_peer.go) and the loop investigations that may    *)
(* disable a tunnel (aurp_loop.go).                                        *)
(*                                                                         *)
(* A configured name is resolved at startup, all names at once, and after  *)
(* that by PeriodicallyAttemptConnections, one name at a time.  Each step  *)
(* below is one critical section of the table, or one read or write of an  *)
(* atomic; other goroutines run in between.  What Handle does with packets *)
(* is the subject of AURPPeer; here a packet or a timer changes only the   *)
(* receiver state, between "unconnected" and "open".                       *)
(***************************************************************************)
EXTENDS Integers, Sequences, FiniteSets, Functions

CONSTANTS Names, IPs, LocalIP,
          Setups,       \* scenarios: DNS answers, open peering, ports, budgets
          QueueCap,     \* capacity of ReceiveCh (1024)
          Attempts,     \* loopProbeAttempts (4)
          MaxHandles,   \* bound: Handle goroutines started and not yet running, per peer
          NoName

Kinds == {"dns", "packet", "fail", "timer", "suspect", "return"}

VARIABLES setup, left,   \* scenario, and what may still happen in it
          world,         \* what DNS answers for each name: addresses, or <<>> for an error
          peers,         \* the peers created so far
          byIP, byName,  \* peersByIP, peersByConfigured; 0 is no entry
          backoff,       \* dnsByConfigured: the next lookup of a name is not due
          job,           \* resolution of each name, at startup or by the periodic scan
          booted,        \* RunAll has been called
          input,         \* AURPInput
          inv,           \* loop investigations started so far, with their goroutines
          probes, byKey  \* loopProbes, loopProbeByKey

table == <<peers, byIP, byName, backoff>>
loops == <<inv, probes, byKey>>
vars == <<setup, left, world, table, job, booted, input, loops>>

Spend(k) == left[k] > 0 /\ left' = [left EXCEPT ![k] = @ - 1]
Known == DOMAIN peers
Idle == [pc |-> "idle", cands |-> <<>>, peer |-> 0, refresh |-> FALSE]

\* go peer.Handle(ctx).
Started(p) == [p EXCEPT !.starting = IF p.starting + p.checked < MaxHandles THEN @ + 1 ELSE @]
Start(ps, i) == [ps EXCEPT ![i] = Started(@)]

-----------------------------------------------------------------------------
(* The table. *)

newPeer(n, ip) ==
  [name |-> n, addr |-> ip, starting |-> 0, checked |-> 0, running |-> FALSE,
   rstate |-> "unconnected", hold |-> FALSE, disabled |-> FALSE,
   queue |-> 0, reconnect |-> FALSE, loopDetected |-> FALSE, unheard |-> FALSE]

\* LookupOrCreate's result: the peer and the table after it, or a conflict.
Conflict == [ok |-> FALSE, peer |-> 0, peers |-> peers, byIP |-> byIP, byName |-> byName]
Found(i) == [Conflict EXCEPT !.ok = TRUE, !.peer = i]
NeverClaimed(n, ip) == FALSE
Claimed(n, ip) ==
  IF byName[n] # 0 THEN byIP[ip] \notin {0, byName[n]}
  ELSE byIP[ip] # 0 /\ peers[byIP[ip]].name \notin {NoName, n}
LookupOrCreate(n, ip) ==
  LET there == byIP[ip]
      new == Len(peers) + 1
  IN IF n # NoName /\ Claimed(n, ip) THEN Conflict
     ELSE IF n # NoName /\ byName[n] # 0
     THEN [Found(byName[n]) EXCEPT !.byIP = [byIP EXCEPT ![ip] = byName[n]]]
     ELSE IF there # 0
     THEN IF n = NoName THEN Found(there)
          ELSE [Found(there) EXCEPT !.peers = [peers EXCEPT ![there].name = n],
                                    !.byName = [byName EXCEPT ![n] = there]]
     ELSE [Found(new) EXCEPT !.peers = Append(peers, newPeer(n, ip)),
                             !.byIP = [byIP EXCEPT ![ip] = new],
                             !.byName = IF n = NoName THEN byName ELSE [byName EXCEPT ![n] = new]]

Lookup(ip) == Found(byIP[ip])

Becomes(r) == peers' = r.peers /\ byIP' = r.byIP /\ byName' = r.byName

-----------------------------------------------------------------------------
(* Resolving a configured name. *)

\* The next lookup of n waits for the backoff; how long, and its jitter, is left to time.
noteDNSFailure(n) == backoff' = [backoff EXCEPT ![n] = TRUE]
resetDNSBackoff(n) == backoff' = [backoff EXCEPT ![n] = FALSE]

Scanning == \E n \in Names : job[n].pc # "idle"

\* PeriodicallyAttemptConnections comes to name n: a name without a peer is resolved, a
\* peer whose receiver is unconnected is refreshed; not while DNS backs off.
OnlyNew(n) == byName[n] = 0
Due(n) == byName[n] # 0 => peers[byName[n]].rstate = "unconnected"
Visit(n) ==
  LET i == byName[n] IN
  /\ booted /\ ~Scanning /\ n \in setup.names /\ ~backoff[n]
  /\ Due(n)
  /\ job' = [job EXCEPT ![n] = [pc |-> "lookup", cands |-> <<>>, peer |-> i, refresh |-> i # 0]]
  /\ UNCHANGED <<setup, left, world, table, booted, input, loops>>

\* net.LookupIP: it takes its time, and DNS may have changed when the answer is used.
LookupIP(n) ==
  /\ job[n].pc = "lookup"
  /\ IF world[n] = <<>>
     THEN /\ noteDNSFailure(n)
          /\ job' = [job EXCEPT ![n] = Idle]
     ELSE /\ job' = [job EXCEPT ![n].pc = "apply", ![n].cands = world[n]]
          /\ UNCHANGED backoff
  /\ UNCHANGED <<setup, left, world, peers, byIP, byName, booted, input, loops>>

\* ResolveConfiguredPeer: one candidate after the other, our own address left out.
ResolveCandidate(n) ==
  LET ip == Head(job[n].cands)
      r == LookupOrCreate(n, ip)
      rest == [job[n] EXCEPT !.cands = Tail(@)]
  IN
  /\ job[n].pc = "apply" /\ ~job[n].refresh /\ job[n].cands # <<>>
  /\ \/ /\ ip = LocalIP
        /\ job' = [job EXCEPT ![n] = rest]
        /\ UNCHANGED table
     \/ /\ ip # LocalIP /\ r.ok
        /\ Becomes(r)
        /\ job' = [job EXCEPT ![n] = [rest EXCEPT !.peer = IF @ = 0 THEN r.peer ELSE @]]
        /\ UNCHANGED backoff
     \/ /\ ip # LocalIP /\ ~r.ok
        /\ noteDNSFailure(n)
        /\ job' = [job EXCEPT ![n] = Idle]
        /\ UNCHANGED <<peers, byIP, byName>>
  /\ UNCHANGED <<setup, left, world, booted, input, loops>>

\* All candidates are in the table; or all of them were our own address.
Resolved(n) ==
  /\ job[n].pc = "apply" /\ ~job[n].refresh /\ job[n].cands = <<>>
  /\ IF job[n].peer = 0 THEN noteDNSFailure(n) ELSE resetDNSBackoff(n)
  /\ job' = [job EXCEPT ![n] = IF job[n].peer = 0 THEN Idle ELSE [@ EXCEPT !.pc = "wake"]]
  /\ UNCHANGED <<setup, left, world, peers, byIP, byName, booted, input, loops>>

\* setConfiguredCandidates: the addresses of the peer become the answer's, and the peer
\* moves to the first of them when it has lost the one it used.
KeepsEndpoint(p, cands) == p
Endpoint(p, cands) ==
  IF p.addr \in Range(cands) THEN p ELSE [p EXCEPT !.addr = cands[1], !.hold = FALSE]
setConfiguredCandidates(n) ==
  LET i == job[n].peer
      cands == job[n].cands
      clash == byName[n] # i \/ \E ip \in Range(cands) : byIP[ip] \notin {0, i}
  IN
  /\ job[n].pc = "apply" /\ job[n].refresh
  /\ \/ /\ clash
        /\ noteDNSFailure(n)
        /\ job' = [job EXCEPT ![n] = Idle]
        /\ UNCHANGED <<peers, byIP, byName>>
     \/ /\ ~clash
        /\ byIP' = [ip \in IPs |-> IF ip \in Range(cands) THEN i
                                   ELSE IF byIP[ip] = i THEN 0 ELSE byIP[ip]]
        /\ peers' = [peers EXCEPT ![i] = Endpoint(@, cands)]
        /\ resetDNSBackoff(n)
        /\ job' = [job EXCEPT ![n].pc = "wake"]
        /\ UNCHANGED byName
  /\ UNCHANGED <<setup, left, world, booted, input, loops>>

\* What follows: signalReconnect for a running peer that was refreshed, otherwise Handle
\* is started; at startup RunAll will do that.
Wake(n) ==
  LET i == job[n].peer IN
  /\ job[n].pc = "wake"
  /\ job' = [job EXCEPT ![n] = Idle]
  /\ peers' = IF ~booted THEN peers
              ELSE IF ~peers[i].running THEN Start(peers, i)
              ELSE [peers EXCEPT ![i].reconnect = @ \/ job[n].refresh]
  /\ UNCHANGED <<setup, left, world, byIP, byName, backoff, booted, input, loops>>

\* The main goroutine goes on once every name was tried: RunAll.
RunAll ==
  /\ ~booted /\ ~Scanning
  /\ booted' = TRUE
  /\ peers' = [i \in Known |-> IF i \in Range(byIP) THEN Started(peers[i]) ELSE peers[i]]
  /\ UNCHANGED <<setup, left, world, byIP, byName, backoff, job, input, loops>>

\* The lookup of n is due again: dnsReady.
BackoffEnds(n) ==
  /\ backoff[n]
  /\ backoff' = [backoff EXCEPT ![n] = FALSE]
  /\ UNCHANGED <<setup, left, world, peers, byIP, byName, job, booted, input, loops>>

-----------------------------------------------------------------------------
(* Handle. *)

\* The tunnel is not disabled; then running.CompareAndSwap, disconnect, the first Open-Req.
HandleCheck(i) ==
  /\ peers[i].starting > 0
  /\ peers' = [peers EXCEPT ![i].starting = @ - 1,
                            ![i].checked = IF peers[i].disabled THEN @ ELSE @ + 1]
  /\ UNCHANGED <<setup, left, world, byIP, byName, backoff, job, booted, input, loops>>

Opened(p) == [p EXCEPT !.running = TRUE, !.rstate = "open", !.unheard = FALSE]
HandleRun(i) ==
  LET p == [peers[i] EXCEPT !.checked = @ - 1] IN
  /\ peers[i].checked > 0
  /\ \/ /\ peers[i].running
        /\ peers' = [peers EXCEPT ![i] = p]
        /\ UNCHANGED left
     \/ /\ ~peers[i].running
        /\ peers' = [peers EXCEPT ![i] = Opened(p)]
        /\ UNCHANGED left
     \/ /\ ~peers[i].running /\ Spend("fail")
        /\ peers' = [peers EXCEPT ![i] = [p EXCEPT !.rstate = "unconnected"]]
  /\ UNCHANGED <<setup, world, byIP, byName, backoff, job, booted, input, loops>>

\* case <-p.loopDetectedCh: handleConfirmedRoutingLoop, and Handle returns.
LoopDetected(i) ==
  /\ peers[i].running /\ peers[i].loopDetected
  /\ peers' = [peers EXCEPT ![i].loopDetected = FALSE, ![i].disabled = TRUE,
                            ![i].rstate = "unconnected", ![i].running = FALSE]
  /\ UNCHANGED <<setup, left, world, byIP, byName, backoff, job, booted, input, loops>>

\* case <-p.reconnectCh.
Reconnect(i) ==
  LET p == peers[i] IN
  /\ p.running /\ p.reconnect
  /\ peers' = [peers EXCEPT ![i].reconnect = FALSE,
                            ![i].rstate = IF p.disabled \/ p.hold THEN @ ELSE "open"]
  /\ UNCHANGED <<setup, left, world, byIP, byName, backoff, job, booted, input, loops>>

\* The retry limit is reached: the receiver closes and backs off (rtickerTasks).
GivesUp(i) ==
  /\ peers[i].running /\ peers[i].rstate = "open" /\ Spend("timer")
  /\ peers' = [peers EXCEPT ![i].rstate = "unconnected", ![i].hold = TRUE]
  /\ UNCHANGED <<setup, world, byIP, byName, backoff, job, booted, input, loops>>

\* reconnectReady.
HoldEnds(i) ==
  /\ peers[i].hold
  /\ peers' = [peers EXCEPT ![i].hold = FALSE]
  /\ UNCHANGED <<setup, left, world, byIP, byName, backoff, job, booted, input, loops>>

\* case pkt := <-p.ReceiveCh; a Router Down closes the receiver, an Open-Req or an RI-Upd
\* makes it open again.
Receive(i) ==
  /\ peers[i].running /\ peers[i].queue > 0
  /\ \E s \in {"unconnected", "open"} :
       peers' = [peers EXCEPT ![i].queue = @ - 1, ![i].rstate = s]
  /\ UNCHANGED <<setup, left, world, byIP, byName, backoff, job, booted, input, loops>>

\* A send fails in a timer or while a packet is handled: Handle returns as it stands.
\* (unheard: and no datagram has come since.)
HandleFails(i) ==
  /\ peers[i].running /\ Spend("fail")
  /\ peers' = [peers EXCEPT ![i].running = FALSE, ![i].unheard = TRUE]
  /\ UNCHANGED <<setup, world, byIP, byName, backoff, job, booted, input, loops>>

-----------------------------------------------------------------------------
(* AURPInput. *)

\* A datagram from ip: its peer is looked up, or created when peering is open.
InputRead(ip) ==
  LET r == IF setup.open THEN LookupOrCreate(NoName, ip) ELSE Lookup(ip) IN
  /\ input.pc = "read" /\ (booted \/ ~Scanning) /\ Spend("packet")
  /\ Becomes([r EXCEPT !.peers = [i \in DOMAIN @ |-> [@[i] EXCEPT !.unheard = @ /\ i # r.peer]]])
  /\ input' = IF r.peer = 0 THEN input ELSE [pc |-> "start", peer |-> r.peer]
  /\ UNCHANGED <<setup, world, backoff, job, booted, loops>>

\* Handle is started unless it runs.
InputStart ==
  LET i == input.peer IN
  /\ input.pc = "start"
  /\ peers' = IF peers[i].running THEN peers ELSE Start(peers, i)
  /\ input' = [input EXCEPT !.pc = "push"]
  /\ UNCHANGED <<setup, left, world, byIP, byName, backoff, job, booted, loops>>

\* A routing packet goes into ReceiveCh, when there is room; data is forwarded by the
\* reader itself.
InputPush ==
  LET i == input.peer IN
  /\ input.pc = "push"
  /\ \/ peers[i].queue < QueueCap /\ peers' = [peers EXCEPT ![i].queue = @ + 1]
     \/ setup.data /\ UNCHANGED peers
  /\ input' = [pc |-> "read", peer |-> 0]
  /\ UNCHANGED <<setup, left, world, byIP, byName, backoff, job, booted, loops>>

-----------------------------------------------------------------------------
(* Loop investigations. *)

\* startLoopInvestigation, from Handle: zone information looks like our own.  One
\* investigation per key; the key is the tunnel and the suspect network, of which each
\* tunnel has one here.
startLoopInvestigation(i) ==
  LET t == Len(inv) + 1 IN
  /\ peers[i].running /\ ~peers[i].disabled /\ byKey[i] = 0 /\ Spend("suspect")
  /\ \E port \in setup.ports :
       inv' = Append(inv, [peer |-> i, port |-> port, attempt |-> 0, pc |-> "check",
                           sent |-> FALSE, confirmed |-> <<>>])
  /\ probes' = probes \cup {t}
  /\ byKey' = [byKey EXCEPT ![i] = t]
  /\ UNCHANGED <<setup, world, table, job, booted, input>>

\* runLoopInvestigation: before every Probe, and after the last one, it looks whether the
\* investigation is still active.  A Probe that cannot be built ends the loop.
Investigate(t) ==
  LET v == inv[t]
      active == byKey[v.peer] = t
  IN
  /\ v.pc = "check"
  /\ inv' = [inv EXCEPT ![t] =
        IF ~active THEN [v EXCEPT !.pc = "done"]
        ELSE IF v.attempt = Attempts THEN [v EXCEPT !.pc = "retire"]
        ELSE IF ~setup.buildable THEN [v EXCEPT !.attempt = Attempts]
        ELSE [v EXCEPT !.attempt = @ + 1, !.sent = TRUE]]
  /\ UNCHANGED <<setup, left, world, table, job, booted, input, probes, byKey>>

ForgetsKey(t) == [byKey EXCEPT ![inv[t].peer] = 0]
KeysWithout(t) == [byKey EXCEPT ![inv[t].peer] = IF @ = t THEN 0 ELSE @]
retireLoopInvestigation(t) ==
  /\ inv[t].pc = "retire"
  /\ inv' = [inv EXCEPT ![t].pc = "done"]
  /\ byKey' = KeysWithout(t)
  /\ probes' = probes \ {t}
  /\ UNCHANGED <<setup, left, world, table, job, booted, input>>

\* handleLoopProbeReturn: a Probe, or a copy of it, arrives at a port.
AnyPort(t, port) == t \in probes
Confirms(t, port) == t \in probes /\ inv[t].port = port
LoopProbeReturn(t, port) ==
  LET i == inv[t].peer IN
  /\ inv[t].sent /\ Spend("return")
  /\ IF Confirms(t, port)
     THEN /\ probes' = probes \ {t}
          /\ byKey' = [byKey EXCEPT ![i] = 0]
          /\ inv' = [inv EXCEPT ![t].confirmed = Append(@, port)]
          /\ peers' = [peers EXCEPT ![i].loopDetected = TRUE]
     ELSE UNCHANGED <<loops, peers>>
  /\ UNCHANGED <<setup, world, byIP, byName, backoff, job, booted, input>>

-----------------------------------------------------------------------------
\* DNS answers differently.
WorldChanges ==
  /\ Spend("dns")
  /\ \E n \in Names, a \in setup.answers : world' = [world EXCEPT ![n] = a]
  /\ UNCHANGED <<setup, table, job, booted, input, loops>>

Init ==
  \E s \in Setups :
    /\ setup = s /\ left = s.budget /\ world = s.world
    /\ peers = <<>>
    /\ byIP = [ip \in IPs |-> 0] /\ byName = [n \in Names |-> 0]
    /\ backoff = [n \in Names |-> FALSE]
    /\ job = [n \in Names |-> [Idle EXCEPT !.pc = IF n \in s.names THEN "lookup" ELSE @]]
    /\ booted = FALSE
    /\ input = [pc |-> "read", peer |-> 0]
    /\ inv = <<>> /\ probes = {}
    /\ byKey = [i \in 1 .. Cardinality(IPs) |-> 0]

Resolution(n) == \/ Visit(n) \/ LookupIP(n) \/ ResolveCandidate(n) \/ Resolved(n)
                 \/ setConfiguredCandidates(n) \/ Wake(n)
Handle(i) == HandleCheck(i) \/ HandleRun(i) \/ Reconnect(i) \/ Receive(i)
InputGoes == InputStart \/ InputPush
Loop(t) == Investigate(t) \/ retireLoopInvestigation(t)

Next ==
  \/ \E n \in Names : Resolution(n) \/ BackoffEnds(n)
  \/ RunAll
  \/ \E i \in Known : Handle(i) \/ LoopDetected(i) \/ GivesUp(i) \/ HoldEnds(i) \/ HandleFails(i)
                      \/ startLoopInvestigation(i)
  \/ \E ip \in IPs : InputRead(ip)
  \/ InputGoes
  \/ \E t \in DOMAIN inv : Loop(t) \/ \E port \in setup.ports : LoopProbeReturn(t, port)
  \/ WorldChanges

Spec == Init /\ [][Next]_vars

\* Every goroutine goes on, backoff ends, the scan comes to every name again and again,
\* and select does not for ever pass over loopDetectedCh.
FairSpec ==
  /\ Spec
  /\ \A n \in Names : WF_vars(BackoffEnds(n)) /\ SF_vars(Resolution(n))
  /\ WF_vars(RunAll) /\ WF_vars(InputGoes)
  /\ WF_vars(\E i \in Known : HandleCheck(i) \/ HandleRun(i) \/ Receive(i) \/ HoldEnds(i))
  /\ WF_vars(\E i \in Known : Reconnect(i)) /\ WF_vars(\E i \in Known : LoopDetected(i))
  /\ WF_vars(\E t \in DOMAIN inv : Loop(t))

-----------------------------------------------------------------------------
(* Properties. *)

\* One logical peer per configured name, and every peer is found under the address it
\* uses, whatever DNS answered meanwhile: LookupOrCreate and setConfiguredCandidates
\* never leave a peer whose packets would be dropped or given to another.
TableConsistent ==
  /\ \A n \in Names, i \in Known : byName[n] = i <=> peers[i].name = n
  /\ \A i \in Known : byIP[peers[i].addr] = i

\* An address in use by one peer is never handed to another, and a peer never changes
\* its name: two names that resolve to one address are a conflict, not a takeover.
IdentityStable ==
  [][ /\ \A ip \in IPs : byIP[ip] # 0 => byIP'[ip] \in {0, byIP[ip]}
      /\ \A i \in Known : peers[i].name # NoName => peers'[i].name = peers[i].name ]_vars

\* The two maps of loop investigations name the same ones, though investigations end by
\* retiring and by a returned Probe, with a new one of the same key perhaps in between.
LoopMapsAgree ==
  /\ probes = Range(byKey) \ {0}
  /\ \A t \in probes : byKey[inv[t].peer] = t

\* A tunnel is disabled only by a Probe of its own that came back on the port whose
\* network was suspect.
DisabledByOwnProbe ==
  \A i \in Known : peers[i].disabled \/ peers[i].loopDetected =>
    \E t \in DOMAIN inv : inv[t].peer = i /\ inv[t].confirmed = <<inv[t].port>>

\* A name DNS knows, with no address of ours or of another peer.
Usable(n) == /\ Range(world[n]) \ {LocalIP} # {}
             /\ \A ip \in Range(world[n]) \ {LocalIP} :
                  byIP[ip] \in {0, byName[n]} \/ (byName[n] = 0 /\ peers[byIP[ip]].name = NoName)
InHand(i) == peers[i].running \/ peers[i].disabled

\* A send error has ended Handle with the receiver not unconnected, so that the scan
\* passes the peer over, and no datagram has come from it since.
Deserted(i) == peers[i].unheard /\ peers[i].rstate # "unconnected"

\* In the end every usable name has a peer whose Handle runs, unless its tunnel was
\* disabled: the scan starts what has not started or has failed to, and the next datagram
\* what a send error ended later (without one the peer stays deserted).  No investigation
\* is left; a confirmed loop has disabled its tunnel if Handle runs; and AURPInput reads
\* again, unless it waits for a disabled peer.
PeersSettle ==
  <>[](/\ \A n \in setup.names :
            Usable(n) => /\ byName[n] # 0
                         /\ InHand(byName[n]) \/ Deserted(byName[n])
       /\ probes = {} /\ \A i \in Known : peers[i].loopDetected => ~peers[i].running
       /\ input.pc = "read" \/ peers[input.peer].disabled)

\* "PeriodicallyAttemptConnections scans the peer table every 10 seconds looking for
\* configured peers that are disconnected, and attempts to connect them."
ScanReconnects == <>[](\A n \in setup.names :
                         Usable(n) => byName[n] # 0 /\ InHand(byName[n]))

\* AURPInput never waits for good.
InputGoesOn == []<>(input.pc = "read")
=============================================================================
