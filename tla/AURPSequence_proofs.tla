------------------------- MODULE AURPSequence_proofs ------------------------
(***************************************************************************)
(* Proof that an outstanding sequenced packet is only replaced by the next *)
(* one in sequence, once it has been acknowledged.                         *)
(***************************************************************************)
EXTENDS AURPConnection_proofs

\* Peer x either has no packet outstanding before or after the step, or
\* keeps the packet it has.
Keeps(s, t) == Waiting(s) /\ Waiting(t) => t.lastRISent = s.lastRISent

\* A disconnected sender waits for nothing.
LEMMA DisconnectedIdle ==
  ASSUME NEW s \in PeerState
  PROVE  DisconnectSender(s) \in PeerState /\ ~Waiting(DisconnectSender(s))
<1>1. DisconnectSender(s).sstate = "Unconnected"
  BY DEF DisconnectSender, PeerState
<1> QED BY <1>1, DisconnectSenderType DEF Waiting

\* What OneOutstanding says of one peer's step.
InOrder(x, s, t) ==
  (Waiting(s) /\ Waiting(t) /\ t.lastRISent # s.lastRISent) =>
     /\ t.localSeq = Succ(s.localSeq)
     /\ \E m \in net : m.type = "RIAck" /\ m.to = x /\ m.seq = s.lastRISent.seq

AllInOrder == \A x \in Peers : InOrder(x, peer[x], peer'[x])

\* Only the peer that steps needs to be looked at.
LEMMA StepInOrder ==
  ASSUME Typed, NEW p \in Peers, NEW t, peer' = [peer EXCEPT ![p] = t],
         InOrder(p, peer[p], t)
  PROVE  AllInOrder
<1>1. peer \in [Peers -> PeerState]
  BY DEF Typed, TypeOK
<1>2. \A x \in Peers : peer'[x] = IF x = p THEN t ELSE peer[x]
  BY <1>1
<1> QED BY <1>2 DEF AllInOrder, InOrder

\* A step that keeps the outstanding packet replaces nothing.
LEMMA KeepsInOrder ==
  ASSUME Typed, NEW p \in Peers, NEW t, peer' = [peer EXCEPT ![p] = t],
         Keeps(peer[p], t)
  PROVE  AllInOrder
BY StepInOrder DEF Keeps, InOrder

\* Updates that keep the outstanding packet or find or leave none.
LEMMA PiecesKeep ==
  ASSUME NEW s \in PeerState
  PROVE  /\ \A t : SameSender(s, t) => Keeps(s, t)
         /\ \A t \in PeerState : Keeps(s, DisconnectSender(t))
         /\ s.sstate = "Connected" => \A t : Keeps(s, t)
BY DEF SameSender, Keeps, Waiting, DisconnectSender, PeerState

\* Handle's start and the timers never replace an outstanding packet.
LEMMA TimersInOrder ==
  ASSUME Typed, NEW p \in Peers,
         StartHandle(p) \/ Reconnect(p) \/ RTickerTasks(p) \/ STickerTasks(p)
  PROVE  AllInOrder
<1> DEFINE s == peer[p]
<1>0. s \in PeerState
  BY DEF Typed, TypeOK
<1>1. CASE StartHandle(p)
  <2> DEFINE d == DisconnectSender(DisconnectReceiver(s))
             t == Opening([d EXCEPT !.mode = "run", !.observing = FALSE])
  <2>1. peer' = [peer EXCEPT ![p] = t]
    BY <1>1 DEF StartHandle, Acts
  <2>2. DisconnectReceiver(s) \in PeerState
    BY <1>0, <1>1, DisconnectReceiverType DEF StartHandle
  <2>3. d \in PeerState /\ ~Waiting(d)
    BY <2>2, DisconnectedIdle
  <2> HIDE DEF d
  <2>4. Keeps(s, t)
    BY <2>3 DEF Keeps, Waiting, Opening, PeerState
  <2> QED BY <2>1, <2>4, KeepsInOrder
<1>2. CASE Reconnect(p)
  <2>1. peer' = [peer EXCEPT ![p] = Opening(s)]
    BY <1>2 DEF Reconnect, Fires
  <2>2. Keeps(s, Opening(s))
    BY <1>0, PiecesSame, PiecesKeep
  <2> QED BY <2>1, <2>2, KeepsInOrder
<1>3. CASE ReceiverRetry(p) \/ SenderRetry(p)
  <2>1. peer' = [peer EXCEPT ![p] = Retried(s)]
    BY <1>3 DEF ReceiverRetry, SenderRetry, Fires
  <2>2. Keeps(s, Retried(s))
    BY <1>0, PiecesSame, PiecesKeep
  <2> QED BY <2>1, <2>2, KeepsInOrder
<1>4. CASE ReceiverGivesUp(p)
  <2>1. peer' = [peer EXCEPT ![p] = ConnectFailed(s)]
    BY <1>4 DEF ReceiverGivesUp, Fires
  <2>2. SameSender(s, ConnectFailed(s))
    BY <1>0 DEF SameSender, ConnectFailed, DisconnectReceiver, PeerState
  <2> QED BY <1>0, <2>1, <2>2, PiecesKeep, KeepsInOrder
<1>5. CASE SendTickle(p)
  <2> DEFINE w == Waiting(s)
             t == [s EXCEPT !.rstate = "WaitForTickleAck", !.retries = 0, !.tickled = w]
  <2>1. peer' = [peer EXCEPT ![p] = t]
    BY <1>5 DEF SendTickle, Fires
  <2> HIDE DEF w
  <2>2. Keeps(s, t)
    BY <1>0 DEF Keeps, PeerState
  <2> HIDE DEF t
  <2> QED BY <2>1, <2>2, KeepsInOrder
<1>6. CASE ProbeSender(p)
  <2> DEFINE t == SendNullRIUpd(p, Retried(s))
  <2>1. peer' = [peer EXCEPT ![p] = t] /\ s.sstate = "Connected"
    BY <1>6 DEF ProbeSender, Fires
  <2> QED BY <1>0, <2>1, PiecesKeep, KeepsInOrder
<1>7. CASE SendUpdates(p)
  <2> DEFINE t == SendNextRIUpd(p, IncLocalSeq(
                    [s EXCEPT !.pendingRIUpd = PendingTuples(s),
                              !.pendingEvents = [n \in Networks |-> None]]))
  <2>1. peer' = [peer EXCEPT ![p] = t] /\ s.sstate = "Connected"
    BY <1>7 DEF SendUpdates, Acts
  <2> QED BY <1>0, <2>1, PiecesKeep, KeepsInOrder
<1>8. CASE SenderGivesUp(p)
  <2> DEFINE r == [s EXCEPT !.observing = FALSE]
             c == [r EXCEPT !.sstate = "Unconnected"]
  <2>1. r \in PeerState /\ Keeps(s, c)
    BY <1>0 DEF PeerState, Keeps, Waiting
  <2>2. \/ peer' = [peer EXCEPT ![p] = DisconnectSender(r)]
        \/ peer' = [peer EXCEPT ![p] = c]
    BY <1>8 DEF SenderGivesUp, Fires
  <2> HIDE DEF r, c
  <2>3. Keeps(s, DisconnectSender(r))
    BY <1>0, <2>1, PiecesKeep
  <2> QED BY <2>1, <2>2, <2>3, KeepsInOrder
<1> QED BY <1>1, <1>2, <1>3, <1>4, <1>5, <1>6, <1>7, <1>8 DEF RTickerTasks, STickerTasks

\* handleRIAck replaces the outstanding packet only by the next one in
\* sequence, after its acknowledgement.
LEMMA RIAckInOrder ==
  ASSUME Typed, NEW p \in Peers, NEW m \in net, m.to = p, HandleRIAck(p, m)
  PROVE  AllInOrder
<1> DEFINE s == peer[p]
           a == [s EXCEPT !.retries = 0]
           rsp == SendNextRIRsp(p, IncLocalSeq(a))
           upd == SendNextRIUpd(p, IncLocalSeq(a))
           done == [a EXCEPT !.sstate = "Connected", !.observing = TRUE]
           probed == [a EXCEPT !.restartProbe = FALSE, !.lastRISent = None,
                               !.sstate = "Connected"]
           quit == [a EXCEPT !.observing = FALSE]
<1>0. s \in PeerState /\ Outstanding(s)
  BY DEF Typed, TypeOK, OutstandingPacket
<1>1. /\ a.localSeq = s.localSeq
      /\ m.type = "RIAck"
      /\ \/ peer' = [peer EXCEPT ![p] = s]
         \/ peer' = [peer EXCEPT ![p] = probed]
         \/ peer' = [peer EXCEPT ![p] = DisconnectSender(quit)]
         \/ m.seq = a.localSeq /\ peer' = [peer EXCEPT ![p] = rsp]
         \/ m.seq = a.localSeq /\ peer' = [peer EXCEPT ![p] = upd]
         \/ peer' = [peer EXCEPT ![p] = OpenedBack(done)]
  BY <1>0 DEF HandleRIAck, Handles, PeerState
<1>2. a \in PeerState
  BY <1>0, SimplePieces
<1> HIDE DEF a
<1>3. Keeps(s, s) /\ Keeps(s, probed)
  BY <1>2 DEF Keeps, Waiting, PeerState
<1>4. Keeps(s, DisconnectSender(quit))
  BY <1>0, <1>2, SimplePieces, PiecesKeep
<1>5. Keeps(s, OpenedBack(done))
  BY <1>2 DEF Keeps, Waiting, PeerState, OpenedBack, Opening
<1>6. rsp.localSeq = Succ(s.localSeq) /\ upd.localSeq = Succ(s.localSeq)
  BY <1>1, <1>2 DEF SendNextRIRsp, SendNextRIUpd, Sent, IncLocalSeq, PeerState
<1>7. ASSUME m.seq = a.localSeq, NEW t, t.localSeq = Succ(s.localSeq)
      PROVE  InOrder(p, s, t)
  BY <1>0, <1>1, <1>7 DEF InOrder, Outstanding
<1> HIDE DEF rsp, upd, done, probed, quit
<1> QED BY <1>1, <1>3, <1>4, <1>5, <1>6, <1>7, KeepsInOrder, StepInOrder

\* No other packet handler replaces an outstanding packet.
LEMMA ReceiveInOrder ==
  ASSUME Typed, NEW p \in Peers, Receive(p)
  PROVE  AllInOrder
<1>1. PICK m \in net : m.to = p /\ HandlePacket(p, m)
  BY DEF Receive
<1> DEFINE s == peer[p]
           a == Alive(s, m)
<1>0. s \in PeerState /\ a \in PeerState /\ SameSender(s, a)
  BY AliveType, AliveFresh DEF Typed, TypeOK, OutstandingPacket
<1>2. ASSUME NEW t, peer' = [peer EXCEPT ![p] = t], SameSender(s, t)
      PROVE  AllInOrder
  BY <1>0, <1>2, PiecesKeep, KeepsInOrder
<1>3. CASE DropOtherConnection(p, m) \/ HandleTickle(p, m)
  BY <1>2, <1>3 DEF DropOtherConnection, HandleTickle, Handles, SameSender
<1>4. CASE HandleOpenReq(p, m)
  <2> DEFINE probing == [SendNullRIUpd(p, [s EXCEPT !.retries = 0]) EXCEPT !.restartProbe = TRUE]
             opened == [s EXCEPT !.remoteConn = m.conn,
                                 !.sstate = IF m.ok THEN "Connected" ELSE @,
                                 !.observing = @ \/ m.ok]
  <2>1. \/ peer' = [peer EXCEPT ![p] = s]
        \/ s.sstate = "Connected" /\ peer' = [peer EXCEPT ![p] = probing]
        \/ s.sstate \in {"Unconnected", "Connected"} /\ peer' = [peer EXCEPT ![p] = OpenedBack(opened)]
    BY <1>4 DEF HandleOpenReq, Handles
  <2>2. s.sstate \in {"Unconnected", "Connected"} => Keeps(s, OpenedBack(opened)) /\ Keeps(s, probing)
    BY DEF Keeps, Waiting
  <2>3. Keeps(s, s)
    BY DEF Keeps
  <2> HIDE DEF probing, opened
  <2> QED BY <2>1, <2>2, <2>3, KeepsInOrder
<1>5. CASE HandleOpenRsp(p, m)
  <2> DEFINE t == [s EXCEPT !.retries = 0, !.rstate = "WaitForRIRsp", !.remoteSeq = 1]
  <2>1. peer' = [peer EXCEPT ![p] = ConnectFailed(s)] \/ peer' = [peer EXCEPT ![p] = t]
    BY <1>5 DEF HandleOpenRsp, Handles
  <2>2. SameSender(s, ConnectFailed(s)) /\ SameSender(s, t)
    BY <1>0 DEF SameSender, ConnectFailed, DisconnectReceiver, PeerState
  <2> QED BY <1>2, <2>1, <2>2
<1>6. CASE HandleRIReq(p, m)
  <2> DEFINE t == SendNextRIRsp(p, [s EXCEPT
                    !.localSeq = 1,
                    !.pendingRIRsp = [n \in {k \in Networks : exported[p][k] # NoRoute} |->
                                        exported[p][n]]])
  <2>1. \/ peer' = [peer EXCEPT ![p] = s]
        \/ s.sstate = "Connected" /\ peer' = [peer EXCEPT ![p] = t]
    BY <1>6 DEF HandleRIReq, Handles
  <2>2. Keeps(s, s) /\ (s.sstate = "Connected" => Keeps(s, t))
    BY DEF Keeps, Waiting
  <2> HIDE DEF t
  <2> QED BY <2>1, <2>2, KeepsInOrder
<1>7. CASE HandleOutOfSequence(p, m)
  <2>1. peer' = [peer EXCEPT ![p] = a] \/ peer' = [peer EXCEPT ![p] = DisconnectReceiver(a)]
    BY <1>7 DEF HandleOutOfSequence, Handles
  <2>2. SameSender(s, DisconnectReceiver(a))
    BY <1>0, PiecesSame DEF SameSender
  <2> QED BY <1>0, <1>2, <2>1, <2>2
<1>8. CASE HandleRIRsp(p, m)
  <2> DEFINE t == [s EXCEPT !.learned = ApplyTuples(@, m.nets),
                            !.rstate = IF m.last THEN "Connected" ELSE @,
                            !.backoff = IF m.last THEN FALSE ELSE @,
                            !.remoteSeq = Succ(@)]
  <2>1. peer' = [peer EXCEPT ![p] = t]
    BY <1>8 DEF HandleRIRsp, Handles
  <2>2. SameSender(s, t)
    BY <1>0 DEF SameSender, PeerState
  <2> QED BY <1>2, <2>1, <2>2
<1>9. CASE HandleRIUpd(p, m)
  <2> DEFINE asks == [a EXCEPT !.rstate = "WaitForRIRsp", !.remoteSeq = 1, !.retries = 0]
             early == [a EXCEPT !.remoteSeq = Succ(@), !.retries = 0]
             updated == [a EXCEPT !.learned = ApplyEvents(@, m.events),
                                  !.remoteSeq = Succ(@)]
  <2>1. \/ peer' = [peer EXCEPT ![p] = asks] \/ peer' = [peer EXCEPT ![p] = early]
        \/ peer' = [peer EXCEPT ![p] = updated]
    BY <1>9 DEF HandleRIUpd, Handles
  <2> HIDE DEF a
  <2>2. SameSender(s, asks) /\ SameSender(s, early) /\ SameSender(s, updated)
    BY <1>0 DEF SameSender, PeerState
  <2> QED BY <1>2, <2>1, <2>2
<1>10. CASE HandleRD(p, m)
  <2> DEFINE quit == [s EXCEPT !.observing = FALSE]
  <2>1. \/ peer' = [peer EXCEPT ![p] = DisconnectSender(quit)]
        \/ peer' = [peer EXCEPT ![p] = DisconnectReceiver(s)]
    BY <1>10 DEF HandleRD, Handles
  <2>2. Keeps(s, DisconnectSender(quit)) /\ Keeps(s, DisconnectReceiver(s))
    BY <1>0, SimplePieces, PiecesSame, PiecesKeep
  <2> QED BY <2>1, <2>2, KeepsInOrder
<1>11. CASE HandleTickleAck(p, m)
  <2> DEFINE t == [s EXCEPT !.rstate = "Connected", !.retries = 0]
  <2>1. peer' = [peer EXCEPT ![p] = t] \/ peer' = [peer EXCEPT ![p] = s]
    BY <1>11 DEF HandleTickleAck, Handles
  <2>2. SameSender(s, t) /\ SameSender(s, s)
    BY <1>0 DEF SameSender, PeerState
  <2> QED BY <1>2, <2>1, <2>2
<1> QED BY <1>1, <1>3, <1>4, <1>5, <1>6, <1>7, <1>8, <1>9, <1>10, <1>11, RIAckInOrder
        DEF HandlePacket

\* Forward, shutdown, loop confirmation, send errors, restarts and route
\* changes never replace an outstanding packet.
LEMMA EndsInOrder ==
  ASSUME Typed, NEW p \in Peers,
         \/ ForwardTickle(p) \/ ForwardTickleStore(p) \/ Shutdown(p) \/ InputEnds(p)
         \/ ShutdownStep(p) \/ ShutdownFails(p) \/ ConfirmLoop(p) \/ SendFails(p) \/ Restart(p) \/ ChangeRoute(p)
  PROVE  AllInOrder
<1> DEFINE s == peer[p]
<1>0. s \in PeerState
  BY DEF Typed, TypeOK
<1>1. CASE \/ ForwardTickle(p) \/ ForwardTickleStore(p) \/ Shutdown(p)
           \/ InputEnds(p) \/ ShutdownFails(p)
  <2> DEFINE t == [s EXCEPT !.tickling = TRUE]
             u == [s EXCEPT !.tickling = FALSE, !.retries = 0, !.rstate = "WaitForTickleAck"]
             v == [s EXCEPT !.mode = "closing"]
             w == [s EXCEPT !.mode = "deaf"]
             z == [s EXCEPT !.mode = "stopped", !.observing = FALSE]
  <2>1. \/ peer' = [peer EXCEPT ![p] = t] \/ peer' = [peer EXCEPT ![p] = u]
        \/ peer' = [peer EXCEPT ![p] = v] \/ peer' = [peer EXCEPT ![p] = w]
        \/ peer' = [peer EXCEPT ![p] = z]
    BY <1>1 DEF ForwardTickle, ForwardTickleStore, Shutdown, InputEnds, ShutdownFails, Fires, Acts
  <2>2. Keeps(s, t) /\ Keeps(s, u) /\ Keeps(s, v) /\ Keeps(s, w) /\ Keeps(s, z)
    BY <1>0 DEF Keeps, PeerState
  <2> HIDE DEF t, u, v, w, z
  <2> QED BY <2>1, <2>2, KeepsInOrder
<1>6. CASE SendFails(p)
  <2>1. PICK r \in RState, l \in [Networks -> LearnedVal], out \in SUBSET Message :
          peer' = [peer EXCEPT ![p] = Interrupted(s, r, l)]
    BY <1>6, SendFailsInterrupts DEF Interruption, Moves
  <2>2. Keeps(s, Interrupted(s, r, l))
    BY <1>0 DEF Keeps, PeerState, Interrupted
  <2> QED BY <2>1, <2>2, KeepsInOrder
<1>2. CASE ShutdownStep(p)
  <2>1. PICK t : peer' = [peer EXCEPT ![p] = t]
    BY <1>2 DEF ShutdownStep, Acts
  <2>2. ~Waiting(s)
    BY <1>2 DEF ShutdownStep, Waiting
  <2>3. Keeps(s, t)
    BY <2>2 DEF Keeps
  <2> QED BY <2>1, <2>3, KeepsInOrder
<1>3. CASE ConfirmLoop(p)
  <2> DEFINE r == IF s.sstate = "Unconnected" THEN s ELSE IncLocalSeq(s)
             d == DisconnectSender(DisconnectReceiver(r))
             t == [d EXCEPT !.mode = "idle", !.loopDisabled = TRUE, !.observing = FALSE]
  <2>1. peer' = [peer EXCEPT ![p] = t] /\ CanDisconnectReceiver(r)
    BY <1>3 DEF ConfirmLoop
  <2>2. DisconnectReceiver(r) \in PeerState
    BY <1>0, <2>1, SimplePieces, DisconnectReceiverType
  <2>3. d \in PeerState /\ ~Waiting(d)
    BY <2>2, DisconnectedIdle
  <2> HIDE DEF d
  <2>4. Keeps(s, t)
    BY <2>3 DEF Keeps, Waiting, PeerState
  <2> QED BY <2>1, <2>4, KeepsInOrder
<1>4. CASE Restart(p)
  <2> DEFINE t == NewPeer(IncConn(s.localConn))
  <2>1. peer' = [peer EXCEPT ![p] = t]
    BY <1>4 DEF Restart
  <2>2. Keeps(s, t)
    BY DEF Keeps, Waiting, NewPeer
  <2> QED BY <2>1, <2>2, KeepsInOrder
<1>5. CASE ChangeRoute(p)
  <2>1. PICK n \in Networks, new \in RouteVal :
          peer' = [peer EXCEPT ![p] = Queued(s, n, exported[p][n], new)]
    BY <1>5 DEF ChangeRoute
  <2>2. Keeps(s, Queued(s, n, exported[p][n], new))
    BY <1>0 DEF Keeps, PeerState, Queued
  <2> QED BY <2>1, <2>2, KeepsInOrder
<1> QED BY <1>1, <1>2, <1>3, <1>4, <1>5, <1>6

\* Every step respects the order of sequenced packets.
LEMMA NextInOrder ==
  ASSUME Typed, [Next]_vars
  PROVE  AllInOrder
<1>1. ASSUME NEW p \in Peers, System(p)
      PROVE  AllInOrder
  BY <1>1, TimersInOrder, ReceiveInOrder, EndsInOrder DEF System
<1>2. CASE peer' = peer
  BY <1>2 DEF AllInOrder, InOrder
<1>3. ASSUME NEW p \in Peers, Environment(p)
      PROVE  AllInOrder
  BY <1>2, <1>3, EndsInOrder DEF Environment, ReceiverRD
<1> QED BY <1>1, <1>2, <1>3 DEF Next, Lose, Unheard, vars

\* AURP-Tr's one outstanding packet: while the sender waits, handleRIReq,
\* handleOpenReq, the timers and a shutdown leave the packet it repeats alone;
\* only the acknowledgement of that packet lets handleRIAck send the next one.
THEOREM OnePacketOutstanding == Spec => OneOutstanding
<1>1. Typed /\ [Next]_vars =>
        [\A p \in Peers :
           LET s == peer[p]
               t == peer'[p]
           IN  (Waiting(s) /\ Waiting(t) /\ t.lastRISent # s.lastRISent) =>
                 /\ t.localSeq = Succ(s.localSeq)
                 /\ \E m \in net : /\ m.type = "RIAck" /\ m.to = p
                                  /\ m.seq = s.lastRISent.seq]_vars
  BY NextInOrder DEF AllInOrder, InOrder
<1> QED BY <1>1, AlwaysTyped, PTL DEF Spec, OneOutstanding
=============================================================================
