------------------------ MODULE AURPConnection_proofs -----------------------
(***************************************************************************)
(* Proofs that connections stay apart and that a receiver without an open  *)
(* connection holds no route of its peer.  The argument: a receiver's      *)
(* connection ID grows with every disconnect, so the ID of a connection    *)
(* that is not open yet is known to nobody but to whoever got its          *)
(* Open-Req; RI-Req is sent only on an opened connection, RI-Rsp only in   *)
(* answer to an RI-Req or to the acknowledgement of another RI-Rsp.        *)
(***************************************************************************)
EXTENDS AURPPeer_proofs

-----------------------------------------------------------------------------
\* Connection IDs that are never used again.

NoWrap == ConnWraps = FALSE

\* The step from s to t leaves the receiver, the sender role alone.
SameReceiver(s, t) ==
  t.localConn = s.localConn /\ t.rstate = s.rstate /\ t.learned = s.learned
SameSender(s, t) == t.remoteConn = s.remoteConn /\ t.lastRISent = s.lastRISent

\* What a step may do to its receiver role, to its sender role, and send.
RecvOK(s, t) ==
  /\ s.localConn <= t.localConn
  /\ (t.localConn = s.localConn /\ Opened(s)) => Opened(t)
  /\ ~Opened(t) => t.learned = NoRoutes
SendOK(p, t) ==
  /\ t.remoteConn <= peer[Other(p)].localConn
  /\ t.lastRISent # None => /\ t.lastRISent.to = Other(p)
                            /\ ForReceiver(t.lastRISent)
                            /\ FreshIn(t.lastRISent, peer[Other(p)])
OutOK(p, t, m) ==
  /\ m.to = Other(p)
  /\ FreshIn(m, IF ForReceiver(m) THEN peer[Other(p)] ELSE t)

\* The inductive invariant of this module.
Fresh == Typed /\ FreshConnections /\ NoRoutesUnlessOpen

\* Comparisons of connection IDs.
LEMMA NatFacts == \A n \in Nat : 0 <= n /\ n <= n /\ n <= n + 1
OBVIOUS

\* A datagram stays fresh when the receiver keeps or replaces its connection.
LEMMA FreshStays ==
  ASSUME NEW r \in PeerState, NEW r2 \in PeerState, NEW m \in Message,
         r.localConn <= r2.localConn,
         (r2.localConn = r.localConn /\ Opened(r)) => Opened(r2),
         FreshIn(m, r)
  PROVE  FreshIn(m, r2)
<1>1. r.localConn \in Nat /\ r2.localConn \in Nat /\ m.conn \in Nat
  BY MessageFields, PeerAssumption DEF PeerState, Conn
<1> QED BY <1>1 DEF FreshIn

\* A step that respects the three conditions above preserves the freshness of
\* every datagram, every remembered packet and every remembered connection ID.
LEMMA MoveFresh ==
  ASSUME Fresh, Typed', NEW p \in Peers, NEW t \in PeerState, NEW out \in SUBSET Message,
         peer' = [peer EXCEPT ![p] = t], net' \subseteq net \cup out,
         RecvOK(peer[p], t), SendOK(p, t), \A m \in out : OutOK(p, t, m)
  PROVE  Fresh'
<1> DEFINE q == Other(p)
<1>0. /\ q \in Peers /\ q # p /\ Other(q) = p /\ \A x \in Peers : x = p \/ x = q
  BY OtherType
<1>1. /\ peer[p] \in PeerState /\ peer[q] \in PeerState
      /\ peer'[p] = t /\ peer'[q] = peer[q] /\ net' \subseteq net \cup out
      /\ net \subseteq Message
  BY <1>0 DEF Fresh, Typed, TypeOK
<1>2. ASSUME NEW x \in Peers, NEW m \in Message, FreshIn(m, peer[x])
      PROVE  FreshIn(m, peer'[x])
  <2>1. CASE x = p
    BY <1>1, <1>2, <2>1, FreshStays DEF RecvOK
  <2>2. CASE x = q
    BY <1>1, <1>2, <2>2
  <2> QED BY <1>0, <2>1, <2>2
<1>3. ASSUME NEW m \in net'
      PROVE  FreshIn(m, peer'[Owner(m)])
  <2>1. CASE m \in net
    <3>1. m \in Message /\ FreshIn(m, peer[Owner(m)])
      BY <1>1, <2>1 DEF Fresh, FreshConnections, FreshFor
    <3>2. Owner(m) \in Peers
      BY <3>1, MessageFields, OtherType DEF Owner
    <3> QED BY <1>2, <3>1, <3>2
  <2>2. CASE m \in out
    <3>1. OutOK(p, t, m)
      BY <2>2
    <3>2. Owner(m) = IF ForReceiver(m) THEN q ELSE p
      BY <1>0, <3>1 DEF OutOK, Owner
    <3> QED BY <1>1, <3>1, <3>2 DEF OutOK
  <2> QED BY <1>1, <1>3, <2>1, <2>2
<1>4. ASSUME NEW x \in Peers
      PROVE  /\ peer'[x].remoteConn <= peer'[Other(x)].localConn
             /\ peer'[x].lastRISent # None =>
                  /\ peer'[x].lastRISent.to = Other(x)
                  /\ ForReceiver(peer'[x].lastRISent)
                  /\ FreshIn(peer'[x].lastRISent, peer'[Owner(peer'[x].lastRISent)])
  <2>1. CASE x = p
    <3> DEFINE l == t.lastRISent
    <3>1. Owner(l) = l.to \/ ~ForReceiver(l)
      BY DEF Owner
    <3> QED BY <1>0, <1>1, <2>1, <3>1 DEF SendOK
  <2>2. CASE x = q
    <3> DEFINE l == peer[q].lastRISent
    <3>1. peer[q].remoteConn <= peer[p].localConn
      BY <1>0 DEF Fresh, FreshConnections
    <3>2. l # None => l.to = p /\ ForReceiver(l) /\ FreshIn(l, peer[p]) /\ l \in Message
      BY <1>0, <1>1 DEF Fresh, FreshConnections, FreshFor, Owner, PeerState
    <3>3. l # None => FreshIn(l, peer'[p]) /\ Owner(l) = p
      BY <1>2, <3>2 DEF Owner
    <3>4. peer[q].remoteConn \in Nat /\ peer[p].localConn \in Nat /\ t.localConn \in Nat
      BY <1>1, PeerAssumption DEF PeerState, Conn
    <3> HIDE DEF l
    <3>5. peer[q].remoteConn <= t.localConn
      BY <3>1, <3>4 DEF RecvOK
    <3> QED BY <1>0, <1>1, <2>2, <3>2, <3>3, <3>5 DEF l
  <2> QED BY <1>0, <2>1, <2>2
<1>5. ASSUME NEW x \in Peers, peer'[x].rstate \in {"Unconnected", "WaitForOpenRsp"}
      PROVE  peer'[x].learned = NoRoutes
  BY <1>0, <1>1, <1>5 DEF RecvOK, Opened, Fresh, NoRoutesUnlessOpen
<1>6. FreshConnections'
  BY <1>3, <1>4 DEF FreshConnections, FreshFor, FreshIn, Opened, Owner, ForReceiver
<1>7. NoRoutesUnlessOpen'
  BY <1>5 DEF NoRoutesUnlessOpen
<1> QED BY <1>6, <1>7 DEF Fresh

\* p's new state is t and it sends out.
Frame(p, t, out) ==
  \/ Acts(p, t, out)
  \/ \E quiet \in BOOLEAN : Fires(p, quiet, t, out)
  \/ \E m \in net : Handles(p, m, t, out)

\* MoveFresh for a step given by its frame.
LEMMA StepFresh ==
  ASSUME Fresh, Typed', NEW p \in Peers, NEW t, NEW out, Frame(p, t, out),
         RecvOK(peer[p], t), SendOK(p, t), \A m \in out : OutOK(p, t, m)
  PROVE  Fresh'
<1>1. Moves(p, t, out)
  BY FramesMove DEF Fresh, Typed, Frame
<1>2. t \in PeerState /\ out \in SUBSET Message
  <2>1. peer' = [peer EXCEPT ![p] = t] /\ out \subseteq net'
    BY DEF Acts, Fires, Handles, Frame
  <2> QED BY <2>1 DEF Fresh, Typed, TypeOK
<1> QED BY <1>1, <1>2, MoveFresh DEF Moves

\* StepFresh for a step that sends one datagram.
LEMMA SendsFresh ==
  ASSUME Fresh, Typed', NEW p \in Peers, NEW t, NEW m, Frame(p, t, {m}),
         RecvOK(peer[p], t), SendOK(p, t), OutOK(p, t, m)
  PROVE  Fresh'
BY StepFresh

\* StepFresh for a step that sends nothing.
LEMMA SilentFresh ==
  ASSUME Fresh, Typed', NEW p \in Peers, NEW t, Frame(p, t, {}),
         RecvOK(peer[p], t), SendOK(p, t)
  PROVE  Fresh'
BY StepFresh

\* What the invariant says at one peer, for steps that touch one role only.
LEMMA Here ==
  ASSUME Fresh, NEW p \in Peers
  PROVE  /\ peer[p] \in PeerState /\ Outstanding(peer[p])
         /\ peer[p].localConn \in Nat \ {0} /\ peer[p].remoteConn \in Nat
         /\ \A t : SameReceiver(peer[p], t) => RecvOK(peer[p], t)
         /\ \A t : SameSender(peer[p], t) => SendOK(p, t)
<1>1. /\ peer[p] \in PeerState /\ Outstanding(peer[p])
      /\ peer[p].localConn \in Nat \ {0} /\ peer[p].remoteConn \in Nat
  BY PeerAssumption DEF Fresh, Typed, TypeOK, OutstandingPacket, PeerState, Conn
<1>2. \A t : SameReceiver(peer[p], t) => RecvOK(peer[p], t)
  BY <1>1 DEF Fresh, NoRoutesUnlessOpen, SameReceiver, RecvOK, Opened
<1>3. \A t : SameSender(peer[p], t) => SendOK(p, t)
  BY DEF Fresh, FreshConnections, FreshFor, Owner, SameSender, SendOK
<1> QED BY <1>1, <1>2, <1>3

\* The receiver's requests carry its current connection ID.
LEMMA RequestsFresh ==
  ASSUME NEW p \in Peers, NEW s, NEW t, s.localConn \in Nat, t.localConn = s.localConn
  PROVE  /\ OutOK(p, t, OpenReq(p, s))
         /\ OutOK(p, t, Request("Tickle", p, s))
         /\ Opened(t) => OutOK(p, t, Request("RIReq", p, s))
<1>1. OutOK(p, t, OpenReq(p, s))
  BY DEF OutOK, OpenReq, FreshIn, ForReceiver
<1>2. OutOK(p, t, Request("Tickle", p, s))
  BY DEF OutOK, Request, FreshIn, ForReceiver
<1>3. Opened(t) => OutOK(p, t, Request("RIReq", p, s))
  BY DEF OutOK, Request, FreshIn, ForReceiver
<1> QED BY <1>1, <1>2, <1>3

\* The sender's packets carry a connection ID the other side has used.
LEMMA AnswersFresh ==
  ASSUME NEW p \in Peers, NEW s, NEW t, s.remoteConn <= peer[Other(p)].localConn
  PROVE  /\ \A ok \in BOOLEAN : OutOK(p, t, OpenRsp(p, s, ok))
         /\ OutOK(p, t, TickleAck(p, s))
         /\ s.localSeq \in ID => OutOK(p, t, SenderRD(p, s))
         /\ \A events : OutOK(p, t, RIUpd(p, s, events))
<1>1. \A ok \in BOOLEAN : OutOK(p, t, OpenRsp(p, s, ok))
  BY DEF OutOK, OpenRsp, FreshIn, ForReceiver
<1>2. OutOK(p, t, TickleAck(p, s))
  BY DEF OutOK, TickleAck, FreshIn, ForReceiver
<1>3. s.localSeq \in ID => OutOK(p, t, SenderRD(p, s))
  BY MaxIDAssumption DEF OutOK, SenderRD, FreshIn, ForReceiver, ID
<1>4. \A events : OutOK(p, t, RIUpd(p, s, events))
  BY DEF OutOK, RIUpd, FreshIn, ForReceiver
<1> QED BY <1>1, <1>2, <1>3, <1>4

\* The packet to repeat may be sent again.
LEMMA LastFresh ==
  ASSUME NEW p \in Peers, NEW t, SendOK(p, t), t.lastRISent # None
  PROVE  OutOK(p, t, t.lastRISent)
BY DEF SendOK, OutOK

\* Which role each small state update leaves alone.
LEMMA PiecesSame ==
  ASSUME NEW s \in PeerState
  PROVE  /\ SameReceiver(s, Retried(s)) /\ SameSender(s, Retried(s))
         /\ SameReceiver(s, IncLocalSeq(s)) /\ SameSender(s, IncLocalSeq(s))
         /\ SameSender(s, Opening(s)) /\ SameSender(s, OpenedBack(s))
         /\ SameReceiver(s, DisconnectSender(s))
         /\ SameSender(s, DisconnectReceiver(s))
BY DEF PeerState, SameReceiver, SameSender, Retried, IncLocalSeq, Opening, OpenedBack,
       DisconnectSender, DisconnectReceiver

\* Sending an Open-Req keeps the connection ID and finds no route installed.
LEMMA OpeningFresh ==
  ASSUME NEW s \in PeerState, s.rstate = "Unconnected", s.learned = NoRoutes
  PROVE  RecvOK(s, Opening(s)) /\ Opening(s).localConn = s.localConn
<1>1. s.localConn \in Nat
  BY PeerAssumption DEF PeerState, Conn
<1> QED BY <1>1 DEF PeerState, RecvOK, Opened, Opening

\* disconnectReceiver replaces the connection ID by one never used before.
LEMMA DisconnectedFresh ==
  ASSUME NoWrap, NEW s \in PeerState, CanDisconnectReceiver(s)
  PROVE  /\ DisconnectReceiver(s).localConn = s.localConn + 1
         /\ DisconnectReceiver(s).rstate = "Unconnected"
         /\ DisconnectReceiver(s).learned = NoRoutes
         /\ RecvOK(s, DisconnectReceiver(s))
         /\ RecvOK(s, ConnectFailed(s)) /\ SameSender(s, ConnectFailed(s))
<1>1. s.localConn \in Nat /\ s.localConn < MaxConn /\ MaxConn \in Nat
  BY PeerAssumption DEF PeerState, Conn, CanDisconnectReceiver, NoWrap
<1>2. IncConn(s.localConn) = s.localConn + 1
  BY <1>1 DEF IncConn
<1> DEFINE d == DisconnectReceiver(s)
<1>3. /\ d.localConn = s.localConn + 1 /\ d.rstate = "Unconnected" /\ d.learned = NoRoutes
      /\ SameSender(s, d)
  BY <1>2 DEF PeerState, DisconnectReceiver, SameSender
<1>4. LET f == ConnectFailed(s) IN
      /\ f.localConn = s.localConn + 1 /\ f.rstate = "Unconnected" /\ f.learned = NoRoutes
      /\ SameSender(s, f)
  BY <1>2 DEF PeerState, DisconnectReceiver, ConnectFailed, SameSender
<1> QED BY <1>1, <1>3, <1>4 DEF RecvOK, Opened

\* disconnectSender forgets the remote connection ID.
LEMMA DisconnectedSenderFresh ==
  ASSUME Fresh, NEW p \in Peers, NEW s \in PeerState
  PROVE  SendOK(p, DisconnectSender(s))
<1>1. peer[Other(p)].localConn \in Nat
  BY OtherType, Here
<1> QED BY <1>1 DEF SendOK, DisconnectSender, PeerState

\* The data sender's packets for a connection the other side has used; an
\* RI-Rsp needs that connection to have been opened.
LEMMA SendNextFresh ==
  ASSUME Fresh, NEW p \in Peers, NEW s \in PeerState,
         s.remoteConn <= peer[Other(p)].localConn
  PROVE  /\ SameReceiver(s, SendNextRIUpd(p, s)) /\ SendOK(p, SendNextRIUpd(p, s))
         /\ SameReceiver(s, SendNullRIUpd(p, s)) /\ SendOK(p, SendNullRIUpd(p, s))
         /\ SameReceiver(s, SendNextRIRsp(p, s))
         /\ (s.remoteConn = peer[Other(p)].localConn => Opened(peer[Other(p)]))
              => SendOK(p, SendNextRIRsp(p, s))
         /\ SendNextRIUpd(p, s).lastRISent # None /\ SendNullRIUpd(p, s).lastRISent # None
         /\ SendNextRIRsp(p, s).lastRISent # None
<1>1. /\ SameReceiver(s, SendNextRIUpd(p, s)) /\ SendOK(p, SendNextRIUpd(p, s))
      /\ SameReceiver(s, SendNullRIUpd(p, s)) /\ SendOK(p, SendNullRIUpd(p, s))
  BY DEF SameReceiver, SendOK, SendNextRIUpd, SendNullRIUpd, IncLocalSeq, Sent, RIUpd, PeerState,
         FreshIn, ForReceiver
<1>2. SameReceiver(s, SendNextRIRsp(p, s))
  BY DEF SameReceiver, SendNextRIRsp, Sent, PeerState
<1>3. (s.remoteConn = peer[Other(p)].localConn => Opened(peer[Other(p)]))
        => SendOK(p, SendNextRIRsp(p, s))
  BY DEF SendOK, SendNextRIRsp, Sent, RIRsp, PeerState, FreshIn, ForReceiver
<1> QED BY <1>1, <1>2, <1>3, SendNextTypes, SendNullType, NoneAssumption

\* Starting Handle, the reconnect signal and rtickerTasks preserve freshness.
LEMMA RTimersFresh ==
  ASSUME NoWrap, Fresh, Typed', NEW p \in Peers,
         StartHandle(p) \/ Reconnect(p) \/ RTickerTasks(p)
  PROVE  Fresh'
<1> DEFINE s == peer[p]
<1>0. /\ s \in PeerState /\ s.localConn \in Nat
      /\ \A t : SameReceiver(s, t) => RecvOK(s, t)
      /\ \A t : SameSender(s, t) => SendOK(p, t)
  BY Here
<1>1. CASE StartHandle(p)
  <2> DEFINE r == DisconnectReceiver(s)
             d == DisconnectSender(r)
             t == [d EXCEPT !.mode = "run", !.observing = FALSE]
  <2>1. Frame(p, Opening(t), {OpenReq(p, t)}) /\ CanDisconnectReceiver(s)
    BY <1>1 DEF StartHandle, Frame
  <2>2. r \in PeerState /\ d \in PeerState
    BY <1>0, <2>1, DisconnectReceiverType, DisconnectSenderType
  <2>3. SendOK(p, d)
    BY <2>2, DisconnectedSenderFresh
  <2>4. r.localConn = s.localConn + 1 /\ r.rstate = "Unconnected" /\ r.learned = NoRoutes
    BY <1>0, <2>1, DisconnectedFresh
  <2>5. SameReceiver(r, d)
    BY <2>2, PiecesSame
  <2> HIDE DEF r, d
  <2>6. /\ Opening(t).localConn = d.localConn /\ Opening(t).rstate = "WaitForOpenRsp"
        /\ Opening(t).learned = d.learned /\ SameSender(d, Opening(t))
        /\ t.localConn = d.localConn
    BY <2>2 DEF Opening, PeerState, SameSender
  <2> HIDE DEF t
  <2>7. SendOK(p, Opening(t)) /\ RecvOK(s, Opening(t))
    BY <1>0, <2>3, <2>4, <2>5, <2>6 DEF SameReceiver, SameSender, SendOK, RecvOK, Opened
  <2>8. OutOK(p, Opening(t), OpenReq(p, t))
    BY <1>0, <2>4, <2>5, <2>6, RequestsFresh DEF SameReceiver
  <2> QED BY <2>1, <2>7, <2>8, SendsFresh
<1>2. CASE Reconnect(p)
  <2>1. Frame(p, Opening(s), {OpenReq(p, s)})
    BY <1>2 DEF Reconnect, ReconnectReady, Frame
  <2>2. s.rstate = "Unconnected" /\ s.learned = NoRoutes
    BY <1>2 DEF Reconnect, Fresh, NoRoutesUnlessOpen
  <2>3. RecvOK(s, Opening(s)) /\ SendOK(p, Opening(s)) /\ OutOK(p, Opening(s), OpenReq(p, s))
    BY <1>0, <2>2, OpeningFresh, PiecesSame, RequestsFresh
  <2> QED BY <2>1, <2>3, SendsFresh
<1>3. CASE ReceiverRetry(p)
  <2> DEFINE t == Retried(s)
  <2>1. Frame(p, t, {Repeats(p)})
    BY <1>3 DEF ReceiverRetry, Quiet, Frame
  <2>2. SameReceiver(s, t) /\ SameSender(s, t)
    BY <1>0, PiecesSame
  <2>3. OutOK(p, t, Repeats(p))
    BY <1>0, <1>3, <2>2, RequestsFresh
       DEF SameReceiver, ReceiverRetry, ReceiverTimeout, Repeats, Opened
  <2> QED BY <1>0, <2>1, <2>2, <2>3, SendsFresh
<1>4. CASE ReceiverGivesUp(p)
  <2>1. Frame(p, ConnectFailed(s), {})
    BY <1>4 DEF ReceiverGivesUp, Quiet, Frame
  <2>2. RecvOK(s, ConnectFailed(s)) /\ SendOK(p, ConnectFailed(s))
    BY <1>0, <1>4, DisconnectedFresh DEF ReceiverGivesUp
  <2> QED BY <2>1, <2>2, SilentFresh
<1>5. CASE SendTickle(p)
  <2> DEFINE w == Waiting(s)
             t == [s EXCEPT !.rstate = "WaitForTickleAck", !.retries = 0, !.tickled = w]
  <2>1. Frame(p, t, {Request("Tickle", p, s)})
    BY <1>5 DEF SendTickle, Quiet, Frame
  <2> HIDE DEF w
  <2>2. RecvOK(s, t) /\ SameSender(s, t) /\ t.localConn = s.localConn
    BY <1>0 DEF PeerState, RecvOK, Opened, SameSender
  <2>3. OutOK(p, t, Request("Tickle", p, s))
    BY <1>0, <2>2, RequestsFresh
  <2> QED BY <1>0, <2>1, <2>2, <2>3, SendsFresh
<1>6. CASE ProbeSender(p)
  <2> DEFINE r == Retried(s)
             t == SendNullRIUpd(p, r)
  <2>1. Frame(p, t, {t.lastRISent})
    BY <1>6 DEF ProbeSender, Quiet, Frame
  <2>2. r \in PeerState /\ SameReceiver(s, r) /\ SendOK(p, r)
    BY <1>0, SimplePieces, PiecesSame
  <2>3. SameReceiver(r, t) /\ SendOK(p, t) /\ t.lastRISent # None
    BY <2>2, SendNextFresh DEF SendOK
  <2>4. RecvOK(s, t)
    BY <1>0, <2>2, <2>3 DEF SameReceiver
  <2> QED BY <2>1, <2>3, <2>4, LastFresh, SendsFresh
<1> QED BY <1>1, <1>2, <1>3, <1>4, <1>5, <1>6 DEF RTickerTasks

\* stickerTasks preserves freshness: it repeats or extends what was sent.
LEMMA STimersFresh ==
  ASSUME NoWrap, Fresh, Typed', NEW p \in Peers, STickerTasks(p)
  PROVE  Fresh'
<1> DEFINE s == peer[p]
<1>0. /\ s \in PeerState /\ s.localConn \in Nat
      /\ \A t : SameReceiver(s, t) => RecvOK(s, t)
      /\ \A t : SameSender(s, t) => SendOK(p, t)
  BY Here
<1>1. CASE SendUpdates(p)
  <2> DEFINE r == IncLocalSeq([s EXCEPT !.pendingRIUpd = PendingTuples(s),
                                        !.pendingEvents = [n \in Networks |-> None]])
             t == SendNextRIUpd(p, r)
  <2>1. Frame(p, t, {t.lastRISent})
    BY <1>1 DEF SendUpdates, Frame
  <2>2. r \in PeerState
    <3>1. PendingTuples(s) \in EventTuples
      BY <1>0, PendingTuplesType
    <3>2. [s EXCEPT !.pendingRIUpd = PendingTuples(s),
                    !.pendingEvents = [n \in Networks |-> None]] \in PeerState
      BY <1>0, <3>1 DEF PeerState
    <3> QED BY <3>2, SimplePieces
  <2>3. SameReceiver(s, r) /\ SameSender(s, r)
    BY <1>0 DEF PeerState, SameReceiver, SameSender, IncLocalSeq
  <2> HIDE DEF r
  <2>4. SendOK(p, r)
    BY <1>0, <2>3
  <2>5. SameReceiver(r, t) /\ SendOK(p, t) /\ t.lastRISent # None
    BY <2>2, <2>4, SendNextFresh DEF SendOK
  <2>6. RecvOK(s, t)
    BY <1>0, <2>3, <2>5 DEF SameReceiver
  <2> QED BY <2>1, <2>5, <2>6, LastFresh, SendsFresh
<1>2. CASE SenderRetry(p)
  <2> DEFINE t == Retried(s)
  <2>1. /\ Frame(p, t, {s.lastRISent})
        /\ s.lastRISent # None
    BY <1>2 DEF SenderRetry, Quiet, Frame
  <2>2. RecvOK(s, t) /\ SendOK(p, t) /\ t.lastRISent = s.lastRISent
    BY <1>0, PiecesSame DEF SameSender
  <2>3. OutOK(p, t, s.lastRISent)
    BY <2>1, <2>2, LastFresh
  <2> QED BY <2>1, <2>2, <2>3, SendsFresh
<1>3. CASE SenderGivesUp(p)
  <2> DEFINE r == [s EXCEPT !.observing = FALSE]
             c == [r EXCEPT !.sstate = "Unconnected"]
  <2>1. r \in PeerState /\ SameReceiver(s, r) /\ SameReceiver(s, c) /\ SameSender(s, c)
    BY <1>0 DEF PeerState, SameReceiver, SameSender
  <2>2. Frame(p, DisconnectSender(r), {}) \/ Frame(p, c, {})
    BY <1>3 DEF SenderGivesUp, Quiet, Frame
  <2> HIDE DEF r, c
  <2>3. SameReceiver(r, DisconnectSender(r)) /\ SendOK(p, DisconnectSender(r))
    BY <2>1, PiecesSame, DisconnectedSenderFresh
  <2>4. RecvOK(s, DisconnectSender(r)) /\ RecvOK(s, c) /\ SendOK(p, c)
    BY <1>0, <2>1, <2>3 DEF SameReceiver
  <2> QED BY <2>2, <2>3, <2>4, SilentFresh
<1> QED BY <1>1, <1>2, <1>3 DEF STickerTasks

\* What the invariant says of a datagram that arrives.
LEMMA Incoming ==
  ASSUME Fresh, NEW p \in Peers, NEW m \in net, m.to = p
  PROVE  FreshIn(m, IF ForReceiver(m) THEN peer[p] ELSE peer[Other(p)])
BY DEF Fresh, FreshConnections, FreshFor, Owner

\* An acknowledgement carries the connection ID of what it acknowledges.
LEMMA AcksFresh ==
  ASSUME NEW p \in Peers, NEW m, NEW t, m.conn <= t.localConn
  PROVE  OutOK(p, t, RIAck(p, m))
BY DEF OutOK, RIAck, FreshIn, ForReceiver

\* Opening the reverse connection keeps the connection ID.
LEMMA OpenBackFresh ==
  ASSUME NEW p \in Peers, NEW s \in PeerState, ~Opened(s) => s.learned = NoRoutes
  PROVE  /\ RecvOK(s, OpenedBack(s)) /\ SameSender(s, OpenedBack(s))
         /\ \A m \in OpenBackPackets(p, s) : OutOK(p, OpenedBack(s), m)
<1>1. s.localConn \in Nat
  BY PeerAssumption DEF PeerState, Conn
<1>2. CASE s.rstate = "Unconnected"
  BY <1>1, <1>2, OpeningFresh, RequestsFresh, PiecesSame DEF OpenedBack, OpenBackPackets, Opened
<1>3. CASE s.rstate # "Unconnected"
  BY <1>1, <1>3 DEF OpenedBack, OpenBackPackets, RecvOK, SameSender
<1> QED BY <1>2, <1>3

\* handleOpenReq preserves freshness: it remembers the ID of the request.
LEMMA OpenReqFresh ==
  ASSUME Fresh, Typed', NEW p \in Peers, NEW m \in net, m.to = p, HandleOpenReq(p, m)
  PROVE  Fresh'
<1> DEFINE s == peer[p]
           r == [s EXCEPT !.retries = 0]
           n == SendNullRIUpd(p, r)
           probing == [n EXCEPT !.restartProbe = TRUE]
           opened == [s EXCEPT !.remoteConn = m.conn,
                               !.sstate = IF m.ok THEN "Connected" ELSE @,
                               !.observing = @ \/ m.ok]
<1>0. /\ s \in PeerState /\ s.localConn \in Nat
      /\ \A t : SameReceiver(s, t) => RecvOK(s, t)
      /\ \A t : SameSender(s, t) => SendOK(p, t)
  BY Here
<1>1. m \in Message /\ m.type = "OpenReq" /\ m.conn <= peer[Other(p)].localConn
  BY Incoming DEF HandleOpenReq, Fresh, Typed, TypeOK, ForReceiver, FreshIn
<1>2. \/ Frame(p, s, {})
      \/ Frame(p, probing, {probing.lastRISent})
      \/ Frame(p, OpenedBack(opened), {OpenRsp(p, opened, m.ok)} \cup OpenBackPackets(p, opened))
  BY DEF HandleOpenReq, Frame
<1>3. CASE Frame(p, s, {})
  BY <1>0, <1>3, SilentFresh DEF SameReceiver, SameSender
<1>4. CASE Frame(p, probing, {probing.lastRISent})
  <2>1. r \in PeerState /\ SameReceiver(s, r) /\ SameSender(s, r)
    BY <1>0, SimplePieces DEF PeerState, SameReceiver, SameSender
  <2> HIDE DEF r
  <2>2. SameReceiver(r, n) /\ SendOK(p, n) /\ n.lastRISent # None /\ n \in PeerState
    BY <1>0, <2>1, SendNextFresh, SendNullType DEF SendOK
  <2> HIDE DEF n
  <2>3. SameReceiver(n, probing) /\ SameSender(n, probing)
    BY <2>2 DEF PeerState, SameReceiver, SameSender
  <2> HIDE DEF probing
  <2>4. SendOK(p, probing) /\ probing.lastRISent # None
    BY <2>2, <2>3 DEF SendOK, SameSender
  <2>5. RecvOK(s, probing)
    BY <1>0, <2>1, <2>2, <2>3 DEF SameReceiver
  <2> QED BY <1>4, <2>4, <2>5, LastFresh, SendsFresh
<1>5. CASE Frame(p, OpenedBack(opened),
                 {OpenRsp(p, opened, m.ok)} \cup OpenBackPackets(p, opened))
  <2> DEFINE t == OpenedBack(opened)
  <2>1. m.ok \in BOOLEAN /\ m.conn \in Conn
    BY <1>1, MessageFields
  <2>2. (IF m.ok THEN "Connected" ELSE s.sstate) \in SState /\ (s.observing \/ m.ok) \in BOOLEAN
    BY <1>0, Names DEF PeerState
  <2>3. opened \in PeerState
    BY <1>0, <2>1, <2>2, OpenType
  <2>4. /\ SameReceiver(s, opened) /\ opened.remoteConn = m.conn
        /\ opened.lastRISent = s.lastRISent
    BY <1>0 DEF PeerState, SameReceiver
  <2> HIDE DEF opened
  <2>5. ~Opened(opened) => opened.learned = NoRoutes
    BY <2>4 DEF Fresh, NoRoutesUnlessOpen, SameReceiver, Opened
  <2>6. /\ RecvOK(opened, t) /\ SameSender(opened, t)
        /\ \A x \in OpenBackPackets(p, opened) : OutOK(p, t, x)
    BY <2>3, <2>5, OpenBackFresh
  <2> HIDE DEF t
  <2>7. RecvOK(s, t)
    BY <2>4, <2>6 DEF RecvOK, SameReceiver, Opened
  <2>8. SendOK(p, s)
    BY <1>0 DEF SameSender
  <2>9. SendOK(p, t)
    BY <1>1, <2>4, <2>6, <2>8 DEF SendOK, SameSender
  <2>10. OutOK(p, t, OpenRsp(p, opened, m.ok))
    BY <1>1, <2>1, <2>4, AnswersFresh
  <2> QED BY <1>5, <2>6, <2>7, <2>9, <2>10, StepFresh DEF t
<1> QED BY <1>2, <1>3, <1>4, <1>5

\* Dropping a packet, handleOpenReq and handleOpenRsp preserve freshness.
LEMMA OpenHandlersFresh ==
  ASSUME NoWrap, Fresh, Typed', NEW p \in Peers, NEW m \in net, m.to = p,
         DropOtherConnection(p, m) \/ HandleOpenReq(p, m) \/ HandleOpenRsp(p, m)
  PROVE  Fresh'
<1> DEFINE s == peer[p]
           t == [s EXCEPT !.retries = 0, !.rstate = "WaitForRIRsp", !.remoteSeq = 1]
<1>0. /\ s \in PeerState /\ s.localConn \in Nat
      /\ \A u : SameReceiver(s, u) => RecvOK(s, u)
      /\ \A u : SameSender(s, u) => SendOK(p, u)
  BY Here
<1>1. CASE DropOtherConnection(p, m)
  <2>1. Frame(p, s, {})
    BY <1>1 DEF DropOtherConnection, Frame
  <2> QED BY <1>0, <2>1, SilentFresh DEF SameReceiver, SameSender
<1>2. CASE HandleOpenRsp(p, m) /\ ~m.ok
  <2>1. Frame(p, ConnectFailed(s), {}) /\ CanDisconnectReceiver(s)
    BY <1>2 DEF HandleOpenRsp, Frame
  <2>2. RecvOK(s, ConnectFailed(s)) /\ SendOK(p, ConnectFailed(s))
    BY <1>0, <2>1, DisconnectedFresh
  <2> QED BY <2>1, <2>2, SilentFresh
<1>3. CASE HandleOpenRsp(p, m) /\ m.ok
  <2>1. Frame(p, t, {Request("RIReq", p, s)})
    BY <1>3 DEF HandleOpenRsp, Frame
  <2>2. RecvOK(s, t) /\ SameSender(s, t) /\ t.localConn = s.localConn /\ Opened(t)
    BY <1>0 DEF PeerState, RecvOK, Opened, SameSender
  <2>3. OutOK(p, t, Request("RIReq", p, s)) /\ SendOK(p, t)
    BY <1>0, <2>2, RequestsFresh
  <2> QED BY <2>1, <2>2, <2>3, SendsFresh
<1> QED BY <1>1, <1>2, <1>3, OpenReqFresh

\* handleRIReq preserves freshness: the RI-Req proves that its connection was
\* opened, so the RI-Rsp that answers it is fresh.
LEMMA RIReqFresh ==
  ASSUME Fresh, Typed', NEW p \in Peers, NEW m \in net, m.to = p, HandleRIReq(p, m)
  PROVE  Fresh'
<1> DEFINE s == peer[p]
           q == Other(p)
           D == {k \in Networks : exported[p][k] # NoRoute}
           nets == [n \in D |-> exported[p][n]]
           r == [s EXCEPT !.localSeq = 1, !.pendingRIRsp = nets]
           t == SendNextRIRsp(p, r)
<1>0. /\ s \in PeerState /\ s.localConn \in Nat \ {0} /\ Outstanding(s)
      /\ \A u : SameReceiver(s, u) => RecvOK(s, u)
      /\ \A u : SameSender(s, u) => SendOK(p, u)
  BY Here
<1>1. Frame(p, s, {}) \/ Frame(p, t, {t.lastRISent})
  BY DEF HandleRIReq, Frame
<1>2. CASE Frame(p, s, {})
  BY <1>0, <1>2, SilentFresh DEF SameReceiver, SameSender
<1>3. CASE Frame(p, t, {t.lastRISent})
  <2>1. nets \in NetTuples
    <3>1. \A n \in D : exported[p][n] \in Dists
      BY DEF Fresh, Typed, TypeOK, RouteVal
    <3>2. D \in SUBSET Networks
      OBVIOUS
    <3> HIDE DEF D
    <3>3. nets \in [D -> Dists]
      BY <3>1
    <3> HIDE DEF nets
    <3> QED BY <3>2, <3>3 DEF NetTuples, Partial
  <2> HIDE DEF nets
  <2>2. r \in PeerState /\ SameReceiver(s, r) /\ SameSender(s, r)
    BY <1>0, <2>1, OneIsID DEF PeerState, SameReceiver, SameSender
  <2> HIDE DEF r
  <2>3. r.remoteConn \in {0, m.conn} /\ m.type = "RIReq"
    BY <2>2 DEF SameSender, HandleRIReq, RemoteConnMatches
  <2>4. FreshIn(m, peer[q])
    BY <2>3, Incoming DEF ForReceiver
  <2>5. peer[q].localConn \in Nat \ {0}
    BY OtherType, Here
  <2>6. r.remoteConn = peer[q].localConn => Opened(peer[q])
    BY <2>3, <2>4, <2>5 DEF FreshIn
  <2>7. r.remoteConn <= peer[q].localConn
    BY <1>0, <2>2 DEF SendOK
  <2>8. SameReceiver(r, t) /\ SendOK(p, t) /\ t.lastRISent # None
    BY <2>2, <2>6, <2>7, SendNextFresh
  <2>9. RecvOK(s, t)
    BY <1>0, <2>2, <2>8 DEF SameReceiver
  <2> QED BY <1>3, <2>8, <2>9, LastFresh, SendsFresh
<1> QED BY <1>1, <1>2, <1>3

\* Counting an RI-Upd as a Tickle-Ack changes neither role's connection.
LEMMA AliveFresh ==
  ASSUME NEW s \in PeerState, NEW m
  PROVE  /\ Alive(s, m).localConn = s.localConn /\ Alive(s, m).learned = s.learned
         /\ SameSender(s, Alive(s, m)) /\ (Opened(Alive(s, m)) <=> Opened(s))
BY DEF Alive, PeerState, SameSender, Opened

\* checkRemoteSeq on an unexpected packet preserves freshness.
LEMMA OutOfSequenceFresh ==
  ASSUME NoWrap, Fresh, Typed', NEW p \in Peers, NEW m \in net, m.to = p,
         HandleOutOfSequence(p, m)
  PROVE  Fresh'
<1> DEFINE s == peer[p]
           a == Alive(s, m)
<1>0. /\ s \in PeerState /\ s.localConn \in Nat \ {0} /\ Outstanding(s)
      /\ \A u : SameReceiver(s, u) => RecvOK(s, u)
      /\ \A u : SameSender(s, u) => SendOK(p, u)
  BY Here
<1>1. /\ a \in PeerState /\ a.localConn = s.localConn /\ a.learned = s.learned
      /\ SameSender(s, a) /\ (Opened(a) <=> Opened(s))
  BY <1>0, AliveType, AliveFresh
<1>2. /\ m.conn = s.localConn
      /\ \/ Frame(p, a, {RIAck(p, m)})
         \/ CanDisconnectReceiver(a) /\ Frame(p, DisconnectReceiver(a), {})
         \/ Frame(p, a, {})
  BY DEF HandleOutOfSequence, LocalConnMatches, Frame
<1> HIDE DEF a
<1>3. RecvOK(s, s)
  BY <1>0 DEF SameReceiver
<1>4. RecvOK(s, a) /\ SendOK(p, a)
  BY <1>0, <1>1, <1>3 DEF RecvOK
<1>5. CASE Frame(p, a, {RIAck(p, m)})
  <2>1. s.localConn \in Nat /\ m.conn = s.localConn /\ a.localConn = s.localConn
    BY <1>0, <1>1, <1>2
  <2>2. m.conn <= a.localConn
    BY <2>1
  <2>3. OutOK(p, a, RIAck(p, m))
    BY <2>2, AcksFresh
  <2> QED BY <1>4, <1>5, <2>3, SendsFresh
<1>6. CASE CanDisconnectReceiver(a) /\ Frame(p, DisconnectReceiver(a), {})
  <2> DEFINE d == DisconnectReceiver(a)
  <2>1. RecvOK(a, d) /\ SameSender(a, d) /\ d.localConn = a.localConn + 1
    BY <1>1, <1>6, DisconnectedFresh, PiecesSame
  <2> HIDE DEF d
  <2>2. RecvOK(s, d) /\ SendOK(p, d)
    BY <1>0, <1>1, <2>1 DEF RecvOK, SameSender
  <2> QED BY <1>6, <2>2, SilentFresh DEF d
<1>7. CASE Frame(p, a, {})
  BY <1>4, <1>7, SilentFresh
<1> QED BY <1>2, <1>5, <1>6, <1>7

\* handleRIRsp preserves freshness: an RI-Rsp of the current connection only
\* reaches a receiver that has opened it.
LEMMA RIRspFresh ==
  ASSUME Fresh, Typed', NEW p \in Peers, NEW m \in net, m.to = p, HandleRIRsp(p, m)
  PROVE  Fresh'
<1> DEFINE s == peer[p]
           t == [s EXCEPT !.learned = ApplyTuples(@, m.nets),
                          !.rstate = IF m.last THEN "Connected" ELSE @,
                          !.backoff = IF m.last THEN FALSE ELSE @,
                          !.remoteSeq = Succ(@)]
<1>0. /\ s \in PeerState /\ s.localConn \in Nat \ {0} /\ Outstanding(s)
      /\ \A u : SameReceiver(s, u) => RecvOK(s, u)
      /\ \A u : SameSender(s, u) => SendOK(p, u)
  BY Here
<1>1. Frame(p, t, {RIAck(p, m)}) /\ m.type = "RIRsp" /\ m.conn = s.localConn
  BY DEF HandleRIRsp, Expected, LocalConnMatches, Frame
<1>2. Opened(s)
  BY <1>1, Incoming DEF FreshIn, ForReceiver
<1>3. t.localConn = s.localConn /\ SameSender(s, t)
      /\ t.rstate = IF m.last THEN "Connected" ELSE s.rstate
  BY <1>0 DEF PeerState, SameSender
<1> HIDE DEF t
<1>4. RecvOK(s, t) /\ SendOK(p, t)
  <2>1. Opened(t)
    BY <1>2, <1>3 DEF Opened
  <2>2. RecvOK(s, t)
    BY <1>0, <1>3, <2>1 DEF RecvOK
  <2> QED BY <1>0, <1>3, <2>2
<1>5. OutOK(p, t, RIAck(p, m))
  <2>1. s.localConn \in Nat /\ m.conn = s.localConn /\ t.localConn = s.localConn
    BY <1>0, <1>1, <1>3
  <2>2. m.conn <= t.localConn
    BY <2>1
  <2> QED BY <2>2, AcksFresh
<1> QED BY <1>1, <1>4, <1>5, SendsFresh

\* handleRIAck preserves freshness: the next chunk belongs to the connection of
\* the one it follows.
LEMMA RIAckFresh ==
  ASSUME Fresh, Typed', NEW p \in Peers, NEW m \in net, m.to = p, HandleRIAck(p, m)
  PROVE  Fresh'
<1> DEFINE s == peer[p]
           q == Other(p)
           a == [s EXCEPT !.retries = 0]
           i == IncLocalSeq(a)
           rsp == SendNextRIRsp(p, i)
           upd == SendNextRIUpd(p, i)
           done == [a EXCEPT !.sstate = "Connected", !.observing = TRUE]
           probed == [a EXCEPT !.restartProbe = FALSE, !.lastRISent = None,
                               !.sstate = "Connected"]
           quit == [a EXCEPT !.observing = FALSE]
<1>0. /\ s \in PeerState /\ s.localConn \in Nat \ {0} /\ Outstanding(s)
      /\ \A u : SameReceiver(s, u) => RecvOK(s, u)
      /\ \A u : SameSender(s, u) => SendOK(p, u)
  BY Here
<1>1. \/ Frame(p, s, {})
      \/ Frame(p, probed, {})
      \/ Frame(p, DisconnectSender(quit), {})
      \/ a.sstate = "WaitForRIRspAck" /\ Frame(p, rsp, {rsp.lastRISent})
      \/ Frame(p, upd, {upd.lastRISent})
      \/ Frame(p, OpenedBack(done), OpenBackPackets(p, done))
  BY DEF HandleRIAck, Frame
<1>2. /\ a \in PeerState /\ SameReceiver(s, a) /\ SameSender(s, a) /\ a.sstate = s.sstate
  BY <1>0, SimplePieces DEF PeerState, SameReceiver, SameSender
<1> HIDE DEF a
<1>3. /\ i \in PeerState /\ SameReceiver(a, i) /\ SameSender(a, i)
  BY <1>2, SimplePieces, PiecesSame
<1> HIDE DEF i
<1>4. SendOK(p, s) /\ SendOK(p, a)
  BY <1>0, <1>2 DEF SameSender
<1>5. i.remoteConn = s.remoteConn /\ i.remoteConn <= peer[q].localConn
  BY <1>2, <1>3, <1>4 DEF SameSender, SendOK
<1>6. CASE Frame(p, s, {})
  BY <1>0, <1>6, SilentFresh DEF SameReceiver, SameSender
<1>7. CASE Frame(p, probed, {})
  <2>1. /\ SameReceiver(a, probed) /\ probed.remoteConn = a.remoteConn
        /\ probed.lastRISent = None
    BY <1>2 DEF PeerState, SameReceiver
  <2>2. RecvOK(s, probed) /\ SendOK(p, probed)
    BY <1>0, <1>2, <1>4, <2>1 DEF SameReceiver, SendOK
  <2> QED BY <1>7, <2>2, SilentFresh
<1>8. CASE Frame(p, DisconnectSender(quit), {})
  <2>1. quit \in PeerState /\ SameReceiver(a, quit)
    <3>1. quit \in PeerState
      BY <1>2 DEF PeerState
    <3>2. SameReceiver(a, quit)
      BY <1>2 DEF PeerState, SameReceiver
    <3> QED BY <3>1, <3>2
  <2> HIDE DEF quit
  <2>2. SameReceiver(quit, DisconnectSender(quit)) /\ SendOK(p, DisconnectSender(quit))
    BY <2>1, PiecesSame, DisconnectedSenderFresh
  <2>3. RecvOK(s, DisconnectSender(quit))
    BY <1>0, <1>2, <2>1, <2>2 DEF SameReceiver
  <2> QED BY <1>8, <2>2, <2>3, SilentFresh
<1>9. CASE a.sstate = "WaitForRIRspAck" /\ Frame(p, rsp, {rsp.lastRISent})
  <2>1. /\ s.lastRISent # None /\ s.lastRISent.type = "RIRsp"
        /\ s.lastRISent.conn = s.remoteConn
    BY <1>0, <1>2, <1>9 DEF Outstanding, Waiting
  <2>2. i.remoteConn = peer[q].localConn => Opened(peer[q])
    BY <1>4, <1>5, <2>1 DEF SendOK, FreshIn
  <2>3. SameReceiver(i, rsp) /\ SendOK(p, rsp) /\ rsp.lastRISent # None
    BY <1>3, <1>5, <2>2, SendNextFresh
  <2>4. RecvOK(s, rsp)
    BY <1>0, <1>2, <1>3, <2>3 DEF SameReceiver
  <2> QED BY <1>9, <2>3, <2>4, LastFresh, SendsFresh
<1>10. CASE Frame(p, upd, {upd.lastRISent})
  <2>1. SameReceiver(i, upd) /\ SendOK(p, upd) /\ upd.lastRISent # None
    BY <1>3, <1>5, SendNextFresh
  <2>2. RecvOK(s, upd)
    BY <1>0, <1>2, <1>3, <2>1 DEF SameReceiver
  <2> QED BY <1>10, <2>1, <2>2, LastFresh, SendsFresh
<1>11. CASE Frame(p, OpenedBack(done), OpenBackPackets(p, done))
  <2>1. done \in PeerState /\ SameReceiver(a, done) /\ SameSender(a, done)
    BY <1>2, Names DEF PeerState, SameReceiver, SameSender
  <2> HIDE DEF done
  <2> DEFINE t == OpenedBack(done)
  <2>2. ~Opened(done) => done.learned = NoRoutes
    BY <1>2, <2>1 DEF Fresh, NoRoutesUnlessOpen, SameReceiver, Opened
  <2>3. /\ RecvOK(done, t) /\ SameSender(done, t)
        /\ \A x \in OpenBackPackets(p, done) : OutOK(p, t, x)
    BY <2>1, <2>2, OpenBackFresh
  <2> HIDE DEF t
  <2>4. RecvOK(s, t) /\ SendOK(p, t)
    BY <1>2, <1>4, <2>1, <2>3 DEF RecvOK, SameReceiver, SameSender, SendOK, Opened
  <2> QED BY <1>11, <2>3, <2>4, StepFresh DEF t
<1> QED BY <1>1, <1>6, <1>7, <1>8, <1>9, <1>10, <1>11

\* handleRIUpd preserves freshness.
LEMMA RIUpdFresh ==
  ASSUME Fresh, Typed', NEW p \in Peers, NEW m \in net, m.to = p, HandleRIUpd(p, m)
  PROVE  Fresh'
<1> DEFINE s == peer[p]
           a == Alive(s, m)
           riReq == Request("RIReq", p, a)
           asks == [a EXCEPT !.rstate = "WaitForRIRsp", !.remoteSeq = 1, !.retries = 0]
           early == [a EXCEPT !.remoteSeq = Succ(@), !.retries = 0]
           updated == [a EXCEPT !.learned = ApplyEvents(@, m.events),
                                !.remoteSeq = Succ(@)]
<1>0. /\ s \in PeerState /\ s.localConn \in Nat \ {0} /\ Outstanding(s)
      /\ \A u : SameReceiver(s, u) => RecvOK(s, u)
      /\ \A u : SameSender(s, u) => SendOK(p, u)
  BY Here
<1>1. /\ a \in PeerState /\ a.localConn = s.localConn /\ SameSender(s, a)
  BY <1>0, AliveType, AliveFresh
<1>2. /\ m.conn = s.localConn
      /\ \/ Frame(p, asks, {riReq})
         \/ a.rstate = "WaitForRIRsp" /\ Frame(p, early, {RIAck(p, m), riReq})
         \/ a.rstate = "Connected" /\ Frame(p, updated, {RIAck(p, m)})
  BY DEF HandleRIUpd, LocalConnMatches, Frame
<1> HIDE DEF a
<1>3. ASSUME NEW t, t.localConn = s.localConn, Opened(t), SameSender(a, t)
      PROVE  /\ RecvOK(s, t) /\ SendOK(p, t)
             /\ OutOK(p, t, riReq) /\ OutOK(p, t, RIAck(p, m))
  <2>1. RecvOK(s, t) /\ SendOK(p, t)
    BY <1>0, <1>1, <1>3 DEF RecvOK, SameSender
  <2>2. OutOK(p, t, riReq)
    BY <1>0, <1>1, <1>3, RequestsFresh
  <2>3. OutOK(p, t, RIAck(p, m))
    BY <1>0, <1>2, <1>3, AcksFresh
  <2> QED BY <2>1, <2>2, <2>3
<1> HIDE DEF riReq
<1>4. CASE Frame(p, asks, {riReq})
  <2>1. asks.localConn = s.localConn /\ Opened(asks) /\ SameSender(a, asks)
    BY <1>1 DEF PeerState, Opened, SameSender
  <2> HIDE DEF asks
  <2> QED BY <1>3, <1>4, <2>1, SendsFresh
<1>5. CASE a.rstate = "WaitForRIRsp" /\ Frame(p, early, {RIAck(p, m), riReq})
  <2>1. early.localConn = s.localConn /\ Opened(early) /\ SameSender(a, early)
    BY <1>1, <1>5 DEF PeerState, Opened, SameSender
  <2> HIDE DEF early
  <2>2. /\ RecvOK(s, early) /\ SendOK(p, early)
        /\ \A x \in {RIAck(p, m), riReq} : OutOK(p, early, x)
    BY <1>3, <2>1
  <2> QED BY <1>5, <2>2, StepFresh
<1>6. CASE a.rstate = "Connected" /\ Frame(p, updated, {RIAck(p, m)})
  <2>1. updated.localConn = s.localConn /\ Opened(updated) /\ SameSender(a, updated)
    BY <1>1, <1>6 DEF PeerState, Opened, SameSender
  <2> HIDE DEF updated
  <2> QED BY <1>3, <1>6, <2>1, SendsFresh
<1> QED BY <1>2, <1>4, <1>5, <1>6

\* handleRD, handleTickle and handleTickleAck preserve freshness.
LEMMA CloseHandlersFresh ==
  ASSUME NoWrap, Fresh, Typed', NEW p \in Peers, NEW m \in net, m.to = p,
         HandleRD(p, m) \/ HandleTickle(p, m) \/ HandleTickleAck(p, m)
  PROVE  Fresh'
<1> DEFINE s == peer[p]
<1>0. /\ s \in PeerState /\ s.localConn \in Nat \ {0} /\ Outstanding(s)
      /\ \A u : SameReceiver(s, u) => RecvOK(s, u)
      /\ \A u : SameSender(s, u) => SendOK(p, u)
  BY Here
<1>1. CASE HandleRD(p, m)
  <2> DEFINE quit == [s EXCEPT !.observing = FALSE]
             c == DisconnectSender(quit)
             d == DisconnectReceiver(s)
  <2>1. \/ Frame(p, c, {})
        \/ CanDisconnectReceiver(s) /\ m.conn = s.localConn /\ Frame(p, d, {RIAck(p, m)})
    BY <1>1 DEF HandleRD, Expected, LocalConnMatches, Frame
  <2>2. quit \in PeerState /\ SameReceiver(s, quit)
    BY <1>0 DEF PeerState, SameReceiver
  <2> HIDE DEF quit
  <2>3. SameReceiver(quit, c) /\ SendOK(p, c)
    BY <2>2, PiecesSame, DisconnectedSenderFresh
  <2>4. RecvOK(s, c)
    BY <1>0, <2>2, <2>3 DEF SameReceiver
  <2>5. CASE Frame(p, c, {})
    BY <2>3, <2>4, <2>5, SilentFresh
  <2>6. CASE CanDisconnectReceiver(s) /\ m.conn = s.localConn /\ Frame(p, d, {RIAck(p, m)})
    <3>1. RecvOK(s, d) /\ SameSender(s, d) /\ d.localConn = s.localConn + 1
      BY <1>0, <2>6, DisconnectedFresh, PiecesSame
    <3> HIDE DEF d
    <3>2. SendOK(p, d)
      BY <1>0, <3>1
    <3>3. m.conn <= d.localConn
      <4>1. s.localConn \in Nat /\ m.conn = s.localConn /\ d.localConn = s.localConn + 1
        BY <1>0, <2>6, <3>1
      <4> QED BY <4>1, NatFacts, Zenon
    <3>4. OutOK(p, d, RIAck(p, m))
      BY <3>3, AcksFresh
    <3> QED BY <2>6, <3>1, <3>2, <3>4, SendsFresh
  <2> QED BY <2>1, <2>5, <2>6
<1>2. CASE HandleTickle(p, m)
  <2>1. Frame(p, s, {TickleAck(p, s)})
    BY <1>2 DEF HandleTickle, Frame
  <2>2. RecvOK(s, s) /\ SendOK(p, s)
    BY <1>0 DEF SameReceiver, SameSender
  <2>3. OutOK(p, s, TickleAck(p, s))
    BY <2>2, AnswersFresh DEF SendOK
  <2> QED BY <2>1, <2>2, <2>3, SendsFresh
<1>3. CASE HandleTickleAck(p, m)
  <2> DEFINE t == [s EXCEPT !.rstate = "Connected", !.retries = 0]
  <2>1. Frame(p, s, {}) \/ Frame(p, t, {})
    BY <1>3 DEF HandleTickleAck, Frame
  <2>2. RecvOK(s, t) /\ SameSender(s, t)
    BY <1>0 DEF PeerState, RecvOK, Opened, SameSender
  <2> HIDE DEF t
  <2>3. SendOK(p, t) /\ RecvOK(s, s) /\ SendOK(p, s)
    BY <1>0, <2>2 DEF SameReceiver, SameSender
  <2> QED BY <2>1, <2>2, <2>3, SilentFresh
<1> QED BY <1>1, <1>2, <1>3

\* handlePacket preserves freshness.
LEMMA ReceiveFresh ==
  ASSUME NoWrap, Fresh, Typed', NEW p \in Peers, Receive(p)
  PROVE  Fresh'
BY OpenHandlersFresh, RIReqFresh, OutOfSequenceFresh, RIRspFresh, RIAckFresh, RIUpdFresh,
   CloseHandlersFresh DEF Receive, HandlePacket

\* Forward, shutdown, loop confirmation, send errors, restarts and route
\* changes preserve freshness.
LEMMA EndsFresh ==
  ASSUME NoWrap, Fresh, Typed', NEW p \in Peers,
         \/ ForwardTickle(p) \/ ForwardTickleStore(p) \/ Shutdown(p) \/ InputEnds(p)
         \/ ShutdownStep(p) \/ ShutdownFails(p) \/ ConfirmLoop(p) \/ SendFails(p) \/ Restart(p) \/ ChangeRoute(p)
  PROVE  Fresh'
<1> DEFINE s == peer[p]
<1>0. /\ s \in PeerState /\ s.localConn \in Nat \ {0} /\ Outstanding(s)
      /\ \A u : SameReceiver(s, u) => RecvOK(s, u)
      /\ \A u : SameSender(s, u) => SendOK(p, u)
  BY Here
<1>1. RecvOK(s, s) /\ SendOK(p, s)
  BY <1>0 DEF SameReceiver, SameSender
<1>2. ASSUME NEW t, peer' = [peer EXCEPT ![p] = t], net' = net, RecvOK(s, t), SendOK(p, t)
      PROVE  Fresh'
  <2>1. t \in PeerState
    BY <1>2 DEF Fresh, Typed, TypeOK
  <2>2. net' \subseteq net \cup {} /\ {} \in SUBSET Message /\ \A m \in {} : OutOK(p, t, m)
    BY <1>2
  <2> QED BY <1>2, <2>1, <2>2, MoveFresh
<1>3. CASE ForwardTickle(p)
  <2> DEFINE t == [s EXCEPT !.tickling = TRUE]
  <2>1. Frame(p, t, {Request("Tickle", p, s)})
    BY <1>3 DEF ForwardTickle, Quiet, Frame
  <2>2. SameReceiver(s, t) /\ SameSender(s, t)
    BY <1>0 DEF PeerState, SameReceiver, SameSender
  <2> HIDE DEF t
  <2>3. RecvOK(s, t) /\ SendOK(p, t) /\ OutOK(p, t, Request("Tickle", p, s))
    BY <1>0, <2>2, RequestsFresh DEF SameReceiver
  <2> QED BY <2>1, <2>3, SendsFresh
<1>4. CASE ForwardTickleStore(p)
  <2> DEFINE t == [s EXCEPT !.tickling = FALSE, !.retries = 0,
                            !.rstate = "WaitForTickleAck"]
  <2>1. Frame(p, t, {})
    BY <1>4 DEF ForwardTickleStore, Frame
  <2>2. RecvOK(s, t) /\ SameSender(s, t)
    BY <1>0 DEF PeerState, RecvOK, Opened, SameSender
  <2> HIDE DEF t
  <2> QED BY <1>0, <2>1, <2>2, SilentFresh
<1>5. CASE Shutdown(p)
  <2> DEFINE t == [s EXCEPT !.mode = "closing"]
  <2>1. SameReceiver(s, t) /\ SameSender(s, t)
    BY <1>0 DEF PeerState, SameReceiver, SameSender
  <2>2. peer' = [peer EXCEPT ![p] = t] /\ net' = net
    BY <1>5 DEF Shutdown
  <2> HIDE DEF t
  <2> QED BY <1>0, <1>2, <2>1, <2>2
<1>11. CASE InputEnds(p) \/ ShutdownFails(p)
  <2> DEFINE t == [s EXCEPT !.mode = "deaf"]
             u == [s EXCEPT !.mode = "stopped", !.observing = FALSE]
  <2>1. Frame(p, t, {}) \/ Frame(p, u, {})
    BY <1>11 DEF InputEnds, ShutdownFails, Frame
  <2>2. /\ SameReceiver(s, t) /\ SameSender(s, t)
        /\ SameReceiver(s, u) /\ SameSender(s, u)
    BY <1>0 DEF PeerState, SameReceiver, SameSender
  <2> HIDE DEF t, u
  <2> QED BY <1>0, <2>1, <2>2, SilentFresh
<1>6. CASE ShutdownStep(p)
  <2> DEFINE r == IncLocalSeq([s EXCEPT !.retries = 0])
             pkt == SenderRD(p, r)
             t == [r EXCEPT !.lastRISent = pkt, !.sstate = "WaitForRDAck", !.tickled = FALSE]
             u == [s EXCEPT !.mode = "stopped", !.observing = FALSE]
  <2>1. Frame(p, t, {t.lastRISent}) \/ Frame(p, u, {})
    BY <1>6 DEF ShutdownStep, Frame, Sent
  <2>2. SameReceiver(s, u) /\ SameSender(s, u)
    BY <1>0 DEF PeerState, SameReceiver, SameSender
  <2>3. r \in PeerState /\ SameReceiver(s, r) /\ SameSender(s, r)
    <3>1. [s EXCEPT !.retries = 0] \in PeerState
      BY <1>0, SimplePieces
    <3>2. r \in PeerState
      BY <3>1, SimplePieces
    <3>3. SameReceiver(s, r) /\ SameSender(s, r)
      BY <1>0 DEF PeerState, SameReceiver, SameSender, IncLocalSeq
    <3> QED BY <3>2, <3>3
  <2> HIDE DEF r, u
  <2>4. OutOK(p, t, pkt) /\ ForReceiver(pkt) /\ pkt \in Message
    <3>1. r.remoteConn <= peer[Other(p)].localConn /\ r.localSeq \in ID
      BY <1>1, <2>3 DEF SendOK, SameSender, PeerState
    <3>2. ForReceiver(pkt)
      <4>1. pkt.type = "RD" /\ pkt.seq = r.localSeq
        BY DEF SenderRD
      <4>2. r.localSeq # 0
        BY <3>1, MaxIDAssumption DEF ID
      <4> HIDE DEF pkt
      <4> QED BY <4>1, <4>2 DEF ForReceiver
    <3> QED BY <2>3, <3>1, <3>2, AnswersFresh, RequestTypes
  <2> HIDE DEF pkt
  <2>5. SameReceiver(r, t) /\ t.remoteConn = r.remoteConn /\ t.lastRISent = pkt
    BY <2>3, <2>4 DEF PeerState, SameReceiver
  <2> HIDE DEF t
  <2>6. RecvOK(s, t) /\ SendOK(p, t)
    BY <1>0, <1>1, <2>3, <2>4, <2>5 DEF SendOK, OutOK, SameReceiver, SameSender
  <2> QED BY <1>0, <2>1, <2>2, <2>4, <2>5, <2>6, SendsFresh, SilentFresh
<1>7. CASE ConfirmLoop(p)
  <2> DEFINE r == IF s.sstate = "Unconnected" THEN s ELSE IncLocalSeq(s)
             d == DisconnectReceiver(r)
             c == DisconnectSender(d)
             t == [c EXCEPT !.mode = "idle", !.loopDisabled = TRUE, !.observing = FALSE]
             out == IF r.sstate = "Unconnected" THEN {} ELSE {SenderRD(p, r)}
  <2>1. CanDisconnectReceiver(r) /\ peer' = [peer EXCEPT ![p] = t] /\ net' = net \cup out
    BY <1>7 DEF ConfirmLoop
  <2>2. r \in PeerState /\ SameReceiver(s, r) /\ SameSender(s, r)
    BY <1>0, SimplePieces, PiecesSame DEF SameReceiver, SameSender
  <2> HIDE DEF r
  <2>3. d \in PeerState /\ d.localConn = r.localConn + 1 /\ d.learned = NoRoutes
    BY <2>1, <2>2, DisconnectReceiverType, DisconnectedFresh
  <2> HIDE DEF d
  <2>4. c \in PeerState /\ SameReceiver(d, c) /\ SendOK(p, c)
    BY <2>3, DisconnectSenderType, PiecesSame, DisconnectedSenderFresh
  <2> HIDE DEF c
  <2>5. t \in PeerState /\ SameReceiver(c, t) /\ SameSender(c, t)
    BY <2>4, Names DEF PeerState, SameReceiver, SameSender
  <2> HIDE DEF t
  <2>6. RecvOK(s, t) /\ SendOK(p, t)
    <3>1. t.localConn = s.localConn + 1 /\ t.learned = NoRoutes
      BY <2>2, <2>3, <2>4, <2>5 DEF SameReceiver
    <3>2. RecvOK(s, t)
      <4>1. s.localConn \in Nat
        BY <1>0
      <4> HIDE DEF s
      <4> QED BY <3>1, <4>1 DEF RecvOK
    <3>3. SendOK(p, t)
      BY <2>4, <2>5 DEF SendOK, SameSender
    <3> QED BY <3>2, <3>3
  <2>7. SenderRD(p, r) \in Message /\ OutOK(p, t, SenderRD(p, r))
    BY <1>1, <2>2, RequestTypes, AnswersFresh DEF SendOK, SameSender, PeerState
  <2>8. out \in SUBSET Message /\ \A m \in out : OutOK(p, t, m)
    BY <2>7
  <2> QED BY <2>1, <2>5, <2>6, <2>8, MoveFresh
<1>8. CASE SendFails(p)
  <2>1. PICK r \in RState, l \in [Networks -> LearnedVal], out \in SUBSET Message :
          Interruption(p, r, l, out)
    BY <1>8, SendFailsInterrupts DEF Fresh
  <2> DEFINE t == Interrupted(s, r, l)
  <2>2. /\ t.localConn = s.localConn /\ t.rstate = r /\ t.learned = l
        /\ SameSender(s, t)
    BY <1>0 DEF PeerState, Interrupted, SameSender
  <2>3. peer' = [peer EXCEPT ![p] = t] /\ net' \subseteq net \cup out
    BY <2>1 DEF Interruption, Moves
  <2>4. t \in PeerState
    BY <2>3 DEF Fresh, Typed, TypeOK
  <2> HIDE DEF t
  <2>5. RecvOK(s, t)
    <3>1. CASE r = s.rstate /\ l = s.learned
      BY <1>0, <2>2, <3>1 DEF SameReceiver
    <3>2. ASSUME Opened(t) PROVE RecvOK(s, t)
      <4>1. s.localConn <= t.localConn
        BY <1>0, <2>2, NatFacts, Zenon
      <4> QED BY <3>2, <4>1, Zenon DEF RecvOK
    <3>3. CASE r = "Connected"
      BY <2>2, <3>2, <3>3 DEF Opened
    <3>4. ASSUME NEW m \in net, r = s.rstate, m.to = p, m.type = "RIRsp", m.conn = s.localConn
          PROVE  RecvOK(s, t)
      <4>1. Opened(s)
        BY <3>4, Incoming DEF FreshIn, ForReceiver
      <4> QED BY <2>2, <3>2, <3>4, <4>1 DEF Opened
    <3> QED BY <2>1, <3>1, <3>3, <3>4 DEF Interruption
  <2>6. ASSUME NEW x \in out
        PROVE  OutOK(p, t, x)
    <3>1. PICK m \in net : /\ m.to = p /\ m.type = "OpenReq" /\ m.ok \in BOOLEAN
                           /\ x = OpenRsp(p, [s EXCEPT !.remoteConn = m.conn], m.ok)
      BY <2>1, <2>6 DEF Interruption
    <3> DEFINE o == [s EXCEPT !.remoteConn = m.conn]
    <3>2. m.conn <= peer[Other(p)].localConn
      BY <3>1, Incoming DEF FreshIn, ForReceiver
    <3>3. o.remoteConn <= peer[Other(p)].localConn
      BY <1>0, <3>2 DEF PeerState
    <3> HIDE DEF o
    <3>4. OutOK(p, t, OpenRsp(p, o, m.ok))
      BY <3>1, <3>3, AnswersFresh
    <3> QED BY <3>1, <3>4 DEF o
  <2>7. SendOK(p, t)
    BY <1>0, <2>2
  <2> QED BY <2>3, <2>4, <2>5, <2>6, <2>7, MoveFresh
<1>9. CASE Restart(p)
  <2> DEFINE t == NewPeer(IncConn(s.localConn))
  <2>1. peer' = [peer EXCEPT ![p] = t] /\ net' = net /\ CanDisconnectReceiver(s)
    BY <1>9 DEF Restart
  <2>2. IncConn(s.localConn) = s.localConn + 1
    BY <1>0, <2>1, PeerAssumption DEF IncConn, CanDisconnectReceiver, NoWrap
  <2>3. RecvOK(s, t)
    <3>1. t.localConn = IncConn(s.localConn) /\ t.learned = NoRoutes
      BY DEF NewPeer
    <3>2. s.localConn \in Nat
      BY <1>0
    <3> HIDE DEF t, s
    <3> QED BY <2>2, <3>1, <3>2 DEF RecvOK
  <2>4. peer[Other(p)].localConn \in Nat
    BY OtherType, Here
  <2>5. SendOK(p, t)
    <3>1. t.remoteConn = 0 /\ t.lastRISent = None
      BY DEF NewPeer
    <3>2. 0 <= peer[Other(p)].localConn
      BY <2>4, NatFacts, Zenon
    <3> HIDE DEF t, s
    <3>3. t.remoteConn <= peer[Other(p)].localConn
      BY <3>1, <3>2
    <3> QED BY <3>1, <3>3 DEF SendOK
  <2> QED BY <1>2, <2>1, <2>3, <2>5
<1>10. CASE ChangeRoute(p)
  <2>1. PICK n \in Networks, new \in RouteVal :
          /\ peer' = [peer EXCEPT ![p] = Queued(s, n, exported[p][n], new)]
          /\ net' = net
    BY <1>10 DEF ChangeRoute
  <2> DEFINE t == Queued(s, n, exported[p][n], new)
  <2>2. SameReceiver(s, t) /\ SameSender(s, t)
    BY <1>0 DEF PeerState, SameReceiver, SameSender, Queued
  <2> HIDE DEF t
  <2> QED BY <1>0, <1>2, <2>1, <2>2 DEF t
<1> QED BY <1>3, <1>4, <1>5, <1>6, <1>7, <1>8, <1>9, <1>10, <1>11

\* The network's own steps preserve freshness.
LEMMA NetworkFresh ==
  ASSUME Fresh, Typed', Lose \/ Unheard \/ \E p \in Peers : ReceiverRD(p)
  PROVE  Fresh'
<1>1. peer' = peer
  BY DEF Lose, Unheard, ReceiverRD
<1>2. ASSUME NEW m \in net', m \notin net
      PROVE  FreshFor(m)
  <2>1. PICK p \in Peers : ReceiverRD(p)
    BY <1>2 DEF Lose, Unheard
  <2>2. PICK c \in 1..peer[p].localConn :
          net' = net \cup {[type |-> "RD", to |-> Other(p), conn |-> c, seq |-> 0]}
    BY <2>1 DEF ReceiverRD
  <2>3. m = [type |-> "RD", to |-> Other(p), conn |-> c, seq |-> 0]
    BY <1>2, <2>2
  <2>4. Owner(m) = p
    BY <2>3, OtherType DEF Owner, ForReceiver
  <2>5. peer[p].localConn \in Nat
    BY Here
  <2>6. m.type = "RD" /\ m.conn = c
    BY <2>3
  <2>7. c <= peer[p].localConn
    BY <2>5
  <2> QED BY <2>4, <2>6, <2>7 DEF FreshFor, FreshIn
<1>3. FreshConnections'
  BY <1>1, <1>2 DEF Fresh, FreshConnections, FreshFor, FreshIn, Opened
<1>4. NoRoutesUnlessOpen'
  BY <1>1 DEF Fresh, NoRoutesUnlessOpen
<1> QED BY <1>3, <1>4 DEF Fresh

\* The initial state satisfies the invariant.
LEMMA InitFresh ==
  ASSUME Init PROVE Fresh
<1>1. \A p \in Peers : peer[p] = NewPeer(1) /\ peer[Other(p)] = NewPeer(1)
  BY OtherType DEF Init
<1>2. /\ NewPeer(1).localConn = 1 /\ NewPeer(1).remoteConn = 0
      /\ NewPeer(1).lastRISent = None /\ NewPeer(1).learned = NoRoutes
  BY DEF NewPeer
<1>3. FreshConnections
  BY <1>1, <1>2 DEF FreshConnections, Init
<1>4. NoRoutesUnlessOpen
  BY <1>1, <1>2 DEF NoRoutesUnlessOpen
<1> QED BY <1>3, <1>4, InitTyped DEF Fresh

\* Every step preserves the invariant while connection IDs do not repeat.
LEMMA NextFresh ==
  ASSUME NoWrap, Fresh, [Next]_vars
  PROVE  Fresh'
<1>0. Typed'
  BY NextTyped DEF Fresh
<1>1. ASSUME NEW p \in Peers, System(p)
      PROVE  Fresh'
  BY <1>0, <1>1, RTimersFresh, STimersFresh, ReceiveFresh, EndsFresh DEF System
<1>2. ASSUME NEW p \in Peers, Environment(p)
      PROVE  Fresh'
  BY <1>0, <1>2, EndsFresh, NetworkFresh DEF Environment
<1>3. CASE UNCHANGED vars
  <2>1. peer' = peer /\ net' = net
    BY <1>3 DEF vars
  <2> QED BY <1>0, <2>1 DEF Fresh, FreshConnections, FreshFor, FreshIn, Opened,
                            NoRoutesUnlessOpen
<1> QED BY <1>0, <1>1, <1>2, <1>3, NetworkFresh DEF Next

\* The inductive invariant behind the next two theorems.  Types and the
\* outstanding packet are part of it: the RI-Rsp chunk that follows an
\* acknowledgement is fresh because the packet it follows was.
THEOREM AlwaysFresh == Spec => [](NoWrap => Fresh)
<1>1. Init => (NoWrap => Fresh)
  BY InitFresh
<1>2. (NoWrap => Fresh) /\ [Next]_vars => (NoWrap => Fresh)'
  BY NextFresh DEF NoWrap
<1> QED BY <1>1, <1>2, PTL DEF Spec

\* As long as connection IDs are not used again (the code draws them from
\* 65535 numbers), IncLocalConnID on every disconnect keeps the connections
\* apart: no RI-Req and no RI-Rsp exists of a connection that is not open yet.
THEOREM ConnectionsStayApart == Spec => [](NoWrap => FreshConnections)
<1>1. (NoWrap => Fresh) => (NoWrap => FreshConnections)
  BY DEF Fresh
<1> QED BY <1>1, AlwaysFresh, PTL

\* Under the same assumption a receiver without an open connection holds none
\* of the peer's routes: disconnectReceiver's DeleteTarget is never undone by a
\* packet of an earlier connection.
THEOREM NoRouteOfAClosedConnection == Spec => [](NoWrap => NoRoutesUnlessOpen)
<1>1. (NoWrap => Fresh) => (NoWrap => NoRoutesUnlessOpen)
  BY DEF Fresh
<1> QED BY <1>1, AlwaysFresh, PTL
=============================================================================
