-------------------------- MODULE AURPPeer_proofs --------------------------
(***************************************************************************)
(* Proofs about the AURP peer for every set of networks, every retry       *)
(* limit, chunk size and budget of environment steps: the types, and the   *)
(* packet an outstanding transaction repeats.  First what each piece of    *)
(* the handlers does to the types, then one step per action.               *)
(***************************************************************************)
EXTENDS AURPPeer, TLAPS

\* Sequence.Succ stays within the sequence numbers; zero is never reached.
LEMMA SuccType ==
  ASSUME NEW n \in ID PROVE Succ(n) \in ID
BY MaxIDAssumption DEF ID, Succ

\* The sequence number every connection starts with.
LEMMA OneIsID == 1 \in ID
BY MaxIDAssumption DEF ID

\* The three cases checkRemoteSeq tells apart are different numbers: the
\* previous, the expected and the next one.
LEMMA SeqNeighbours ==
  ASSUME NEW n \in ID
  PROVE  /\ Pred(n) \in ID /\ Succ(Pred(n)) = n /\ Pred(Succ(n)) = n
         /\ Pred(n) # n /\ Succ(n) # n /\ Pred(n) # Succ(n)
BY MaxIDAssumption DEF ID, Succ, Pred

\* disconnectReceiver keeps the types and leaves the sender role alone.
LEMMA DisconnectReceiverType ==
  ASSUME NEW s \in PeerState, CanDisconnectReceiver(s)
  PROVE  /\ DisconnectReceiver(s) \in PeerState
         /\ Outstanding(s) => Outstanding(DisconnectReceiver(s))
<1>1. IncConn(s.localConn) \in Conn \ {0}
  BY PeerAssumption DEF PeerState, Conn, IncConn
<1>2. NoRoutes \in [Networks -> LearnedVal]
  BY DEF NoRoutes, LearnedVal
<1>3. DisconnectReceiver(s) \in PeerState
  BY <1>1, <1>2, OneIsID DEF PeerState, DisconnectReceiver, RState
<1> QED BY <1>3 DEF PeerState, DisconnectReceiver, Outstanding, Waiting

\* The empty tuple list is a tuple list.
LEMMA NoTuplesType == NoTuples \in NetTuples /\ NoTuples \in EventTuples
<1>1. NoTuples \in [{} -> Dists] /\ NoTuples \in [{} -> Event]
  BY DEF NoTuples
<1>2. {} \in SUBSET Networks
  OBVIOUS
<1> QED BY <1>1, <1>2 DEF NetTuples, EventTuples, Partial

\* disconnectSender keeps the types and leaves nothing outstanding.
LEMMA DisconnectSenderType ==
  ASSUME NEW s \in PeerState
  PROVE  /\ DisconnectSender(s) \in PeerState
         /\ Outstanding(DisconnectSender(s))
<1>1. NoTuples \in NetTuples /\ NoTuples \in EventTuples
  BY NoTuplesType
<1>2. [n \in Networks |-> None] \in [Networks -> Change \cup {None}]
  OBVIOUS
<1>3. 0 \in Conn
  BY PeerAssumption DEF Conn
<1>4. DisconnectSender(s) \in PeerState
  BY <1>1, <1>2, <1>3, OneIsID DEF PeerState, DisconnectSender, SState
<1> QED BY <1>4 DEF PeerState, DisconnectSender, Outstanding, Waiting

\* There are exactly two routers.
LEMMA OtherType ==
  ASSUME NEW p \in Peers
  PROVE  /\ Other(p) \in Peers /\ Other(p) # p /\ Other(Other(p)) = p
         /\ \A q \in Peers : q = p \/ q = Other(p)
BY PeerAssumption DEF Other

-----------------------------------------------------------------------------
\* The packet constructors and the pieces of the handlers keep the types.

\* Every packet constructor of aurp/transport.go builds a datagram.
LEMMA RequestTypes ==
  ASSUME NEW p \in Peers, NEW s \in PeerState
  PROVE  /\ OpenReq(p, s) \in Message
         /\ \A ok \in BOOLEAN : OpenRsp(p, s, ok) \in Message
         /\ \A type \in {"RIReq", "Tickle"} : Request(type, p, s) \in Message
         /\ TickleAck(p, s) \in Message
         /\ SenderRD(p, s) \in Message
         /\ \A nets \in NetTuples, last \in BOOLEAN : RIRsp(p, s, nets, last) \in Message
         /\ \A events \in EventTuples : RIUpd(p, s, events) \in Message
<1>1. Other(p) \in Peers /\ s.localConn \in Conn /\ s.remoteConn \in Conn /\ s.localSeq \in ID
  BY OtherType DEF PeerState
<1>2. OpenReq(p, s) \in Message
  BY <1>1 DEF OpenReq, Message
<1>3. \A ok \in BOOLEAN : OpenRsp(p, s, ok) \in Message
  BY <1>1 DEF OpenRsp, Message
<1>4. \A type \in {"RIReq", "Tickle"} : Request(type, p, s) \in Message
  BY <1>1 DEF Request, Message
<1>5. TickleAck(p, s) \in Message
  BY <1>1 DEF TickleAck, Message
<1>6. SenderRD(p, s) \in Message
  BY <1>1 DEF SenderRD, Message
<1>7. \A nets \in NetTuples, last \in BOOLEAN : RIRsp(p, s, nets, last) \in Message
  BY <1>1 DEF RIRsp, Message
<1>8. \A events \in EventTuples : RIUpd(p, s, events) \in Message
  BY <1>1 DEF RIUpd, Message
<1> QED BY <1>2, <1>3, <1>4, <1>5, <1>6, <1>7, <1>8

\* The fields the handlers read from a datagram of each type.
LEMMA MessageFields ==
  ASSUME NEW m \in Message
  PROVE  /\ m.to \in Peers /\ m.conn \in Conn /\ m.seq \in ID \cup {0}
         /\ m.type = "OpenReq" => m.ok \in BOOLEAN
         /\ m.type = "RIRsp" => m.nets \in NetTuples /\ m.last \in BOOLEAN /\ m.seq \in ID
         /\ m.type = "RIUpd" => m.events \in EventTuples /\ m.seq \in ID
BY DEF Message

\* The acknowledgement of a datagram is a datagram.
LEMMA RIAckType ==
  ASSUME NEW p \in Peers, NEW m \in Message
  PROVE  RIAck(p, m) \in Message
BY OtherType, MessageFields DEF RIAck, Message

\* Splitting what is left to send (chunkAURPNetworkTuples) yields tuple lists.
LEMMA ChunkType ==
  ASSUME NEW T, NEW f \in Partial(T), NEW g
  PROVE  FirstChunk(f) \in Partial(T) /\ Without(f, g) \in Partial(T)
<1>1. PICK S \in SUBSET Networks : f \in [S -> T]
  BY DEF Partial
<1>2. FirstChunk(f) \in Partial(T)
  <2> DEFINE D == {n \in DOMAIN f : Cardinality({k \in DOMAIN f : k < n}) < ChunkSize}
  <2>1. D \in SUBSET Networks /\ D \subseteq S
    BY <1>1
  <2>2. [n \in D |-> f[n]] \in [D -> T]
    BY <1>1, <2>1
  <2> HIDE DEF D
  <2>3. [n \in D |-> f[n]] \in Partial(T)
    BY <2>1, <2>2 DEF Partial
  <2> QED BY <2>3 DEF FirstChunk, D
<1>3. Without(f, g) \in Partial(T)
  <2> DEFINE D == DOMAIN f \ DOMAIN g
  <2>1. D \in SUBSET Networks /\ D \subseteq S
    BY <1>1
  <2>2. [n \in D |-> f[n]] \in [D -> T]
    BY <1>1, <2>1
  <2> HIDE DEF D
  <2>3. [n \in D |-> f[n]] \in Partial(T)
    BY <2>1, <2>2 DEF Partial
  <2> QED BY <2>3 DEF Without, D
<1> QED BY <1>2, <1>3

\* The state names and the reset retry counter have their types.
LEMMA Names ==
  /\ "Unconnected" \in RState /\ "Connected" \in RState /\ "WaitForOpenRsp" \in RState
  /\ "WaitForRIRsp" \in RState /\ "WaitForTickleAck" \in RState
  /\ "Unconnected" \in SState /\ "Connected" \in SState /\ "WaitForRIRspAck" \in SState
  /\ "WaitForRIUpdAck" \in SState /\ "WaitForRDAck" \in SState
  /\ "idle" \in Mode /\ "run" \in Mode /\ "closing" \in Mode /\ "deaf" \in Mode
  /\ "stopped" \in Mode
  /\ 0 \in 0..RetryCap
BY PeerAssumption DEF RState, SState, Mode, RetryCap

\* The updates of handleRIRsp and of handleOpenReq keep the types.
LEMMA InstallType ==
  ASSUME NEW s \in PeerState, NEW l \in [Networks -> LearnedVal], NEW r \in RState,
         NEW b \in BOOLEAN, NEW q \in ID
  PROVE  [s EXCEPT !.learned = l, !.rstate = r, !.backoff = b, !.remoteSeq = q] \in PeerState
BY DEF PeerState

\* The assignments of an accepted Open-Req keep the type of the peer.
LEMMA OpenType ==
  ASSUME NEW s \in PeerState, NEW c \in Conn, NEW r \in SState, NEW b \in BOOLEAN
  PROVE  [s EXCEPT !.remoteConn = c, !.sstate = r, !.observing = b] \in PeerState
BY DEF PeerState

\* The small state updates of the handlers keep the types.
LEMMA SimplePieces ==
  ASSUME NEW s \in PeerState
  PROVE  /\ Retried(s) \in PeerState
         /\ Opening(s) \in PeerState
         /\ OpenedBack(s) \in PeerState
         /\ IncLocalSeq(s) \in PeerState
         /\ [s EXCEPT !.retries = 0] \in PeerState
         /\ \A b \in BOOLEAN : [s EXCEPT !.observing = b] \in PeerState
<1>1. RetryCap \in Nat /\ RetryCap > 0
  BY PeerAssumption DEF RetryCap
<1>2. Retried(s) \in PeerState
  BY <1>1 DEF PeerState, Retried
<1>3. Opening(s) \in PeerState
  BY Names DEF PeerState, Opening
<1>4. OpenedBack(s) \in PeerState
  BY <1>3 DEF OpenedBack
<1>5. IncLocalSeq(s) \in PeerState
  <2>1. Succ(s.localSeq) \in ID
    BY SuccType DEF PeerState
  <2> QED BY <2>1 DEF PeerState, IncLocalSeq
<1>6. [s EXCEPT !.retries = 0] \in PeerState
  BY <1>1 DEF PeerState
<1>7. \A b \in BOOLEAN : [s EXCEPT !.observing = b] \in PeerState
  BY DEF PeerState
<1> QED BY <1>2, <1>3, <1>4, <1>5, <1>6, <1>7

\* sendNextRIRsp and sendNextRIUpd keep the types and leave the packet they
\* sent outstanding.
LEMMA SendNextTypes ==
  ASSUME NEW p \in Peers, NEW s \in PeerState
  PROVE  /\ SendNextRIRsp(p, s) \in PeerState
         /\ SendNextRIRsp(p, s).lastRISent \in Message
         /\ (~s.restartProbe) => Outstanding(SendNextRIRsp(p, s))
         /\ SendNextRIUpd(p, s) \in PeerState
         /\ SendNextRIUpd(p, s).lastRISent \in Message
         /\ Outstanding(SendNextRIUpd(p, s))
<1> DEFINE c == FirstChunk(s.pendingRIRsp)
           r == Without(s.pendingRIRsp, c)
           pkt == RIRsp(p, s, c, DOMAIN r = {})
           cu == FirstChunk(s.pendingRIUpd)
           ru == Without(s.pendingRIUpd, cu)
           upd == RIUpd(p, s, cu)
<1>1. c \in NetTuples /\ r \in NetTuples
  <2>1. s.pendingRIRsp \in Partial(Dists)
    BY DEF PeerState, NetTuples
  <2> QED BY <2>1, ChunkType DEF NetTuples
<1>2. cu \in EventTuples /\ ru \in EventTuples
  <2>1. s.pendingRIUpd \in Partial(Event)
    BY DEF PeerState, EventTuples
  <2> QED BY <2>1, ChunkType DEF EventTuples
<1> HIDE DEF c, r, cu, ru
<1>3. pkt \in Message /\ upd \in Message
  <2>1. (DOMAIN r = {}) \in BOOLEAN
    OBVIOUS
  <2> QED BY <1>1, <1>2, <2>1, RequestTypes
<1>4. /\ pkt.seq = s.localSeq /\ pkt.conn = s.remoteConn /\ pkt.type = "RIRsp"
      /\ upd.seq = s.localSeq /\ upd.conn = s.remoteConn /\ upd.type = "RIUpd"
  BY DEF RIRsp, RIUpd
<1> HIDE DEF pkt, upd
<1>5. SendNextRIRsp(p, s) =
        [[s EXCEPT !.lastRISent = pkt, !.sstate = "WaitForRIRspAck", !.tickled = FALSE]
           EXCEPT !.pendingRIRsp = r]
  BY DEF SendNextRIRsp, Sent, c, r, pkt
<1>6. SendNextRIUpd(p, s) =
        [[s EXCEPT !.lastRISent = upd, !.sstate = "WaitForRIUpdAck", !.tickled = FALSE]
           EXCEPT !.pendingRIUpd = ru]
  BY DEF SendNextRIUpd, Sent, cu, ru, upd
<1>7. SendNextRIRsp(p, s) \in PeerState /\ SendNextRIUpd(p, s) \in PeerState
  <2>1. /\ pkt \in Message \cup {None} /\ upd \in Message \cup {None}
        /\ {"WaitForRIRspAck", "WaitForRIUpdAck"} \subseteq SState
    BY <1>3 DEF SState
  <2> DEFINE x == [s EXCEPT !.lastRISent = pkt, !.sstate = "WaitForRIRspAck", !.tickled = FALSE]
             y == [s EXCEPT !.lastRISent = upd, !.sstate = "WaitForRIUpdAck", !.tickled = FALSE]
  <2>2. x \in PeerState
    BY <2>1 DEF PeerState
  <2>3. y \in PeerState
    BY <2>1 DEF PeerState
  <2> HIDE DEF x, y
  <2>4. [x EXCEPT !.pendingRIRsp = r] \in PeerState
    BY <1>1, <2>2 DEF PeerState
  <2>5. [y EXCEPT !.pendingRIUpd = ru] \in PeerState
    BY <1>2, <2>3 DEF PeerState
  <2> QED BY <1>5, <1>6, <2>4, <2>5 DEF x, y
<1>8. /\ SendNextRIRsp(p, s).lastRISent = pkt
      /\ SendNextRIRsp(p, s).sstate = "WaitForRIRspAck"
      /\ SendNextRIRsp(p, s).localSeq = s.localSeq
      /\ SendNextRIRsp(p, s).remoteConn = s.remoteConn
      /\ SendNextRIRsp(p, s).restartProbe = s.restartProbe
  BY <1>5 DEF PeerState
<1>9. /\ SendNextRIUpd(p, s).lastRISent = upd
      /\ SendNextRIUpd(p, s).sstate = "WaitForRIUpdAck"
      /\ SendNextRIUpd(p, s).localSeq = s.localSeq
      /\ SendNextRIUpd(p, s).remoteConn = s.remoteConn
  BY <1>6 DEF PeerState
<1> QED BY <1>3, <1>4, <1>7, <1>8, <1>9, NoneAssumption DEF Outstanding, Waiting

\* A Null RI-Upd, probe or restart probe, is left outstanding the same way.
LEMMA SendNullType ==
  ASSUME NEW p \in Peers, NEW s \in PeerState
  PROVE  /\ SendNullRIUpd(p, s) \in PeerState
         /\ SendNullRIUpd(p, s).lastRISent \in Message
         /\ Outstanding(SendNullRIUpd(p, s))
         /\ Outstanding([SendNullRIUpd(p, s) EXCEPT !.restartProbe = TRUE])
         /\ [SendNullRIUpd(p, s) EXCEPT !.restartProbe = TRUE] \in PeerState
<1> DEFINE t == IncLocalSeq(s)
           pkt == RIUpd(p, t, NoTuples)
<1>1. t \in PeerState
  BY SimplePieces
<1>2. NoTuples \in EventTuples
  BY NoTuplesType
<1> HIDE DEF t
<1>3. pkt \in Message
  BY <1>1, <1>2, RequestTypes
<1>4. pkt.seq = t.localSeq /\ pkt.conn = t.remoteConn /\ pkt.type = "RIUpd"
  BY DEF RIUpd
<1> HIDE DEF pkt
<1>5. SendNullRIUpd(p, s) =
        [t EXCEPT !.lastRISent = pkt, !.sstate = "WaitForRIUpdAck", !.tickled = FALSE]
  BY DEF SendNullRIUpd, Sent, t, pkt
<1>6. /\ SendNullRIUpd(p, s) \in PeerState
      /\ SendNullRIUpd(p, s).lastRISent = pkt
      /\ SendNullRIUpd(p, s).sstate = "WaitForRIUpdAck"
      /\ SendNullRIUpd(p, s).localSeq = t.localSeq
      /\ SendNullRIUpd(p, s).remoteConn = t.remoteConn
  BY <1>1, <1>3, <1>5 DEF PeerState, SState
<1> DEFINE u == SendNullRIUpd(p, s)
<1> HIDE DEF u
<1>7. Outstanding(u)
  BY <1>3, <1>4, <1>6, NoneAssumption DEF Outstanding, Waiting, u
<1>8. [u EXCEPT !.restartProbe = TRUE] \in PeerState /\ Outstanding([u EXCEPT !.restartProbe = TRUE])
  BY <1>3, <1>4, <1>6, NoneAssumption DEF Outstanding, Waiting, u, PeerState
<1> QED BY <1>3, <1>6, <1>7, <1>8 DEF u

\* Applying RI-Rsp tuples and RI-Upd events only installs weighted distances.
LEMMA ApplyTypes ==
  ASSUME NEW learned \in [Networks -> LearnedVal]
  PROVE  /\ \A nets \in NetTuples : ApplyTuples(learned, nets) \in [Networks -> LearnedVal]
         /\ \A events \in EventTuples : ApplyEvents(learned, events) \in [Networks -> LearnedVal]
<1>1. ASSUME NEW nets \in NetTuples
      PROVE  ApplyTuples(learned, nets) \in [Networks -> LearnedVal]
  <2>1. \A n \in DOMAIN nets : nets[n] \in Dists
    BY DEF NetTuples, Partial
  <2> QED BY <2>1 DEF ApplyTuples, LearnedVal
<1>2. ASSUME NEW events \in EventTuples
      PROVE  ApplyEvents(learned, events) \in [Networks -> LearnedVal]
  <2>1. \A n \in DOMAIN events : events[n] \in Event
    BY DEF EventTuples, Partial
  <2>2. ASSUME NEW e \in Event, NEW old \in LearnedVal
        PROVE  ApplyEvent(old, e) \in LearnedVal
    <3>1. e.code # "ND" => e.dist \in Dists
      BY DEF Event
    <3> QED BY <3>1 DEF ApplyEvent, LearnedVal
  <2>3. \A n \in Networks : (IF n \in DOMAIN events THEN ApplyEvent(learned[n], events[n])
                            ELSE learned[n]) \in LearnedVal
    BY <2>1, <2>2
  <2> QED BY <2>3 DEF ApplyEvents
<1> QED BY <1>1, <1>2

\* aurpEventForBestTransition yields an event tuple.
LEMMA EventForType ==
  ASSUME NEW before \in RouteVal, NEW after \in RouteVal
  PROVE  EventFor(before, after) \in Event
BY DEF EventFor, Event, RouteVal

\* takePendingEvents yields the tuples of one RI-Upd.
LEMMA PendingTuplesType ==
  ASSUME NEW s \in PeerState
  PROVE  PendingTuples(s) \in EventTuples
<1> DEFINE D == {k \in Networks : s.pendingEvents[k] # None}
<1>1. \A n \in D : s.pendingEvents[n] \in Change
  BY DEF PeerState
<1>2. \A n \in D : EventFor(s.pendingEvents[n].before, s.pendingEvents[n].after) \in Event
  BY <1>1, EventForType DEF Change
<1>3. D \in SUBSET Networks
  OBVIOUS
<1> HIDE DEF D
<1>4. [n \in D |-> EventFor(s.pendingEvents[n].before, s.pendingEvents[n].after)] \in [D -> Event]
  BY <1>2
<1>5. [n \in D |-> EventFor(s.pendingEvents[n].before, s.pendingEvents[n].after)] \in EventTuples
  BY <1>3, <1>4 DEF EventTuples, Partial
<1> QED BY <1>5 DEF PendingTuples, D

\* queueBestNetworkTransition keeps the types.
LEMMA QueuedType ==
  ASSUME NEW s \in PeerState, NEW n \in Networks, NEW old \in RouteVal, NEW new \in RouteVal
  PROVE  Queued(s, n, old, new) \in PeerState
<1> DEFINE before == IF s.pendingEvents[n] = None THEN old ELSE s.pendingEvents[n].before
           c == IF before = new THEN None ELSE [before |-> before, after |-> new]
<1>1. before \in RouteVal
  <2>1. s.pendingEvents[n] \in Change \cup {None}
    BY DEF PeerState
  <2> QED BY <2>1 DEF Change
<1>2. c \in Change \cup {None}
  BY <1>1 DEF Change
<1> HIDE DEF before, c
<1>3. [s EXCEPT !.pendingEvents[n] = c] \in PeerState
  BY <1>2 DEF PeerState
<1> QED BY <1>3 DEF Queued, before, c

\* A fresh AURPPeer is well-typed and has nothing outstanding.
LEMMA NewPeerType ==
  ASSUME NEW c \in Conn \ {0}
  PROVE  NewPeer(c) \in PeerState /\ Outstanding(NewPeer(c))
<1>1. NoRoutes \in [Networks -> LearnedVal]
  BY DEF NoRoutes, LearnedVal
<1>2. 0 \in Conn
  BY PeerAssumption DEF Conn
<1>3. NewPeer(c) \in PeerState
  BY <1>1, <1>2, Names, NoTuplesType, OneIsID DEF PeerState, NewPeer
<1> QED BY <1>3 DEF NewPeer, Outstanding, Waiting

-----------------------------------------------------------------------------
\* A step of peer p: its new state and the datagrams it may have sent.

Moves(p, s, out) ==
  /\ peer' = [peer EXCEPT ![p] = s]
  /\ net' \subseteq net \cup out
  /\ exported' = exported
  /\ budget' \in [EnvKinds -> Nat]

\* The environment's budget never becomes negative.
LEMMA SpendType ==
  ASSUME TypeOK, NEW k \in EnvKinds, Spend(k)
  PROVE  budget' \in [EnvKinds -> Nat]
BY DEF TypeOK, Spend

\* Every frame of an action is a move of one peer.
LEMMA FramesMove ==
  ASSUME TypeOK, NEW p \in Peers, NEW s, NEW out
  PROVE  /\ Acts(p, s, out) => Moves(p, s, out)
         /\ \A quiet \in BOOLEAN : Fires(p, quiet, s, out) => Moves(p, s, out)
         /\ \A m \in net : Handles(p, m, s, out) => Moves(p, s, out)
<1>1. "hasty" \in EnvKinds /\ "dup" \in EnvKinds
  BY DEF EnvKinds
<1>2. budget \in [EnvKinds -> Nat]
  BY DEF TypeOK
<1>3. Acts(p, s, out) => Moves(p, s, out)
  BY <1>2 DEF Acts, Moves
<1>4. \A quiet \in BOOLEAN : Fires(p, quiet, s, out) => Moves(p, s, out)
  BY <1>1, <1>2, SpendType DEF Fires, Moves
<1>5. \A m \in net : Handles(p, m, s, out) => Moves(p, s, out)
  BY <1>1, <1>2, SpendType DEF Handles, Moves
<1> QED BY <1>3, <1>4, <1>5

\* The inductive invariant of this module.
Typed == TypeOK /\ OutstandingPacket

\* A move to a well-typed state whose outstanding packet is the one to repeat
\* preserves the invariant.
LEMMA MoveTyped ==
  ASSUME Typed, NEW p \in Peers, NEW s \in PeerState, NEW out \in SUBSET Message,
         Moves(p, s, out), Outstanding(s)
  PROVE  Typed'
<1>1. peer' \in [Peers -> PeerState]
  BY DEF Typed, TypeOK, Moves
<1>2. net' \subseteq Message
  BY DEF Typed, TypeOK, Moves
<1>3. TypeOK'
  BY <1>1, <1>2 DEF Typed, TypeOK, Moves
<1>4. \A q \in Peers : Outstanding(peer'[q])
  BY DEF Typed, TypeOK, Moves, OutstandingPacket
<1>5. OutstandingPacket'
  BY <1>4 DEF OutstandingPacket, Outstanding, Waiting
<1> QED BY <1>3, <1>5 DEF Typed

\* The same for a step given by its frame.
LEMMA StepTyped ==
  ASSUME Typed, NEW p \in Peers, NEW s \in PeerState, NEW out \in SUBSET Message,
         Outstanding(s),
         \/ Acts(p, s, out)
         \/ \E quiet \in BOOLEAN : Fires(p, quiet, s, out)
         \/ \E m \in net : Handles(p, m, s, out)
  PROVE  Typed'
<1>1. Moves(p, s, out)
  BY FramesMove DEF Typed
<1> QED BY <1>1, MoveTyped

\* A step that leaves the sender's fields alone keeps the packet to repeat.
LEMMA SameOutstanding ==
  ASSUME NEW s, NEW t, Outstanding(s),
         t.sstate = s.sstate, t.lastRISent = s.lastRISent, t.localSeq = s.localSeq,
         t.remoteConn = s.remoteConn, t.restartProbe = s.restartProbe
  PROVE  Outstanding(t)
BY DEF Outstanding, Waiting

\* The receiver-side updates leave the sender's fields alone.
LEMMA PiecesOutstanding ==
  ASSUME NEW s \in PeerState, Outstanding(s)
  PROVE  /\ Outstanding(Retried(s))
         /\ Outstanding(Opening(s))
         /\ Outstanding(OpenedBack(s))
         /\ Outstanding([s EXCEPT !.retries = 0])
<1>1. Outstanding(Retried(s))
  BY SameOutstanding DEF Retried, PeerState
<1>2. Outstanding(Opening(s))
  BY SameOutstanding DEF Opening, PeerState
<1>3. Outstanding([s EXCEPT !.retries = 0])
  BY SameOutstanding DEF PeerState
<1> QED BY <1>1, <1>2, <1>3 DEF OpenedBack

\* A failed connection attempt keeps the types and the sender role.
LEMMA ConnectFailedType ==
  ASSUME NEW s \in PeerState, CanDisconnectReceiver(s), Outstanding(s)
  PROVE  ConnectFailed(s) \in PeerState /\ Outstanding(ConnectFailed(s))
<1> DEFINE t == DisconnectReceiver(s)
<1>1. t \in PeerState /\ Outstanding(t)
  BY DisconnectReceiverType
<1> HIDE DEF t
<1>2. [t EXCEPT !.backoff = TRUE] \in PeerState /\ Outstanding([t EXCEPT !.backoff = TRUE])
  BY <1>1, SameOutstanding DEF PeerState
<1> QED BY <1>2 DEF ConnectFailed, t

\* Starting Handle, the reconnect signal and rtickerTasks preserve the
\* invariant.
LEMMA RTimersTyped ==
  ASSUME Typed, NEW p \in Peers,
         StartHandle(p) \/ Reconnect(p) \/ RTickerTasks(p)
  PROVE  Typed'
<1> DEFINE s == peer[p]
<1>0. s \in PeerState /\ Outstanding(s)
  BY DEF Typed, TypeOK, OutstandingPacket
<1>1. CASE StartHandle(p)
  <2> DEFINE d == DisconnectSender(DisconnectReceiver(s))
             t == [d EXCEPT !.mode = "run", !.observing = FALSE]
  <2>1. d \in PeerState /\ Outstanding(d)
    BY <1>0, <1>1, DisconnectReceiverType, DisconnectSenderType DEF StartHandle
  <2>2. Acts(p, Opening(t), {OpenReq(p, t)})
    BY <1>1 DEF StartHandle
  <2> HIDE DEF d
  <2>3. t \in PeerState /\ Outstanding(t)
    BY <2>1, SameOutstanding, Names DEF PeerState
  <2> HIDE DEF t
  <2>4. Opening(t) \in PeerState /\ Outstanding(Opening(t)) /\ OpenReq(p, t) \in Message
    BY <2>3, SimplePieces, PiecesOutstanding, RequestTypes
  <2> QED BY <2>2, <2>4, StepTyped
<1>2. CASE Reconnect(p)
  <2>1. \E quiet \in BOOLEAN : Fires(p, quiet, Opening(s), {OpenReq(p, s)})
    BY <1>2 DEF Reconnect, ReconnectReady
  <2>2. Opening(s) \in PeerState /\ Outstanding(Opening(s)) /\ OpenReq(p, s) \in Message
    BY <1>0, SimplePieces, PiecesOutstanding, RequestTypes
  <2> QED BY <2>1, <2>2, StepTyped
<1>3. CASE ReceiverRetry(p)
  <2>1. Repeats(p) \in Message
    BY <1>0, <1>3, RequestTypes DEF Repeats, ReceiverRetry, ReceiverTimeout
  <2>2. \E quiet \in BOOLEAN : Fires(p, quiet, Retried(s), {Repeats(p)})
    BY <1>3 DEF ReceiverRetry, Quiet
  <2>3. Retried(s) \in PeerState /\ Outstanding(Retried(s))
    BY <1>0, SimplePieces, PiecesOutstanding
  <2> QED BY <2>1, <2>2, <2>3, StepTyped
<1>4. CASE ReceiverGivesUp(p)
  <2>1. \E quiet \in BOOLEAN : Fires(p, quiet, ConnectFailed(s), {})
    BY <1>4 DEF ReceiverGivesUp, Quiet
  <2>2. ConnectFailed(s) \in PeerState /\ Outstanding(ConnectFailed(s))
    BY <1>0, <1>4, ConnectFailedType DEF ReceiverGivesUp
  <2> QED BY <2>1, <2>2, StepTyped
<1>5. CASE SendTickle(p)
  <2> DEFINE w == Waiting(s)
             t == [s EXCEPT !.rstate = "WaitForTickleAck", !.retries = 0, !.tickled = w]
  <2>1. \E quiet \in BOOLEAN : Fires(p, quiet, t, {Request("Tickle", p, s)})
    BY <1>5 DEF SendTickle, Quiet
  <2>2. w \in BOOLEAN
    BY DEF Waiting
  <2> HIDE DEF w
  <2>4. t \in PeerState /\ Outstanding(t)
    BY <1>0, <2>2, SameOutstanding, Names DEF PeerState
  <2>3. {Request("Tickle", p, s)} \in SUBSET Message
    BY <1>0, RequestTypes
  <2> HIDE DEF t
  <2> QED BY <2>1, <2>3, <2>4, StepTyped
<1>6. CASE ProbeSender(p)
  <2> DEFINE t == SendNullRIUpd(p, Retried(s))
  <2>1. \E quiet \in BOOLEAN : Fires(p, quiet, t, {t.lastRISent})
    BY <1>6 DEF ProbeSender, Quiet
  <2>2. t \in PeerState /\ Outstanding(t) /\ t.lastRISent \in Message
    BY <1>0, SimplePieces, SendNullType
  <2> QED BY <2>1, <2>2, StepTyped
<1> QED BY <1>1, <1>2, <1>3, <1>4, <1>5, <1>6 DEF RTickerTasks

\* stickerTasks preserves the invariant.
LEMMA STimersTyped ==
  ASSUME Typed, NEW p \in Peers, STickerTasks(p)
  PROVE  Typed'
<1> DEFINE s == peer[p]
<1>0. s \in PeerState /\ Outstanding(s)
  BY DEF Typed, TypeOK, OutstandingPacket
<1>1. CASE SendUpdates(p)
  <2> DEFINE r == [s EXCEPT !.pendingRIUpd = PendingTuples(s),
                            !.pendingEvents = [n \in Networks |-> None]]
             t == SendNextRIUpd(p, IncLocalSeq(r))
  <2>1. Acts(p, t, {t.lastRISent})
    BY <1>1 DEF SendUpdates
  <2>2. r \in PeerState
    <3>1. PendingTuples(s) \in EventTuples
      BY <1>0, PendingTuplesType
    <3>2. [n \in Networks |-> None] \in [Networks -> Change \cup {None}]
      OBVIOUS
    <3> QED BY <1>0, <3>1, <3>2 DEF PeerState
  <2> HIDE DEF r
  <2>3. t \in PeerState /\ Outstanding(t) /\ t.lastRISent \in Message
    BY <2>2, SimplePieces, SendNextTypes
  <2> QED BY <2>1, <2>3, StepTyped
<1>2. CASE SenderRetry(p)
  <2>1. \E quiet \in BOOLEAN : Fires(p, quiet, Retried(s), {s.lastRISent})
    BY <1>2 DEF SenderRetry, Quiet
  <2>2. s.lastRISent \in Message
    BY <1>0, <1>2 DEF SenderRetry, PeerState
  <2>3. Retried(s) \in PeerState /\ Outstanding(Retried(s))
    BY <1>0, SimplePieces, PiecesOutstanding
  <2> QED BY <2>1, <2>2, <2>3, StepTyped
<1>3. CASE SenderGivesUp(p)
  <2> DEFINE r == [s EXCEPT !.observing = FALSE]
  <2>1. r \in PeerState
    BY <1>0, SimplePieces
  <2>2. \E quiet \in BOOLEAN :
          \/ Fires(p, quiet, DisconnectSender(r), {})
          \/ ~r.restartProbe /\ Fires(p, quiet, [r EXCEPT !.sstate = "Unconnected"], {})
    BY <1>3 DEF SenderGivesUp, Quiet
  <2> HIDE DEF r
  <2>3. DisconnectSender(r) \in PeerState /\ Outstanding(DisconnectSender(r))
    BY <2>1, DisconnectSenderType
  <2>4. /\ [r EXCEPT !.sstate = "Unconnected"] \in PeerState
        /\ ~r.restartProbe => Outstanding([r EXCEPT !.sstate = "Unconnected"])
    BY <2>1, Names DEF PeerState, Outstanding, Waiting
  <2> QED BY <2>2, <2>3, <2>4, StepTyped
<1> QED BY <1>1, <1>2, <1>3 DEF STickerTasks

\* Opening the reverse connection keeps the types and the sender role.
LEMMA OpenBackTypes ==
  ASSUME NEW p \in Peers, NEW s \in PeerState, Outstanding(s)
  PROVE  /\ OpenedBack(s) \in PeerState /\ Outstanding(OpenedBack(s))
         /\ OpenBackPackets(p, s) \in SUBSET Message
BY SimplePieces, PiecesOutstanding, RequestTypes DEF OpenBackPackets

\* StepTyped for a packet handler.
LEMMA HandlesTyped ==
  ASSUME Typed, NEW p \in Peers, NEW m \in net, NEW s \in PeerState,
         NEW out \in SUBSET Message, Outstanding(s), Handles(p, m, s, out)
  PROVE  Typed'
BY StepTyped

\* Dropping a packet, handleOpenReq and handleOpenRsp preserve the invariant.
LEMMA OpenHandlersTyped ==
  ASSUME Typed, NEW p \in Peers, NEW m \in net,
         DropOtherConnection(p, m) \/ HandleOpenReq(p, m) \/ HandleOpenRsp(p, m)
  PROVE  Typed'
<1> DEFINE s == peer[p]
<1>0. s \in PeerState /\ Outstanding(s) /\ m \in Message
  BY DEF Typed, TypeOK, OutstandingPacket
<1>1. CASE Handles(p, m, s, {})
  BY <1>0, <1>1, HandlesTyped
<1>2. ASSUME NEW t, t = [SendNullRIUpd(p, [s EXCEPT !.retries = 0]) EXCEPT !.restartProbe = TRUE],
             Handles(p, m, t, {t.lastRISent})
      PROVE  Typed'
  <2> DEFINE r == [s EXCEPT !.retries = 0]
             u == SendNullRIUpd(p, r)
  <2>1. r \in PeerState
    BY <1>0, SimplePieces
  <2> HIDE DEF r
  <2>2. u \in PeerState /\ u.lastRISent \in Message
        /\ [u EXCEPT !.restartProbe = TRUE] \in PeerState
        /\ Outstanding([u EXCEPT !.restartProbe = TRUE])
    BY <2>1, SendNullType
  <2> HIDE DEF u
  <2>3. t = [u EXCEPT !.restartProbe = TRUE]
    BY <1>2 DEF r, u
  <2>4. t.lastRISent = u.lastRISent
    BY <2>2, <2>3 DEF PeerState
  <2>5. t \in PeerState /\ Outstanding(t) /\ {t.lastRISent} \in SUBSET Message
    BY <2>2, <2>3, <2>4
  <2> QED BY <1>2, <2>5, HandlesTyped
<1>3. ASSUME m.type = "OpenReq", s.sstate \in {"Unconnected", "Connected"},
             NEW t, t = [s EXCEPT !.remoteConn = m.conn,
                                  !.sstate = IF m.ok THEN "Connected" ELSE @,
                                  !.observing = @ \/ m.ok],
             Handles(p, m, OpenedBack(t), {OpenRsp(p, t, m.ok)} \cup OpenBackPackets(p, t))
      PROVE  Typed'
  <2>1. m.ok \in BOOLEAN /\ m.conn \in Conn
    BY <1>0, <1>3, MessageFields
  <2>2. (IF m.ok THEN "Connected" ELSE s.sstate) \in {"Unconnected", "Connected"}
    BY <1>3
  <2>3. (s.observing \/ m.ok) \in BOOLEAN
    OBVIOUS
  <2>4. t \in PeerState
    <3>1. (IF m.ok THEN "Connected" ELSE s.sstate) \in SState
      BY <2>2, Names
    <3> QED BY <1>0, <1>3, <2>1, <2>3, <3>1, OpenType
  <2>5. Outstanding(t)
    BY <1>0, <1>3, <2>2, <2>4 DEF PeerState, Outstanding, Waiting
  <2>6. {OpenRsp(p, t, m.ok)} \cup OpenBackPackets(p, t) \in SUBSET Message
    BY <2>1, <2>4, <2>5, RequestTypes, OpenBackTypes
  <2>7. OpenedBack(t) \in PeerState /\ Outstanding(OpenedBack(t))
    BY <2>4, <2>5, OpenBackTypes
  <2> QED BY <1>3, <2>6, <2>7, HandlesTyped
<1>4. CASE HandleOpenReq(p, m)
  BY <1>1, <1>2, <1>3, <1>4 DEF HandleOpenReq
<1>5. CASE HandleOpenRsp(p, m)
  <2>1. CASE CanDisconnectReceiver(s) /\ Handles(p, m, ConnectFailed(s), {})
    <3>1. ConnectFailed(s) \in PeerState /\ Outstanding(ConnectFailed(s))
      BY <1>0, <2>1, ConnectFailedType
    <3> QED BY <2>1, <3>1, HandlesTyped
  <2> DEFINE t == [s EXCEPT !.retries = 0, !.rstate = "WaitForRIRsp", !.remoteSeq = 1]
  <2>2. CASE Handles(p, m, t, {Request("RIReq", p, s)})
    <3>1. t \in PeerState /\ Outstanding(t)
      BY <1>0, Names, OneIsID, SameOutstanding DEF PeerState
    <3>2. Request("RIReq", p, s) \in Message
      BY <1>0, RequestTypes
    <3> QED BY <2>2, <3>1, <3>2, HandlesTyped
  <2> QED BY <1>5, <2>1, <2>2 DEF HandleOpenRsp
<1> QED BY <1>1, <1>4, <1>5 DEF DropOtherConnection

\* handleRIReq preserves the invariant: the snapshot is the packet to repeat.
LEMMA RIReqTyped ==
  ASSUME Typed, NEW p \in Peers, NEW m \in net, HandleRIReq(p, m)
  PROVE  Typed'
<1> DEFINE s == peer[p]
           D == {k \in Networks : exported[p][k] # NoRoute}
           nets == [n \in D |-> exported[p][n]]
           r == [s EXCEPT !.localSeq = 1, !.pendingRIRsp = nets]
           t == SendNextRIRsp(p, r)
<1>0. s \in PeerState /\ Outstanding(s) /\ m \in Message
  BY DEF Typed, TypeOK, OutstandingPacket
<1>1. CASE Handles(p, m, s, {})
  BY <1>0, <1>1, HandlesTyped
<1>2. CASE s.sstate = "Connected" /\ Handles(p, m, t, {t.lastRISent})
  <2>1. nets \in NetTuples
    <3>1. \A n \in D : exported[p][n] \in Dists
      BY DEF Typed, TypeOK, RouteVal
    <3>2. D \in SUBSET Networks
      OBVIOUS
    <3> HIDE DEF D
    <3>3. nets \in [D -> Dists]
      BY <3>1
    <3> HIDE DEF nets
    <3> QED BY <3>2, <3>3 DEF NetTuples, Partial
  <2> HIDE DEF nets
  <2>2. r \in PeerState /\ r.restartProbe = s.restartProbe
    BY <1>0, <2>1, OneIsID DEF PeerState
  <2>3. ~r.restartProbe
    BY <1>0, <1>2, <2>2 DEF Outstanding
  <2> HIDE DEF r
  <2>4. t \in PeerState /\ Outstanding(t) /\ t.lastRISent \in Message
    BY <2>2, <2>3, SendNextTypes
  <2> QED BY <1>2, <2>4, HandlesTyped
<1> QED BY <1>1, <1>2 DEF HandleRIReq

\* An RI-Upd that counts as a Tickle-Ack keeps the types.
LEMMA AliveType ==
  ASSUME NEW s \in PeerState, Outstanding(s), NEW m
  PROVE  /\ Alive(s, m) \in PeerState /\ Outstanding(Alive(s, m))
         /\ Alive(s, m).localConn = s.localConn
<1>1. LET t == [s EXCEPT !.rstate = "Connected"]
      IN  t \in PeerState /\ Outstanding(t) /\ t.localConn = s.localConn
  BY Names, SameOutstanding DEF PeerState
<1> QED BY <1>1 DEF Alive

\* checkRemoteSeq on an unexpected packet preserves the invariant.
LEMMA OutOfSequenceTyped ==
  ASSUME Typed, NEW p \in Peers, NEW m \in net, HandleOutOfSequence(p, m)
  PROVE  Typed'
<1> DEFINE s == Alive(peer[p], m)
<1>0. s \in PeerState /\ Outstanding(s) /\ m \in Message
  BY AliveType DEF Typed, TypeOK, OutstandingPacket
<1> HIDE DEF s
<1>1. CASE Handles(p, m, s, {RIAck(p, m)})
  <2>1. {RIAck(p, m)} \in SUBSET Message
    BY <1>0, RIAckType
  <2> QED BY <1>0, <1>1, <2>1, HandlesTyped
<1>2. CASE CanDisconnectReceiver(s) /\ Handles(p, m, DisconnectReceiver(s), {})
  <2>1. DisconnectReceiver(s) \in PeerState /\ Outstanding(DisconnectReceiver(s))
    BY <1>0, <1>2, DisconnectReceiverType
  <2> QED BY <1>2, <2>1, HandlesTyped
<1>3. CASE Handles(p, m, s, {})
  BY <1>0, <1>3, HandlesTyped
<1> QED BY <1>1, <1>2, <1>3 DEF HandleOutOfSequence, s

\* handleRIRsp preserves the invariant.
LEMMA RIRspTyped ==
  ASSUME Typed, NEW p \in Peers, NEW m \in net, HandleRIRsp(p, m)
  PROVE  Typed'
<1> DEFINE s == peer[p]
           t == [s EXCEPT !.learned = ApplyTuples(@, m.nets),
                          !.rstate = IF m.last THEN "Connected" ELSE @,
                          !.backoff = IF m.last THEN FALSE ELSE @,
                          !.remoteSeq = Succ(@)]
<1>0. s \in PeerState /\ Outstanding(s) /\ m \in Message /\ m.type = "RIRsp"
  BY DEF Typed, TypeOK, OutstandingPacket, HandleRIRsp
<1>1. Handles(p, m, t, {RIAck(p, m)})
  BY DEF HandleRIRsp
<1>2. {RIAck(p, m)} \in SUBSET Message
  BY <1>0, RIAckType
<1>3. ApplyTuples(s.learned, m.nets) \in [Networks -> LearnedVal]
  BY <1>0, MessageFields, ApplyTypes DEF PeerState
<1>4. Succ(s.remoteSeq) \in ID
  BY <1>0, SuccType DEF PeerState
<1>5. t \in PeerState
  <2>1. (IF m.last THEN "Connected" ELSE s.rstate) \in RState
    BY <1>0, Names DEF PeerState
  <2>2. (IF m.last THEN FALSE ELSE s.backoff) \in BOOLEAN
    BY <1>0 DEF PeerState
  <2> QED BY <1>0, <1>3, <1>4, <2>1, <2>2, InstallType
<1>6. Outstanding(t)
  <2>1. /\ t.sstate = s.sstate /\ t.lastRISent = s.lastRISent /\ t.localSeq = s.localSeq
        /\ t.remoteConn = s.remoteConn /\ t.restartProbe = s.restartProbe
    BY <1>0 DEF PeerState
  <2> HIDE DEF t, s
  <2> QED BY <1>0, <2>1, SameOutstanding
<1> QED BY <1>1, <1>2, <1>5, <1>6, HandlesTyped

\* handleRIAck preserves the invariant: it closes the wait or sends the next
\* chunk with the next sequence number.
LEMMA RIAckTyped ==
  ASSUME Typed, NEW p \in Peers, NEW m \in net, HandleRIAck(p, m)
  PROVE  Typed'
<1> DEFINE s == [peer[p] EXCEPT !.retries = 0]
           rsp == SendNextRIRsp(p, IncLocalSeq(s))
           upd == SendNextRIUpd(p, IncLocalSeq(s))
           done == [s EXCEPT !.sstate = "Connected", !.observing = TRUE]
           probed == [s EXCEPT !.restartProbe = FALSE, !.lastRISent = None,
                               !.sstate = "Connected"]
           quit == [s EXCEPT !.observing = FALSE]
<1>0. peer[p] \in PeerState /\ Outstanding(peer[p]) /\ m \in Message
  BY DEF Typed, TypeOK, OutstandingPacket
<1>1. s \in PeerState /\ Outstanding(s)
  BY <1>0, SimplePieces, PiecesOutstanding
<1>2. \/ Handles(p, m, peer[p], {})
      \/ Handles(p, m, probed, {})
      \/ Handles(p, m, DisconnectSender(quit), {})
      \/ s.sstate = "WaitForRIRspAck" /\ Handles(p, m, rsp, {rsp.lastRISent})
      \/ Handles(p, m, upd, {upd.lastRISent})
      \/ /\ ~(s.sstate = "WaitForRIUpdAck" /\ s.restartProbe)
         /\ Handles(p, m, OpenedBack(done), OpenBackPackets(p, done))
  BY DEF HandleRIAck
<1> HIDE DEF s
<1>3. CASE Handles(p, m, peer[p], {})
  BY <1>0, <1>3, HandlesTyped
<1>4. CASE Handles(p, m, probed, {})
  <2>1. probed \in PeerState /\ Outstanding(probed)
    BY <1>1, Names DEF PeerState, Outstanding, Waiting
  <2> QED BY <1>4, <2>1, HandlesTyped
<1>5. CASE Handles(p, m, DisconnectSender(quit), {})
  <2>1. DisconnectSender(quit) \in PeerState /\ Outstanding(DisconnectSender(quit))
    BY <1>1, SimplePieces, DisconnectSenderType
  <2> QED BY <1>5, <2>1, HandlesTyped
<1>6. CASE s.sstate = "WaitForRIRspAck" /\ Handles(p, m, rsp, {rsp.lastRISent})
  <2>1. IncLocalSeq(s) \in PeerState
    BY <1>1, SimplePieces
  <2>2. ~IncLocalSeq(s).restartProbe
    BY <1>1, <1>6 DEF IncLocalSeq, PeerState, Outstanding
  <2>3. rsp \in PeerState /\ Outstanding(rsp) /\ {rsp.lastRISent} \in SUBSET Message
    BY <2>1, <2>2, SendNextTypes
  <2> QED BY <1>6, <2>3, HandlesTyped
<1>7. CASE Handles(p, m, upd, {upd.lastRISent})
  <2>1. upd \in PeerState /\ Outstanding(upd) /\ {upd.lastRISent} \in SUBSET Message
    BY <1>1, SimplePieces, SendNextTypes
  <2> QED BY <1>7, <2>1, HandlesTyped
<1>8. CASE /\ ~(s.sstate = "WaitForRIUpdAck" /\ s.restartProbe)
           /\ Handles(p, m, OpenedBack(done), OpenBackPackets(p, done))
  <2>1. done \in PeerState /\ Outstanding(done)
    BY <1>1, <1>8, Names DEF PeerState, Outstanding, Waiting
  <2> HIDE DEF done
  <2> QED BY <1>8, <2>1, OpenBackTypes, HandlesTyped
<1> QED BY <1>2, <1>3, <1>4, <1>5, <1>6, <1>7, <1>8

\* handleRIUpd preserves the invariant.
LEMMA RIUpdTyped ==
  ASSUME Typed, NEW p \in Peers, NEW m \in net, HandleRIUpd(p, m)
  PROVE  Typed'
<1> DEFINE s == Alive(peer[p], m)
           riReq == Request("RIReq", p, s)
           asks == [s EXCEPT !.rstate = "WaitForRIRsp", !.remoteSeq = 1, !.retries = 0]
           early == [s EXCEPT !.remoteSeq = Succ(@), !.retries = 0]
           updated == [s EXCEPT !.learned = ApplyEvents(@, m.events),
                                !.remoteSeq = Succ(@)]
<1>0. s \in PeerState /\ Outstanding(s) /\ m \in Message /\ m.type = "RIUpd"
  BY AliveType DEF Typed, TypeOK, OutstandingPacket, HandleRIUpd
<1>1. \/ Handles(p, m, asks, {riReq})
      \/ Handles(p, m, early, {RIAck(p, m), riReq})
      \/ Handles(p, m, updated, {RIAck(p, m)})
  BY DEF HandleRIUpd
<1> HIDE DEF s
<1>2. riReq \in Message /\ RIAck(p, m) \in Message
  BY <1>0, RequestTypes, RIAckType
<1> HIDE DEF riReq
<1>3. Succ(s.remoteSeq) \in ID
  BY <1>0, SuccType DEF PeerState
<1>4. CASE Handles(p, m, asks, {riReq})
  <2>1. asks \in PeerState /\ Outstanding(asks)
    BY <1>0, Names, OneIsID, SameOutstanding DEF PeerState
  <2> QED BY <1>2, <1>4, <2>1, HandlesTyped
<1>5. CASE Handles(p, m, early, {RIAck(p, m), riReq})
  <2>1. early \in PeerState /\ Outstanding(early)
    BY <1>0, <1>3, Names, SameOutstanding DEF PeerState
  <2>2. {RIAck(p, m), riReq} \in SUBSET Message
    BY <1>2
  <2> QED BY <1>5, <2>1, <2>2, HandlesTyped
<1>6. CASE Handles(p, m, updated, {RIAck(p, m)})
  <2>1. ApplyEvents(s.learned, m.events) \in [Networks -> LearnedVal]
    BY <1>0, MessageFields, ApplyTypes DEF PeerState
  <2>2. updated \in PeerState /\ Outstanding(updated)
    BY <1>0, <1>3, <2>1, SameOutstanding DEF PeerState
  <2> QED BY <1>2, <1>6, <2>2, HandlesTyped
<1> QED BY <1>1, <1>4, <1>5, <1>6

\* handleRD, handleTickle and handleTickleAck preserve the invariant.
LEMMA CloseHandlersTyped ==
  ASSUME Typed, NEW p \in Peers, NEW m \in net,
         HandleRD(p, m) \/ HandleTickle(p, m) \/ HandleTickleAck(p, m)
  PROVE  Typed'
<1> DEFINE s == peer[p]
<1>0. s \in PeerState /\ Outstanding(s) /\ m \in Message
  BY DEF Typed, TypeOK, OutstandingPacket
<1>1. CASE HandleRD(p, m)
  <2> DEFINE quit == [s EXCEPT !.observing = FALSE]
  <2>1. CASE Handles(p, m, DisconnectSender(quit), {})
    <3>1. DisconnectSender(quit) \in PeerState /\ Outstanding(DisconnectSender(quit))
      BY <1>0, SimplePieces, DisconnectSenderType
    <3> QED BY <2>1, <3>1, HandlesTyped
  <2>2. CASE /\ CanDisconnectReceiver(s)
             /\ Handles(p, m, DisconnectReceiver(s), {RIAck(p, m)})
    <3>1. DisconnectReceiver(s) \in PeerState /\ Outstanding(DisconnectReceiver(s))
      BY <1>0, <2>2, DisconnectReceiverType
    <3>2. {RIAck(p, m)} \in SUBSET Message
      BY <1>0, RIAckType
    <3> QED BY <2>2, <3>1, <3>2, HandlesTyped
  <2> QED BY <1>1, <2>1, <2>2 DEF HandleRD
<1>2. CASE HandleTickle(p, m)
  <2>1. {TickleAck(p, s)} \in SUBSET Message
    BY <1>0, RequestTypes
  <2> QED BY <1>0, <1>2, <2>1, HandlesTyped DEF HandleTickle
<1>3. CASE HandleTickleAck(p, m)
  <2> DEFINE t == [s EXCEPT !.rstate = "Connected", !.retries = 0]
  <2>1. t \in PeerState /\ Outstanding(t)
    BY <1>0, Names, SameOutstanding DEF PeerState
  <2>2. Handles(p, m, t, {}) \/ Handles(p, m, s, {})
    BY <1>3 DEF HandleTickleAck
  <2> QED BY <1>0, <2>1, <2>2, HandlesTyped
<1> QED BY <1>1, <1>2, <1>3

\* handlePacket preserves the invariant.
LEMMA ReceiveTyped ==
  ASSUME Typed, NEW p \in Peers, Receive(p)
  PROVE  Typed'
BY OpenHandlersTyped, RIReqTyped, OutOfSequenceTyped, RIRspTyped, RIAckTyped, RIUpdTyped,
   CloseHandlersTyped DEF Receive, HandlePacket

\* What a failed write leaves of the peer and of the network.
Interrupted(s, r, l) ==
  [s EXCEPT !.mode = "idle", !.observing = FALSE, !.rstate = r, !.learned = l]
Interruption(p, r, l, out) ==
  LET s == peer[p] IN
  /\ Moves(p, Interrupted(s, r, l), out)
  /\ \/ r = s.rstate /\ l = s.learned
     \/ r = "Connected"
     \/ r = s.rstate /\ \E m \in net : m.to = p /\ m.type = "RIRsp" /\ m.conn = s.localConn
  /\ \A x \in out :
        \E m \in net : /\ m.to = p /\ m.type = "OpenReq" /\ m.ok \in BOOLEAN
                      /\ x = OpenRsp(p, [s EXCEPT !.remoteConn = m.conn], m.ok)

\* A handler cut short by a failed write has changed the routes only on an
\* opened connection, and has sent only an Open-Rsp.
LEMMA SendFailsInterrupts ==
  ASSUME Typed, NEW p \in Peers, SendFails(p)
  PROVE  \E r \in RState, l \in [Networks -> LearnedVal], out \in SUBSET Message :
            Interruption(p, r, l, out)
<1> DEFINE s == peer[p]
           Goal == \E r \in RState, l \in [Networks -> LearnedVal], out \in SUBSET Message :
                      Interruption(p, r, l, out)
<1>1. /\ s \in PeerState /\ s.rstate \in RState /\ s.learned \in [Networks -> LearnedVal]
      /\ net \subseteq Message
  BY DEF Typed, TypeOK, PeerState
<1>2. budget' \in [EnvKinds -> Nat] /\ exported' = exported
  BY SpendType DEF SendFails, EnvKinds, Typed
<1>3. ASSUME NEW r, NEW l, NEW out, Ends(p, r, l), net' \subseteq net \cup out
      PROVE  Moves(p, Interrupted(s, r, l), out)
  BY <1>2, <1>3 DEF Ends, Moves, Interrupted, Typed, TypeOK
<1>4. CASE Ends(p, s.rstate, s.learned) /\ net' = net
  <2>1. Interruption(p, s.rstate, s.learned, {})
    BY <1>3, <1>4 DEF Interruption
  <2> QED BY <1>1, <2>1
<1>5. ASSUME NEW m \in net, m.to = p, HandlerFails(p, m)
      PROVE  Goal
  <2>0. m \in Message
    BY <1>1
  <2>1. ASSUME NEW r \in RState, NEW l \in [Networks -> LearnedVal],
               NEW out \in SUBSET Message, CutShort(p, m, r, l, out),
               \/ r = s.rstate /\ l = s.learned
               \/ r = "Connected"
               \/ r = s.rstate /\ m.type = "RIRsp" /\ m.conn = s.localConn,
               \A x \in out :
                 /\ m.type = "OpenReq" /\ m.ok \in BOOLEAN
                 /\ x = OpenRsp(p, [s EXCEPT !.remoteConn = m.conn], m.ok)
        PROVE  Goal
    <3>1. Moves(p, Interrupted(s, r, l), out)
      BY <1>3, <2>1 DEF CutShort
    <3>2. Interruption(p, r, l, out)
      BY <1>5, <2>1, <3>1 DEF Interruption
    <3> QED BY <3>2
  <2> HIDE DEF Goal
  <2>2. CASE \/ CutShort(p, m, s.rstate, s.learned, {})
             \/ CutShort(p, m, "Connected", s.learned, {})
    BY <1>1, <2>1, <2>2, Names
  <2>3. CASE m.type = "OpenReq" /\ CutShort(p, m, s.rstate, s.learned,
                                     {OpenRsp(p, [s EXCEPT !.remoteConn = m.conn], m.ok)})
    <3>1. [s EXCEPT !.remoteConn = m.conn] \in PeerState /\ m.ok \in BOOLEAN
      BY <1>1, <2>0, <2>3, MessageFields DEF PeerState
    <3>2. OpenRsp(p, [s EXCEPT !.remoteConn = m.conn], m.ok) \in Message
      BY <3>1, RequestTypes
    <3> QED BY <1>1, <2>1, <2>3, <3>1, <3>2
  <2>4. CASE /\ m.type = "RIRsp" /\ m.conn = s.localConn
             /\ CutShort(p, m, s.rstate, ApplyTuples(s.learned, m.nets), {})
    <3>1. ApplyTuples(s.learned, m.nets) \in [Networks -> LearnedVal]
      BY <1>1, <2>0, <2>4, MessageFields, ApplyTypes
    <3> QED BY <1>1, <2>1, <2>4, <3>1
  <2>5. CASE m.type = "RIUpd" /\ CutShort(p, m, "Connected", ApplyEvents(s.learned, m.events), {})
    <3>1. ApplyEvents(s.learned, m.events) \in [Networks -> LearnedVal]
      BY <1>1, <2>0, <2>5, MessageFields, ApplyTypes
    <3> QED BY <1>1, <2>1, <2>5, <3>1, Names
  <2> QED BY <1>5, <2>2, <2>3, <2>4, <2>5 DEF HandlerFails, Expected, LocalConnMatches
<1> QED BY <1>4, <1>5 DEF SendFails

\* Forward, shutdown, loop confirmation, send errors and restarts preserve the
\* invariant.
LEMMA EndsTyped ==
  ASSUME Typed, NEW p \in Peers,
         \/ ForwardTickle(p) \/ ForwardTickleStore(p) \/ Shutdown(p) \/ InputEnds(p)
         \/ ShutdownStep(p) \/ ShutdownFails(p) \/ ConfirmLoop(p) \/ SendFails(p) \/ Restart(p)
  PROVE  Typed'
<1> DEFINE s == peer[p]
<1>0. s \in PeerState /\ Outstanding(s)
  BY DEF Typed, TypeOK, OutstandingPacket
<1>1. CASE ForwardTickle(p)
  <2> DEFINE t == [s EXCEPT !.tickling = TRUE]
  <2>1. \E quiet \in BOOLEAN : Fires(p, quiet, t, {Request("Tickle", p, s)})
    BY <1>1 DEF ForwardTickle, Quiet
  <2>2. t \in PeerState /\ Outstanding(t)
    BY <1>0, SameOutstanding DEF PeerState
  <2>3. {Request("Tickle", p, s)} \in SUBSET Message
    BY <1>0, RequestTypes
  <2> QED BY <2>1, <2>2, <2>3, StepTyped
<1>2. CASE ForwardTickleStore(p)
  <2> DEFINE t == [s EXCEPT !.tickling = FALSE, !.retries = 0,
                            !.rstate = "WaitForTickleAck"]
  <2>1. Acts(p, t, {})
    BY <1>2 DEF ForwardTickleStore
  <2>2. t \in PeerState /\ Outstanding(t)
    BY <1>0, SameOutstanding, Names DEF PeerState
  <2> QED BY <2>1, <2>2, StepTyped
<1>3. CASE Shutdown(p)
  <2> DEFINE t == [s EXCEPT !.mode = "closing"]
  <2>1. t \in PeerState /\ Outstanding(t)
    BY <1>0, SameOutstanding, Names DEF PeerState
  <2>2. budget' \in [EnvKinds -> Nat]
    BY <1>3, SpendType DEF Shutdown, EnvKinds, Typed
  <2>3. Moves(p, t, {})
    BY <1>3, <2>2 DEF Shutdown, Moves
  <2> QED BY <2>1, <2>3, MoveTyped
<1>8. CASE InputEnds(p) \/ ShutdownFails(p)
  <2> DEFINE t == [s EXCEPT !.mode = "deaf"]
             u == [s EXCEPT !.mode = "stopped", !.observing = FALSE]
  <2>1. Acts(p, t, {}) \/ Acts(p, u, {})
    BY <1>8 DEF InputEnds, ShutdownFails
  <2>2. t \in PeerState /\ Outstanding(t)
    BY <1>0, SameOutstanding, Names DEF PeerState
  <2>3. u \in PeerState /\ Outstanding(u)
    BY <1>0, SameOutstanding, Names DEF PeerState
  <2> HIDE DEF t, u
  <2> QED BY <2>1, <2>2, <2>3, StepTyped
<1>4. CASE ShutdownStep(p)
  <2> DEFINE r == IncLocalSeq([s EXCEPT !.retries = 0])
             t == Sent(r, SenderRD(p, r), "WaitForRDAck")
             u == [s EXCEPT !.mode = "stopped", !.observing = FALSE]
  <2>1. \/ s.sstate = "Connected" /\ Acts(p, t, {t.lastRISent})
        \/ Acts(p, u, {})
    BY <1>4 DEF ShutdownStep
  <2>2. CASE s.sstate = "Connected" /\ Acts(p, t, {t.lastRISent})
    <3>1. [s EXCEPT !.retries = 0] \in PeerState
      BY <1>0, SimplePieces
    <3>2. r \in PeerState
      BY <3>1, SimplePieces
    <3>3. ~r.restartProbe
      BY <1>0, <2>2 DEF PeerState, Outstanding, IncLocalSeq
    <3> HIDE DEF r
    <3> DEFINE pkt == SenderRD(p, r)
    <3>4. /\ pkt \in Message /\ pkt.seq = r.localSeq /\ pkt.conn = r.remoteConn
      BY <3>2, RequestTypes DEF SenderRD
    <3> HIDE DEF pkt
    <3>5. t = [r EXCEPT !.lastRISent = pkt, !.sstate = "WaitForRDAck", !.tickled = FALSE]
      BY DEF Sent, pkt
    <3> HIDE DEF t
    <3>6. t \in PeerState /\ t.lastRISent = pkt
      BY <3>2, <3>4, <3>5, Names DEF PeerState
    <3>7. Outstanding(t)
      BY <3>2, <3>3, <3>4, <3>5, NoneAssumption DEF Outstanding, Waiting, PeerState
    <3>8. {t.lastRISent} \in SUBSET Message
      BY <3>4, <3>6
    <3> QED BY <2>2, <3>6, <3>7, <3>8, StepTyped
  <2>3. CASE Acts(p, u, {})
    <3>1. u \in PeerState /\ Outstanding(u)
      BY <1>0, Names, SameOutstanding DEF PeerState
    <3> QED BY <2>3, <3>1, StepTyped
  <2> QED BY <2>1, <2>2, <2>3
<1>5. CASE ConfirmLoop(p)
  <2> DEFINE r == IF s.sstate = "Unconnected" THEN s ELSE IncLocalSeq(s)
             d == DisconnectSender(DisconnectReceiver(r))
             t == [d EXCEPT !.mode = "idle", !.loopDisabled = TRUE, !.observing = FALSE]
  <2>1. budget' \in [EnvKinds -> Nat]
    BY <1>5, SpendType DEF ConfirmLoop, EnvKinds, Typed
  <2>2. Moves(p, t, {SenderRD(p, r)})
    BY <1>5, <2>1 DEF ConfirmLoop, Moves
  <2>3. CanDisconnectReceiver(r)
    BY <1>5 DEF ConfirmLoop
  <2>4. r \in PeerState
    BY <1>0, SimplePieces
  <2> HIDE DEF r
  <2>5. d \in PeerState /\ Outstanding(d)
    BY <2>3, <2>4, DisconnectReceiverType, DisconnectSenderType
  <2> HIDE DEF d
  <2>6. t \in PeerState /\ Outstanding(t)
    BY <2>5, Names, SameOutstanding DEF PeerState
  <2>7. {SenderRD(p, r)} \in SUBSET Message
    BY <2>4, RequestTypes
  <2> QED BY <2>2, <2>6, <2>7, MoveTyped
<1>6. CASE SendFails(p)
  <2>1. PICK r \in RState, l \in [Networks -> LearnedVal], out \in SUBSET Message :
          Moves(p, Interrupted(s, r, l), out)
    BY <1>6, SendFailsInterrupts DEF Interruption
  <2>2. Interrupted(s, r, l) \in PeerState /\ Outstanding(Interrupted(s, r, l))
    BY <1>0, SameOutstanding, Names DEF PeerState, Interrupted
  <2> QED BY <2>1, <2>2, MoveTyped
<1>7. CASE Restart(p)
  <2> DEFINE c == IncConn(s.localConn)
  <2>1. c \in Conn \ {0}
    <3>1. s.localConn \in Conn
      BY <1>0 DEF PeerState
    <3> HIDE DEF s
    <3> QED BY <3>1, PeerAssumption DEF Conn, IncConn
  <2>2. NewPeer(c) \in PeerState /\ Outstanding(NewPeer(c))
    BY <2>1, NewPeerType
  <2>3. budget' \in [EnvKinds -> Nat]
    BY <1>7, SpendType DEF Restart, EnvKinds, Typed
  <2>4. Moves(p, NewPeer(c), {})
    BY <1>7, <2>3 DEF Restart, Moves
  <2> QED BY <2>2, <2>4, MoveTyped
<1> QED BY <1>1, <1>2, <1>3, <1>4, <1>5, <1>6, <1>7, <1>8

\* A route change seen by the observer preserves the invariant.
LEMMA ChangeTyped ==
  ASSUME Typed, NEW p \in Peers, ChangeRoute(p)
  PROVE  Typed'
<1>1. PICK n \in Networks, new \in RouteVal :
        /\ Spend("change")
        /\ exported' = [exported EXCEPT ![p][n] = new]
        /\ peer' = [peer EXCEPT ![p] = Queued(peer[p], n, exported[p][n], new)]
        /\ net' = net
  BY DEF ChangeRoute
<1> DEFINE s == peer[p]
           t == Queued(s, n, exported[p][n], new)
<1>2. s \in PeerState /\ Outstanding(s) /\ exported[p][n] \in RouteVal
  BY DEF Typed, TypeOK, OutstandingPacket
<1>3. t \in PeerState
  BY <1>2, QueuedType
<1>4. Outstanding(t)
  BY <1>2, SameOutstanding DEF Queued, PeerState
<1>5. budget' \in [EnvKinds -> Nat]
  BY <1>1, SpendType DEF EnvKinds, Typed
<1>6. exported' \in [Peers -> [Networks -> RouteVal]]
  BY <1>1 DEF Typed, TypeOK
<1> HIDE DEF t
<1>7. peer' = [peer EXCEPT ![p] = t]
  BY <1>1 DEF t
<1>8. TypeOK'
  BY <1>1, <1>3, <1>5, <1>6, <1>7 DEF Typed, TypeOK
<1>9. \A q \in Peers : Outstanding(peer'[q])
  BY <1>4, <1>7 DEF Typed, TypeOK, OutstandingPacket
<1> QED BY <1>8, <1>9 DEF Typed, OutstandingPacket, Outstanding, Waiting

\* The network's own steps preserve the invariant.
LEMMA NetworkTyped ==
  ASSUME Typed, Lose \/ Unheard \/ \E p \in Peers : ReceiverRD(p)
  PROVE  Typed'
<1>1. peer' = peer /\ exported' = exported
  BY DEF Lose, Unheard, ReceiverRD
<1>2. budget' \in [EnvKinds -> Nat]
  BY SpendType DEF Lose, Unheard, ReceiverRD, EnvKinds, Typed, TypeOK
<1>3. net' \subseteq Message
  <2>1. CASE Lose \/ Unheard
    BY <2>1 DEF Lose, Unheard, Typed, TypeOK
  <2>2. ASSUME NEW p \in Peers, ReceiverRD(p)
        PROVE  net' \subseteq Message
    <3>1. PICK c \in 1..peer[p].localConn :
            net' = net \cup {[type |-> "RD", to |-> Other(p), conn |-> c, seq |-> 0]}
      BY <2>2 DEF ReceiverRD
    <3>2. c \in Conn
      BY PeerAssumption DEF Typed, TypeOK, PeerState, Conn
    <3>3. [type |-> "RD", to |-> Other(p), conn |-> c, seq |-> 0] \in Message
      BY <3>2, OtherType DEF Message
    <3> QED BY <3>1, <3>3 DEF Typed, TypeOK
  <2> QED BY <2>1, <2>2
<1> QED BY <1>1, <1>2, <1>3 DEF Typed, TypeOK, OutstandingPacket, Outstanding, Waiting

\* The initial state satisfies the invariant.
LEMMA InitTyped ==
  ASSUME Init PROVE Typed
<1>1. 1 \in Conn \ {0}
  BY PeerAssumption DEF Conn
<1>2. NewPeer(1) \in PeerState /\ Outstanding(NewPeer(1))
  BY <1>1, NewPeerType
<1>3. Initial \in [Peers -> [Networks -> RouteVal]] /\ Budgets \subseteq [EnvKinds -> Nat]
  BY PeerAssumption DEF RouteVal
<1> QED BY <1>2, <1>3 DEF Init, Typed, TypeOK, OutstandingPacket

\* Every step preserves the invariant.
LEMMA NextTyped ==
  ASSUME Typed, [Next]_vars
  PROVE  Typed'
<1>1. ASSUME NEW p \in Peers, System(p)
      PROVE  Typed'
  BY <1>1, RTimersTyped, STimersTyped, ReceiveTyped, EndsTyped DEF System
<1>2. ASSUME NEW p \in Peers, Environment(p)
      PROVE  Typed'
  BY <1>2, EndsTyped, ChangeTyped, NetworkTyped DEF Environment
<1>3. CASE UNCHANGED vars
  BY <1>3 DEF vars, Typed, TypeOK, OutstandingPacket, Outstanding, Waiting
<1> QED BY <1>1, <1>2, <1>3, NetworkTyped DEF Next

\* The inductive invariant: types, and the sender's outstanding packet.  The
\* two need each other: a repeated packet must be a datagram, and the next
\* chunk takes its sequence number from a well-typed state.
THEOREM AlwaysTyped == Spec => []Typed
<1>1. Init => Typed
  BY InitTyped
<1>2. Typed /\ [Next]_vars => Typed'
  BY NextTyped
<1> QED BY <1>1, <1>2, PTL DEF Spec

\* Every field of the AURPPeer objects, every queue and every datagram keeps
\* its type, for all routers, networks, retry limits and chunk sizes.
THEOREM TypeCorrect == Spec => []TypeOK
<1>1. Typed => TypeOK
  BY DEF Typed
<1> QED BY <1>1, AlwaysTyped, PTL

\* A sender that waits for an acknowledgement holds the packet stickerTasks
\* will repeat, with the connection ID and the sequence number handleRIAck will
\* compare, under any loss, duplication, restart or send error.
THEOREM PacketToRepeat == Spec => []OutstandingPacket
<1>1. Typed => OutstandingPacket
  BY DEF Typed
<1> QED BY <1>1, AlwaysTyped, PTL
=============================================================================
