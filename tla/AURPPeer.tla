------------------------------ MODULE AURPPeer ------------------------------
(***************************************************************************)
(* The AURP peer of router/aurp_peer.go: two routers, each running the     *)
(* Handle loop of one AURPPeer object for the other.  An AURPPeer plays    *)
(* two roles at once, data receiver (rstate, localConn, remoteSeq,         *)
(* learned) and data sender (sstate, remoteConn, localSeq, lastRISent,     *)
(* pending...), which share sendRetries.                                   *)
(*                                                                         *)
(* Every handler of handlePacket, every timer branch of rtickerTasks and   *)
(* stickerTasks and every other case of the Handle loop is one action.     *)
(* UDP is the set net: a datagram may be lost, delivered twice, or         *)
(* overtaken.  A retry timer (10 s) usually fires when nothing is in       *)
(* flight; a datagram that is delayed for longer lets it fire hastily.     *)
(*                                                                         *)
(* A route is abstracted to a network and a distance; NoRoute stands for   *)
(* every route that is not advertisable (none, AURP-learned, distance 15). *)
(* Zone information and the SZI flag are left out: they never influence    *)
(* the variables kept here.                                                *)
(***************************************************************************)
EXTENDS Transport, FiniteSets

CONSTANTS
  Peers,            \* the two routers
  Networks,         \* network numbers
  Dists,            \* distances an advertisable route may have
  Weight,           \* HopCountWeight plus the backup-route penalty
  NoRoute,          \* no advertisable route / no learned route
  None,             \* nil
  RetryLimit,       \* routingRetryLimit()
  TickleLimit,      \* tickleRetriesLimit()
  ChunkSize,        \* tuples that fit one datagram
  MaxConn,          \* the largest connection ID; 65535 in the code
  ConnWraps,        \* connection IDs are used again after MaxConn
  ShortTickle,      \* LastHeardTimeout shorter than a full retry sequence
  TickleBeforeData, \* LastHeardTimeout > 2 min: data may send a Tickle first
  Version,          \* AURP version each router asks for (1 in jrouter)
  Initial,          \* what every router exports at the start
  Budgets           \* how often each kind of environment step may happen: the choices

MaxDistance == 15   \* maxRouteDistance

\* Environment steps; "hasty" is a timer that fires while datagrams are still
\* in flight, "crash" a restart faster than a datagram.
EnvKinds == {"loss", "dup", "hasty", "change", "restart", "crash", "sendfail",
             "shutdown", "loop", "receiverRD"}

ASSUME PeerAssumption ==
  /\ \E a, b \in Peers : a # b /\ Peers = {a, b}
  /\ Networks \subseteq Nat /\ IsFiniteSet(Networks)
  /\ Dists \subseteq 0..(MaxDistance - 1)
  /\ Weight \in Nat
  /\ NoRoute \notin Nat
  /\ RetryLimit \in Nat \ {0} /\ TickleLimit \in Nat \ {0}
  /\ ChunkSize \in Nat \ {0}
  /\ MaxConn \in Nat \ {0} /\ ConnWraps \in BOOLEAN
  /\ ShortTickle \in BOOLEAN
  /\ TickleBeforeData \in BOOLEAN
  /\ Version \in [Peers -> Nat]
  /\ Initial \in [Peers -> [Networks -> Dists \cup {NoRoute}]]
  /\ Budgets \subseteq [EnvKinds -> Nat]

VARIABLES
  peer,      \* the AURPPeer object of each router
  exported,  \* best advertisable local route of each router's RouteTable
  net,       \* datagrams in flight
  budget     \* environment steps left

vars == <<peer, exported, net, budget>>

Other(p) == CHOOSE q \in Peers : q # p

-----------------------------------------------------------------------------
\* Types.

RState == {"Unconnected", "Connected", "WaitForOpenRsp", "WaitForRIRsp",
           "WaitForTickleAck"}
SState == {"Unconnected", "Connected", "WaitForRIRspAck", "WaitForRIUpdAck",
           "WaitForRDAck"}
Mode == {"idle", "run", "closing", "deaf", "stopped"}

RouteVal == Dists \cup {NoRoute}

\* What a peer installs for an advertised distance (weightedAURPDistance).
Reachable(d) == d < MaxDistance /\ d + 1 + Weight <= MaxDistance
Weighted(d) == d + 1 + Weight
LearnedVal == {Weighted(d) : d \in Dists} \cup {NoRoute}
NoRoutes == [n \in Networks |-> NoRoute]

Event == [code : {"NA", "NDC"}, dist : Dists] \cup [code : {"ND"}]
Partial(T) == UNION {[S -> T] : S \in SUBSET Networks}
NetTuples == Partial(Dists)
EventTuples == Partial(Event)
NoTuples == [n \in {} |-> None]      \* no tuple; in an RI-Upd, the Null event

Conn == 0..MaxConn                   \* 0: no connection ID known

Message ==
       [type : {"OpenReq", "OpenRsp"}, to : Peers, conn : Conn, seq : {0},
        ok : BOOLEAN]
  \cup [type : {"RIReq", "Tickle", "TickleAck"}, to : Peers, conn : Conn, seq : {0}]
  \cup [type : {"RIAck", "RD"}, to : Peers, conn : Conn, seq : ID \cup {0}]
  \cup [type : {"RIRsp"}, to : Peers, conn : Conn, seq : ID,
        nets : NetTuples, last : BOOLEAN]
  \cup [type : {"RIUpd"}, to : Peers, conn : Conn, seq : ID, events : EventTuples]

ASSUME NoneAssumption == None \notin Message

Change == [before : RouteVal, after : RouteVal]

RetryCap == IF RetryLimit > TickleLimit THEN RetryLimit ELSE TickleLimit

PeerState ==
  [mode : Mode, loopDisabled : BOOLEAN, tickling : BOOLEAN, tickled : BOOLEAN,
   rstate : RState, backoff : BOOLEAN, localConn : Conn \ {0}, remoteSeq : ID,
   learned : [Networks -> LearnedVal],
   sstate : SState, remoteConn : Conn, localSeq : ID, observing : BOOLEAN,
   lastRISent : Message \cup {None}, restartProbe : BOOLEAN,
   pendingRIRsp : NetTuples, pendingRIUpd : EventTuples,
   pendingEvents : [Networks -> Change \cup {None}],
   retries : 0..RetryCap]

-----------------------------------------------------------------------------
\* Packets (the constructors of aurp/transport.go).  The data receiver's
\* requests carry its own connection ID, the data sender's packets the
\* remote one; only RI-Rsp, RI-Upd and RD are sequenced.

OpenReq(p, s) == [type |-> "OpenReq", to |-> Other(p), conn |-> s.localConn,
                  seq |-> 0, ok |-> Version[p] = 1]
OpenRsp(p, s, ok) == [type |-> "OpenRsp", to |-> Other(p), conn |-> s.remoteConn,
                      seq |-> 0, ok |-> ok]
Request(type, p, s) == [type |-> type, to |-> Other(p), conn |-> s.localConn, seq |-> 0]
TickleAck(p, s) == [type |-> "TickleAck", to |-> Other(p), conn |-> s.remoteConn, seq |-> 0]
RIRsp(p, s, nets, last) ==
  [type |-> "RIRsp", to |-> Other(p), conn |-> s.remoteConn, seq |-> s.localSeq,
   nets |-> nets, last |-> last]
RIUpd(p, s, events) ==
  [type |-> "RIUpd", to |-> Other(p), conn |-> s.remoteConn, seq |-> s.localSeq,
   events |-> events]
SenderRD(p, s) == [type |-> "RD", to |-> Other(p), conn |-> s.remoteConn, seq |-> s.localSeq]
RIAck(p, m) == [type |-> "RIAck", to |-> Other(p), conn |-> m.conn, seq |-> m.seq]

-----------------------------------------------------------------------------
\* Pieces of the handlers, as functions of the peer's state.

\* IncLocalConnID.  Without ConnWraps, MaxConn only bounds the model.
IncConn(c) == IF c = MaxConn THEN 1 ELSE c + 1
CanDisconnectReceiver(s) == ConnWraps \/ s.localConn < MaxConn

\* Mutant: the connection ID stays the same.
DisconnectReceiverSameConn(s) ==
  [s EXCEPT !.learned = NoRoutes, !.remoteSeq = 1, !.rstate = "Unconnected"]

\* Mutant: the routes stay in the RouteTable.
DisconnectReceiverKeepsRoutes(s) ==
  [s EXCEPT !.remoteSeq = 1, !.localConn = IncConn(@), !.rstate = "Unconnected"]

\* The receiver's connection is gone: its routes leave the RouteTable and the
\* next Open-Req uses another connection ID.
DisconnectReceiver(s) ==
  [s EXCEPT !.learned = NoRoutes, !.remoteSeq = 1, !.localConn = IncConn(@),
            !.rstate = "Unconnected"]

\* disconnectReceiver and noteReconnectFailure.
ConnectFailed(s) == [DisconnectReceiver(s) EXCEPT !.backoff = TRUE]

DisconnectSender(s) ==
  [s EXCEPT !.localSeq = 1, !.remoteConn = 0, !.pendingRIRsp = NoTuples,
            !.pendingRIUpd = NoTuples, !.lastRISent = None,
            !.restartProbe = FALSE, !.tickled = FALSE,
            !.pendingEvents = [n \in Networks |-> None], !.sstate = "Unconnected"]

\* Mutant: a retry is not counted.
RetriedUncounted(s) == s

Retried(s) == [s EXCEPT !.retries = IF @ < RetryCap THEN @ + 1 ELSE @]

\* Sending an Open-Req and waiting for the answer.
Opening(s) == [s EXCEPT !.retries = 0, !.rstate = "WaitForOpenRsp"]

\* "If receiver is unconnected, commence connecting": state and packets.
OpenedBack(s) == IF s.rstate = "Unconnected" THEN Opening(s) ELSE s
OpenBackPackets(p, s) == IF s.rstate = "Unconnected" THEN {OpenReq(p, s)} ELSE {}

IncLocalSeq(s) == [s EXCEPT !.localSeq = Succ(@)]

\* A sequenced packet is cached in lastRISent until it is acknowledged.
Sent(s, pkt, sstate) ==
  [s EXCEPT !.lastRISent = pkt, !.sstate = sstate, !.tickled = FALSE]

\* The first ChunkSize networks of what is left to send, and the others.
FirstChunk(f) ==
  LET S == {n \in DOMAIN f : Cardinality({k \in DOMAIN f : k < n}) < ChunkSize}
  IN  [n \in S |-> f[n]]
Without(f, g) == [n \in DOMAIN f \ DOMAIN g |-> f[n]]

\* Mutant: only the first datagram of the snapshot is sent.
SendNextRIRspOnce(p, s) ==
  [Sent(s, RIRsp(p, s, FirstChunk(s.pendingRIRsp), TRUE), "WaitForRIRspAck")
     EXCEPT !.pendingRIRsp = NoTuples]

SendNextRIRsp(p, s) ==
  LET chunk == FirstChunk(s.pendingRIRsp)
      rest == Without(s.pendingRIRsp, chunk)
  IN  [Sent(s, RIRsp(p, s, chunk, DOMAIN rest = {}), "WaitForRIRspAck")
         EXCEPT !.pendingRIRsp = rest]

SendNextRIUpd(p, s) ==
  LET chunk == FirstChunk(s.pendingRIUpd)
  IN  [Sent(s, RIUpd(p, s, chunk), "WaitForRIUpdAck")
         EXCEPT !.pendingRIUpd = Without(s.pendingRIUpd, chunk)]

\* Mutant: the packet is built before the sequence number advances.
SendNullRIUpdLate(p, s) ==
  IncLocalSeq(Sent(s, RIUpd(p, s, NoTuples), "WaitForRIUpdAck"))

SendNullRIUpd(p, s) ==
  LET t == IncLocalSeq(s) IN Sent(t, RIUpd(p, t, NoTuples), "WaitForRIUpdAck")

\* aurpEventForBestTransition on the exported views before and after.
EventFor(before, after) ==
  IF after = NoRoute THEN [code |-> "ND"]
  ELSE [code |-> IF before = NoRoute THEN "NA" ELSE "NDC", dist |-> after]

\* Mutant: changes are only queued while nothing is outstanding.
QueuedWhenConnected(s, n, old, new) ==
  IF ~s.observing \/ s.sstate # "Connected" THEN s
  ELSE [s EXCEPT !.pendingEvents[n] = [before |-> old, after |-> new]]

\* queueBestNetworkTransition: coalesce with what is queued for the network.
Queued(s, n, old, new) ==
  LET before == IF s.pendingEvents[n] = None THEN old ELSE s.pendingEvents[n].before
  IN  IF ~s.observing \/ s.sstate = "Unconnected" THEN s
      ELSE [s EXCEPT !.pendingEvents[n] =
              IF before = new THEN None ELSE [before |-> before, after |-> new]]

\* takePendingEvents and aurpEventsForPendingChanges.
PendingTuples(s) ==
  [n \in {k \in Networks : s.pendingEvents[k] # None} |->
     EventFor(s.pendingEvents[n].before, s.pendingEvents[n].after)]

\* applyRIRspNetworkTuple for every tuple: an upsert, never a deletion.
ApplyTuples(learned, nets) ==
  [n \in Networks |->
     IF n \in DOMAIN nets /\ Reachable(nets[n]) THEN Weighted(nets[n]) ELSE learned[n]]

\* applyRIUpdEvent for every event.
ApplyEvent(old, e) ==
  IF e.code = "ND" THEN NoRoute
  ELSE IF Reachable(e.dist) THEN Weighted(e.dist)
  ELSE IF e.code = "NA" THEN old ELSE NoRoute
ApplyEvents(learned, events) ==
  [n \in Networks |->
     IF n \in DOMAIN events THEN ApplyEvent(learned[n], events[n]) ELSE learned[n]]

-----------------------------------------------------------------------------
\* Frames of the actions.

Spend(k) == budget[k] > 0 /\ budget' = [budget EXCEPT ![k] = @ - 1]

\* p acts on its own: new state s, packets out.
Acts(p, s, out) ==
  /\ peer' = [peer EXCEPT ![p] = s]
  /\ net' = net \cup out
  /\ UNCHANGED <<exported, budget>>

\* A timer of p fires, which needs the quiet condition or a hasty step.
Fires(p, quiet, s, out) ==
  /\ peer' = [peer EXCEPT ![p] = s]
  /\ net' = net \cup out
  /\ \/ quiet /\ UNCHANGED budget
     \/ ~quiet /\ Spend("hasty")
  /\ UNCHANGED exported

\* p's handler for m leaves state s and sends out; the network may deliver
\* another copy of m later.
Handles(p, m, s, out) ==
  /\ peer' = [peer EXCEPT ![p] = s]
  /\ \/ net' = (net \ {m}) \cup out /\ UNCHANGED budget
     \/ net' = net \cup out /\ Spend("dup")
  /\ UNCHANGED exported

\* The Handle loop takes events: in gracefulSenderShutdown only packets and
\* sender timers, and only while the sender waits for an acknowledgement.  The
\* context that ends Handle also ends AURPInput, so that packets come only
\* until it has returned and ReceiveCh is empty ("deaf").
Running(p) == peer[p].mode = "run"
ShuttingDown(p) == peer[p].mode \in {"closing", "deaf"}
Closing(p) == ShuttingDown(p) /\ peer[p].sstate \notin {"Unconnected", "Connected"}
Serving(p) == Running(p) \/ Closing(p)
Hearing(p) == Serving(p) /\ peer[p].mode # "deaf"

\* The process has neither stopped nor given up the tunnel.
Operating(p) == peer[p].mode # "stopped" /\ ~peer[p].loopDisabled

\* A sequenced packet is outstanding.
Waiting(s) == s.sstate \in {"WaitForRIRspAck", "WaitForRIUpdAck", "WaitForRDAck"}

Quiet == net = {}

LocalConnMatches(p, m) == m.conn = peer[p].localConn
RemoteConnMatches(p, m) == peer[p].remoteConn \in {0, m.conn}

-----------------------------------------------------------------------------
\* The Handle loop: start, reconnect signal, receiver timers.

\* RunAll and reconnectPeer start the loop of an unconnected peer, AURPInput
\* that of any peer a datagram arrives from.
StartHandle(p) ==
  LET s == [DisconnectSender(DisconnectReceiver(peer[p]))
              EXCEPT !.mode = "run", !.observing = FALSE]
  IN  /\ peer[p].mode = "idle" /\ ~peer[p].loopDisabled
      /\ peer[p].rstate = "Unconnected" \/ \E m \in net : m.to = p
      /\ CanDisconnectReceiver(peer[p])
      /\ Acts(p, Opening(s), {OpenReq(p, s)})

\* After a failure the next attempt waits for at least ten minutes, longer than
\* a retry sequence lasts.
ReconnectReady(p) ==
  (peer[p].backoff /\ ~ShortTickle) =>
    /\ Quiet
    /\ \A q \in Peers : Running(q) => /\ ~Waiting(peer[q])
                                      /\ peer[q].rstate \in {"Unconnected", "Connected"}

Reconnect(p) ==
  /\ Running(p) /\ peer[p].rstate = "Unconnected"
  /\ Fires(p, ReconnectReady(p), Opening(peer[p]), {OpenReq(p, peer[p])})

\* The packet a waiting receiver repeats, and how often.
Repeats(p) ==
  CASE peer[p].rstate = "WaitForOpenRsp" -> OpenReq(p, peer[p])
    [] peer[p].rstate = "WaitForRIRsp" -> Request("RIReq", p, peer[p])
    [] peer[p].rstate = "WaitForTickleAck" -> Request("Tickle", p, peer[p])
ReceiverLimit(p) ==
  IF peer[p].rstate = "WaitForTickleAck" THEN TickleLimit ELSE RetryLimit

ReceiverTimeout(p) ==
  /\ Running(p)
  /\ peer[p].rstate \in {"WaitForOpenRsp", "WaitForRIRsp", "WaitForTickleAck"}

ReceiverRetry(p) ==
  /\ ReceiverTimeout(p) /\ peer[p].retries < ReceiverLimit(p)
  /\ Fires(p, Quiet, Retried(peer[p]), {Repeats(p)})

ReceiverGivesUp(p) ==
  /\ ReceiverTimeout(p) /\ peer[p].retries >= ReceiverLimit(p)
  /\ CanDisconnectReceiver(peer[p])
  /\ Fires(p, Quiet, ConnectFailed(peer[p]), {})

\* Nothing heard for LastHeardTimeout.  The time counts from the last packet
\* heard, so that a Tickle may fall into the retries of an outstanding packet,
\* and both use sendRetries.  With the default of 90 s at most one does; with
\* 30 s, which may be configured, several.
SendTickle(p) ==
  /\ Running(p) /\ peer[p].rstate = "Connected"
  /\ ShortTickle \/ ~(Waiting(peer[p]) /\ peer[p].tickled)
  /\ Fires(p, Quiet, [peer[p] EXCEPT !.rstate = "WaitForTickleAck", !.retries = 0,
                                     !.tickled = Waiting(peer[p])],
           {Request("Tickle", p, peer[p])})

\* Unconnected receiver, connected sender: a Null RI-Upd asks whether the
\* other side still holds the connection.  Reaching the limit only logs.
ProbeSender(p) ==
  LET s == SendNullRIUpd(p, Retried(peer[p]))
  IN  /\ Running(p)
      /\ peer[p].rstate = "Unconnected" /\ peer[p].sstate = "Connected"
      /\ Fires(p, Quiet, s, {s.lastRISent})

-----------------------------------------------------------------------------
\* Sender timers (stickerTasks).

SendUpdates(p) ==
  LET s == IncLocalSeq([peer[p] EXCEPT !.pendingRIUpd = PendingTuples(peer[p]),
                                       !.pendingEvents = [n \in Networks |-> None]])
      t == SendNextRIUpd(p, s)
  IN  /\ Running(p) /\ peer[p].sstate = "Connected"
      /\ \E n \in Networks : peer[p].pendingEvents[n] # None
      /\ Acts(p, t, {t.lastRISent})

SenderTimeout(p) == Serving(p) /\ Waiting(peer[p])

SenderRetry(p) ==
  /\ SenderTimeout(p) /\ peer[p].lastRISent # None
  /\ peer[p].retries < RetryLimit
  /\ Fires(p, Quiet, Retried(peer[p]), {peer[p].lastRISent})

\* Retry limit: a restart probe or a Router Down closes the connection with
\* disconnectSender, any other packet only changes the state.
SenderGivesUp(p) ==
  LET s == [peer[p] EXCEPT !.observing = FALSE]
  IN  /\ SenderTimeout(p)
      /\ \/ /\ s.sstate = "WaitForRDAck"
            /\ s.retries >= RetryLimit \/ s.lastRISent = None
            /\ Fires(p, Quiet, DisconnectSender(s), {})
         \/ /\ s.sstate # "WaitForRDAck"
            /\ s.retries >= RetryLimit /\ s.lastRISent # None
            /\ Fires(p, Quiet, IF s.restartProbe THEN DisconnectSender(s)
                               ELSE [s EXCEPT !.sstate = "Unconnected"], {})

-----------------------------------------------------------------------------
\* Packet handlers.  Every handler but handleOpenReq first compares the
\* connection ID and drops a packet of another connection.

ForReceiver(m) == m.type \in {"OpenRsp", "RIRsp", "RIUpd", "TickleAck"}
                    \/ (m.type = "RD" /\ m.seq # 0)
ForSender(m) == m.type \in {"RIReq", "RIAck", "Tickle"} \/ (m.type = "RD" /\ m.seq = 0)

DropOtherConnection(p, m) ==
  /\ \/ ForReceiver(m) /\ ~LocalConnMatches(p, m)
     \/ ForSender(m) /\ ~RemoteConnMatches(p, m)
  /\ Handles(p, m, peer[p], {})

\* Mutant: every version is accepted.
HandleOpenReqAnyVersion(p, m) ==
  LET s == peer[p]
      opened == [s EXCEPT !.remoteConn = m.conn, !.sstate = "Connected",
                          !.observing = TRUE]
  IN  /\ m.type = "OpenReq" /\ s.sstate = "Unconnected"
      /\ Handles(p, m, OpenedBack(opened),
                 {OpenRsp(p, opened, TRUE)} \cup OpenBackPackets(p, opened))

\* A connected sender probes the old connection when an Open-Req with another
\* connection ID arrives; a sender with a packet outstanding drops Open-Reqs.
HandleOpenReq(p, m) ==
  LET s == peer[p]
      probing == [SendNullRIUpd(p, [s EXCEPT !.retries = 0]) EXCEPT !.restartProbe = TRUE]
      opened == [s EXCEPT !.remoteConn = m.conn,
                          !.sstate = IF m.ok THEN "Connected" ELSE @,
                          !.observing = @ \/ m.ok]
  IN  /\ m.type = "OpenReq"
      /\ \/ /\ s.sstate # "Unconnected"
            /\ s.remoteConn = 0 \/ s.sstate # "Connected"
            /\ Handles(p, m, s, {})
         \/ /\ s.sstate = "Connected" /\ s.remoteConn \notin {0, m.conn}
            /\ Handles(p, m, probing, {probing.lastRISent})
         \/ /\ s.sstate = "Unconnected"
               \/ (s.sstate = "Connected" /\ s.remoteConn = m.conn /\ m.conn # 0)
            /\ Handles(p, m, OpenedBack(opened),
                       {OpenRsp(p, opened, m.ok)} \cup OpenBackPackets(p, opened))

HandleOpenRsp(p, m) ==
  LET s == peer[p]
  IN  /\ m.type = "OpenRsp" /\ LocalConnMatches(p, m)
      /\ \/ /\ ~m.ok /\ CanDisconnectReceiver(s)
            /\ Handles(p, m, ConnectFailed(s), {})
         \/ /\ m.ok
            /\ Handles(p, m, [s EXCEPT !.retries = 0, !.rstate = "WaitForRIRsp",
                                       !.remoteSeq = 1],
                       {Request("RIReq", p, s)})

\* Mutant: an RI-Req is answered while a packet is outstanding.
HandleRIReqAlways(p, m) ==
  LET s == peer[p]
      t == SendNextRIRsp(p, [s EXCEPT
             !.localSeq = 1,
             !.pendingRIRsp = [n \in {k \in Networks : exported[p][k] # NoRoute} |->
                                 exported[p][n]]])
  IN  /\ m.type = "RIReq" /\ RemoteConnMatches(p, m)
      /\ \/ s.sstate = "Unconnected" /\ Handles(p, m, s, {})
         \/ s.sstate # "Unconnected" /\ Handles(p, m, t, {t.lastRISent})

\* The snapshot of the exported routes, unless a packet is outstanding.
HandleRIReq(p, m) ==
  LET s == peer[p]
      t == SendNextRIRsp(p, [s EXCEPT
             !.localSeq = 1,
             !.pendingRIRsp = [n \in {k \in Networks : exported[p][k] # NoRoute} |->
                                 exported[p][n]]])
  IN  /\ m.type = "RIReq" /\ RemoteConnMatches(p, m)
      /\ \/ s.sstate # "Connected" /\ Handles(p, m, s, {})
         \/ s.sstate = "Connected" /\ Handles(p, m, t, {t.lastRISent})

\* checkRemoteSeq for a packet other than the expected one: the previous one
\* is acknowledged again, the next one resets the receiver, others are stale.
\* An RI-Upd that arrives before the receiver is open is not checked.
SeqChecked(s, m) ==
  \/ m.type = "RIRsp"
  \/ m.type = "RD" /\ m.seq # 0
  \/ m.type = "RIUpd" /\ s.rstate \notin {"Unconnected", "WaitForOpenRsp"}

\* An RI-Upd proves the sender alive while a Tickle-Ack is awaited.
Alive(s, m) ==
  IF m.type = "RIUpd" /\ s.rstate = "WaitForTickleAck"
  THEN [s EXCEPT !.rstate = "Connected"] ELSE s

HandleOutOfSequence(p, m) ==
  LET s == Alive(peer[p], m)
  IN  /\ SeqChecked(peer[p], m) /\ LocalConnMatches(p, m)
      /\ \/ m.seq = Pred(s.remoteSeq) /\ Handles(p, m, s, {RIAck(p, m)})
         \/ /\ m.seq = Succ(s.remoteSeq) /\ CanDisconnectReceiver(s)
            /\ Handles(p, m, DisconnectReceiver(s), {})
         \/ /\ m.seq \notin {Pred(s.remoteSeq), s.remoteSeq, Succ(s.remoteSeq)}
            /\ Handles(p, m, s, {})

Expected(p, m) == LocalConnMatches(p, m) /\ m.seq = peer[p].remoteSeq

HandleRIRsp(p, m) ==
  LET s == peer[p]
  IN  /\ m.type = "RIRsp" /\ Expected(p, m)
      /\ Handles(p, m, [s EXCEPT !.learned = ApplyTuples(@, m.nets),
                                 !.rstate = IF m.last THEN "Connected" ELSE @,
                                 !.backoff = IF m.last THEN FALSE ELSE @,
                                 !.remoteSeq = Succ(@)],
                 {RIAck(p, m)})

\* The acknowledgement of the outstanding packet: the next chunk if there is
\* one, otherwise the sender is connected.  An acknowledgement with the current
\* sequence number is not dropped in the states that await none.
HandleRIAck(p, m) ==
  LET s == [peer[p] EXCEPT !.retries = 0]
      moreRsp == s.sstate = "WaitForRIRspAck" /\ DOMAIN s.pendingRIRsp # {}
      moreUpd == s.sstate = "WaitForRIUpdAck" /\ DOMAIN s.pendingRIUpd # {}
      probed == s.sstate = "WaitForRIUpdAck" /\ s.restartProbe
      rsp == SendNextRIRsp(p, IncLocalSeq(s))
      upd == SendNextRIUpd(p, IncLocalSeq(s))
      done == [s EXCEPT !.sstate = "Connected", !.observing = TRUE]
  IN  /\ m.type = "RIAck" /\ RemoteConnMatches(p, m)
      /\ \/ m.seq # s.localSeq /\ Handles(p, m, peer[p], {})
         \/ /\ m.seq = s.localSeq /\ probed
            /\ Handles(p, m, [s EXCEPT !.restartProbe = FALSE, !.lastRISent = None,
                                       !.sstate = "Connected"], {})
         \/ /\ m.seq = s.localSeq /\ s.sstate = "WaitForRDAck"
            /\ Handles(p, m, DisconnectSender([s EXCEPT !.observing = FALSE]), {})
         \/ m.seq = s.localSeq /\ moreRsp /\ Handles(p, m, rsp, {rsp.lastRISent})
         \/ /\ m.seq = s.localSeq /\ moreUpd /\ ~probed
            /\ Handles(p, m, upd, {upd.lastRISent})
         \/ /\ m.seq = s.localSeq
            /\ s.sstate # "WaitForRDAck" /\ ~moreRsp /\ ~moreUpd /\ ~probed
            /\ Handles(p, m, OpenedBack(done), OpenBackPackets(p, done))

HandleRIUpd(p, m) ==
  LET s == Alive(peer[p], m)
      riReq == Request("RIReq", p, s)
  IN  /\ m.type = "RIUpd" /\ LocalConnMatches(p, m)
      /\ \/ /\ s.rstate \in {"Unconnected", "WaitForOpenRsp"}
            /\ Handles(p, m, [s EXCEPT !.rstate = "WaitForRIRsp", !.remoteSeq = 1,
                                       !.retries = 0], {riReq})
         \/ /\ s.rstate = "WaitForRIRsp" /\ Expected(p, m)
            /\ Handles(p, m, [s EXCEPT !.remoteSeq = Succ(@), !.retries = 0],
                       {RIAck(p, m), riReq})
         \/ /\ s.rstate = "Connected" /\ Expected(p, m)
            /\ Handles(p, m, [s EXCEPT !.learned = ApplyEvents(@, m.events),
                                       !.remoteSeq = Succ(@)], {RIAck(p, m)})

HandleRD(p, m) ==
  LET s == peer[p]
  IN  /\ m.type = "RD"
      /\ \/ /\ m.seq = 0 /\ RemoteConnMatches(p, m)
            /\ Handles(p, m, DisconnectSender([s EXCEPT !.observing = FALSE]), {})
         \/ /\ m.seq # 0 /\ Expected(p, m) /\ CanDisconnectReceiver(s)
            /\ Handles(p, m, DisconnectReceiver(s), {RIAck(p, m)})

\* A Tickle is answered whatever the state of the sender.
HandleTickle(p, m) ==
  /\ m.type = "Tickle" /\ RemoteConnMatches(p, m)
  /\ Handles(p, m, peer[p], {TickleAck(p, peer[p])})

HandleTickleAck(p, m) ==
  LET s == peer[p]
  IN  /\ m.type = "TickleAck" /\ LocalConnMatches(p, m)
      /\ \/ /\ s.rstate = "WaitForTickleAck"
            /\ Handles(p, m, [s EXCEPT !.rstate = "Connected", !.retries = 0], {})
         \/ s.rstate # "WaitForTickleAck" /\ Handles(p, m, s, {})

HandlePacket(p, m) ==
  \/ DropOtherConnection(p, m)
  \/ HandleOpenReq(p, m)
  \/ HandleOpenRsp(p, m)
  \/ HandleRIReq(p, m)
  \/ HandleOutOfSequence(p, m)
  \/ HandleRIRsp(p, m)
  \/ HandleRIAck(p, m)
  \/ HandleRIUpd(p, m)
  \/ HandleRD(p, m)
  \/ HandleTickle(p, m)
  \/ HandleTickleAck(p, m)

Receive(p) == Hearing(p) /\ \E m \in net : m.to = p /\ HandlePacket(p, m)

-----------------------------------------------------------------------------
\* Forward runs on another goroutine: sendTickleBeforeDataIfNeeded reads the
\* receiver state, sends a Tickle, and only then stores the new state.

ForwardTickle(p) ==
  /\ TickleBeforeData
  /\ peer[p].mode # "stopped" /\ ~peer[p].tickling
  /\ peer[p].rstate = "Connected"
  /\ Fires(p, Quiet, [peer[p] EXCEPT !.tickling = TRUE],
           {Request("Tickle", p, peer[p])})

ForwardTickleStore(p) ==
  /\ peer[p].tickling /\ peer[p].mode # "stopped"
  /\ Acts(p, [peer[p] EXCEPT !.tickling = FALSE, !.retries = 0,
                             !.rstate = "WaitForTickleAck"], {})

-----------------------------------------------------------------------------
\* Ends of the Handle loop.

\* The process is asked to stop (ctx.Done).
Shutdown(p) ==
  /\ Running(p) /\ Spend("shutdown")
  /\ peer' = [peer EXCEPT ![p].mode = "closing"]
  /\ UNCHANGED <<exported, net>>

\* AURPInput sees ctx.Done too, within 100 ms, and its last packet is handled.
InputEnds(p) ==
  /\ peer[p].mode = "closing"
  /\ Acts(p, [peer[p] EXCEPT !.mode = "deaf"], {})

\* gracefulSenderShutdown at the top of its loop.
ShutdownStep(p) ==
  LET s == IncLocalSeq([peer[p] EXCEPT !.retries = 0])
      t == Sent(s, SenderRD(p, s), "WaitForRDAck")
  IN  /\ ShuttingDown(p)
      /\ \/ /\ peer[p].sstate = "Connected"
            /\ Acts(p, t, {t.lastRISent})
         \/ /\ peer[p].sstate = "Unconnected"
            /\ Acts(p, [peer[p] EXCEPT !.mode = "stopped", !.observing = FALSE], {})

\* A failed write ends it at once.
ShutdownFails(p) ==
  /\ ShuttingDown(p) /\ peer[p].sstate # "Unconnected"
  /\ Acts(p, [peer[p] EXCEPT !.mode = "stopped", !.observing = FALSE], {})

\* handleConfirmedRoutingLoop: the tunnel is disabled for good.
ConfirmLoop(p) ==
  LET s == IF peer[p].sstate = "Unconnected" THEN peer[p] ELSE IncLocalSeq(peer[p])
  IN  /\ Running(p) /\ CanDisconnectReceiver(s) /\ Spend("loop")
      /\ peer' = [peer EXCEPT ![p] = [DisconnectSender(DisconnectReceiver(s))
                     EXCEPT !.mode = "idle", !.loopDisabled = TRUE, !.observing = FALSE]]
      /\ net' = net \cup (IF s.sstate = "Unconnected" THEN {} ELSE {SenderRD(p, s)})
      /\ UNCHANGED exported

\* A failed UDP write ends the Handle loop in the middle of a handler, whose
\* packet m is gone and whose earlier writes, out, are sent.  The next start
\* disconnects both roles, so that of what the handler had done only the
\* receiver state and the routes are kept: nothing reads the other fields before.
Ends(p, rstate, learned) ==
  peer' = [peer EXCEPT ![p] = [@ EXCEPT !.mode = "idle", !.observing = FALSE,
                                        !.rstate = rstate, !.learned = learned]]
CutShort(p, m, rstate, learned, out) ==
  Ends(p, rstate, learned) /\ net' = (net \ {m}) \cup out

\* The handlers that have already done something: Open-Rsp sent but not the
\* Open-Req that follows, receiver connected but no RI-Req sent, routes changed
\* but no RI-Ack sent.  (The RI-Ack of an early RI-Upd sent, but not the RI-Req
\* that follows, is left out.)
HandlerFails(p, m) ==
  LET s == peer[p] IN
  \/ m.type # "TickleAck" /\ CutShort(p, m, s.rstate, s.learned, {})
  \/ /\ m.type = "OpenReq" /\ {s.sstate, s.rstate} = {"Unconnected"}
     /\ CutShort(p, m, s.rstate, s.learned,
                 {OpenRsp(p, [s EXCEPT !.remoteConn = m.conn], m.ok)})
  \/ /\ m.type = "OpenRsp" /\ m.ok /\ LocalConnMatches(p, m)
     /\ CutShort(p, m, "Connected", s.learned, {})
  \/ /\ m.type = "RIRsp" /\ Expected(p, m)
     /\ CutShort(p, m, s.rstate, ApplyTuples(s.learned, m.nets), {})
  \/ /\ m.type = "RIUpd" /\ Expected(p, m) /\ Alive(s, m).rstate = "Connected"
     /\ CutShort(p, m, "Connected", ApplyEvents(s.learned, m.events), {})

SendFails(p) ==
  /\ Running(p) /\ Spend("sendfail")
  /\ \/ Ends(p, peer[p].rstate, peer[p].learned) /\ UNCHANGED net
     \/ \E m \in net : m.to = p /\ HandlerFails(p, m)
  /\ UNCHANGED exported

-----------------------------------------------------------------------------
\* The environment: local routes, datagrams, processes.

\* The best local route of a network changes and the RouteTable informs its
\* observers.
ChangeRoute(p) ==
  \E n \in Networks, new \in RouteVal :
    /\ new # exported[p][n] /\ Spend("change")
    /\ exported' = [exported EXCEPT ![p][n] = new]
    /\ peer' = [peer EXCEPT ![p] = Queued(@, n, exported[p][n], new)]
    /\ UNCHANGED net

Lose ==
  /\ Spend("loss")
  /\ \E m \in net : net' = net \ {m}
  /\ UNCHANGED <<peer, exported>>

\* Nobody takes a datagram sent to a stopped process or a disabled tunnel.
Unheard ==
  /\ \E m \in net : (~Operating(m.to) \/ peer[m.to].mode = "deaf") /\ net' = net \ {m}
  /\ UNCHANGED <<peer, exported, budget>>

NewPeer(conn) ==
  [mode |-> "idle", loopDisabled |-> FALSE, tickling |-> FALSE, tickled |-> FALSE,
   rstate |-> "Unconnected", backoff |-> FALSE, localConn |-> conn, remoteSeq |-> 1,
   learned |-> NoRoutes,
   sstate |-> "Unconnected", remoteConn |-> 0, localSeq |-> 1, observing |-> FALSE,
   lastRISent |-> None, restartProbe |-> FALSE,
   pendingRIRsp |-> NoTuples, pendingRIUpd |-> NoTuples,
   pendingEvents |-> [n \in Networks |-> None], retries |-> 0]

\* The process dies and comes back with another connection ID.
Restart(p) ==
  /\ CanDisconnectReceiver(peer[p])
  /\ Spend(IF Quiet THEN "restart" ELSE "crash")
  /\ peer' = [peer EXCEPT ![p] = NewPeer(IncConn(@.localConn))]
  /\ UNCHANGED <<exported, net>>

\* Another implementation may close the connection from the receiver's side;
\* no code of this repository sends that packet.
ReceiverRD(p) ==
  /\ peer[p].rstate = "Unconnected" /\ Spend("receiverRD")
  /\ \E c \in 1..peer[p].localConn :
        net' = net \cup {[type |-> "RD", to |-> Other(p), conn |-> c, seq |-> 0]}
  /\ UNCHANGED <<peer, exported>>

-----------------------------------------------------------------------------
Init ==
  /\ peer = [p \in Peers |-> NewPeer(1)]
  /\ exported = Initial
  /\ net = {}
  /\ budget \in Budgets

RTickerTasks(p) ==
  ReceiverRetry(p) \/ ReceiverGivesUp(p) \/ SendTickle(p) \/ ProbeSender(p)
STickerTasks(p) == SendUpdates(p) \/ SenderRetry(p) \/ SenderGivesUp(p)

\* Steps the program takes by itself.
System(p) ==
  \/ StartHandle(p) \/ Reconnect(p) \/ RTickerTasks(p) \/ STickerTasks(p)
  \/ Receive(p) \/ ForwardTickleStore(p) \/ InputEnds(p) \/ ShutdownStep(p)

Environment(p) ==
  \/ ForwardTickle(p) \/ Shutdown(p) \/ ShutdownFails(p) \/ ConfirmLoop(p)
  \/ SendFails(p)
  \/ ChangeRoute(p) \/ Restart(p) \/ ReceiverRD(p)

Next == Lose \/ Unheard \/ \E p \in Peers : System(p) \/ Environment(p)

Spec == Init /\ [][Next]_vars

\* The goroutines run, the peer table keeps signalling reconnects, and
\* datagrams that are not lost arrive.  A ticker fires whatever else happens,
\* so a timer branch that is enabled again and again is taken.
Fairness ==
  /\ WF_vars(Unheard)
  /\ \A p \in Peers :
      /\ WF_vars(StartHandle(p) \/ (Running(p) /\ Receive(p)) \/ ShutdownStep(p))
      /\ WF_vars(ForwardTickleStore(p)) /\ WF_vars(InputEnds(p))
      /\ SF_vars(Reconnect(p)) /\ SF_vars(RTickerTasks(p)) /\ SF_vars(STickerTasks(p))

FairSpec == Spec /\ Fairness

-----------------------------------------------------------------------------
\* Every field of the peer object, every queue and every datagram keeps its type.
TypeOK ==
  /\ peer \in [Peers -> PeerState]
  /\ exported \in [Peers -> [Networks -> RouteVal]]
  /\ net \subseteq Message
  /\ budget \in [EnvKinds -> Nat]

Outstanding(s) ==
  /\ Waiting(s) => /\ s.lastRISent # None
                   /\ s.lastRISent.seq = s.localSeq
                   /\ s.lastRISent.conn = s.remoteConn
  /\ s.sstate = "WaitForRIRspAck" => s.lastRISent.type = "RIRsp"
  /\ s.restartProbe => s.sstate = "WaitForRIUpdAck"

\* A sender that waits for an acknowledgement always has the packet to repeat,
\* and it carries the connection ID and the sequence number handleRIAck will
\* compare; the wait for an RI-Rsp's acknowledgement repeats an RI-Rsp, and a
\* restart probe is the wait for an RI-Upd's.
OutstandingPacket == \A p \in Peers : Outstanding(peer[p])

\* AURP-Tr permits one outstanding routing-information packet: while the sender
\* waits, the packet it repeats is replaced only when the acknowledgement of
\* that packet has arrived, and then by the next one in sequence.  (handleRIReq:
\* "Do not overwrite or resequence the active RI-Rsp/RI-Upd/RD.")
OneOutstanding ==
  [][\A p \in Peers :
       LET s == peer[p]
           t == peer'[p]
       IN  (Waiting(s) /\ Waiting(t) /\ t.lastRISent # s.lastRISent) =>
             /\ t.localSeq = Succ(s.localSeq)
             /\ \E m \in net : /\ m.type = "RIAck" /\ m.to = p
                              /\ m.seq = s.lastRISent.seq]_vars

\* The receiver whose connection ID a datagram carries.
Owner(m) == IF ForReceiver(m) THEN m.to ELSE Other(m.to)

\* The receiver has got past the Open exchange of its current connection.
Opened(s) == s.rstate \notin {"Unconnected", "WaitForOpenRsp"}

\* Receiver r has used m's connection ID, and has opened that connection if m
\* belongs to its synchronisation.
FreshIn(m, r) ==
  /\ m.conn <= r.localConn
  /\ (m.type \in {"RIReq", "RIRsp"} /\ m.conn = r.localConn) => Opened(r)
FreshFor(m) == FreshIn(m, peer[Owner(m)])

\* IncLocalConnID on every disconnect keeps connections apart: no datagram and
\* no sender knows a connection ID its receiver has not used yet, and while the
\* receiver's current connection is still being opened, neither an RI-Req nor
\* an RI-Rsp of that connection exists anywhere, not even to be repeated.
FreshConnections ==
  /\ \A m \in net : FreshFor(m)
  /\ \A p \in Peers :
        /\ peer[p].remoteConn <= peer[Other(p)].localConn
        /\ peer[p].lastRISent # None =>
             /\ peer[p].lastRISent.to = Other(p)
             /\ ForReceiver(peer[p].lastRISent)
             /\ FreshFor(peer[p].lastRISent)

\* disconnectReceiver: once the receiver connection is lost, none of the
\* routes learned on it remains, and no packet of an earlier connection
\* brings one back before the next synchronisation.
NoRoutesUnlessOpen ==
  \A p \in Peers :
    peer[p].rstate \in {"Unconnected", "WaitForOpenRsp"} => peer[p].learned = NoRoutes

\* A receiver that asks for another protocol version is refused: it learns no
\* route and no sender ever opens a connection to it (handleOpenReq answers
\* with ErrCodeInvalidVersion).
RefusedVersion ==
  \A p \in Peers :
    Version[p] # 1 => /\ peer[p].learned = NoRoutes
                      /\ peer[Other(p)].sstate = "Unconnected"

\* "The internal states below are only set within the Handle loop": the
\* receiver begins to wait for a Tickle-Ack only from the connected state.
TickleFromConnected ==
  [][\A p \in Peers :
       (peer[p].rstate # "WaitForTickleAck" /\ peer'[p].rstate = "WaitForTickleAck")
         => peer[p].rstate = "Connected"]_vars

\* What the other side should have learned from p's exported routes, unless p
\* refuses its version.
View(p) ==
  [n \in Networks |->
     IF /\ Version[Other(p)] = 1
        /\ exported[p][n] # NoRoute /\ Reachable(exported[p][n])
     THEN Weighted(exported[p][n]) ELSE NoRoute]

\* p's sender and the other side's receiver are the two ends of one
\* connection, with nothing in flight, outstanding or queued.
Settled(p) ==
  /\ net = {}
  /\ Running(p) /\ Running(Other(p))
  /\ peer[p].sstate = "Connected" /\ peer[Other(p)].rstate = "Connected"
  /\ peer[p].remoteConn = peer[Other(p)].localConn
  /\ peer[p].pendingEvents = [n \in Networks |-> None]

\* A settled connection has brought the receiver the sender's current routes.
SettledViewsAgree ==
  \A p \in Peers : Settled(p) => peer[Other(p)].learned = View(p)

\* Once the environment is quiet every router ends up with exactly the other's
\* routes, and with none of a router that has gone.
EventuallyViewsAgree ==
  <>[](\A p \in Peers : Operating(Other(p)) =>
         peer[Other(p)].learned = IF Operating(p) THEN View(p) ELSE NoRoutes)
=============================================================================
