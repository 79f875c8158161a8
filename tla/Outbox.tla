------------------------------- MODULE Outbox -------------------------------
(***************************************************************************)
(* Sending on an EtherTalk port: the address mapping table (aarp.go) and   *)
(* the outboxes that hold packets while an address is resolved             *)
(* (etalk_port.go).                                                        *)
(*                                                                         *)
(* Send runs in the goroutine of whoever forwards a packet: it looks the   *)
(* next hop up (Lookup) and, when the entry is not valid, pushes the packet*)
(* under the entry's wait channel (Push); the table may change in between. *)
(* The Outbox goroutine collects the wait channels (Build) and selects     *)
(* among them, the resend ticker and outboxesChangedCh.                    *)
(*                                                                         *)
(* A wait channel is <<address, generation>>; learn closes the channel of  *)
(* the entry's generation and starts the next.  AARP Requests are not      *)
(* represented: an answer or a gleaned packet may come at any time.        *)
(***************************************************************************)
EXTENDS Naturals, Sequences, FiniteSets, SequencesExt

CONSTANTS Packets,        \* unicast packets
          Dest,           \* the next hop of each
          maxOutboxSize,
          MaxLearn,       \* bound: how often each address is learned
          Prompt,         \* a packet whose channel was closed is on its way before the
                          \* entry expires, 30 s later
          None

Addrs == {Dest[p] : p \in Packets}

ASSUME OutAssumption ==
  /\ IsFiniteSet(Packets)
  /\ maxOutboxSize \in Nat \ {0} /\ MaxLearn \in Nat
  /\ None \notin Addrs \X (0 .. MaxLearn)

VARIABLES amt,       \* address -> entry
          outboxes,  \* wait channel -> outbox
          changed,   \* outboxesChangedCh holds a token
          pushing,   \* packets between lookupOrWait and outboxPush, with their channel
          box,       \* the Outbox goroutine
          fresh,     \* packets not yet given to Send
          sent       \* how often each packet was written to the device

outVars == <<amt, outboxes, changed, pushing, box, fresh, sent>>

Waiting == DOMAIN outboxes
Closed(ch) == ch[2] < amt[ch[1]].gen
Drop(chs) == [ch \in Waiting \ chs |-> outboxes[ch]]
With(boxes, ch, ob) == [c \in DOMAIN boxes \cup {ch} |-> IF c = ch THEN ob ELSE boxes[c]]

-----------------------------------------------------------------------------
(* The address mapping table. *)

\* learn: from an AARP Request or Response, or gleaned from a packet.
learn(a) ==
  /\ amt[a].gen < MaxLearn
  /\ amt' = [amt EXCEPT ![a] = [there |-> TRUE, valid |-> TRUE,
                                gen |-> IF amt[a].there THEN @.gen + 1 ELSE @.gen]]
  /\ UNCHANGED <<outboxes, changed, pushing, box, fresh, sent>>

\* An entry is older than maxAMTEntryAge.
Expire(a) ==
  /\ amt[a].valid
  /\ Prompt => \A ch \in Waiting \cup (Range(pushing) \ {None}) : ch[1] = a => ~Closed(ch)
  /\ amt' = [amt EXCEPT ![a].valid = FALSE]
  /\ UNCHANGED <<outboxes, changed, pushing, box, fresh, sent>>

\* lookupOrWait makes an entry where there is none.
Looked(a) == [amt EXCEPT ![a].there = TRUE]

-----------------------------------------------------------------------------
(* Send. *)

\* A valid entry: written at once.  Otherwise the packet goes to an outbox.
Lookup(p) ==
  LET a == Dest[p] IN
  /\ p \in fresh
  /\ fresh' = fresh \ {p}
  /\ amt' = Looked(a)
  /\ \/ /\ amt[a].valid
        /\ sent' = [sent EXCEPT ![p] = @ + 1]
        /\ UNCHANGED pushing
     \/ /\ ~amt[a].valid
        /\ pushing' = [pushing EXCEPT ![p] = <<a, amt[a].gen>>]
        /\ UNCHANGED sent
  /\ UNCHANGED <<outboxes, changed, box>>

\* outboxPush: append to the channel's outbox, dropping the oldest packet beyond the
\* limit, or make one and tell the Outbox goroutine.
TrimKeepsExcess(s) ==
  IF Len(s) > maxOutboxSize THEN SubSeq(s, maxOutboxSize + 1, Len(s)) ELSE s
Trim(s) == IF Len(s) > maxOutboxSize THEN SubSeq(s, Len(s) - maxOutboxSize + 1, Len(s)) ELSE s
Unsignalled(ch) == changed
Notify(ch) == changed \/ ch \notin Waiting
Push(p) ==
  LET ch == pushing[p]
      old == IF ch \in Waiting THEN outboxes[ch].packets ELSE <<>>
  IN
  /\ ch # None
  /\ pushing' = [pushing EXCEPT ![p] = None]
  /\ outboxes' = With(outboxes, ch, [packets |-> Trim(Append(old, p)), stale |-> FALSE])
  /\ changed' = Notify(ch)
  /\ UNCHANGED <<amt, box, fresh, sent>>

\* An outbox has had no new packet for outboxTimeout.
GoStale(ch) ==
  /\ ch \in Waiting /\ ~outboxes[ch].stale
  /\ outboxes' = [outboxes EXCEPT ![ch].stale = TRUE]
  /\ UNCHANGED <<amt, changed, pushing, box, fresh, sent>>

-----------------------------------------------------------------------------
(* The Outbox goroutine. *)

StaleOnes == {ch \in Waiting : outboxes[ch].stale}

Building == [pc |-> "build", cases |-> {}, out |-> <<>>]

\* Collect the cases of the select.
Build ==
  /\ box.pc = "build"
  /\ box' = [box EXCEPT !.pc = "select", !.cases = Waiting]
  /\ UNCHANGED <<amt, outboxes, changed, pushing, fresh, sent>>

\* case <-port.outboxesChangedCh.
Refresh ==
  /\ box.pc = "select" /\ changed
  /\ changed' = FALSE
  /\ box' = Building
  /\ UNCHANGED <<amt, outboxes, pushing, fresh, sent>>

\* case <-resolveTicker.C, there only when an outbox was: resendAARPRequests deletes the
\* first stale outbox it comes to and returns.
resendInPlace ==
  /\ box.pc = "select" /\ box.cases # {}
  /\ \/ StaleOnes = {} /\ UNCHANGED outboxes
     \/ \E ch \in StaleOnes : outboxes' = Drop({ch})
  /\ UNCHANGED <<amt, changed, box, pushing, fresh, sent>>
resendAARPRequests ==
  /\ box.pc = "select" /\ box.cases # {}
  /\ \/ StaleOnes = {} /\ UNCHANGED outboxes
     \/ \E ch \in StaleOnes : outboxes' = Drop({ch})
  /\ box' = Building
  /\ UNCHANGED <<amt, changed, pushing, fresh, sent>>

\* A wait channel was closed: outboxPop takes its outbox out and looks the address up
\* again.  Resolved, its packets are written; not resolved any more, it is dropped when
\* stale and otherwise put back under the entry's new channel.
outboxPop ==
  /\ box.pc = "select"
  /\ \E ch \in box.cases :
       LET a == ch[1]
           ob == outboxes[ch]
       IN
       /\ Closed(ch)
       /\ amt' = Looked(a)
       /\ IF amt[a].valid
          THEN /\ box' = [pc |-> "send", cases |-> {}, out |-> ob.packets]
               /\ outboxes' = Drop({ch})
          ELSE /\ box' = Building
               /\ outboxes' = IF ob.stale THEN Drop({ch})
                              ELSE With(Drop({ch}), <<a, amt[a].gen>>, ob)
  /\ UNCHANGED <<changed, pushing, fresh, sent>>

\* The packets of the outbox are written one by one.
SendPastEnd ==
  /\ box.pc = "send"
  /\ sent' = [sent EXCEPT ![Head(box.out)] = @ + 1]
  /\ box' = [box EXCEPT !.out = Tail(@)]
  /\ UNCHANGED <<amt, outboxes, changed, pushing, fresh>>
SendNext ==
  /\ box.pc = "send"
  /\ sent' = [sent EXCEPT ![Head(box.out)] = @ + 1]
  /\ box' = IF Len(box.out) = 1 THEN Building ELSE [box EXCEPT !.out = Tail(@)]
  /\ UNCHANGED <<amt, outboxes, changed, pushing, fresh>>

\* A write fails, of a packet or of an AARP Request: the goroutine returns, with what it
\* had left to send.
SendFails ==
  /\ box.pc = "send" \/ (box.pc = "select" /\ box.cases # {} /\ Waiting # StaleOnes)
  /\ box' = [Building EXCEPT !.pc = "returned"]
  /\ UNCHANGED <<amt, outboxes, changed, pushing, fresh, sent>>
-----------------------------------------------------------------------------
OutInit ==
  /\ amt = [a \in Addrs |-> [there |-> FALSE, valid |-> FALSE, gen |-> 0]]
  /\ outboxes = [ch \in {} |-> <<>>]
  /\ changed = FALSE
  /\ pushing = [p \in Packets |-> None]
  /\ box = [Building EXCEPT !.pc = "select"]
  /\ fresh = Packets
  /\ sent = [p \in Packets |-> 0]

Goroutine == Build \/ Refresh \/ resendAARPRequests \/ outboxPop \/ SendNext
Senders == \E p \in Packets : Push(p)
Clock == (\E a \in Addrs : Expire(a)) \/ (\E ch \in Waiting : GoStale(ch))
OutStep == Goroutine \/ Senders \/ Clock \/ SendFails
OutNext == OutStep \/ (\E p \in Packets : Lookup(p)) \/ (\E a \in Addrs : learn(a))
OutSpec == OutInit /\ [][OutNext]_outVars

-----------------------------------------------------------------------------
(* Properties. *)

\* Types; the Outbox goroutine is in its send loop exactly while it has packets to send.
OutTypeOK ==
  /\ amt \in [Addrs -> [there : BOOLEAN, valid : BOOLEAN, gen : 0 .. MaxLearn]]
  /\ \A ch \in Waiting : /\ ch \in Addrs \X (0 .. MaxLearn)
                         /\ outboxes[ch].packets \in Seq(Packets)
                         /\ outboxes[ch].stale \in BOOLEAN
  /\ changed \in BOOLEAN
  /\ box.pc \in {"build", "select", "send", "returned"}
  /\ box.pc = "send" <=> box.out # <<>>
  /\ sent \in [Packets -> Nat]

\* outboxPop dereferences the outbox of the channel select chose: every channel it was
\* built with still has one, whatever was pushed since, and never an empty one.
CasesHaveOutboxes ==
  /\ box.cases \subseteq Waiting
  /\ \A ch \in Waiting : Len(outboxes[ch].packets) \in 1 .. maxOutboxSize

\* No wake-up is lost: the goroutine never waits without a ticker and without a token in
\* outboxesChangedCh while packets wait for it.
NoLostWakeup == box.pc = "select" /\ Waiting # {} => changed \/ box.cases # {}

Boxed == UNION {Range(outboxes[ch].packets) : ch \in Waiting}
Held == {p \in Packets : pushing[p] # None} \cup Boxed \cup Range(box.out)
Late == UNION {Range(outboxes[ch].packets) : ch \in {c \in Waiting : outboxes[c].stale}}

\* The port keeps Send's promise: see DatagramBuffer.
Buffer == INSTANCE DatagramBuffer
            WITH held <- Held, late <- Late, broken <- box.pc = "returned",
                 Capacity <- maxOutboxSize
KeepsPromise == Buffer!Spec
=============================================================================
