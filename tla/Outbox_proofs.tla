--------------------------- MODULE Outbox_proofs ---------------------------
(***************************************************************************)
(* Proofs about the outboxes of an EtherTalk port, for any packets, any    *)
(* number of addresses and any limit: their types, no empty case, no lost  *)
(* wake-up.                                                                *)
(***************************************************************************)
EXTENDS EtherTalkPort, SequenceTheorems, FiniteSetTheorems, TLAPS

Chans == Addrs \X (0 .. MaxLearn)
Entry == [there : BOOLEAN, valid : BOOLEAN, gen : 0 .. MaxLearn]
Box == [packets : Seq(Packets), stale : BOOLEAN]
Worker == [pc : {"build", "select", "send", "returned"}, cases : SUBSET Chans, out : Seq(Packets)]

\* The variables' types; the goroutine has cases only while it selects, and packets only
\* while it sends.
Typed ==
  /\ amt \in [Addrs -> Entry]
  /\ Waiting \subseteq Chans /\ outboxes \in [Waiting -> Box]
  /\ changed \in BOOLEAN
  /\ pushing \in [Packets -> Chans \cup {None}]
  /\ box \in Worker
  /\ box.pc = "send" <=> box.out # <<>>
  /\ box.pc # "select" => box.cases = {}
  /\ fresh \subseteq Packets
  /\ sent \in [Packets -> Nat]

\* What outboxPush and the goroutine keep of the outboxes.
Filled == box.cases \subseteq Waiting /\ \A ch \in Waiting : Len(outboxes[ch].packets) \in 1 .. maxOutboxSize

Inv == Typed /\ Filled /\ NoLostWakeup

-----------------------------------------------------------------------------
\* Outboxes without some of their channels, and with one changed.
LEMMA Dropping ==
  ASSUME Typed, NEW S
  PROVE  /\ DOMAIN Drop(S) = Waiting \ S
         /\ \A ch \in Waiting \ S : Drop(S)[ch] = outboxes[ch]
         /\ Drop(S) \in [Waiting \ S -> Box]
BY DEF Typed, Drop

\* A function of outboxes with one more channel, or one changed.
LEMMA Adding ==
  ASSUME NEW D, NEW f \in [D -> Box], NEW ch, NEW ob \in Box
  PROVE  /\ DOMAIN With(f, ch, ob) = D \cup {ch}
         /\ With(f, ch, ob)[ch] = ob
         /\ \A c \in D \ {ch} : With(f, ch, ob)[c] = f[c]
         /\ With(f, ch, ob) \in [D \cup {ch} -> Box]
BY DEF With

\* The same for the outboxes themselves.
LEMMA Added ==
  ASSUME Typed, NEW ch, NEW ob \in Box, outboxes' = With(outboxes, ch, ob)
  PROVE  /\ Waiting' = Waiting \cup {ch} /\ outboxes'[ch] = ob
         /\ \A c \in Waiting \ {ch} : outboxes'[c] = outboxes[c]
         /\ outboxes' \in [Waiting' -> Box]
<1>1. outboxes \in [Waiting -> Box]
  BY DEF Typed
<1>2. /\ DOMAIN With(outboxes, ch, ob) = Waiting \cup {ch}
      /\ With(outboxes, ch, ob)[ch] = ob
      /\ \A c \in Waiting \ {ch} : With(outboxes, ch, ob)[c] = outboxes[c]
      /\ With(outboxes, ch, ob) \in [Waiting \cup {ch} -> Box]
  BY <1>1, Adding
<1>3. QED
  BY <1>2 DEF Waiting

\* A sequence with elements is not empty.
LEMMA NotEmpty ==
  ASSUME NEW s \in Seq(Packets), Len(s) # 0
  PROVE  s # <<>>
BY EmptySeq

\* Trim keeps the type and the limit, and the newest packet is always kept.
LEMMA Trimmed ==
  ASSUME NEW s \in Seq(Packets), Len(s) > 0
  PROVE  Trim(s) \in Seq(Packets) /\ Len(Trim(s)) \in 1 .. maxOutboxSize
<1>1. maxOutboxSize \in Nat \ {0} /\ Len(s) \in Nat
  BY OutAssumption
<1>2. CASE Len(s) > maxOutboxSize
  <2> DEFINE m == Len(s) - maxOutboxSize + 1
  <2>1. m \in 1 .. Len(s) /\ Len(s) \in 1 .. Len(s)
    BY <1>1, <1>2
  <2>2. SubSeq(s, m, Len(s)) \in Seq(Packets) /\ Len(SubSeq(s, m, Len(s))) = Len(s) - m + 1
    BY <2>1, <1>1
  <2>3. QED
    BY <1>1, <1>2, <2>2 DEF Trim
<1>3. CASE ~(Len(s) > maxOutboxSize)
  BY <1>1, <1>3 DEF Trim
<1>4. QED
  BY <1>2, <1>3

\* NewEtherTalkPort: nothing waits, and the goroutine selects.
LEMMA InitInv == OutInit => Inv
<1> SUFFICES ASSUME OutInit PROVE Inv
  OBVIOUS
<1>1. Waiting = {} /\ outboxes \in [Waiting -> Box]
  BY DEF OutInit, Waiting
<1>2. box \in Worker /\ box.pc = "select" /\ box.cases = {} /\ box.out = <<>>
  <2>1. box = [pc |-> "select", cases |-> {}, out |-> <<>>]
    BY DEF OutInit, Building
  <2>2. <<>> \in Seq(Packets)
    OBVIOUS
  <2>3. QED
    BY <2>1, <2>2 DEF Worker
<1>3. amt \in [Addrs -> Entry] /\ pushing \in [Packets -> Chans \cup {None}]
  BY OutAssumption DEF OutInit, Entry
<1>4. Typed
  BY <1>1, <1>2, <1>3 DEF Typed, OutInit
<1>5. QED
  BY <1>1, <1>2, <1>4 DEF Inv, Filled, NoLostWakeup

-----------------------------------------------------------------------------
\* learn: the outboxes do not notice.
LEMMA LearnInv ==
  ASSUME Inv, NEW a \in Addrs, learn(a)
  PROVE  Inv'
<1>1. amt' \in [Addrs -> Entry]
  <2>1. amt[a] \in Entry /\ amt[a].gen < MaxLearn /\ MaxLearn \in Nat
    BY OutAssumption DEF Inv, Typed, learn
  <2> DEFINE e == [there |-> TRUE, valid |-> TRUE, gen |-> IF amt[a].there THEN amt[a].gen + 1 ELSE amt[a].gen]
  <2>2. e \in Entry
    BY <2>1 DEF Entry
  <2>3. amt' = [amt EXCEPT ![a] = e]
    BY DEF learn
  <2>4. QED
    BY <2>2, <2>3 DEF Inv, Typed
<1>2. UNCHANGED <<outboxes, changed, pushing, box, fresh, sent>>
  BY DEF learn
<1>3. QED
  BY <1>1, <1>2 DEF Inv, Typed, Filled, NoLostWakeup, Waiting

\* An entry grows old: the outboxes do not notice.
LEMMA ExpireInv ==
  ASSUME Inv, NEW a \in Addrs, Expire(a)
  PROVE  Inv'
<1>1. amt' \in [Addrs -> Entry]
  BY DEF Inv, Typed, Expire, Entry
<1>2. UNCHANGED <<outboxes, changed, pushing, box, fresh, sent>>
  BY DEF Expire
<1>3. QED
  BY <1>1, <1>2 DEF Inv, Typed, Filled, NoLostWakeup, Waiting

\* lookupOrWait.
LEMMA LookedType ==
  ASSUME Typed, NEW a \in Addrs
  PROVE  /\ Looked(a) \in [Addrs -> Entry]
         /\ \A b \in Addrs : Looked(a)[b].gen = amt[b].gen /\ Looked(a)[b].valid = amt[b].valid
BY DEF Typed, Looked, Entry

\* Send, first half.
LEMMA LookupInv ==
  ASSUME Inv, NEW p \in Packets, Lookup(p)
  PROVE  Inv'
<1> DEFINE a == Dest[p]
<1>1. a \in Addrs /\ Typed
  BY DEF Addrs, Inv
<1>2. amt' \in [Addrs -> Entry]
  BY <1>1, LookedType DEF Lookup
<1>3. <<a, amt[a].gen>> \in Chans
  BY <1>1 DEF Typed, Entry, Chans
<1>4. fresh' \subseteq Packets
  BY <1>1 DEF Lookup, Typed
<1>5. UNCHANGED <<outboxes, changed, box>>
  BY DEF Lookup
<1>6. pushing' \in [Packets -> Chans \cup {None}] /\ sent' \in [Packets -> Nat]
  <2>1. CASE sent' = [sent EXCEPT ![p] = @ + 1] /\ UNCHANGED pushing
    <3>1. sent[p] + 1 \in Nat
      BY <1>1 DEF Typed
    <3>2. QED
      BY <1>1, <2>1, <3>1 DEF Typed
  <2>2. CASE pushing' = [pushing EXCEPT ![p] = <<a, amt[a].gen>>] /\ UNCHANGED sent
    BY <1>1, <1>3, <2>2 DEF Typed
  <2>3. QED
    BY <2>1, <2>2 DEF Lookup
<1>7. QED
  BY <1>2, <1>4, <1>5, <1>6 DEF Inv, Typed, Filled, NoLostWakeup, Waiting

\* The packets that wait on a channel.
Old(ch) == IF ch \in Waiting THEN outboxes[ch].packets ELSE <<>>

\* What outboxPush leaves behind.
LEMMA PushEffect ==
  ASSUME Inv, NEW p \in Packets, Push(p), NEW ch, ch = pushing[p]
  PROVE  /\ ch \in Chans /\ Old(ch) \in Seq(Packets)
         /\ Waiting' = Waiting \cup {ch} /\ outboxes' \in [Waiting' -> Box]
         /\ outboxes'[ch].packets = Trim(Append(Old(ch), p)) /\ outboxes'[ch].stale = FALSE
         /\ Len(outboxes'[ch].packets) \in 1 .. maxOutboxSize
         /\ \A c \in Waiting \ {ch} : outboxes'[c] = outboxes[c]
<1> DEFINE ob == [packets |-> Trim(Append(Old(ch), p)), stale |-> FALSE]
<1>1. Typed /\ ch \in Chans
  BY DEF Inv, Typed, Push
<1>2. Old(ch) \in Seq(Packets)
  BY <1>1 DEF Typed, Box, Old
<1>3. Append(Old(ch), p) \in Seq(Packets) /\ Len(Append(Old(ch), p)) > 0
  BY <1>2
<1>4. ob \in Box /\ Len(ob.packets) \in 1 .. maxOutboxSize
  BY <1>3, Trimmed DEF Box
<1>5. outboxes' = With(outboxes, ch, ob)
  BY DEF Push, Old
<1>6. ob.packets = Trim(Append(Old(ch), p)) /\ ob.stale = FALSE
  OBVIOUS
<1> HIDE DEF ob
<1>7. ob \in Box
  BY <1>4
<1>8. /\ Waiting' = Waiting \cup {ch} /\ outboxes'[ch] = ob
      /\ \A c \in Waiting \ {ch} : outboxes'[c] = outboxes[c]
      /\ outboxes' \in [Waiting' -> Box]
  BY <1>1, <1>5, <1>7, Added
<1>9. QED
  BY <1>1, <1>2, <1>4, <1>6, <1>8

\* Send, second half: outboxPush.
LEMMA PushInv ==
  ASSUME Inv, NEW p \in Packets, Push(p)
  PROVE  Inv'
<1> DEFINE ch == pushing[p]
<1>1. Typed
  BY DEF Inv
<1>2. pushing' = [pushing EXCEPT ![p] = None] /\ changed' = (changed \/ ch \notin Waiting)
        /\ UNCHANGED <<amt, box, fresh, sent>>
  BY DEF Push, Notify
<1> HIDE DEF ch
<1>3. /\ ch \in Chans /\ Waiting' = Waiting \cup {ch} /\ outboxes' \in [Waiting' -> Box]
      /\ Len(outboxes'[ch].packets) \in 1 .. maxOutboxSize
      /\ \A c \in Waiting \ {ch} : outboxes'[c] = outboxes[c]
  BY PushEffect DEF ch
<1>4. Typed'
  BY <1>1, <1>2, <1>3 DEF Typed
<1>5. Filled'
  BY <1>2, <1>3 DEF Filled, Inv
<1>6. NoLostWakeup'
  BY <1>2, <1>3 DEF NoLostWakeup, Inv
<1>7. QED
  BY <1>4, <1>5, <1>6 DEF Inv

\* An outbox grows old.
LEMMA GoStaleInv ==
  ASSUME Inv, NEW ch \in Waiting, GoStale(ch)
  PROVE  Inv'
<1> DEFINE ob == [outboxes[ch] EXCEPT !.stale = TRUE]
<1>1. outboxes[ch] \in Box /\ Typed
  BY DEF Inv, Typed
<1>2. ob \in Box /\ ob.packets = outboxes[ch].packets
  BY <1>1 DEF Box
<1>3. outboxes' = [outboxes EXCEPT ![ch] = ob] /\ UNCHANGED <<amt, changed, pushing, box, fresh, sent>>
  BY DEF GoStale
<1> HIDE DEF ob
<1>4. /\ Waiting' = Waiting /\ outboxes' \in [Waiting -> Box]
      /\ \A c \in Waiting : outboxes'[c].packets = outboxes[c].packets
  BY <1>1, <1>2, <1>3 DEF Typed, Waiting
<1>5. QED
  BY <1>1, <1>3, <1>4 DEF Inv, Typed, Filled, NoLostWakeup

-----------------------------------------------------------------------------
(* The Outbox goroutine. *)

\* The cases of the select are collected.
LEMMA BuildInv ==
  ASSUME Inv, Build
  PROVE  Inv'
<1>1. box \in Worker /\ Typed /\ box.pc = "build" /\ box.out = <<>>
  BY DEF Inv, Typed, Build
<1>2. box' = [pc |-> "select", cases |-> Waiting, out |-> <<>>]
  BY <1>1 DEF Build, Worker
<1>3. box' \in Worker /\ box'.pc = "select" /\ box'.cases = Waiting /\ box'.out = <<>>
  BY <1>1, <1>2 DEF Worker, Typed
<1>4. UNCHANGED <<amt, outboxes, changed, pushing, fresh, sent>>
  BY DEF Build
<1>5. QED
  BY <1>1, <1>3, <1>4 DEF Inv, Typed, Filled, NoLostWakeup, Waiting

\* Back to collecting cases.
LEMMA BuildingType ==
  /\ Building \in Worker /\ Building.pc = "build"
  /\ Building.cases = {} /\ Building.out = <<>>
<1>1. <<>> \in Seq(Packets)
  OBVIOUS
<1>2. QED
  BY <1>1 DEF Building, Worker

\* The token of outboxesChangedCh is taken.
LEMMA RefreshInv ==
  ASSUME Inv, Refresh
  PROVE  Inv'
<1>1. box' = Building /\ changed' = FALSE /\ UNCHANGED <<amt, outboxes, pushing, fresh, sent>>
  BY DEF Refresh
<1>2. QED
  BY <1>1, BuildingType DEF Inv, Typed, Filled, NoLostWakeup, Waiting

\* resendAARPRequests.
LEMMA ResendInv ==
  ASSUME Inv, resendAARPRequests
  PROVE  Inv'
<1>1. box' = Building /\ UNCHANGED <<amt, changed, pushing, fresh, sent>> /\ Typed
  BY DEF resendAARPRequests, Inv
<1>2. CASE UNCHANGED outboxes
  BY <1>1, <1>2, BuildingType DEF Inv, Typed, Filled, NoLostWakeup, Waiting
<1>3. CASE \E ch \in StaleOnes : outboxes' = Drop({ch})
  <2>1. PICK ch \in StaleOnes : outboxes' = Drop({ch})
    BY <1>3
  <2>2. /\ Waiting' = Waiting \ {ch} /\ outboxes' \in [Waiting' -> Box]
        /\ \A c \in Waiting' : outboxes'[c] = outboxes[c]
    BY <1>1, <2>1, Dropping DEF Waiting
  <2>3. QED
    BY <1>1, <2>2, BuildingType DEF Inv, Typed, Filled, NoLostWakeup
<1>4. QED
  BY <1>2, <1>3 DEF resendAARPRequests

\* What outboxPop does to the outbox of a closed channel.
Popped(ch) ==
  /\ ch \in box.cases /\ Closed(ch) /\ box.pc = "select"
  /\ amt' = Looked(ch[1])
  /\ \/ /\ amt[ch[1]].valid
        /\ box' = [pc |-> "send", cases |-> {}, out |-> outboxes[ch].packets]
        /\ outboxes' = Drop({ch})
     \/ /\ ~amt[ch[1]].valid
        /\ box' = Building
        /\ outboxes' = Drop({ch}) \/ outboxes' = With(Drop({ch}), <<ch[1], amt[ch[1]].gen>>, outboxes[ch])
  /\ UNCHANGED <<changed, pushing, fresh, sent>>

\* outboxPop is one of these for some channel.
LEMMA PopPops ==
  ASSUME outboxPop
  PROVE  \E ch : Popped(ch)
BY DEF outboxPop, Popped

\* outboxPop: taken out, dropped, or put back under the new channel.
LEMMA PopInv ==
  ASSUME Inv, outboxPop
  PROVE  Inv'
<1>1. PICK ch : Popped(ch)
  BY PopPops
<1>2. Typed /\ Filled /\ ch \in Waiting /\ ch \in Chans /\ ch[1] \in Addrs /\ outboxes[ch] \in Box
  BY <1>1 DEF Inv, Typed, Filled, Popped, Chans
<1>3. amt' \in [Addrs -> Entry]
  BY <1>1, <1>2, LookedType DEF Popped
<1>4. outboxes[ch].packets \in Seq(Packets) /\ outboxes[ch].packets # <<>>
  BY <1>2 DEF Box, Filled
<1>5. UNCHANGED <<changed, pushing, fresh, sent>>
  BY <1>1 DEF Popped
<1>6. CASE outboxes' = Drop({ch}) /\ (box' = Building \/ box' = [pc |-> "send", cases |-> {}, out |-> outboxes[ch].packets])
  <2>1. /\ Waiting' = Waiting \ {ch} /\ outboxes' \in [Waiting' -> Box]
        /\ \A c \in Waiting' : outboxes'[c] = outboxes[c]
    BY <1>2, <1>6, Dropping DEF Waiting
  <2>2. /\ box' \in Worker /\ box'.pc # "select" /\ box'.cases = {}
        /\ box'.pc = "send" <=> box'.out # <<>>
    BY <1>4, <1>6, BuildingType DEF Worker
  <2>3. QED
    BY <1>2, <1>3, <1>5, <2>1, <2>2 DEF Inv, Typed, Filled, NoLostWakeup
<1>7. CASE outboxes' = With(Drop({ch}), <<ch[1], amt[ch[1]].gen>>, outboxes[ch]) /\ box' = Building
  <2> DEFINE new == <<ch[1], amt[ch[1]].gen>>
             D == Waiting \ {ch}
             f == Drop({ch})
  <2>1. new \in Chans
    BY <1>2 DEF Typed, Entry, Chans
  <2>2. f \in [D -> Box] /\ \A c \in D : f[c] = outboxes[c]
    BY <1>2, Dropping
  <2>3. outboxes' = With(f, new, outboxes[ch])
    BY <1>7
  <2> HIDE DEF new, D, f
  <2>4. /\ DOMAIN With(f, new, outboxes[ch]) = D \cup {new}
        /\ With(f, new, outboxes[ch])[new] = outboxes[ch]
        /\ \A c \in D \ {new} : With(f, new, outboxes[ch])[c] = f[c]
        /\ With(f, new, outboxes[ch]) \in [D \cup {new} -> Box]
    BY <1>2, <2>2, Adding
  <2>5. /\ Waiting' = D \cup {new} /\ outboxes' \in [Waiting' -> Box]
        /\ outboxes'[new] = outboxes[ch]
        /\ \A c \in D \ {new} : outboxes'[c] = outboxes[c]
    BY <2>2, <2>3, <2>4 DEF Waiting
  <2>6. D \subseteq Waiting
    BY DEF D
  <2>7. Typed'
    BY <1>2, <1>3, <1>5, <1>7, <2>1, <2>5, <2>6, BuildingType DEF Typed
  <2>8. Filled'
    BY <1>2, <1>7, <2>5, <2>6, BuildingType DEF Filled
  <2>9. QED
    BY <1>7, <2>7, <2>8, BuildingType DEF Inv, NoLostWakeup
<1>8. QED
  BY <1>1, <1>6, <1>7 DEF Popped

\* One packet of the outbox is written.
LEMMA SendNextInv ==
  ASSUME Inv, SendNext
  PROVE  Inv'
<1>1. /\ Typed /\ box \in Worker /\ box.pc = "send" /\ box.out \in Seq(Packets) /\ box.out # <<>>
      /\ box.cases = {}
  BY DEF Inv, Typed, SendNext, Worker
<1>2. /\ Head(box.out) \in Packets /\ Tail(box.out) \in Seq(Packets)
      /\ Len(box.out) # 1 => Tail(box.out) # <<>>
  <2>1. /\ Head(box.out) \in Packets /\ Tail(box.out) \in Seq(Packets)
        /\ Len(Tail(box.out)) = Len(box.out) - 1 /\ Len(box.out) \in Nat
    <3>1. Head(box.out) \in Packets /\ Tail(box.out) \in Seq(Packets) /\ Len(Tail(box.out)) = Len(box.out) - 1
      BY <1>1, HeadTailProperties
    <3>2. Len(box.out) \in Nat
      BY <1>1, LenProperties
    <3>3. QED
      BY <3>1, <3>2
  <2> DEFINE rest == Tail(box.out)
             n == Len(box.out)
  <2>2. rest \in Seq(Packets) /\ Len(rest) = n - 1 /\ n \in Nat
    BY <2>1
  <2> HIDE DEF rest, n
  <2>3. n # 1 => rest # <<>>
    BY <2>2, NotEmpty
  <2>4. QED
    BY <2>1, <2>3 DEF rest, n
<1>3. sent' \in [Packets -> Nat]
  <2>1. sent[Head(box.out)] + 1 \in Nat
    BY <1>1, <1>2 DEF Typed
  <2>2. QED
    BY <1>1, <1>2, <2>1 DEF SendNext, Typed
<1>4. /\ box' \in Worker /\ box'.pc # "select" /\ box'.cases = {}
      /\ box'.pc = "send" <=> box'.out # <<>>
  <2>1. CASE Len(box.out) = 1
    BY <2>1, BuildingType DEF SendNext
  <2>2. CASE Len(box.out) # 1
    <3>1. box' = [pc |-> "send", cases |-> {}, out |-> Tail(box.out)]
      BY <1>1, <2>2 DEF SendNext, Worker
    <3>2. QED
      BY <1>2, <2>2, <3>1 DEF Worker
  <2>3. QED
    BY <2>1, <2>2
<1>5. UNCHANGED <<amt, outboxes, changed, pushing, fresh>>
  BY DEF SendNext
<1>6. QED
  BY <1>1, <1>3, <1>4, <1>5 DEF Inv, Typed, Filled, NoLostWakeup, Waiting

\* The goroutine returns.
LEMMA FailsInv ==
  ASSUME Inv, SendFails
  PROVE  Inv'
<1>1. box' = [pc |-> "returned", cases |-> {}, out |-> <<>>]
  <2>1. box' = [Building EXCEPT !.pc = "returned"]
    BY DEF SendFails
  <2>2. QED
    BY <2>1 DEF Building
<1>2. <<>> \in Seq(Packets)
  OBVIOUS
<1>3. box' \in Worker /\ box'.pc = "returned" /\ box'.cases = {} /\ box'.out = <<>>
  BY <1>1, <1>2 DEF Worker
<1>4. UNCHANGED <<amt, outboxes, changed, pushing, fresh, sent>>
  BY DEF SendFails
<1>5. QED
  BY <1>3, <1>4 DEF Inv, Typed, Filled, NoLostWakeup, Waiting

\* Every step keeps Inv.
LEMMA StepInv ==
  ASSUME Inv, [OutNext]_outVars
  PROVE  Inv'
<1>1. CASE UNCHANGED outVars
  BY <1>1 DEF outVars, Inv, Typed, Filled, NoLostWakeup, Waiting
<1>2. CASE OutNext
  BY <1>2, LearnInv, ExpireInv, LookupInv, PushInv, GoStaleInv, BuildInv, RefreshInv, ResendInv,
     PopInv, SendNextInv, FailsInv
     DEF OutNext, OutStep, Goroutine, Senders, Clock
<1>3. QED
  BY <1>1, <1>2

-----------------------------------------------------------------------------
\* The traffic of a port is a behaviour of the outboxes: startup leaves them alone.
LEMMA PortIsOutbox == Spec => OutSpec
<1>1. Init => OutInit
  BY DEF Init
<1>2. [Next]_vars => [OutNext]_outVars
  <2>1. CASE UNCHANGED vars
    BY <2>1 DEF vars
  <2>2. CASE Next
    BY <2>2 DEF Next, Traffic, Forward, OutNext
  <2>3. QED
    BY <2>1, <2>2
<1>3. QED
  BY <1>1, <1>2, PTL DEF Spec, OutSpec

\* Inv holds in every state of the outboxes.
LEMMA OutInv == OutSpec => []Inv
<1>1. OutInit => Inv
  BY InitInv
<1>2. Inv /\ [OutNext]_outVars => Inv'
  BY StepInv
<1>3. QED
  BY <1>1, <1>2, PTL DEF OutSpec

\* The variables of the outboxes keep their types, and the goroutine is in its send loop
\* exactly while it has packets: SendNext never takes the head of nothing.
THEOREM OutboxTypes == Spec => []OutTypeOK
<1>1. Inv => OutTypeOK
  BY DEF Inv, Typed, OutTypeOK, Entry, Box, Worker, Chans
<1>2. QED
  BY <1>1, PortIsOutbox, OutInv, PTL

\* outboxPop never meets a channel without an outbox, nor an empty one, and no outbox
\* grows past its limit: for any packets, addresses and limit.
THEOREM PoppedOutboxesExist == Spec => []CasesHaveOutboxes
<1>1. Inv => CasesHaveOutboxes
  BY DEF Inv, Filled, CasesHaveOutboxes
<1>2. QED
  BY <1>1, PortIsOutbox, OutInv, PTL

\* The Outbox goroutine never sleeps on packets: it has a ticker or a token.
THEOREM WakeupsArrive == Spec => []NoLostWakeup
<1>1. Inv => NoLostWakeup
  BY DEF Inv
<1>2. QED
  BY <1>1, PortIsOutbox, OutInv, PTL
=============================================================================
