--------------------------- MODULE Promise_proofs ---------------------------
(***************************************************************************)
(* The outboxes keep the promise of DatagramBuffer, for any packets, any   *)
(* destinations and any limit: provided that a packet whose channel was    *)
(* closed is on its way before the entry expires (Prompt), every step of   *)
(* the port is a step of the buffer or leaves it alone.                    *)
(***************************************************************************)
EXTENDS Push_proofs

-----------------------------------------------------------------------------
\* Steps that move no packet.
Quiet == /\ UNCHANGED <<outboxes, pushing, fresh, sent>>
         /\ box'.out = box.out
         /\ box'.pc = "returned" <=> box.pc = "returned"

\* They are no step of the buffer, and everything stays where it was.
LEMMA QuietStep ==
  ASSUME Apart, Quiet
  PROVE  Apart' /\ UNCHANGED Buffer!bufferVars
<1>1. Apart'
  BY DEF Apart, Quiet, Packs, Waiting
<1>2. Held' = Held /\ Late' = Late
  BY DEF Held, Late, Boxed, Quiet, Waiting
<1>3. (box.pc = "returned")' = (box.pc = "returned")
  BY DEF Quiet
<1>4. QED
  BY <1>1, <1>2, <1>3 DEF Buffer!bufferVars, Quiet

\* The port starts as the empty buffer.
LEMMA InitKept == OutInit => Kept /\ Buffer!Init
<1> SUFFICES ASSUME OutInit PROVE Kept /\ Buffer!Init
  OBVIOUS
<1>1. Inv
  BY InitInv
<1>2. Waiting = {} /\ box.out = <<>> /\ box.pc = "select" /\ \A p \in Packets : pushing[p] = None
  <2>1. box = [pc |-> "select", cases |-> {}, out |-> <<>>]
    BY Zenon DEF OutInit, Building
  <2>2. QED
    BY <2>1 DEF OutInit, Waiting
<1>3. Apart /\ Current
  BY <1>2, EmptyRange DEF Apart, Current
<1>4. Held = {} /\ Late = {}
  BY <1>2, EmptyRange DEF Held, Late, Boxed
<1>5. (box.pc = "returned") = FALSE
  BY <1>2
<1>6. QED
  BY <1>1, <1>3, <1>4, <1>5 DEF Kept, Buffer!Init, OutInit

\* learn makes the entry of every channel it closes valid.
LEMMA LearnKept ==
  ASSUME Kept, NEW a \in Addrs, learn(a)
  PROVE  Apart' /\ Current' /\ UNCHANGED Buffer!bufferVars
<1>1. Apart /\ Current /\ Typed
  BY DEF Kept, Inv
<1>2. Quiet
  BY DEF learn, Quiet
<1>3. /\ amt'[a].valid /\ \A b \in Addrs \ {a} : amt'[b] = amt[b]
      /\ UNCHANGED <<outboxes, pushing>>
  BY <1>1 DEF learn, Typed
<1>4. Current'
  <2>1. \A ch \in Chans : Closed(ch)' => amt'[ch[1]].valid \/ (Closed(ch) /\ amt'[ch[1]] = amt[ch[1]])
    BY <1>3 DEF Closed, Chans
  <2>2. QED
    BY <1>1, <1>3, <2>1 DEF Current, Typed, Waiting
<1>5. QED
  BY <1>1, <1>2, <1>4, QuietStep

\* Prompt: no entry expires while packets wait on a closed channel of it.
LEMMA ExpireKept ==
  ASSUME Kept, Prompt, NEW a \in Addrs, Expire(a)
  PROVE  Apart' /\ Current' /\ UNCHANGED Buffer!bufferVars
<1>1. Apart /\ Current /\ Typed
  BY DEF Kept, Inv
<1>2. Quiet
  BY DEF Expire, Quiet
<1>3. /\ \A b \in Addrs : amt'[b].gen = amt[b].gen
      /\ \A b \in Addrs \ {a} : amt'[b] = amt[b]
      /\ UNCHANGED <<outboxes, pushing>>
  <2>1. amt' = [amt EXCEPT ![a] = [amt[a] EXCEPT !.valid = FALSE]] /\ amt \in [Addrs -> Entry]
    BY <1>1 DEF Expire, Typed
  <2>2. [amt[a] EXCEPT !.valid = FALSE].gen = amt[a].gen
    BY <2>1 DEF Entry
  <2>3. UNCHANGED <<outboxes, pushing>>
    BY DEF Expire
  <2>4. QED
    BY <2>1, <2>2, <2>3
<1>4. \A ch \in Chans : Closed(ch)' <=> Closed(ch)
  BY <1>3 DEF Closed, Chans
<1>5. \A ch \in Waiting : ch[1] = a => ~Closed(ch)
  BY DEF Expire
<1>6. \A p \in Packets : pushing[p] # None /\ pushing[p][1] = a => ~Closed(pushing[p])
  <2>1. \A p \in Packets : pushing[p] # None => pushing[p] \in Range(pushing) \ {None}
    BY <1>1 DEF Typed, Range
  <2>2. QED
    BY <2>1 DEF Expire
<1>7. Current'
  <2>1. \A ch \in Chans : ch[1] \in Addrs
    BY DEF Chans
  <2>2. QED
    BY <1>1, <1>3, <1>4, <1>5, <1>6, <2>1 DEF Current, Typed, Waiting
<1>8. QED
  BY <1>1, <1>2, <1>7, QuietStep

\* Collecting cases moves nothing.
LEMMA BuildKept ==
  ASSUME Kept, Build \/ Refresh
  PROVE  Apart' /\ Current' /\ UNCHANGED Buffer!bufferVars
<1>1. Apart /\ Current /\ Typed /\ box \in Worker
  BY DEF Kept, Inv, Typed
<1>2. box.out = <<>> /\ box.pc # "returned"
  BY <1>1 DEF Typed, Build, Refresh
<1>3. box'.out = <<>> /\ box'.pc # "returned"
  <2>1. CASE Build
    BY <1>1, <1>2, <2>1 DEF Build, Worker
  <2>2. CASE Refresh
    BY <2>2, BuildingType DEF Refresh
  <2>3. QED
    BY <2>1, <2>2
<1>4. UNCHANGED <<amt, outboxes, pushing, fresh, sent>>
  BY DEF Build, Refresh
<1>5. Quiet
  BY <1>2, <1>3, <1>4 DEF Quiet
<1>6. Current'
  BY <1>1, <1>4 DEF Current, Closed, Waiting
<1>7. QED
  BY <1>1, <1>5, <1>6, QuietStep

-----------------------------------------------------------------------------
\* lookupOrWait closes no channel and ages no entry.
LEMMA LookedSame ==
  ASSUME Typed, NEW a \in Addrs, amt' = Looked(a)
  PROVE  \A ch \in Chans : /\ Closed(ch)' <=> Closed(ch)
                           /\ amt'[ch[1]].valid = amt[ch[1]].valid
<1>1. \A b \in Addrs : amt'[b].gen = amt[b].gen /\ amt'[b].valid = amt[b].valid
  BY LookedType
<1>2. \A ch \in Chans : ch[1] \in Addrs
  BY DEF Chans
<1>3. QED
  BY <1>1, <1>2 DEF Closed

\* Send, first half: SendNow or Keep.
LEMMA LookupKept ==
  ASSUME Kept, NEW p \in Packets, Lookup(p)
  PROVE  Apart' /\ Current' /\ Buffer!Next
<1> DEFINE a == Dest[p]
           ch == <<a, amt[a].gen>>
<1>1. Apart /\ Current /\ Typed /\ a \in Addrs
  BY DEF Kept, Inv, Addrs
<1>2. /\ p \in fresh /\ fresh' = fresh \ {p} /\ amt' = Looked(a)
      /\ UNCHANGED <<outboxes, box>>
  BY DEF Lookup
<1>3. \A c \in Chans : (Closed(c)' <=> Closed(c)) /\ amt'[c[1]].valid = amt[c[1]].valid
  BY <1>1, <1>2, LookedSame
<1>4. CASE sent' = [sent EXCEPT ![p] = @ + 1] /\ UNCHANGED pushing
  <2>0. Waiting' = Waiting /\ (\A c : Packs(c)' = Packs(c)) /\ fresh' \subseteq fresh
    BY <1>2 DEF Packs, Waiting
  <2>1. Apart'
    BY <1>1, <1>2, <1>4, <2>0 DEF Apart
  <2>2. Current'
    BY <1>1, <1>2, <1>3, <1>4 DEF Current, Typed, Waiting
  <2>3. Held' = Held /\ Late' = Late
    BY <1>2, <1>4 DEF Held, Late, Boxed, Waiting
  <2>4. Buffer!SendNow(p)
    BY <1>2, <1>4, <2>3 DEF Buffer!SendNow
  <2>5. QED
    BY <2>1, <2>2, <2>4 DEF Buffer!Next
<1>5. CASE ~amt[a].valid /\ pushing' = [pushing EXCEPT ![p] = ch] /\ UNCHANGED sent
  <2>1. ch \in Chans /\ ch # None /\ ch[1] = Dest[p] /\ ~Closed(ch)
    <3>1. amt[a].gen \in 0 .. MaxLearn
      BY <1>1 DEF Typed, Entry
    <3>2. QED
      BY <1>1, <3>1, OutAssumption DEF Chans, Closed
  <2>2. pushing'[p] = ch /\ \A q \in Packets \ {p} : pushing'[q] = pushing[q]
    BY <1>1, <1>5 DEF Typed
  <2> HIDE DEF ch, a
  <2>3. \A c \in Waiting : Packs(c) \subseteq Packets
    BY <1>1 DEF Typed, Box, Packs, Range
  <2>4. Range(box.out) \subseteq Packets
    BY <1>1 DEF Typed, Worker, Range
  <2>5. Apart'
    BY <1>1, <1>2, <2>1, <2>2, <2>3, <2>4 DEF Apart, Packs, Waiting
  <2>6. Current'
    BY <1>1, <1>2, <1>3, <2>1, <2>2 DEF Current, Typed, Waiting
  <2>7. Held' = Held \cup {p}
    BY <1>2, <2>1, <2>2 DEF Held, Boxed, Waiting
  <2>8. Late' = Late
    BY <1>2 DEF Late, Waiting
  <2>9. Buffer!Keep(p)
    BY <1>2, <1>5, <2>7, <2>8 DEF Buffer!Keep
  <2>10. QED
    BY <2>5, <2>6, <2>9 DEF Buffer!Next
<1>6. QED
  BY <1>4, <1>5 DEF Lookup

\* An outbox grows old: GrowLate.
LEMMA GoStaleKept ==
  ASSUME Kept, NEW ch \in Waiting, GoStale(ch)
  PROVE  Apart' /\ Current' /\ Buffer!Next
<1> DEFINE ob == [outboxes[ch] EXCEPT !.stale = TRUE]
<1>1. outboxes[ch] \in Box /\ Typed /\ Apart /\ Current
  BY DEF Kept, Inv, Typed
<1>2. ob \in Box /\ ob.packets = outboxes[ch].packets /\ ob.stale = TRUE
  BY <1>1, Zenon DEF Box
<1>3. outboxes' = [outboxes EXCEPT ![ch] = ob] /\ UNCHANGED <<amt, changed, pushing, box, fresh, sent>>
  BY DEF GoStale
<1> HIDE DEF ob
<1>4. /\ Waiting' = Waiting
      /\ \A c \in Waiting : outboxes'[c].packets = outboxes[c].packets
      /\ \A c \in Waiting : outboxes'[c].stale = (c = ch \/ outboxes[c].stale)
  BY <1>1, <1>2, <1>3 DEF Typed, Waiting, Box
<1>5. \A c \in Waiting : Packs(c)' = Packs(c)
  BY <1>4 DEF Packs
<1>6. Apart'
  BY <1>1, <1>3, <1>4, <1>5 DEF Apart
<1>7. Current'
  BY <1>1, <1>3, <1>4 DEF Current, Closed
<1>8. Held' = Held
  BY <1>3, <1>4, <1>5 DEF Held, Boxed, Packs
<1>9. Late' = Late \cup Packs(ch)
  <2>1. \A q : q \in Late' <=> q \in Late \cup Packs(ch)
    <3>1. \A q : q \in Late' <=> \E c \in Waiting : (c = ch \/ outboxes[c].stale) /\ q \in Packs(c)
      BY <1>4, <1>5, LateNext, Zenon
    <3>2. QED
      BY <3>1, LateIs
  <2>2. QED
    BY <2>1
<1>10. Packs(ch) \subseteq Held
  BY HeldIs
<1>11. Buffer!GrowLate(Packs(ch))
  BY <1>3, <1>8, <1>9, <1>10 DEF Buffer!GrowLate
<1>12. QED
  BY <1>6, <1>7, <1>10, <1>11 DEF Buffer!Next

\* An outbox is taken out, and its packets go to the goroutine or are given up.
LEMMA DropKept ==
  ASSUME Kept, NEW ch \in Waiting, outboxes' = Drop({ch}), UNCHANGED <<pushing, fresh>>,
         box.out = <<>>,
         \/ box'.out = <<>>
         \/ box'.out = outboxes[ch].packets,
         \A c \in Chans : (Closed(c)' <=> Closed(c)) /\ amt'[c[1]].valid = amt[c[1]].valid
  PROVE  /\ Apart' /\ Current'
         /\ Late' = Late \ Packs(ch)
         /\ Held' = IF box'.out = <<>> THEN Held \ Packs(ch) ELSE Held
         /\ Packs(ch) \subseteq Held
         /\ \A q \in Packs(ch) : Dest[q] = ch[1]
<1>1. Typed /\ Apart /\ Current /\ Filled
  BY DEF Kept, Inv
<1>2. /\ Waiting' = Waiting \ {ch}
      /\ \A c \in Waiting \ {ch} : outboxes'[c] = outboxes[c]
  BY <1>1, Dropping, Zenon DEF Waiting
<1>3. \A c \in Waiting \ {ch} : Packs(c)' = Packs(c)
  BY <1>2, Zenon DEF Packs
<1>4. Range(box.out) = {} /\ (box'.out = <<>> => Range(box'.out) = {})
  BY EmptyRange
<1>5. box'.out # <<>> => Range(box'.out) = Packs(ch)
  BY DEF Packs
<1>6. IsInjective(box'.out)
  BY <1>1, EmptyRange DEF Apart
<1>7. \A c \in Waiting \ {ch} : Packs(c) \cap Packs(ch) = {}
  BY <1>1 DEF Apart
<1>8. \A q \in Packs(ch) : Dest[q] = ch[1] /\ q \notin fresh /\ pushing[q] = None
  BY <1>1 DEF Apart
<1>9. Apart'
  <2>1. \A c \in Waiting' : IsInjective(outboxes'[c].packets)
    BY <1>1, <1>2, Zenon DEF Apart
  <2>2. \A c \in Waiting' : \A q \in Packs(c)' :
          Dest[q] = c[1] /\ q \notin fresh' /\ pushing'[q] = None /\ q \notin Range(box'.out)
    BY <1>1, <1>2, <1>3, <1>4, <1>5, <1>7 DEF Apart
  <2>3. \A c, d \in Waiting' : c # d => Packs(c)' \cap Packs(d)' = {}
    BY <1>1, <1>2, <1>3 DEF Apart
  <2>4. \A q \in Packets : pushing'[q] # None => q \notin fresh' /\ pushing'[q][1] = Dest[q]
    BY <1>1 DEF Apart
  <2>5. \A q \in Range(box'.out) : q \notin fresh' /\ pushing'[q] = None
    BY <1>4, <1>5, <1>8
  <2>6. QED
    BY <1>6, <2>1, <2>2, <2>3, <2>4, <2>5, Zenon DEF Apart
<1>10. Current'
  BY <1>1, <1>2 DEF Current, Typed
<1>11. Late' = Late \ Packs(ch)
  <2>1. Late = UNION {Packs(c) : c \in {d \in Waiting : outboxes[d].stale}}
    BY DEF Late, Packs
  <2>2. Late' = UNION {Packs(c) : c \in {d \in Waiting \ {ch} : outboxes[d].stale}}
    BY <1>2, Zenon DEF Late, Packs
  <2>3. QED
    BY <1>7, <2>1, <2>2
<1>12. Packs(ch) \subseteq Held
  BY HeldIs
<1>13. \A q : q \in Held' <=> \/ q \in Packets /\ pushing[q] # None
                              \/ \E c \in Waiting \ {ch} : q \in Packs(c)
                              \/ q \in Range(box'.out)
  BY <1>2, Zenon DEF Held, Boxed, Packs
<1>14. Held' = IF box'.out = <<>> THEN Held \ Packs(ch) ELSE Held
  <2>1. CASE box'.out = <<>>
    <3>1. \A q : q \in Held' <=> q \in Held \ Packs(ch)
      BY <1>4, <1>7, <1>8, <1>13, <2>1, HeldIs
    <3>2. QED
      BY <2>1, <3>1
  <2>2. CASE box'.out # <<>>
    <3>1. \A q : q \in Held' <=> q \in Held
      BY <1>4, <1>5, <1>13, <2>2, HeldIs
    <3>2. QED
      BY <2>2, <3>1, Zenon
  <2>3. QED
    BY <2>1, <2>2
<1>15. QED
  BY <1>8, <1>9, <1>10, <1>11, <1>12, <1>14

\* resendAARPRequests: GiveUp, or nothing.
LEMMA ResendKept ==
  ASSUME Kept, resendAARPRequests
  PROVE  Apart' /\ Current' /\ (Buffer!Next \/ UNCHANGED Buffer!bufferVars)
<1>1. Typed /\ Apart /\ Current /\ box.pc = "select" /\ box.out = <<>>
  BY DEF Kept, Inv, Typed, resendAARPRequests
<1>2. /\ box' = Building /\ UNCHANGED <<amt, changed, pushing, fresh, sent>>
      /\ box'.out = <<>> /\ box'.pc = "build"
  BY BuildingType DEF resendAARPRequests
<1>3. CASE UNCHANGED outboxes
  <2>1. Quiet
    BY <1>1, <1>2, <1>3 DEF Quiet
  <2>2. Current'
    BY <1>1, <1>2, <1>3 DEF Current, Closed, Waiting
  <2>3. QED
    BY <1>1, <2>1, <2>2, QuietStep
<1>4. CASE \E ch \in StaleOnes : outboxes' = Drop({ch})
  <2>1. PICK ch \in StaleOnes : outboxes' = Drop({ch})
    BY <1>4
  <2>2. ch \in Waiting /\ outboxes[ch].stale
    BY DEF StaleOnes
  <2>3. \A c \in Chans : (Closed(c)' <=> Closed(c)) /\ amt'[c[1]].valid = amt[c[1]].valid
    BY <1>2 DEF Closed
  <2>4. /\ Apart' /\ Current' /\ Late' = Late \ Packs(ch) /\ Held' = Held \ Packs(ch)
        /\ Packs(ch) \subseteq Held
    BY <1>1, <1>2, <2>1, <2>2, <2>3, DropKept
  <2>5. Packs(ch) \subseteq Late
    BY <2>2, LateIs
  <2>6. (box.pc = "returned")' = (box.pc = "returned")
    BY <1>1, <1>2
  <2>7. Buffer!GiveUp(Packs(ch))
    BY <1>2, <2>4, <2>5, <2>6 DEF Buffer!GiveUp
  <2>8. QED
    BY <2>4, <2>7 DEF Buffer!Next
<1>5. QED
  BY <1>3, <1>4, Zenon DEF resendAARPRequests

\* outboxPop: its packets are the goroutine's now, and not late: Rejuvenate.
LEMMA PopKept ==
  ASSUME Kept, outboxPop
  PROVE  Apart' /\ Current' /\ Buffer!Next
<1>1. PICK ch : Popped(ch)
  BY PopPops
<1>2. /\ Typed /\ Filled /\ Apart /\ Current /\ box.pc = "select" /\ box.out = <<>>
      /\ ch \in Waiting /\ ch \in Chans /\ outboxes[ch] \in Box /\ Closed(ch)
  <2>1. Typed /\ Filled /\ Apart /\ Current /\ ch \in box.cases /\ Closed(ch) /\ box.pc = "select"
    BY <1>1 DEF Kept, Inv, Popped
  <2>2. ch \in Waiting /\ box.out = <<>>
    BY <2>1 DEF Filled, Typed
  <2>3. ch \in Chans /\ outboxes[ch] \in Box
    BY <2>1, <2>2 DEF Typed
  <2>4. QED
    BY <2>1, <2>2, <2>3
<1>3. amt[ch[1]].valid
  BY <1>2 DEF Current
<1>4. /\ box' = [pc |-> "send", cases |-> {}, out |-> outboxes[ch].packets]
      /\ outboxes' = Drop({ch}) /\ amt' = Looked(ch[1])
      /\ UNCHANGED <<changed, pushing, fresh, sent>>
  BY <1>1, <1>3 DEF Popped
<1>5. box'.out = outboxes[ch].packets /\ box'.pc = "send"
  BY <1>4
<1>6. outboxes[ch].packets \in Seq(Packets) /\ outboxes[ch].packets # <<>>
  <2>1. outboxes[ch].packets \in Seq(Packets) /\ Len(outboxes[ch].packets) # 0
    BY <1>2, OutAssumption DEF Box, Filled
  <2>2. QED
    BY <2>1, NotEmpty
<1>7. \A c \in Chans : (Closed(c)' <=> Closed(c)) /\ amt'[c[1]].valid = amt[c[1]].valid
  <2>1. ch[1] \in Addrs
    BY <1>2 DEF Chans
  <2>2. QED
    BY <1>2, <1>4, <2>1, LookedSame
<1>8. /\ Apart' /\ Current' /\ Late' = Late \ Packs(ch) /\ Held' = Held
      /\ Packs(ch) \subseteq Held /\ \A q \in Packs(ch) : Dest[q] = ch[1]
  BY <1>2, <1>4, <1>5, <1>6, <1>7, DropKept, Zenon
<1>9. PICK p : p \in Packs(ch)
  <2>1. IsInjective(outboxes[ch].packets)
    BY <1>2 DEF Apart
  <2>2. Head(outboxes[ch].packets) \in Packs(ch)
    BY <1>6, <2>1, TailRange DEF Packs
  <2>3. QED
    BY <2>2
<1>10. Packs(ch) \subseteq Buffer!WaitingWith(p)
  BY <1>8, <1>9 DEF Buffer!WaitingWith
<1>11. (box.pc = "returned")' = (box.pc = "returned")
  BY <1>2, <1>5
<1>12. Buffer!Rejuvenate(p, Packs(ch))
  BY <1>4, <1>8, <1>9, <1>10, <1>11 DEF Buffer!Rejuvenate
<1>13. QED
  BY <1>8, <1>9, <1>12 DEF Buffer!Next

\* A packet is written: Transmit.
LEMMA SendNextKept ==
  ASSUME Kept, SendNext
  PROVE  Apart' /\ Current' /\ Buffer!Next
<1> DEFINE p == Head(box.out)
<1>1. /\ Typed /\ Apart /\ Current /\ box \in Worker /\ box.pc = "send"
      /\ box.out \in Seq(Packets) /\ box.out # <<>> /\ IsInjective(box.out)
  BY DEF Kept, Inv, Typed, SendNext, Worker, Apart
<1>2. /\ Tail(box.out) \in Seq(Packets) /\ IsInjective(Tail(box.out)) /\ p \in Range(box.out)
      /\ Range(Tail(box.out)) = Range(box.out) \ {p}
  BY <1>1, TailRange
<1>3. /\ UNCHANGED <<amt, outboxes, changed, pushing, fresh>>
      /\ sent' = [sent EXCEPT ![p] = @ + 1]
  BY DEF SendNext
<1>4. box'.out = Tail(box.out) /\ box'.pc # "returned"
  <2>1. CASE Len(box.out) = 1
    <3>1. Len(Tail(box.out)) = 0
      BY <1>1, <2>1, HeadTailProperties
    <3>2. Tail(box.out) = <<>>
      BY <1>2, <3>1, EmptySeq, Zenon
    <3>3. QED
      BY <2>1, <3>2, BuildingType, Zenon DEF SendNext
  <2>2. CASE Len(box.out) # 1
    BY <1>1, <2>2 DEF SendNext, Worker
  <2>3. QED
    BY <2>1, <2>2
<1> HIDE DEF p
<1>5. IsInjective(box'.out) /\ Range(box'.out) = Range(box.out) \ {p}
  BY <1>2, <1>4
<1>6. Apart'
  BY <1>1, <1>3, <1>5 DEF Apart, Packs, Waiting
<1>7. Current'
  BY <1>1, <1>3 DEF Current, Closed, Waiting
<1>8. pushing[p] = None /\ \A c \in Waiting : p \notin Packs(c)
  BY <1>1, <1>2 DEF Apart
<1>9. \A q : q \in Held' <=> \/ q \in Packets /\ pushing[q] # None
                             \/ \E c \in Waiting : q \in Packs(c)
                             \/ q \in Range(box.out) \ {p}
  BY <1>3, <1>5 DEF Held, Boxed, Packs, Waiting
<1>10. Held' = Held \ {p}
  <2>1. \A q : q \in Held' <=> q \in Held \ {p}
    BY <1>8, <1>9, HeldIs
  <2>2. QED
    BY <2>1
<1>11. Late' = Late \ {p}
  <2>1. Late' = Late
    BY <1>3 DEF Late, Waiting
  <2>2. QED
    BY <1>8, <2>1, LateIs
<1>12. (box.pc = "returned")' = (box.pc = "returned")
  BY <1>1, <1>4
<1>13. p \in Held /\ p \in Packets
  <2>1. Range(box.out) \subseteq Packets
    BY <1>1 DEF Range
  <2>2. QED
    BY <1>2, <2>1, HeldIs
<1>14. Buffer!Transmit(p)
  BY <1>3, <1>10, <1>11, <1>12, <1>13 DEF Buffer!Transmit
<1>15. QED
  BY <1>6, <1>7, <1>13, <1>14 DEF Buffer!Next

\* The goroutine returns with what it had to send: Break.
LEMMA FailsKept ==
  ASSUME Kept, SendFails
  PROVE  Apart' /\ Current' /\ Buffer!Next
<1>1. Typed /\ Apart /\ Current
  BY DEF Kept, Inv
<1>2. box'.pc = "returned" /\ box'.out = <<>>
  <2>1. box' = [Building EXCEPT !.pc = "returned"]
    BY DEF SendFails
  <2>2. QED
    BY <2>1 DEF Building
<1>3. UNCHANGED <<amt, outboxes, changed, pushing, fresh, sent>>
  BY DEF SendFails
<1>4. Range(box'.out) = {} /\ IsInjective(box'.out)
  BY <1>2, EmptyRange
<1>5. Apart'
  BY <1>1, <1>3, <1>4 DEF Apart, Packs, Waiting
<1>6. Current'
  BY <1>1, <1>3 DEF Current, Closed, Waiting
<1>7. \A q \in Range(box.out) : pushing[q] = None /\ \A c \in Waiting : q \notin Packs(c)
  BY <1>1 DEF Apart
<1>8. \A q : q \in Held' <=> \/ q \in Packets /\ pushing[q] # None
                             \/ \E c \in Waiting : q \in Packs(c)
  BY <1>3, <1>4 DEF Held, Boxed, Packs, Waiting
<1>9. Held' = Held \ Range(box.out)
  <2>1. \A q : q \in Held' <=> q \in Held \ Range(box.out)
    BY <1>7, <1>8, HeldIs
  <2>2. QED
    BY <2>1
<1>10. Late' = Late \ Range(box.out)
  <2>1. Late' = Late
    BY <1>3 DEF Late, Waiting
  <2>2. \A q \in Range(box.out) : q \notin Late
    BY <1>7, LateIs
  <2>3. QED
    BY <2>1, <2>2
<1>11. Range(box.out) \subseteq Held
  BY HeldIs
<1>12. Buffer!Break(Range(box.out))
  BY <1>2, <1>3, <1>9, <1>10, <1>11 DEF Buffer!Break
<1>13. QED
  BY <1>5, <1>6, <1>11, <1>12 DEF Buffer!Next

-----------------------------------------------------------------------------
\* Every step is one of the buffer's, or none.
LEMMA StepKept ==
  ASSUME Kept, Prompt, [OutNext]_outVars
  PROVE  Kept' /\ [Buffer!Next]_(Buffer!bufferVars)
<1>1. Inv'
  BY StepInv DEF Kept
<1>2. CASE UNCHANGED outVars
  <2>1. Apart /\ Current /\ Quiet
    BY <1>2 DEF Kept, Quiet, outVars
  <2>2. Current'
    BY <1>2, <2>1 DEF outVars, Current, Closed, Waiting
  <2>3. QED
    BY <1>1, <2>1, <2>2, QuietStep DEF Kept
<1>3. CASE OutNext
  <2>1. Apart' /\ Current' /\ (Buffer!Next \/ UNCHANGED Buffer!bufferVars)
    BY <1>3, LearnKept, ExpireKept, BuildKept, LookupKept, PushKept, GoStaleKept, ResendKept,
       PopKept, SendNextKept, FailsKept
       DEF OutNext, OutStep, Goroutine, Senders, Clock
  <2>2. QED
    BY <1>1, <2>1 DEF Kept
<1>4. QED
  BY <1>2, <1>3

\* Send keeps its promise, for any packets, destinations and limit: while closed channels
\* are served before their entries expire, a packet is put on the cable at most once for
\* each Send, and it is given up only after waiting too long, for a newer packet of its
\* hop when the outbox is full, or when writing to the device fails.
THEOREM SendKeepsItsPromise ==
  ASSUME Prompt
  PROVE  Spec => KeepsPromise
<1>1. OutInit => Kept /\ Buffer!Init
  BY InitKept
<1>2. Kept /\ [OutNext]_outVars => Kept' /\ [Buffer!Next]_(Buffer!bufferVars)
  BY StepKept
<1>3. QED
  BY <1>1, <1>2, PortIsOutbox, PTL DEF OutSpec, KeepsPromise, Buffer!Spec
=============================================================================
