----------------------------- MODULE Push_proofs -----------------------------
(***************************************************************************)
(* Where packets are between Send and the cable: the invariants that the   *)
(* promise of DatagramBuffer rests on (Promise_proofs), and that           *)
(* outboxPush, the step that needs them most, keeps them and the promise.  *)
(***************************************************************************)
EXTENDS Outbox_proofs

Packs(ch) == Range(outboxes[ch].packets)

\* A packet is in one place: not given to Send yet, between lookup and push, in one
\* outbox of its own next hop, or in the goroutine's hands.
Apart ==
  /\ \A ch \in Waiting : IsInjective(outboxes[ch].packets)
  /\ \A ch \in Waiting : \A p \in Packs(ch) :
       Dest[p] = ch[1] /\ p \notin fresh /\ pushing[p] = None /\ p \notin Range(box.out)
  /\ \A ch, c \in Waiting : ch # c => Packs(ch) \cap Packs(c) = {}
  /\ \A p \in Packets : pushing[p] # None => p \notin fresh /\ pushing[p][1] = Dest[p]
  /\ IsInjective(box.out)
  /\ \A p \in Range(box.out) : p \notin fresh /\ pushing[p] = None

\* A closed channel that packets wait on is one of a valid entry.
Current ==
  /\ \A ch \in Waiting : Closed(ch) => amt[ch[1]].valid
  /\ \A p \in Packets : pushing[p] # None /\ Closed(pushing[p]) => amt[pushing[p][1]].valid

Kept == Inv /\ Apart /\ Current

-----------------------------------------------------------------------------
\* Sequences without duplicates.
LEMMA EmptyRange == Range(<<>>) = {} /\ IsInjective(<<>>)
BY DEF Range, IsInjective

\* One more element.
LEMMA AppendRange ==
  ASSUME NEW s \in Seq(Packets), IsInjective(s), NEW p \in Packets, p \notin Range(s)
  PROVE  /\ Append(s, p) \in Seq(Packets) /\ Len(Append(s, p)) = Len(s) + 1
         /\ IsInjective(Append(s, p))
         /\ Range(Append(s, p)) = Range(s) \cup {p}
<1> DEFINE t == Append(s, p)
           n == Len(s)
<1>1. n \in Nat /\ DOMAIN s = 1 .. n
  BY LenProperties
<1>2. /\ t \in Seq(Packets) /\ Len(t) = n + 1
      /\ \A i \in 1 .. n : t[i] = s[i]
      /\ t[n + 1] = p
  BY <1>1
<1>3. DOMAIN t = 1 .. (n + 1)
  BY <1>2, LenProperties
<1> HIDE DEF t, n
<1>4. IsInjective(t)
  BY <1>1, <1>2, <1>3 DEF IsInjective, Range
<1>5. Range(t) = Range(s) \cup {p}
  BY <1>1, <1>2, <1>3 DEF Range
<1>6. QED
  BY <1>2, <1>4, <1>5 DEF t, n

\* The first element taken off.
LEMMA TailRange ==
  ASSUME NEW s \in Seq(Packets), IsInjective(s), s # <<>>
  PROVE  /\ Tail(s) \in Seq(Packets) /\ IsInjective(Tail(s))
         /\ Head(s) \in Range(s)
         /\ Range(Tail(s)) = Range(s) \ {Head(s)}
<1> DEFINE t == Tail(s)
           n == Len(s)
           h == Head(s)
<1>1. n \in Nat /\ DOMAIN s = 1 .. n /\ n # 0
  BY LenProperties, EmptySeq
<1>2. t \in Seq(Packets) /\ Len(t) = n - 1 /\ \A i \in 1 .. Len(t) : t[i] = s[i + 1]
  BY HeadTailProperties
<1>3. h = s[1]
  BY <1>1
<1>4. DOMAIN t = 1 .. (n - 1) /\ \A i \in 1 .. (n - 1) : t[i] = s[i + 1]
  BY <1>2, LenProperties
<1> HIDE DEF t, n, h
<1>5. \A i, j \in 1 .. n : s[i] = s[j] => i = j
  BY <1>1 DEF IsInjective
<1>6. IsInjective(t)
  <2> SUFFICES ASSUME NEW i \in 1 .. (n - 1), NEW j \in 1 .. (n - 1), t[i] = t[j]
               PROVE  i = j
    BY <1>4 DEF IsInjective
  <2>1. s[i + 1] = s[j + 1] /\ i + 1 \in 1 .. n /\ j + 1 \in 1 .. n
    BY <1>1, <1>4
  <2>2. QED
    BY <1>5, <2>1
<1>7. h \in Range(s)
  BY <1>1, <1>3 DEF Range
<1>8. Range(t) \subseteq Range(s) \ {h}
  <2> SUFFICES ASSUME NEW i \in 1 .. (n - 1)
               PROVE  t[i] \in Range(s) /\ t[i] # h
    BY <1>4 DEF Range
  <2>1. i + 1 \in 1 .. n /\ i + 1 # 1 /\ 1 \in 1 .. n /\ t[i] = s[i + 1]
    BY <1>1, <1>4
  <2>2. QED
    BY <1>1, <1>3, <1>5, <2>1 DEF Range
<1>9. Range(s) \ {h} \subseteq Range(t)
  <2> SUFFICES ASSUME NEW i \in 1 .. n, s[i] # h
               PROVE  s[i] \in Range(t)
    BY <1>1 DEF Range
  <2>1. i - 1 \in 1 .. (n - 1) /\ (i - 1) + 1 = i
    BY <1>1, <1>3
  <2>2. t[i - 1] = s[i]
    BY <1>4, <2>1
  <2>3. QED
    BY <1>4, <2>1, <2>2 DEF Range
<1>10. QED
  BY <1>2, <1>6, <1>7, <1>8, <1>9 DEF t, h

\* As many elements as places.
LEMMA CountRange ==
  ASSUME NEW s \in Seq(Packets), IsInjective(s)
  PROVE  Cardinality(Range(s)) = Len(s)
<1>1. Len(s) \in Nat /\ s \in [1 .. Len(s) -> Packets] /\ DOMAIN s = 1 .. Len(s)
  BY LenProperties
<1>2. s \in [1 .. Len(s) -> Range(s)]
  BY <1>1 DEF Range
<1>3. s \in Bijection(1 .. Len(s), Range(s))
  BY <1>1, <1>2 DEF Bijection, Injection, Surjection, Range
<1>4. ExistsBijection(1 .. Len(s), Range(s))
  BY <1>3 DEF ExistsBijection
<1>5. QED
  BY <1>1, <1>4, FS_CountingElements

\* Trim drops the oldest packet, when one too many waits.
LEMMA TrimOne ==
  ASSUME NEW s \in Seq(Packets), Len(s) \in 1 .. (maxOutboxSize + 1)
  PROVE  Trim(s) = IF Len(s) = maxOutboxSize + 1 THEN Tail(s) ELSE s
<1>1. maxOutboxSize \in Nat \ {0} /\ Len(s) \in Nat
  BY OutAssumption
<1>2. CASE Len(s) = maxOutboxSize + 1
  <2>1. s # <<>>
    BY NotEmpty
  <2>2. Trim(s) = SubSeq(s, 2, Len(s))
    <3>1. Len(s) > maxOutboxSize /\ Len(s) - maxOutboxSize + 1 = 2
      BY <1>1, <1>2
    <3>2. QED
      BY <3>1 DEF Trim
  <2>3. QED
    BY <1>2, <2>1, <2>2, TailIsSubSeq
<1>3. CASE Len(s) # maxOutboxSize + 1
  <2>1. ~(Len(s) > maxOutboxSize)
    BY <1>1, <1>3
  <2>2. QED
    BY <1>3, <2>1 DEF Trim
<1>4. QED
  BY <1>2, <1>3

-----------------------------------------------------------------------------
\* Where the held packets are.
LEMMA HeldIs ==
  \A q : q \in Held <=> \/ q \in Packets /\ pushing[q] # None
                        \/ \E c \in Waiting : q \in Packs(c)
                        \/ q \in Range(box.out)
BY DEF Held, Boxed, Packs

\* The same after a step.
LEMMA HeldNext ==
  \A q : q \in Held' <=> \/ q \in Packets /\ pushing'[q] # None
                         \/ \E c \in Waiting' : q \in Packs(c)'
                         \/ q \in Range(box'.out)
BY DEF Held, Boxed, Packs

\* The late packets are those of stale outboxes.
LEMMA LateIs ==
  \A q : q \in Late <=> \E c \in Waiting : outboxes[c].stale /\ q \in Packs(c)
BY DEF Late, Packs

\* The same after a step.
LEMMA LateNext ==
  \A q : q \in Late' <=> \E c \in Waiting' : outboxes'[c].stale /\ q \in Packs(c)'
BY DEF Late, Packs

\* A push: the outbox gains the packet, and loses its oldest when it was full.
LEMMA PushSeq ==
  ASSUME Kept, NEW p \in Packets, Push(p), NEW ch, ch = pushing[p]
  PROVE  LET old == Range(Old(ch))
             new == Range(outboxes'[ch].packets)
         IN  /\ IsInjective(outboxes'[ch].packets)
             /\ p \notin old
             /\ \/ new = old \cup {p}
                \/ /\ Cardinality(old \cup {p}) > maxOutboxSize
                   /\ \E h \in old : new = (old \cup {p}) \ {h}
<1> DEFINE s == Append(Old(ch), p)
           t == outboxes'[ch].packets
<1>1. Typed /\ Filled /\ Apart /\ Inv /\ ch # None
  BY DEF Kept, Inv, Push
<1>2. /\ Old(ch) \in Seq(Packets) /\ IsInjective(Old(ch)) /\ p \notin Range(Old(ch))
      /\ Len(Old(ch)) \in 0 .. maxOutboxSize
  <2>1. Old(ch) \in Seq(Packets)
    BY <1>1, PushEffect, Zenon
  <2>2. CASE ch \in Waiting
    <3>1. p \notin Packs(ch)
      BY <1>1, <2>2 DEF Apart
    <3>2. QED
      BY <1>1, <2>1, <2>2, <3>1, OutAssumption DEF Apart, Old, Packs, Filled
  <2>3. CASE ch \notin Waiting
    <3>1. Old(ch) = <<>>
      BY <2>3 DEF Old
    <3>2. IsInjective(Old(ch)) /\ p \notin Range(Old(ch))
      BY <3>1, EmptyRange
    <3>3. Len(Old(ch)) = 0
      BY <3>1, EmptySeq
    <3>4. QED
      BY <2>1, <3>2, <3>3, OutAssumption
  <2>4. QED
    BY <2>2, <2>3
<1>3. /\ s \in Seq(Packets) /\ Len(s) = Len(Old(ch)) + 1 /\ IsInjective(s)
      /\ Range(s) = Range(Old(ch)) \cup {p}
  BY <1>2, AppendRange
<1>4. Len(s) \in 1 .. (maxOutboxSize + 1) /\ maxOutboxSize \in Nat \ {0}
  BY <1>2, <1>3, OutAssumption
<1>5. t = Trim(s)
  BY <1>1, PushEffect, Zenon
<1>6. Trim(s) = IF Len(s) = maxOutboxSize + 1 THEN Tail(s) ELSE s
  BY <1>3, <1>4, TrimOne, Zenon
<1>7. CASE Len(s) # maxOutboxSize + 1
  BY <1>2, <1>3, <1>5, <1>6, <1>7
<1>8. CASE Len(s) = maxOutboxSize + 1
  <2>1. Cardinality(Range(s)) > maxOutboxSize
    <3>1. Cardinality(Range(s)) = Len(s)
      BY <1>3, CountRange, Zenon
    <3>2. QED
      BY <1>4, <1>8, <3>1
  <2>2. s # <<>>
    BY <1>3, <1>4, NotEmpty
  <2>3. IsInjective(Tail(s)) /\ Range(Tail(s)) = Range(s) \ {Head(s)}
    BY <1>3, <2>2, TailRange, Zenon
  <2>4. Head(s) \in Range(Old(ch))
    <3>1. Len(Old(ch)) >= 1 /\ Len(Old(ch)) \in Nat
      BY <1>3, <1>4, <1>8, <1>2
    <3>2. Head(s) = s[1] /\ s[1] = Old(ch)[1]
      BY <1>2, <3>1
    <3>3. 1 \in DOMAIN Old(ch)
      BY <1>2, <3>1, LenProperties
    <3>4. QED
      BY <3>2, <3>3 DEF Range
  <2>5. QED
    BY <1>2, <1>3, <1>5, <1>6, <1>8, <2>1, <2>3, <2>4, Zenon
<1>9. QED
  BY <1>7, <1>8

\* The buffer counts as the port does.
LEMMA SameCardinality ==
  ASSUME NEW S
  PROVE  Buffer!Cardinality(S) = Cardinality(S)
BY DEF Buffer!Cardinality, Cardinality

\* Send, second half: Rejuvenate, or PushOut of the oldest.
LEMMA PushKept ==
  ASSUME Kept, NEW p \in Packets, Push(p)
  PROVE  Apart' /\ Current' /\ Buffer!Next
<1>0. PICK ch : ch = pushing[p]
  OBVIOUS
<1> DEFINE old == Range(Old(ch))
           new == Range(outboxes'[ch].packets)
<1>1. Typed /\ Apart /\ Current /\ Inv /\ ch # None
  BY <1>0 DEF Kept, Inv, Push
<1>2. /\ UNCHANGED <<amt, box, fresh, sent>>
      /\ pushing'[p] = None /\ \A q \in Packets \ {p} : pushing'[q] = pushing[q]
  BY <1>1 DEF Push, Typed
<1>3. /\ ch \in Chans /\ Waiting' = Waiting \cup {ch} /\ outboxes'[ch].stale = FALSE
      /\ \A c \in Waiting \ {ch} : outboxes'[c] = outboxes[c]
  BY <1>0, <1>1, PushEffect, Zenon
<1>4. /\ IsInjective(outboxes'[ch].packets) /\ p \notin old
      /\ \/ new = old \cup {p}
         \/ /\ Cardinality(old \cup {p}) > maxOutboxSize
            /\ \E h \in old : new = (old \cup {p}) \ {h}
  BY <1>0, PushSeq
<1>5. old = IF ch \in Waiting THEN Packs(ch) ELSE {}
  BY EmptyRange, Zenon DEF Old, Packs
<1>6. p \notin fresh /\ ch[1] = Dest[p] /\ (Closed(ch) => amt[ch[1]].valid)
  BY <1>0, <1>1 DEF Apart, Current
<1>7. Packs(ch)' = new /\ \A c \in Waiting \ {ch} : Packs(c)' = Packs(c)
  BY <1>3 DEF Packs
<1>8. \A c \in Waiting : p \notin Packs(c)
  BY <1>0, <1>1 DEF Apart
<1>9. p \notin Range(box.out)
  BY <1>0, <1>1 DEF Apart
<1>10. /\ \A c \in Waiting : Packs(c) \subseteq Packets
       /\ Range(box.out) \subseteq Packets
  BY <1>1 DEF Typed, Box, Worker, Packs, Range
<1>11. pushing[p] # None
  BY <1>0, <1>1
<1> HIDE DEF old, new
<1>12. new \subseteq old \cup {p}
  BY <1>4
<1>13. \A q \in old : Dest[q] = ch[1] /\ q \notin fresh /\ pushing[q] = None /\ q \notin Range(box.out)
  BY <1>1, <1>5 DEF Apart
<1>14. \A c \in Waiting \ {ch} : Packs(c) \cap old = {}
  BY <1>1, <1>5 DEF Apart
<1>15. old \subseteq Packets
  BY <1>5, <1>10
<1>16. Apart'
  <2>1. \A c \in Waiting' : IsInjective(outboxes'[c].packets)
    BY <1>1, <1>3, <1>4 DEF Apart
  <2>2. \A c \in Waiting' : \A q \in Packs(c)' :
          Dest[q] = c[1] /\ q \notin fresh' /\ pushing'[q] = None /\ q \notin Range(box'.out)
    <3>1. \A q \in new : Dest[q] = ch[1] /\ q \notin fresh' /\ pushing'[q] = None /\ q \notin Range(box'.out)
      BY <1>2, <1>6, <1>9, <1>12, <1>13, <1>15
    <3>2. \A c \in Waiting \ {ch} : \A q \in Packs(c) :
            Dest[q] = c[1] /\ q \notin fresh' /\ pushing'[q] = None /\ q \notin Range(box'.out)
      BY <1>1, <1>2, <1>8, <1>10 DEF Apart
    <3>3. QED
      BY <1>3, <1>7, <3>1, <3>2
  <2>3. \A c, d \in Waiting' : c # d => Packs(c)' \cap Packs(d)' = {}
    <3>1. \A c \in Waiting \ {ch} : Packs(c) \cap new = {}
      BY <1>8, <1>12, <1>14
    <3>2. \A c, d \in Waiting \ {ch} : c # d => Packs(c) \cap Packs(d) = {}
      BY <1>1 DEF Apart
    <3>3. QED
      BY <1>3, <1>7, <3>1, <3>2
  <2>4. \A q \in Packets : pushing'[q] # None => q \notin fresh' /\ pushing'[q][1] = Dest[q]
    BY <1>1, <1>2 DEF Apart
  <2>5. IsInjective(box'.out) /\ \A q \in Range(box'.out) : q \notin fresh' /\ pushing'[q] = None
    BY <1>1, <1>2, <1>10 DEF Apart
  <2>6. QED
    BY <2>1, <2>2, <2>3, <2>4, <2>5 DEF Apart
<1>17. Current'
  <2>1. \A c : Closed(c)' <=> Closed(c)
    BY <1>2 DEF Closed
  <2>2. QED
    BY <1>1, <1>2, <1>3, <1>6, <2>1 DEF Current
<1>18. Late' = Late \ old
  <2>1. Late' = UNION {Packs(c) : c \in {d \in Waiting \ {ch} : outboxes[d].stale}}
    BY <1>3 DEF Late, Packs
  <2>2. \A q : q \in Late' <=> \E c \in Waiting \ {ch} : outboxes[c].stale /\ q \in Packs(c)
    BY <2>1
  <2>3. \A q : q \in Late' <=> q \in Late \ old
    BY <1>5, <1>14, <2>2, LateIs
  <2>4. QED
    BY <2>3
<1>19. \A q : q \in Held' <=> \/ q \in Packets \ {p} /\ pushing[q] # None
                              \/ q \in new
                              \/ \E c \in Waiting \ {ch} : q \in Packs(c)
                              \/ q \in Range(box.out)
  <2>1. \A q : (\E c \in Waiting' : q \in Packs(c)') <=> q \in new \/ \E c \in Waiting \ {ch} : q \in Packs(c)
    BY <1>3, <1>7
  <2>2. \A q \in Packets : pushing'[q] # None <=> q # p /\ pushing[q] # None
    BY <1>2
  <2>3. Range(box'.out) = Range(box.out)
    BY <1>2
  <2>4. QED
    BY <2>1, <2>2, <2>3, HeldNext
<1>20. old \cup {p} \subseteq Held
  BY <1>5, <1>11, HeldIs
<1>21. CASE new = old \cup {p}
  <2>1. Held' = Held
    <3>1. \A q : q \in Held' <=> q \in Held
      BY <1>5, <1>11, <1>19, <1>21, HeldIs
    <3>2. QED
      BY <3>1
  <2>2. old \subseteq Buffer!WaitingWith(p)
    BY <1>6, <1>13, <1>20 DEF Buffer!WaitingWith
  <2>3. Buffer!Rejuvenate(p, old)
    BY <1>2, <1>18, <1>20, <2>1, <2>2 DEF Buffer!Rejuvenate
  <2>4. QED
    BY <1>16, <1>17, <1>20, <2>3 DEF Buffer!Next
<1>22. CASE Cardinality(old \cup {p}) > maxOutboxSize /\ \E h \in old : new = (old \cup {p}) \ {h}
  <2>1. PICK h \in old : new = (old \cup {p}) \ {h}
    BY <1>22
  <2>2. Held' = Held \ {h}
    <3>1. pushing[h] = None /\ h \notin Range(box.out) /\ \A c \in Waiting \ {ch} : h \notin Packs(c)
      BY <1>13, <1>14
    <3>2. \A q : q \in Held' <=> q \in Held \ {h}
      BY <1>5, <1>11, <1>19, <2>1, <3>1, HeldIs
    <3>3. QED
      BY <3>2
  <2>3. old \cup {p} \subseteq Buffer!WaitingWith(h)
    BY <1>6, <1>13, <1>20 DEF Buffer!WaitingWith
  <2>4. Cardinality(Buffer!WaitingWith(h)) > maxOutboxSize
    <3> DEFINE W == Buffer!WaitingWith(h)
    <3>1. W \subseteq Packets
      <4>1. Held \subseteq Packets
        BY <1>10, HeldIs
      <4>2. QED
        BY <4>1 DEF Buffer!WaitingWith
    <3>2. IsFiniteSet(W)
      BY <3>1, OutAssumption, FS_Subset
    <3>3. (old \cup {p}) \in SUBSET W
      BY <2>3
    <3> HIDE DEF W
    <3>4. IsFiniteSet(old \cup {p}) /\ Cardinality(old \cup {p}) <= Cardinality(W)
      BY <3>2, <3>3, FS_Subset
    <3>5. Cardinality(old \cup {p}) \in Nat /\ Cardinality(W) \in Nat
      BY <3>2, <3>4, FS_CardinalityType
    <3>6. QED
      BY <1>22, <3>4, <3>5, OutAssumption DEF W
  <2>5. old \subseteq Buffer!WaitingWith(h) /\ h \in Held /\ h \in old
    BY <1>20, <2>1, <2>3
  <2>6. UNCHANGED <<fresh, sent, box.pc = "returned">>
    BY <1>2
  <2>7. Buffer!PushOut(h, old)
    BY <1>18, <2>2, <2>4, <2>5, <2>6, SameCardinality DEF Buffer!PushOut
  <2>8. QED
    BY <1>16, <1>17, <1>20, <2>5, <2>7 DEF Buffer!Next
<1>23. QED
  BY <1>4, <1>21, <1>22
=============================================================================
