--------------------------- MODULE DatagramBuffer ---------------------------
(***************************************************************************)
(* What EtherTalkPort.Send promises its callers, without channels, map     *)
(* entries or goroutines: a packet is put on the cable once, now or once   *)
(* its next hop's hardware address is known; it is given up only when it   *)
(* has waited too long or when too many packets wait for the same hop.     *)
(* When writing to the device fails, the promise ends with it.             *)
(***************************************************************************)
EXTENDS Naturals, FiniteSets

CONSTANTS Packets, Dest, Capacity

VARIABLES fresh,  \* packets not given to Send yet
          held,   \* packets waiting for an address
          late,   \* those of them that have waited too long
          sent,   \* how often each packet was put on the cable
          broken  \* writing to the device has failed

bufferVars == <<fresh, held, late, sent, broken>>

Init == /\ fresh = Packets /\ held = {} /\ late = {} /\ broken = FALSE
        /\ sent = [p \in Packets |-> 0]

WaitingWith(p) == {q \in held : Dest[q] = Dest[p]}

\* Send: at once, or kept; a kept packet makes packets of its hop young again and may
\* push one of them out.
SendNow(p) == /\ p \in fresh
              /\ fresh' = fresh \ {p}
              /\ sent' = [sent EXCEPT ![p] = @ + 1]
              /\ UNCHANGED <<held, late, broken>>
Keep(p) == /\ p \in fresh
           /\ fresh' = fresh \ {p}
           /\ held' = held \cup {p}
           /\ UNCHANGED <<late, sent, broken>>
Rejuvenate(p, s) == /\ p \in held /\ s \subseteq WaitingWith(p)
                    /\ late' = late \ s
                    /\ UNCHANGED <<fresh, held, sent, broken>>
PushOut(p, s) == /\ p \in held /\ Cardinality(WaitingWith(p)) > Capacity
                 /\ p \in s /\ s \subseteq WaitingWith(p)
                 /\ held' = held \ {p}
                 /\ late' = late \ s
                 /\ UNCHANGED <<fresh, sent, broken>>

\* Later: the address is known, or the wait was too long.
Transmit(p) == /\ p \in held
               /\ held' = held \ {p} /\ late' = late \ {p}
               /\ sent' = [sent EXCEPT ![p] = @ + 1]
               /\ UNCHANGED <<fresh, broken>>
GrowLate(s) == /\ s \subseteq held
               /\ late' = late \cup s
               /\ UNCHANGED <<fresh, held, sent, broken>>
GiveUp(s) == /\ s \subseteq late
             /\ held' = held \ s /\ late' = late \ s
             /\ UNCHANGED <<fresh, sent, broken>>
Break(s) == /\ s \subseteq held
            /\ broken' = TRUE
            /\ held' = held \ s /\ late' = late \ s
            /\ UNCHANGED <<fresh, sent>>

Next == \/ \E p \in Packets : SendNow(p) \/ Keep(p) \/ Transmit(p)
        \/ \E s \in SUBSET held : GrowLate(s) \/ GiveUp(s) \/ Break(s)
        \/ \E p \in held, s \in SUBSET held : Rejuvenate(p, s) \/ PushOut(p, s)

Spec == Init /\ [][Next]_bufferVars
=============================================================================
