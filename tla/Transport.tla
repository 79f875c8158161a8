------------------------------ MODULE Transport ------------------------------
(***************************************************************************)
(* Sequence numbers and connection IDs of AURP-Tr (aurp/aurp.go and        *)
(* aurp/transport.go).  Both are 16-bit counters that skip the reserved    *)
(* value 0.  MaxID stands for 65535.                                       *)
(***************************************************************************)
EXTENDS Integers

CONSTANT MaxID    \* the largest 16-bit value; 65535 in the code

\* checkRemoteSeq tells a packet apart from its two neighbours, which needs
\* three different numbers in the cycle.
ASSUME MaxIDAssumption == MaxID \in Nat /\ MaxID >= 3

ID == 1..MaxID

\* Mutant: the reserved number 0 is not skipped.
SuccWithoutSkip(n) == (n + 1) % (MaxID + 1)

\* aurp.Succ: the next number in the cycle 1, 2, ..., MaxID, 1, ...
Succ(n) == IF n = MaxID THEN 1 ELSE n + 1

\* aurp.Pred: the number before n in the same cycle.
Pred(n) == IF n <= 1 THEN MaxID ELSE n - 1
=============================================================================
