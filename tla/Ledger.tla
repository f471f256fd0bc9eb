------------------------------- MODULE Ledger -------------------------------
(***************************************************************************)
(* What the audit log promises its callers, without hashes, processes or   *)
(* system calls: a list of records that only grows at its end, of which a  *)
(* first part is kept for ever and the rest may be lost.                   *)
(***************************************************************************)
EXTENDS Naturals, Sequences

CONSTANT Body
VARIABLES records, kept

Init == records = <<>> /\ kept = 0

Add == /\ \E b \in Body : records' = Append(records, b)
       /\ UNCHANGED kept

Keep == kept' = Len(records) /\ UNCHANGED records

Lose == /\ \E n \in kept..Len(records) : /\ records' = SubSeq(records, 1, n)
                                        /\ kept' = n

Next == Add \/ Keep \/ Lose

Spec == Init /\ [][Next]_<<records, kept>>
=============================================================================
