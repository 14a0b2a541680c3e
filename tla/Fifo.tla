-------------------------------- MODULE Fifo --------------------------------
(***************************************************************************)
(* What an event ring promises: a first-in first-out queue of Cap events   *)
(* which turns the newest event away, and counts it, only when it is full. *)
(***************************************************************************)
EXTENDS Naturals, Sequences

CONSTANT Cap

VARIABLES q, lost

Init == q = <<>> /\ lost = 0

Push == /\ Len(q) < Cap
        /\ q' # <<>> /\ q' = Append(q, q'[Len(q')])
        /\ UNCHANGED lost

Drop == /\ Len(q) = Cap
        /\ lost' = lost + 1
        /\ UNCHANGED q

Take == /\ \E n \in 1..Len(q) : q' = SubSeq(q, n + 1, Len(q))
        /\ UNCHANGED lost

Spec == Init /\ [][Push \/ Drop \/ Take]_<<q, lost>>
=============================================================================
