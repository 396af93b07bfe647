--------------------------- MODULE FreshDecisions ---------------------------
(***************************************************************************)
(* What the evaluation pipeline promises: decisions are acted on in the    *)
(* order of their evaluations, each at most once, and only while their     *)
(* evaluation is the one pending.  An evaluation that was invalidated or   *)
(* superseded never becomes pending again, so what was decided on it is    *)
(* never acted on, whenever it arrives.                                    *)
(***************************************************************************)
EXTENDS Integers

VARIABLES pending,   \* the evaluation whose decision is awaited; 0 is none
          last,      \* the last evaluation that was registered
          acted      \* the last evaluation whose decision was acted on

vars == <<pending, last, acted>>

Init == pending = 0 /\ last = 0 /\ acted = 0

Register ==
    /\ pending' = last + 1
    /\ last' = last + 1
    /\ UNCHANGED acted

Invalidate ==
    /\ pending' = 0
    /\ UNCHANGED <<last, acted>>

Act ==
    /\ acted < pending
    /\ acted' = pending
    /\ UNCHANGED <<pending, last>>

Next == Register \/ Invalidate \/ Act

Spec == Init /\ [][Next]_vars
=============================================================================
