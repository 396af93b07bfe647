---------------------------- MODULE BoundedFifo ----------------------------
(***************************************************************************)
(* What a Common::LFQueue promises to its two threads: a first-in          *)
(* first-out channel of at most Capacity elements.  The producer appends   *)
(* at the tail, the consumer handles the head and removes it.  SpscQueue   *)
(* is shown to implement this module.                                      *)
(***************************************************************************)
EXTENDS Naturals, Sequences

CONSTANTS Values,    \* what the producer may write
          Empty,     \* the default-constructed slot, before any write
          Capacity   \* number of elements the queue can hold

VARIABLES queue,     \* elements written and not handled yet, oldest first
          handled    \* the element the consumer handled last

vars == <<queue, handled>>

Init ==
    /\ queue = << >>
    /\ handled = Empty

Enqueue(v) ==
    /\ Len(queue) < Capacity
    /\ queue' = Append(queue, v)
    /\ UNCHANGED handled

Dequeue ==
    /\ queue # << >>
    /\ handled' = Head(queue)
    /\ queue' = Tail(queue)

Next == Dequeue \/ \E v \in Values : Enqueue(v)

Spec == Init /\ [][Next]_vars
=============================================================================
