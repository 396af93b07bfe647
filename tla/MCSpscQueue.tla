---------------------------- MODULE MCSpscQueue ----------------------------
(***************************************************************************)
(* A ring of three slots and three distinguishable elements: the indices   *)
(* wrap with the ring empty, partly full and full.                         *)
(***************************************************************************)
EXTENDS SpscQueue
=============================================================================
