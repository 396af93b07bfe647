--------------------------- MODULE MCParticipant ---------------------------
(***************************************************************************)
(* Four orders of two lots against a limit of three: a partial fill leaves *)
(* a remainder, a second order can reach the limit, a close can be smaller *)
(* than the order quantity.                                                *)
(***************************************************************************)
EXTENDS Participant
=============================================================================
