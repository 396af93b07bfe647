--------------------------- MODULE MCDepthLevels ---------------------------
(***************************************************************************)
(* Five prices for three levels: prices that are skipped, that push others *)
(* out, and that meet a level of theirs.                                   *)
(***************************************************************************)
EXTENDS DepthLevels
=============================================================================
