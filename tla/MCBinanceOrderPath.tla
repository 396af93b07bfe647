------------------------- MODULE MCBinanceOrderPath -------------------------
(***************************************************************************)
(* Orders of two lots against a limit of three: executions can be partial  *)
(* and a second order of a side can pass the limit.                        *)
(***************************************************************************)
EXTENDS BinanceOrderPath
=============================================================================
