--------------------------- MODULE MCBinanceMarket ---------------------------
(***************************************************************************)
(* Three prices for a book of two levels, and updates enough for a         *)
(* snapshot, an event that overlaps it, and one lost or one too many.      *)
(***************************************************************************)
EXTENDS BinanceMarket
=============================================================================
