--------------------------- MODULE MCSimexMarket ---------------------------
(***************************************************************************)
(* Three orders, one more than the book may hold, and three updates: a     *)
(* snapshot in the middle with increments on both sides of it; an order    *)
(* that is added, changed and canceled.                                    *)
(***************************************************************************)
EXTENDS SimexMarket
=============================================================================
