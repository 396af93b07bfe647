------------------------- MODULE MCSimNowOrderPath -------------------------
(***************************************************************************)
(* Two orders: one to open, and one to close what it bought or to open     *)
(* again, while late and repeated callbacks of the first still come; and   *)
(* an account that may not be empty when the program starts.               *)
(***************************************************************************)
EXTENDS SimNowOrderPath
=============================================================================
