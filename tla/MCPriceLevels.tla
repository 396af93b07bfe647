--------------------------- MODULE MCPriceLevels ---------------------------
(***************************************************************************)
(* Two prices share the last slot as their home, so that their chain wraps *)
(* around, and the others have one each: tombstones pile up all over the   *)
(* array, are reused and are cleared away.  There are more prices than     *)
(* blocks.                                                                 *)
(***************************************************************************)
EXTENDS PriceLevels

SpreadHome ==
    [price \in Prices |-> IF price = 1 THEN SlotCount - 1 ELSE (price + SlotCount - 3) % SlotCount]
=============================================================================
