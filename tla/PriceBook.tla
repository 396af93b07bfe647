----------------------------- MODULE PriceBook -----------------------------
(***************************************************************************)
(* What one side of an order book promises: a ladder of levels, the best   *)
(* price first and no price twice, that changes as its levels are set and  *)
(* removed.  There is room for a number of levels.                         *)
(***************************************************************************)
EXTENDS Integers, SequencesExt

CONSTANTS Prices,       \* prices of levels, as numbers
          Quantities,   \* quantities of levels
          IsBid,        \* is_bid
          Capacity      \* levels there is room for

VARIABLE ladder         \* the levels, best first

Better(a, b) == IF IsBid THEN a > b ELSE a < b

\* Levels in the order of their prices.
Ladder(levels) == SetToSortSeq(levels, LAMBDA a, b : Better(a.price, b.price))

Others(price) == {level \in ToSet(ladder) : level.price # price}

HasRoom(price) == Cardinality(Others(price)) < Capacity

SetLevel(price, qty) ==
    /\ HasRoom(price)
    /\ ladder' = Ladder(Others(price) \cup {[price |-> price, qty |-> qty]})

RemoveLevel(price) == ladder' = Ladder(Others(price))

Clear == ladder' = << >>
-----------------------------------------------------------------------------
BookInit == ladder = << >>

BookNext ==
    \/ \E price \in Prices : (\E qty \in Quantities : SetLevel(price, qty)) \/ RemoveLevel(price)
    \/ Clear

BookSpec == BookInit /\ [][BookNext]_ladder
=============================================================================
