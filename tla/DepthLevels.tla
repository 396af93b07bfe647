---------------------------- MODULE DepthLevels ----------------------------
(***************************************************************************)
(* The depth the simex adapter publishes: for each side, the best prices   *)
(* of the book with the quantity of all orders at each.  The orders come   *)
(* in no particular order, one at a time, and only so many levels are ever *)
(* kept: a level that is pushed out is forgotten with its quantity.        *)
(***************************************************************************)
EXTENDS Integers, Sequences

CONSTANTS Prices,       \* prices, a set of integers
          Descending,   \* bids: the highest price is the best
          Depth,        \* DEPTH_SNAPSHOT_LEVELS
          MaxQty,       \* bound of the model: the quantity of one order
          MaxOrders     \* bound of the model: the orders of one book

ASSUME LevelsAssumption ==
    /\ Prices \subseteq Int
    /\ Descending \in BOOLEAN
    /\ Depth \in Nat \ {0}

VARIABLES levels,   \* the retained levels, best first
          totals,   \* the quantity of every price so far
          orders    \* how many orders were aggregated

levelsVars == <<levels, totals, orders>>

Empty == [price \in Prices |-> 0]

LevelsInit ==
    /\ levels = << >>
    /\ totals = Empty
    /\ orders = 0

Better(one, other) == IF Descending THEN one > other ELSE one < other

\* The place std::lower_bound finds: every level up to it is better.
IsLowerBound(place, price) ==
    /\ \A i \in 1 .. place : Better(levels[i].price, price)
    /\ \A i \in place + 1 .. Len(levels) : ~ Better(levels[i].price, price)

\* Wrong on purpose: the levels behind the new one are not shifted.
Inserted_Overwrites(place, level) ==
    [i \in 1 .. (IF place < Len(levels) THEN Len(levels) ELSE place + 1) |->
        IF i = place + 1 THEN level ELSE levels[i]]

\* A level behind the first place ones; the worst one falls out of a full array.
Inserted(place, level) ==
    [i \in 1 .. (IF Len(levels) < Depth THEN Len(levels) + 1 ELSE Depth) |->
        IF i <= place THEN levels[i] ELSE IF i = place + 1 THEN level ELSE levels[i - 1]]

Counted(price, qty) ==
    /\ totals' = [totals EXCEPT ![price] = @ + qty]
    /\ orders' = orders + 1

\* aggregate() of one order.
Aggregate(price, qty) ==
    /\ orders < MaxOrders
    /\ Counted(price, qty)
    /\ \E place \in 0 .. Len(levels) :
          /\ IsLowerBound(place, price)
          /\ levels' = IF place < Len(levels) /\ levels[place + 1].price = price
                       THEN [levels EXCEPT ![place + 1].qty = @ + qty]
                       ELSE IF place < Depth
                       THEN Inserted(place, [price |-> price, qty |-> qty])
                       ELSE levels

\* publishBook() begins the next aggregation.
Restart ==
    /\ orders > 0
    /\ levels' = << >>
    /\ totals' = Empty
    /\ orders' = 0

LevelsNext == Restart \/ \E price \in Prices, qty \in 1 .. MaxQty : Aggregate(price, qty)

LevelsSpec == LevelsInit /\ [][LevelsNext]_levelsVars
-----------------------------------------------------------------------------
(***************************************************************************)
(* Properties.                                                             *)
(***************************************************************************)

Retained(price) == \E i \in DOMAIN levels : levels[i].price = price

\* The levels are what an ordered map of all prices would give: the best ones, in
\* order, each with its whole quantity, although no price that was pushed out or
\* skipped was remembered.
LevelsAreBest ==
    /\ levels \in Seq([price : Prices, qty : Nat \ {0}])
    /\ Len(levels) <= Depth
    /\ \A i, j \in DOMAIN levels : i < j => Better(levels[i].price, levels[j].price)
    /\ \A i \in DOMAIN levels : levels[i].qty = totals[levels[i].price]
    /\ \A price \in Prices :
          totals[price] > 0 /\ ~ Retained(price)
              => /\ Len(levels) = Depth
                 /\ \A i \in DOMAIN levels : Better(levels[i].price, price)

\* A price that was pushed out or skipped never enters the levels of the same book
\* again.
EvictedStayOut ==
    [][\A price \in Prices :
          totals[price] > 0 /\ ~ Retained(price) /\ ~ Restart => ~ Retained(price)']_levelsVars
=============================================================================
