---------------------------- MODULE PriceLevels ----------------------------
(***************************************************************************)
(* One side of the Binance depth book: a node for each price level, from a *)
(* pool of blocks (MemPool), the list of the nodes from the best price on, *)
(* and an array of slots through which the node of a price is found, by    *)
(* linear probing from its home slot.  A removed level leaves a tombstone; *)
(* too many of them and all slots are filled anew from the list, one node  *)
(* a step.  Probing has no other end than the price or an empty slot.      *)
(*                                                                         *)
(* The search of allocate() for the next free block runs when the node is  *)
(* in its place already: it reads nothing of the book.                     *)
(***************************************************************************)
EXTENDS MemPool, Sequences, FiniteSets

CONSTANTS Prices,          \* prices of levels, as numbers
          Quantities,      \* quantities of levels
          IsBid,           \* is_bid
          Home,            \* slotHome: any spread of the prices over the slots
          SlotCount,       \* kPriceSlotCount
          MaxTombstones    \* kMaxTombstonesPerSide

ASSUME PriceLevelsAssumption ==
    /\ Prices \subseteq Int
    /\ Quantities \subseteq Int
    /\ IsBid \in BOOLEAN
    /\ SlotCount \in Nat \ {0}
    /\ Home \in [Prices -> 0 .. SlotCount - 1]
    /\ MaxTombstones \in Nat
    /\ Capacity + MaxTombstones < SlotCount

VARIABLES slots,        \* the block a slot leads to, Null or Tombstone
          node,         \* the nodes in the blocks: price, quantity and slot
          list,         \* the blocks of the nodes, as they are linked
          tombstones,   \* the count of tombstones, which reuse does not lower
          placing       \* the place in the list rehashSlots() is at; 0: not running

bookVars == <<slots, node, list, tombstones, placing>>
levelVars == <<vars, bookVars>>

Null == -1
Tombstone == -2
Slots == 0 .. SlotCount - 1
EmptySlots == [i \in Slots |-> Null]

LevelsInit ==
    /\ Init
    /\ slots = EmptySlots
    /\ node = [block \in Blocks |-> [price |-> 0, qty |-> 0, slot |-> 0]]
    /\ list = << >>
    /\ tombstones = 0
    /\ placing = 0

Better(a, b) == IF IsBid THEN a > b ELSE a < b

Idle == placing = 0 /\ Ready

\* The slot that is probed for a price after k others.
At(price, k) ==
    IF Home[price] + k < SlotCount THEN Home[price] + k ELSE Home[price] + k - SlotCount

Leads(slot, price) == slots[slot] \in Blocks /\ node[slots[slot]].price = price

\* findNode: the k-th slot is the first that is empty or leads to the price.
FindEnds(price, k) ==
    /\ slots[At(price, k)] = Null \/ Leads(At(price, k), price)
    /\ \A j \in 0 .. k - 1 : slots[At(price, j)] # Null /\ ~ Leads(At(price, j), price)
-----------------------------------------------------------------------------
(***************************************************************************)
(* upsertPrice.                                                            *)
(***************************************************************************)

\* insertSorted: before the first level the price beats.
LinkedBefore(block, price, place) ==
    /\ \A i \in 1 .. place - 1 : ~ Better(price, node[list[i]].price)
    /\ place <= Len(list) => Better(price, node[list[place]].price)
    /\ list' = [i \in 1 .. Len(list) + 1 |->
                   IF i < place THEN list[i] ELSE IF i = place THEN block ELSE list[i - 1]]

\* insertSlot: the first tombstone on the way to the empty slot that ended the
\* search, or that slot.
FirstReusable(price, k) ==
    /\ slots[At(price, k)] \in {Null, Tombstone}
    /\ \A j \in 0 .. k - 1 : slots[At(price, j)] \notin {Null, Tombstone}

InsertNode(block, price, qty) ==
    /\ \E place \in 1 .. Len(list) + 1 : LinkedBefore(block, price, place)
    /\ \E k \in Slots :
          /\ FirstReusable(price, k)
          /\ slots' = [slots EXCEPT ![At(price, k)] = block]
          /\ node' = [node EXCEPT ![block] = [price |-> price, qty |-> qty, slot |-> At(price, k)]]
    /\ UNCHANGED <<tombstones, placing>>

UpsertPrice(price, qty) ==
    /\ Idle
    /\ \E k \in Slots :
          /\ FindEnds(price, k)
          /\ \/ /\ Leads(At(price, k), price)
                /\ node' = [node EXCEPT ![slots[At(price, k)]].qty = qty]
                /\ UNCHANGED <<vars, slots, list, tombstones, placing>>
             \/ /\ slots[At(price, k)] = Null
                /\ Allocate
                /\ \/ failure' = "none" /\ InsertNode(next, price, qty)
                   \/ failure' # "none" /\ UNCHANGED bookVars
-----------------------------------------------------------------------------
(***************************************************************************)
(* removePrice, rehashSlots and clearSide.                                 *)
(***************************************************************************)
Unlinked(block) ==
    \E place \in DOMAIN list :
        /\ list[place] = block
        /\ list' = [i \in 1 .. Len(list) - 1 |-> IF i < place THEN list[i] ELSE list[i + 1]]

\* Wrong on purpose: the slot of a removed level is simply emptied.
RemoveNode_LeavesHole(block) ==
    /\ Unlinked(block)
    /\ Deallocate(block)
    /\ slots' = [slots EXCEPT ![node[block].slot] = Null]
    /\ UNCHANGED <<node, tombstones, placing>>

\* Wrong on purpose: tombstones are not counted, and the slots never filled anew.
RemoveNode_NotCounted(block) ==
    /\ Unlinked(block)
    /\ Deallocate(block)
    /\ slots' = [slots EXCEPT ![node[block].slot] = Tombstone]
    /\ UNCHANGED <<node, tombstones, placing>>

RemoveNode(block) ==
    /\ Unlinked(block)
    /\ Deallocate(block)
    /\ \/ /\ tombstones < MaxTombstones
          /\ slots' = [slots EXCEPT ![node[block].slot] = Tombstone]
          /\ tombstones' = tombstones + 1
          /\ UNCHANGED placing
       \/ /\ tombstones >= MaxTombstones
          /\ slots' = EmptySlots
          /\ tombstones' = 0
          /\ placing' = IF Len(list) > 1 THEN 1 ELSE 0
    /\ UNCHANGED node

RemovePrice(price) ==
    /\ Idle
    /\ \E k \in Slots :
          /\ FindEnds(price, k)
          /\ \/ Leads(At(price, k), price) /\ RemoveNode(slots[At(price, k)])
             \/ slots[At(price, k)] = Null /\ UNCHANGED levelVars

\* One turn of rehashSlots(): the next node of the list takes the first empty slot.
PlaceNode ==
    /\ placing > 0
    /\ LET block == list[placing]
           price == node[block].price
       IN  \E k \in Slots :
              /\ slots[At(price, k)] = Null
              /\ \A j \in 0 .. k - 1 : slots[At(price, j)] # Null
              /\ slots' = [slots EXCEPT ![At(price, k)] = block]
              /\ node' = [node EXCEPT ![block].slot = At(price, k)]
    /\ placing' = IF placing = Len(list) THEN 0 ELSE placing + 1
    /\ UNCHANGED <<vars, list, tombstones>>

\* clearSide: all blocks go back to the pool, that of the best level first.
ClearSide ==
    /\ Idle
    /\ inUse' = inUse \ {list[i] : i \in DOMAIN list}
    /\ exhausted' = (exhausted /\ list = << >>)
    /\ next' = IF exhausted /\ list # << >> THEN list[1] ELSE next
    /\ slots' = EmptySlots
    /\ list' = << >>
    /\ tombstones' = 0
    /\ UNCHANGED <<start, searching, failure, node, placing>>
-----------------------------------------------------------------------------
LevelsNext ==
    \/ \E price \in Prices : (\E qty \in Quantities : UpsertPrice(price, qty)) \/ RemovePrice(price)
    \/ Search /\ UNCHANGED bookVars
    \/ PlaceNode
    \/ ClearSide

LevelsSpec == LevelsInit /\ [][LevelsNext]_levelVars
-----------------------------------------------------------------------------
(***************************************************************************)
(* Properties.                                                             *)
(***************************************************************************)

\* The types of the variables, those of the pool left to MemPool.
LevelsTypeOK ==
    /\ slots \in [Slots -> Blocks \cup {Null, Tombstone}]
    /\ node \in [Blocks -> [price : Int, qty : Int, slot : Slots]]
    /\ list \in Seq(Blocks)
    /\ tombstones \in 0 .. MaxTombstones
    /\ placing \in 0 .. Len(list)

PriceOf(i) == node[list[i]].price

\* The blocks in use are those of the list, and the list goes from better to worse
\* prices: none is there twice.
ListInv ==
    /\ inUse = {list[i] : i \in DOMAIN list}
    /\ \A i \in DOMAIN list : PriceOf(i) \in Prices
    /\ \A i, j \in DOMAIN list : i < j => Better(PriceOf(i), PriceOf(j))

\* rehashSlots() has not come to the later nodes yet.
Placed(i) == placing = 0 \/ i < placing

\* No slot leads to a block that is not in the list, and none but its own to a node.
SlotsInv ==
    \A s \in Slots : slots[s] \in Blocks =>
        /\ node[slots[s]].slot = s
        /\ \E i \in DOMAIN list : Placed(i) /\ slots[s] = list[i]

\* The chain of a price has no empty slot before the one of its node.
ChainsInv ==
    \A i \in DOMAIN list : Placed(i) =>
        \E k \in Slots : /\ slots[At(PriceOf(i), k)] = list[i]
                         /\ \A j \in 0 .. k - 1 : slots[At(PriceOf(i), j)] # Null

\* The count is not below the tombstones there are.
TombstonesInv == Cardinality({s \in Slots : slots[s] = Tombstone}) <= tombstones

LevelsInv ==
    PoolInv /\ LevelsTypeOK /\ ListInv /\ SlotsInv /\ ChainsInv /\ TombstonesInv

\* Between operations the search for any price comes to an end, and it ends at a
\* node of the list exactly if there is one of that price, whatever was inserted,
\* removed and placed anew before and whatever the spread of the prices.
SearchesAreRight ==
    Idle => \A price \in Prices :
                \E k \in Slots :
                    /\ FindEnds(price, k)
                    /\ IF \E i \in DOMAIN list : node[list[i]].price = price
                       THEN \E i \in DOMAIN list : slots[At(price, k)] = list[i]
                       ELSE slots[At(price, k)] = Null

\* Walking the list shows a ladder that changes as the calls say, best price first
\* and no price twice; tombstones and their clearing away do not show.
Book == INSTANCE PriceBook
    WITH ladder <- [i \in DOMAIN list |-> [price |-> node[list[i]].price,
                                           qty |-> node[list[i]].qty]]
ImplementsBook == Book!BookSpec
=============================================================================
