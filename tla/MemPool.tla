------------------------------ MODULE MemPool ------------------------------
(***************************************************************************)
(* Common::MemPool, the fixed array of blocks that holds the nodes of the  *)
(* order books.  A pool belongs to one thread.  The search for the next    *)
(* free block is a loop over the ring of blocks, one step an iteration.    *)
(***************************************************************************)
EXTENDS Integers

CONSTANT Capacity    \* store_.size()

ASSUME CapacityAssumption == Capacity \in Nat \ {0}

VARIABLES inUse,       \* the blocks whose is_free_ is false
          next,        \* next_free_index_
          exhausted,   \* exhausted_
          start,       \* initial_free_index of the search that runs
          searching,   \* updateNextFreeIndex() runs
          failure      \* what ended the process

vars == <<inUse, next, exhausted, start, searching, failure>>

Blocks == 0 .. Capacity - 1

Init ==
    /\ inUse = {}
    /\ next = 0
    /\ exhausted = FALSE
    /\ start = 0
    /\ searching = FALSE
    /\ failure = "none"

Ready == ~ searching /\ failure = "none"

\* allocate(), up to the search; an exhausted pool is a fatal error.
Allocate ==
    /\ Ready
    /\ IF exhausted
       THEN failure' = "out of space" /\ UNCHANGED <<inUse, start, searching>>
       ELSE IF next \in inUse
       THEN failure' = "expected free block" /\ UNCHANGED <<inUse, start, searching>>
       ELSE /\ inUse' = inUse \cup {next}
            /\ start' = next
            /\ searching' = TRUE
            /\ UNCHANGED failure
    /\ UNCHANGED <<next, exhausted>>

\* Wrong on purpose: the search ends at the end of the array.
Search_StopsAtEnd ==
    /\ searching
    /\ IF next \notin inUse
       THEN searching' = FALSE /\ UNCHANGED <<next, exhausted>>
       ELSE LET following == (next + 1) % Capacity
            IN  /\ next' = following
                /\ exhausted' = (following = 0)
                /\ searching' = (following # 0)
    /\ UNCHANGED <<inUse, start, failure>>

\* One iteration of the loop: a free block ends it, and so does a full circle.
Search ==
    /\ searching
    /\ IF next \notin inUse
       THEN searching' = FALSE /\ UNCHANGED <<next, exhausted>>
       ELSE LET following == IF next + 1 = Capacity THEN 0 ELSE next + 1
            IN  /\ next' = following
                /\ exhausted' = (following = start)
                /\ searching' = (following # start)
    /\ UNCHANGED <<inUse, start, failure>>

\* Wrong on purpose: the pool is open again, the index stays where it was.
Deallocate_KeepsIndex(block) ==
    /\ Ready
    /\ block \in inUse
    /\ inUse' = inUse \ {block}
    /\ exhausted' = FALSE
    /\ UNCHANGED <<next, start, searching, failure>>

\* deallocate(): an exhausted pool goes on with the freed block.
Deallocate(block) ==
    /\ Ready
    /\ block \in inUse
    /\ inUse' = inUse \ {block}
    /\ exhausted' = FALSE
    /\ next' = IF exhausted THEN block ELSE next
    /\ UNCHANGED <<start, searching, failure>>

Next == Allocate \/ Search \/ \E block \in Blocks : Deallocate(block)

Spec == Init /\ [][Next]_vars
-----------------------------------------------------------------------------
(***************************************************************************)
(* Properties.                                                             *)
(***************************************************************************)

\* The types of the variables.
TypeOK ==
    /\ inUse \in SUBSET Blocks
    /\ next \in Blocks
    /\ exhausted \in BOOLEAN
    /\ start \in Blocks
    /\ searching \in BOOLEAN
    /\ failure \in {"none", "out of space", "expected free block"}

\* The blocks from the start of the search up to the index.
Searched == IF start <= next THEN start .. next - 1
            ELSE (start .. Capacity - 1) \cup (0 .. next - 1)

\* A search has found nothing free so far; between calls the index is at a free
\* block unless every block is in use, and the flag says which.
PoolInv ==
    /\ TypeOK
    /\ searching => /\ ~ exhausted
                    /\ start \in inUse
                    /\ Searched \subseteq inUse
    /\ ~ searching /\ exhausted => inUse = Blocks
    /\ ~ searching /\ ~ exhausted => next \notin inUse

\* An allocation never finds the block it is about to hand out in use: no block
\* has two owners, in any order of allocations and deallocations.
NeverInUseTwice == failure # "expected free block"

\* The pool gives up only when all its blocks are in use.
FullCapacityUsable == failure = "out of space" => inUse = Blocks
=============================================================================
