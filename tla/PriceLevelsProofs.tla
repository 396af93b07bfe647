------------------------- MODULE PriceLevelsProofs -------------------------
(***************************************************************************)
(* Proofs about MemPool, for a pool of any capacity, and about PriceLevels, *)
(* which allocates from such pools, for any number of slots and blocks and *)
(* any spread of the prices over the slots.                                *)
(***************************************************************************)
EXTENDS PriceLevels, FiniteSetTheorems, TLAPS
-----------------------------------------------------------------------------
(***************************************************************************)
(* The pool.                                                               *)
(***************************************************************************)
LEMMA InitPool == Init => PoolInv
<1>. SUFFICES ASSUME Init PROVE PoolInv
  OBVIOUS
<1>1. 0 \in Blocks
  BY CapacityAssumption DEF Blocks
<1>. QED BY <1>1 DEF Init, PoolInv, TypeOK

LEMMA AllocateKeeps ==
    ASSUME PoolInv, Allocate
    PROVE  PoolInv'
<1>1. CASE exhausted \/ next \in inUse
  BY <1>1 DEF Allocate, Ready, PoolInv, TypeOK, Searched
<1>2. CASE ~ (exhausted \/ next \in inUse)
  <2>1. inUse' = inUse \cup {next} /\ start' = next /\ searching' = TRUE /\ next' = next
    BY <1>2 DEF Allocate
  <2>2. Searched' = {}
    <3>1. next \in Int
      <4>1. next \in Blocks
        BY DEF PoolInv, TypeOK
      <4>. QED BY <4>1, CapacityAssumption DEF Blocks
    <3>. QED BY <2>1, <3>1 DEF Searched
  <2>3. exhausted' = FALSE /\ failure' = failure
    BY <1>2 DEF Allocate, PoolInv, TypeOK
  <2>4. TypeOK'
    BY <2>1, <2>3 DEF PoolInv, TypeOK
  <2>. QED BY <2>1, <2>2, <2>3, <2>4 DEF PoolInv
<1>. QED BY <1>1, <1>2

\* What the loop has passed is in use; a full circle has passed every block.
LEMMA SearchKeeps ==
    ASSUME PoolInv, Search
    PROVE  PoolInv'
<1>1. CASE next \notin inUse
  BY <1>1 DEF Search, PoolInv, TypeOK
<1>2. CASE next \in inUse
  <2>. DEFINE following == IF next + 1 = Capacity THEN 0 ELSE next + 1
  <2>1. /\ next' = following /\ UNCHANGED <<inUse, start, failure>>
        /\ exhausted' = (following = start) /\ searching' = (following # start)
    BY <1>2 DEF Search
  <2>2. /\ Capacity \in Nat \ {0} /\ next \in 0 .. Capacity - 1 /\ start \in 0 .. Capacity - 1
        /\ following \in 0 .. Capacity - 1 /\ inUse \subseteq 0 .. Capacity - 1
        /\ start \in inUse /\ Searched \subseteq inUse
    <3>1. searching
      BY DEF Search
    <3>2. Capacity \in Nat \ {0} /\ next \in 0 .. Capacity - 1 /\ start \in 0 .. Capacity - 1
      BY CapacityAssumption DEF PoolInv, TypeOK, Blocks
    <3>3. following \in 0 .. Capacity - 1
      BY <3>2
    <3>. HIDE DEF following
    <3>4. inUse \subseteq 0 .. Capacity - 1
      BY DEF PoolInv, TypeOK, Blocks
    <3>. QED BY <3>1, <3>2, <3>3, <3>4 DEF PoolInv
  <2>3. CASE following # start
    <3>1. Searched' \subseteq Searched \cup {next}
      BY <2>1, <2>2, <2>3 DEF Searched
    <3>2. exhausted' = FALSE /\ searching' = TRUE
      BY <2>1, <2>3
    <3>3. TypeOK'
      BY <2>1, <2>2, <3>2 DEF PoolInv, TypeOK, Blocks
    <3>. QED BY <1>2, <2>1, <2>2, <3>1, <3>2, <3>3 DEF PoolInv
  <2>4. CASE following = start
    <3>1. 0 .. Capacity - 1 \subseteq Searched \cup {next}
      BY <2>2, <2>4 DEF Searched
    <3>2. exhausted' = TRUE /\ searching' = FALSE /\ inUse' = Blocks
      BY <1>2, <2>1, <2>2, <2>4, <3>1 DEF Blocks
    <3>3. TypeOK'
      BY <2>1, <2>2, <3>2 DEF PoolInv, TypeOK, Blocks
    <3>. QED BY <3>2, <3>3 DEF PoolInv
  <2>. QED BY <2>3, <2>4
<1>. QED BY <1>1, <1>2

LEMMA DeallocateKeeps ==
    ASSUME PoolInv, NEW block \in Blocks, Deallocate(block)
    PROVE  PoolInv'
BY DEF Deallocate, Ready, PoolInv, TypeOK

LEMMA NextKeepsPool == PoolInv /\ [Next]_vars => PoolInv'
<1>. SUFFICES ASSUME PoolInv, [Next]_vars PROVE PoolInv'
  OBVIOUS
<1>1. CASE Next
  BY <1>1, AllocateKeeps, SearchKeeps, DeallocateKeeps DEF Next
<1>2. CASE UNCHANGED vars
  BY <1>2 DEF vars, PoolInv, TypeOK, Searched
<1>. QED BY <1>1, <1>2

\* Between calls the index is at a free block or the pool is full.
THEOREM PoolInvariant == Spec => []PoolInv
BY InitPool, NextKeepsPool, PTL DEF Spec

\* No block is handed out while it is in use.
THEOREM NoBlockTwice == Spec => []NeverInUseTwice
<1>1. Init => NeverInUseTwice
  BY DEF Init, NeverInUseTwice
<1>2. PoolInv /\ NeverInUseTwice /\ [Next]_vars => NeverInUseTwice'
  BY DEF NeverInUseTwice, PoolInv, Next, Allocate, Search, Deallocate, Ready, vars
<1>. QED BY <1>1, <1>2, PoolInvariant, PTL DEF Spec

\* An allocation fails only when every block is in use.
THEOREM EveryBlockUsable == Spec => []FullCapacityUsable
<1>1. Init => FullCapacityUsable
  BY DEF Init, FullCapacityUsable
<1>2. PoolInv /\ FullCapacityUsable /\ [Next]_vars => FullCapacityUsable'
  BY DEF FullCapacityUsable, PoolInv, Next, Allocate, Search, Deallocate, Ready, vars
<1>. QED BY <1>1, <1>2, PoolInvariant, PTL DEF Spec

-----------------------------------------------------------------------------
(***************************************************************************)
(* Probing.                                                                *)
(***************************************************************************)
LEMMA Least ==
    ASSUME NEW S \in SUBSET Nat, S # {}
    PROVE  \E m \in S : \A n \in S : m <= n
<1>1. PICK m \in S : \A n \in S : ~ (<<n, m>> \in OpToRel(<, Nat))
  BY WFMin, NatLessThanWellFounded
<1>2. \A n \in S : ~ (n < m)
  BY <1>1 DEF OpToRel
<1>. QED BY <1>2

\* Probing from the home of a price visits every slot, and none twice.
LEMMA Probes ==
    ASSUME NEW price \in Prices
    PROVE  /\ \A k \in Slots : At(price, k) \in Slots
           /\ \A j, k \in Slots : At(price, j) = At(price, k) => j = k
           /\ \A s \in Slots : \E k \in Slots : At(price, k) = s
<1>1. SlotCount \in Nat \ {0} /\ Home[price] \in 0 .. SlotCount - 1
  BY PriceLevelsAssumption
<1>2. \A k \in Slots : At(price, k) \in Slots
  BY <1>1 DEF At, Slots
<1>3. \A j, k \in Slots : At(price, j) = At(price, k) => j = k
  BY <1>1 DEF At, Slots
<1>4. ASSUME NEW s \in Slots PROVE \E k \in Slots : At(price, k) = s
  <2>1. CASE s >= Home[price]
    <3>1. s - Home[price] \in Slots /\ At(price, s - Home[price]) = s
      BY <1>1, <2>1 DEF At, Slots
    <3>. QED BY <3>1
  <2>2. CASE s < Home[price]
    <3>1. /\ s - Home[price] + SlotCount \in Slots
          /\ At(price, s - Home[price] + SlotCount) = s
      BY <1>1, <2>2 DEF At, Slots
    <3>. QED BY <3>1
  <2>. QED BY <1>1, <2>1, <2>2 DEF Slots
<1>. QED BY <1>2, <1>3, <1>4

\* An empty slot ends every search.
LEMMA FirstEmpty ==
    ASSUME NEW price \in Prices, NEW s \in Slots, slots[s] = Null
    PROVE  \E k \in Slots : /\ slots[At(price, k)] = Null
                            /\ \A j \in 0 .. k - 1 : slots[At(price, j)] # Null
<1>. DEFINE E == {k \in Slots : slots[At(price, k)] = Null}
<1>1. SlotCount \in Nat
  BY PriceLevelsAssumption
<1>2. E \in SUBSET Nat
  BY <1>1 DEF Slots
<1>3. E # {}
  BY Probes
<1>4. PICK k \in E : \A n \in E : k <= n
  BY <1>2, <1>3, Least
<1>5. \A j \in 0 .. k - 1 : j \in Slots /\ j < k
  BY <1>1, <1>4 DEF Slots
<1>6. \A j \in 0 .. k - 1 : slots[At(price, j)] # Null
  <2>. SUFFICES ASSUME NEW j \in 0 .. k - 1, slots[At(price, j)] = Null PROVE FALSE
    OBVIOUS
  <2>1. j \in E /\ j < k
    BY <1>5
  <2>. QED BY <1>2, <1>4, <2>1
<1>. QED BY <1>4, <1>6

\* Nodes and tombstones never fill the array.
LEMMA EmptySlotExists ==
    ASSUME LevelsTypeOK, SlotsInv, TombstonesInv
    PROVE  \E s \in Slots : slots[s] = Null
<1>. SUFFICES ASSUME \A s \in Slots : slots[s] # Null PROVE FALSE
  OBVIOUS
<1>. DEFINE L == {s \in Slots : slots[s] \in Blocks}
            T == {s \in Slots : slots[s] = Tombstone}
            f == [s \in L |-> slots[s]]
<1>1. /\ SlotCount \in Nat /\ MaxTombstones \in Nat /\ Capacity \in Nat
      /\ Capacity + MaxTombstones < SlotCount
  BY PriceLevelsAssumption, CapacityAssumption
<1>2. IsFiniteSet(Slots) /\ Cardinality(Slots) = SlotCount
  BY <1>1, FS_Interval DEF Slots
<1>3. IsFiniteSet(Blocks) /\ Cardinality(Blocks) = Capacity
  BY <1>1, CapacityAssumption, FS_Interval DEF Blocks
<1>4. IsFiniteSet(L) /\ IsFiniteSet(T)
  BY <1>2, FS_Subset
<1>5. Slots = L \cup T
  BY DEF LevelsTypeOK
<1>6. f \in Injection(L, Blocks)
  <2>1. f \in [L -> Blocks]
    OBVIOUS
  <2>2. \A a, b \in L : f[a] = f[b] => a = b
    BY DEF SlotsInv
  <2>. QED BY <2>1, <2>2 DEF Injection, IsInjective
<1>7. Cardinality(L) <= Capacity
  BY <1>3, <1>6, FS_Injection
<1>8. Cardinality(T) <= MaxTombstones /\ Cardinality(T) \in Nat
  <2>1. Cardinality(T) <= tombstones
    BY DEF TombstonesInv
  <2>2. tombstones \in 0 .. MaxTombstones
    BY DEF LevelsTypeOK
  <2>. QED BY <1>1, <1>4, <2>1, <2>2, FS_CardinalityType
<1>9. Cardinality(L \cup T) <= Cardinality(L) + Cardinality(T)
  <2>1. Cardinality(L \cup T) = Cardinality(L) + Cardinality(T) - Cardinality(L \cap T)
    BY <1>4, FS_Union
  <2>2. Cardinality(L \cap T) \in Nat /\ Cardinality(L) \in Nat
    BY <1>4, FS_Intersection, FS_CardinalityType
  <2>. QED BY <1>8, <2>1, <2>2
<1>10. Cardinality(L) \in Nat
  BY <1>4, FS_CardinalityType
<1>. HIDE DEF L, T, f
<1>. QED BY <1>1, <1>2, <1>5, <1>7, <1>8, <1>9, <1>10
-----------------------------------------------------------------------------
(***************************************************************************)
(* Searching between operations.                                           *)
(***************************************************************************)
LEMMA BetterOrders ==
    ASSUME NEW a \in Int, NEW b \in Int, NEW c \in Int
    PROVE  /\ ~ Better(a, a)
           /\ Better(a, b) /\ Better(b, c) => Better(a, c)
           /\ a # b => Better(a, b) \/ Better(b, a)
BY DEF Better

LEMMA PricesDiffer ==
    ASSUME LevelsInv, NEW i \in DOMAIN list, NEW j \in DOMAIN list, PriceOf(i) = PriceOf(j)
    PROVE  i = j
<1>1. i \in Int /\ j \in Int
  BY DEF LevelsInv, LevelsTypeOK
<1>2. PriceOf(i) \in Int
  BY PriceLevelsAssumption DEF LevelsInv, ListInv
<1>3. ~ Better(PriceOf(i), PriceOf(j)) /\ ~ Better(PriceOf(j), PriceOf(i))
  BY <1>2, BetterOrders
<1>4. ~ (i < j) /\ ~ (j < i)
  BY <1>3 DEF LevelsInv, ListInv
<1>. QED BY <1>1, <1>4

\* The search for a price ends at its node if it is in the list.
LEMMA SearchFinds ==
    ASSUME LevelsInv, placing = 0, NEW i \in DOMAIN list
    PROVE  \E k \in Slots : FindEnds(PriceOf(i), k) /\ slots[At(PriceOf(i), k)] = list[i]
<1>1. PriceOf(i) \in Prices /\ list[i] \in Blocks /\ SlotCount \in Nat
  BY PriceLevelsAssumption DEF LevelsInv, ListInv, LevelsTypeOK
<1>2. PICK k \in Slots : /\ slots[At(PriceOf(i), k)] = list[i]
                         /\ \A j \in 0 .. k - 1 : slots[At(PriceOf(i), j)] # Null
  BY DEF LevelsInv, ChainsInv, Placed
<1>3. Leads(At(PriceOf(i), k), PriceOf(i))
  BY <1>1, <1>2 DEF Leads, PriceOf
<1>4. ASSUME NEW j \in 0 .. k - 1, Leads(At(PriceOf(i), j), PriceOf(i)) PROVE FALSE
  <2>1. j \in Slots /\ j # k
    BY <1>1 DEF Slots
  <2>2. At(PriceOf(i), j) \in Slots /\ At(PriceOf(i), k) \in Slots
    BY <1>1, <2>1, Probes
  <2>3. PICK n \in DOMAIN list : slots[At(PriceOf(i), j)] = list[n]
    BY <1>4, <2>2 DEF Leads, LevelsInv, SlotsInv
  <2>4. n = i
    BY <1>4, <2>3, PricesDiffer DEF Leads, PriceOf
  <2>5. node[list[i]].slot = At(PriceOf(i), j) /\ node[list[i]].slot = At(PriceOf(i), k)
    BY <1>1, <1>2, <2>2, <2>3, <2>4 DEF LevelsInv, SlotsInv
  <2>6. At(PriceOf(i), j) = At(PriceOf(i), k)
    BY <2>5
  <2>7. j = k
    BY ONLY <1>1, <2>1, <2>6, k \in Slots, Probes
  <2>. QED BY <2>1, <2>7
<1>5. FindEnds(PriceOf(i), k)
  BY <1>2, <1>3, <1>4 DEF FindEnds
<1>. QED BY <1>2, <1>5

\* A search that ends at an empty slot has not missed a node.
LEMMA SearchMisses ==
    ASSUME LevelsInv, placing = 0, NEW i \in DOMAIN list,
           NEW k \in Slots, FindEnds(PriceOf(i), k), slots[At(PriceOf(i), k)] = Null
    PROVE  FALSE
<1>1. PICK n \in Slots : FindEnds(PriceOf(i), n) /\ slots[At(PriceOf(i), n)] = list[i]
  BY SearchFinds
<1>2. list[i] \in Blocks /\ SlotCount \in Nat
  BY PriceLevelsAssumption DEF LevelsInv, LevelsTypeOK
<1>3. list[i] # Null /\ Leads(At(PriceOf(i), n), PriceOf(i))
  BY <1>1, <1>2, CapacityAssumption DEF Null, Blocks, Leads, PriceOf
<1>4. n # k
  BY <1>1, <1>3
<1>5. n < k \/ k < n
  BY <1>2, <1>4 DEF Slots
<1>6. n < k => n \in 0 .. k - 1
  BY <1>2 DEF Slots
<1>7. k < n => k \in 0 .. n - 1
  BY <1>2 DEF Slots
<1>. QED BY <1>1, <1>3, <1>5, <1>6, <1>7 DEF FindEnds

\* The search for a price that is not there ends at an empty slot.
LEMMA SearchEnds ==
    ASSUME LevelsInv, placing = 0, NEW price \in Prices,
           \A i \in DOMAIN list : PriceOf(i) # price
    PROVE  \E k \in Slots : FindEnds(price, k) /\ slots[At(price, k)] = Null
<1>1. \E s \in Slots : slots[s] = Null
  BY EmptySlotExists DEF LevelsInv
<1>2. PICK k \in Slots : /\ slots[At(price, k)] = Null
                         /\ \A j \in 0 .. k - 1 : slots[At(price, j)] # Null
  BY <1>1, FirstEmpty
<1>3. \A s \in Slots : ~ Leads(s, price)
  BY DEF Leads, LevelsInv, SlotsInv, PriceOf
<1>4. \A j \in 0 .. k - 1 : At(price, j) \in Slots
  <2>1. SlotCount \in Nat
    BY PriceLevelsAssumption
  <2>2. \A j \in 0 .. k - 1 : j \in Slots
    BY <2>1 DEF Slots
  <2>. QED BY <2>2, Probes
<1>5. FindEnds(price, k)
  BY <1>2, <1>3, <1>4 DEF FindEnds
<1>. QED BY <1>2, <1>5

LEMMA InvSearches == LevelsInv => SearchesAreRight
<1>. SUFFICES ASSUME LevelsInv, Idle, NEW price \in Prices
              PROVE  \E k \in Slots :
                         /\ FindEnds(price, k)
                         /\ IF \E i \in DOMAIN list : node[list[i]].price = price
                            THEN \E i \in DOMAIN list : slots[At(price, k)] = list[i]
                            ELSE slots[At(price, k)] = Null
  BY DEF SearchesAreRight
<1>1. placing = 0
  BY DEF Idle
<1>2. CASE \E i \in DOMAIN list : PriceOf(i) = price
  BY <1>1, <1>2, SearchFinds DEF PriceOf
<1>3. CASE \A i \in DOMAIN list : PriceOf(i) # price
  BY <1>1, <1>3, SearchEnds DEF PriceOf
<1>. QED BY <1>2, <1>3
-----------------------------------------------------------------------------
(***************************************************************************)
(* What the steps preserve.                                                *)
(***************************************************************************)
LEMMA InitLevels == LevelsInit => LevelsInv
<1>. SUFFICES ASSUME LevelsInit PROVE LevelsInv
  OBVIOUS
<1>1. PoolInv /\ inUse = {}
  BY InitPool DEF LevelsInit, Init
<1>2. SlotCount \in Nat \ {0} /\ MaxTombstones \in Nat
  BY PriceLevelsAssumption
<1>3. /\ slots = [s \in Slots |-> Null] /\ list = << >> /\ tombstones = 0 /\ placing = 0
      /\ node = [block \in Blocks |-> [price |-> 0, qty |-> 0, slot |-> 0]]
  BY DEF LevelsInit, EmptySlots
<1>4. LevelsTypeOK
  BY <1>2, <1>3 DEF LevelsTypeOK, Slots
<1>5. ListInv /\ ChainsInv
  BY <1>1, <1>3 DEF ListInv, ChainsInv
<1>6. Null \notin Blocks /\ Null # Tombstone
  BY CapacityAssumption DEF Null, Blocks, Tombstone
<1>7. SlotsInv
  BY <1>3, <1>6 DEF SlotsInv
<1>8. TombstonesInv
  <2>1. {s \in Slots : slots[s] = Tombstone} = {}
    BY <1>3, <1>6
  <2>2. Cardinality({s \in Slots : slots[s] = Tombstone}) = 0
    BY <2>1, FS_EmptySet
  <2>. QED BY <1>3, <2>2 DEF TombstonesInv
<1>. QED BY <1>1, <1>4, <1>5, <1>7, <1>8 DEF LevelsInv

\* A search of the pool leaves the book alone.
LEMMA BookUnchanged ==
    ASSUME LevelsInv, PoolInv', UNCHANGED <<inUse, bookVars>>
    PROVE  LevelsInv'
<1>1. /\ slots' = slots /\ node' = node /\ list' = list /\ tombstones' = tombstones
      /\ placing' = placing /\ inUse' = inUse
  BY DEF bookVars
<1>2. LevelsTypeOK'
  BY <1>1 DEF LevelsInv, LevelsTypeOK
<1>3. ListInv'
  BY <1>1 DEF LevelsInv, ListInv, PriceOf
<1>4. SlotsInv'
  BY <1>1 DEF LevelsInv, SlotsInv, Placed
<1>5. ChainsInv'
  BY <1>1 DEF LevelsInv, ChainsInv, PriceOf, Placed, At
<1>6. TombstonesInv'
  BY <1>1 DEF LevelsInv, TombstonesInv
<1>. QED BY <1>2, <1>3, <1>4, <1>5, <1>6 DEF LevelsInv

\* A new quantity changes no price, no slot and no link.
LEMMA UpdateKeeps ==
    ASSUME LevelsInv, NEW block \in Blocks, NEW qty \in Quantities,
           node' = [node EXCEPT ![block].qty = qty],
           UNCHANGED <<vars, slots, list, tombstones, placing>>
    PROVE  LevelsInv'
<1>1. /\ slots' = slots /\ list' = list /\ tombstones' = tombstones /\ placing' = placing
      /\ inUse' = inUse
  BY DEF vars
<1>2. PoolInv'
  BY NextKeepsPool DEF LevelsInv
<1>3. node' \in [Blocks -> [price : Int, qty : Int, slot : Slots]]
  <2>1. node \in [Blocks -> [price : Int, qty : Int, slot : Slots]] /\ qty \in Int
    BY PriceLevelsAssumption DEF LevelsInv, LevelsTypeOK
  <2>. QED BY <2>1
<1>4. \A b \in Blocks : node'[b].price = node[b].price /\ node'[b].slot = node[b].slot
  BY DEF LevelsInv, LevelsTypeOK
<1>5. \A i \in DOMAIN list : list[i] \in Blocks
  BY DEF LevelsInv, LevelsTypeOK
<1>6. LevelsTypeOK'
  BY <1>1, <1>3 DEF LevelsInv, LevelsTypeOK
<1>7. ListInv'
  BY <1>1, <1>4, <1>5 DEF LevelsInv, ListInv, PriceOf
<1>8. SlotsInv'
  BY <1>1, <1>4 DEF LevelsInv, SlotsInv, Placed
<1>9. ChainsInv'
  BY <1>1, <1>4, <1>5 DEF LevelsInv, ChainsInv, PriceOf, Placed, At
<1>10. TombstonesInv'
  BY <1>1 DEF LevelsInv, TombstonesInv
<1>. QED BY <1>2, <1>6, <1>7, <1>8, <1>9, <1>10 DEF LevelsInv

\* What fewer tombstones mean for the count.
LEMMA FewerTombstones ==
    ASSUME TombstonesInv, NEW T, T \subseteq {s \in Slots : slots[s] = Tombstone},
           tombstones \in Nat
    PROVE  Cardinality(T) <= tombstones
<1>. DEFINE Old == {s \in Slots : slots[s] = Tombstone}
<1>1. IsFiniteSet(Old)
  <2>1. SlotCount \in Nat
    BY PriceLevelsAssumption
  <2>2. IsFiniteSet(Slots)
    BY <2>1, FS_Interval DEF Slots
  <2>. QED BY <2>2, FS_Subset
<1>2. Cardinality(T) <= Cardinality(Old) /\ IsFiniteSet(T)
  BY <1>1, FS_Subset
<1>3. Cardinality(T) \in Nat /\ Cardinality(Old) \in Nat
  BY <1>1, <1>2, FS_CardinalityType
<1>4. Cardinality(Old) <= tombstones
  BY DEF TombstonesInv
<1>. HIDE DEF Old
<1>. QED BY <1>2, <1>3, <1>4
-----------------------------------------------------------------------------
(***************************************************************************)
(* A new node.                                                             *)
(***************************************************************************)

\* The node of a price takes its place among better and worse ones.
LEMMA InsertKeepsList ==
    ASSUME LevelsInv, NEW price \in Prices, NEW block \in Blocks, block \notin inUse,
           \A i \in DOMAIN list : PriceOf(i) # price,
           NEW place \in 1 .. Len(list) + 1, LinkedBefore(block, price, place),
           inUse' = inUse \cup {block},
           node'[block].price = price,
           \A b \in Blocks : b # block => node'[b] = node[b]
    PROVE  /\ ListInv'
           /\ list' \in Seq(Blocks) /\ Len(list') = Len(list) + 1
           /\ \A i \in DOMAIN list : \E j \in DOMAIN list' : list'[j] = list[i]
           /\ \E j \in DOMAIN list' : list'[j] = block
           /\ \A j \in DOMAIN list' :
                 \/ list'[j] = block
                 \/ \E i \in DOMAIN list : list'[j] = list[i]
<1>. DEFINE from(j) == IF j < place THEN j ELSE j - 1
            to(i) == IF i < place THEN i ELSE i + 1
<1>1. /\ list \in Seq(Blocks) /\ Len(list) \in Nat /\ DOMAIN list = 1 .. Len(list)
      /\ \A i \in 1 .. Len(list) : list[i] \in Blocks
  BY DEF LevelsInv, LevelsTypeOK
<1>2. list' = [i \in 1 .. Len(list) + 1 |->
                   IF i < place THEN list[i] ELSE IF i = place THEN block ELSE list[i - 1]]
  BY DEF LinkedBefore
<1>3. \A j \in 1 .. Len(list) + 1 : j # place => from(j) \in 1 .. Len(list) /\ list'[j] = list[from(j)]
  BY <1>1, <1>2
<1>4. list'[place] = block
  BY <1>1, <1>2
<1>5. list' \in Seq(Blocks) /\ Len(list') = Len(list) + 1 /\ DOMAIN list' = 1 .. Len(list) + 1
  <2>1. \A j \in 1 .. Len(list) + 1 : list'[j] \in Blocks
    BY <1>1, <1>3, <1>4
  <2>2. list' \in [1 .. Len(list) + 1 -> Blocks]
    BY <1>2, <2>1
  <2>. QED BY <1>1, <2>2
<1>6. \A i \in 1 .. Len(list) : to(i) \in 1 .. Len(list) + 1 /\ list'[to(i)] = list[i]
  BY <1>1, <1>2
<1>7. \A i \in 1 .. Len(list) : list[i] # block
  BY <1>1 DEF LevelsInv, ListInv
<1>8. \A i \in 1 .. Len(list) : node'[list[i]].price = PriceOf(i) /\ PriceOf(i) \in Prices
  BY <1>1, <1>7 DEF LevelsInv, ListInv, PriceOf
<1>9. inUse' = {list'[j] : j \in DOMAIN list'}
  <2>1. inUse = {list[i] : i \in 1 .. Len(list)}
    BY <1>1 DEF LevelsInv, ListInv
  <2>. HIDE DEF from, to
  <2>2. \A x : x \in inUse' => \E j \in DOMAIN list' : list'[j] = x
    BY <1>4, <1>5, <1>6, <2>1
  <2>3. \A j \in DOMAIN list' : list'[j] \in inUse'
    BY <1>3, <1>4, <1>5, <2>1
  <2>. QED BY <2>2, <2>3
<1>10. ASSUME NEW i \in 1 .. Len(list), i < place PROVE Better(PriceOf(i), price)
  <2>1. i \in 1 .. place - 1
    BY <1>1, <1>10
  <2>2. ~ Better(price, PriceOf(i))
    BY <2>1 DEF LinkedBefore, PriceOf
  <2>3. price \in Int /\ PriceOf(i) \in Int /\ PriceOf(i) # price
    BY <1>1, <1>8, PriceLevelsAssumption
  <2>. QED BY <2>2, <2>3, BetterOrders
<1>11. ASSUME NEW i \in 1 .. Len(list), i >= place PROVE Better(price, PriceOf(i))
  <2>1. place \in 1 .. Len(list) /\ (place < i \/ place = i)
    BY <1>1, <1>11
  <2>2. Better(price, PriceOf(place))
    BY <1>1, <2>1 DEF LinkedBefore, PriceOf
  <2>3. price \in Int /\ PriceOf(i) \in Int /\ PriceOf(place) \in Int
    BY <1>1, <1>8, <2>1, PriceLevelsAssumption
  <2>4. place < i => Better(PriceOf(place), PriceOf(i))
    BY <1>1, <2>1 DEF LevelsInv, ListInv
  <2>. QED BY <2>1, <2>2, <2>3, <2>4, BetterOrders
<1>12. \A j \in DOMAIN list' : PriceOf(j)' \in Prices
  <2>1. ASSUME NEW j \in DOMAIN list' PROVE node'[list'[j]].price \in Prices
    <3>1. CASE j = place
      BY <1>4, <3>1
    <3>2. CASE j # place
      <4>. HIDE DEF from, to
      <4>1. from(j) \in 1 .. Len(list) /\ list'[j] = list[from(j)]
        BY ONLY <1>3, <1>5, <3>2, <2>1
      <4>2. node'[list[from(j)]].price \in Prices
        BY ONLY <1>8, <4>1
      <4>. QED BY ONLY <4>1, <4>2
    <3>. QED BY <3>1, <3>2
  <2>. QED BY <2>1 DEF PriceOf
<1>13. ASSUME NEW a \in DOMAIN list', NEW b \in DOMAIN list', a < b
       PROVE  Better(node'[list'[a]].price, node'[list'[b]].price)
  <2>1. a \in 1 .. Len(list) + 1 /\ b \in 1 .. Len(list) + 1
    BY <1>5
  <2>2. CASE a = place
    <3>1. b # place /\ from(b) >= place
      BY <1>1, <1>13, <2>1, <2>2
    <3>2. from(b) \in 1 .. Len(list) /\ list'[b] = list[from(b)]
      BY <1>3, <2>1, <3>1
    <3>. HIDE DEF from
    <3>. QED BY <1>4, <1>8, <1>11, <2>2, <3>1, <3>2
  <2>3. CASE b = place
    <3>1. a # place /\ from(a) < place
      BY <1>1, <1>13, <2>1, <2>3
    <3>2. from(a) \in 1 .. Len(list) /\ list'[a] = list[from(a)]
      BY <1>3, <2>1, <3>1
    <3>. HIDE DEF from
    <3>. QED BY <1>4, <1>8, <1>10, <2>3, <3>1, <3>2
  <2>4. CASE a # place /\ b # place
    <3>1. from(a) < from(b)
      BY <1>1, <1>13, <2>1, <2>4
    <3>2. /\ from(a) \in 1 .. Len(list) /\ list'[a] = list[from(a)]
          /\ from(b) \in 1 .. Len(list) /\ list'[b] = list[from(b)]
      BY <1>3, <2>1, <2>4
    <3>. HIDE DEF from
    <3>3. Better(PriceOf(from(a)), PriceOf(from(b)))
      BY <1>1, <3>1, <3>2 DEF LevelsInv, ListInv
    <3>. QED BY <1>8, <3>2, <3>3
  <2>. QED BY <2>2, <2>3, <2>4
<1>14. ListInv'
  BY <1>9, <1>12, <1>13 DEF ListInv, PriceOf, Better
<1>15. \A i \in DOMAIN list : \E j \in DOMAIN list' : list'[j] = list[i]
  <2>. HIDE DEF to
  <2>. QED BY <1>1, <1>5, <1>6
<1>16. \A j \in DOMAIN list' : list'[j] = block \/ \E i \in DOMAIN list : list'[j] = list[i]
  <2>. HIDE DEF from
  <2>. QED BY <1>1, <1>3, <1>4, <1>5
<1>17. \E j \in DOMAIN list' : list'[j] = block
  BY <1>1, <1>4, <1>5
<1>. QED BY <1>5, <1>14, <1>15, <1>16, <1>17

\* Where the node goes no chain is cut, and the tombstone it may replace is gone.
LEMMA InsertKeepsSlots ==
    ASSUME LevelsInv, placing = 0, NEW price \in Prices, NEW block \in Blocks, block \notin inUse,
           NEW qty \in Quantities,
           \A i \in DOMAIN list : \E j \in DOMAIN list' : list'[j] = list[i],
           \A j \in DOMAIN list' : list'[j] = block \/ \E i \in DOMAIN list : list'[j] = list[i],
           \E j \in DOMAIN list' : list'[j] = block,
           NEW k \in Slots, FirstReusable(price, k),
           slots' = [slots EXCEPT ![At(price, k)] = block],
           node' = [node EXCEPT ![block] = [price |-> price, qty |-> qty, slot |-> At(price, k)]],
           UNCHANGED <<tombstones, placing>>
    PROVE  /\ slots' \in [Slots -> Blocks \cup {Null, Tombstone}]
           /\ node' \in [Blocks -> [price : Int, qty : Int, slot : Slots]]
           /\ SlotsInv' /\ ChainsInv' /\ TombstonesInv'
<1>. DEFINE new == At(price, k)
<1>1. new \in Slots /\ slots[new] \in {Null, Tombstone}
  BY Probes DEF FirstReusable
<1>2. slots \in [Slots -> Blocks \cup {Null, Tombstone}]
  BY DEF LevelsInv, LevelsTypeOK
<1>3. node \in [Blocks -> [price : Int, qty : Int, slot : Slots]]
  BY DEF LevelsInv, LevelsTypeOK
<1>. HIDE DEF new
<1>4. slots' = [slots EXCEPT ![new] = block] /\ slots'[new] = block
  BY <1>1, <1>2 DEF new
<1>5. \A s \in Slots : s # new => slots'[s] = slots[s]
  BY <1>2, <1>4
<1>6. node' = [node EXCEPT ![block] = [price |-> price, qty |-> qty, slot |-> new]]
  BY DEF new
<1>7. node'[block].price = price /\ node'[block].slot = new
  BY <1>3, <1>6
<1>8. \A b \in Blocks : b # block => node'[b] = node[b]
  BY <1>3, <1>6
<1>9. slots' \in [Slots -> Blocks \cup {Null, Tombstone}]
  BY <1>2, <1>4
<1>10. node' \in [Blocks -> [price : Int, qty : Int, slot : Slots]]
  <2>1. [price |-> price, qty |-> qty, slot |-> new] \in [price : Int, qty : Int, slot : Slots]
    BY <1>1, PriceLevelsAssumption
  <2>. QED BY <1>3, <1>6, <2>1
<1>11. placing' = 0
  OBVIOUS
<1>12. Null \notin Blocks /\ Tombstone \notin Blocks /\ Null # Tombstone
  BY CapacityAssumption DEF Null, Blocks, Tombstone
<1>13. \A i \in DOMAIN list : list[i] \in Blocks /\ list[i] # block
  BY DEF LevelsInv, LevelsTypeOK, ListInv
<1>14. SlotsInv'
  <2>. SUFFICES ASSUME NEW s \in Slots, slots'[s] \in Blocks
                PROVE  /\ node'[slots'[s]].slot = s
                       /\ \E j \in DOMAIN list' : slots'[s] = list'[j]
    BY <1>11 DEF SlotsInv, Placed
  <2>1. CASE s = new
    BY <1>4, <1>7, <2>1
  <2>2. CASE s # new
    <3>1. slots'[s] = slots[s]
      BY <1>5, <2>2
    <3>2. PICK i \in DOMAIN list : slots[s] = list[i]
      BY <3>1 DEF LevelsInv, SlotsInv
    <3>3. node[slots[s]].slot = s
      BY <3>1 DEF LevelsInv, SlotsInv
    <3>4. node'[slots[s]] = node[slots[s]]
      BY <1>8, <1>13, <3>2
    <3>. QED BY <3>1, <3>2, <3>3, <3>4
  <2>. QED BY <2>1, <2>2
<1>15. \A p \in Prices, n \in Slots : slots[At(p, n)] # Null => slots'[At(p, n)] # Null
  <2>. SUFFICES ASSUME NEW p \in Prices, NEW n \in Slots, slots[At(p, n)] # Null
                PROVE  slots'[At(p, n)] # Null
    OBVIOUS
  <2>1. At(p, n) \in Slots
    BY Probes
  <2>. QED BY <1>4, <1>5, <1>12, <2>1
<1>16. SlotCount \in Nat
  BY PriceLevelsAssumption
<1>17. \A n \in Slots : \A j \in 0 .. n - 1 : j \in Slots
  BY <1>16 DEF Slots
<1>18. ChainsInv'
  <2>. SUFFICES ASSUME NEW j \in DOMAIN list'
                PROVE  \E n \in Slots :
                          /\ slots'[At(node'[list'[j]].price, n)] = list'[j]
                          /\ \A m \in 0 .. n - 1 : slots'[At(node'[list'[j]].price, m)] # Null
    BY <1>11 DEF ChainsInv, PriceOf, At
  <2>1. CASE list'[j] = block
    <3>1. \A m \in 0 .. k - 1 : slots[At(price, m)] # Null
      BY DEF FirstReusable
    <3>2. \A m \in 0 .. k - 1 : slots'[At(price, m)] # Null
      BY <1>15, <1>17, <3>1
    <3>3. slots'[At(price, k)] = block
      BY <1>4 DEF new
    <3>. QED BY <1>7, <2>1, <3>2, <3>3
  <2>2. ASSUME NEW i \in DOMAIN list, list'[j] = list[i] 
         PROVE  \E n \in Slots :
                   /\ slots'[At(node'[list'[j]].price, n)] = list'[j]
                   /\ \A m \in 0 .. n - 1 : slots'[At(node'[list'[j]].price, m)] # Null
    <3>1. PICK n \in Slots : /\ slots[At(PriceOf(i), n)] = list[i]
                             /\ \A m \in 0 .. n - 1 : slots[At(PriceOf(i), m)] # Null
      BY DEF LevelsInv, ChainsInv, Placed
    <3>2. PriceOf(i) \in Prices /\ node'[list[i]].price = PriceOf(i)
      BY <1>8, <1>13 DEF LevelsInv, ListInv, PriceOf
    <3>3. \A m \in 0 .. n - 1 : slots'[At(PriceOf(i), m)] # Null
      BY <1>15, <1>17, <3>1, <3>2
    <3>4. At(PriceOf(i), n) \in Slots /\ At(PriceOf(i), n) # new
      <4>1. slots[At(PriceOf(i), n)] \in Blocks
        BY <1>13, <3>1
      <4>2. At(PriceOf(i), n) \in Slots
        BY <3>2, Probes
      <4>. QED BY ONLY <1>1, <1>12, <4>1, <4>2
    <3>. QED BY <1>5, <2>2, <3>1, <3>2, <3>3, <3>4
  <2>. QED BY <2>1, <2>2
<1>19. TombstonesInv'
  <2>1. {s \in Slots : slots'[s] = Tombstone} \subseteq {s \in Slots : slots[s] = Tombstone}
    BY <1>4, <1>5, <1>12
  <2>2. tombstones \in Nat
    BY PriceLevelsAssumption DEF LevelsInv, LevelsTypeOK
  <2>3. Cardinality({s \in Slots : slots'[s] = Tombstone}) <= tombstones
    BY <2>1, <2>2, FewerTombstones DEF LevelsInv
  <2>. QED BY <2>3 DEF TombstonesInv
<1>. QED BY <1>9, <1>10, <1>14, <1>18, <1>19

LEMMA UpsertKeeps ==
    ASSUME LevelsInv, NEW price \in Prices, NEW qty \in Quantities, UpsertPrice(price, qty)
    PROVE  LevelsInv'
<1>1. placing = 0
  BY DEF UpsertPrice, Idle
<1>2. PICK k \in Slots :
        /\ FindEnds(price, k)
        /\ \/ /\ Leads(At(price, k), price)
              /\ node' = [node EXCEPT ![slots[At(price, k)]].qty = qty]
              /\ UNCHANGED <<vars, slots, list, tombstones, placing>>
           \/ /\ slots[At(price, k)] = Null
              /\ Allocate
              /\ \/ failure' = "none" /\ InsertNode(next, price, qty)
                 \/ failure' # "none" /\ UNCHANGED bookVars
  BY DEF UpsertPrice
<1>3. CASE /\ Leads(At(price, k), price)
           /\ node' = [node EXCEPT ![slots[At(price, k)]].qty = qty]
           /\ UNCHANGED <<vars, slots, list, tombstones, placing>>
  BY <1>3, UpdateKeeps DEF Leads
<1>4. CASE Allocate /\ failure' # "none" /\ UNCHANGED bookVars
  <2>1. PoolInv'
    BY <1>4, AllocateKeeps DEF LevelsInv
  <2>2. inUse' = inUse
    BY <1>4 DEF Allocate, Ready
  <2>. QED BY <1>4, <2>1, <2>2, BookUnchanged
<1>5. CASE /\ slots[At(price, k)] = Null
           /\ Allocate
           /\ failure' = "none" /\ InsertNode(next, price, qty)
  <2>1. PoolInv'
    BY <1>5, AllocateKeeps DEF LevelsInv
  <2>2. next \in Blocks /\ next \notin inUse /\ inUse' = inUse \cup {next}
    <3>1. next \in Blocks
      BY DEF LevelsInv, PoolInv, TypeOK
    <3>. QED BY <1>5, <3>1 DEF Allocate
  <2>3. \A i \in DOMAIN list : PriceOf(i) # price
    BY <1>1, <1>2, <1>5, SearchMisses
  <2>4. PICK place \in 1 .. Len(list) + 1 : LinkedBefore(next, price, place)
    BY <1>5 DEF InsertNode
  <2>5. PICK n \in Slots :
          /\ FirstReusable(price, n)
          /\ slots' = [slots EXCEPT ![At(price, n)] = next]
          /\ node' = [node EXCEPT ![next] = [price |-> price, qty |-> qty, slot |-> At(price, n)]]
    BY <1>5 DEF InsertNode
  <2>6. tombstones' = tombstones /\ placing' = placing
    BY <1>5 DEF InsertNode
  <2>7. node'[next].price = price /\ \A b \in Blocks : b # next => node'[b] = node[b]
    BY <2>2, <2>5 DEF LevelsInv, LevelsTypeOK
  <2>8. /\ ListInv'
        /\ list' \in Seq(Blocks) /\ Len(list') = Len(list) + 1
        /\ \A i \in DOMAIN list : \E j \in DOMAIN list' : list'[j] = list[i]
        /\ \E j \in DOMAIN list' : list'[j] = next
        /\ \A j \in DOMAIN list' :
              \/ list'[j] = next
              \/ \E i \in DOMAIN list : list'[j] = list[i]
    BY <2>2, <2>3, <2>4, <2>7, InsertKeepsList
  <2>9. /\ slots' \in [Slots -> Blocks \cup {Null, Tombstone}]
        /\ node' \in [Blocks -> [price : Int, qty : Int, slot : Slots]]
        /\ SlotsInv' /\ ChainsInv' /\ TombstonesInv'
    BY <1>1, <2>2, <2>5, <2>6, <2>8, InsertKeepsSlots
  <2>10. LevelsTypeOK'
    <3>1. tombstones' \in 0 .. MaxTombstones
      BY <2>6 DEF LevelsInv, LevelsTypeOK
    <3>2. placing' \in 0 .. Len(list')
      BY <1>1, <2>6, <2>8
    <3>. QED BY <2>8, <2>9, <3>1, <3>2 DEF LevelsTypeOK
  <2>. QED BY <2>1, <2>8, <2>9, <2>10 DEF LevelsInv
<1>. QED BY <1>2, <1>3, <1>4, <1>5
-----------------------------------------------------------------------------
(***************************************************************************)
(* A level removed.                                                        *)
(***************************************************************************)
LEMMA UnlinkKeepsList ==
    ASSUME LevelsInv, NEW block \in Blocks, Unlinked(block),
           inUse' = inUse \ {block}, node' = node
    PROVE  /\ ListInv'
           /\ list' \in Seq(Blocks) /\ Len(list) > 0 /\ Len(list') = Len(list) - 1
           /\ \A i \in DOMAIN list : list[i] # block => \E j \in DOMAIN list' : list'[j] = list[i]
           /\ \A j \in DOMAIN list' :
                 list'[j] # block /\ \E i \in DOMAIN list : list'[j] = list[i]
<1>1. /\ list \in Seq(Blocks) /\ Len(list) \in Nat /\ DOMAIN list = 1 .. Len(list)
      /\ \A i \in 1 .. Len(list) : list[i] \in Blocks
  BY DEF LevelsInv, LevelsTypeOK
<1>2. PICK place \in 1 .. Len(list) :
        /\ list[place] = block
        /\ list' = [i \in 1 .. Len(list) - 1 |-> IF i < place THEN list[i] ELSE list[i + 1]]
  BY <1>1 DEF Unlinked
<1>. DEFINE from(j) == IF j < place THEN j ELSE j + 1
            to(i) == IF i < place THEN i ELSE i - 1
<1>3. \A j \in 1 .. Len(list) - 1 :
        from(j) \in 1 .. Len(list) /\ from(j) # place /\ list'[j] = list[from(j)]
  BY <1>1, <1>2
<1>4. \A i \in 1 .. Len(list) : i # place => /\ to(i) \in 1 .. Len(list) - 1
                                             /\ list'[to(i)] = list[i]
  BY <1>1, <1>2
<1>5. \A a, b \in 1 .. Len(list) - 1 : a < b => from(a) < from(b)
  BY <1>1
<1>. HIDE DEF from, to
<1>6. list' \in Seq(Blocks) /\ Len(list') = Len(list) - 1 /\ DOMAIN list' = 1 .. Len(list) - 1
  <2>1. \A j \in 1 .. Len(list) - 1 : list'[j] \in Blocks
    BY <1>1, <1>3
  <2>2. list' \in [1 .. Len(list) - 1 -> Blocks] /\ Len(list) - 1 \in Nat
    BY <1>1, <1>2, <2>1
  <2>. QED BY <2>2
<1>7. \A i \in 1 .. Len(list) : i # place => list[i] # block
  BY <1>1, <1>2, PricesDiffer DEF PriceOf
<1>8. inUse' = {list'[j] : j \in DOMAIN list'}
  <2>1. inUse = {list[i] : i \in 1 .. Len(list)}
    BY <1>1 DEF LevelsInv, ListInv
  <2>2. ASSUME NEW x \in inUse' PROVE \E j \in DOMAIN list' : list'[j] = x
    <3>1. x \in inUse /\ x # block
      BY <2>2
    <3>2. PICK i \in 1 .. Len(list) : x = list[i]
      BY ONLY <2>1, <3>1
    <3>3. i # place
      BY ONLY <1>2, <3>1, <3>2
    <3>. QED BY ONLY <1>4, <1>6, <3>2, <3>3
  <2>3. \A j \in DOMAIN list' : list'[j] \in inUse'
    BY <1>3, <1>6, <1>7, <2>1
  <2>. QED BY <2>2, <2>3
<1>9. \A j \in DOMAIN list' : node[list'[j]].price \in Prices
  BY <1>1, <1>3, <1>6 DEF LevelsInv, ListInv, PriceOf
<1>10. \A a, b \in DOMAIN list' : a < b => Better(node[list'[a]].price, node[list'[b]].price)
  BY <1>1, <1>3, <1>5, <1>6 DEF LevelsInv, ListInv, PriceOf
<1>11. ListInv'
  BY <1>8, <1>9, <1>10 DEF ListInv, PriceOf, Better
<1>12. \A i \in DOMAIN list : list[i] # block => \E j \in DOMAIN list' : list'[j] = list[i]
  BY <1>1, <1>2, <1>4, <1>6
<1>13. \A j \in DOMAIN list' : list'[j] # block /\ \E i \in DOMAIN list : list'[j] = list[i]
  BY <1>1, <1>3, <1>6, <1>7
<1>. QED BY <1>1, <1>6, <1>11, <1>12, <1>13

\* A tombstone keeps the chains of the others together.
LEMMA TombstoneKeepsSlots ==
    ASSUME LevelsInv, placing = 0, NEW block \in Blocks, NEW n \in DOMAIN list, list[n] = block,
           \A i \in DOMAIN list : list[i] # block => \E j \in DOMAIN list' : list'[j] = list[i],
           \A j \in DOMAIN list' : list'[j] # block /\ \E i \in DOMAIN list : list'[j] = list[i],
           tombstones < MaxTombstones,
           slots' = [slots EXCEPT ![node[block].slot] = Tombstone],
           tombstones' = tombstones + 1,
           UNCHANGED <<node, placing>>
    PROVE  /\ slots' \in [Slots -> Blocks \cup {Null, Tombstone}]
           /\ tombstones' \in 0 .. MaxTombstones
           /\ SlotsInv' /\ ChainsInv' /\ TombstonesInv'
<1>. DEFINE old == node[block].slot
<1>1. slots \in [Slots -> Blocks \cup {Null, Tombstone}] /\ old \in Slots
  BY DEF LevelsInv, LevelsTypeOK
<1>2. \A i \in DOMAIN list : list[i] \in Blocks /\ PriceOf(i) \in Prices
  BY DEF LevelsInv, LevelsTypeOK, ListInv
<1>3. Null \notin Blocks /\ Tombstone \notin Blocks /\ Null # Tombstone
  BY CapacityAssumption DEF Null, Blocks, Tombstone
<1>4. slots'[old] = Tombstone /\ \A s \in Slots : s # old => slots'[s] = slots[s]
  BY <1>1
<1>5. slots' \in [Slots -> Blocks \cup {Null, Tombstone}]
  BY <1>1
<1>. HIDE DEF old
<1>6. tombstones' \in 0 .. MaxTombstones /\ tombstones \in Nat
  BY PriceLevelsAssumption DEF LevelsInv, LevelsTypeOK
<1>7. SlotsInv'
  <2>. SUFFICES ASSUME NEW s \in Slots, slots'[s] \in Blocks
                PROVE  /\ node[slots'[s]].slot = s
                       /\ \E j \in DOMAIN list' : slots'[s] = list'[j]
    BY DEF SlotsInv, Placed
  <2>1. s # old /\ slots'[s] = slots[s]
    BY <1>3, <1>4
  <2>2. node[slots[s]].slot = s /\ \E i \in DOMAIN list : slots[s] = list[i]
    BY <2>1 DEF LevelsInv, SlotsInv
  <2>3. slots[s] # block
    BY <2>1, <2>2 DEF old
  <2>. QED BY <2>1, <2>2, <2>3
<1>8. SlotCount \in Nat /\ \A k \in Slots : \A m \in 0 .. k - 1 : m \in Slots
  <2>1. SlotCount \in Nat
    BY PriceLevelsAssumption
  <2>. QED BY <2>1 DEF Slots
<1>9. ChainsInv'
  <2>. SUFFICES ASSUME NEW j \in DOMAIN list'
                PROVE  \E k \in Slots :
                          /\ slots'[At(node[list'[j]].price, k)] = list'[j]
                          /\ \A m \in 0 .. k - 1 : slots'[At(node[list'[j]].price, m)] # Null
    BY DEF ChainsInv, PriceOf, At
  <2>1. PICK i \in DOMAIN list : list'[j] = list[i] /\ list[i] # block
    OBVIOUS
  <2>2. PICK k \in Slots : /\ slots[At(PriceOf(i), k)] = list[i]
                           /\ \A m \in 0 .. k - 1 : slots[At(PriceOf(i), m)] # Null
    BY DEF LevelsInv, ChainsInv, Placed
  <2>3. At(PriceOf(i), k) \in Slots /\ slots[At(PriceOf(i), k)] \in Blocks
    BY <1>2, <2>2, Probes
  <2>4. At(PriceOf(i), k) # old
    <3>1. SlotsInv
      BY DEF LevelsInv
    <3>2. node[list[i]].slot = At(PriceOf(i), k)
      BY <2>2, <2>3, <3>1 DEF SlotsInv
    <3>3. PICK b \in Slots : /\ slots[At(PriceOf(n), b)] = list[n]
                             /\ \A m \in 0 .. b - 1 : slots[At(PriceOf(n), m)] # Null
      BY DEF LevelsInv, ChainsInv, Placed
    <3>4. At(PriceOf(n), b) \in Slots /\ slots[At(PriceOf(n), b)] \in Blocks
      BY <1>2, <3>3, Probes
    <3>5. At(PriceOf(n), b) = old
      BY <3>1, <3>3, <3>4 DEF SlotsInv, old
    <3>. QED BY <2>1, <2>2, <3>3, <3>5
  <2>5. \A m \in 0 .. k - 1 : slots'[At(PriceOf(i), m)] # Null
    <3>. SUFFICES ASSUME NEW m \in 0 .. k - 1 PROVE slots'[At(PriceOf(i), m)] # Null
      OBVIOUS
    <3>1. At(PriceOf(i), m) \in Slots
      BY <1>2, <1>8, Probes
    <3>. QED BY <1>3, <1>4, <2>2, <3>1
  <2>. QED BY <1>4, <2>1, <2>2, <2>3, <2>4, <2>5 DEF PriceOf
<1>10. TombstonesInv'
  <2>. DEFINE Old == {s \in Slots : slots[s] = Tombstone}
              New == {s \in Slots : slots'[s] = Tombstone}
  <2>1. IsFiniteSet(Old)
    <3>1. IsFiniteSet(Slots)
      BY <1>8, FS_Interval DEF Slots
    <3>. QED BY <3>1, FS_Subset
  <2>2. New \subseteq Old \cup {old}
    BY <1>4
  <2>3. IsFiniteSet(Old \cup {old}) /\ Cardinality(Old \cup {old}) <= Cardinality(Old) + 1
    <3>1. Cardinality(Old) \in Nat
      BY <2>1, FS_CardinalityType
    <3>. HIDE DEF Old
    <3>2. /\ IsFiniteSet(Old \cup {old})
          /\ Cardinality(Old \cup {old}) =
                IF old \in Old THEN Cardinality(Old) ELSE Cardinality(Old) + 1
      BY ONLY <2>1, FS_AddElement
    <3>. QED BY <3>1, <3>2
  <2>4. Cardinality(New) <= Cardinality(Old \cup {old}) /\ IsFiniteSet(New)
    BY <2>2, <2>3, FS_Subset
  <2>5. /\ Cardinality(Old) \in Nat /\ Cardinality(New) \in Nat
        /\ Cardinality(Old \cup {old}) \in Nat
    BY <2>1, <2>3, <2>4, FS_CardinalityType
  <2>6. Cardinality(Old) <= tombstones
    BY DEF LevelsInv, TombstonesInv
  <2>7. Cardinality(New) <= tombstones'
    <3>. HIDE DEF Old, New
    <3>. QED BY <1>6, <2>3, <2>4, <2>5, <2>6
  <2>. QED BY <2>7 DEF TombstonesInv
<1>. QED BY <1>5, <1>6, <1>7, <1>9, <1>10

\* With all slots empty and the first node next, nothing is placed yet.
LEMMA RehashStarts ==
    ASSUME LevelsInv, placing = 0, ListInv', list' \in Seq(Blocks),
           node' = node, slots' = EmptySlots, tombstones' = 0,
           placing' = IF list' = << >> THEN 0 ELSE 1
    PROVE  LevelsTypeOK' /\ SlotsInv' /\ ChainsInv' /\ TombstonesInv'
<1>1. Null \notin Blocks /\ Null # Tombstone
  BY CapacityAssumption DEF Null, Blocks, Tombstone
<1>2. \A s \in Slots : slots'[s] = Null
  BY DEF EmptySlots
<1>3. slots' \in [Slots -> Blocks \cup {Null, Tombstone}]
  BY DEF EmptySlots
<1>4. placing' \in 0 .. Len(list')
  OBVIOUS
<1>5. LevelsTypeOK'
  BY <1>3, <1>4, PriceLevelsAssumption DEF LevelsInv, LevelsTypeOK
<1>6. SlotsInv'
  BY <1>1, <1>2 DEF SlotsInv
<1>7. ChainsInv'
  <2>1. \A j \in DOMAIN list' : ~ Placed(j)'
    BY DEF Placed
  <2>. QED BY <2>1 DEF ChainsInv
<1>8. TombstonesInv'
  <2>1. {s \in Slots : slots'[s] = Tombstone} = {}
    BY <1>1, <1>2
  <2>2. Cardinality({s \in Slots : slots'[s] = Tombstone}) = 0
    BY <2>1, FS_EmptySet
  <2>. QED BY <2>2 DEF TombstonesInv
<1>. QED BY <1>5, <1>6, <1>7, <1>8

LEMMA RemoveKeeps ==
    ASSUME LevelsInv, NEW price \in Prices, RemovePrice(price)
    PROVE  LevelsInv'
<1>1. placing = 0
  BY DEF RemovePrice, Idle
<1>2. PICK k \in Slots :
        /\ FindEnds(price, k)
        /\ \/ Leads(At(price, k), price) /\ RemoveNode(slots[At(price, k)])
           \/ slots[At(price, k)] = Null /\ UNCHANGED levelVars
  BY DEF RemovePrice
<1>3. CASE UNCHANGED levelVars
  <2>1. PoolInv'
    BY <1>3, NextKeepsPool DEF LevelsInv, levelVars
  <2>2. UNCHANGED <<inUse, bookVars>>
    BY <1>3 DEF levelVars, vars
  <2>. QED BY <2>1, <2>2, BookUnchanged
<1>4. CASE Leads(At(price, k), price) /\ RemoveNode(slots[At(price, k)])
  <2>. DEFINE block == slots[At(price, k)]
  <2>1. block \in Blocks
    BY <1>4 DEF Leads
  <2>. HIDE DEF block
  <2>2. RemoveNode(block)
    BY <1>4 DEF block
  <2>3. Unlinked(block) /\ Deallocate(block) /\ node' = node /\ inUse' = inUse \ {block}
    BY <2>2 DEF RemoveNode, Deallocate
  <2>4. PoolInv'
    BY <2>1, <2>3, DeallocateKeeps DEF LevelsInv
  <2>5. /\ ListInv'
        /\ list' \in Seq(Blocks) /\ Len(list) > 0 /\ Len(list') = Len(list) - 1
        /\ \A i \in DOMAIN list : list[i] # block => \E j \in DOMAIN list' : list'[j] = list[i]
        /\ \A j \in DOMAIN list' :
              list'[j] # block /\ \E i \in DOMAIN list : list'[j] = list[i]
    BY <2>1, <2>3, UnlinkKeepsList
  <2>6. PICK n \in DOMAIN list : list[n] = block
    BY <2>3 DEF Unlinked
  <2>7. CASE /\ tombstones < MaxTombstones
             /\ slots' = [slots EXCEPT ![node[block].slot] = Tombstone]
             /\ tombstones' = tombstones + 1
             /\ UNCHANGED placing
    <3>1. /\ slots' \in [Slots -> Blocks \cup {Null, Tombstone}]
          /\ tombstones' \in 0 .. MaxTombstones
          /\ SlotsInv' /\ ChainsInv' /\ TombstonesInv'
      BY <1>1, <2>1, <2>3, <2>5, <2>6, <2>7, TombstoneKeepsSlots
    <3>2. placing' \in 0 .. Len(list')
      BY <1>1, <2>5, <2>7
    <3>3. LevelsTypeOK'
      BY <2>3, <2>5, <3>1, <3>2 DEF LevelsInv, LevelsTypeOK
    <3>. QED BY <2>4, <2>5, <3>1, <3>3 DEF LevelsInv
  <2>8. CASE /\ slots' = EmptySlots
             /\ tombstones' = 0
             /\ placing' = IF Len(list) > 1 THEN 1 ELSE 0
    <3>1. Len(list) > 1 <=> list' # << >>
      BY <2>5
    <3>2. placing' = IF list' = << >> THEN 0 ELSE 1
      BY <2>8, <3>1
    <3>3. LevelsTypeOK' /\ SlotsInv' /\ ChainsInv' /\ TombstonesInv'
      BY <1>1, <2>3, <2>5, <2>8, <3>2, RehashStarts
    <3>. QED BY <2>4, <2>5, <3>3 DEF LevelsInv
  <2>. QED BY <2>2, <2>7, <2>8 DEF RemoveNode
<1>. QED BY <1>2, <1>3, <1>4

LEMMA ClearKeeps ==
    ASSUME LevelsInv, ClearSide
    PROVE  LevelsInv'
<1>1. /\ placing = 0 /\ placing' = 0 /\ node' = node /\ slots' = EmptySlots /\ list' = << >>
      /\ tombstones' = 0 /\ ~ searching /\ searching' = searching
      /\ inUse' = inUse \ {list[i] : i \in DOMAIN list}
  BY DEF ClearSide, Idle, Ready
<1>2. inUse' = {}
  BY <1>1 DEF LevelsInv, ListInv
<1>3. ListInv'
  BY <1>1, <1>2 DEF ListInv
<1>4. LevelsTypeOK' /\ SlotsInv' /\ ChainsInv' /\ TombstonesInv'
  BY <1>1, <1>3, RehashStarts
<1>5. PoolInv'
  <2>1. /\ next \in Blocks /\ next' = IF exhausted /\ list # << >> THEN list[1] ELSE next
        /\ exhausted' = (exhausted /\ list = << >>)
        /\ start' = start /\ failure' = failure
    BY DEF ClearSide, LevelsInv, PoolInv, TypeOK
  <2>2. exhausted' = FALSE
    <3>1. CASE exhausted /\ list = << >>
      <4>1. inUse = {}
        BY <3>1 DEF LevelsInv, ListInv
      <4>2. inUse = Blocks /\ 0 \in Blocks
        BY <1>1, <3>1, CapacityAssumption DEF LevelsInv, PoolInv, Blocks
      <4>. QED BY <4>1, <4>2
    <3>2. CASE ~ (exhausted /\ list = << >>)
      BY <2>1, <3>2
    <3>. QED BY <3>1, <3>2
  <2>3. next' \in Blocks
    <3>1. list \in Seq(Blocks)
      BY DEF LevelsInv, LevelsTypeOK
    <3>2. list # << >> => list[1] \in Blocks
      BY <3>1
    <3>. QED BY <2>1, <3>2
  <2>4. TypeOK'
    BY <1>1, <1>2, <2>1, <2>2, <2>3 DEF LevelsInv, PoolInv, TypeOK
  <2>. QED BY <1>1, <1>2, <2>2, <2>4 DEF PoolInv
<1>. QED BY <1>3, <1>4, <1>5 DEF LevelsInv
-----------------------------------------------------------------------------
(***************************************************************************)
(* Rehashing.                                                              *)
(***************************************************************************)
LEMMA PlaceKeeps ==
    ASSUME LevelsInv, PlaceNode
    PROVE  LevelsInv'
<1>. DEFINE block == list[placing]
            price == PriceOf(placing)
<1>1. /\ placing \in DOMAIN list /\ placing \in 1 .. Len(list) /\ Len(list) \in Nat
      /\ DOMAIN list = 1 .. Len(list)
  BY DEF PlaceNode, LevelsInv, LevelsTypeOK
<1>2. block \in Blocks /\ price \in Prices
  BY <1>1 DEF LevelsInv, LevelsTypeOK, ListInv
<1>3. PICK k \in Slots :
        /\ slots[At(price, k)] = Null
        /\ \A j \in 0 .. k - 1 : slots[At(price, j)] # Null
        /\ slots' = [slots EXCEPT ![At(price, k)] = block]
        /\ node' = [node EXCEPT ![block].slot = At(price, k)]
  BY DEF PlaceNode, PriceOf
<1>4. /\ placing' = IF placing = Len(list) THEN 0 ELSE placing + 1
      /\ list' = list /\ tombstones' = tombstones /\ inUse' = inUse
  BY DEF PlaceNode, vars
<1>5. PoolInv'
  BY NextKeepsPool DEF LevelsInv, PlaceNode
<1>. DEFINE new == At(price, k)
<1>6. new \in Slots
  BY <1>2, Probes
<1>7. /\ slots \in [Slots -> Blocks \cup {Null, Tombstone}]
      /\ node \in [Blocks -> [price : Int, qty : Int, slot : Slots]]
      /\ \A i \in DOMAIN list : list[i] \in Blocks
  BY DEF LevelsInv, LevelsTypeOK
<1>8. Null \notin Blocks /\ Tombstone \notin Blocks /\ Null # Tombstone
  BY CapacityAssumption DEF Null, Blocks, Tombstone
<1>9. \A i \in DOMAIN list : i # placing => list[i] # block
  BY <1>1, PricesDiffer DEF PriceOf
<1>. HIDE DEF new, block, price
<1>10. slots'[new] = block /\ \A s \in Slots : s # new => slots'[s] = slots[s]
  BY <1>3, <1>6, <1>7 DEF new
<1>11. slots' \in [Slots -> Blocks \cup {Null, Tombstone}]
  BY <1>2, <1>3, <1>7
<1>12. node' = [node EXCEPT ![block].slot = new]
  BY <1>3 DEF new
<1>13. node' \in [Blocks -> [price : Int, qty : Int, slot : Slots]]
  BY <1>2, <1>6, <1>7, <1>12
<1>14. /\ node'[block].slot = new
       /\ \A b \in Blocks : node'[b].price = node[b].price
       /\ \A b \in Blocks : b # block => node'[b] = node[b]
  BY <1>2, <1>7, <1>12
<1>15. LevelsTypeOK'
  <2>1. placing' \in 0 .. Len(list')
    BY <1>1, <1>4
  <2>. QED BY <1>4, <1>11, <1>13, <2>1 DEF LevelsInv, LevelsTypeOK
<1>16. \A i \in DOMAIN list : PriceOf(i)' = PriceOf(i)
  BY <1>4, <1>7, <1>14 DEF PriceOf
<1>17. ListInv'
  <2>1. inUse' = {list'[i] : i \in DOMAIN list'}
    BY <1>4 DEF LevelsInv, ListInv
  <2>2. \A i \in DOMAIN list' : PriceOf(i)' \in Prices
    BY <1>4, <1>16 DEF LevelsInv, ListInv
  <2>3. \A i, j \in DOMAIN list' : i < j => Better(PriceOf(i), PriceOf(j))'
    <3>1. \A i, j \in DOMAIN list : i < j => Better(PriceOf(i), PriceOf(j))
      BY DEF LevelsInv, ListInv
    <3>. QED BY <1>4, <1>16, <3>1 DEF Better
  <2>. QED BY <2>1, <2>2, <2>3 DEF ListInv
<1>18. \A i \in DOMAIN list : Placed(i)' <=> Placed(i) \/ i = placing
  BY <1>1, <1>4 DEF Placed
<1>19. ~ Placed(placing)
  BY <1>1 DEF Placed
<1>20. SlotsInv'
  <2>. SUFFICES ASSUME NEW s \in Slots, slots'[s] \in Blocks
                PROVE  /\ node'[slots'[s]].slot = s
                       /\ \E i \in DOMAIN list : (Placed(i) \/ i = placing) /\ slots'[s] = list[i]
    BY <1>4, <1>18 DEF SlotsInv
  <2>1. CASE s = new
    BY <1>1, <1>10, <1>14, <2>1 DEF block
  <2>2. CASE s # new
    <3>1. slots'[s] = slots[s] /\ SlotsInv
      BY <1>10, <2>2 DEF LevelsInv
    <3>2. PICK i \in DOMAIN list : Placed(i) /\ slots[s] = list[i]
      BY <3>1 DEF SlotsInv
    <3>3. node[slots[s]].slot = s
      BY <3>1 DEF SlotsInv
    <3>4. i # placing
      BY <1>19, <3>2
    <3>5. node'[slots[s]] = node[slots[s]]
      BY <1>7, <1>9, <1>14, <3>2, <3>4
    <3>. QED BY <3>1, <3>2, <3>3, <3>5
  <2>. QED BY <2>1, <2>2
<1>21. SlotCount \in Nat /\ \A n \in Slots : \A m \in 0 .. n - 1 : m \in Slots
  <2>1. SlotCount \in Nat
    BY PriceLevelsAssumption
  <2>. QED BY <2>1 DEF Slots
<1>22. \A p \in Prices, n \in Slots : slots[At(p, n)] # Null => slots'[At(p, n)] # Null
  <2>. SUFFICES ASSUME NEW p \in Prices, NEW n \in Slots, slots[At(p, n)] # Null
                PROVE  slots'[At(p, n)] # Null
    OBVIOUS
  <2>1. At(p, n) \in Slots
    BY Probes
  <2>. QED BY <1>2, <1>8, <1>10, <2>1
<1>23. ChainsInv'
  <2>. SUFFICES ASSUME NEW i \in DOMAIN list, Placed(i) \/ i = placing
                PROVE  \E n \in Slots :
                          /\ slots'[At(PriceOf(i), n)] = list[i]
                          /\ \A m \in 0 .. n - 1 : slots'[At(PriceOf(i), m)] # Null
    BY <1>4, <1>16, <1>18 DEF ChainsInv, At
  <2>1. CASE i = placing
    <3>1. slots'[At(price, k)] = block
      BY <1>10 DEF new
    <3>2. \A m \in 0 .. k - 1 : slots'[At(price, m)] # Null
      BY <1>2, <1>3, <1>21, <1>22
    <3>. QED BY <2>1, <3>1, <3>2 DEF price, block
  <2>2. CASE Placed(i)
    <3>1. PICK n \in Slots : /\ slots[At(PriceOf(i), n)] = list[i]
                             /\ \A m \in 0 .. n - 1 : slots[At(PriceOf(i), m)] # Null
      BY <2>2 DEF LevelsInv, ChainsInv
    <3>2. PriceOf(i) \in Prices
      BY DEF LevelsInv, ListInv
    <3>3. \A m \in 0 .. n - 1 : slots'[At(PriceOf(i), m)] # Null
      BY <1>21, <1>22, <3>1, <3>2
    <3>4. At(PriceOf(i), n) \in Slots
      BY <3>2, Probes
    <3>5. At(PriceOf(i), n) # new
      BY <1>3, <1>7, <1>8, <3>1 DEF new
    <3>. QED BY <1>10, <3>1, <3>3, <3>4, <3>5
  <2>. QED BY <2>1, <2>2
<1>24. TombstonesInv'
  <2>1. {s \in Slots : slots'[s] = Tombstone} \subseteq {s \in Slots : slots[s] = Tombstone}
    BY <1>2, <1>8, <1>10
  <2>2. tombstones \in Nat
    BY PriceLevelsAssumption DEF LevelsInv, LevelsTypeOK
  <2>3. Cardinality({s \in Slots : slots'[s] = Tombstone}) <= tombstones
    BY <2>1, <2>2, FewerTombstones DEF LevelsInv
  <2>. QED BY <1>4, <2>3 DEF TombstonesInv
<1>. QED BY <1>5, <1>15, <1>17, <1>20, <1>23, <1>24 DEF LevelsInv
-----------------------------------------------------------------------------
LEMMA NextKeepsLevels == LevelsInv /\ [LevelsNext]_levelVars => LevelsInv'
<1>. SUFFICES ASSUME LevelsInv, [LevelsNext]_levelVars PROVE LevelsInv'
  OBVIOUS
<1>1. ASSUME NEW price \in Prices, NEW qty \in Quantities, UpsertPrice(price, qty)
      PROVE  LevelsInv'
  BY <1>1, UpsertKeeps
<1>2. ASSUME NEW price \in Prices, RemovePrice(price) PROVE LevelsInv'
  BY <1>2, RemoveKeeps
<1>3. CASE Search /\ UNCHANGED bookVars
  <2>1. PoolInv'
    BY <1>3, SearchKeeps DEF LevelsInv
  <2>2. inUse' = inUse
    BY <1>3 DEF Search
  <2>. QED BY <1>3, <2>1, <2>2, BookUnchanged
<1>4. CASE PlaceNode
  BY <1>4, PlaceKeeps
<1>5. CASE ClearSide
  BY <1>5, ClearKeeps
<1>6. CASE UNCHANGED levelVars
  <2>1. PoolInv' /\ UNCHANGED <<inUse, bookVars>>
    BY <1>6, NextKeepsPool DEF LevelsInv, levelVars, vars
  <2>. QED BY <2>1, BookUnchanged
<1>. QED BY <1>1, <1>2, <1>3, <1>4, <1>5, <1>6 DEF LevelsNext

\* The blocks, the list, the slots and the tombstones agree with one another at all
\* times, rehashing included.
THEOREM LevelsInvariant == LevelsSpec => []LevelsInv
BY InitLevels, NextKeepsLevels, PTL DEF LevelsSpec

\* Every search between operations ends, and ends at the right place.
THEOREM SearchesRight == LevelsSpec => []SearchesAreRight
BY InvSearches, LevelsInvariant, PTL

\* The pool below the book never hands out a block in use.
THEOREM BookNeverGetsBlockTwice == LevelsSpec => []NeverInUseTwice
<1>1. LevelsInit => NeverInUseTwice
  BY DEF LevelsInit, Init, NeverInUseTwice
<1>2. LevelsInv /\ NeverInUseTwice /\ [LevelsNext]_levelVars => NeverInUseTwice'
  <2>. SUFFICES ASSUME LevelsInv, NeverInUseTwice, [LevelsNext]_levelVars PROVE NeverInUseTwice'
    OBVIOUS
  <2>1. ASSUME NEW price \in Prices, NEW qty \in Quantities, UpsertPrice(price, qty)
        PROVE  NeverInUseTwice'
    BY <2>1 DEF UpsertPrice, Allocate, Ready, NeverInUseTwice, LevelsInv, PoolInv, vars
  <2>2. ASSUME NEW price \in Prices, RemovePrice(price) PROVE NeverInUseTwice'
    BY <2>2 DEF RemovePrice, RemoveNode, Deallocate, NeverInUseTwice, levelVars, vars
  <2>3. CASE Search
    BY <2>3 DEF Search, NeverInUseTwice
  <2>4. CASE PlaceNode \/ ClearSide \/ UNCHANGED levelVars
    BY <2>4 DEF PlaceNode, ClearSide, NeverInUseTwice, levelVars, vars
  <2>. QED BY <2>1, <2>2, <2>3, <2>4 DEF LevelsNext
<1>. QED BY <1>1, <1>2, LevelsInvariant, PTL DEF LevelsSpec
=============================================================================
