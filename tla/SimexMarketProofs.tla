------------------------- MODULE SimexMarketProofs -------------------------
(***************************************************************************)
(* Proofs about SimexMarket, for any orders, any capacity, any timeout and *)
(* any number of updates, and about DepthLevels, for any prices, depth and *)
(* orders: the two halves of the market data of the simex adapter.         *)
(***************************************************************************)
EXTENDS SimexMarket, DepthLevels, TLAPS

\* The invariant, and what the sequence numbers are worth: an increment that
\* follows the book fits the book.
MarketInv == ReplicaInv /\ NeverInconsistent

(***************************************************************************)
(* The venue's own steps, and the application of one increment.            *)
(***************************************************************************)
LEMMA InitMarket == Init => MarketInv
<1>. SUFFICES ASSUME Init PROVE MarketInv
  OBVIOUS
<1>1. updates = << >> /\ Len(updates) = 0 /\ updates \in Seq(Updates)
  BY DEF Init
<1>2. ahead \in -1 .. FeedTimeout + 1 /\ quiet \in 0 .. FeedTimeout + 1
  BY MarketAssumption DEF Init, Unset
<1>3. waiting \in [Numbers -> -1 .. FeedTimeout + 1]
  BY MarketAssumption DEF Init, Unset
<1>4. DOMAIN books = 0 .. 0 /\ books[0] = NoBook
  BY DEF Init
<1>5. fatal \in Failures /\ fatal # "inconsistent" /\ phase = "waiting" /\ phase \in Phases
  BY DEF Init, Failures, Phases
<1>6. TypeOK
  BY <1>1, <1>2, <1>3, <1>4, <1>5 DEF TypeOK, Init
<1>. QED BY <1>1, <1>4, <1>5, <1>6 DEF Init, MarketInv, ReplicaInv, NeverInconsistent

LEMMA VenueUpdatesKeeps ==
    ASSUME MarketInv, NEW update \in Updates, VenueUpdates(update)
    PROVE  MarketInv'
<1>. DEFINE n == Len(updates) + 1
<1>. USE DEF MarketInv, NeverInconsistent
<1>1. /\ updates \in Seq(Updates)
      /\ Len(updates) \in Nat
      /\ updates' = Append(updates, update)
      /\ updates' \in Seq(Updates)
      /\ Len(updates') = n
      /\ updates'[n] = update
      /\ \A k \in 1 .. Len(updates) : updates'[k] = updates[k]
  BY DEF ReplicaInv, TypeOK, VenueUpdates
<1>2. /\ Accepts(books[n - 1], update)
      /\ DOMAIN books' = 0 .. n
      /\ \A k \in 0 .. Len(updates) : books'[k] = books[k]
      /\ books'[n] = After(books[n - 1], update, n)
  BY <1>1 DEF VenueUpdates
<1>3. /\ UNCHANGED <<phase, pending, book, sequence, snapshot, advertised, fatal>>
      /\ UNCHANGED <<ahead, quiet, waiting>>
  BY DEF VenueUpdates, clockVars
<1>4. TypeOK'
  BY <1>1, <1>2, <1>3 DEF ReplicaInv, TypeOK
<1>5. ASSUME NEW k \in 1 .. Len(updates')
      PROVE  /\ Accepts(books'[k - 1], updates'[k])
             /\ books'[k] = After(books'[k - 1], updates'[k], k)
  <2>1. CASE k = n
    BY <1>1, <1>2, <2>1
  <2>2. CASE k \in 1 .. Len(updates)
    <3>1. k - 1 \in 0 .. Len(updates) /\ k \in 0 .. Len(updates)
      BY <1>1, <2>2
    <3>2. /\ books'[k] = books[k]
          /\ books'[k - 1] = books[k - 1]
          /\ updates'[k] = updates[k]
      BY <1>1, <1>2, <2>2, <3>1
    <3>. QED BY <2>2, <3>2 DEF ReplicaInv
  <2>. QED BY <1>1, <2>1, <2>2
<1>6. books'[0] = NoBook /\ books'[sequence] = books[sequence]
  BY <1>1, <1>2 DEF ReplicaInv, TypeOK
<1>. QED BY <1>3, <1>4, <1>5, <1>6 DEF ReplicaInv

\* The increment that follows the adapter's book is accepted, and leads to the
\* book the venue had after it.
LEMMA ApplyFollows ==
    ASSUME MarketInv, phase # "waiting", NEW n \in 1 .. Len(updates),
           n = sequence + 1, Apply(n)
    PROVE  \/ book' = books[n] /\ sequence' = n /\ fatal' = fatal
           \/ fatal' = "book full" /\ book' = book /\ sequence' = sequence
<1>1. /\ book = books[n - 1]
      /\ Accepts(books[n - 1], updates[n])
      /\ books[n] = After(books[n - 1], updates[n], n)
  BY DEF MarketInv, ReplicaInv, TypeOK
<1>. QED BY <1>1 DEF Apply, Die
-----------------------------------------------------------------------------
(***************************************************************************)
(* Datagrams.                                                              *)
(***************************************************************************)
LEMMA BufferIncrementKeeps ==
    ASSUME MarketInv, NEW n \in 1 .. Len(updates), BufferIncrement(n)
    PROVE  MarketInv'
<1>1. pending' \in SUBSET (1 .. Len(updates)) /\ fatal' \in Failures /\ fatal' # "inconsistent"
  BY DEF MarketInv, ReplicaInv, NeverInconsistent, TypeOK, BufferIncrement, Die, Failures
<1>2. quiet' \in 0 .. FeedTimeout + 1
  BY MarketAssumption DEF BufferIncrement
<1>. QED BY <1>1, <1>2
         DEF MarketInv, ReplicaInv, NeverInconsistent, TypeOK, BufferIncrement, venueVars

LEMMA ReceiveIncrementKeeps ==
    ASSUME MarketInv, NEW n \in 1 .. Len(updates), ReceiveIncrement(n)
    PROVE  MarketInv'
<1>1. /\ quiet' \in 0 .. FeedTimeout + 1
      /\ UNCHANGED <<updates, books, phase, pending, snapshot, advertised, ahead>>
      /\ phase = "synchronized"
  BY MarketAssumption DEF ReceiveIncrement, venueVars
<1>2. waiting' \in [Numbers -> -1 .. FeedTimeout + 1]
  <2>1. waiting \in [Numbers -> -1 .. FeedTimeout + 1] /\ Unset \in -1 .. FeedTimeout + 1
    BY MarketAssumption DEF MarketInv, ReplicaInv, TypeOK, Unset
  <2>2. waiting' = waiting \/ waiting' = [waiting EXCEPT ![n] = Unset]
    BY DEF ReceiveIncrement
  <2>. QED BY <2>1, <2>2
<1>3. CASE UNCHANGED <<book, sequence, fatal>>
  BY <1>1, <1>2, <1>3 DEF MarketInv, ReplicaInv, NeverInconsistent, TypeOK
<1>4. CASE fatal' = "gap" /\ UNCHANGED <<book, sequence>>
  BY <1>1, <1>2, <1>4 DEF MarketInv, ReplicaInv, NeverInconsistent, TypeOK, Failures
<1>5. CASE n = sequence + 1 /\ Apply(n)
  <2>1. \/ book' = books[n] /\ sequence' = n /\ fatal' = fatal
        \/ fatal' = "book full" /\ book' = book /\ sequence' = sequence
    BY <1>1, <1>5, ApplyFollows
  <2>2. sequence' \in 0 .. Len(updates) /\ snapshot <= sequence'
    <3>1. /\ Len(updates) \in Nat /\ sequence \in 0 .. Len(updates)
          /\ snapshot \in 0 .. Len(updates) /\ snapshot <= sequence
      BY DEF MarketInv, ReplicaInv, TypeOK
    <3>2. n \in Nat /\ n <= Len(updates) /\ n = sequence + 1
      BY <1>5, <3>1
    <3>3. sequence' = n \/ sequence' = sequence
      BY <2>1, Zenon
    <3>. QED BY <3>1, <3>2, <3>3
  <2>3. book' = books[sequence'] /\ fatal' \in Failures /\ fatal' # "inconsistent"
    BY <1>1, <2>1 DEF MarketInv, ReplicaInv, NeverInconsistent, TypeOK, Failures
  <2>. QED BY <1>1, <1>2, <2>2, <2>3 DEF MarketInv, ReplicaInv, NeverInconsistent, TypeOK
<1>. QED BY <1>3, <1>4, <1>5 DEF ReceiveIncrement, Die

LEMMA InstallSnapshotKeeps ==
    ASSUME MarketInv, NEW n \in 0 .. Len(updates), InstallSnapshot(n)
    PROVE  MarketInv'
<1>1. /\ quiet' \in 0 .. FeedTimeout + 1
      /\ UNCHANGED <<updates, books, pending, advertised, ahead, waiting>>
  <2>1. quiet' = 0 /\ UNCHANGED <<updates, books, pending, advertised, ahead, waiting>>
    BY Zenon DEF InstallSnapshot, venueVars
  <2>. QED BY <2>1, MarketAssumption
<1>2. CASE fatal' = "book full" /\ UNCHANGED <<phase, book, sequence, snapshot>>
  BY <1>1, <1>2 DEF MarketInv, ReplicaInv, NeverInconsistent, TypeOK, Failures
<1>3. CASE /\ book' = books[n] /\ sequence' = n /\ snapshot' = n
           /\ phase' = "joining" /\ fatal' = fatal
  BY <1>1, <1>3 DEF MarketInv, ReplicaInv, NeverInconsistent, TypeOK, Phases
<1>. QED BY <1>2, <1>3 DEF InstallSnapshot, Die

LEMMA ReceiveWatermarkKeeps ==
    ASSUME MarketInv, NEW n \in 0 .. Len(updates), ReceiveWatermark(n)
    PROVE  MarketInv'
<1>1. /\ quiet' \in 0 .. FeedTimeout + 1
      /\ UNCHANGED <<updates, books, phase, pending, book, sequence, snapshot>>
  <2>1. quiet' = 0 /\ UNCHANGED <<updates, books, phase, pending, book, sequence, snapshot>>
    BY Zenon DEF ReceiveWatermark, venueVars
  <2>. QED BY <2>1, MarketAssumption
<1>2. CASE fatal' = "book full" /\ UNCHANGED <<advertised, ahead, waiting>>
  BY <1>1, <1>2 DEF MarketInv, ReplicaInv, NeverInconsistent, TypeOK, Failures
<1>3. CASE /\ advertised' = IF n > advertised THEN n ELSE advertised
           /\ ahead' = IF advertised' > sequence /\ ahead = Unset THEN 0 ELSE ahead
           /\ waiting' = Awaited(n)
           /\ fatal' = fatal
  <2>1. ahead' \in -1 .. FeedTimeout + 1 /\ advertised' \in 0 .. Len(updates)
    BY <1>3, MarketAssumption DEF MarketInv, ReplicaInv, TypeOK
  <2>2. waiting' \in [Numbers -> -1 .. FeedTimeout + 1]
    BY <1>3, MarketAssumption DEF Awaited, MarketInv, ReplicaInv, TypeOK
  <2>. QED BY <1>1, <1>3, <2>1, <2>2 DEF MarketInv, ReplicaInv, NeverInconsistent, TypeOK
<1>. QED BY <1>2, <1>3, Zenon DEF ReceiveWatermark, Die
-----------------------------------------------------------------------------
(***************************************************************************)
(* Joining the buffered increments to the snapshot, and time.              *)
(***************************************************************************)
LEMMA JoinKeeps ==
    ASSUME MarketInv, Join
    PROVE  MarketInv'
<1>1. PICK n \in pending :
          /\ pending' = pending \ {n}
          /\ IF n <= sequence THEN UNCHANGED <<book, sequence, fatal>>
             ELSE IF n # sequence + 1 THEN Die("gap") /\ UNCHANGED <<book, sequence>>
             ELSE Apply(n)
  BY DEF Join
<1>2. /\ phase = "joining"
      /\ UNCHANGED <<updates, books, phase, snapshot, advertised, ahead, quiet, waiting>>
  BY DEF Join, venueVars, clockVars
<1>3. n \in 1 .. Len(updates) /\ pending' \in SUBSET (1 .. Len(updates))
  BY <1>1 DEF MarketInv, ReplicaInv, TypeOK
<1>4. CASE UNCHANGED <<book, sequence, fatal>>
  BY <1>2, <1>3, <1>4 DEF MarketInv, ReplicaInv, NeverInconsistent, TypeOK
<1>5. CASE fatal' = "gap" /\ UNCHANGED <<book, sequence>>
  BY <1>2, <1>3, <1>5 DEF MarketInv, ReplicaInv, NeverInconsistent, TypeOK, Failures
<1>6. CASE n = sequence + 1 /\ Apply(n)
  <2>1. \/ book' = books[n] /\ sequence' = n /\ fatal' = fatal
        \/ fatal' = "book full" /\ book' = book /\ sequence' = sequence
    BY <1>2, <1>3, <1>6, ApplyFollows
  <2>2. sequence' \in 0 .. Len(updates) /\ snapshot <= sequence'
    <3>1. /\ Len(updates) \in Nat /\ sequence \in 0 .. Len(updates)
          /\ snapshot \in 0 .. Len(updates) /\ snapshot <= sequence
      BY DEF MarketInv, ReplicaInv, TypeOK
    <3>2. n \in Nat /\ n <= Len(updates) /\ n = sequence + 1
      BY <1>3, <1>6, <3>1
    <3>3. sequence' = n \/ sequence' = sequence
      BY <2>1, Zenon
    <3>. QED BY <3>1, <3>2, <3>3
  <2>3. book' = books[sequence'] /\ fatal' \in Failures /\ fatal' # "inconsistent"
    BY <1>2, <2>1 DEF MarketInv, ReplicaInv, NeverInconsistent, TypeOK, Failures
  <2>. QED BY <1>2, <1>3, <2>2, <2>3 DEF MarketInv, ReplicaInv, NeverInconsistent, TypeOK
<1>. QED BY <1>1, <1>4, <1>5, <1>6 DEF Die

LEMMA JoinedKeeps ==
    ASSUME MarketInv, Joined
    PROVE  MarketInv'
BY DEF Joined, MarketInv, ReplicaInv, NeverInconsistent, TypeOK, Phases, venueVars, clockVars

LEMMA TickKeeps ==
    ASSUME MarketInv, Tick
    PROVE  MarketInv'
<1>1. \A timer \in -1 .. FeedTimeout + 1 : Aged(timer) \in -1 .. FeedTimeout + 1
  BY MarketAssumption DEF Aged
<1>2. \A timer \in 0 .. FeedTimeout + 1 : Aged(timer) \in 0 .. FeedTimeout + 1
  BY MarketAssumption DEF Aged
<1>3. /\ ahead' \in -1 .. FeedTimeout + 1
      /\ quiet' \in 0 .. FeedTimeout + 1
      /\ waiting' \in [Numbers -> -1 .. FeedTimeout + 1]
  BY <1>1, <1>2 DEF Tick, MarketInv, ReplicaInv, TypeOK
<1>. QED BY <1>3 DEF Tick, MarketInv, ReplicaInv, NeverInconsistent, TypeOK, venueVars

LEMMA CheckTimersKeeps ==
    ASSUME MarketInv, CheckTimers
    PROVE  MarketInv'
<1>1. ahead' \in -1 .. FeedTimeout + 1
  BY MarketAssumption DEF CheckTimers, MarketInv, ReplicaInv, TypeOK, Unset
<1>2. fatal' \in Failures /\ fatal' # "inconsistent"
  BY DEF CheckTimers, Die, MarketInv, ReplicaInv, NeverInconsistent, TypeOK, Failures
<1>. QED BY <1>1, <1>2
         DEF CheckTimers, MarketInv, ReplicaInv, NeverInconsistent, TypeOK, venueVars

LEMMA NextMarket == MarketInv /\ [Next]_vars => MarketInv'
<1>. SUFFICES ASSUME MarketInv, [Next]_vars PROVE MarketInv'
  OBVIOUS
<1>1. CASE \E update \in Updates : VenueUpdates(update)
  BY <1>1, VenueUpdatesKeeps
<1>2. CASE Datagram
  BY <1>2, BufferIncrementKeeps, ReceiveIncrementKeeps, InstallSnapshotKeeps,
     ReceiveWatermarkKeeps DEF Datagram
<1>3. CASE Join \/ Joined
  BY <1>3, JoinKeeps, JoinedKeeps
<1>4. CASE Tick \/ CheckTimers
  BY <1>4, TickKeeps, CheckTimersKeeps
<1>5. CASE UNCHANGED vars
  BY <1>5 DEF vars, venueVars, clockVars, MarketInv, ReplicaInv, NeverInconsistent, TypeOK
<1>. QED BY <1>1, <1>2, <1>3, <1>4, <1>5 DEF Next

LEMMA MarketInvariant == SafeSpec => []MarketInv
BY InitMarket, NextMarket, PTL DEF SafeSpec

\* The adapter's book is the one the venue had after as many updates as the
\* adapter counts, whatever was lost, repeated or overtaken.
THEOREM ReplicaInvariant == SafeSpec => []ReplicaInv
<1>1. MarketInv => ReplicaInv
  BY DEF MarketInv
<1>. QED BY <1>1, MarketInvariant, PTL

\* No increment that passes the sequence checks is refused by the book.
THEOREM NeverRefused == SafeSpec => []NeverInconsistent
<1>1. MarketInv => NeverInconsistent
  BY DEF MarketInv
<1>. QED BY <1>1, MarketInvariant, PTL
-----------------------------------------------------------------------------
(***************************************************************************)
(* What is published goes through the books of the venue one by one.       *)
(***************************************************************************)
At == IF phase = "synchronized" THEN sequence ELSE Unset
Shown == IF phase = "synchronized" THEN book ELSE NoBook

LEMMA InitReplica == Init => Replica!Init
BY DEF Init, Replica!Init, Replica!NoBook, NoBook, Unset

LEMMA NextReplica == MarketInv /\ [Next]_vars => [Replica!Next]_(Replica!vars)
<1>. SUFFICES ASSUME MarketInv, [Next]_vars
              PROVE  \/ Replica!Next
                     \/ books' = books /\ At' = At /\ Shown' = Shown
  BY DEF Replica!vars, At, Shown
<1>1. CASE \E update \in Updates : VenueUpdates(update)
  <2>1. PICK update \in Updates : VenueUpdates(update)
    BY <1>1
  <2>2. /\ Len(updates) \in DOMAIN books
        /\ Len(updates) + 1 \notin DOMAIN books
        /\ DOMAIN books' = DOMAIN books \cup {Len(updates) + 1}
        /\ \A n \in DOMAIN books : books'[n] = books[n]
    BY <2>1 DEF VenueUpdates, MarketInv, ReplicaInv, TypeOK
  <2>3. At' = At /\ Shown' = Shown
    BY <2>1 DEF VenueUpdates, At, Shown
  <2>4. Replica!Extend
    BY <2>2, <2>3 DEF Replica!Extend, At, Shown
  <2>. QED BY <2>4 DEF Replica!Next
<1>2. CASE \E n \in 1 .. Len(updates) : ReceiveIncrement(n)
  <2>1. PICK n \in 1 .. Len(updates) : ReceiveIncrement(n)
    BY <1>2
  <2>2. phase = "synchronized" /\ phase' = phase /\ books' = books
    BY <2>1 DEF ReceiveIncrement, venueVars
  <2>3. CASE UNCHANGED <<book, sequence>>
    BY <2>2, <2>3 DEF At, Shown
  <2>4. CASE n = sequence + 1 /\ book' = books[n] /\ sequence' = n
    <3>1. /\ At = sequence /\ At' = sequence + 1
          /\ Shown' = books[sequence + 1]
          /\ At >= 0 /\ At + 1 \in DOMAIN books
      BY <2>2, <2>4 DEF At, Shown, MarketInv, ReplicaInv, TypeOK
    <3>2. Replica!Advance
      BY <2>2, <3>1 DEF Replica!Advance, At, Shown
    <3>. QED BY <3>2 DEF Replica!Next
  <2>5. CASE n = sequence + 1 /\ Apply(n)
    BY <2>2, <2>3, <2>4, <2>5, ApplyFollows
  <2>. QED BY <2>1, <2>3, <2>5 DEF ReceiveIncrement
<1>3. CASE Joined
  <2>1. /\ phase = "joining" /\ phase' = "synchronized"
        /\ UNCHANGED <<books, book, sequence>>
    BY <1>3 DEF Joined, venueVars
  <2>2. book = books[sequence] /\ sequence \in DOMAIN books
    BY <2>1 DEF MarketInv, ReplicaInv, TypeOK
  <2>3. At = -1 /\ At' = sequence /\ Shown' = books[sequence]
    BY <2>1, <2>2 DEF At, Shown, Unset
  <2>4. Replica!Install
    BY <2>1, <2>2, <2>3 DEF Replica!Install, At, Shown
  <2>. QED BY <2>4 DEF Replica!Next
<1>4. CASE (\E n \in 1 .. Len(updates) : BufferIncrement(n)) \/ Join
           \/ (\E n \in 0 .. Len(updates) : InstallSnapshot(n))
  BY <1>4 DEF BufferIncrement, Join, InstallSnapshot, venueVars, At, Shown
<1>5. CASE (\E n \in 0 .. Len(updates) : ReceiveWatermark(n)) \/ Tick \/ CheckTimers
  BY <1>5 DEF ReceiveWatermark, Tick, CheckTimers, venueVars, At, Shown
<1>6. CASE UNCHANGED vars
  BY <1>6 DEF vars, venueVars, At, Shown
<1>. QED BY <1>1, <1>2, <1>3, <1>4, <1>5, <1>6 DEF Next, Datagram

\* What is published follows the book of the venue update by update, from the
\* first snapshot on.
THEOREM MarketImplementsReplica == SafeSpec => ImplementsReplica
BY InitReplica, NextReplica, MarketInvariant, PTL DEF SafeSpec, ImplementsReplica, Replica!Spec
-----------------------------------------------------------------------------
(***************************************************************************)
(* The depth the adapter publishes of its book: DepthLevels, for either    *)
(* side, any prices, any depth and any number of orders.                   *)
(***************************************************************************)
\* The invariant, with the type of the totals.
LevelsInv == LevelsAreBest /\ totals \in [Prices -> Nat]

Level == [price : Prices, qty : Nat \ {0}]

(***************************************************************************)
(* Prices are in a strict total order.                                     *)
(***************************************************************************)
LEMMA BetterIsTotal ==
    ASSUME NEW a \in Prices, NEW b \in Prices, NEW c \in Prices
    PROVE  /\ ~ Better(a, a)
           /\ Better(a, b) => ~ Better(b, a)
           /\ Better(a, b) /\ Better(b, c) => Better(a, c)
           /\ Better(a, b) \/ Better(b, a) \/ a = b
BY LevelsAssumption DEF Better

\* A function on 1 .. n is a sequence of length n.
LEMMA FunctionIsSequence ==
    ASSUME NEW S, NEW n \in Nat, NEW s \in [1 .. n -> S]
    PROVE  s \in Seq(S) /\ Len(s) = n /\ DOMAIN s = 1 .. n
OBVIOUS

\* No levels are the best of no orders.
LEMMA InitLevels == LevelsInit => LevelsInv
<1>. SUFFICES ASSUME LevelsInit PROVE LevelsInv
  OBVIOUS
<1>1. levels = << >> /\ totals = [price \in Prices |-> 0]
  BY DEF LevelsInit, Empty
<1>2. /\ levels \in Seq(Level) /\ Len(levels) = 0 /\ DOMAIN levels = {}
      /\ totals \in [Prices -> Nat]
      /\ \A price \in Prices : totals[price] = 0
  BY <1>1
<1>. QED BY <1>2, LevelsAssumption DEF LevelsInv, LevelsAreBest, Level

(***************************************************************************)
(* The three outcomes of aggregate(): a level grows, a level is inserted,  *)
(* or the price is worse than all of a full array.                         *)
(***************************************************************************)
LEMMA LevelGrows ==
    ASSUME LevelsInv, NEW price \in Prices, NEW qty \in Nat \ {0},
           NEW place \in 0 .. Len(levels),
           place < Len(levels), levels[place + 1].price = price,
           totals' = [totals EXCEPT ![price] = @ + qty],
           levels' = [levels EXCEPT ![place + 1].qty = @ + qty]
    PROVE  LevelsInv' /\ \A p \in Prices : Retained(p)' <=> Retained(p)
<1>0. /\ place \in Nat /\ place <= Len(levels) /\ Len(levels) \in Nat
      /\ \A i \in DOMAIN levels : i \in Nat /\ 1 <= i /\ i <= Len(levels)
      /\ \A i \in Nat : 1 <= i /\ i <= Len(levels) => i \in DOMAIN levels
  <2>1. Len(levels) \in Nat /\ DOMAIN levels = 1 .. Len(levels)
    BY DEF LevelsInv, LevelsAreBest
  <2>. QED BY <2>1
<1>1. /\ levels \in Seq(Level) /\ totals \in [Prices -> Nat]
      /\ Len(levels) \in Nat /\ DOMAIN levels = 1 .. Len(levels)
      /\ place + 1 \in DOMAIN levels
  BY DEF LevelsInv, LevelsAreBest, Level
<1>2. \A i \in DOMAIN levels : levels[i] \in Level
  BY <1>1
<1>3. /\ levels' \in Seq(Level)
      /\ Len(levels') = Len(levels) /\ DOMAIN levels' = DOMAIN levels
      /\ \A i \in DOMAIN levels : levels'[i].price = levels[i].price
      /\ \A i \in DOMAIN levels : i # place + 1 => levels'[i].qty = levels[i].qty
      /\ levels'[place + 1].qty = levels[place + 1].qty + qty
  <2>. DEFINE grown == [levels[place + 1] EXCEPT !.qty = @ + qty]
  <2>1. levels[place + 1] \in Level
    BY <1>1, <1>2
  <2>2. /\ grown \in Level /\ grown.price = levels[place + 1].price
        /\ grown.qty = levels[place + 1].qty + qty
    BY <2>1 DEF Level
  <2>3. levels' = [levels EXCEPT ![place + 1] = grown]
    OBVIOUS
  <2>. HIDE DEF grown
  <2>4. /\ levels' \in Seq(Level)
        /\ Len(levels') = Len(levels) /\ DOMAIN levels' = DOMAIN levels
        /\ levels'[place + 1] = grown
        /\ \A i \in DOMAIN levels : i # place + 1 => levels'[i] = levels[i]
    BY <1>1, <2>2, <2>3
  <2>. QED BY <2>2, <2>4
<1>4. \A i \in DOMAIN levels : i # place + 1 => levels[i].price # price
  <2>1. SUFFICES ASSUME NEW i \in DOMAIN levels, i # place + 1 PROVE levels[i].price # price
    OBVIOUS
  <2>2. i < place + 1 \/ place + 1 < i
    BY <1>0, <2>1
  <2>3. Better(levels[i].price, price) \/ Better(price, levels[i].price)
    BY <1>1, <2>2 DEF LevelsInv, LevelsAreBest
  <2>. QED BY <1>2, <2>3, BetterIsTotal DEF Level
<1>5. /\ totals' \in [Prices -> Nat] /\ totals'[price] = totals[price] + qty
      /\ \A p \in Prices : p # price => totals'[p] = totals[p]
  BY <1>1
<1>6. \A i \in DOMAIN levels : levels'[i].qty = totals'[levels'[i].price]
  <2>1. \A i \in DOMAIN levels : levels[i].price \in Prices
    BY <1>2 DEF Level
  <2>2. \A i \in DOMAIN levels : levels[i].qty = totals[levels[i].price]
    BY DEF LevelsInv, LevelsAreBest
  <2>. QED BY <1>1, <1>3, <1>4, <1>5, <2>1, <2>2
<1>7. \A p \in Prices : Retained(p)' <=> Retained(p)
  BY <1>3 DEF Retained
<1>8. Retained(price)
  BY <1>1 DEF Retained
<1>9. \A i, j \in DOMAIN levels' : i < j => Better(levels'[i].price, levels'[j].price)
  <2>1. SUFFICES ASSUME NEW i \in DOMAIN levels', NEW j \in DOMAIN levels', i < j
                 PROVE  Better(levels'[i].price, levels'[j].price)
    OBVIOUS
  <2>2. i \in DOMAIN levels /\ j \in DOMAIN levels
    BY <1>3
  <2>3. levels'[i].price = levels[i].price /\ levels'[j].price = levels[j].price
    BY <1>3, <2>2
  <2>4. Better(levels[i].price, levels[j].price)
    BY ONLY LevelsInv, <2>1, <2>2 DEF LevelsInv, LevelsAreBest
  <2>. QED BY ONLY <2>3, <2>4
<1>10. ASSUME NEW p \in Prices, totals'[p] > 0, ~ Retained(p)'
       PROVE  /\ Len(levels') = Depth
              /\ \A i \in DOMAIN levels' : Better(levels'[i].price, p)
  <2>1. p # price /\ ~ Retained(p) /\ totals[p] > 0
    BY <1>5, <1>7, <1>8, <1>10
  <2>. QED BY <1>3, <2>1 DEF LevelsInv, LevelsAreBest
<1>11. Len(levels') <= Depth
  BY <1>3 DEF LevelsInv, LevelsAreBest
<1>12. levels' \in Seq([price : Prices, qty : Nat \ {0}])
  BY <1>3 DEF Level
<1>13. LevelsAreBest'
  <2>1. \A p \in Prices : totals'[p] > 0 /\ ~ Retained(p)'
                            => /\ Len(levels') = Depth
                               /\ \A i \in DOMAIN levels' : Better(levels'[i].price, p)
    BY ONLY <1>10
  <2>2. \A i \in DOMAIN levels' : levels'[i].qty = totals'[levels'[i].price]
    BY ONLY <1>3, <1>6
  <2>. QED BY ONLY <1>9, <1>11, <1>12, <2>1, <2>2, Zenon DEF LevelsAreBest
<1>14. LevelsInv'
  BY ONLY <1>5, <1>13 DEF LevelsInv
<1>. QED BY <1>7, <1>14

LEMMA LevelInserted ==
    ASSUME LevelsInv, NEW price \in Prices, NEW qty \in Nat \ {0},
           NEW place \in 0 .. Len(levels), IsLowerBound(place, price),
           ~ (place < Len(levels) /\ levels[place + 1].price = price),
           place < Depth,
           totals' = [totals EXCEPT ![price] = @ + qty],
           levels' = Inserted(place, [price |-> price, qty |-> qty])
    PROVE  LevelsInv' /\ \A p \in Prices : Retained(p)' => Retained(p) \/ totals[p] = 0
<1>. DEFINE new == [price |-> price, qty |-> qty]
            size == IF Len(levels) < Depth THEN Len(levels) + 1 ELSE Depth
<1>0. /\ place \in Nat /\ place <= Len(levels) /\ Len(levels) \in Nat
      /\ \A i \in DOMAIN levels : i \in Nat /\ 1 <= i /\ i <= Len(levels)
      /\ \A i \in Nat : 1 <= i /\ i <= Len(levels) => i \in DOMAIN levels
  <2>1. Len(levels) \in Nat /\ DOMAIN levels = 1 .. Len(levels)
    BY DEF LevelsInv, LevelsAreBest
  <2>. QED BY <2>1
<1>1. /\ levels \in Seq(Level) /\ totals \in [Prices -> Nat]
      /\ Len(levels) \in Nat /\ DOMAIN levels = 1 .. Len(levels)
      /\ Len(levels) <= Depth /\ Depth \in Nat \ {0}
      /\ size \in Nat /\ size <= Len(levels) + 1 /\ place + 1 <= size
  BY LevelsAssumption DEF LevelsInv, LevelsAreBest, Level
<1>2. \A i \in DOMAIN levels : levels[i] \in Level /\ levels[i].price \in Prices
  <2>1. \A i \in DOMAIN levels : levels[i] \in Level
    BY <1>1
  <2>. QED BY <2>1 DEF Level
<1>3. new \in Level /\ new.price = price /\ new.qty = qty
  BY DEF Level
<1>4. /\ levels' = [i \in 1 .. size |-> IF i <= place THEN levels[i]
                                        ELSE IF i = place + 1 THEN new ELSE levels[i - 1]]
      /\ \A i \in 1 .. size : (IF i <= place THEN levels[i]
                               ELSE IF i = place + 1 THEN new ELSE levels[i - 1]) \in Level
  BY <1>1, <1>2, <1>3 DEF Inserted
<1>5. /\ levels' \in Seq(Level) /\ Len(levels') = size /\ DOMAIN levels' = 1 .. size
      /\ \A i \in 1 .. place : levels'[i] = levels[i] /\ i \in DOMAIN levels
      /\ levels'[place + 1] = new
      /\ \A i \in place + 2 .. size : levels'[i] = levels[i - 1] /\ i - 1 \in DOMAIN levels
  <2>. HIDE DEF size, new
  <2>1. levels' \in Seq(Level) /\ Len(levels') = size /\ DOMAIN levels' = 1 .. size
    <3>1. levels' \in [1 .. size -> Level]
      BY <1>4, Zenon
    <3>. QED BY <1>1, <3>1, FunctionIsSequence, Zenon
  <2>2. \A i \in 1 .. place : i \in 1 .. size /\ i \in DOMAIN levels
    BY <1>0, <1>1
  <2>3. place + 1 \in 1 .. size
    BY <1>0, <1>1
  <2>4. \A i \in place + 2 .. size : i \in 1 .. size /\ ~ (i <= place) /\ i # place + 1
                                      /\ i - 1 \in DOMAIN levels
    BY <1>0, <1>1
  <2>5. levels'[place + 1] = new
    BY <1>0, <1>4, <2>3
  <2>6. \A i \in 1 .. place : levels'[i] = levels[i]
    BY <1>4, <2>2
  <2>7. \A i \in place + 2 .. size : levels'[i] = levels[i - 1]
    BY <1>4, <2>4
  <2>. QED BY <2>1, <2>2, <2>4, <2>5, <2>6, <2>7
<1>6. \A i \in 1 .. place : Better(levels[i].price, price)
  BY DEF IsLowerBound
<1>7. \A i \in place + 1 .. Len(levels) : Better(price, levels[i].price)
  <2>1. SUFFICES ASSUME NEW i \in place + 1 .. Len(levels)
                 PROVE  Better(price, levels[i].price)
    OBVIOUS
  <2>2. place + 1 \in DOMAIN levels /\ i \in DOMAIN levels
    BY <1>1, <2>1
  <2>3. Better(price, levels[place + 1].price)
    <3>1. ~ Better(levels[place + 1].price, price) /\ levels[place + 1].price # price
      BY <1>1, <2>2 DEF IsLowerBound
    <3>. QED BY <1>2, <2>2, <3>1, BetterIsTotal
  <2>4. i = place + 1 \/ Better(levels[place + 1].price, levels[i].price)
    <3>1. i = place + 1 \/ place + 1 < i
      BY <1>0, <2>1
    <3>2. place + 1 < i => Better(levels[place + 1].price, levels[i].price)
      BY <2>2 DEF LevelsInv, LevelsAreBest
    <3>. QED BY <3>1, <3>2
  <2>. QED BY <1>2, <2>2, <2>3, <2>4, BetterIsTotal
<1>8. \A i \in DOMAIN levels : levels[i].price # price
  BY <1>1, <1>2, <1>6, <1>7, BetterIsTotal
<1>9. totals[price] = 0
  <2>1. SUFFICES ASSUME totals[price] # 0 PROVE FALSE
    OBVIOUS
  <2>2. totals[price] > 0 /\ ~ Retained(price)
    BY <1>1, <1>8, <2>1 DEF Retained
  <2>3. Len(levels) = Depth /\ \A i \in DOMAIN levels : Better(levels[i].price, price)
    BY <2>2 DEF LevelsInv, LevelsAreBest
  <2>4. place + 1 \in DOMAIN levels /\ place + 1 \in place + 1 .. Len(levels)
    BY <1>1, <2>3
  <2>. QED BY <1>2, <1>7, <2>3, <2>4, BetterIsTotal
<1>10. /\ totals' \in [Prices -> Nat] /\ totals'[price] = qty
       /\ \A p \in Prices : p # price => totals'[p] = totals[p]
  BY <1>1, <1>9
<1>11. ASSUME NEW i \in DOMAIN levels', NEW j \in DOMAIN levels', i < j
       PROVE  Better(levels'[i].price, levels'[j].price)
  <2>1. \A k, l \in DOMAIN levels : k < l => Better(levels[k].price, levels[l].price)
    BY DEF LevelsInv, LevelsAreBest
  <2>2. CASE j <= place
    BY <1>5, <1>11, <2>1, <2>2
  <2>3. CASE j = place + 1
    <3>1. i \in 1 .. place
      BY <1>5, <1>11, <2>3
    <3>. QED BY <1>3, <1>5, <1>6, <2>3, <3>1
  <2>4. CASE j \in place + 2 .. size /\ i = place + 1
    <3>1. j - 1 \in place + 1 .. Len(levels)
      BY <1>1, <2>4
    <3>. QED BY <1>3, <1>5, <1>7, <2>4, <3>1
  <2>5. CASE j \in place + 2 .. size /\ i <= place
    <3>1. i \in 1 .. place /\ j - 1 \in DOMAIN levels /\ i < j - 1
      BY <1>1, <1>5, <1>11, <2>5
    <3>. QED BY <1>5, <2>1, <2>5, <3>1
  <2>6. CASE j \in place + 2 .. size /\ i \in place + 2 .. size
    <3>1. i - 1 \in DOMAIN levels /\ j - 1 \in DOMAIN levels /\ i - 1 < j - 1
      BY <1>1, <1>5, <1>11, <2>6
    <3>2. levels'[i] = levels[i - 1] /\ levels'[j] = levels[j - 1]
      BY <1>5, <2>6
    <3>3. Better(levels[i - 1].price, levels[j - 1].price)
      BY ONLY <2>1, <3>1
    <3>. QED BY ONLY <3>2, <3>3
  <2>7. j <= place \/ j = place + 1 \/ j \in place + 2 .. size
    <3>1. place \in Nat /\ size \in Nat /\ j \in 1 .. size
      BY <1>0, <1>5
    <3>. HIDE DEF size
    <3>. QED BY <3>1
  <2>8. i <= place \/ i = place + 1 \/ i \in place + 2 .. size
    <3>1. place \in Nat /\ size \in Nat /\ i \in 1 .. size
      BY <1>0, <1>5
    <3>. HIDE DEF size
    <3>. QED BY <3>1
  <2>. HIDE DEF size, new
  <2>. QED BY ONLY <2>2, <2>3, <2>4, <2>5, <2>6, <2>7, <2>8
<1>12. ASSUME NEW i \in DOMAIN levels'
       PROVE  levels'[i].qty = totals'[levels'[i].price]
  <2>1. CASE i = place + 1
    BY <1>3, <1>5, <1>10, <2>1
  <2>2. CASE i # place + 1
    <3>1. PICK k \in DOMAIN levels : levels'[i] = levels[k]
      <4>1. i \in 1 .. place \/ i \in place + 2 .. size
        BY <1>1, <1>5, <1>12, <2>2
      <4>. QED BY <1>5, <4>1
    <3>2. levels[k].qty = totals[levels[k].price]
      BY DEF LevelsInv, LevelsAreBest
    <3>. QED BY <1>2, <1>8, <1>10, <3>1, <3>2
  <2>. QED BY <2>1, <2>2
<1>13. ASSUME NEW k \in DOMAIN levels
       PROVE  \/ \E i \in DOMAIN levels' : levels'[i] = levels[k]
              \/ Len(levels) = Depth /\ k = Depth
  <2>1. CASE k <= place
    <3>1. k \in 1 .. place /\ k \in DOMAIN levels'
      BY <1>0, <1>1, <1>5, <1>13, <2>1
    <3>. QED BY <1>5, <3>1
  <2>2. CASE k > place /\ k + 1 <= size
    <3>1. k + 1 \in place + 2 .. size /\ k + 1 \in DOMAIN levels'
      BY <1>0, <1>1, <1>5, <1>13, <2>2
    <3>2. levels'[k + 1] = levels[k + 1 - 1] /\ k + 1 - 1 = k
      BY <1>0, <1>5, <1>13, <3>1
    <3>. QED BY <3>1, <3>2
  <2>3. CASE k > place /\ k + 1 > size
    <3>1. /\ k \in Nat /\ k <= Len(levels) /\ Len(levels) \in Nat /\ Len(levels) <= Depth
          /\ Depth \in Nat
          /\ size = IF Len(levels) < Depth THEN Len(levels) + 1 ELSE Depth
      BY <1>0, <1>1, <1>13
    <3>. HIDE DEF size
    <3>. QED BY <2>3, <3>1
  <2>4. k \in Nat /\ place \in Nat /\ size \in Nat
    <3>1. size \in Nat
      BY <1>1
    <3>. QED BY <1>0, <1>13, <3>1
  <2>. HIDE DEF size
  <2>. QED BY <2>1, <2>2, <2>3, <2>4
<1>14. ASSUME NEW p \in Prices, totals'[p] > 0, ~ Retained(p)'
       PROVE  /\ Len(levels') = Depth
              /\ \A i \in DOMAIN levels' : Better(levels'[i].price, p)
  <2>1. p # price /\ totals[p] > 0
    <3>1. place + 1 \in DOMAIN levels' /\ levels'[place + 1].price = price
      BY <1>1, <1>3, <1>5
    <3>2. p # price
      BY <1>14, <3>1 DEF Retained
    <3>. QED BY <1>10, <1>14, <3>2
  <2>2. /\ Len(levels) = Depth
        /\ \A i \in DOMAIN levels : i < Depth => Better(levels[i].price, p)
        /\ Better(levels[Depth].price, p) \/ levels[Depth].price = p
    <3>1. CASE Retained(p)
      <4>1. PICK k \in DOMAIN levels : levels[k].price = p
        BY <3>1 DEF Retained
      <4>2. Len(levels) = Depth /\ k = Depth
        BY <1>13, <1>14, <4>1 DEF Retained
      <4>. QED BY <1>1, <4>1, <4>2 DEF LevelsInv, LevelsAreBest
    <3>2. CASE ~ Retained(p)
      <4>1. Len(levels) = Depth /\ \A i \in DOMAIN levels : Better(levels[i].price, p)
        BY <2>1, <3>2 DEF LevelsInv, LevelsAreBest
      <4>. QED BY <1>1, <4>1
    <3>. QED BY <3>1, <3>2
  <2>3. size = Depth /\ Depth \in DOMAIN levels /\ place + 1 <= Depth
    BY <1>1, <2>2
  <2>4. Better(price, p)
    <3>1. Better(price, levels[Depth].price) /\ levels[Depth].price \in Prices
      BY <1>1, <1>2, <1>7, <2>2, <2>3
    <3>. QED BY <2>2, <3>1, BetterIsTotal
  <2>5. ASSUME NEW i \in DOMAIN levels' PROVE Better(levels'[i].price, p)
    <3>1. CASE i <= place
      BY <1>1, <1>5, <2>2, <2>3, <2>5, <3>1
    <3>2. CASE i = place + 1
      BY <1>3, <1>5, <2>4, <3>2
    <3>3. CASE i \in place + 2 .. size
      <4>1. i - 1 \in DOMAIN levels /\ i - 1 < Depth
        BY <1>1, <1>5, <2>3, <3>3
      <4>. QED BY <1>5, <2>2, <3>3, <4>1
    <3>. QED BY <1>1, <1>5, <2>5, <3>1, <3>2, <3>3
  <2>. QED BY <1>5, <2>3, <2>5
<1>15. \A p \in Prices : Retained(p)' => Retained(p) \/ totals[p] = 0
  <2>1. SUFFICES ASSUME NEW p \in Prices, NEW i \in DOMAIN levels', levels'[i].price = p
                 PROVE  Retained(p) \/ totals[p] = 0
    BY DEF Retained
  <2>2. i \in 1 .. place \/ i = place + 1 \/ i \in place + 2 .. size
    BY <1>1, <1>5, <2>1
  <2>. QED BY <1>3, <1>5, <1>9, <2>1, <2>2 DEF Retained
<1>16. size <= Depth
  BY <1>1
<1>. QED BY <1>5, <1>10, <1>11, <1>12, <1>14, <1>15, <1>16 DEF LevelsInv, LevelsAreBest, Level

LEMMA LevelSkipped ==
    ASSUME LevelsInv, NEW price \in Prices, NEW qty \in Nat \ {0},
           NEW place \in 0 .. Len(levels), IsLowerBound(place, price),
           ~ (place < Depth),
           totals' = [totals EXCEPT ![price] = @ + qty], levels' = levels
    PROVE  LevelsInv' /\ \A p \in Prices : Retained(p)' <=> Retained(p)
<1>1. /\ levels \in Seq(Level) /\ totals \in [Prices -> Nat]
      /\ DOMAIN levels = 1 .. Len(levels)
      /\ Len(levels) = Depth /\ place = Len(levels)
  BY LevelsAssumption DEF LevelsInv, LevelsAreBest, Level
<1>2. \A i \in DOMAIN levels : Better(levels[i].price, price) /\ levels[i].price \in Prices
  <2>1. \A i \in DOMAIN levels : levels[i] \in Level
    BY <1>1
  <2>. QED BY <1>1, <2>1 DEF IsLowerBound, Level
<1>3. \A i \in DOMAIN levels : levels[i].price # price
  BY <1>2, BetterIsTotal
<1>4. totals' \in [Prices -> Nat] /\ \A p \in Prices : p # price => totals'[p] = totals[p]
  BY <1>1
<1>5. \A p \in Prices : Retained(p)' <=> Retained(p)
  BY DEF Retained
<1>6. \A i \in DOMAIN levels' : levels'[i].qty = totals'[levels'[i].price]
  BY <1>2, <1>3, <1>4 DEF LevelsInv, LevelsAreBest
<1>7. ASSUME NEW p \in Prices, totals'[p] > 0, ~ Retained(p)'
      PROVE  /\ Len(levels') = Depth
             /\ \A i \in DOMAIN levels' : Better(levels'[i].price, p)
  <2>1. CASE p = price
    BY <1>1, <1>2, <2>1
  <2>2. CASE p # price
    BY <1>4, <1>5, <1>7, <2>2 DEF LevelsInv, LevelsAreBest
  <2>. QED BY <2>1, <2>2
<1>. QED BY <1>4, <1>5, <1>6, <1>7 DEF LevelsInv, LevelsAreBest

LEMMA AggregateKeeps ==
    ASSUME LevelsInv, NEW price \in Prices, NEW qty \in 1 .. MaxQty, Aggregate(price, qty)
    PROVE  LevelsInv' /\ \A p \in Prices : Retained(p)' => Retained(p) \/ totals[p] = 0
<1>1. PICK place \in 0 .. Len(levels) :
          /\ IsLowerBound(place, price)
          /\ levels' = IF place < Len(levels) /\ levels[place + 1].price = price
                       THEN [levels EXCEPT ![place + 1].qty = @ + qty]
                       ELSE IF place < Depth
                       THEN Inserted(place, [price |-> price, qty |-> qty])
                       ELSE levels
  BY DEF Aggregate
<1>2. totals' = [totals EXCEPT ![price] = @ + qty] /\ qty \in Nat \ {0}
  BY DEF Aggregate, Counted
<1>3. CASE place < Len(levels) /\ levels[place + 1].price = price
  BY <1>1, <1>2, <1>3, LevelGrows
<1>4. CASE ~ (place < Len(levels) /\ levels[place + 1].price = price) /\ place < Depth
  <2>1. levels' = Inserted(place, [price |-> price, qty |-> qty])
    BY <1>1, <1>4
  <2>. QED BY <1>1, <1>2, <1>4, <2>1, LevelInserted
<1>5. CASE ~ (place < Len(levels) /\ levels[place + 1].price = price) /\ ~ (place < Depth)
  <2>1. levels' = levels
    BY <1>1, <1>5
  <2>. QED BY <1>1, <1>2, <1>5, <2>1, LevelSkipped
<1>. QED BY <1>3, <1>4, <1>5

LEMMA NextLevels == LevelsInv /\ [LevelsNext]_levelsVars => LevelsInv'
<1>. SUFFICES ASSUME LevelsInv, [LevelsNext]_levelsVars PROVE LevelsInv'
  OBVIOUS
<1>1. CASE Restart
  <2>1. /\ levels' = << >> /\ Len(levels') = 0 /\ DOMAIN levels' = {}
        /\ levels' \in Seq(Level) /\ totals' \in [Prices -> Nat]
        /\ \A price \in Prices : totals'[price] = 0
    BY <1>1 DEF Restart, Empty
  <2>. QED BY <2>1, LevelsAssumption DEF LevelsInv, LevelsAreBest, Level
<1>2. CASE \E price \in Prices, qty \in 1 .. MaxQty : Aggregate(price, qty)
  BY <1>2, AggregateKeeps
<1>3. CASE UNCHANGED levelsVars
  BY <1>3 DEF levelsVars, LevelsInv, LevelsAreBest, Retained
<1>. QED BY <1>1, <1>2, <1>3 DEF LevelsNext

LEMMA LevelsInvariant == LevelsSpec => []LevelsInv
BY InitLevels, NextLevels, PTL DEF LevelsSpec

\* The published levels are those of an ordered map of the whole book, for any
\* depth and any order in which the book is read.
THEOREM LevelsHold == LevelsSpec => []LevelsAreBest
<1>1. LevelsInv => LevelsAreBest
  BY DEF LevelsInv
<1>. QED BY <1>1, LevelsInvariant, PTL

\* What was pushed out or skipped stays out.
THEOREM EvictedStay == LevelsSpec => EvictedStayOut
<1>1. ASSUME LevelsInv, [LevelsNext]_levelsVars
      PROVE  [\A price \in Prices :
                 totals[price] > 0 /\ ~ Retained(price) /\ ~ Restart => ~ Retained(price)']_levelsVars
  <2>1. SUFFICES ASSUME LevelsNext, ~ Restart, NEW price \in Prices,
                        totals[price] > 0, ~ Retained(price)
                 PROVE  ~ Retained(price)'
    BY <1>1
  <2>2. PICK p \in Prices, qty \in 1 .. MaxQty : Aggregate(p, qty)
    BY <2>1 DEF LevelsNext
  <2>3. Retained(price)' => Retained(price) \/ totals[price] = 0
    BY <1>1, <2>2, AggregateKeeps
  <2>. QED BY <2>1, <2>3
<1>. QED BY <1>1, LevelsInvariant, PTL DEF LevelsSpec, EvictedStayOut
=============================================================================
