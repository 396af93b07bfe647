------------------------ MODULE BinanceMarketProofs ------------------------
(***************************************************************************)
(* Proofs about BinanceMarket: whatever its books, however long its queue  *)
(* and however many its updates, snapshot and stream join without a gap.   *)
(***************************************************************************)
EXTENDS BinanceMarket, FiniteSetTheorems, WellFoundedInduction, TLAPS

-----------------------------------------------------------------------------
(***************************************************************************)
(* The inductive invariant.                                                *)
(***************************************************************************)

\* The books are numbered from 0 on.
BooksInv == Newest \in Nat /\ DOMAIN books = 0 .. Newest

\* The updates of this book so far.
Mine == Own(1 .. Newest)

\* What was emitted, and what the book is at, are updates of this book.
NumbersInv ==
    /\ emitted \in {0} \cup Mine
    /\ phase \notin {"starting", "connected"} => last \in Mine

Event == [first : Nat, final : Nat, previous : Nat]

\* An event begins with the first update of this book after the event before it.
EventsInv ==
    /\ stream \in Seq(Event)
    /\ phase = "starting" => stream = << >>
    /\ phase = "applying" => stream # << >>
    /\ \A i \in DOMAIN stream :
          /\ stream[i].previous < stream[i].first
          /\ stream[i].first <= stream[i].final
          /\ stream[i].final <= emitted
          /\ stream[i].final \in Mine
          /\ \A n \in Mine : stream[i].previous < n => stream[i].first <= n

\* The update after which the queue goes on.
Start == IF stream = << >> THEN emitted ELSE stream[1].previous

\* If nothing was lost the events in the queue follow one another up to the last
\* one emitted, and begin no later than where the book is.
StreamInv ==
    ~ lost =>
        /\ stream # << >> => stream[Len(stream)].final = emitted
        /\ \A i \in 1 .. Len(stream) - 1 : stream[i + 1].previous = stream[i].final
        /\ phase \notin {"starting", "connected"} => Start <= last

JoinInv == BooksInv /\ NumbersInv /\ EventsInv /\ StreamInv /\ GapOnlyAfterLoss
-----------------------------------------------------------------------------
(***************************************************************************)
(* Least and greatest numbers.                                             *)
(***************************************************************************)
LEMMA MinIsLeast ==
    ASSUME NEW S \in SUBSET Nat, S # {}
    PROVE  Min(S) \in S /\ \A n \in S : Min(S) <= n
<1>1. PICK m \in S : \A n \in S : ~ (<<n, m>> \in OpToRel(<, Nat))
  BY WFMin, NatLessThanWellFounded
<1>2. \A n \in S : ~ (n < m)
  BY <1>1 DEF OpToRel
<1>3. \A n \in S : m =< n
  BY <1>2
<1>. QED BY <1>3 DEF Min

LEMMA MaxIsGreatest ==
    ASSUME NEW b \in Nat, NEW S \in SUBSET (0 .. b), S # {}
    PROVE  Max(S) \in S /\ \A n \in S : n <= Max(S)
<1>. DEFINE Below == {b - n : n \in S}
<1>1. Below \in SUBSET Nat /\ Below # {}
  <2>1. \A n \in S : b - n \in Nat
    OBVIOUS
  <2>. QED BY <2>1
<1>2. PICK d \in Below : \A e \in Below : d <= e
  BY ONLY <1>1, MinIsLeast
<1>3. PICK m \in S : d = b - m
  BY <1>2
<1>4. \A n \in S : m >= n
  <2>1. ASSUME NEW n \in S PROVE m >= n
    <3>1. b - n \in Below
      OBVIOUS
    <3>2. d <= b - n
      BY <1>2, <3>1
    <3>. QED BY <1>3, <3>2
  <2>. QED BY <2>1
<1>5. Max(S) \in S /\ \A n \in S : Max(S) >= n
  BY <1>3, <1>4 DEF Max
<1>. QED BY <1>5
-----------------------------------------------------------------------------
(***************************************************************************)
(* The books.                                                              *)
(***************************************************************************)
LEMMA MineIsNumbers ==
    ASSUME BooksInv
    PROVE  Mine \subseteq 1 .. Newest
BY DEF Mine, Own

LEMMA SameBooks ==
    ASSUME BooksInv, books' = books
    PROVE  BooksInv' /\ Mine' = Mine
BY DEF BooksInv, Mine, Own, Newest

LEMMA BooksGrow ==
    ASSUME BooksInv, ExchangeUpdates
    PROVE  /\ BooksInv'
           /\ Mine \subseteq Mine'
           /\ \A n \in Mine' : n \in Mine \/ n = Newest + 1
<1>1. PICK new : books' = [n \in 0 .. Newest + 1 |-> IF n > Newest THEN new ELSE books[n]]
  BY DEF ExchangeUpdates
<1>2. Newest \in Nat /\ DOMAIN books = 0 .. Newest
  BY DEF BooksInv
<1>3. DOMAIN books' = 0 .. Newest + 1
  BY <1>1
<1>4. Newest' = Newest + 1
  <2>1. Cardinality(0 .. Newest + 1) = Newest + 2
    <3>. DEFINE top == Newest + 1
    <3>1. top \in Nat /\ Newest + 2 = top - 0 + 1 /\ ~ (0 > top)
      BY <1>2
    <3>. HIDE DEF top
    <3>2. Cardinality(0 .. top) = top - 0 + 1
      BY <3>1, FS_Interval
    <3>. QED BY <3>1, <3>2 DEF top
  <2>2. Newest' = Cardinality(DOMAIN books') - 1
    BY DEF Newest
  <2>. QED BY ONLY <1>2, <1>3, <2>1, <2>2
<1>5. BooksInv'
  BY ONLY <1>2, <1>3, <1>4 DEF BooksInv
<1>6. \A n \in 0 .. Newest : books'[n] = books[n]
  BY <1>1, <1>2
<1>7. Mine = {n \in 1 .. Newest : books[n] # books[n - 1]}
  BY DEF Mine, Own
<1>8. Mine' = {n \in 1 .. Newest + 1 : books'[n] # books'[n - 1]}
  BY <1>4 DEF Mine, Own
<1>9. \A n \in 1 .. Newest : n \in Mine <=> n \in Mine'
  <2>1. ASSUME NEW n \in 1 .. Newest PROVE books'[n] = books[n] /\ books'[n - 1] = books[n - 1]
    BY <1>2, <1>6
  <2>. QED BY ONLY <1>2, <1>7, <1>8, <2>1
<1>10. \A n \in Mine' : n \in 1 .. Newest \/ n = Newest + 1
  BY ONLY <1>2, <1>8
<1>. QED BY ONLY <1>5, <1>7, <1>9, <1>10
-----------------------------------------------------------------------------
(***************************************************************************)
(* The steps.                                                              *)
(***************************************************************************)
LEMMA InitJoin ==
    ASSUME Init
    PROVE  JoinInv
<1>1. Newest = 0 /\ DOMAIN books = 0 .. 0
  <2>1. DOMAIN books = {0} /\ {0} = 0 .. 0
    BY DEF Init
  <2>2. Cardinality({0}) = 1
    BY FS_Singleton
  <2>. QED BY <2>1, <2>2 DEF Newest
<1>. QED BY <1>1 DEF Init, JoinInv, BooksInv, NumbersInv, EventsInv, StreamInv, GapOnlyAfterLoss

LEMMA EventsTyped ==
    ASSUME JoinInv
    PROVE  /\ Len(stream) \in Nat /\ DOMAIN stream = 1 .. Len(stream)
           /\ \A i \in DOMAIN stream : /\ stream[i] \in Event
                                       /\ stream[i].first \in Nat
                                       /\ stream[i].final \in Nat
                                       /\ stream[i].previous \in Nat
<1>1. stream \in Seq(Event)
  BY DEF JoinInv, EventsInv
<1>2. \A i \in DOMAIN stream : stream[i] \in Event
  BY <1>1
<1>. QED BY <1>1, <1>2 DEF Event

LEMMA UpdatesKeep ==
    ASSUME JoinInv, ExchangeUpdates
    PROVE  JoinInv'
<1>1. /\ BooksInv' /\ Mine \subseteq Mine' /\ \A n \in Mine' : n \in Mine \/ n = Newest + 1
  BY BooksGrow DEF JoinInv
<1>2. UNCHANGED <<emitted, lost, stream, phase, last, fatal>>
  BY DEF ExchangeUpdates
<1>3. Newest \in Nat /\ Mine \subseteq 1 .. Newest
  BY MineIsNumbers DEF JoinInv, BooksInv
<1>4. NumbersInv'
  BY <1>1, <1>2 DEF JoinInv, NumbersInv
<1>5. EventsInv'
  <2>1. ASSUME NEW i \in DOMAIN stream, NEW n \in Mine', stream[i].previous < n
        PROVE  stream[i].first <= n
    <3>1. CASE n \in Mine
      BY <2>1, <3>1 DEF JoinInv, EventsInv
    <3>2. CASE n = Newest + 1
      <4>1. stream[i].first <= stream[i].final /\ stream[i].final \in 1 .. Newest
        BY <1>3 DEF JoinInv, EventsInv
      <4>2. stream[i].first \in Nat
        BY EventsTyped
      <4>. QED BY ONLY <1>3, <3>2, <4>1, <4>2
    <3>. QED BY <1>1, <3>1, <3>2
  <2>. QED BY <1>1, <1>2, <2>1 DEF JoinInv, EventsInv
<1>6. StreamInv' /\ GapOnlyAfterLoss'
  BY <1>2 DEF JoinInv, StreamInv, Start, GapOnlyAfterLoss
<1>. QED BY <1>1, <1>4, <1>5, <1>6 DEF JoinInv

LEMMA EmitsKeep ==
    ASSUME JoinInv, ExchangeEmits
    PROVE  JoinInv'
<1>1. PICK covered, event :
        /\ covered = Own(emitted + 1 .. Newest) /\ covered # {}
        /\ event = [first |-> Min(covered), final |-> Max(covered), previous |-> emitted]
        /\ emitted' = Max(covered)
        /\ UNCHANGED <<books, phase, last>>
        /\ \/ phase = "starting" /\ UNCHANGED <<stream, lost, fatal>>
           \/ phase # "starting" /\ lost' /\ UNCHANGED <<stream, fatal>>
           \/ /\ phase # "starting" /\ stream' = Append(stream, event)
              /\ fatal' # "gap" /\ UNCHANGED lost
  BY DEF ExchangeEmits
<1>2. BooksInv' /\ Mine' = Mine
  BY <1>1, SameBooks DEF JoinInv
<1>3. Newest \in Nat /\ Mine \subseteq 1 .. Newest /\ emitted \in 0 .. Newest
  BY MineIsNumbers DEF JoinInv, BooksInv, NumbersInv
<1>4. /\ \A n \in covered : n \in Mine /\ emitted < n /\ n \in 1 .. Newest /\ n \in Nat
      /\ \A n \in Mine : emitted < n => n \in covered
  <2>1. \A n : n \in emitted + 1 .. Newest <=> n \in 1 .. Newest /\ emitted < n
    BY ONLY <1>3
  <2>. QED BY ONLY <1>1, <1>3, <2>1 DEF Mine, Own
<1>5. Max(covered) \in covered /\ \A n \in covered : n <= Max(covered)
  <2>1. covered \in SUBSET (0 .. Newest)
    BY ONLY <1>3, <1>4
  <2>. QED BY ONLY <1>1, <1>3, <2>1, MaxIsGreatest
<1>6. Min(covered) \in covered /\ \A n \in covered : Min(covered) <= n
  <2>1. covered \in SUBSET Nat
    BY ONLY <1>4
  <2>. QED BY ONLY <1>1, <2>1, MinIsLeast
<1>7. /\ emitted' \in Mine /\ emitted' \in 1 .. Newest /\ emitted < emitted'
      /\ event \in Event /\ event.previous = emitted /\ event.final = emitted'
      /\ event.previous < event.first /\ event.first <= event.final
      /\ \A n \in Mine : event.previous < n => event.first <= n
  <2>1. /\ event.previous = emitted /\ event.final = emitted' /\ event.first = Min(covered)
        /\ emitted' \in covered /\ event.first \in covered
    BY ONLY <1>1, <1>5, <1>6
  <2>2. event \in Event
    BY ONLY <1>1, <1>3, <1>4, <2>1 DEF Event
  <2>. QED BY ONLY <1>3, <1>4, <1>5, <1>6, <2>1, <2>2
<1>8. NumbersInv'
  BY <1>1, <1>2, <1>7 DEF JoinInv, NumbersInv
<1>9. CASE stream' = stream
  <2>1. \A i \in DOMAIN stream : stream[i].final <= emitted'
    BY <1>3, <1>7, EventsTyped DEF JoinInv, EventsInv
  <2>2. EventsInv'
    BY <1>1, <1>2, <1>9, <2>1 DEF JoinInv, EventsInv
  <2>3. StreamInv' /\ GapOnlyAfterLoss'
    <3>1. CASE phase = "starting" /\ UNCHANGED <<stream, lost, fatal>>
      <4>1. stream = << >>
        BY <3>1 DEF JoinInv, EventsInv
      <4>. QED BY <1>1, <3>1, <4>1 DEF JoinInv, StreamInv, GapOnlyAfterLoss
    <3>2. CASE lost'
      BY <3>2 DEF StreamInv, GapOnlyAfterLoss
    <3>3. stream' # Append(stream, event)
      BY <1>9, EventsTyped DEF JoinInv, EventsInv
    <3>. QED BY <1>1, <3>1, <3>2, <3>3
  <2>. QED BY <1>2, <1>8, <2>2, <2>3 DEF JoinInv
<1>10. CASE phase # "starting" /\ stream' = Append(stream, event) /\ fatal' # "gap" /\ lost' = lost
  <2>1. stream \in Seq(Event) /\ Len(stream) \in Nat /\ DOMAIN stream = 1 .. Len(stream)
    BY EventsTyped DEF JoinInv, EventsInv
  <2>2. /\ stream' \in Seq(Event) /\ Len(stream') = Len(stream) + 1
        /\ DOMAIN stream' = 1 .. Len(stream) + 1
        /\ \A i \in 1 .. Len(stream) : stream'[i] = stream[i]
        /\ stream'[Len(stream) + 1] = event
        /\ stream' # << >>
    BY <1>7, <1>10, <2>1
  <2>3. ASSUME NEW i \in DOMAIN stream'
        PROVE  /\ stream'[i].previous < stream'[i].first
               /\ stream'[i].first <= stream'[i].final
               /\ stream'[i].final <= emitted'
               /\ stream'[i].final \in Mine
               /\ \A n \in Mine : stream'[i].previous < n => stream'[i].first <= n
    <3>1. CASE i = Len(stream) + 1
      <4>1. stream'[i] = event /\ emitted' \in Nat
        BY ONLY <1>3, <1>7, <2>2, <3>1
      <4>. QED BY ONLY <1>7, <4>1
    <3>2. CASE i \in 1 .. Len(stream)
      <4>1. stream'[i] = stream[i]
        BY <2>2, <3>2
      <4>2. stream[i].final <= emitted'
        BY <1>3, <1>7, <2>1, <3>2, EventsTyped DEF JoinInv, EventsInv
      <4>. QED BY <2>1, <3>2, <4>1, <4>2 DEF JoinInv, EventsInv
    <3>. QED BY <2>1, <2>2, <3>1, <3>2
  <2>4. EventsInv'
    BY <1>1, <1>2, <1>10, <2>2, <2>3 DEF EventsInv
  <2>5. ASSUME ~ lost PROVE /\ stream'[Len(stream')].final = emitted'
                            /\ \A i \in 1 .. Len(stream') - 1 :
                                   stream'[i + 1].previous = stream'[i].final
                            /\ Start' = Start
    <3>1. stream'[Len(stream')].final = emitted'
      BY <1>7, <2>2
    <3>2. ASSUME NEW i \in 1 .. Len(stream) PROVE stream'[i + 1].previous = stream'[i].final
      <4>1. CASE i = Len(stream)
        <5>1. stream # << >> /\ stream[Len(stream)].final = emitted
          BY <2>1, <2>5, <4>1 DEF JoinInv, StreamInv
        <5>. QED BY <1>7, <2>1, <2>2, <4>1, <5>1
      <4>2. CASE i # Len(stream)
        <5>1. i \in 1 .. Len(stream) - 1 /\ i + 1 \in 1 .. Len(stream)
          <6>1. Len(stream) \in Nat
            BY ONLY <2>1
          <6>. QED BY ONLY <6>1, <4>2
        <5>2. stream[i + 1].previous = stream[i].final
          BY <2>5, <5>1 DEF JoinInv, StreamInv
        <5>. QED BY <2>2, <5>1, <5>2
      <4>. QED BY <4>1, <4>2
    <3>3. \A i \in 1 .. Len(stream') - 1 : stream'[i + 1].previous = stream'[i].final
      BY <2>1, <2>2, <3>2
    <3>4. Start' = stream'[1].previous
      BY <2>2 DEF Start
    <3>5. CASE stream = << >>
      BY <1>7, <2>2, <3>4, <3>5 DEF Start
    <3>6. CASE stream # << >>
      <4>1. 1 \in 1 .. Len(stream)
        BY <2>1, <3>6
      <4>2. stream'[1] = stream[1]
        BY ONLY <2>2, <4>1
      <4>3. Start = stream[1].previous
        BY ONLY <3>6 DEF Start
      <4>. QED BY ONLY <3>1, <3>3, <3>4, <4>2, <4>3
    <3>. QED BY <3>1, <3>3, <3>5, <3>6
  <2>6. StreamInv' /\ GapOnlyAfterLoss'
    BY <1>1, <1>10, <2>5 DEF JoinInv, StreamInv, GapOnlyAfterLoss
  <2>. QED BY <1>2, <1>8, <2>4, <2>6 DEF JoinInv
<1>. QED BY <1>1, <1>9, <1>10

\* Steps that leave the books, the queue and last_update_id_ alone.
LEMMA OthersKeep ==
    ASSUME JoinInv, UNCHANGED <<books, emitted, lost, stream, last>>,
           fatal' = "gap" => fatal = "gap" \/ lost,
           phase' = "starting" => phase = "starting",
           phase' = "applying" => stream # << >>,
           phase \in {"starting", "connected"} => phase' \in {"starting", "connected"}
    PROVE  JoinInv'
<1>1. BooksInv' /\ Mine' = Mine
  BY SameBooks DEF JoinInv
<1>2. phase' \notin {"starting", "connected"} => phase \notin {"starting", "connected"}
  OBVIOUS
<1>3. NumbersInv'
  BY <1>1, <1>2 DEF JoinInv, NumbersInv
<1>4. EventsInv'
  BY <1>1 DEF JoinInv, EventsInv
<1>5. StreamInv'
  BY <1>2 DEF JoinInv, StreamInv, Start
<1>6. GapOnlyAfterLoss'
  BY DEF JoinInv, GapOnlyAfterLoss
<1>. QED BY <1>1, <1>3, <1>4, <1>5, <1>6 DEF JoinInv

LEMMA SnapshotKeeps ==
    ASSUME JoinInv, FetchSnapshot
    PROVE  JoinInv'
<1>1. /\ phase = "connected" /\ phase' = "installing"
      /\ Mine # {} /\ last' = Max(Mine)
      /\ UNCHANGED <<books, emitted, lost, stream, fatal>>
  BY DEF FetchSnapshot, Mine
<1>2. BooksInv' /\ Mine' = Mine
  BY <1>1, SameBooks DEF JoinInv
<1>3. Newest \in Nat /\ Mine \subseteq 1 .. Newest
  BY MineIsNumbers DEF JoinInv, BooksInv
<1>4. last' \in Mine /\ \A n \in Mine : n <= last'
  <2>1. Mine \in SUBSET (0 .. Newest)
    BY ONLY <1>3
  <2>. QED BY ONLY <1>1, <1>3, <2>1, MaxIsGreatest
<1>5. emitted \in {0} \cup Mine /\ emitted <= last'
  BY <1>3, <1>4 DEF JoinInv, NumbersInv
<1>6. Start <= last'
  <2>1. CASE stream = << >>
    BY <1>5, <2>1 DEF Start
  <2>2. CASE stream # << >>
    <3>1. 1 \in DOMAIN stream
      BY <2>2, EventsTyped DEF JoinInv, EventsInv
    <3>2. stream[1].previous < stream[1].first /\ stream[1].first <= stream[1].final
          /\ stream[1].final \in Mine
      BY <3>1 DEF JoinInv, EventsInv
    <3>3. stream[1].previous \in Nat /\ stream[1].first \in Nat /\ stream[1].final \in Nat
      BY <3>1, EventsTyped
    <3>4. stream[1].final <= last'
      BY ONLY <1>4, <3>2
    <3>5. last' \in Nat
      BY ONLY <1>3, <1>4
    <3>6. Start = stream[1].previous
      BY ONLY <2>2 DEF Start
    <3>. QED BY ONLY <3>2, <3>3, <3>4, <3>5, <3>6
  <2>. QED BY <2>1, <2>2
<1>7. Start' = Start
  BY <1>1 DEF Start
<1>8. NumbersInv'
  BY <1>1, <1>2, <1>4 DEF JoinInv, NumbersInv
<1>9. EventsInv'
  BY <1>1, <1>2 DEF JoinInv, EventsInv
<1>10. StreamInv'
  BY <1>1, <1>6, <1>7 DEF JoinInv, StreamInv
<1>11. GapOnlyAfterLoss'
  BY <1>1 DEF JoinInv, GapOnlyAfterLoss
<1>. QED BY <1>2, <1>8, <1>9, <1>10, <1>11 DEF JoinInv

\* An event read while nothing was lost follows what is there.
LEMMA ReadFollows ==
    ASSUME JoinInv, ~ lost, phase \notin {"starting", "connected"},
           stream # << >>, Head(stream).final > last
    PROVE  Follows(Head(stream))
<1>1. 1 \in DOMAIN stream /\ Head(stream) = stream[1]
  BY EventsTyped DEF JoinInv, EventsInv
<1>2. Newest \in Nat /\ last \in Mine /\ last \in 1 .. Newest
  BY MineIsNumbers DEF JoinInv, BooksInv, NumbersInv
<1>3. stream[1].previous <= last
  BY DEF JoinInv, StreamInv, Start
<1>4. stream[1].previous \in Nat /\ stream[1].first \in Nat /\ stream[1].final \in Nat
  BY <1>1, EventsTyped
<1>5. stream[1].previous < last => stream[1].first <= last
  BY <1>1, <1>2 DEF JoinInv, EventsInv
<1>6. stream[1].previous = last \/ stream[1].first <= last + 1
  BY ONLY <1>2, <1>3, <1>4, <1>5
<1>7. stream[1].final >= last + 1
  BY <1>1, <1>2, <1>4
<1>. QED BY <1>1, <1>6, <1>7 DEF Follows

\* The head of the queue goes; the book is at its end or further on.
LEMMA TailKeeps ==
    ASSUME JoinInv, stream # << >>, stream' = Tail(stream),
           UNCHANGED <<books, emitted, lost>>,
           phase \notin {"starting", "connected"}, phase' = "polling",
           last' \in Mine, stream[1].final <= last',
           fatal' = "gap" => fatal = "gap"
    PROVE  JoinInv'
<1>1. BooksInv' /\ Mine' = Mine
  BY SameBooks DEF JoinInv
<1>2. NumbersInv' /\ GapOnlyAfterLoss'
  BY <1>1 DEF JoinInv, NumbersInv, GapOnlyAfterLoss
<1>3. stream \in Seq(Event) /\ Len(stream) \in Nat \ {0} /\ DOMAIN stream = 1 .. Len(stream)
  BY EventsTyped DEF JoinInv, EventsInv
<1>4. /\ stream' \in Seq(Event) /\ Len(stream') = Len(stream) - 1
      /\ DOMAIN stream' = 1 .. Len(stream) - 1
      /\ \A i \in 1 .. Len(stream) - 1 : stream'[i] = stream[i + 1]
  BY <1>3
<1>5. EventsInv'
  <2>1. ASSUME NEW i \in DOMAIN stream'
        PROVE  /\ i + 1 \in DOMAIN stream /\ stream'[i] = stream[i + 1]
    BY <1>3, <1>4
  <2>. QED BY <1>1, <1>4, <2>1 DEF JoinInv, EventsInv
<1>6. ASSUME ~ lost
      PROVE  /\ stream' # << >> => stream'[Len(stream')].final = emitted
             /\ \A i \in 1 .. Len(stream') - 1 : stream'[i + 1].previous = stream'[i].final
             /\ Start' <= last'
  <2>1. /\ stream[Len(stream)].final = emitted
        /\ \A i \in 1 .. Len(stream) - 1 : stream[i + 1].previous = stream[i].final
    BY <1>6 DEF JoinInv, StreamInv
  <2>2. CASE Len(stream) = 1
    <3>1. Len(stream') = 0 /\ stream' = << >>
      BY <1>3, <1>4, <2>2
    <3>2. Start' = emitted
      BY <3>1 DEF Start
    <3>3. emitted <= last'
      BY <2>1, <2>2
    <3>4. \A i : i \notin 1 .. Len(stream') - 1
      BY ONLY <3>1
    <3>. QED BY ONLY <3>1, <3>2, <3>3, <3>4
  <2>3. CASE Len(stream) # 1
    <3>1. /\ Len(stream') \in 1 .. Len(stream) - 1 /\ 1 \in 1 .. Len(stream) - 1
          /\ Len(stream') + 1 = Len(stream)
      BY ONLY <1>3, <1>4, <2>3
    <3>2. stream'[Len(stream')] = stream[Len(stream)] /\ stream'[1] = stream[2]
      BY ONLY <1>4, <3>1
    <3>3. ASSUME NEW i \in 1 .. Len(stream') - 1 PROVE stream'[i + 1].previous = stream'[i].final
      <4>1. i \in 1 .. Len(stream) - 1 /\ i + 1 \in 1 .. Len(stream) - 1
        BY <1>3, <1>4
      <4>. QED BY <1>4, <2>1, <4>1
    <3>4. stream[2].previous = stream[1].final
      BY <2>1, <3>1
    <3>5. Start' = stream'[1].previous
      <4>1. Len(stream') > 0 /\ Len(<< >>) = 0
        BY ONLY <1>3, <3>1
      <4>2. stream' # << >>
        BY ONLY <4>1
      <4>. QED BY ONLY <4>2 DEF Start
    <3>. QED BY <2>1, <3>2, <3>3, <3>4, <3>5
  <2>. QED BY <2>2, <2>3
<1>7. StreamInv'
  BY <1>6 DEF StreamInv
<1>. QED BY <1>1, <1>2, <1>5, <1>7 DEF JoinInv
-----------------------------------------------------------------------------
(***************************************************************************)
(* The theorem.                                                            *)
(***************************************************************************)
LEMMA NextJoins ==
    ASSUME JoinInv, [Next]_vars
    PROVE  JoinInv'
<1>1. CASE ExchangeUpdates
  BY <1>1, UpdatesKeep
<1>2. CASE ExchangeEmits
  BY <1>2, EmitsKeep
<1>3. CASE Connect
  <2>1. phase = "starting" /\ phase' = "connected"
        /\ UNCHANGED <<books, emitted, lost, stream, last, fatal>>
    BY <1>3 DEF Connect
  <2>. QED BY <2>1, OthersKeep
<1>4. CASE FetchSnapshot
  BY <1>4, SnapshotKeeps
<1>5. CASE Installed
  <2>1. phase = "installing" /\ phase' = "prepared"
        /\ UNCHANGED <<books, emitted, lost, stream, last, fatal>>
    BY <1>5 DEF Installed
  <2>. QED BY <2>1, OthersKeep
<1>6. CASE ApplyLevel
  <2>1. /\ phase' = phase /\ UNCHANGED <<books, emitted, lost, stream, last>>
        /\ fatal' = fatal \/ fatal' = "out of space"
        /\ phase \in {"installing", "applying"}
    BY <1>6 DEF ApplyLevel
  <2>2. phase' = "applying" => stream # << >>
    BY <2>1 DEF JoinInv, EventsInv
  <2>. QED BY <2>1, <2>2, OthersKeep
<1>7. CASE PublishSnapshot
  <2>1. phase = "prepared" /\ phase' = "polling"
        /\ UNCHANGED <<books, emitted, lost, stream, last, fatal>>
    BY <1>7 DEF PublishSnapshot
  <2>. QED BY <2>1, OthersKeep
<1>8. CASE SkipEvent
  <2>1. /\ phase = "polling" /\ phase' = phase /\ stream # << >> /\ stream' = Tail(stream)
        /\ Head(stream).final <= last
        /\ UNCHANGED <<books, emitted, lost, last, fatal>>
    BY <1>8 DEF SkipEvent
  <2>2. Head(stream) = stream[1]
    BY <2>1
  <2>3. last \in Mine
    BY <2>1 DEF JoinInv, NumbersInv
  <2>. QED BY <2>1, <2>2, <2>3, TailKeeps
<1>9. CASE StartEvent
  <2>1. /\ phase = "polling" /\ stream # << >> /\ Head(stream).final > last
        /\ UNCHANGED <<books, emitted, lost, stream, last>>
        /\ \/ phase' = "applying" /\ fatal' = fatal
           \/ ~ Follows(Head(stream)) /\ phase' = phase
    BY <1>9 DEF StartEvent
  <2>2. fatal' = "gap" => fatal = "gap" \/ lost
    BY <2>1, ReadFollows
  <2>. QED BY <2>1, <2>2, OthersKeep
<1>10. CASE EventApplied
  <2>1. /\ phase = "applying" /\ phase' = "polling" /\ stream' = Tail(stream)
        /\ last' = Head(stream).final
        /\ UNCHANGED <<books, emitted, lost, fatal>>
    BY <1>10 DEF EventApplied
  <2>2. stream # << >>
    BY <2>1 DEF JoinInv, EventsInv
  <2>3. 1 \in DOMAIN stream /\ Head(stream) = stream[1]
    BY <2>2, EventsTyped DEF JoinInv, EventsInv
  <2>4. stream[1].final \in Mine /\ stream[1].final \in Nat
    BY <2>3, EventsTyped DEF JoinInv, EventsInv
  <2>5. last' \in Mine /\ stream[1].final <= last'
    BY <2>1, <2>3, <2>4
  <2>. QED BY <2>1, <2>2, <2>5, TailKeeps
<1>11. CASE UNCHANGED vars
  <2>1. UNCHANGED <<books, emitted, lost, stream, phase, last, fatal>>
    BY <1>11 DEF vars
  <2>2. phase' = "applying" => stream # << >>
    BY <2>1 DEF JoinInv, EventsInv
  <2>. QED BY <2>1, <2>2, OthersKeep
<1>. QED BY <1>1, <1>2, <1>3, <1>4, <1>5, <1>6, <1>7, <1>8, <1>9, <1>10, <1>11
         DEF Next, Prepare, MarketThread

\* Whatever its books, its queue and its updates: the process ends over a gap only
\* after an event was lost, however the snapshot and the events overlap.
THEOREM JoinsWithoutGap == Spec => []GapOnlyAfterLoss
<1>1. JoinInv => GapOnlyAfterLoss
  BY DEF JoinInv
<1>. QED BY InitJoin, NextJoins, <1>1, PTL DEF Spec
=============================================================================
