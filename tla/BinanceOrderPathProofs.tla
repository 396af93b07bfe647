----------------------- MODULE BinanceOrderPathProofs -----------------------
(***************************************************************************)
(* Proofs about BinanceOrderPath, for every set of prices, every quantity, *)
(* limit and capacity and any number of orders and of calls that time out: *)
(* every order executed to the end is booked once and whole, the account   *)
(* stays within the limit, and no order that may still execute is out of   *)
(* the engine's sight, unless its answer was lost.                         *)
(*                                                                         *)
(* The argument follows an order: its request waits in the queue, the      *)
(* exchange has it, its last execution is reported, the report is booked.  *)
(* Until then the slot of its side holds it.                               *)
(***************************************************************************)
EXTENDS BinanceOrderPath, FiniteSetTheorems, WellFoundedInduction, TLAPS

Sides == Engine!Sides
Opposite(side) == Engine!Opposite(side)
Offsets == {"OPEN", "CLOSE_TODAY", "CLOSE_YESTERDAY"}
OrderIds == Nat \ {0}

Slot == [id : Nat, price : Prices \cup {PriceInvalid}, qty : Nat, offset : Offsets \cup {"INVALID"},
         state : {"INVALID", "PENDING_NEW", "LIVE", "PENDING_CANCEL", "DEAD"}]
Request == [type : {"NEW", "CANCEL"}, id : OrderIds, side : Sides, offset : Offsets, qty : Nat]
ResponseSet == [type : {"ACCEPTED", "REJECTED", "FILLED", "CANCELED", "CANCEL_REJECTED"},
                id : OrderIds, side : Sides, offset : Offsets, exec : Nat, leaves : Int]
Event == [id : OrderIds, executed : Nat,
          status : {"PARTIALLY_FILLED", "FILLED", "CANCELED", "EXPIRED"}]
ExchangeOrder == [side : Sides, qty : Nat, executed : Nat,
                  status : {"WORKING", "FILLED", "CANCELED", "EXPIRED"}]

\* What is in a queue.
In(queue) == {queue[i] : i \in DOMAIN queue}

TypeOK ==
    /\ orders \in [Sides -> Slot]
    /\ nextOrderId \in 1 .. MaxOrders + 1
    /\ position \in [net : Int, today : Nat, yesterday : Nat]
    /\ requests \in Seq(Request) /\ responses \in Seq(ResponseSet) /\ userEvents \in Seq(Event)
    /\ calling \in BOOLEAN /\ answer \in {"none", "ok", "error"}
    /\ live \in [DOMAIN live -> Request] /\ DOMAIN live \subseteq DOMAIN exchange
    /\ cumulative \in [Ids -> Nat]
    /\ wire \subseteq Request
    /\ exchange \in [DOMAIN exchange -> ExchangeOrder]
    /\ DOMAIN exchange \subseteq 1 .. nextOrderId - 1 /\ lost \subseteq 1 .. nextOrderId - 1
    /\ \A r \in In(requests) \cup In(responses) \cup wire : r.id < nextOrderId

\* The slots; a message about an order is never taken for one of the other side.
SlotsInv ==
    /\ \A side \in Sides :
           LET o == orders[side]
           IN  /\ o.id < nextOrderId
               /\ o.state = "INVALID" <=> o.id = 0
               /\ o.id # 0 => o.offset \in Offsets
    /\ orders["BUY"].id = orders["SELL"].id => orders["BUY"].id = 0
    /\ \A r \in In(requests) \cup In(responses) : r.id # orders[Opposite(r.side)].id
    /\ \A id \in DOMAIN exchange \ lost : id # orders[Opposite(exchange[id].side)].id

\* The limit holds whatever the orders in the slots still execute.
ExposureInv ==
    MaxPosition # QtyInvalid =>
        /\ -MaxPosition <= position.net /\ position.net <= MaxPosition
        /\ orders["BUY"].id # 0 => position.net + orders["BUY"].qty <= MaxPosition
        /\ orders["SELL"].id # 0 => position.net - orders["SELL"].qty >= -MaxPosition
        /\ (position.net # 0 \/ \E side \in Sides : orders[side].id # 0) => OrderQty <= MaxPosition

\* The request for an order is not answered yet.
Asked(id) == \E r \in In(requests) : r.type = "NEW" /\ r.id = id

\* The end of its execution is reported, not read yet, or not booked yet.
Unread(id) == \E e \in In(userEvents) : e.id = id /\ e.status = "FILLED"
Unbooked(id) == \E r \in In(responses) : r.id = id /\ r.type = "FILLED"

\* The exchange has it, and what it executes is still to be booked.
MayExecute(id) ==
    /\ id \in DOMAIN exchange \ lost
    /\ AtWork(id) \/ Unread(id) \/ Unbooked(id)

RequestsInv ==
    /\ \A r \in In(requests) :
           r.type = "NEW" =>
               /\ LET o == orders[r.side]
                  IN  /\ o.id = r.id /\ o.offset = r.offset /\ o.qty = r.qty
                      /\ o.state = "PENDING_NEW"
               /\ r.qty >= 1
               /\ r.id \notin lost /\ r.id \notin DOMAIN live
               /\ \A s \in In(responses) : s.id # r.id
               /\ r.id \in DOMAIN exchange => calling /\ r = Head(requests) /\ answer = "ok"
    /\ \A i, j \in DOMAIN requests :
           i # j /\ requests[i].type = "NEW" => requests[i].id # requests[j].id

\* What is known while a call waits for its answer.
CallInv ==
    /\ ~ calling => answer = "none"
    /\ calling => requests # << >>
    /\ answer = "ok" =>
           LET r == Head(requests)
           IN  /\ r.id \in DOMAIN exchange
               /\ r.type = "CANCEL" => exchange[r.id].status = "CANCELED"
               /\ r.type = "NEW" =>
                      /\ exchange[r.id].side = r.side /\ exchange[r.id].qty = r.qty
                      /\ exchange[r.id].status = "FILLED" => Unread(r.id)

\* A new order is on the wire once, and only while its call waits, or lost.
WireInv ==
    /\ \A r \in wire :
           r.type = "NEW" =>
               /\ r.qty >= 1
               /\ r.id \notin DOMAIN exchange
               /\ r.id \in lost \/ (calling /\ r = Head(requests) /\ answer = "none")
    /\ \A r, s \in wire : r.type = "NEW" /\ s.type = "NEW" /\ r.id = s.id => r = s

ExchangeInv ==
    /\ \A id \in DOMAIN exchange :
           LET x == exchange[id]
           IN  /\ x.executed <= x.qty
               /\ x.status = "FILLED" <=> x.executed = x.qty
               /\ MayExecute(id) => /\ orders[x.side].id = id
                                    /\ orders[x.side].state # "DEAD"
                                    /\ orders[x.side].qty = x.qty
               /\ id \notin lost /\ (AtWork(id) \/ Unread(id)) =>
                      /\ id \in DOMAIN live \/ Asked(id)
                      /\ cumulative[id] < x.qty
                      /\ ~ Unbooked(id)
    /\ \A id \in Ids \ DOMAIN exchange : cumulative[id] = 0

LiveInv ==
    \A id \in DOMAIN live :
        LET o == live[id]
        IN  /\ o.id = id /\ id \notin lost
            /\ o.side = exchange[id].side /\ o.qty = exchange[id].qty
            /\ orders[o.side].id = id => orders[o.side].offset = o.offset

\* The reports of the user stream.
EventsInv ==
    /\ \A e \in In(userEvents) :
           /\ e.id \in DOMAIN exchange
           /\ e.status = "FILLED" => /\ exchange[e.id].status = "FILLED"
                                     /\ e.executed = exchange[e.id].qty
           /\ e.status # "FILLED" => e.executed < exchange[e.id].qty
           /\ e.status \in {"CANCELED", "EXPIRED"} => exchange[e.id].status = e.status
    /\ \A i, j \in DOMAIN userEvents :
           /\ userEvents[i].id = userEvents[j].id
           /\ userEvents[i].status = "FILLED" /\ userEvents[j].status = "FILLED"
           => i = j

\* What a response says is so at the exchange.
ResponsesInv ==
    /\ \A r \in In(responses) :
           /\ r.type = "FILLED" =>
                  /\ r.id \in DOMAIN exchange \ lost /\ r.id \notin DOMAIN live
                  /\ LET x == exchange[r.id]
                     IN  x.status = "FILLED" /\ x.side = r.side /\ x.qty = r.exec
                  /\ r.leaves = 0
                  /\ orders[r.side].offset = r.offset
           /\ r.type = "CANCELED" =>
                  r.id \in DOMAIN exchange /\ exchange[r.id].status \in {"CANCELED", "EXPIRED"}
           /\ r.type = "REJECTED" => r.id \in lost \/ r.id \notin DOMAIN exchange
    /\ \A i, j \in DOMAIN responses :
           /\ responses[i].id = responses[j].id
           /\ responses[i].type = "FILLED" /\ responses[j].type = "FILLED"
           => i = j

\* An order that closes has something to close, as long as it may execute: no
\* execution is cut.
CloseInv ==
    \A side \in Sides :
        LET o == orders[side]
        IN  (Asked(o.id) \/ MayExecute(o.id)) /\ o.offset # "OPEN" =>
                /\ Sign(side) * position.net < 0
                /\ o.qty <= Engine!CloseableQty(o.offset)

PathInv ==
    /\ TypeOK /\ SlotsInv /\ ExposureInv /\ RequestsInv /\ CallInv /\ WireInv /\ ExchangeInv
    /\ LiveInv /\ EventsInv /\ ResponsesInv /\ CloseInv /\ ~ fault
    /\ FillsReconcile
-----------------------------------------------------------------------------
(***************************************************************************)
(* Sums over the orders.                                                   *)
(***************************************************************************)
LEMMA LeastNumber ==
    ASSUME NEW S \in SUBSET Nat, S # {}
    PROVE  \E m \in S : \A n \in S : m <= n
<1>1. PICK m \in S : \A n \in S : ~ (<<n, m>> \in OpToRel(<, Nat))
  BY WFMin, NatLessThanWellFounded
<1>2. \A n \in S : ~ (n < m)
  BY <1>1 DEF OpToRel
<1>3. \A n \in S : m <= n
  BY <1>2
<1>. QED BY <1>3

\* A running total exists.
LEMMA TotalExists ==
    ASSUME NEW N \in Nat, NEW v \in [1 .. N -> Int]
    PROVE  \E f \in [0 .. N -> Int] :
               f = [n \in 0 .. N |-> IF n = 0 THEN 0 ELSE f[n - 1] + v[n]]
<1>. DEFINE Sums(f, k) ==
         /\ f \in [0 .. k -> Int]
         /\ f = [n \in 0 .. k |-> IF n = 0 THEN 0 ELSE f[n - 1] + v[n]]
            Missing == {k \in 0 .. N : ~ \E f : Sums(f, k)}
<1>1. ASSUME Missing # {} PROVE FALSE
  <2>1. Missing \in SUBSET Nat
    OBVIOUS
  <2>. HIDE DEF Missing
  <2>2. PICK k \in Missing : \A n \in Missing : k <= n
    BY <1>1, <2>1, LeastNumber
  <2>. USE DEF Missing
  <2>3. k \in 0 .. N /\ ~ \E f : Sums(f, k)
    BY <2>2
  <2>4. k # 0
    <3>1. Sums([n \in 0 .. 0 |-> 0], 0)
      OBVIOUS
    <3>. QED BY <2>3, <3>1
  <2>5. k - 1 \in 0 .. N /\ k - 1 \notin Missing
    <3>1. k - 1 \in 0 .. N /\ ~ (k <= k - 1)
      BY <2>3, <2>4
    <3>. HIDE DEF Missing
    <3>. QED BY <2>2, <3>1
  <2>6. PICK f : Sums(f, k - 1)
    BY <2>5
  <2>. DEFINE g == [n \in 0 .. k |-> IF n = k THEN f[k - 1] + v[k] ELSE f[n]]
  <2>7. f[k - 1] \in Int /\ v[k] \in Int
    BY <2>3, <2>4, <2>6
  <2>8. g \in [0 .. k -> Int]
    <3>1. \A n \in 0 .. k : n # k => n \in 0 .. k - 1 /\ f[n] \in Int
      BY <2>3, <2>6
    <3>. QED BY <2>7, <3>1
  <2>9. ASSUME NEW n \in 0 .. k PROVE g[n] = IF n = 0 THEN 0 ELSE g[n - 1] + v[n]
    <3>1. CASE n = k
      <4>1. g[k] = f[k - 1] + v[k] /\ g[k - 1] = f[k - 1] /\ k \in Nat
        BY <2>3, <2>4
      <4>. QED BY <2>4, <3>1, <4>1
    <3>2. CASE n # k
      <4>1. n \in 0 .. k - 1 /\ g[n] = f[n] /\ (n # 0 => g[n - 1] = f[n - 1])
        BY <2>3, <3>2
      <4>2. f[n] = IF n = 0 THEN 0 ELSE f[n - 1] + v[n]
        BY <2>6, <4>1
      <4>. QED BY <4>1, <4>2
    <3>. QED BY <3>1, <3>2
  <2>10. g = [n \in 0 .. k |-> IF n = 0 THEN 0 ELSE g[n - 1] + v[n]]
    BY <2>9
  <2>. QED BY <2>3, <2>8, <2>10
<1>2. N \in 0 .. N
  OBVIOUS
<1>. QED BY <1>1, <1>2

\* Running totals of which one is ahead from some number on.
LEMMA TotalsPart ==
    ASSUME NEW N \in Nat, NEW f, NEW g, NEW k \in 1 .. N, NEW c \in Int,
           \A n \in 0 .. N : f[n] \in Int /\ g[n] \in Int,
           f[0] = 0, g[0] = 0,
           \A n \in 1 .. N : g[n] - g[n - 1] = f[n] - f[n - 1] + IF n = k THEN c ELSE 0
    PROVE  g[N] = f[N] + c
<1>. DEFINE Shift(n) == IF n >= k THEN c ELSE 0
            Differ == {n \in 0 .. N : g[n] # f[n] + Shift(n)}
<1>1. ASSUME Differ # {} PROVE FALSE
  <2>1. Differ \in SUBSET Nat
    OBVIOUS
  <2>. HIDE DEF Differ
  <2>2. PICK m \in Differ : \A n \in Differ : m <= n
    BY <1>1, <2>1, LeastNumber
  <2>. USE DEF Differ
  <2>3. m \in 1 .. N /\ m - 1 \in 0 .. N /\ m - 1 \notin Differ
    BY <2>2
  <2>4. g[m] - g[m - 1] = f[m] - f[m - 1] + IF m = k THEN c ELSE 0
    BY <2>3
  <2>5. g[m - 1] = f[m - 1] + Shift(m - 1)
    BY <2>3
  <2>6. Shift(m) = Shift(m - 1) + IF m = k THEN c ELSE 0
    BY <2>3
  <2>7. /\ g[m] \in Int /\ f[m] \in Int /\ g[m - 1] \in Int /\ f[m - 1] \in Int
        /\ Shift(m) \in Int /\ Shift(m - 1) \in Int
    BY <2>3
  <2>8. g[m] = f[m] + Shift(m)
    <3>. HIDE DEF Shift
    <3>. QED BY ONLY <2>4, <2>5, <2>6, <2>7
  <2>. QED BY <2>2, <2>8
<1>2. N \in 0 .. N /\ Shift(N) = c
  OBVIOUS
<1>. HIDE DEF Shift
<1>. QED BY <1>1, <1>2

LEMMA TotalSums ==
    ASSUME NEW v \in [Ids -> Int]
    PROVE  \E f : /\ f[0] = 0 /\ \A n \in 0 .. MaxOrders : f[n] \in Int
                  /\ \A n \in Ids : f[n] = f[n - 1] + v[n]
                  /\ Total(v) = f[MaxOrders]
<1>. DEFINE Sums(f) == f = [n \in 0 .. MaxOrders |-> IF n = 0 THEN 0 ELSE f[n - 1] + v[n]]
<1>1. PICK f \in [0 .. MaxOrders -> Int] : Sums(f)
  BY BinancePathAssumption, TotalExists DEF Ids
<1>. DEFINE e == CHOOSE sum : Sums(sum)
<1>2. Sums(e)
  BY <1>1
<1>3. Total(v) = e[MaxOrders]
  BY DEF Total
<1>. HIDE DEF e
<1>4. \A n \in 0 .. MaxOrders : f[n] \in Int
  OBVIOUS
<1>5. 0 \in 0 .. MaxOrders /\ MaxOrders \in Nat
  BY BinancePathAssumption
<1>. DEFINE Differ == {n \in 0 .. MaxOrders : e[n] # f[n]}
<1>6. ASSUME Differ # {} PROVE FALSE
  <2>1. Differ \in SUBSET Nat
    OBVIOUS
  <2>. HIDE DEF Differ
  <2>2. PICK k \in Differ : \A n \in Differ : k <= n
    BY <1>6, <2>1, LeastNumber
  <2>. USE DEF Differ
  <2>3. k # 0
    BY <1>1, <1>2, <2>2
  <2>4. k - 1 \in 0 .. MaxOrders /\ k - 1 \notin Differ
    BY <1>5, <2>2, <2>3
  <2>. QED BY <1>1, <1>2, <2>2, <2>3, <2>4
<1>7. Total(v) = f[MaxOrders]
  BY <1>3, <1>5, <1>6
<1>8. f[0] = 0 /\ \A n \in Ids : f[n] = f[n - 1] + v[n]
  <2>1. ASSUME NEW n \in 0 .. MaxOrders
        PROVE  f[n] = IF n = 0 THEN 0 ELSE f[n - 1] + v[n]
    BY <1>1
  <2>2. \A n \in Ids : n \in 0 .. MaxOrders /\ n # 0
    BY DEF Ids
  <2>. QED BY <1>5, <2>1, <2>2
<1>. QED BY <1>4, <1>7, <1>8

LEMMA TotalOfNone ==
    /\ Total([id \in Ids |-> 0]) = 0
    /\ \A v \in [Ids -> Int] : Total(v) \in Int
<1>1. ASSUME NEW v \in [Ids -> Int] PROVE Total(v) \in Int
  <2>1. MaxOrders \in 0 .. MaxOrders
    BY BinancePathAssumption
  <2>. QED BY <2>1, TotalSums
<1>. DEFINE v == [id \in Ids |-> 0]
<1>2. v \in [Ids -> Int] /\ \A n \in Ids : v[n] = 0
  OBVIOUS
<1>. HIDE DEF v
<1>3. PICK f : /\ f[0] = 0 /\ \A n \in 0 .. MaxOrders : f[n] \in Int
               /\ \A n \in Ids : f[n] = f[n - 1] + v[n]
               /\ Total(v) = f[MaxOrders]
  BY <1>2, TotalSums
<1>. DEFINE Differ == {n \in 0 .. MaxOrders : f[n] # 0}
<1>4. ASSUME Differ # {} PROVE FALSE
  <2>1. Differ \in SUBSET Nat
    OBVIOUS
  <2>. HIDE DEF Differ
  <2>2. PICK k \in Differ : \A n \in Differ : k <= n
    BY <1>4, <2>1, LeastNumber
  <2>. USE DEF Differ
  <2>3. k \in 1 .. MaxOrders /\ k - 1 \in 0 .. MaxOrders /\ k - 1 \notin Differ
    BY <1>3, <2>2, BinancePathAssumption
  <2>4. k \in Ids /\ f[k - 1] = 0 /\ v[k] = 0
    BY <1>2, <2>3 DEF Ids
  <2>5. f[k] = 0
    BY <1>3, <2>4
  <2>. QED BY <2>2, <2>5
<1>5. Total(v) = 0
  <2>1. MaxOrders \in 0 .. MaxOrders
    BY BinancePathAssumption
  <2>. QED BY <1>3, <1>4, <2>1
<1>. QED BY <1>1, <1>5 DEF v

\* One order more, or more of one order.
LEMMA TotalAdds ==
    ASSUME NEW v \in [Ids -> Int], NEW w \in [Ids -> Int], NEW id \in Ids, NEW c \in Int,
           w[id] = v[id] + c, \A n \in Ids : n # id => w[n] = v[n]
    PROVE  Total(w) = Total(v) + c
<1>1. PICK f : /\ f[0] = 0 /\ \A n \in 0 .. MaxOrders : f[n] \in Int
               /\ \A n \in Ids : f[n] = f[n - 1] + v[n]
               /\ Total(v) = f[MaxOrders]
  BY TotalSums
<1>2. PICK g : /\ g[0] = 0 /\ \A n \in 0 .. MaxOrders : g[n] \in Int
               /\ \A n \in Ids : g[n] = g[n - 1] + w[n]
               /\ Total(w) = g[MaxOrders]
  BY TotalSums
<1>3. ASSUME NEW n \in 1 .. MaxOrders
      PROVE  g[n] - g[n - 1] = f[n] - f[n - 1] + IF n = id THEN c ELSE 0
  <2>1. n \in Ids /\ n - 1 \in 0 .. MaxOrders /\ v[n] \in Int /\ w[n] \in Int
    BY BinancePathAssumption DEF Ids
  <2>2. w[n] = v[n] + IF n = id THEN c ELSE 0
    BY <2>1
  <2>3. f[n - 1] \in Int /\ g[n - 1] \in Int
    BY <1>1, <1>2, <2>1
  <2>4. f[n] = f[n - 1] + v[n] /\ g[n] = g[n - 1] + w[n]
    BY <1>1, <1>2, <2>1
  <2>. QED BY ONLY <2>1, <2>2, <2>3, <2>4
<1>4. MaxOrders \in Nat /\ id \in 1 .. MaxOrders
  BY BinancePathAssumption DEF Ids
<1>5. \A n \in 0 .. MaxOrders : f[n] \in Int /\ g[n] \in Int
  BY <1>1, <1>2
<1>6. \A n \in 1 .. MaxOrders : g[n] - g[n - 1] = f[n] - f[n - 1] + IF n = id THEN c ELSE 0
  BY <1>3
<1>7. f[0] = 0 /\ g[0] = 0
  BY <1>1, <1>2
<1>8. g[MaxOrders] = f[MaxOrders] + c
  BY ONLY <1>4, <1>5, <1>6, <1>7, TotalsPart, c \in Int
<1>. QED BY <1>1, <1>2, <1>8
-----------------------------------------------------------------------------
(***************************************************************************)
(* Queues.                                                                 *)
(***************************************************************************)
LEMMA Appended ==
    ASSUME NEW S, NEW queue \in Seq(S), NEW m \in S
    PROVE  /\ Append(queue, m) \in Seq(S)
           /\ In(Append(queue, m)) = In(queue) \cup {m}
           /\ DOMAIN Append(queue, m) = DOMAIN queue \cup {Len(queue) + 1}
           /\ Len(queue) + 1 \notin DOMAIN queue
           /\ Append(queue, m)[Len(queue) + 1] = m
           /\ \A i \in DOMAIN queue : Append(queue, m)[i] = queue[i]
<1>. DEFINE longer == Append(queue, m)
<1>1. /\ longer \in Seq(S) /\ DOMAIN queue = 1 .. Len(queue) /\ Len(queue) \in Nat
      /\ DOMAIN longer = 1 .. Len(queue) + 1
      /\ \A i \in 1 .. Len(queue) : longer[i] = queue[i]
      /\ longer[Len(queue) + 1] = m
  OBVIOUS
<1>. HIDE DEF longer
<1>2. In(longer) = In(queue) \cup {m}
  BY <1>1 DEF In
<1>3. DOMAIN longer = DOMAIN queue \cup {Len(queue) + 1} /\ Len(queue) + 1 \notin DOMAIN queue
  BY <1>1
<1>. QED BY <1>1, <1>2, <1>3 DEF longer

LEMMA HeadTaken ==
    ASSUME NEW S, NEW queue \in Seq(S), queue # << >>
    PROVE  /\ Head(queue) \in S /\ Tail(queue) \in Seq(S)
           /\ Head(queue) \in In(queue) /\ 1 \in DOMAIN queue /\ Head(queue) = queue[1]
           /\ In(queue) = {Head(queue)} \cup In(Tail(queue))
           /\ \A i \in DOMAIN Tail(queue) : /\ i + 1 \in DOMAIN queue /\ i + 1 # 1
                                            /\ Tail(queue)[i] = queue[i + 1]
           /\ DOMAIN Tail(queue) \subseteq Nat
<1>. DEFINE rest == Tail(queue)
<1>1. /\ rest \in Seq(S) /\ DOMAIN queue = 1 .. Len(queue) /\ Len(queue) \in Nat \ {0}
      /\ DOMAIN rest = 1 .. Len(queue) - 1 /\ Head(queue) = queue[1]
      /\ \A i \in 1 .. Len(queue) - 1 : rest[i] = queue[i + 1]
  OBVIOUS
<1>2. queue[1] \in S
  BY <1>1
<1>. HIDE DEF rest
<1>3. \A i \in DOMAIN rest : i \in Nat /\ i + 1 \in DOMAIN queue /\ i + 1 # 1 /\ rest[i] = queue[i + 1]
  BY <1>1
<1>4. 1 \in DOMAIN queue
  BY <1>1
<1>5. In(queue) = {queue[1]} \cup In(rest)
  <2>1. \A i \in DOMAIN queue : i = 1 \/ (i - 1 \in DOMAIN rest /\ queue[i] = rest[i - 1])
    BY <1>1
  <2>. QED BY <1>3, <1>4, <2>1 DEF In
<1>. QED BY <1>1, <1>2, <1>3, <1>4, <1>5 DEF rest

LEMMA EmptyQueue == In(<< >>) = {} /\ DOMAIN << >> = {}
BY DEF In

LEMMA RequestAppended ==
    \A queue \in Seq(Request), m \in Request :
        /\ Append(queue, m) \in Seq(Request)
        /\ In(Append(queue, m)) = In(queue) \cup {m}
        /\ DOMAIN Append(queue, m) = DOMAIN queue \cup {Len(queue) + 1}
        /\ Len(queue) + 1 \notin DOMAIN queue
        /\ Append(queue, m)[Len(queue) + 1] = m
        /\ \A i \in DOMAIN queue : Append(queue, m)[i] = queue[i]
BY Appended

LEMMA ResponseAppended ==
    \A queue \in Seq(ResponseSet), m \in ResponseSet :
        /\ Append(queue, m) \in Seq(ResponseSet)
        /\ In(Append(queue, m)) = In(queue) \cup {m}
        /\ DOMAIN Append(queue, m) = DOMAIN queue \cup {Len(queue) + 1}
        /\ Len(queue) + 1 \notin DOMAIN queue
        /\ Append(queue, m)[Len(queue) + 1] = m
        /\ \A i \in DOMAIN queue : Append(queue, m)[i] = queue[i]
BY Appended

LEMMA EventAppended ==
    \A queue \in Seq(Event), m \in Event :
        /\ Append(queue, m) \in Seq(Event)
        /\ In(Append(queue, m)) = In(queue) \cup {m}
        /\ DOMAIN Append(queue, m) = DOMAIN queue \cup {Len(queue) + 1}
        /\ Len(queue) + 1 \notin DOMAIN queue
        /\ Append(queue, m)[Len(queue) + 1] = m
        /\ \A i \in DOMAIN queue : Append(queue, m)[i] = queue[i]
BY Appended

\* An id below the next one has been given out.
LEMMA GivenOut ==
    ASSUME TypeOK, NEW n \in OrderIds, n < nextOrderId
    PROVE  n \in Ids /\ n \in 1 .. nextOrderId - 1
<1>1. nextOrderId \in 1 .. MaxOrders + 1
  BY DEF TypeOK
<1>2. n \in Nat /\ n # 0 /\ MaxOrders \in Nat
  BY BinancePathAssumption DEF OrderIds
<1>. QED BY <1>1, <1>2 DEF Ids

\* The fields of the messages.
LEMMA Typed ==
    ASSUME TypeOK
    PROVE  /\ \A r \in In(requests) \cup wire :
                  /\ r \in Request /\ r.type \in {"NEW", "CANCEL"} /\ r.id \in OrderIds
                  /\ r.side \in Sides /\ r.offset \in Offsets /\ r.qty \in Nat
           /\ \A r \in In(responses) :
                  /\ r \in ResponseSet /\ r.id \in OrderIds /\ r.side \in Sides
                  /\ r.offset \in Offsets /\ r.exec \in Nat /\ r.leaves \in Int
                  /\ r.type \in {"ACCEPTED", "REJECTED", "FILLED", "CANCELED", "CANCEL_REJECTED"}
           /\ \A e \in In(userEvents) :
                  /\ e \in Event /\ e.id \in OrderIds /\ e.executed \in Nat
                  /\ e.status \in {"PARTIALLY_FILLED", "FILLED", "CANCELED", "EXPIRED"}
           /\ \A id \in DOMAIN exchange :
                  /\ exchange[id].side \in Sides /\ exchange[id].qty \in Nat
                  /\ exchange[id].executed \in Nat
                  /\ exchange[id].status \in {"WORKING", "FILLED", "CANCELED", "EXPIRED"}
                  /\ id \in Ids /\ id \in OrderIds /\ id < nextOrderId
           /\ \A side \in Sides :
                  /\ orders[side] \in Slot /\ orders[side].id \in Nat /\ orders[side].qty \in Nat
                  /\ orders[side].offset \in Offsets \cup {"INVALID"}
                  /\ orders[side].state \in {"INVALID", "PENDING_NEW", "LIVE",
                                             "PENDING_CANCEL", "DEAD"}
           /\ \A id \in DOMAIN live :
                  /\ live[id] \in Request /\ live[id].id \in OrderIds /\ live[id].side \in Sides
                  /\ live[id].offset \in Offsets /\ live[id].qty \in Nat
                  /\ id \in DOMAIN exchange
<1>1. \A r \in In(requests) \cup wire : r \in Request
  BY DEF TypeOK, In
<1>2. \A r \in In(responses) : r \in ResponseSet
  BY DEF TypeOK, In
<1>3. \A e \in In(userEvents) : e \in Event
  BY DEF TypeOK, In
<1>4. \A id \in DOMAIN exchange : exchange[id] \in ExchangeOrder
  BY DEF TypeOK
<1>5. \A id \in DOMAIN exchange : id \in Ids /\ id \in OrderIds /\ id < nextOrderId
  <2>1. nextOrderId \in 1 .. MaxOrders + 1 /\ DOMAIN exchange \subseteq 1 .. nextOrderId - 1
    BY DEF TypeOK
  <2>2. MaxOrders \in Nat
    BY BinancePathAssumption
  <2>3. 1 .. nextOrderId - 1 \subseteq Ids
    BY <2>1, <2>2 DEF Ids
  <2>4. \A id \in 1 .. nextOrderId - 1 : id \in OrderIds /\ id < nextOrderId
    BY <2>1, <2>2 DEF OrderIds
  <2>. QED BY <2>1, <2>3, <2>4
<1>6. \A side \in Sides : orders[side] \in Slot
  BY DEF TypeOK
<1>7. \A id \in DOMAIN live : live[id] \in Request /\ id \in DOMAIN exchange
  BY DEF TypeOK
<1>8. \A r \in In(requests) \cup wire :
                  /\ r \in Request /\ r.type \in {"NEW", "CANCEL"} /\ r.id \in OrderIds
                  /\ r.side \in Sides /\ r.offset \in Offsets /\ r.qty \in Nat
  BY <1>1 DEF Request
<1>9. \A r \in In(responses) :
                  /\ r \in ResponseSet /\ r.id \in OrderIds /\ r.side \in Sides
                  /\ r.offset \in Offsets /\ r.exec \in Nat /\ r.leaves \in Int
                  /\ r.type \in {"ACCEPTED", "REJECTED", "FILLED", "CANCELED", "CANCEL_REJECTED"}
  BY <1>2 DEF ResponseSet
<1>10. \A e \in In(userEvents) :
                  /\ e \in Event /\ e.id \in OrderIds /\ e.executed \in Nat
                  /\ e.status \in {"PARTIALLY_FILLED", "FILLED", "CANCELED", "EXPIRED"}
  BY <1>3 DEF Event
<1>11. \A id \in DOMAIN exchange :
                  /\ exchange[id].side \in Sides /\ exchange[id].qty \in Nat
                  /\ exchange[id].executed \in Nat
                  /\ exchange[id].status \in {"WORKING", "FILLED", "CANCELED", "EXPIRED"}
  BY <1>4 DEF ExchangeOrder
<1>12. \A side \in Sides :
                  /\ orders[side] \in Slot /\ orders[side].id \in Nat /\ orders[side].qty \in Nat
                  /\ orders[side].offset \in Offsets \cup {"INVALID"}
                  /\ orders[side].state \in {"INVALID", "PENDING_NEW", "LIVE",
                                             "PENDING_CANCEL", "DEAD"}
  BY <1>6 DEF Slot
<1>13. \A id \in DOMAIN live :
                  /\ live[id] \in Request /\ live[id].id \in OrderIds /\ live[id].side \in Sides
                  /\ live[id].offset \in Offsets /\ live[id].qty \in Nat
                  /\ id \in DOMAIN exchange
  BY <1>7 DEF Request
<1>. QED BY <1>5, <1>8, <1>9, <1>10, <1>11, <1>12, <1>13

LEMMA SideFacts ==
    /\ Sides = {"BUY", "SELL"}
    /\ Engine!Sides = Sides
    /\ \A side \in Sides : /\ Opposite(side) \in Sides /\ Opposite(side) # side
                           /\ Opposite(Opposite(side)) = side
                           /\ \A s \in Sides : s # side => s = Opposite(side)
                           /\ Sign(side) = IF side = "BUY" THEN 1 ELSE -1
BY DEF Sides, Engine!Sides, Opposite, Engine!Opposite, Sign, Engine!Sign

LEMMA Under == \A id : FillUnderWay(id) <=> Unread(id) \/ Unbooked(id)
BY DEF FillUnderWay, Unread, Unbooked, In
-----------------------------------------------------------------------------
(***************************************************************************)
(* What the engine does.                                                   *)
(***************************************************************************)

\* A decision fills a free slot with a new order or cancels a live one.
Fills(side) ==
    LET o == orders'[side]
    IN  /\ orders[side].state \in {"INVALID", "DEAD"}
        /\ o \in Slot /\ o.id = nextOrderId /\ o.state = "PENDING_NEW" /\ o.offset \in Offsets
        /\ o.qty >= 1
        /\ orders' = [orders EXCEPT ![side] = o]
        /\ nextOrderId' = nextOrderId + 1 /\ nextOrderId <= MaxOrders
        /\ \/ /\ o.offset = "OPEN" /\ o.qty = OrderQty
              /\ MaxPosition # QtyInvalid =>
                     /\ position.net + Sign(side) * OrderQty <= MaxPosition
                     /\ position.net + Sign(side) * OrderQty >= -MaxPosition
           \/ /\ Sign(side) * position.net < 0
              /\ o.qty <= Engine!CloseableQty(o.offset) /\ o.qty <= OrderQty

Cancels(side) ==
    /\ orders[side].state = "LIVE"
    /\ orders' = [orders EXCEPT ![side].state = "PENDING_CANCEL"]
    /\ UNCHANGED nextOrderId

LEMMA Moves ==
    ASSUME TypeOK, NEW side \in Sides, NEW price \in Prices, NEW qty \in Nat, NEW offset \in Offsets,
           NEW lossBreached \in BOOLEAN,
           \/ offset = "OPEN" /\ qty = OrderQty
           \/ /\ offset # "OPEN" /\ Sign(side) * position.net < 0
              /\ qty <= Engine!CloseableQty(offset) /\ qty <= OrderQty,
           Engine!MoveOrder(side, price, qty, offset, lossBreached)
    PROVE  Fills(side) \/ Cancels(side)
<1>1. CASE /\ orders[side].state = "LIVE" /\ Engine!CancelOrder(side)
  BY <1>1 DEF Cancels, Engine!CancelOrder
<1>2. CASE /\ orders[side].state \in {"INVALID", "DEAD"}
           /\ Engine!NewOrder(side, price, qty, offset, lossBreached)
  <2>. DEFINE o == [id |-> nextOrderId, price |-> price, qty |-> qty,
                    offset |-> offset, state |-> "PENDING_NEW"]
  <2>1. /\ Engine!RiskAllows(side, offset, qty, lossBreached)
        /\ nextOrderId <= MaxOrders /\ nextOrderId' = nextOrderId + 1
        /\ orders' = [orders EXCEPT ![side] = o]
    BY <1>2 DEF Engine!NewOrder
  <2>2. orders'[side] = o /\ o \in Slot
    BY <2>1, BinancePathAssumption DEF TypeOK, Slot
  <2>3. qty >= 1
    BY <2>1 DEF Engine!RiskAllows
  <2>4. ASSUME offset = "OPEN", MaxPosition # QtyInvalid
        PROVE  /\ position.net + Sign(side) * OrderQty <= MaxPosition
               /\ position.net + Sign(side) * OrderQty >= -MaxPosition
    <3>1. qty = OrderQty
      BY <2>4
    <3>2. Engine!Magnitude(position.net + Sign(side) * OrderQty) <= MaxPosition
      BY <2>1, <2>4, <3>1 DEF Engine!RiskAllows, Sign
    <3>3. Sign(side) \in {1, -1} /\ position.net \in Int /\ OrderQty \in Nat /\ MaxPosition \in Nat
      BY SideFacts, BinancePathAssumption DEF TypeOK
    <3>4. Sign(side) * OrderQty \in Int
      BY ONLY <3>3
    <3>. QED BY ONLY <3>2, <3>3, <3>4 DEF Engine!Magnitude
  <2>5. /\ o.id = nextOrderId /\ o.state = "PENDING_NEW" /\ o.offset = offset /\ o.qty = qty
    OBVIOUS
  <2>. HIDE DEF o
  <2>6. \/ /\ o.offset = "OPEN" /\ o.qty = OrderQty
           /\ MaxPosition # QtyInvalid =>
                  /\ position.net + Sign(side) * OrderQty <= MaxPosition
                  /\ position.net + Sign(side) * OrderQty >= -MaxPosition
        \/ /\ Sign(side) * position.net < 0
           /\ o.qty <= Engine!CloseableQty(o.offset) /\ o.qty <= OrderQty
    BY <2>4, <2>5
  <2>. QED BY <1>2, <2>1, <2>2, <2>3, <2>5, <2>6 DEF Fills
<1>. QED BY <1>1, <1>2 DEF Engine!MoveOrder

LEMMA Decided ==
    ASSUME TypeOK, ~ fault, Engine!Decide
    PROVE  UNCHANGED <<position, fault>> /\ \E side \in Sides : Fills(side) \/ Cancels(side)
<1>1. PICK price \in Prices, lossBreached \in BOOLEAN : Engine!HandleJevDecision(price, lossBreached)
  BY DEF Engine!Decide
<1>2. ASSUME NEW side \in Sides, Engine!OpenDecision(side, price, lossBreached)
      PROVE  UNCHANGED <<position, fault>> /\ (Fills(side) \/ Cancels(side))
  <2>1. /\ Engine!MoveOrder(side, price, OrderQty, "OPEN", lossBreached)
        /\ UNCHANGED <<position, fault>>
    BY <1>2 DEF Engine!OpenDecision
  <2>. QED BY <2>1, Moves, BinancePathAssumption DEF Offsets
<1>3. ASSUME Engine!CloseDecision(price, lossBreached)
      PROVE  UNCHANGED <<position, fault>> /\ \E side \in Sides : Fills(side) \/ Cancels(side)
  <2>. DEFINE side == IF position.net > 0 THEN "SELL" ELSE "BUY"
              offset == Engine!CloseOffset(OrderQty)
              qty == Engine!Smaller(OrderQty, Engine!CloseableQty(offset))
  <2>1. /\ position.net # 0 /\ offset # "INVALID"
        /\ Engine!MoveOrder(side, price, qty, offset, lossBreached)
        /\ UNCHANGED <<position, fault>>
    BY <1>3 DEF Engine!CloseDecision, Engine!MoveCloseOrder
  <2>2. offset \in {"CLOSE_TODAY", "CLOSE_YESTERDAY"}
    BY <2>1 DEF Engine!CloseOffset
  <2>3. position.net \in Int /\ position.today \in Nat /\ position.yesterday \in Nat
    BY DEF TypeOK
  <2>4. /\ Engine!CloseableQty(offset) \in Nat
        /\ qty \in Nat /\ qty <= OrderQty /\ qty <= Engine!CloseableQty(offset)
    <3>1. Engine!CloseableQty(offset) \in Nat
      BY <2>2, <2>3 DEF Engine!CloseableQty
    <3>. QED BY <3>1, BinancePathAssumption DEF Engine!Smaller
  <2>5. side \in Sides /\ Sign(side) * position.net < 0
    BY <2>1, <2>3, SideFacts
  <2>. HIDE DEF side, offset, qty
  <2>. QED BY <1>1, <2>1, <2>2, <2>4, <2>5, Moves DEF Offsets
<1>. QED BY <1>1, <1>2, <1>3, SideFacts DEF Engine!HandleJevDecision
-----------------------------------------------------------------------------
(***************************************************************************)
(* What is booked.                                                         *)
(***************************************************************************)
Booked(id) ==
    /\ id \in DOMAIN exchange \ lost
    /\ exchange[id].status = "FILLED" /\ ~ FillUnderWay(id)

Amounts == [id \in Ids |-> IF Booked(id) THEN Executed(id) ELSE 0]

LEMMA Reconciled ==
    /\ FillsReconcile <=> position.net = Total(Amounts)
    /\ FillsReconcile' <=> position'.net = Total(Amounts')
<1>. DEFINE done == {id \in DOMAIN exchange \ lost :
                         exchange[id].status = "FILLED" /\ ~ FillUnderWay(id)}
<1>1. \A id \in Ids : id \in done <=> Booked(id)
  BY DEF Booked
<1>2. (\A id \in Ids : id \in done <=> Booked(id))'
  BY DEF Booked
<1>3. Amounts = [id \in Ids |-> IF id \in done THEN Executed(id) ELSE 0]
  BY <1>1 DEF Amounts
<1>4. (Amounts = [id \in Ids |-> IF id \in done THEN Executed(id) ELSE 0])'
  BY <1>2 DEF Amounts
<1>. QED BY <1>3, <1>4 DEF FillsReconcile, Holding

LEMMA AmountsTyped ==
    ASSUME TypeOK
    PROVE  Amounts \in [Ids -> Int] /\ \A id \in DOMAIN exchange : Executed(id) \in Int
<1>1. ASSUME NEW id \in DOMAIN exchange PROVE Executed(id) \in Int
  <2>1. exchange[id].side \in Sides /\ exchange[id].executed \in Nat
    BY Typed
  <2>2. Sign(exchange[id].side) \in {1, -1}
    BY <2>1, SideFacts
  <2>. QED BY <2>1, <2>2 DEF Executed
<1>2. \A id \in Ids : Booked(id) => id \in DOMAIN exchange
  BY DEF Booked
<1>. QED BY <1>1, <1>2 DEF Amounts

\* A step that books nothing and leaves what was booked as it is.
LEMMA BooksNothing ==
    ASSUME FillsReconcile, position'.net = position.net,
           \A id \in Ids : Booked(id)' <=> Booked(id),
           \A id \in DOMAIN exchange :
               Booked(id) => /\ exchange'[id].side = exchange[id].side
                             /\ exchange'[id].executed = exchange[id].executed
    PROVE  FillsReconcile'
<1>1. ASSUME NEW id \in Ids, Booked(id) PROVE Executed(id)' = Executed(id)
  BY <1>1 DEF Executed, Sign, Engine!Sign, Booked
<1>2. Amounts' = Amounts
  BY <1>1 DEF Amounts
<1>. QED BY <1>2, Reconciled
-----------------------------------------------------------------------------
(***************************************************************************)
(* The start, and a request sent.                                          *)
(***************************************************************************)
LEMMA InitPath ==
    ASSUME Init
    PROVE  PathInv
<1>. USE DEF Init
<1>1. /\ orders = [side \in Sides |-> Engine!NoOrder] /\ nextOrderId = 1
      /\ position = [net |-> 0, today |-> 0, yesterday |-> 0] /\ fault = FALSE
  BY SideFacts DEF Engine!Init
<1>2. \A side \in Sides : /\ orders[side] \in Slot /\ orders[side].id = 0
                          /\ orders[side].state = "INVALID"
  BY <1>1, BinancePathAssumption DEF Engine!NoOrder, Slot
<1>3. /\ In(requests) = {} /\ In(responses) = {} /\ In(userEvents) = {}
      /\ DOMAIN requests = {} /\ DOMAIN responses = {} /\ DOMAIN userEvents = {}
      /\ DOMAIN live = {} /\ DOMAIN exchange = {}
  BY EmptyQueue
<1>4. TypeOK
  <2>1. orders \in [Sides -> Slot]
    BY <1>1, <1>2
  <2>2. cumulative \in [Ids -> Nat] /\ nextOrderId \in 1 .. MaxOrders + 1
    BY <1>1, BinancePathAssumption
  <2>3. \A S : << >> \in Seq(S) /\ << >> \in [{} -> S]
    OBVIOUS
  <2>4. /\ requests \in Seq(Request) /\ responses \in Seq(ResponseSet)
        /\ userEvents \in Seq(Event) /\ live \in [DOMAIN live -> Request]
        /\ exchange \in [DOMAIN exchange -> ExchangeOrder]
    BY <1>3, <2>3
  <2>5. position \in [net : Int, today : Nat, yesterday : Nat]
    BY <1>1
  <2>. QED BY <1>3, <2>1, <2>2, <2>4, <2>5 DEF TypeOK
<1>5. SlotsInv /\ ExposureInv
  BY <1>1, <1>2, <1>3, SideFacts, BinancePathAssumption DEF SlotsInv, ExposureInv
<1>6. RequestsInv /\ CallInv /\ WireInv /\ LiveInv /\ EventsInv /\ ResponsesInv
  BY <1>3 DEF RequestsInv, CallInv, WireInv, LiveInv, EventsInv, ResponsesInv
<1>7. ExchangeInv
  BY <1>3 DEF ExchangeInv
<1>8. CloseInv
  BY <1>3 DEF CloseInv, Asked, MayExecute
<1>9. FillsReconcile
  <2>1. Amounts = [id \in Ids |-> 0]
    BY <1>3 DEF Amounts, Booked
  <2>. QED BY <1>1, <2>1, Reconciled, TotalOfNone
<1>. QED BY <1>1, <1>4, <1>5, <1>6, <1>7, <1>8, <1>9 DEF PathInv

LEMMA SendsKeeps ==
    ASSUME PathInv, GatewaySends
    PROVE  PathInv'
<1>. USE DEF PathInv
<1>1. /\ ~ calling /\ calling' = TRUE /\ requests # << >> /\ wire' = wire \cup {Head(requests)}
      /\ UNCHANGED <<orders, nextOrderId, position, fault, requests, responses, answer, live,
                     cumulative, userEvents, exchange, lost, terminated>>
  BY DEF GatewaySends, engineVars, adapterVars, lossVars
<1>. DEFINE r == Head(requests)
<1>2. r \in In(requests) /\ r \in Request
  BY <1>1, HeadTaken DEF TypeOK
<1>. HIDE DEF r
<1>3. r.type = "NEW" => r.qty >= 1 /\ r.id \notin DOMAIN exchange /\ r.id \notin lost
  BY <1>1, <1>2 DEF RequestsInv
<1>4. answer = "none"
  BY <1>1 DEF CallInv
<1>5. TypeOK'
  BY <1>1, <1>2 DEF TypeOK, r
<1>6. (SlotsInv /\ ExposureInv /\ LiveInv /\ EventsInv /\ ResponsesInv)'
  BY <1>1 DEF SlotsInv, ExposureInv, LiveInv, EventsInv, ResponsesInv
<1>7. RequestsInv' /\ CallInv'
  BY <1>1, <1>4 DEF RequestsInv, CallInv
<1>8. WireInv'
  BY <1>1, <1>3, <1>4 DEF WireInv, r
<1>9. ExchangeInv' /\ CloseInv'
  <2>1. \A id : Asked(id)' = Asked(id) /\ MayExecute(id)' = MayExecute(id)
                /\ Unread(id)' = Unread(id) /\ Unbooked(id)' = Unbooked(id) /\ AtWork(id)' = AtWork(id)
    BY <1>1 DEF Asked, MayExecute, Unread, Unbooked, AtWork
  <2>. QED BY <1>1, <2>1 DEF ExchangeInv, CloseInv, Engine!CloseableQty
<1>10. FillsReconcile'
  <2>1. \A id \in Ids : Booked(id)' <=> Booked(id)
    BY <1>1 DEF Booked, FillUnderWay
  <2>. QED BY <1>1, <2>1, BooksNothing
<1>. QED BY <1>1, <1>5, <1>6, <1>7, <1>8, <1>9, <1>10
-----------------------------------------------------------------------------
(***************************************************************************)
(* A decision.                                                             *)
(***************************************************************************)

\* Nothing but the slots and the requests changes.
Asks(q) ==
    /\ requests' = Append(requests, q)
    /\ UNCHANGED <<position, fault, responses, calling, answer, live, cumulative, userEvents,
                   wire, exchange, lost>>

LEMMA AsksKeeps ==
    ASSUME TypeOK, CallInv, NEW q \in Request, Asks(q)
    PROVE  /\ In(requests') = In(requests) \cup {q} /\ requests' \in Seq(Request)
           /\ CallInv'
           /\ calling => Head(requests') = Head(requests)
           /\ \A id : /\ MayExecute(id)' <=> MayExecute(id)
                      /\ Asked(id)' <=> (Asked(id) \/ (q.type = "NEW" /\ q.id = id))
                      /\ Unread(id)' <=> Unread(id)
                      /\ Unbooked(id)' <=> Unbooked(id)
                      /\ AtWork(id)' <=> AtWork(id)
           /\ FillsReconcile => FillsReconcile'
<1>1. /\ requests' = Append(requests, q) /\ requests \in Seq(Request)
      /\ UNCHANGED <<position, fault, responses, calling, answer, live, cumulative, userEvents,
                     wire, exchange, lost>>
  BY DEF Asks, TypeOK
<1>2. /\ In(requests') = In(requests) \cup {q} /\ requests' \in Seq(Request)
  BY <1>1, RequestAppended
<1>3. calling => Head(requests') = Head(requests) /\ requests' # << >>
  BY <1>1 DEF CallInv
<1>4. \A id : Unread(id)' <=> Unread(id)
  BY <1>1 DEF Unread
<1>5. CallInv'
  BY <1>1, <1>3, <1>4 DEF CallInv
<1>6. \A id : /\ MayExecute(id)' <=> MayExecute(id)
              /\ Asked(id)' <=> (Asked(id) \/ (q.type = "NEW" /\ q.id = id))
              /\ Unbooked(id)' <=> Unbooked(id)
              /\ AtWork(id)' <=> AtWork(id)
  BY <1>1, <1>2, <1>4 DEF MayExecute, Asked, Unbooked, AtWork
<1>7. \A id \in Ids : Booked(id)' <=> Booked(id)
  BY <1>1 DEF Booked, FillUnderWay
<1>8. FillsReconcile => FillsReconcile'
  BY <1>1, <1>7, BooksNothing
<1>. QED BY <1>2, <1>3, <1>4, <1>5, <1>6, <1>8

\* What may be closed of a holding; CloseInv after a step.
Held(p, offset) ==
    IF offset = "CLOSE_TODAY" THEN p.today
    ELSE IF offset = "CLOSE_YESTERDAY" THEN p.yesterday ELSE 0

LEMMA ClosesAfter ==
    ASSUME \A s \in Sides : \A id :
               id = orders'[s].id /\ (Asked(id)' \/ MayExecute(id)') /\ orders'[s].offset # "OPEN" =>
                   /\ Sign(s) * position'.net < 0
                   /\ orders'[s].qty <= Held(position', orders'[s].offset)
    PROVE  CloseInv'
<1>1. \A offset : Engine!CloseableQty(offset)' = Held(position', offset)
  BY DEF Engine!CloseableQty, Held
<1>2. \A s : Sign(s)' = Sign(s)
  BY DEF Sign, Engine!Sign
<1>3. ASSUME NEW s \in Sides
      PROVE  (LET o == orders[s]
              IN  (Asked(o.id) \/ MayExecute(o.id)) /\ o.offset # "OPEN" =>
                      /\ Sign(s) * position.net < 0
                      /\ o.qty <= Engine!CloseableQty(o.offset))'
  <2>. DEFINE id == orders'[s].id
  <2>1. (Asked(orders[s].id))' <=> \E n : n = id /\ Asked(n)'
    BY DEF Asked
  <2>2. (MayExecute(orders[s].id))' <=> \E n : n = id /\ MayExecute(n)'
    BY DEF MayExecute, AtWork, Unread, Unbooked
  <2>. QED BY <1>1, <1>2, <2>1, <2>2
<1>. QED BY <1>3 DEF CloseInv

LEMMA Closes ==
    ASSUME position' = position,
           \A s \in Sides : \A id :
               id = orders'[s].id /\ (Asked(id)' \/ MayExecute(id)') /\ orders'[s].offset # "OPEN" =>
                   /\ Sign(s) * position.net < 0
                   /\ orders'[s].qty <= Engine!CloseableQty(orders'[s].offset)
    PROVE  CloseInv'
<1>1. \A offset : Engine!CloseableQty(offset) = Held(position', offset)
  BY DEF Engine!CloseableQty, Held
<1>. QED BY <1>1, ClosesAfter

LEMMA FillsKeeps ==
    ASSUME PathInv, NEW side \in Sides, Fills(side), NEW q,
           q = [type |-> "NEW", id |-> nextOrderId, side |-> side,
                offset |-> orders'[side].offset, qty |-> orders'[side].qty],
           Asks(q)
    PROVE  PathInv'
<1>. DEFINE o == orders'[side]
<1>1. /\ orders[side].state \in {"INVALID", "DEAD"}
      /\ o \in Slot /\ o.id = nextOrderId /\ o.state = "PENDING_NEW" /\ o.offset \in Offsets
      /\ o.qty >= 1 /\ o.qty \in Nat
      /\ orders' = [orders EXCEPT ![side] = o]
      /\ nextOrderId' = nextOrderId + 1 /\ nextOrderId <= MaxOrders
  BY DEF Fills, Slot
<1>2. /\ nextOrderId \in OrderIds /\ orders \in [Sides -> Slot] /\ orders' \in [Sides -> Slot]
      /\ \A s \in Sides : s # side => orders'[s] = orders[s]
  <2>1. nextOrderId \in OrderIds /\ orders \in [Sides -> Slot]
    BY BinancePathAssumption DEF PathInv, TypeOK, OrderIds
  <2>. HIDE DEF o
  <2>2. orders' \in [Sides -> Slot] /\ \A s \in Sides : s # side => orders'[s] = orders[s]
    BY <1>1, <2>1
  <2>. QED BY <2>1, <2>2
<1>3. /\ q.type = "NEW" /\ q.id = nextOrderId /\ q.side = side /\ q.offset = o.offset
      /\ q.qty = o.qty /\ q \in Request
  BY <1>1, <1>2 DEF Request
<1>. HIDE DEF o
<1>4. /\ requests' = Append(requests, q)
      /\ UNCHANGED <<position, fault, responses, calling, answer, live, cumulative, userEvents,
                     wire, exchange, lost>>
  BY DEF Asks
<1>5. /\ In(requests') = In(requests) \cup {q} /\ requests' \in Seq(Request) /\ CallInv'
      /\ calling => Head(requests') = Head(requests)
      /\ \A id : /\ MayExecute(id)' <=> MayExecute(id)
                 /\ Asked(id)' <=> (Asked(id) \/ id = nextOrderId)
                 /\ Unread(id)' <=> Unread(id)
                 /\ Unbooked(id)' <=> Unbooked(id)
                 /\ AtWork(id)' <=> AtWork(id)
      /\ FillsReconcile'
  BY <1>3, AsksKeeps DEF PathInv
<1>6. /\ \A r \in In(requests) \cup In(responses) \cup wire : r.id < nextOrderId /\ r.id \in Nat
      /\ \A id \in DOMAIN exchange \cup lost : id < nextOrderId /\ id \in Nat
      /\ DOMAIN live \subseteq DOMAIN exchange
      /\ \A s \in Sides : orders[s].id < nextOrderId /\ orders[s].id \in Nat
  <2>1. \A r \in In(requests) \cup In(responses) \cup wire : r.id < nextOrderId /\ r.id \in Nat
    BY Typed DEF PathInv, TypeOK, OrderIds
  <2>3. \A id \in DOMAIN exchange \cup lost : id < nextOrderId /\ id \in Nat
    BY <1>2 DEF PathInv, TypeOK, OrderIds
  <2>4. \A s \in Sides : orders[s].id < nextOrderId /\ orders[s].id \in Nat
    BY Typed DEF PathInv, SlotsInv
  <2>5. DOMAIN live \subseteq DOMAIN exchange
    BY DEF PathInv, TypeOK
  <2>. QED BY <2>1, <2>3, <2>4, <2>5
\* Whatever may execute is in the other slot.
<1>7. /\ \A r \in In(requests) : r.type = "NEW" => r.side # side
      /\ \A id \in DOMAIN exchange : MayExecute(id) => exchange[id].side # side
  <2>1. \A r \in In(requests) : r.type = "NEW" => r.side # side
    BY <1>1 DEF PathInv, RequestsInv
  <2>2. ASSUME NEW id \in DOMAIN exchange, MayExecute(id), exchange[id].side = side PROVE FALSE
    <3>1. orders[side].id = id /\ orders[side].state # "DEAD"
      BY <2>2 DEF PathInv, ExchangeInv
    <3>2. orders[side].id = 0
      BY <1>1, <3>1 DEF PathInv, SlotsInv
    <3>. QED BY <2>2, <3>1, <3>2, Typed DEF PathInv, OrderIds
  <2>. QED BY <2>1, <2>2
<1>8. TypeOK'
  <2>1. nextOrderId' \in 1 .. MaxOrders + 1
    BY <1>1, <1>2, BinancePathAssumption DEF OrderIds
  <2>2. \A r \in In(requests') \cup In(responses) \cup wire : r.id < nextOrderId'
    BY <1>1, <1>2, <1>3, <1>5, <1>6 DEF OrderIds
  <2>3. DOMAIN exchange \subseteq 1 .. nextOrderId' - 1 /\ lost \subseteq 1 .. nextOrderId' - 1
    BY <1>1, <1>2 DEF PathInv, TypeOK, OrderIds
  <2>. QED BY <1>2, <1>4, <1>5, <2>1, <2>2, <2>3 DEF PathInv, TypeOK
<1>9. SlotsInv'
  <2>1. \A s \in Sides : /\ orders'[s].id < nextOrderId'
                         /\ orders'[s].state = "INVALID" <=> orders'[s].id = 0
                         /\ orders'[s].id # 0 => orders'[s].offset \in Offsets
    <3>1. ASSUME NEW s \in Sides, s # side
          PROVE  /\ orders'[s].id < nextOrderId'
                 /\ orders'[s].state = "INVALID" <=> orders'[s].id = 0
                 /\ orders'[s].id # 0 => orders'[s].offset \in Offsets
      <4>1. orders'[s] = orders[s] /\ orders[s].id < nextOrderId' /\ nextOrderId \in Nat
        BY <1>1, <1>2, <1>6, <3>1 DEF OrderIds
      <4>. QED BY <4>1 DEF PathInv, SlotsInv
    <3>2. /\ orders'[side].id = nextOrderId /\ nextOrderId < nextOrderId' /\ nextOrderId # 0
          /\ orders'[side].state = "PENDING_NEW" /\ orders'[side].offset \in Offsets
      BY <1>1, <1>2 DEF o, OrderIds
    <3>. QED BY <3>1, <3>2
  <2>2. \A s \in Sides : s # side => orders'[s].id # orders'[side].id
    BY <1>1, <1>2, <1>6 DEF o
  <2>3. orders'["BUY"].id # orders'["SELL"].id
    BY <2>2, SideFacts
  <2>4. ASSUME NEW id \in Nat, id < nextOrderId, NEW s \in Sides, id # orders[s].id
        PROVE  id # orders'[s].id
    BY <1>1, <1>2, <2>4 DEF o
  <2>5. \A r \in In(requests) \cup In(responses) : r.id # orders'[Opposite(r.side)].id
    <3>. SUFFICES ASSUME NEW r \in In(requests) \cup In(responses)
                  PROVE  r.id # orders'[Opposite(r.side)].id
      OBVIOUS
    <3>1. r.side \in Sides /\ r.id \in Nat /\ r.id < nextOrderId
      BY Typed, <1>6 DEF PathInv, OrderIds
    <3>2. r.id # orders[Opposite(r.side)].id /\ Opposite(r.side) \in Sides
      BY <3>1, SideFacts DEF PathInv, SlotsInv
    <3>. QED BY <2>4, <3>1, <3>2
  <2>6. q.id # orders'[Opposite(q.side)].id
    BY <1>1, <1>3, <2>2, SideFacts DEF o
  <2>7. \A id \in DOMAIN exchange \ lost : id # orders'[Opposite(exchange[id].side)].id
    <3>. SUFFICES ASSUME NEW id \in DOMAIN exchange \ lost
                  PROVE  id # orders'[Opposite(exchange[id].side)].id
      OBVIOUS
    <3>1. exchange[id].side \in Sides /\ id \in Nat /\ id < nextOrderId
      BY Typed, <1>6 DEF PathInv
    <3>2. id # orders[Opposite(exchange[id].side)].id /\ Opposite(exchange[id].side) \in Sides
      BY <3>1, SideFacts DEF PathInv, SlotsInv
    <3>. QED BY <2>4, <3>1, <3>2
  <2>. QED BY <1>4, <1>5, <2>1, <2>3, <2>5, <2>6, <2>7 DEF SlotsInv
<1>10. ExposureInv'
  <2>. SUFFICES ASSUME MaxPosition # QtyInvalid
                PROVE  /\ -MaxPosition <= position.net /\ position.net <= MaxPosition
                       /\ orders'["BUY"].id # 0 => position.net + orders'["BUY"].qty <= MaxPosition
                       /\ orders'["SELL"].id # 0 => position.net - orders'["SELL"].qty >= -MaxPosition
                       /\ OrderQty <= MaxPosition
    BY <1>4 DEF ExposureInv
  <2>1. /\ -MaxPosition <= position.net /\ position.net <= MaxPosition
        /\ orders["BUY"].id # 0 => position.net + orders["BUY"].qty <= MaxPosition
        /\ orders["SELL"].id # 0 => position.net - orders["SELL"].qty >= -MaxPosition
        /\ position.net # 0 => OrderQty <= MaxPosition
    BY DEF PathInv, ExposureInv
  <2>2. position.net \in Int /\ OrderQty \in Nat /\ MaxPosition \in Nat /\ Sign(side) \in {1, -1}
    BY BinancePathAssumption, SideFacts DEF PathInv, TypeOK
  <2>3. \/ /\ o.qty = OrderQty
           /\ position.net + Sign(side) * OrderQty <= MaxPosition
           /\ position.net + Sign(side) * OrderQty >= -MaxPosition
        \/ Sign(side) * position.net < 0 /\ o.qty <= OrderQty
    BY DEF Fills, o
  <2>4. OrderQty <= MaxPosition
    <3>1. CASE Sign(side) = 1
      BY ONLY <2>1, <2>2, <2>3, <3>1
    <3>2. CASE Sign(side) = -1
      BY ONLY <2>1, <2>2, <2>3, <3>2
    <3>. QED BY <2>2, <3>1, <3>2
  <2>5. side = "BUY" => position.net + o.qty <= MaxPosition
    <3>1. side = "BUY" => Sign(side) = 1
      BY SideFacts
    <3>. QED BY ONLY <1>1, <2>1, <2>2, <2>3, <2>4, <3>1
  <2>6. side = "SELL" => position.net - o.qty >= -MaxPosition
    <3>1. side = "SELL" => Sign(side) = -1
      BY SideFacts
    <3>. QED BY ONLY <1>1, <2>1, <2>2, <2>3, <2>4, <3>1
  <2>7. orders'["BUY"] = IF side = "BUY" THEN o ELSE orders["BUY"]
    BY <1>2, SideFacts DEF o
  <2>8. orders'["SELL"] = IF side = "SELL" THEN o ELSE orders["SELL"]
    BY <1>2, SideFacts DEF o
  <2>. QED BY <2>1, <2>4, <2>5, <2>6, <2>7, <2>8
<1>11. RequestsInv'
  <2>1. ASSUME NEW r \in In(requests'), r.type = "NEW"
        PROVE  /\ LET x == orders'[r.side]
                  IN  /\ x.id = r.id /\ x.offset = r.offset /\ x.qty = r.qty
                      /\ x.state = "PENDING_NEW"
               /\ r.qty >= 1 /\ r.id \notin lost /\ r.id \notin DOMAIN live
               /\ \A s \in In(responses) : s.id # r.id
               /\ r.id \in DOMAIN exchange => calling /\ r = Head(requests') /\ answer = "ok"
    <3>1. CASE r \in In(requests)
      <4>1. r.side # side /\ r.side \in Sides
        BY <1>7, <2>1, <3>1, Typed DEF PathInv
      <4>. QED BY <1>2, <1>5, <2>1, <3>1, <4>1 DEF PathInv, RequestsInv
    <3>2. CASE r = q
      <4>1. r.id \notin lost /\ r.id \notin DOMAIN exchange /\ r.id \notin DOMAIN live
            /\ \A s \in In(responses) : s.id # r.id
        BY <1>2, <1>3, <1>6, <3>2 DEF OrderIds
      <4>. QED BY <1>1, <1>3, <3>2, <4>1 DEF o
    <3>. QED BY <1>5, <2>1, <3>1, <3>2
  <2>2. ASSUME NEW i \in DOMAIN requests', NEW j \in DOMAIN requests', i # j,
               requests'[i].type = "NEW"
        PROVE  requests'[i].id # requests'[j].id
    <3>. DEFINE n == Len(requests) + 1
    <3>1. /\ DOMAIN requests' = DOMAIN requests \cup {n} /\ n \notin DOMAIN requests
          /\ requests'[n] = q /\ \A k \in DOMAIN requests : requests'[k] = requests[k]
      BY <1>3, <1>4, RequestAppended DEF PathInv, TypeOK
    <3>. HIDE DEF n
    <3>2. \A k \in DOMAIN requests : requests[k].id < nextOrderId /\ requests[k].id \in Nat
      BY <1>6 DEF In
    <3>3. CASE i \in DOMAIN requests /\ j \in DOMAIN requests
      BY <2>2, <3>1, <3>3 DEF PathInv, RequestsInv
    <3>4. CASE i = n \/ j = n
      BY <1>2, <1>3, <2>2, <3>1, <3>2, <3>4 DEF OrderIds
    <3>. QED BY <3>1, <3>3, <3>4
  <2>. QED BY <1>4, <2>1, <2>2 DEF RequestsInv
<1>12. WireInv'
  BY <1>4, <1>5 DEF PathInv, WireInv
<1>13. ExchangeInv'
  <2>1. ASSUME NEW id \in DOMAIN exchange, MayExecute(id)
        PROVE  orders'[exchange[id].side] = orders[exchange[id].side]
    BY <1>2, <1>7, <2>1, Typed DEF PathInv
  <2>2. \A id : Asked(id) => Asked(id)'
    BY <1>5
  <2>. QED BY <1>4, <1>5, <2>1, <2>2 DEF PathInv, ExchangeInv
<1>14. LiveInv'
  <2>1. ASSUME NEW id \in DOMAIN live, orders'[live[id].side].id = id
        PROVE  orders'[live[id].side] = orders[live[id].side]
    <3>1. live[id].side \in Sides /\ id < nextOrderId /\ id \in Nat
      BY <1>6, Typed DEF PathInv
    <3>. QED BY <1>1, <1>2, <2>1, <3>1 DEF o
  <2>. QED BY <1>4, <2>1 DEF PathInv, LiveInv
<1>15. EventsInv'
  BY <1>4 DEF PathInv, EventsInv
<1>16. ResponsesInv'
  <2>1. ASSUME NEW r \in In(responses), r.type = "FILLED"
        PROVE  orders'[r.side] = orders[r.side]
    <3>1. MayExecute(r.id) /\ exchange[r.id].side = r.side /\ r.id \in DOMAIN exchange
      BY <2>1 DEF PathInv, ResponsesInv, MayExecute, Unbooked
    <3>. QED BY <1>2, <1>7, <3>1, Typed DEF PathInv
  <2>. QED BY <1>4, <2>1 DEF PathInv, ResponsesInv
<1>17. CloseInv'
  <2>1. ASSUME NEW s \in Sides, NEW id, id = orders'[s].id,
               Asked(id) \/ id = nextOrderId \/ MayExecute(id),
               orders'[s].offset # "OPEN"
        PROVE  /\ Sign(s) * position.net < 0
               /\ orders'[s].qty <= Engine!CloseableQty(orders'[s].offset)
    <3>1. CASE s = side
      BY <2>1, <3>1 DEF Fills
    <3>2. CASE s # side
      <4>1. orders'[s] = orders[s] /\ orders[s].id # nextOrderId
        BY <1>2, <1>6, <3>2
      <4>2. Asked(orders[s].id) \/ MayExecute(orders[s].id)
        BY <2>1, <4>1
      <4>. QED BY <2>1, <4>1, <4>2 DEF PathInv, CloseInv
    <3>. QED BY <3>1, <3>2
  <2>. QED BY <2>1, <1>4, <1>5, Closes
<1>. QED BY <1>4, <1>5, <1>8, <1>9, <1>10, <1>11, <1>12, <1>13, <1>14, <1>15, <1>16, <1>17
         DEF PathInv

LEMMA CancelsKeeps ==
    ASSUME PathInv, NEW side \in Sides, Cancels(side), NEW q,
           q = [type |-> "CANCEL", id |-> orders[side].id, side |-> side,
                offset |-> orders[side].offset, qty |-> orders[side].qty],
           Asks(q)
    PROVE  PathInv'
<1>1. /\ orders[side].state = "LIVE" /\ nextOrderId' = nextOrderId
      /\ orders \in [Sides -> Slot] /\ orders' = [orders EXCEPT ![side].state = "PENDING_CANCEL"]
  BY DEF Cancels, PathInv, TypeOK
<1>2. /\ \A s \in Sides : /\ orders'[s].id = orders[s].id /\ orders'[s].qty = orders[s].qty
                          /\ orders'[s].offset = orders[s].offset
                          /\ s # side => orders'[s] = orders[s]
      /\ orders'[side].state = "PENDING_CANCEL"
  BY <1>1 DEF Slot
<1>3. orders' \in [Sides -> Slot]
  BY <1>1 DEF Slot
<1>4. /\ orders[side].id \in OrderIds /\ orders[side].id < nextOrderId
      /\ orders[side].offset \in Offsets
  <2>1. orders[side].id # 0
    BY <1>1 DEF PathInv, SlotsInv
  <2>. QED BY <2>1, Typed DEF PathInv, SlotsInv, OrderIds
<1>5. /\ q.type = "CANCEL" /\ q.id = orders[side].id /\ q.side = side /\ q \in Request
  BY <1>4, Typed DEF PathInv, Request
<1>6. /\ requests' = Append(requests, q)
      /\ UNCHANGED <<position, fault, responses, calling, answer, live, cumulative, userEvents,
                     wire, exchange, lost>>
  BY DEF Asks
<1>7. /\ In(requests') = In(requests) \cup {q} /\ requests' \in Seq(Request) /\ CallInv'
      /\ calling => Head(requests') = Head(requests)
      /\ \A id : /\ MayExecute(id)' <=> MayExecute(id)
                 /\ Asked(id)' <=> Asked(id)
                 /\ Unread(id)' <=> Unread(id)
                 /\ Unbooked(id)' <=> Unbooked(id)
                 /\ AtWork(id)' <=> AtWork(id)
      /\ FillsReconcile'
  BY <1>5, AsksKeeps DEF PathInv
<1>8. TypeOK'
  <2>1. \A r \in In(requests') \cup In(responses) \cup wire : r.id < nextOrderId
    BY <1>4, <1>5, <1>7 DEF PathInv, TypeOK
  <2>. QED BY <1>1, <1>3, <1>6, <1>7, <2>1 DEF PathInv, TypeOK
\* A new order that is asked for is in the other slot.
<1>9. \A r \in In(requests) : r.type = "NEW" => r.side # side /\ r.id # orders[side].id
  <2>. SUFFICES ASSUME NEW r \in In(requests), r.type = "NEW"
                PROVE  r.side # side /\ r.id # orders[side].id
    OBVIOUS
  <2>1. orders[r.side].state = "PENDING_NEW" /\ orders[r.side].id = r.id /\ r.side \in Sides
    BY Typed DEF PathInv, RequestsInv
  <2>2. r.side # side
    BY <1>1, <2>1
  <2>3. orders[r.side].id # orders[side].id
    BY <1>4, <2>1, <2>2, SideFacts DEF PathInv, SlotsInv, OrderIds
  <2>. QED BY <2>1, <2>2, <2>3
<1>10. SlotsInv'
  <2>1. \A s \in Sides : /\ orders'[s].id < nextOrderId
                         /\ orders'[s].state = "INVALID" <=> orders'[s].id = 0
                         /\ orders'[s].id # 0 => orders'[s].offset \in Offsets
    <3>1. orders[side].id # 0
      BY <1>4 DEF OrderIds
    <3>. QED BY <1>2, <3>1 DEF PathInv, SlotsInv
  <2>2. \A r \in In(requests) \cup In(responses) : r.id # orders'[Opposite(r.side)].id
    BY <1>2, Typed, SideFacts DEF PathInv, SlotsInv
  <2>3. q.id # orders'[Opposite(q.side)].id
    BY <1>2, <1>4, <1>5, SideFacts DEF PathInv, SlotsInv, OrderIds
  <2>4. \A id \in DOMAIN exchange \ lost : id # orders'[Opposite(exchange[id].side)].id
    BY <1>2, Typed, SideFacts DEF PathInv, SlotsInv
  <2>5. orders'["BUY"].id = orders'["SELL"].id => orders'["BUY"].id = 0
    BY <1>2, SideFacts DEF PathInv, SlotsInv
  <2>. QED BY <1>1, <1>6, <1>7, <2>1, <2>2, <2>3, <2>4, <2>5 DEF SlotsInv
<1>11. ExposureInv'
  BY <1>2, <1>6, SideFacts DEF PathInv, ExposureInv
<1>12. RequestsInv'
  <2>1. ASSUME NEW r \in In(requests'), r.type = "NEW"
        PROVE  /\ LET x == orders'[r.side]
                  IN  /\ x.id = r.id /\ x.offset = r.offset /\ x.qty = r.qty
                      /\ x.state = "PENDING_NEW"
               /\ r.qty >= 1 /\ r.id \notin lost /\ r.id \notin DOMAIN live
               /\ \A s \in In(responses) : s.id # r.id
               /\ r.id \in DOMAIN exchange => calling /\ r = Head(requests') /\ answer = "ok"
    <3>1. r \in In(requests) /\ r.side # side /\ r.side \in Sides
      BY <1>5, <1>7, <1>9, <2>1, Typed DEF PathInv
    <3>. QED BY <1>2, <1>7, <2>1, <3>1 DEF PathInv, RequestsInv
  <2>2. ASSUME NEW i \in DOMAIN requests', NEW j \in DOMAIN requests', i # j,
               requests'[i].type = "NEW"
        PROVE  requests'[i].id # requests'[j].id
    <3>. DEFINE n == Len(requests) + 1
    <3>1. /\ DOMAIN requests' = DOMAIN requests \cup {n} /\ n \notin DOMAIN requests
          /\ requests'[n] = q /\ \A k \in DOMAIN requests : requests'[k] = requests[k]
      BY <1>5, <1>6, RequestAppended DEF PathInv, TypeOK
    <3>. HIDE DEF n
    <3>2. i \in DOMAIN requests /\ requests[i].id # q.id
      BY <1>5, <1>9, <2>2, <3>1 DEF In
    <3>. QED BY <2>2, <3>1, <3>2 DEF PathInv, RequestsInv
  <2>. QED BY <1>6, <2>1, <2>2 DEF RequestsInv
<1>13. WireInv'
  BY <1>6, <1>7 DEF PathInv, WireInv
<1>14. ExchangeInv'
  <2>1. \A id \in DOMAIN exchange :
            MayExecute(id) => /\ orders'[exchange[id].side].id = id
                              /\ orders'[exchange[id].side].state # "DEAD"
                              /\ orders'[exchange[id].side].qty = exchange[id].qty
    BY <1>2, Typed DEF PathInv, ExchangeInv
  <2>. QED BY <1>6, <1>7, <2>1 DEF PathInv, ExchangeInv
<1>15. LiveInv'
  <2>1. \A id \in DOMAIN live : live[id].side \in Sides
    BY Typed DEF PathInv
  <2>. QED BY <1>2, <1>6, <2>1 DEF PathInv, LiveInv
<1>16. EventsInv'
  BY <1>6 DEF PathInv, EventsInv
<1>17. ResponsesInv'
  <2>1. \A r \in In(responses) : r.side \in Sides
    BY Typed DEF PathInv
  <2>. QED BY <1>2, <1>6, <2>1 DEF PathInv, ResponsesInv
<1>18. CloseInv'
  <2>1. ASSUME NEW s \in Sides, NEW id, id = orders'[s].id, Asked(id) \/ MayExecute(id),
               orders'[s].offset # "OPEN"
        PROVE  /\ Sign(s) * position.net < 0
               /\ orders'[s].qty <= Engine!CloseableQty(orders'[s].offset)
    BY <1>2, <2>1 DEF PathInv, CloseInv
  <2>. QED BY <2>1, <1>6, <1>7, Closes
<1>. QED BY <1>6, <1>7, <1>8, <1>10, <1>11, <1>12, <1>13, <1>14, <1>15, <1>16, <1>17, <1>18
         DEF PathInv

LEMMA DecidesKeep ==
    ASSUME PathInv, EngineDecides
    PROVE  PathInv'
<1>1. PICK side \in Sides : Fills(side) \/ Cancels(side)
  BY Decided DEF PathInv, EngineDecides
<1>2. UNCHANGED <<position, fault>>
  BY Decided DEF PathInv, EngineDecides
<1>3. PICK s \in Sides : orders'[s] # orders[s] /\ requests' = Append(requests, RequestFor(s))
  BY SideFacts DEF EngineDecides
<1>4. s = side
  BY <1>1, <1>3 DEF Fills, Cancels, PathInv, TypeOK
<1>5. Asks(RequestFor(side))
  BY <1>2, <1>3, <1>4 DEF Asks, EngineDecides, callVars, adapterVars, exchangeVars, lossVars
<1>6. CASE Fills(side)
  <2>1. orders'[side].state = "PENDING_NEW" /\ orders'[side].id = nextOrderId
    BY <1>6 DEF Fills
  <2>2. RequestFor(side) = [type |-> "NEW", id |-> nextOrderId, side |-> side,
                            offset |-> orders'[side].offset, qty |-> orders'[side].qty]
    BY <2>1 DEF RequestFor
  <2>. QED BY <1>5, <1>6, <2>2, FillsKeeps
<1>7. CASE Cancels(side)
  <2>1. /\ orders'[side].state = "PENDING_CANCEL" /\ orders'[side].id = orders[side].id
        /\ orders'[side].offset = orders[side].offset /\ orders'[side].qty = orders[side].qty
    BY <1>7 DEF Cancels, PathInv, TypeOK, Slot
  <2>2. RequestFor(side) = [type |-> "CANCEL", id |-> orders[side].id, side |-> side,
                            offset |-> orders[side].offset, qty |-> orders[side].qty]
    BY <2>1 DEF RequestFor
  <2>. QED BY <1>5, <1>7, <2>2, CancelsKeeps
<1>. QED BY <1>1, <1>6, <1>7
-----------------------------------------------------------------------------
(***************************************************************************)
(* A response.                                                             *)
(***************************************************************************)
LEMMA ResponseTaken ==
    ASSUME PathInv, EngineReceives, NEW r, r = Head(responses)
    PROVE  /\ r \in In(responses) /\ r \in ResponseSet
           /\ In(responses) = {r} \cup In(responses') /\ responses' \in Seq(ResponseSet)
           /\ UNCHANGED <<nextOrderId, requests, calling, answer, live, cumulative, userEvents,
                          wire, exchange, lost>>
           /\ ~ fault'
           /\ position' = IF r.type = "FILLED" THEN Engine!OnFill(position, r) ELSE position
           /\ orders' = IF orders[r.side].id = r.id
                        THEN [orders EXCEPT ![r.side] = Engine!Updated(@, r)] ELSE orders
           /\ \A id : /\ Asked(id)' <=> Asked(id)
                      /\ Unread(id)' <=> Unread(id)
                      /\ AtWork(id)' <=> AtWork(id)
                      /\ Unbooked(id) <=> (Unbooked(id)' \/ (r.id = id /\ r.type = "FILLED"))
                      /\ r.type = "FILLED" => ~ Unbooked(r.id)'
<1>1. /\ ~ fault /\ responses # << >> /\ responses' = Tail(responses)
      /\ responses \in Seq(ResponseSet) /\ ~ SimexConstraints
      /\ Engine!HandleClientResponse(r)
      /\ UNCHANGED <<requests, calling, answer, live, cumulative, userEvents, wire, exchange, lost>>
  BY BinancePathAssumption DEF EngineReceives, PathInv, TypeOK, callVars, adapterVars,
                               exchangeVars, lossVars
<1>2. /\ r \in In(responses) /\ r \in ResponseSet
      /\ In(responses) = {r} \cup In(responses') /\ responses' \in Seq(ResponseSet)
      /\ 1 \in DOMAIN responses /\ r = responses[1]
      /\ \A i \in DOMAIN responses' : /\ i + 1 \in DOMAIN responses /\ i + 1 # 1
                                      /\ responses'[i] = responses[i + 1]
  BY <1>1, HeadTaken
<1>3. /\ fault' = FALSE /\ nextOrderId' = nextOrderId
      /\ position' = IF r.type = "FILLED" THEN Engine!OnFill(position, r) ELSE position
      /\ orders' = Engine!OnOrderUpdate(r)
  BY <1>1 DEF Engine!HandleClientResponse
<1>4. \A id : /\ Asked(id)' <=> Asked(id)
              /\ Unread(id)' <=> Unread(id)
              /\ AtWork(id)' <=> AtWork(id)
              /\ Unbooked(id) <=> (Unbooked(id)' \/ (r.id = id /\ r.type = "FILLED"))
  BY <1>1, <1>2 DEF Asked, Unread, AtWork, Unbooked
<1>5. r.type = "FILLED" => ~ Unbooked(r.id)'
  <2>. SUFFICES ASSUME r.type = "FILLED", Unbooked(r.id)' PROVE FALSE
    OBVIOUS
  <2>1. PICK i \in DOMAIN responses' : responses'[i].id = r.id /\ responses'[i].type = "FILLED"
    BY DEF Unbooked, In
  <2>2. /\ i + 1 \in DOMAIN responses /\ i + 1 # 1 /\ responses[i + 1].id = responses[1].id
        /\ responses[i + 1].type = "FILLED" /\ responses[1].type = "FILLED"
    BY <1>2, <2>1
  <2>. QED BY <1>2, <2>2 DEF PathInv, ResponsesInv
<1>. QED BY <1>1, <1>2, <1>3, <1>4, <1>5 DEF Engine!OnOrderUpdate

\* What a response leaves as it is.
LEMMA ResponseLeaves ==
    ASSUME PathInv, EngineReceives, NEW r, r = Head(responses)
    PROVE  /\ \A s \in Sides : /\ orders'[s].id = orders[s].id
                               /\ orders'[s].offset = orders[s].offset
                               /\ orders[s].id # r.id \/ s # r.side => orders'[s] = orders[s]
           /\ orders' \in [Sides -> Slot]
           /\ SlotsInv' /\ RequestsInv' /\ CallInv' /\ WireInv' /\ LiveInv' /\ EventsInv'
           /\ ResponsesInv'
<1>1. /\ r \in In(responses) /\ r \in ResponseSet
      /\ In(responses) = {r} \cup In(responses') /\ responses' \in Seq(ResponseSet)
      /\ UNCHANGED <<nextOrderId, requests, calling, answer, live, cumulative, userEvents,
                     wire, exchange, lost>>
      /\ orders' = IF orders[r.side].id = r.id
                   THEN [orders EXCEPT ![r.side] = Engine!Updated(@, r)] ELSE orders
      /\ \A id : Unread(id)' <=> Unread(id)
  BY ResponseTaken
<1>2. /\ orders \in [Sides -> Slot] /\ r.side \in Sides /\ r.id \in OrderIds
      /\ r.type = "FILLED" => r.leaves = 0
  BY <1>1, Typed DEF PathInv, TypeOK, ResponsesInv
<1>3. ASSUME NEW o \in Slot
      PROVE  /\ Engine!Updated(o, r) \in Slot
             /\ Engine!Updated(o, r).id = o.id /\ Engine!Updated(o, r).offset = o.offset
             /\ o.state # "INVALID" => Engine!Updated(o, r).state # "INVALID"
  <2>1. CASE r.type = "FILLED"
    <3>1. Engine!Updated(o, r) = [o EXCEPT !.qty = 0, !.state = "DEAD"]
      BY <1>2, <2>1 DEF Engine!Updated
    <3>. DEFINE bare == [o EXCEPT !.qty = 0]
    <3>2. bare \in Slot /\ bare.id = o.id /\ bare.offset = o.offset
      BY DEF Slot
    <3>3. Engine!Updated(o, r) = [bare EXCEPT !.state = "DEAD"]
      BY <3>1
    <3>. HIDE DEF bare
    <3>. QED BY <3>2, <3>3 DEF Slot
  <2>2. CASE r.type # "FILLED"
    <3>1. \E state \in {"LIVE", "DEAD", o.state} :
              Engine!Updated(o, r) = [o EXCEPT !.state = state]
      BY <2>2 DEF Engine!Updated
    <3>. QED BY <3>1 DEF Slot
  <2>. QED BY <2>1, <2>2
<1>4. \A s \in Sides : /\ orders'[s].id = orders[s].id
                       /\ orders'[s].offset = orders[s].offset
                       /\ orders[s].id # r.id \/ s # r.side => orders'[s] = orders[s]
                       /\ orders[s].state # "INVALID" => orders'[s].state # "INVALID"
                       /\ orders'[s] \in Slot
  <2>. SUFFICES ASSUME NEW s \in Sides
                PROVE  /\ orders'[s].id = orders[s].id
                       /\ orders'[s].offset = orders[s].offset
                       /\ orders[s].id # r.id \/ s # r.side => orders'[s] = orders[s]
                       /\ orders[s].state # "INVALID" => orders'[s].state # "INVALID"
                       /\ orders'[s] \in Slot
    OBVIOUS
  <2>1. CASE orders[s].id # r.id \/ s # r.side
    BY <1>1, <1>2, <2>1
  <2>2. CASE orders[s].id = r.id /\ s = r.side
    <3>1. orders'[s] = Engine!Updated(orders[s], r)
      BY <1>1, <1>2, <2>2
    <3>. QED BY <1>2, <1>3, <2>2, <3>1
  <2>. QED BY <2>1, <2>2
<1>5. orders' \in [Sides -> Slot]
  BY <1>1, <1>2, <1>4
<1>6. SlotsInv'
  <2>1. \A s \in Sides : /\ orders'[s].id < nextOrderId
                         /\ orders'[s].state = "INVALID" <=> orders'[s].id = 0
                         /\ orders'[s].id # 0 => orders'[s].offset \in Offsets
    <3>. SUFFICES ASSUME NEW s \in Sides
                  PROVE  /\ orders'[s].id < nextOrderId
                         /\ orders'[s].state = "INVALID" <=> orders'[s].id = 0
                         /\ orders'[s].id # 0 => orders'[s].offset \in Offsets
      OBVIOUS
    <3>1. CASE orders[s].id # r.id
      BY <1>4, <3>1 DEF PathInv, SlotsInv
    <3>2. CASE orders[s].id = r.id
      BY <1>2, <1>4, <3>2 DEF PathInv, SlotsInv, OrderIds
    <3>. QED BY <3>1, <3>2
  <2>2. \A q \in In(requests) \cup In(responses') : q.id # orders'[Opposite(q.side)].id
    BY <1>1, <1>4, Typed, SideFacts DEF PathInv, SlotsInv
  <2>3. \A id \in DOMAIN exchange \ lost : id # orders'[Opposite(exchange[id].side)].id
    BY <1>4, Typed, SideFacts DEF PathInv, SlotsInv
  <2>4. orders'["BUY"].id = orders'["SELL"].id => orders'["BUY"].id = 0
    BY <1>4, SideFacts DEF PathInv, SlotsInv
  <2>. QED BY <1>1, <2>1, <2>2, <2>3, <2>4 DEF SlotsInv
<1>7. RequestsInv'
  <2>1. ASSUME NEW q \in In(requests), q.type = "NEW"
        PROVE  orders'[q.side] = orders[q.side]
    <3>1. orders[q.side].id = q.id /\ q.id # r.id /\ q.side \in Sides
      BY <1>1, <2>1, Typed DEF PathInv, RequestsInv
    <3>. QED BY <1>4, <3>1
  <2>. QED BY <1>1, <2>1 DEF PathInv, RequestsInv
<1>8. CallInv' /\ WireInv' /\ EventsInv'
  BY <1>1 DEF PathInv, CallInv, WireInv, EventsInv
<1>9. LiveInv'
  <2>1. \A id \in DOMAIN live : live[id].side \in Sides
    BY Typed DEF PathInv
  <2>. QED BY <1>1, <1>4, <2>1 DEF PathInv, LiveInv
<1>10. ResponsesInv'
  <2>1. \A q \in In(responses) : q.side \in Sides
    BY Typed DEF PathInv
  <2>2. \A q \in In(responses') :
           /\ q.type = "FILLED" =>
                  /\ q.id \in DOMAIN exchange \ lost /\ q.id \notin DOMAIN live
                  /\ LET x == exchange[q.id]
                     IN  x.status = "FILLED" /\ x.side = q.side /\ x.qty = q.exec
                  /\ q.leaves = 0
                  /\ orders'[q.side].offset = q.offset
           /\ q.type = "CANCELED" =>
                  q.id \in DOMAIN exchange /\ exchange[q.id].status \in {"CANCELED", "EXPIRED"}
           /\ q.type = "REJECTED" => q.id \in lost \/ q.id \notin DOMAIN exchange
    BY <1>1, <1>4, <2>1 DEF PathInv, ResponsesInv
  <2>3. ASSUME NEW i \in DOMAIN responses', NEW j \in DOMAIN responses',
               responses'[i].id = responses'[j].id,
               responses'[i].type = "FILLED", responses'[j].type = "FILLED"
        PROVE  i = j
    <3>1. responses' = Tail(responses) /\ responses # << >> /\ responses \in Seq(ResponseSet)
      BY DEF EngineReceives, PathInv, TypeOK
    <3>2. /\ i + 1 \in DOMAIN responses /\ j + 1 \in DOMAIN responses /\ i \in Nat /\ j \in Nat
          /\ responses'[i] = responses[i + 1] /\ responses'[j] = responses[j + 1]
      BY <3>1, HeadTaken
    <3>3. i + 1 = j + 1
      BY <2>3, <3>2 DEF PathInv, ResponsesInv
    <3>. QED BY <3>2, <3>3
  <2>. QED BY <1>1, <2>2, <2>3 DEF ResponsesInv
<1>. QED BY <1>4, <1>5, <1>6, <1>7, <1>8, <1>9, <1>10

\* An order that may execute is in no other state at the exchange.
LEMMA ExecutingOrder ==
    ASSUME PathInv, NEW id, MayExecute(id)
    PROVE  /\ id \in DOMAIN exchange \ lost
           /\ exchange[id].status \in {"WORKING", "FILLED"}
           /\ exchange[id].side \in Sides
           /\ orders[exchange[id].side].id = id
           /\ orders[exchange[id].side].qty = exchange[id].qty
           /\ orders[exchange[id].side].state # "DEAD"
BY Typed DEF PathInv, MayExecute, AtWork, Unread, Unbooked, EventsInv, ResponsesInv, ExchangeInv

LEMMA OtherResponseKeeps ==
    ASSUME PathInv, EngineReceives, NEW r, r = Head(responses), r.type # "FILLED"
    PROVE  PathInv'
<1>1. /\ r \in In(responses) /\ r \in ResponseSet
      /\ In(responses) = {r} \cup In(responses') /\ responses' \in Seq(ResponseSet)
      /\ UNCHANGED <<nextOrderId, requests, calling, answer, live, cumulative, userEvents, wire,
                     exchange, lost>>
      /\ ~ fault' /\ position' = position
      /\ orders' = IF orders[r.side].id = r.id
                   THEN [orders EXCEPT ![r.side] = Engine!Updated(@, r)] ELSE orders
      /\ \A id : /\ Asked(id)' <=> Asked(id)
                 /\ Unread(id)' <=> Unread(id)
                 /\ AtWork(id)' <=> AtWork(id)
                 /\ Unbooked(id) <=> Unbooked(id)'
  BY ResponseTaken
<1>2. /\ \A s \in Sides : /\ orders'[s].id = orders[s].id
                          /\ orders'[s].offset = orders[s].offset
                          /\ orders[s].id # r.id \/ s # r.side => orders'[s] = orders[s]
      /\ orders' \in [Sides -> Slot]
      /\ SlotsInv' /\ RequestsInv' /\ CallInv' /\ WireInv' /\ LiveInv' /\ EventsInv'
      /\ ResponsesInv'
  BY ResponseLeaves
<1>3. /\ orders \in [Sides -> Slot] /\ r.side \in Sides
      /\ r.type \in {"ACCEPTED", "REJECTED", "CANCELED", "CANCEL_REJECTED"}
  BY <1>1, Typed DEF PathInv, TypeOK
<1>4. \A s \in Sides : orders'[s].qty = orders[s].qty
  BY <1>1, <1>3 DEF Engine!Updated, Slot
<1>5. \A id : MayExecute(id)' <=> MayExecute(id)
  BY <1>1 DEF MayExecute
\* What ends the order in the slot is said of an order that is over.
<1>6. ASSUME NEW id, MayExecute(id) PROVE orders'[exchange[id].side].state # "DEAD"
  <2>. DEFINE s == exchange[id].side
  <2>1. /\ id \in DOMAIN exchange \ lost /\ exchange[id].status \in {"WORKING", "FILLED"}
        /\ s \in Sides /\ orders[s].id = id /\ orders[s].state # "DEAD"
    BY <1>6, ExecutingOrder
  <2>. HIDE DEF s
  <2>2. CASE r.id # id \/ s # r.side
    BY <1>2, <2>1, <2>2 DEF s
  <2>3. CASE r.id = id /\ s = r.side
    <3>1. r.type \notin {"CANCELED", "REJECTED"}
      BY <1>1, <2>1, <2>3 DEF PathInv, ResponsesInv
    <3>2. orders'[s] = Engine!Updated(orders[s], r) /\ orders[s] \in Slot
      BY <1>1, <1>3, <2>1, <2>3
    <3>3. orders'[s].state \in {"LIVE", orders[s].state}
      BY <1>3, <3>1, <3>2 DEF Engine!Updated, Slot
    <3>. QED BY <2>1, <3>3 DEF s
  <2>. QED BY <2>2, <2>3 DEF s
<1>7. TypeOK'
  BY <1>1, <1>2 DEF PathInv, TypeOK
<1>8. ExposureInv'
  BY <1>1, <1>2, <1>4, SideFacts DEF PathInv, ExposureInv
<1>9. ExchangeInv'
  <2>1. \A id \in DOMAIN exchange :
            MayExecute(id) => /\ orders'[exchange[id].side].id = id
                              /\ orders'[exchange[id].side].state # "DEAD"
                              /\ orders'[exchange[id].side].qty = exchange[id].qty
    BY <1>2, <1>4, <1>6, Typed DEF PathInv, ExchangeInv
  <2>. QED BY <1>1, <1>5, <2>1 DEF PathInv, ExchangeInv
<1>10. CloseInv'
  <2>1. ASSUME NEW s \in Sides, NEW id, id = orders'[s].id, Asked(id) \/ MayExecute(id),
               orders'[s].offset # "OPEN"
        PROVE  /\ Sign(s) * position.net < 0
               /\ orders'[s].qty <= Engine!CloseableQty(orders'[s].offset)
    BY <1>2, <1>4, <2>1 DEF PathInv, CloseInv
  <2>. QED BY <2>1, <1>1, <1>5, Closes
<1>11. FillsReconcile'
  <2>1. \A id \in Ids : Booked(id)' <=> Booked(id)
    BY <1>1, Under DEF Booked, FillUnderWay, Unread, Unbooked, In
  <2>. QED BY <1>1, <2>1, BooksNothing DEF PathInv
<1>. QED BY <1>1, <1>2, <1>7, <1>8, <1>9, <1>10, <1>11 DEF PathInv

LEMMA FilledKeeps ==
    ASSUME PathInv, EngineReceives, NEW r, r = Head(responses), r.type = "FILLED"
    PROVE  PathInv'
<1>1. /\ r \in In(responses) /\ r \in ResponseSet
      /\ In(responses) = {r} \cup In(responses') /\ responses' \in Seq(ResponseSet)
      /\ UNCHANGED <<nextOrderId, requests, calling, answer, live, cumulative, userEvents, wire,
                     exchange, lost>>
      /\ ~ fault' /\ position' = Engine!OnFill(position, r)
      /\ orders' = IF orders[r.side].id = r.id
                   THEN [orders EXCEPT ![r.side] = Engine!Updated(@, r)] ELSE orders
      /\ \A id : /\ Asked(id)' <=> Asked(id)
                 /\ Unread(id)' <=> Unread(id)
                 /\ AtWork(id)' <=> AtWork(id)
                 /\ Unbooked(id) <=> (Unbooked(id)' \/ r.id = id)
      /\ ~ Unbooked(r.id)'
  BY ResponseTaken
<1>2. /\ \A s \in Sides : /\ orders'[s].id = orders[s].id
                          /\ orders'[s].offset = orders[s].offset
                          /\ orders[s].id # r.id \/ s # r.side => orders'[s] = orders[s]
      /\ orders' \in [Sides -> Slot]
      /\ SlotsInv' /\ RequestsInv' /\ CallInv' /\ WireInv' /\ LiveInv' /\ EventsInv'
      /\ ResponsesInv'
  BY ResponseLeaves
<1>3. /\ orders \in [Sides -> Slot] /\ r.side \in Sides /\ r.id \in OrderIds
      /\ r.offset \in Offsets /\ r.exec \in Nat /\ r.leaves = 0
      /\ r.id \in DOMAIN exchange \ lost /\ r.id \in Ids
      /\ exchange[r.id].status = "FILLED" /\ exchange[r.id].side = r.side
      /\ exchange[r.id].qty = r.exec /\ exchange[r.id].executed = r.exec
      /\ orders[r.side].offset = r.offset
  <2>1. /\ r.id \in DOMAIN exchange \ lost /\ exchange[r.id].status = "FILLED"
        /\ exchange[r.id].side = r.side /\ exchange[r.id].qty = r.exec /\ r.leaves = 0
        /\ orders[r.side].offset = r.offset
    BY <1>1 DEF PathInv, ResponsesInv
  <2>2. exchange[r.id].executed = exchange[r.id].qty
    BY <2>1 DEF PathInv, ExchangeInv
  <2>3. /\ r.side \in Sides /\ r.id \in OrderIds /\ r.offset \in Offsets /\ r.exec \in Nat
        /\ r.id \in Ids
    BY <1>1, <2>1, Typed DEF PathInv
  <2>4. orders \in [Sides -> Slot]
    BY DEF PathInv, TypeOK
  <2>. QED BY <2>1, <2>2, <2>3, <2>4
<1>4. MayExecute(r.id)
  BY <1>1, <1>3 DEF MayExecute, Unbooked
<1>5. orders[r.side].id = r.id /\ orders[r.side].qty = r.exec
  BY <1>3, <1>4, ExecutingOrder
<1>6. orders'[r.side].qty = 0 /\ \A s \in Sides : s # r.side => orders'[s] = orders[s]
  <2>1. orders'[r.side] = Engine!Updated(orders[r.side], r)
    BY <1>1, <1>3, <1>5
  <2>2. Engine!Updated(orders[r.side], r).qty = 0
    BY <1>3 DEF Engine!Updated, Slot
  <2>. QED BY <1>2, <2>1, <2>2
<1>7. /\ position.net \in Int /\ position.today \in Nat /\ position.yesterday \in Nat
      /\ position \in [net : Int, today : Nat, yesterday : Nat]
      /\ Sign(r.side) \in {1, -1}
  BY <1>3, SideFacts DEF PathInv, TypeOK
\* The execution is booked whole.
<1>8. r.offset # "OPEN" => /\ Sign(r.side) * position.net < 0
                           /\ r.exec <= Engine!CloseableQty(r.offset)
  BY <1>3, <1>4, <1>5 DEF PathInv, CloseInv
<1>9. /\ position' \in [net : Int, today : Nat, yesterday : Nat]
      /\ position'.net = position.net + Sign(r.side) * r.exec
      /\ r.offset = "OPEN" => /\ position'.today = position.today + r.exec
                              /\ position'.yesterday = position.yesterday
  <2>. DEFINE closed == Engine!Smaller(r.exec, IF r.offset = "CLOSE_TODAY" THEN position.today
                                               ELSE position.yesterday)
              moved == position.net + Sign(r.side) * r.exec
  <2>1. moved \in Int
    BY <1>3, <1>7
  <2>2. Engine!Sign(r.side) = Sign(r.side)
    BY DEF Sign
  <2>3. CASE r.offset = "OPEN"
    <3>1. position' = [position EXCEPT !.net = moved, !.today = position.today + r.exec]
      BY <1>1, <2>2, <2>3 DEF Engine!OnFill
    <3>2. position' = [net |-> moved, today |-> position.today + r.exec,
                       yesterday |-> position.yesterday]
      BY <1>7, <3>1
    <3>. QED BY <1>3, <1>7, <2>1, <3>2
  <2>4. CASE r.offset = "CLOSE_TODAY"
    <3>1. closed = r.exec /\ r.exec <= position.today
      BY <1>3, <1>7, <1>8, <2>4 DEF Engine!CloseableQty, Engine!Smaller
    <3>2. position' = [position EXCEPT !.net = moved, !.today = position.today - r.exec]
      BY <1>1, <2>2, <2>4, <3>1 DEF Engine!OnFill
    <3>3. position' = [net |-> moved, today |-> position.today - r.exec,
                       yesterday |-> position.yesterday]
      BY <1>7, <3>2
    <3>. QED BY <1>3, <1>7, <2>1, <2>4, <3>1, <3>3
  <2>5. CASE r.offset = "CLOSE_YESTERDAY"
    <3>1. closed = r.exec /\ r.exec <= position.yesterday
      BY <1>3, <1>7, <1>8, <2>5 DEF Engine!CloseableQty, Engine!Smaller
    <3>2. position' = [position EXCEPT !.net = moved, !.yesterday = position.yesterday - r.exec]
      BY <1>1, <2>2, <2>5, <3>1 DEF Engine!OnFill
    <3>3. position' = [net |-> moved, today |-> position.today,
                       yesterday |-> position.yesterday - r.exec]
      BY <1>7, <3>2
    <3>. QED BY <1>3, <1>7, <2>1, <2>5, <3>1, <3>3
  <2>. QED BY <1>3, <2>3, <2>4, <2>5 DEF Offsets
\* The order is done with.
<1>10. /\ ~ AtWork(r.id) /\ ~ Unread(r.id) /\ ~ Asked(r.id) /\ ~ MayExecute(r.id)'
       /\ \A id : MayExecute(id)' => MayExecute(id) /\ id # r.id
       /\ \A id : id # r.id => (MayExecute(id)' <=> MayExecute(id))
  <2>1. ~ AtWork(r.id)
    BY <1>3 DEF AtWork
  <2>2. ~ Unread(r.id)
    BY <1>1, <1>3 DEF PathInv, ExchangeInv, Unbooked
  <2>3. ~ Asked(r.id)
    BY <1>1 DEF PathInv, RequestsInv, Asked
  <2>4. ~ MayExecute(r.id)'
    BY <1>1, <2>1, <2>2 DEF MayExecute
  <2>5. \A id : id # r.id => (MayExecute(id)' <=> MayExecute(id))
    BY <1>1 DEF MayExecute
  <2>. QED BY <2>1, <2>2, <2>3, <2>4, <2>5
<1>11. TypeOK'
  BY <1>1, <1>2, <1>9 DEF PathInv, TypeOK
<1>12. ExposureInv'
  <2>. SUFFICES ASSUME MaxPosition # QtyInvalid
                PROVE  /\ -MaxPosition <= position'.net /\ position'.net <= MaxPosition
                       /\ orders'["BUY"].id # 0 => position'.net + orders'["BUY"].qty <= MaxPosition
                       /\ orders'["SELL"].id # 0 => position'.net - orders'["SELL"].qty >= -MaxPosition
                       /\ OrderQty <= MaxPosition
    BY DEF ExposureInv
  <2>1. orders[r.side].id # 0
    BY <1>3, <1>5 DEF OrderIds
  <2>2. /\ -MaxPosition <= position.net /\ position.net <= MaxPosition
        /\ orders["BUY"].id # 0 => position.net + orders["BUY"].qty <= MaxPosition
        /\ orders["SELL"].id # 0 => position.net - orders["SELL"].qty >= -MaxPosition
        /\ OrderQty <= MaxPosition
    BY <2>1, <1>3 DEF PathInv, ExposureInv
  <2>3. /\ orders["BUY"].qty \in Nat /\ orders["SELL"].qty \in Nat /\ MaxPosition \in Nat
        /\ orders'["BUY"].id = orders["BUY"].id /\ orders'["SELL"].id = orders["SELL"].id
    BY <1>2, Typed, SideFacts, BinancePathAssumption DEF PathInv
  <2>4. CASE r.side = "BUY"
    <3>1. /\ position'.net = position.net + r.exec /\ orders["BUY"].qty = r.exec
          /\ orders'["BUY"].qty = 0 /\ orders'["SELL"].qty = orders["SELL"].qty
          /\ orders["BUY"].id # 0
      BY <1>3, <1>5, <1>6, <1>7, <1>9, <2>1, <2>4, SideFacts
    <3>. QED BY ONLY <1>3, <1>7, <2>2, <2>3, <3>1
  <2>5. CASE r.side = "SELL"
    <3>1. /\ position'.net = position.net - r.exec /\ orders["SELL"].qty = r.exec
          /\ orders'["SELL"].qty = 0 /\ orders'["BUY"].qty = orders["BUY"].qty
          /\ orders["SELL"].id # 0
      BY <1>3, <1>5, <1>6, <1>7, <1>9, <2>1, <2>5, SideFacts
    <3>. QED BY ONLY <1>3, <1>7, <2>2, <2>3, <3>1
  <2>. QED BY <1>3, <2>4, <2>5, SideFacts
<1>13. ExchangeInv'
  <2>1. ASSUME NEW id \in DOMAIN exchange, MayExecute(id)'
        PROVE  /\ orders'[exchange[id].side].id = id
               /\ orders'[exchange[id].side].state # "DEAD"
               /\ orders'[exchange[id].side].qty = exchange[id].qty
    <3>1. MayExecute(id) /\ id # r.id
      BY <1>10, <2>1
    <3>2. exchange[id].side \in Sides /\ orders[exchange[id].side].id = id
      BY <3>1, ExecutingOrder
    <3>3. orders'[exchange[id].side] = orders[exchange[id].side]
      BY <1>5, <1>6, <3>1, <3>2
    <3>. QED BY <3>1, <3>3, ExecutingOrder
  <2>2. \A id : Unbooked(id)' => Unbooked(id)
    BY <1>1
  <2>. QED BY <1>1, <2>1, <2>2 DEF PathInv, ExchangeInv
<1>14. CloseInv'
  <2>1. ASSUME NEW s \in Sides, NEW id, id = orders'[s].id, Asked(id) \/ MayExecute(id)',
               orders'[s].offset # "OPEN"
        PROVE  /\ Sign(s) * position'.net < 0
               /\ orders'[s].qty <= Held(position', orders'[s].offset)
    <3>1. s # r.side
      BY <1>2, <1>5, <1>10, <2>1
    <3>2. orders'[s] = orders[s] /\ (Asked(orders[s].id) \/ MayExecute(orders[s].id))
      BY <1>6, <1>10, <2>1, <3>1
    <3>3. Sign(s) * position.net < 0 /\ orders[s].qty <= Held(position, orders[s].offset)
      BY <2>1, <3>2 DEF PathInv, CloseInv, Engine!CloseableQty, Held
    <3>4. Sign(s) = -Sign(r.side)
      BY <1>3, <3>1, SideFacts
    <3>5. r.offset = "OPEN"
      <4>1. ~ (Sign(r.side) * position.net < 0)
        BY <1>7, <3>3, <3>4
      <4>. QED BY <1>8, <4>1
    <3>6. Sign(s) * position'.net < 0
      BY <1>3, <1>7, <1>9, <3>3, <3>4
    <3>7. /\ Held(position, orders[s].offset) \in Nat
          /\ Held(position', orders[s].offset) >= Held(position, orders[s].offset)
          /\ Held(position', orders[s].offset) \in Nat
      BY <1>3, <1>7, <1>9, <3>5 DEF Held
    <3>8. orders[s].qty \in Nat
      BY Typed DEF PathInv
    <3>. QED BY <3>2, <3>3, <3>6, <3>7, <3>8
  <2>. QED BY <1>1, <2>1, ClosesAfter
<1>15. FillsReconcile'
  <2>1. ~ Booked(r.id) /\ Booked(r.id)'
    BY <1>1, <1>3, <1>10, Under DEF Booked, FillUnderWay, Unread, Unbooked, In
  <2>2. \A id \in Ids : id # r.id => (Booked(id)' <=> Booked(id))
    BY <1>1, Under DEF Booked, FillUnderWay, Unread, Unbooked, In
  <2>3. \A id \in Ids : Booked(id) => Executed(id)' = Executed(id)
    BY <1>1 DEF Executed, Sign, Engine!Sign, Booked
  <2>4. Executed(r.id)' = Sign(r.side) * r.exec
    <3>1. exchange'[r.id] = exchange[r.id]
      BY <1>1
    <3>2. Executed(r.id)' = Sign(exchange'[r.id].side) * exchange'[r.id].executed
      BY DEF Executed, Sign, Engine!Sign
    <3>. QED BY <1>3, <3>1, <3>2
  <2>5. Amounts \in [Ids -> Int] /\ Amounts' \in [Ids -> Int]
    <3>1. TypeOK
      BY DEF PathInv
    <3>2. (TypeOK => Amounts \in [Ids -> Int])'
      BY AmountsTyped, PTL
    <3>. QED BY <1>11, <3>1, <3>2, AmountsTyped
  <2>6. \A id \in Ids : Amounts[id] = IF Booked(id) THEN Executed(id) ELSE 0
    BY DEF Amounts
  <2>7. \A id \in Ids : Amounts'[id] = IF Booked(id)' THEN Executed(id)' ELSE 0
    BY DEF Amounts
  <2>8. Amounts'[r.id] = Amounts[r.id] + Sign(r.side) * r.exec
    BY <1>3, <1>7, <2>1, <2>4, <2>6, <2>7
  <2>9. \A id \in Ids : id # r.id => Amounts'[id] = Amounts[id]
    BY <2>2, <2>3, <2>6, <2>7
  <2>10. Sign(r.side) * r.exec \in Int
    BY <1>3, <1>7
  <2>11. Total(Amounts') = Total(Amounts) + Sign(r.side) * r.exec
    BY <1>3, <2>5, <2>8, <2>9, <2>10, TotalAdds
  <2>12. position.net = Total(Amounts)
    BY Reconciled DEF PathInv
  <2>. QED BY <1>9, <2>11, <2>12, Reconciled
<1>. QED BY <1>1, <1>2, <1>11, <1>12, <1>13, <1>14, <1>15 DEF PathInv

LEMMA ReceivesKeep ==
    ASSUME PathInv, EngineReceives
    PROVE  PathInv'
BY OtherResponseKeeps, FilledKeeps
-----------------------------------------------------------------------------
(***************************************************************************)
(* The answer of a call.                                                   *)
(***************************************************************************)
Done(q) ==
    /\ answer = "ok"
    /\ responses' = Append(responses,
                           [type |-> IF q.type = "CANCEL" THEN "CANCELED" ELSE "ACCEPTED", id |-> q.id,
                            side |-> q.side, offset |-> q.offset, exec |-> 0, leaves |-> q.qty])
    /\ live' = IF q.type = "NEW" THEN With(live, q.id, q) ELSE live
    /\ lost' = lost

NotDone(q) ==
    /\ responses' = Append(responses,
                           [type |-> IF q.type = "CANCEL" THEN "CANCEL_REJECTED" ELSE "REJECTED",
                            id |-> q.id,
                            side |-> q.side, offset |-> q.offset, exec |-> 0, leaves |-> q.qty])
    /\ live' = live
    /\ \/ answer = "error" /\ lost' = lost
       \/ lost' = IF q.type = "NEW" THEN lost \cup {q.id} ELSE lost

LEMMA Returned ==
    ASSUME PathInv, GatewayReturns, NEW q, q = Head(requests)
    PROVE  /\ Done(q) \/ NotDone(q)
           /\ requests # << >> /\ calling' = FALSE /\ answer' = "none" /\ requests' = Tail(requests)
           /\ UNCHANGED <<orders, nextOrderId, position, fault, cumulative, userEvents, wire, exchange>>
<1>1. calling
  <2>1. answer # "none" => calling
    BY DEF PathInv, CallInv
  <2>. QED BY <2>1 DEF GatewayReturns, CallSucceeds, CallFails, CallTimesOut
<1>2. requests # << >>
  BY <1>1 DEF PathInv, CallInv
<1>3. CallReturns
  BY DEF GatewayReturns, CallSucceeds, CallFails, CallTimesOut
<1>5. CallSucceeds => Done(q)
  BY DEF CallSucceeds, Response, Engine!Response,
             PublishClientResponse, Done, lossVars
<1>6. CallFails => NotDone(q)
  BY DEF CallFails, Response, Engine!Response,
             PublishRejected, PublishClientResponse, NotDone, lossVars
<1>7. CallTimesOut => NotDone(q)
  BY DEF CallTimesOut, Response, Engine!Response,
             PublishRejected, PublishClientResponse, NotDone
<1>. QED BY <1>2, <1>3, <1>5, <1>6, <1>7 DEF GatewayReturns, CallReturns, engineVars, exchangeVars

\* Which order becomes live, is lost or is answered by a return.
LEMMA ReturnFacts ==
    ASSUME PathInv, GatewayReturns, NEW q, q = Head(requests)
    PROVE  /\ q \in In(requests) /\ q \in Request /\ q.id < nextOrderId
           /\ requests' \in Seq(Request) /\ In(requests) = {q} \cup In(requests')
           /\ \A r \in In(requests') : r.type = "NEW" => r.id # q.id
           /\ lost \subseteq lost' /\ \A id \in lost' : id \in lost \/ (q.type = "NEW" /\ id = q.id)
           /\ \A id \in DOMAIN live' :
                  \/ id \in DOMAIN live /\ live'[id] = live[id]
                  \/ id = q.id /\ q.type = "NEW" /\ answer = "ok" /\ live'[id] = q /\ lost' = lost
           /\ DOMAIN live \subseteq DOMAIN live'
           /\ live' \in [DOMAIN live' -> Request]
           /\ q.type = "NEW" =>
                  \/ q.id \in DOMAIN live' /\ answer = "ok"
                  \/ q.id \in lost'
                  \/ answer = "error" /\ q.id \notin DOMAIN exchange
           /\ \E p \in ResponseSet :
                  /\ responses' = Append(responses, p)
                  /\ p.id = q.id /\ p.side = q.side /\ p.type # "FILLED"
                  /\ p.type = "CANCELED" => q.type = "CANCEL" /\ answer = "ok"
                  /\ p.type = "REJECTED" => p.id \in lost' \/ p.id \notin DOMAIN exchange
<1>1. /\ Done(q) \/ NotDone(q)
      /\ requests # << >> /\ requests' = Tail(requests)
  BY Returned
<1>2. requests \in Seq(Request) /\ live \in [DOMAIN live -> Request]
  BY DEF PathInv, TypeOK
<1>3. /\ q \in In(requests) /\ q \in Request
      /\ requests' \in Seq(Request) /\ In(requests) = {q} \cup In(requests')
      /\ 1 \in DOMAIN requests /\ q = requests[1]
      /\ \A i \in DOMAIN requests' : /\ i + 1 \in DOMAIN requests /\ i + 1 # 1
                                     /\ requests'[i] = requests[i + 1]
  BY <1>1, <1>2, HeadTaken
<1>4. q.id < nextOrderId
  BY <1>3 DEF PathInv, TypeOK
<1>5. ASSUME NEW r \in In(requests'), r.type = "NEW" PROVE r.id # q.id
  <2>1. PICK i \in DOMAIN requests' : r = requests'[i]
    BY <1>5 DEF In
  <2>. QED BY <1>3, <1>5, <2>1 DEF PathInv, RequestsInv
<1>6. q.type \in {"NEW", "CANCEL"} /\ q.id \in OrderIds /\ q.side \in Sides /\ q.offset \in Offsets
      /\ q.qty \in Nat
  BY <1>3 DEF Request
<1>7. q.type = "NEW" /\ q.id \in DOMAIN exchange => answer = "ok"
  BY <1>3 DEF PathInv, RequestsInv
<1>8. CASE Done(q)
  <2>1. PICK p : /\ responses' = Append(responses, p)
                 /\ p = [type |-> IF q.type = "CANCEL" THEN "CANCELED" ELSE "ACCEPTED", id |-> q.id,
                         side |-> q.side, offset |-> q.offset, exec |-> 0, leaves |-> q.qty]
    BY <1>8 DEF Done
  <2>2. /\ p \in ResponseSet /\ p.id = q.id /\ p.side = q.side /\ p.type # "FILLED"
        /\ p.type = "CANCELED" => q.type = "CANCEL"
        /\ p.type # "REJECTED"
    BY <1>6, <2>1 DEF ResponseSet
  <2>3. /\ answer = "ok" /\ lost' = lost
        /\ live' = IF q.type = "NEW" THEN With(live, q.id, q) ELSE live
    BY <1>8 DEF Done
  <2>4. /\ \A id \in DOMAIN live' :
                  \/ id \in DOMAIN live /\ live'[id] = live[id]
                  \/ id = q.id /\ q.type = "NEW" /\ live'[id] = q
        /\ DOMAIN live \subseteq DOMAIN live'
        /\ live' \in [DOMAIN live' -> Request]
        /\ q.type = "NEW" => q.id \in DOMAIN live'
    BY <1>2, <1>3, <2>3 DEF With
  <2>. QED BY <1>3, <1>4, <1>5, <2>1, <2>2, <2>3, <2>4
<1>9. CASE NotDone(q)
  <2>1. PICK p : /\ responses' = Append(responses, p)
                 /\ p = [type |-> IF q.type = "CANCEL" THEN "CANCEL_REJECTED" ELSE "REJECTED",
                         id |-> q.id,
                         side |-> q.side, offset |-> q.offset, exec |-> 0, leaves |-> q.qty]
    BY <1>9 DEF NotDone
  <2>2. /\ p \in ResponseSet /\ p.id = q.id /\ p.side = q.side /\ p.type # "FILLED"
        /\ p.type # "CANCELED"
        /\ p.type = "REJECTED" => q.type = "NEW"
    BY <1>6, <2>1 DEF ResponseSet
  <2>3. /\ live' = live
        /\ \/ answer = "error" /\ lost' = lost
           \/ lost' = IF q.type = "NEW" THEN lost \cup {q.id} ELSE lost
    BY <1>9 DEF NotDone
  <2>4. q.type = "NEW" => q.id \in lost' \/ (answer = "error" /\ q.id \notin DOMAIN exchange)
    BY <1>7, <2>3
  <2>5. lost \subseteq lost' /\ \A id \in lost' : id \in lost \/ (q.type = "NEW" /\ id = q.id)
    BY <2>3
  <2>. QED BY <1>2, <1>3, <1>4, <1>5, <2>1, <2>2, <2>3, <2>4, <2>5
<1>. QED BY <1>1, <1>8, <1>9

LEMMA ReturnsKeep ==
    ASSUME PathInv, GatewayReturns
    PROVE  PathInv'
<1>. DEFINE q == Head(requests)
<1>1. /\ requests # << >> /\ calling' = FALSE /\ answer' = "none" /\ requests' = Tail(requests)
      /\ UNCHANGED <<orders, nextOrderId, position, fault, cumulative, userEvents, wire, exchange>>
      /\ requests \in Seq(Request) /\ responses \in Seq(ResponseSet)
  BY Returned DEF PathInv, TypeOK
<1>2. /\ q \in In(requests) /\ q \in Request /\ q.id < nextOrderId
      /\ requests' \in Seq(Request) /\ In(requests) = {q} \cup In(requests')
      /\ \A r \in In(requests') : r.type = "NEW" => r.id # q.id
      /\ lost \subseteq lost' /\ \A id \in lost' : id \in lost \/ (q.type = "NEW" /\ id = q.id)
      /\ \A id \in DOMAIN live' :
             \/ id \in DOMAIN live /\ live'[id] = live[id]
             \/ id = q.id /\ q.type = "NEW" /\ answer = "ok" /\ live'[id] = q /\ lost' = lost
      /\ DOMAIN live \subseteq DOMAIN live'
      /\ live' \in [DOMAIN live' -> Request]
      /\ q.type = "NEW" =>
             \/ q.id \in DOMAIN live' /\ answer = "ok"
             \/ q.id \in lost'
             \/ answer = "error" /\ q.id \notin DOMAIN exchange
  BY ReturnFacts
<1>3. PICK p \in ResponseSet :
          /\ responses' = Append(responses, p)
          /\ p.id = q.id /\ p.side = q.side /\ p.type # "FILLED"
          /\ p.type = "CANCELED" => q.type = "CANCEL" /\ answer = "ok"
          /\ p.type = "REJECTED" => p.id \in lost' \/ p.id \notin DOMAIN exchange
  BY ReturnFacts
<1>. HIDE DEF q
<1>4. /\ responses' \in Seq(ResponseSet) /\ In(responses') = In(responses) \cup {p}
      /\ DOMAIN responses' = DOMAIN responses \cup {Len(responses) + 1}
      /\ Len(responses) + 1 \notin DOMAIN responses /\ responses'[Len(responses) + 1] = p
      /\ \A i \in DOMAIN responses : responses'[i] = responses[i]
  BY <1>1, <1>3, ResponseAppended
<1>5. q.id \in OrderIds /\ q.side \in Sides
  BY <1>2 DEF Request
\* The request that is answered, if it is a new order.
<1>6. q.type = "NEW" =>
          /\ orders[q.side].id = q.id /\ orders[q.side].offset = q.offset
          /\ q.id \notin lost /\ q.id \notin DOMAIN live
          /\ \A s \in In(responses) : s.id # q.id
          /\ q.id \in DOMAIN exchange => answer = "ok"
  BY <1>2 DEF PathInv, RequestsInv
<1>7. /\ \A id : /\ Unread(id)' <=> Unread(id)
                 /\ AtWork(id)' <=> AtWork(id)
                 /\ Unbooked(id)' <=> Unbooked(id)
                 /\ Asked(id)' => Asked(id)
                 /\ Asked(id) => Asked(id)' \/ (q.type = "NEW" /\ id = q.id)
                 /\ MayExecute(id)' => MayExecute(id)
  BY <1>1, <1>2, <1>3, <1>4 DEF Unread, AtWork, Unbooked, Asked, MayExecute
<1>8. TypeOK'
  <2>1. DOMAIN live' \subseteq DOMAIN exchange
    <3>1. answer = "ok" => q.id \in DOMAIN exchange
      BY DEF PathInv, CallInv, q
    <3>. QED BY <1>2, <3>1 DEF PathInv, TypeOK
  <2>2. lost' \subseteq 1 .. nextOrderId - 1
    <3>1. q.id \in 1 .. nextOrderId - 1
      BY <1>2, <1>5, GivenOut DEF PathInv
    <3>. QED BY <1>2, <3>1 DEF PathInv, TypeOK
  <2>3. \A r \in In(requests') \cup In(responses') \cup wire : r.id < nextOrderId
    BY <1>2, <1>3, <1>4 DEF PathInv, TypeOK
  <2>. QED BY <1>1, <1>2, <1>4, <2>1, <2>2, <2>3 DEF PathInv, TypeOK
<1>9. SlotsInv'
  <2>1. \A r \in In(requests') \cup In(responses') : r.id # orders[Opposite(r.side)].id
    BY <1>2, <1>3, <1>4 DEF PathInv, SlotsInv
  <2>. QED BY <1>1, <1>2, <2>1 DEF PathInv, SlotsInv
<1>10. ExposureInv' /\ EventsInv'
  BY <1>1 DEF PathInv, ExposureInv, EventsInv
<1>11. RequestsInv'
  <2>1. ASSUME NEW r \in In(requests'), r.type = "NEW"
        PROVE  /\ LET o == orders[r.side]
                  IN  /\ o.id = r.id /\ o.offset = r.offset /\ o.qty = r.qty
                      /\ o.state = "PENDING_NEW"
               /\ r.qty >= 1 /\ r.id \notin lost' /\ r.id \notin DOMAIN live'
               /\ \A s \in In(responses') : s.id # r.id
               /\ r.id \notin DOMAIN exchange
    BY <1>2, <1>3, <1>4, <2>1 DEF PathInv, RequestsInv, q
  <2>2. ASSUME NEW i \in DOMAIN requests', NEW j \in DOMAIN requests', i # j,
               requests'[i].type = "NEW"
        PROVE  requests'[i].id # requests'[j].id
    <3>1. /\ i + 1 \in DOMAIN requests /\ j + 1 \in DOMAIN requests /\ i \in Nat /\ j \in Nat
          /\ requests'[i] = requests[i + 1] /\ requests'[j] = requests[j + 1]
      BY <1>1, HeadTaken
    <3>2. i + 1 # j + 1
      BY <2>2, <3>1
    <3>. QED BY <2>2, <3>1, <3>2 DEF PathInv, RequestsInv
  <2>. QED BY <1>1, <2>1, <2>2 DEF RequestsInv
<1>12. CallInv'
  BY <1>1 DEF CallInv
<1>13. WireInv'
  <2>1. ASSUME NEW r \in wire, r.type = "NEW" PROVE r.id \in lost'
    <3>1. r.id \in lost \/ (r = q /\ answer = "none" /\ r.id \notin DOMAIN exchange)
      BY <2>1 DEF PathInv, WireInv, q
    <3>. QED BY <1>2, <2>1, <3>1
  <2>. QED BY <1>1, <2>1 DEF PathInv, WireInv
<1>14. ExchangeInv'
  <2>1. \A id \in DOMAIN exchange :
            id \notin lost' /\ (AtWork(id) \/ Unread(id)) =>
                id \in DOMAIN live' \/ Asked(id)'
    <3>1. \A id \in DOMAIN exchange :
              id \notin lost /\ (AtWork(id) \/ Unread(id)) => id \in DOMAIN live \/ Asked(id)
      BY DEF PathInv, ExchangeInv
    <3>. QED BY <1>2, <1>6, <1>7, <3>1
  <2>. QED BY <1>1, <1>2, <1>7, <2>1 DEF PathInv, ExchangeInv
<1>15. LiveInv'
  <2>1. ASSUME q.type = "NEW", answer = "ok"
        PROVE  q.side = exchange[q.id].side /\ q.qty = exchange[q.id].qty
    BY <2>1 DEF PathInv, CallInv, q
  <2>2. \A id \in DOMAIN live : id \notin lost'
    <3>1. \A id \in DOMAIN live : id \notin lost
      BY DEF PathInv, LiveInv
    <3>. QED BY <1>2, <1>6, <3>1
  <2>. QED BY <1>1, <1>2, <1>6, <2>1, <2>2 DEF PathInv, LiveInv
<1>16. ResponsesInv'
  <2>1. ASSUME NEW r \in In(responses), r.type = "FILLED"
        PROVE  r.id \notin lost' /\ r.id \notin DOMAIN live'
    <3>1. r.id \notin lost /\ r.id \notin DOMAIN live
      BY <2>1 DEF PathInv, ResponsesInv
    <3>. QED BY <1>2, <1>6, <3>1
  <2>2. p.type = "CANCELED" => p.id \in DOMAIN exchange /\ exchange[p.id].status = "CANCELED"
    BY <1>3 DEF PathInv, CallInv, q
  <2>3. \A r \in In(responses') :
           /\ r.type = "FILLED" =>
                  /\ r.id \in DOMAIN exchange \ lost' /\ r.id \notin DOMAIN live'
                  /\ LET x == exchange[r.id]
                     IN  x.status = "FILLED" /\ x.side = r.side /\ x.qty = r.exec
                  /\ r.leaves = 0
                  /\ orders[r.side].offset = r.offset
           /\ r.type = "CANCELED" =>
                  r.id \in DOMAIN exchange /\ exchange[r.id].status \in {"CANCELED", "EXPIRED"}
           /\ r.type = "REJECTED" => r.id \in lost' \/ r.id \notin DOMAIN exchange
    BY <1>2, <1>3, <1>4, <2>1, <2>2 DEF PathInv, ResponsesInv
  <2>4. \A i, j \in DOMAIN responses' :
           /\ responses'[i].id = responses'[j].id
           /\ responses'[i].type = "FILLED" /\ responses'[j].type = "FILLED"
           => i = j
    BY <1>3, <1>4 DEF PathInv, ResponsesInv
  <2>. QED BY <1>1, <2>3, <2>4 DEF ResponsesInv
<1>17. CloseInv'
  <2>1. ASSUME NEW s \in Sides, NEW id, id = orders'[s].id, Asked(id)' \/ MayExecute(id)',
               orders'[s].offset # "OPEN"
        PROVE  /\ Sign(s) * position.net < 0
               /\ orders'[s].qty <= Engine!CloseableQty(orders'[s].offset)
    BY <1>1, <1>7, <2>1 DEF PathInv, CloseInv
  <2>. QED BY <2>1, <1>1, Closes
\* An order whose answer is lost was not booked.
<1>18. FillsReconcile'
  <2>1. ASSUME NEW id \in lost', id \notin lost PROVE ~ Booked(id)
    <3>1. q.type = "NEW" /\ id = q.id
      BY <1>2, <2>1
    <3>2. id \in DOMAIN exchange => (exchange[id].status = "FILLED" => Unread(id))
      BY <1>6, <3>1 DEF PathInv, CallInv, q
    <3>. QED BY <3>2, Under DEF Booked
  <2>2. \A id : FillUnderWay(id)' <=> FillUnderWay(id)
    <3>1. \A id : FillUnderWay(id)' <=> (Unread(id)' \/ Unbooked(id)')
      BY DEF FillUnderWay, Unread, Unbooked, In
    <3>. QED BY <1>7, <3>1, Under
  <2>3. \A id \in Ids : Booked(id)' <=> Booked(id)
    BY <1>1, <1>2, <2>1, <2>2 DEF Booked
  <2>. QED BY <1>1, <2>3, BooksNothing DEF PathInv
<1>. QED BY <1>1, <1>8, <1>9, <1>10, <1>11, <1>12, <1>13, <1>14, <1>15, <1>16, <1>17, <1>18
         DEF PathInv
-----------------------------------------------------------------------------
(***************************************************************************)
(* An event of the user stream.                                            *)
(***************************************************************************)
LEMMA EventTaken ==
    ASSUME PathInv, GatewayReadsEvent, NEW e, e = Head(userEvents)
    PROVE  /\ UNCHANGED <<orders, nextOrderId, position, fault, requests, calling, answer, wire,
                          exchange, lost>>
           /\ ~ calling /\ answer = "none"
           /\ e \in In(userEvents) /\ e \in Event
           /\ In(userEvents) = {e} \cup In(userEvents') /\ userEvents' \in Seq(Event)
           /\ \A id : /\ AtWork(id)' <=> AtWork(id)
                      /\ Asked(id)' <=> Asked(id)
                      /\ Unread(id) <=> (Unread(id)' \/ (e.id = id /\ e.status = "FILLED"))
           /\ e.status = "FILLED" => ~ Unread(e.id)'
           /\ EventsInv' /\ CallInv' /\ WireInv'
           \* The last execution of an order is not dropped, unless its answer was lost.
           /\ e.status = "FILLED" /\ e.id \notin lost =>
                  e.id \in DOMAIN live /\ ~ (e.executed <= cumulative[e.id])
<1>1. /\ ~ calling /\ userEvents # << >> /\ userEvents' = Tail(userEvents)
      /\ userEvents \in Seq(Event)
      /\ UNCHANGED <<orders, nextOrderId, position, fault, requests, calling, answer, wire,
                     exchange, lost>>
  BY DEF GatewayReadsEvent, engineVars, callVars, exchangeVars, lossVars, PathInv, TypeOK
<1>2. answer = "none"
  BY <1>1 DEF PathInv, CallInv
<1>3. /\ e \in In(userEvents) /\ e \in Event
      /\ In(userEvents) = {e} \cup In(userEvents') /\ userEvents' \in Seq(Event)
      /\ 1 \in DOMAIN userEvents /\ e = userEvents[1]
      /\ \A i \in DOMAIN userEvents' : /\ i + 1 \in DOMAIN userEvents /\ i + 1 # 1 /\ i \in Nat
                                       /\ userEvents'[i] = userEvents[i + 1]
  BY <1>1, HeadTaken
<1>4. \A id : /\ AtWork(id)' <=> AtWork(id)
              /\ Asked(id)' <=> Asked(id)
              /\ Unread(id) <=> (Unread(id)' \/ (e.id = id /\ e.status = "FILLED"))
  BY <1>1, <1>3 DEF AtWork, Asked, Unread
<1>5. e.status = "FILLED" => ~ Unread(e.id)'
  <2>. SUFFICES ASSUME e.status = "FILLED", Unread(e.id)' PROVE FALSE
    OBVIOUS
  <2>1. PICK i \in DOMAIN userEvents' : userEvents'[i].id = e.id /\ userEvents'[i].status = "FILLED"
    BY DEF Unread, In
  <2>. QED BY <1>3, <2>1 DEF PathInv, EventsInv
<1>6. EventsInv'
  <2>1. \A f \in In(userEvents') :
           /\ f.id \in DOMAIN exchange
           /\ f.status = "FILLED" => /\ exchange[f.id].status = "FILLED"
                                     /\ f.executed = exchange[f.id].qty
           /\ f.status # "FILLED" => f.executed < exchange[f.id].qty
           /\ f.status \in {"CANCELED", "EXPIRED"} => exchange[f.id].status = f.status
    BY <1>3 DEF PathInv, EventsInv
  <2>2. ASSUME NEW i \in DOMAIN userEvents', NEW j \in DOMAIN userEvents',
               userEvents'[i].id = userEvents'[j].id,
               userEvents'[i].status = "FILLED", userEvents'[j].status = "FILLED"
        PROVE  i = j
    <3>1. i + 1 = j + 1
      BY <1>3, <2>2 DEF PathInv, EventsInv
    <3>. QED BY <1>3, <3>1
  <2>. QED BY <1>1, <2>1, <2>2 DEF EventsInv
<1>7. CallInv' /\ WireInv'
  BY <1>1, <1>2 DEF PathInv, CallInv, WireInv
<1>8. ASSUME e.status = "FILLED", e.id \notin lost
      PROVE  e.id \in DOMAIN live /\ ~ (e.executed <= cumulative[e.id])
  <2>1. /\ e.id \in DOMAIN exchange /\ e.executed = exchange[e.id].qty /\ Unread(e.id)
    BY <1>3, <1>8 DEF PathInv, EventsInv, Unread
  <2>2. ~ Asked(e.id)
    BY <1>1, <2>1 DEF PathInv, RequestsInv, Asked
  <2>3. e.id \in DOMAIN live /\ cumulative[e.id] < exchange[e.id].qty
    BY <1>8, <2>1, <2>2 DEF PathInv, ExchangeInv
  <2>4. cumulative[e.id] \in Nat /\ exchange[e.id].qty \in Nat
    BY <2>1, Typed DEF PathInv, TypeOK
  <2>. QED BY <2>1, <2>3, <2>4
<1>. QED BY <1>1, <1>2, <1>3, <1>4, <1>5, <1>6, <1>7, <1>8

LEMMA DroppedKeeps ==
    ASSUME PathInv, GatewayReadsEvent, NEW e, e = Head(userEvents),
           e.id \notin DOMAIN live \/ e.executed <= cumulative[e.id]
    PROVE  PathInv'
<1>1. /\ UNCHANGED <<orders, nextOrderId, position, fault, requests, calling, answer, wire,
                     exchange, lost>>
      /\ e \in In(userEvents) /\ userEvents' \in Seq(Event)
      /\ \A id : /\ AtWork(id)' <=> AtWork(id)
                 /\ Asked(id)' <=> Asked(id)
                 /\ Unread(id) <=> (Unread(id)' \/ (e.id = id /\ e.status = "FILLED"))
      /\ EventsInv' /\ CallInv' /\ WireInv'
      /\ e.status = "FILLED" => e.id \in lost
  BY EventTaken
<1>2. UNCHANGED <<live, cumulative, responses>>
  BY DEF GatewayReadsEvent, HandleUserEvent
<1>3. \A id : /\ Unbooked(id)' <=> Unbooked(id)
              /\ Unread(id)' => Unread(id)
              /\ id \notin lost => (Unread(id)' <=> Unread(id))
              /\ MayExecute(id)' <=> MayExecute(id)
  BY <1>1, <1>2 DEF Unbooked, MayExecute
<1>4. TypeOK'
  BY <1>1, <1>2 DEF PathInv, TypeOK
<1>5. (SlotsInv /\ ExposureInv /\ RequestsInv /\ LiveInv /\ ResponsesInv)'
  BY <1>1, <1>2 DEF PathInv, SlotsInv, ExposureInv, RequestsInv, LiveInv, ResponsesInv
<1>6. ExchangeInv'
  BY <1>1, <1>2, <1>3 DEF PathInv, ExchangeInv
<1>7. CloseInv'
  <2>1. ASSUME NEW s \in Sides, NEW id, id = orders'[s].id, Asked(id)' \/ MayExecute(id)',
               orders'[s].offset # "OPEN"
        PROVE  /\ Sign(s) * position.net < 0
               /\ orders'[s].qty <= Engine!CloseableQty(orders'[s].offset)
    BY <1>1, <1>3, <2>1 DEF PathInv, CloseInv
  <2>. QED BY <2>1, <1>1, Closes
<1>8. FillsReconcile'
  <2>1. \A id : id \notin lost => (FillUnderWay(id)' <=> FillUnderWay(id))
    <3>1. \A id : FillUnderWay(id)' <=> (Unread(id)' \/ Unbooked(id)')
      BY DEF FillUnderWay, Unread, Unbooked, In
    <3>. QED BY <1>3, <3>1, Under
  <2>2. \A id \in Ids : Booked(id)' <=> Booked(id)
    BY <1>1, <2>1 DEF Booked
  <2>. QED BY <1>1, <2>2, BooksNothing DEF PathInv
<1>. QED BY <1>1, <1>4, <1>5, <1>6, <1>7, <1>8 DEF PathInv

LEMMA ReportedKeeps ==
    ASSUME PathInv, GatewayReadsEvent, NEW e, e = Head(userEvents),
           e.id \in DOMAIN live, ~ (e.executed <= cumulative[e.id])
    PROVE  PathInv'
<1>. DEFINE o == live[e.id]
            type == MapOrderStatus(e.status)
            p == [type |-> type, id |-> o.id, side |-> o.side, offset |-> o.offset,
                  exec |-> e.executed, leaves |-> o.qty - e.executed]
<1>1. /\ UNCHANGED <<orders, nextOrderId, position, fault, requests, calling, answer, wire,
                     exchange, lost>>
      /\ ~ calling
      /\ e \in In(userEvents) /\ e \in Event /\ userEvents' \in Seq(Event)
      /\ \A id : /\ AtWork(id)' <=> AtWork(id)
                 /\ Asked(id)' <=> Asked(id)
                 /\ Unread(id) <=> (Unread(id)' \/ (e.id = id /\ e.status = "FILLED"))
      /\ e.status = "FILLED" => ~ Unread(e.id)'
      /\ EventsInv' /\ CallInv' /\ WireInv'
  BY EventTaken
<1>2. /\ cumulative' = [cumulative EXCEPT ![e.id] = e.executed]
      /\ responses' = Append(responses, p)
      /\ live' = IF type \in {"FILLED", "CANCELED"} THEN Without(live, e.id) ELSE live
  BY DEF GatewayReadsEvent, HandleUserEvent, PublishClientResponse, Response, Engine!Response
<1>3. /\ e.id \in DOMAIN exchange /\ e.id \in Ids /\ e.id \notin lost /\ e.id < nextOrderId
      /\ o.id = e.id /\ o.side \in Sides /\ o.offset \in Offsets /\ o.qty \in Nat
      /\ o.side = exchange[e.id].side /\ o.qty = exchange[e.id].qty
      /\ orders[o.side].id = e.id => orders[o.side].offset = o.offset
      /\ e.executed \in Nat /\ e.id \in OrderIds
      /\ e.status \in {"PARTIALLY_FILLED", "FILLED", "CANCELED", "EXPIRED"}
  BY <1>1, Typed DEF PathInv, LiveInv
<1>4. /\ type = "FILLED" <=> e.status = "FILLED"
      /\ type = "CANCELED" <=> e.status \in {"CANCELED", "EXPIRED"}
      /\ type \in {"FILLED", "CANCELED", "ACCEPTED"}
  BY <1>3 DEF MapOrderStatus
<1>. HIDE DEF type
<1>5. /\ p \in ResponseSet /\ p.id = e.id /\ p.side = o.side /\ p.offset = o.offset
      /\ p.exec = e.executed /\ p.leaves = o.qty - e.executed /\ p.type = type
  BY <1>3, <1>4 DEF ResponseSet
<1>. HIDE DEF p, o
<1>6. /\ responses \in Seq(ResponseSet) /\ cumulative \in [Ids -> Nat]
      /\ live \in [DOMAIN live -> Request]
  BY DEF PathInv, TypeOK
<1>7. /\ responses' \in Seq(ResponseSet) /\ In(responses') = In(responses) \cup {p}
      /\ DOMAIN responses' = DOMAIN responses \cup {Len(responses) + 1}
      /\ Len(responses) + 1 \notin DOMAIN responses /\ responses'[Len(responses) + 1] = p
      /\ \A i \in DOMAIN responses : responses'[i] = responses[i]
  BY <1>2, <1>5, <1>6, ResponseAppended
<1>8. /\ DOMAIN live' \subseteq DOMAIN live /\ \A id \in DOMAIN live' : live'[id] = live[id]
      /\ \A id \in DOMAIN live : id # e.id => id \in DOMAIN live'
      /\ type = "ACCEPTED" => e.id \in DOMAIN live'
      /\ type = "FILLED" => e.id \notin DOMAIN live'
      /\ live' \in [DOMAIN live' -> Request]
  BY <1>2, <1>6 DEF Without
<1>9. /\ cumulative' \in [Ids -> Nat] /\ cumulative'[e.id] = e.executed
      /\ \A id \in Ids : id # e.id => cumulative'[id] = cumulative[id]
  BY <1>2, <1>3, <1>6
\* What the event says of the order.
<1>10. /\ e.status = "FILLED" => /\ exchange[e.id].status = "FILLED" /\ Unread(e.id)
                                 /\ e.executed = exchange[e.id].qty /\ ~ Unbooked(e.id)
       /\ e.status # "FILLED" => e.executed < exchange[e.id].qty
       /\ e.status \in {"CANCELED", "EXPIRED"} =>
              exchange[e.id].status = e.status /\ ~ AtWork(e.id) /\ ~ Unread(e.id)
  <2>1. /\ e.status = "FILLED" => /\ exchange[e.id].status = "FILLED"
                                  /\ e.executed = exchange[e.id].qty
        /\ e.status # "FILLED" => e.executed < exchange[e.id].qty
        /\ e.status \in {"CANCELED", "EXPIRED"} => exchange[e.id].status = e.status
    BY <1>1 DEF PathInv, EventsInv
  <2>2. e.status = "FILLED" => Unread(e.id)
    BY <1>1
  <2>3. Unread(e.id) => ~ Unbooked(e.id)
    BY <1>3 DEF PathInv, ExchangeInv
  <2>4. e.status \in {"CANCELED", "EXPIRED"} => ~ AtWork(e.id) /\ ~ Unread(e.id)
    BY <2>1 DEF AtWork, Unread, PathInv, EventsInv
  <2>. QED BY <2>1, <2>2, <2>3, <2>4
<1>11. \A id : /\ Unbooked(id)' <=> (Unbooked(id) \/ (id = e.id /\ e.status = "FILLED"))
               /\ (Unread(id)' \/ Unbooked(id)') <=> (Unread(id) \/ Unbooked(id))
               /\ MayExecute(id)' <=> MayExecute(id)
  <2>1. \A id : Unbooked(id)' <=> (Unbooked(id) \/ (id = e.id /\ e.status = "FILLED"))
    BY <1>4, <1>5, <1>7 DEF Unbooked
  <2>2. \A id : (Unread(id)' \/ Unbooked(id)') <=> (Unread(id) \/ Unbooked(id))
    BY <1>1, <2>1
  <2>. QED BY <1>1, <2>1, <2>2 DEF MayExecute
<1>12. TypeOK'
  <2>1. \A r \in In(requests) \cup In(responses') \cup wire : r.id < nextOrderId
    BY <1>3, <1>5, <1>7 DEF PathInv, TypeOK
  <2>2. DOMAIN live' \subseteq DOMAIN exchange
    BY <1>8 DEF PathInv, TypeOK
  <2>. QED BY <1>1, <1>7, <1>8, <1>9, <2>1, <2>2 DEF PathInv, TypeOK
<1>13. SlotsInv'
  <2>1. p.id # orders[Opposite(p.side)].id
    BY <1>3, <1>5 DEF PathInv, SlotsInv
  <2>. QED BY <1>1, <1>7, <2>1 DEF PathInv, SlotsInv
<1>14. ExposureInv'
  BY <1>1 DEF PathInv, ExposureInv
<1>15. RequestsInv'
  <2>1. ASSUME NEW r \in In(requests), r.type = "NEW"
        PROVE  r.id \notin DOMAIN live' /\ \A s \in In(responses') : s.id # r.id
    BY <1>5, <1>7, <1>8, <2>1 DEF PathInv, RequestsInv
  <2>. QED BY <1>1, <2>1 DEF PathInv, RequestsInv
<1>16. ExchangeInv'
  <2>1. ASSUME NEW id \in DOMAIN exchange, id \notin lost, AtWork(id) \/ Unread(id)'
        PROVE  /\ id \in DOMAIN live' \/ Asked(id)
               /\ cumulative'[id] < exchange[id].qty
               /\ ~ Unbooked(id)'
    <3>1. /\ id \in DOMAIN live \/ Asked(id)
          /\ cumulative[id] < exchange[id].qty
          /\ ~ Unbooked(id) /\ id \in Ids
      BY <1>1, <2>1, Typed DEF PathInv, ExchangeInv
    <3>2. CASE id # e.id
      BY <1>8, <1>9, <1>11, <3>1, <3>2
    <3>3. CASE id = e.id
      <4>1. e.status \notin {"FILLED", "CANCELED", "EXPIRED"}
        BY <1>1, <1>10, <2>1, <3>3 DEF AtWork
      <4>. QED BY <1>3, <1>4, <1>8, <1>9, <1>10, <1>11, <3>1, <3>3, <4>1
    <3>. QED BY <3>2, <3>3
  <2>2. \A id \in Ids \ DOMAIN exchange : cumulative'[id] = 0
    BY <1>3, <1>9 DEF PathInv, ExchangeInv
  <2>. QED BY <1>1, <1>11, <2>1, <2>2 DEF PathInv, ExchangeInv
<1>17. LiveInv'
  BY <1>1, <1>8 DEF PathInv, LiveInv
<1>18. ResponsesInv'
  <2>1. ASSUME p.type = "FILLED"
        PROVE  /\ p.id \in DOMAIN exchange \ lost /\ p.id \notin DOMAIN live'
               /\ exchange[p.id].status = "FILLED" /\ exchange[p.id].side = p.side
               /\ exchange[p.id].qty = p.exec
               /\ p.leaves = 0 /\ orders[p.side].offset = p.offset
    <3>1. e.status = "FILLED" /\ MayExecute(e.id)
      BY <1>3, <1>4, <1>5, <1>10, <2>1 DEF MayExecute
    <3>2. orders[o.side].id = e.id
      BY <1>3, <3>1, ExecutingOrder
    <3>. QED BY <1>3, <1>4, <1>5, <1>8, <1>10, <2>1, <3>1, <3>2
  <2>2. p.type = "CANCELED" => /\ p.id \in DOMAIN exchange
                               /\ exchange[p.id].status \in {"CANCELED", "EXPIRED"}
    BY <1>3, <1>4, <1>5, <1>10
  <2>3. p.type # "REJECTED"
    BY <1>4, <1>5
  <2>4. \A r \in In(responses) :
           /\ r.type = "FILLED" =>
                  /\ r.id \in DOMAIN exchange \ lost /\ r.id \notin DOMAIN live'
                  /\ LET x == exchange[r.id]
                     IN  x.status = "FILLED" /\ x.side = r.side /\ x.qty = r.exec
                  /\ r.leaves = 0
                  /\ orders[r.side].offset = r.offset
           /\ r.type = "CANCELED" =>
                  r.id \in DOMAIN exchange /\ exchange[r.id].status \in {"CANCELED", "EXPIRED"}
           /\ r.type = "REJECTED" => r.id \in lost \/ r.id \notin DOMAIN exchange
    BY <1>8 DEF PathInv, ResponsesInv
  <2>5. p.type = "FILLED" => \A i \in DOMAIN responses :
                                 ~ (responses[i].id = p.id /\ responses[i].type = "FILLED")
    BY <1>4, <1>5, <1>10 DEF Unbooked, In
  <2>6. \A i, j \in DOMAIN responses' :
           /\ responses'[i].id = responses'[j].id
           /\ responses'[i].type = "FILLED" /\ responses'[j].type = "FILLED"
           => i = j
    BY <1>7, <2>5 DEF PathInv, ResponsesInv
  <2>. QED BY <1>1, <1>7, <2>1, <2>2, <2>3, <2>4, <2>6 DEF ResponsesInv
<1>19. CloseInv'
  <2>1. ASSUME NEW s \in Sides, NEW id, id = orders'[s].id, Asked(id)' \/ MayExecute(id)',
               orders'[s].offset # "OPEN"
        PROVE  /\ Sign(s) * position.net < 0
               /\ orders'[s].qty <= Engine!CloseableQty(orders'[s].offset)
    BY <1>1, <1>11, <2>1 DEF PathInv, CloseInv
  <2>. QED BY <2>1, <1>1, Closes
<1>20. FillsReconcile'
  <2>1. \A id : FillUnderWay(id)' <=> FillUnderWay(id)
    <3>1. \A id : FillUnderWay(id)' <=> (Unread(id)' \/ Unbooked(id)')
      BY DEF FillUnderWay, Unread, Unbooked, In
    <3>. QED BY <1>11, <3>1, Under
  <2>2. \A id \in Ids : Booked(id)' <=> Booked(id)
    BY <1>1, <2>1 DEF Booked
  <2>. QED BY <1>1, <2>2, BooksNothing DEF PathInv
<1>. QED BY <1>1, <1>12, <1>13, <1>14, <1>15, <1>16, <1>17, <1>18, <1>19, <1>20 DEF PathInv
-----------------------------------------------------------------------------
(***************************************************************************)
(* The exchange.                                                           *)
(***************************************************************************)

\* An order at work changes, and the exchange reports it.
Changes(id, x, status) ==
    /\ AtWork(id)
    /\ exchange' = [exchange EXCEPT ![id] = x]
    /\ userEvents' = Append(userEvents, [id |-> id, status |-> status, executed |-> x.executed])
    /\ x \in ExchangeOrder /\ x.side = exchange[id].side /\ x.qty = exchange[id].qty
    /\ \/ x.status = "FILLED" /\ status = "FILLED" /\ x.executed = x.qty
       \/ x.status = "WORKING" /\ status = "PARTIALLY_FILLED" /\ x.executed < x.qty
       \/ /\ x.status \in {"CANCELED", "EXPIRED"} /\ status = x.status
          /\ x.executed = exchange[id].executed
    /\ UNCHANGED <<orders, nextOrderId, position, fault, requests, responses, calling, live,
                   cumulative, lost>>

LEMMA ChangeKeeps ==
    ASSUME PathInv, NEW id, NEW x, NEW status, Changes(id, x, status), wire' \subseteq wire,
           answer' \in {"none", "ok", "error"}
    PROVE  /\ TypeOK' /\ SlotsInv' /\ ExposureInv' /\ ExchangeInv' /\ LiveInv' /\ EventsInv'
           /\ ResponsesInv' /\ CloseInv' /\ ~ fault' /\ FillsReconcile'
           /\ DOMAIN exchange' = DOMAIN exchange
           /\ \A n \in DOMAIN exchange :
                  /\ exchange'[n].side = exchange[n].side /\ exchange'[n].qty = exchange[n].qty
                  /\ ~ AtWork(n) => exchange'[n] = exchange[n]
                  /\ Unread(n) => Unread(n)'
                  /\ exchange'[n].status = "FILLED" => exchange[n].status = "FILLED" \/ Unread(n)'
<1>. DEFINE e == [id |-> id, status |-> status, executed |-> x.executed]
<1>1. /\ AtWork(id) /\ id \in DOMAIN exchange /\ exchange[id].status = "WORKING"
      /\ exchange' = [exchange EXCEPT ![id] = x]
      /\ userEvents' = Append(userEvents, e)
      /\ x \in ExchangeOrder /\ x.side = exchange[id].side /\ x.qty = exchange[id].qty
      /\ \/ x.status = "FILLED" /\ status = "FILLED" /\ x.executed = x.qty
         \/ x.status = "WORKING" /\ status = "PARTIALLY_FILLED" /\ x.executed < x.qty
         \/ /\ x.status \in {"CANCELED", "EXPIRED"} /\ status = x.status
            /\ x.executed = exchange[id].executed
      /\ UNCHANGED <<orders, nextOrderId, position, fault, requests, responses, calling, live,
                     cumulative, lost>>
  BY DEF Changes, AtWork
<1>2. /\ exchange \in [DOMAIN exchange -> ExchangeOrder] /\ userEvents \in Seq(Event)
      /\ id \in OrderIds
      /\ exchange[id].executed \in Nat /\ exchange[id].qty \in Nat
      /\ exchange[id].executed < exchange[id].qty
  <2>1. exchange[id].executed <= exchange[id].qty /\ exchange[id].executed # exchange[id].qty
    BY <1>1 DEF PathInv, ExchangeInv
  <2>2. /\ exchange[id].executed \in Nat /\ exchange[id].qty \in Nat /\ id \in OrderIds
    BY <1>1, Typed DEF PathInv
  <2>. QED BY <2>1, <2>2 DEF PathInv, TypeOK
<1>3. /\ exchange' \in [DOMAIN exchange -> ExchangeOrder] /\ DOMAIN exchange' = DOMAIN exchange
      /\ exchange'[id] = x /\ \A n \in DOMAIN exchange : n # id => exchange'[n] = exchange[n]
  BY <1>1, <1>2
<1>4. /\ e \in Event /\ e.id = id /\ e.status = status /\ e.executed = x.executed
      /\ x.executed \in Nat /\ x.qty \in Nat
  BY <1>1, <1>2 DEF Event, ExchangeOrder
<1>. HIDE DEF e
<1>5. /\ userEvents' \in Seq(Event) /\ In(userEvents') = In(userEvents) \cup {e}
      /\ DOMAIN userEvents' = DOMAIN userEvents \cup {Len(userEvents) + 1}
      /\ Len(userEvents) + 1 \notin DOMAIN userEvents /\ userEvents'[Len(userEvents) + 1] = e
      /\ \A i \in DOMAIN userEvents : userEvents'[i] = userEvents[i]
  BY <1>1, <1>2, <1>4, EventAppended
<1>6. ~ Unread(id)
  BY <1>1 DEF Unread, PathInv, EventsInv
<1>7. \A n : /\ Unread(n)' <=> (Unread(n) \/ (n = id /\ status = "FILLED"))
             /\ Unbooked(n)' <=> Unbooked(n)
             /\ Asked(n)' <=> Asked(n)
  BY <1>1, <1>4, <1>5 DEF Unread, Unbooked, Asked
<1>8. \A n : n # id => (AtWork(n)' <=> AtWork(n))
  BY <1>3 DEF AtWork
<1>9. \A n : MayExecute(n)' => MayExecute(n)
  BY <1>1, <1>3, <1>7, <1>8 DEF MayExecute
<1>10. TypeOK'
  BY <1>1, <1>3, <1>5 DEF PathInv, TypeOK
<1>11. \A n \in DOMAIN exchange : exchange'[n].side = exchange[n].side
                                  /\ exchange'[n].qty = exchange[n].qty
  BY <1>1, <1>3
<1>12. SlotsInv' /\ ExposureInv'
  BY <1>1, <1>3, <1>11 DEF PathInv, SlotsInv, ExposureInv
<1>13. ExchangeInv'
  <2>1. ASSUME NEW n \in DOMAIN exchange
        PROVE  /\ exchange'[n].executed <= exchange'[n].qty
               /\ exchange'[n].status = "FILLED" <=> exchange'[n].executed = exchange'[n].qty
    <3>1. CASE n # id
      BY <1>3, <3>1 DEF PathInv, ExchangeInv
    <3>2. CASE n = id
      <4>1. /\ x.executed <= x.qty
            /\ x.status = "FILLED" <=> x.executed = x.qty
        BY <1>1, <1>2, <1>4
      <4>. QED BY <1>3, <3>2, <4>1
    <3>. QED BY <3>1, <3>2
  <2>2. ASSUME NEW n \in DOMAIN exchange, MayExecute(n)'
        PROVE  /\ orders[exchange'[n].side].id = n
               /\ orders[exchange'[n].side].state # "DEAD"
               /\ orders[exchange'[n].side].qty = exchange'[n].qty
    BY <1>9, <1>11, <2>2, ExecutingOrder
  <2>3. ASSUME NEW n \in DOMAIN exchange, n \notin lost, AtWork(n)' \/ Unread(n)'
        PROVE  /\ n \in DOMAIN live \/ Asked(n)
               /\ cumulative[n] < exchange'[n].qty
               /\ ~ Unbooked(n)
    <3>1. AtWork(n) \/ Unread(n)
      BY <1>1, <1>7, <1>8, <2>3
    <3>. QED BY <1>11, <2>3, <3>1 DEF PathInv, ExchangeInv
  <2>. QED BY <1>1, <1>3, <1>7, <2>1, <2>2, <2>3 DEF PathInv, ExchangeInv
<1>14. LiveInv'
  <2>1. DOMAIN live \subseteq DOMAIN exchange
    BY DEF PathInv, TypeOK
  <2>. QED BY <1>1, <1>11, <2>1 DEF PathInv, LiveInv
<1>15. EventsInv'
  <2>1. ASSUME NEW f \in In(userEvents)
        PROVE  /\ f.id \in DOMAIN exchange
               /\ f.status = "FILLED" => /\ exchange'[f.id].status = "FILLED"
                                         /\ f.executed = exchange'[f.id].qty
               /\ f.status # "FILLED" => f.executed < exchange'[f.id].qty
               /\ f.status \in {"CANCELED", "EXPIRED"} => exchange'[f.id].status = f.status
    <3>1. /\ f.id \in DOMAIN exchange
          /\ f.status = "FILLED" => /\ exchange[f.id].status = "FILLED"
                                    /\ f.executed = exchange[f.id].qty
          /\ f.status # "FILLED" => f.executed < exchange[f.id].qty
          /\ f.status \in {"CANCELED", "EXPIRED"} => exchange[f.id].status = f.status
      BY DEF PathInv, EventsInv
    <3>2. f.status \in {"FILLED", "CANCELED", "EXPIRED"} => f.id # id
      BY <1>1, <3>1
    <3>. QED BY <1>3, <1>11, <3>1, <3>2
  <2>2. /\ e.id \in DOMAIN exchange
        /\ e.status = "FILLED" => exchange'[e.id].status = "FILLED" /\ e.executed = exchange'[e.id].qty
        /\ e.status # "FILLED" => e.executed < exchange'[e.id].qty
        /\ e.status \in {"CANCELED", "EXPIRED"} => exchange'[e.id].status = e.status
    BY <1>1, <1>2, <1>3, <1>4
  <2>3. \A i \in DOMAIN userEvents : ~ (userEvents[i].id = id /\ userEvents[i].status = "FILLED")
    BY <1>6 DEF Unread, In
  <2>4. \A i, j \in DOMAIN userEvents' :
           /\ userEvents'[i].id = userEvents'[j].id
           /\ userEvents'[i].status = "FILLED" /\ userEvents'[j].status = "FILLED"
           => i = j
    BY <1>4, <1>5, <2>3 DEF PathInv, EventsInv
  <2>. QED BY <1>3, <1>5, <2>1, <2>2, <2>4 DEF EventsInv
<1>16. ResponsesInv'
  <2>1. \A r \in In(responses) :
            r.type \in {"FILLED", "CANCELED"} =>
                r.id # id /\ exchange'[r.id] = exchange[r.id]
    BY <1>1, <1>3 DEF PathInv, ResponsesInv
  <2>. QED BY <1>1, <1>3, <2>1 DEF PathInv, ResponsesInv
<1>17. CloseInv'
  <2>1. ASSUME NEW s \in Sides, NEW n, n = orders'[s].id, Asked(n)' \/ MayExecute(n)',
               orders'[s].offset # "OPEN"
        PROVE  /\ Sign(s) * position.net < 0
               /\ orders'[s].qty <= Engine!CloseableQty(orders'[s].offset)
    BY <1>1, <1>7, <1>9, <2>1 DEF PathInv, CloseInv
  <2>. QED BY <2>1, <1>1, Closes
<1>18. FillsReconcile'
  <2>1. \A n : FillUnderWay(n)' <=> (FillUnderWay(n) \/ (n = id /\ status = "FILLED"))
    <3>1. \A n : FillUnderWay(n)' <=> (Unread(n)' \/ Unbooked(n)')
      BY DEF FillUnderWay, Unread, Unbooked, In
    <3>. QED BY <1>7, <3>1, Under
  <2>2. \A n \in Ids : /\ Booked(n)' <=> Booked(n)
                       /\ Booked(n) => n # id
    BY <1>1, <1>3, <2>1 DEF Booked
  <2>3. \A n \in DOMAIN exchange :
            Booked(n) => /\ exchange'[n].side = exchange[n].side
                         /\ exchange'[n].executed = exchange[n].executed
    BY <1>1, <1>3 DEF Booked
  <2>. QED BY <1>1, <2>2, <2>3, BooksNothing DEF PathInv
<1>19. \A n \in DOMAIN exchange :
           /\ ~ AtWork(n) => exchange'[n] = exchange[n]
           /\ Unread(n) => Unread(n)'
           /\ exchange'[n].status = "FILLED" => exchange[n].status = "FILLED" \/ Unread(n)'
  BY <1>1, <1>3, <1>7
<1>. QED BY <1>1, <1>3, <1>10, <1>11, <1>12, <1>13, <1>14, <1>15, <1>16, <1>17, <1>18, <1>19
         DEF PathInv

\* CallInv after a step that leaves the requests.
LEMMA CallAfter ==
    ASSUME requests' = requests, ~ calling' => answer' = "none", calling' => requests # << >>,
           \A r, n : answer' = "ok" /\ r = Head(requests) /\ n = r.id =>
               /\ n \in DOMAIN exchange'
               /\ r.type = "CANCEL" => exchange'[n].status = "CANCELED"
               /\ r.type = "NEW" =>
                      /\ exchange'[n].side = r.side /\ exchange'[n].qty = r.qty
                      /\ exchange'[n].status = "FILLED" => Unread(n)'
    PROVE  CallInv'
<1>. DEFINE r == Head(requests')
<1>1. Unread(Head(requests).id)' <=> \E n : n = r.id /\ Unread(n)'
  BY DEF Unread
<1>. QED BY <1>1 DEF CallInv

\* No call is answered by it.
LEMMA UnansweredKeeps ==
    ASSUME PathInv, NEW id, NEW x, NEW status, Changes(id, x, status), UNCHANGED <<wire, answer>>
    PROVE  PathInv'
<1>1. /\ TypeOK' /\ SlotsInv' /\ ExposureInv' /\ ExchangeInv' /\ LiveInv' /\ EventsInv'
      /\ ResponsesInv' /\ CloseInv' /\ ~ fault' /\ FillsReconcile'
      /\ DOMAIN exchange' = DOMAIN exchange
      /\ \A n \in DOMAIN exchange :
             /\ exchange'[n].side = exchange[n].side /\ exchange'[n].qty = exchange[n].qty
             /\ ~ AtWork(n) => exchange'[n] = exchange[n]
             /\ Unread(n) => Unread(n)'
             /\ exchange'[n].status = "FILLED" => exchange[n].status = "FILLED" \/ Unread(n)'
  <2>1. answer' \in {"none", "ok", "error"} /\ wire' \subseteq wire
    BY DEF PathInv, TypeOK
  <2>. QED BY <2>1, ChangeKeeps
<1>2. UNCHANGED <<orders, requests, responses, calling, live, lost>>
  BY DEF Changes
<1>3. RequestsInv' /\ WireInv'
  BY <1>1, <1>2 DEF PathInv, RequestsInv, WireInv
<1>4. CallInv'
  <2>1. ASSUME answer = "ok", NEW r, r = Head(requests), NEW n, n = r.id
        PROVE  /\ n \in DOMAIN exchange'
               /\ r.type = "CANCEL" => exchange'[n].status = "CANCELED"
               /\ r.type = "NEW" =>
                      /\ exchange'[n].side = r.side /\ exchange'[n].qty = r.qty
                      /\ exchange'[n].status = "FILLED" => Unread(n)'
    <3>1. /\ n \in DOMAIN exchange
          /\ r.type = "CANCEL" => exchange[n].status = "CANCELED"
          /\ r.type = "NEW" =>
                 /\ exchange[n].side = r.side /\ exchange[n].qty = r.qty
                 /\ exchange[n].status = "FILLED" => Unread(n)
      BY <2>1 DEF PathInv, CallInv
    <3>. QED BY <1>1, <3>1 DEF AtWork
  <2>. QED BY <1>2, <2>1, CallAfter DEF PathInv, CallInv
<1>. QED BY <1>1, <1>3, <1>4 DEF PathInv

LEMMA Ended ==
    ASSUME PathInv, NEW id, AtWork(id), NEW status \in {"CANCELED", "EXPIRED"},
           exchange' = [exchange EXCEPT ![id].status = status],
           Report(id, status, exchange[id].executed),
           UNCHANGED <<orders, nextOrderId, position, fault, requests, responses, calling, live,
                       cumulative, lost>>
    PROVE  \E x : Changes(id, x, status) /\ x.status = status
<1>. DEFINE x == [exchange[id] EXCEPT !.status = status]
<1>1. exchange[id] \in ExchangeOrder /\ id \in DOMAIN exchange
  BY DEF AtWork, PathInv, TypeOK
<1>2. /\ x \in ExchangeOrder /\ x.side = exchange[id].side /\ x.qty = exchange[id].qty
      /\ x.executed = exchange[id].executed /\ x.status = status
  BY <1>1 DEF ExchangeOrder
<1>3. exchange' = [exchange EXCEPT ![id] = x]
  OBVIOUS
<1>. HIDE DEF x
<1>4. userEvents' = Append(userEvents, [id |-> id, status |-> status, executed |-> x.executed])
  BY <1>2 DEF Report
<1>5. Changes(id, x, status)
  BY <1>2, <1>3, <1>4 DEF Changes
<1>. QED BY <1>2, <1>5

LEMMA ExecutesKeep ==
    ASSUME PathInv, ExchangeExecutes
    PROVE  PathInv'
<1>1. PICK id \in DOMAIN exchange :
          /\ AtWork(id)
          /\ \E executed \in exchange[id].executed + 1 .. exchange[id].qty :
                LET full == executed = exchange[id].qty
                IN  /\ exchange' = [exchange EXCEPT ![id].executed = executed,
                                                    ![id].status = IF full THEN "FILLED" ELSE @]
                    /\ Report(id, IF full THEN "FILLED" ELSE "PARTIALLY_FILLED", executed)
  BY DEF ExchangeExecutes
<1>2. PICK executed \in exchange[id].executed + 1 .. exchange[id].qty :
          /\ exchange' = [exchange EXCEPT
                              ![id].executed = executed,
                              ![id].status = IF executed = exchange[id].qty THEN "FILLED" ELSE @]
          /\ Report(id, IF executed = exchange[id].qty THEN "FILLED" ELSE "PARTIALLY_FILLED",
                    executed)
  BY <1>1
<1>3. /\ exchange[id] \in ExchangeOrder /\ exchange[id].status = "WORKING"
      /\ exchange[id].executed \in Nat /\ exchange[id].qty \in Nat
      /\ exchange \in [DOMAIN exchange -> ExchangeOrder]
  BY <1>1, Typed DEF PathInv, TypeOK, AtWork
<1>4. executed \in Nat /\ executed <= exchange[id].qty
  BY <1>3
<1>. DEFINE part == [exchange[id] EXCEPT !.executed = executed]
            x == IF executed = exchange[id].qty THEN [part EXCEPT !.status = "FILLED"] ELSE part
            status == IF executed = exchange[id].qty THEN "FILLED" ELSE "PARTIALLY_FILLED"
<1>5. /\ part \in ExchangeOrder /\ part.side = exchange[id].side /\ part.qty = exchange[id].qty
      /\ part.executed = executed /\ part.status = "WORKING"
  BY <1>3, <1>4 DEF ExchangeOrder
<1>6. exchange' = [exchange EXCEPT ![id] = x]
  <2>1. exchange' = [exchange EXCEPT ![id] =
                        [part EXCEPT !.status = IF executed = exchange[id].qty THEN "FILLED" ELSE @]]
    BY <1>1, <1>2, <1>3, <1>5
  <2>2. executed # exchange[id].qty => [part EXCEPT !.status = part.status] = part
    BY <1>3 DEF ExchangeOrder
  <2>. QED BY <2>1, <2>2
<1>. HIDE DEF part
<1>7. /\ x \in ExchangeOrder /\ x.side = exchange[id].side /\ x.qty = exchange[id].qty
      /\ x.executed = executed
      /\ IF executed = exchange[id].qty THEN x.status = "FILLED" ELSE x.status = "WORKING"
  BY <1>5 DEF ExchangeOrder
<1>. HIDE DEF x
<1>8. userEvents' = Append(userEvents, [id |-> id, status |-> status, executed |-> x.executed])
  BY <1>2, <1>7 DEF Report
<1>9. UNCHANGED <<orders, nextOrderId, position, fault, requests, responses, calling, answer, live,
                  cumulative, wire, lost>>
  BY DEF ExchangeExecutes, engineVars, callVars, adapterVars, lossVars
<1>10. \/ x.status = "FILLED" /\ status = "FILLED" /\ x.executed = x.qty
       \/ x.status = "WORKING" /\ status = "PARTIALLY_FILLED" /\ x.executed < x.qty
  BY <1>3, <1>4, <1>7
<1>. HIDE DEF status
<1>11. Changes(id, x, status)
  BY <1>1, <1>6, <1>7, <1>8, <1>9, <1>10 DEF Changes
<1>. QED BY <1>9, <1>11, UnansweredKeeps

LEMMA ExpiresKeep ==
    ASSUME PathInv, ExchangeExpires
    PROVE  PathInv'
<1>1. PICK id \in DOMAIN exchange :
          /\ AtWork(id)
          /\ exchange' = [exchange EXCEPT ![id].status = "EXPIRED"]
          /\ Report(id, "EXPIRED", exchange[id].executed)
  BY DEF ExchangeExpires
<1>2. UNCHANGED <<orders, nextOrderId, position, fault, requests, responses, calling, answer, live,
                  cumulative, wire, lost>>
  BY DEF ExchangeExpires, engineVars, callVars, adapterVars, lossVars
<1>3. PICK x : Changes(id, x, "EXPIRED")
  BY <1>1, <1>2, Ended
<1>. QED BY <1>2, <1>3, UnansweredKeeps

LEMMA TakesCancel ==
    ASSUME PathInv, ExchangeTakes, NEW r \in wire, TakeCancel(r), wire' = wire \ {r}
    PROVE  PathInv'
<1>1. /\ r.type = "CANCEL" /\ AtWork(r.id) /\ Answered(r, "ok")
      /\ UNCHANGED <<orders, nextOrderId, position, fault, requests, responses, calling, live,
                     cumulative, lost>>
  BY DEF TakeCancel, ExchangeTakes, engineVars, adapterVars, lossVars
<1>2. PICK x : Changes(r.id, x, "CANCELED") /\ x.status = "CANCELED"
  BY <1>1, Ended DEF TakeCancel
<1>3. answer' = IF calling /\ r = Head(requests) THEN "ok" ELSE answer
  BY <1>1 DEF Answered
<1>4. /\ TypeOK' /\ SlotsInv' /\ ExposureInv' /\ ExchangeInv' /\ LiveInv' /\ EventsInv'
      /\ ResponsesInv' /\ CloseInv' /\ ~ fault' /\ FillsReconcile'
      /\ DOMAIN exchange' = DOMAIN exchange
      /\ \A n \in DOMAIN exchange :
             /\ exchange'[n].side = exchange[n].side /\ exchange'[n].qty = exchange[n].qty
             /\ ~ AtWork(n) => exchange'[n] = exchange[n]
             /\ Unread(n) => Unread(n)'
             /\ exchange'[n].status = "FILLED" => exchange[n].status = "FILLED" \/ Unread(n)'
  <2>1. answer' \in {"none", "ok", "error"} /\ wire' \subseteq wire
    BY <1>3 DEF PathInv, TypeOK
  <2>. QED BY <1>2, <2>1, ChangeKeeps
<1>5. RequestsInv'
  <2>1. answer = "ok" => answer' = "ok"
    BY <1>3
  <2>. QED BY <1>1, <1>4, <2>1 DEF PathInv, RequestsInv
<1>6. WireInv'
  <2>1. ASSUME NEW s \in wire', s.type = "NEW", s = Head(requests), answer = "none"
        PROVE  answer' = "none"
    BY <1>1, <1>3, <2>1
  <2>. QED BY <1>1, <1>4, <2>1 DEF PathInv, WireInv
<1>7. CallInv'
  <2>1. ASSUME answer' = "ok", NEW q, q = Head(requests), NEW n, n = q.id
        PROVE  /\ n \in DOMAIN exchange'
               /\ q.type = "CANCEL" => exchange'[n].status = "CANCELED"
               /\ q.type = "NEW" =>
                      /\ exchange'[n].side = q.side /\ exchange'[n].qty = q.qty
                      /\ exchange'[n].status = "FILLED" => Unread(n)'
    <3>1. CASE answer = "ok"
      <4>1. /\ n \in DOMAIN exchange
            /\ q.type = "CANCEL" => exchange[n].status = "CANCELED"
            /\ q.type = "NEW" =>
                   /\ exchange[n].side = q.side /\ exchange[n].qty = q.qty
                   /\ exchange[n].status = "FILLED" => Unread(n)
        BY <2>1, <3>1 DEF PathInv, CallInv
      <4>. QED BY <1>4, <4>1 DEF AtWork
    <3>2. CASE answer # "ok"
      <4>1. q = r
        BY <1>3, <2>1, <3>2
      <4>2. r.id \in DOMAIN exchange /\ exchange'[r.id].status = "CANCELED"
        BY <1>1, <1>2 DEF AtWork, Changes, PathInv, TypeOK
      <4>. QED BY <1>1, <1>4, <2>1, <4>1, <4>2
    <3>. QED BY <3>1, <3>2
  <2>2. ~ calling => answer' = "none"
    BY <1>3 DEF PathInv, CallInv
  <2>. QED BY <1>1, <2>1, <2>2, CallAfter DEF PathInv, CallInv
<1>. QED BY <1>4, <1>5, <1>6, <1>7 DEF PathInv

LEMMA Refuses ==
    ASSUME PathInv, ExchangeTakes, NEW r \in wire, Refuse(r), wire' = wire \ {r}
    PROVE  PathInv'
<1>1. /\ answer' = IF calling /\ r = Head(requests) THEN "error" ELSE answer
      /\ UNCHANGED <<orders, nextOrderId, position, fault, requests, responses, calling, live,
                     cumulative, lost, exchange, userEvents>>
  BY DEF Refuse, Answered, ExchangeTakes, engineVars, adapterVars, lossVars
<1>2. \A id : /\ AtWork(id)' <=> AtWork(id)
              /\ Asked(id)' <=> Asked(id)
              /\ Unread(id)' <=> Unread(id)
              /\ Unbooked(id)' <=> Unbooked(id)
              /\ MayExecute(id)' <=> MayExecute(id)
  BY <1>1 DEF AtWork, Asked, Unread, Unbooked, MayExecute
<1>3. TypeOK'
  BY <1>1 DEF PathInv, TypeOK
<1>4. (SlotsInv /\ ExposureInv /\ LiveInv /\ EventsInv /\ ResponsesInv)'
  BY <1>1 DEF PathInv, SlotsInv, ExposureInv, LiveInv, EventsInv, ResponsesInv
<1>5. ExchangeInv'
  BY <1>1, <1>2 DEF PathInv, ExchangeInv
<1>6. RequestsInv'
  <2>1. ASSUME NEW q \in In(requests), q.type = "NEW", q.id \in DOMAIN exchange
        PROVE  calling /\ q = Head(requests) /\ answer' = "ok"
    <3>1. calling /\ q = Head(requests) /\ answer = "ok"
      BY <2>1 DEF PathInv, RequestsInv
    <3>2. r # q
      BY <2>1 DEF PathInv, WireInv
    <3>. QED BY <1>1, <3>1, <3>2
  <2>. QED BY <1>1, <2>1 DEF PathInv, RequestsInv
<1>7. WireInv'
  <2>1. ASSUME NEW s \in wire', s = Head(requests), answer = "none" PROVE answer' = "none"
    BY <1>1, <2>1
  <2>. QED BY <1>1, <2>1 DEF PathInv, WireInv
<1>8. CallInv'
  BY <1>1, <1>2, CallAfter DEF PathInv, CallInv
<1>9. CloseInv'
  <2>1. ASSUME NEW s \in Sides, NEW id, id = orders'[s].id, Asked(id)' \/ MayExecute(id)',
               orders'[s].offset # "OPEN"
        PROVE  /\ Sign(s) * position.net < 0
               /\ orders'[s].qty <= Engine!CloseableQty(orders'[s].offset)
    BY <1>1, <1>2, <2>1 DEF PathInv, CloseInv
  <2>. QED BY <2>1, <1>1, Closes
<1>10. FillsReconcile'
  <2>1. \A id \in Ids : Booked(id)' <=> Booked(id)
    BY <1>1 DEF Booked, FillUnderWay
  <2>. QED BY <1>1, <2>1, BooksNothing DEF PathInv
<1>. QED BY <1>1, <1>3, <1>4, <1>5, <1>6, <1>7, <1>8, <1>9, <1>10 DEF PathInv

LEMMA TakesNew ==
    ASSUME PathInv, ExchangeTakes, NEW r \in wire, TakeNew(r), wire' = wire \ {r}
    PROVE  PathInv'
<1>. DEFINE x == [side |-> r.side, qty |-> r.qty, executed |-> 0, status |-> "WORKING"]
<1>1. /\ r.type = "NEW" /\ exchange' = With(exchange, r.id, x)
      /\ answer' = IF calling /\ r = Head(requests) THEN "ok" ELSE answer
      /\ UNCHANGED <<orders, nextOrderId, position, fault, requests, responses, calling, live,
                     cumulative, lost, userEvents>>
  BY DEF TakeNew, Answered, ExchangeTakes, engineVars, adapterVars, lossVars
<1>2. /\ r \in Request /\ r.id \in OrderIds /\ r.side \in Sides /\ r.qty \in Nat /\ r.id < nextOrderId
      /\ r.qty >= 1 /\ r.id \notin DOMAIN exchange
      /\ r.id \in lost \/ (calling /\ r = Head(requests) /\ answer = "none")
      /\ r.id \in Ids
  <2>1. /\ r \in Request /\ r.id \in OrderIds /\ r.side \in Sides /\ r.qty \in Nat
        /\ r.id < nextOrderId
    BY Typed DEF PathInv, TypeOK
  <2>2. r.id \in Ids
    BY <2>1, GivenOut DEF PathInv
  <2>. QED BY <1>1, <2>1, <2>2 DEF PathInv, WireInv
<1>3. /\ x \in ExchangeOrder /\ x.side = r.side /\ x.qty = r.qty /\ x.executed = 0
      /\ x.status = "WORKING"
  BY <1>2 DEF ExchangeOrder
<1>. HIDE DEF x
<1>4. /\ DOMAIN exchange' = DOMAIN exchange \cup {r.id}
      /\ exchange'[r.id] = x /\ \A n \in DOMAIN exchange : exchange'[n] = exchange[n]
      /\ exchange' \in [DOMAIN exchange' -> ExchangeOrder]
  <2>1. exchange \in [DOMAIN exchange -> ExchangeOrder]
    BY DEF PathInv, TypeOK
  <2>. QED BY <1>1, <1>2, <1>3, <2>1 DEF With
\* Unless its answer was lost, it is the request the call is about.
<1>5. r.id \notin lost =>
          /\ r \in In(requests) /\ calling /\ r = Head(requests) /\ answer = "none" /\ answer' = "ok"
          /\ orders[r.side].id = r.id /\ orders[r.side].qty = r.qty
          /\ orders[r.side].state = "PENDING_NEW"
          /\ \A s \in In(responses) : s.id # r.id
          /\ r.id # orders[Opposite(r.side)].id
  <2>. SUFFICES ASSUME r.id \notin lost
                PROVE  /\ r \in In(requests) /\ calling /\ r = Head(requests) /\ answer = "none"
                       /\ answer' = "ok"
                       /\ orders[r.side].id = r.id /\ orders[r.side].qty = r.qty
                       /\ orders[r.side].state = "PENDING_NEW"
                       /\ \A s \in In(responses) : s.id # r.id
                       /\ r.id # orders[Opposite(r.side)].id
    OBVIOUS
  <2>1. calling /\ r = Head(requests) /\ answer = "none" /\ answer' = "ok"
    BY <1>1, <1>2
  <2>2. r \in In(requests)
    BY <2>1, HeadTaken DEF PathInv, CallInv, TypeOK
  <2>. QED BY <1>1, <2>1, <2>2 DEF PathInv, RequestsInv, SlotsInv
<1>6. ~ Unread(r.id) /\ ~ AtWork(r.id)
  BY <1>2 DEF Unread, AtWork, PathInv, EventsInv
<1>7. \A n : /\ Unread(n)' <=> Unread(n)
             /\ Unbooked(n)' <=> Unbooked(n)
             /\ Asked(n)' <=> Asked(n)
             /\ n # r.id => (AtWork(n)' <=> AtWork(n))
             /\ n # r.id => (MayExecute(n)' <=> MayExecute(n))
  BY <1>1, <1>4 DEF Unread, Unbooked, Asked, AtWork, MayExecute
<1>8. TypeOK'
  <2>1. DOMAIN exchange' \subseteq 1 .. nextOrderId - 1
    <3>1. r.id \in 1 .. nextOrderId - 1
      BY <1>2, GivenOut DEF PathInv
    <3>. QED BY <1>4, <3>1 DEF PathInv, TypeOK
  <2>2. answer' \in {"none", "ok", "error"} /\ wire' \subseteq Request
    BY <1>1 DEF PathInv, TypeOK
  <2>3. DOMAIN live \subseteq DOMAIN exchange'
    BY <1>4 DEF PathInv, TypeOK
  <2>4. \A q \in In(requests) \cup In(responses) \cup wire' : q.id < nextOrderId
    BY DEF PathInv, TypeOK
  <2>. QED BY <1>1, <1>4, <2>1, <2>2, <2>3, <2>4 DEF PathInv, TypeOK
<1>9. SlotsInv'
  <2>1. \A n \in DOMAIN exchange' \ lost : n # orders[Opposite(exchange'[n].side)].id
    BY <1>3, <1>4, <1>5 DEF PathInv, SlotsInv
  <2>. QED BY <1>1, <2>1 DEF PathInv, SlotsInv
<1>10. ExposureInv'
  BY <1>1 DEF PathInv, ExposureInv
<1>11. RequestsInv'
  <2>1. ASSUME NEW q \in In(requests), q.type = "NEW", q.id \in DOMAIN exchange'
        PROVE  calling /\ q = Head(requests) /\ answer' = "ok"
    <3>1. CASE q.id \in DOMAIN exchange
      BY <1>1, <2>1, <3>1 DEF PathInv, RequestsInv
    <3>2. CASE q.id = r.id
      <4>1. q.id \notin lost
        BY <2>1 DEF PathInv, RequestsInv
      <4>2. PICK i \in DOMAIN requests : q = requests[i]
        BY DEF In
      <4>3. 1 \in DOMAIN requests /\ Head(requests) = requests[1]
        BY <1>5, <3>2, <4>1, HeadTaken DEF PathInv, CallInv, TypeOK
      <4>4. i = 1
        BY <1>5, <2>1, <3>2, <4>1, <4>2, <4>3 DEF PathInv, RequestsInv
      <4>. QED BY <1>5, <3>2, <4>1, <4>2, <4>3, <4>4
    <3>. QED BY <1>4, <2>1, <3>1, <3>2
  <2>. QED BY <1>1, <2>1 DEF PathInv, RequestsInv
<1>12. WireInv'
  <2>1. ASSUME NEW s \in wire', s.type = "NEW"
        PROVE  /\ s.qty >= 1 /\ s.id \notin DOMAIN exchange'
               /\ s.id \in lost \/ (calling /\ s = Head(requests) /\ answer' = "none")
    <3>1. s \in wire /\ s # r /\ s.id # r.id
      BY <1>1, <2>1 DEF PathInv, WireInv
    <3>. QED BY <1>1, <1>4, <2>1, <3>1 DEF PathInv, WireInv
  <2>. QED BY <1>1, <2>1 DEF PathInv, WireInv
<1>13. CallInv'
  <2>1. ASSUME answer' = "ok", NEW q, q = Head(requests), NEW n, n = q.id
        PROVE  /\ n \in DOMAIN exchange'
               /\ q.type = "CANCEL" => exchange'[n].status = "CANCELED"
               /\ q.type = "NEW" =>
                      /\ exchange'[n].side = q.side /\ exchange'[n].qty = q.qty
                      /\ exchange'[n].status = "FILLED" => Unread(n)'
    <3>1. CASE answer = "ok"
      <4>1. /\ n \in DOMAIN exchange
            /\ q.type = "CANCEL" => exchange[n].status = "CANCELED"
            /\ q.type = "NEW" =>
                   /\ exchange[n].side = q.side /\ exchange[n].qty = q.qty
                   /\ exchange[n].status = "FILLED" => Unread(n)
        BY <2>1, <3>1 DEF PathInv, CallInv
      <4>. QED BY <1>4, <1>7, <4>1
    <3>2. CASE answer # "ok"
      <4>1. q = r
        BY <1>1, <2>1, <3>2
      <4>. QED BY <1>1, <1>3, <1>4, <2>1, <4>1
    <3>. QED BY <3>1, <3>2
  <2>2. ~ calling => answer' = "none"
    BY <1>1 DEF PathInv, CallInv
  <2>. QED BY <1>1, <2>1, <2>2, CallAfter DEF PathInv, CallInv
<1>14. ExchangeInv'
  <2>1. ASSUME NEW n \in DOMAIN exchange'
        PROVE  /\ exchange'[n].executed <= exchange'[n].qty
               /\ exchange'[n].status = "FILLED" <=> exchange'[n].executed = exchange'[n].qty
    BY <1>2, <1>3, <1>4 DEF PathInv, ExchangeInv
  <2>2. ASSUME NEW n \in DOMAIN exchange', MayExecute(n)'
        PROVE  /\ orders[exchange'[n].side].id = n
               /\ orders[exchange'[n].side].state # "DEAD"
               /\ orders[exchange'[n].side].qty = exchange'[n].qty
    <3>1. CASE n = r.id
      <4>1. n \notin lost
        BY <1>1, <2>2 DEF MayExecute
      <4>. QED BY <1>3, <1>4, <1>5, <3>1, <4>1
    <3>2. CASE n # r.id
      BY <1>4, <1>7, <2>2, <3>2, ExecutingOrder
    <3>. QED BY <3>1, <3>2
  <2>3. ASSUME NEW n \in DOMAIN exchange', n \notin lost, AtWork(n)' \/ Unread(n)
        PROVE  /\ n \in DOMAIN live \/ Asked(n)
               /\ cumulative[n] < exchange'[n].qty
               /\ ~ Unbooked(n)
    <3>1. CASE n = r.id
      <4>1. Asked(r.id) /\ ~ Unbooked(r.id)
        BY <1>1, <1>5, <2>3, <3>1 DEF Asked, Unbooked
      <4>2. cumulative[r.id] = 0
        BY <1>2 DEF PathInv, ExchangeInv
      <4>. QED BY <1>2, <1>3, <1>4, <3>1, <4>1, <4>2
    <3>2. CASE n # r.id
      <4>1. n \in DOMAIN exchange /\ (AtWork(n) \/ Unread(n)) /\ exchange'[n] = exchange[n]
        BY <1>4, <1>7, <2>3, <3>2
      <4>. QED BY <2>3, <4>1 DEF PathInv, ExchangeInv
    <3>. QED BY <3>1, <3>2
  <2>4. \A n \in Ids \ DOMAIN exchange' : cumulative[n] = 0
    BY <1>4 DEF PathInv, ExchangeInv
  <2>. QED BY <1>1, <1>7, <2>1, <2>2, <2>3, <2>4 DEF ExchangeInv
<1>15. LiveInv'
  BY <1>1, <1>4 DEF PathInv, LiveInv, TypeOK
<1>16. EventsInv'
  BY <1>1, <1>4 DEF PathInv, EventsInv
<1>17. ResponsesInv'
  <2>1. \A s \in In(responses) : s.id = r.id => r.id \in lost
    BY <1>5
  <2>. QED BY <1>1, <1>4, <2>1 DEF PathInv, ResponsesInv
<1>18. CloseInv'
  <2>1. \A n : MayExecute(n)' => MayExecute(n) \/ Asked(n)
    <3>1. MayExecute(r.id)' => Asked(r.id)
      BY <1>1, <1>5 DEF MayExecute, Asked
    <3>. QED BY <1>7, <3>1
  <2>2. ASSUME NEW s \in Sides, NEW n, n = orders'[s].id, Asked(n)' \/ MayExecute(n)',
               orders'[s].offset # "OPEN"
        PROVE  /\ Sign(s) * position.net < 0
               /\ orders'[s].qty <= Engine!CloseableQty(orders'[s].offset)
    BY <1>1, <1>7, <2>1, <2>2 DEF PathInv, CloseInv
  <2>. QED BY <2>2, <1>1, Closes
<1>19. FillsReconcile'
  <2>1. \A n : FillUnderWay(n)' <=> FillUnderWay(n)
    BY <1>1 DEF FillUnderWay
  <2>2. \A n \in Ids : Booked(n)' <=> Booked(n)
    BY <1>1, <1>2, <1>3, <1>4, <2>1 DEF Booked
  <2>. QED BY <1>1, <1>4, <2>2, BooksNothing DEF PathInv
<1>. QED BY <1>1, <1>8, <1>9, <1>10, <1>11, <1>12, <1>13, <1>14, <1>15, <1>16, <1>17, <1>18, <1>19
         DEF PathInv

LEMMA TakesKeep ==
    ASSUME PathInv, ExchangeTakes
    PROVE  PathInv'
<1>1. PICK r \in wire : (TakeNew(r) \/ TakeCancel(r) \/ Refuse(r)) /\ wire' = wire \ {r}
  BY DEF ExchangeTakes
<1>. QED BY <1>1, TakesNew, TakesCancel, Refuses

LEMMA StaysKeep ==
    ASSUME PathInv, UNCHANGED vars
    PROVE  PathInv'
<1>1. UNCHANGED <<orders, nextOrderId, position, fault, requests, responses, calling, answer, live,
                  cumulative, userEvents, wire, exchange, lost>>
  BY DEF vars, engineVars, callVars, adapterVars, exchangeVars, lossVars
<1>2. \A id : /\ AtWork(id)' <=> AtWork(id)
              /\ Asked(id)' <=> Asked(id)
              /\ Unread(id)' <=> Unread(id)
              /\ Unbooked(id)' <=> Unbooked(id)
              /\ MayExecute(id)' <=> MayExecute(id)
  BY <1>1 DEF AtWork, Asked, Unread, Unbooked, MayExecute
<1>3. (TypeOK /\ SlotsInv /\ ExposureInv /\ RequestsInv /\ WireInv /\ LiveInv /\ EventsInv
       /\ ResponsesInv)'
  BY <1>1 DEF PathInv, TypeOK, SlotsInv, ExposureInv, RequestsInv, WireInv, LiveInv, EventsInv,
              ResponsesInv
<1>4. CallInv'
  BY <1>1, <1>2, CallAfter DEF PathInv, CallInv
<1>5. ExchangeInv'
  BY <1>1, <1>2 DEF PathInv, ExchangeInv
<1>6. CloseInv'
  <2>1. ASSUME NEW s \in Sides, NEW id, id = orders'[s].id, Asked(id)' \/ MayExecute(id)',
               orders'[s].offset # "OPEN"
        PROVE  /\ Sign(s) * position.net < 0
               /\ orders'[s].qty <= Engine!CloseableQty(orders'[s].offset)
    BY <1>1, <1>2, <2>1 DEF PathInv, CloseInv
  <2>. QED BY <2>1, <1>1, Closes
<1>7. FillsReconcile'
  <2>1. \A id \in Ids : Booked(id)' <=> Booked(id)
    BY <1>1 DEF Booked, FillUnderWay
  <2>. QED BY <1>1, <2>1, BooksNothing DEF PathInv
<1>. QED BY <1>1, <1>3, <1>4, <1>5, <1>6, <1>7 DEF PathInv
-----------------------------------------------------------------------------
(***************************************************************************)
(* The theorems.                                                           *)
(***************************************************************************)

\* The inductive invariant holds throughout: every order that may still execute
\* is in the slot of its side, no execution is reported twice, and what a message
\* says is so at the exchange.
THEOREM BinanceInvariant == Spec => []PathInv
<1>1. Init => PathInv
  BY InitPath
<1>2. PathInv /\ [Next]_vars => PathInv'
  <2>. SUFFICES ASSUME PathInv, [Next]_vars PROVE PathInv'
    OBVIOUS
  <2>1. CASE EngineDecides
    BY <2>1, DecidesKeep
  <2>2. CASE EngineReceives
    BY <2>2, ReceivesKeep
  <2>3. CASE GatewaySends
    BY <2>3, SendsKeeps
  <2>4. CASE GatewayReturns
    BY <2>4, ReturnsKeep
  <2>5. CASE GatewayReadsEvent
    BY <2>5, DroppedKeeps, ReportedKeeps
  <2>6. CASE ExchangeTakes
    BY <2>6, TakesKeep
  <2>7. CASE ExchangeExecutes
    BY <2>7, ExecutesKeep
  <2>8. CASE ExchangeExpires
    BY <2>8, ExpiresKeep
  <2>9. CASE UNCHANGED vars
    BY <2>9, StaysKeep
  <2>. QED BY <2>1, <2>2, <2>3, <2>4, <2>5, <2>6, <2>7, <2>8, <2>9 DEF Next
<1>. QED BY <1>1, <1>2, PTL DEF Spec

\* The engine's position is what the orders executed to the end amount to, less
\* those whose last report is on its way (PositionKeeper::addFill with the
\* cumulative quantity the adapter reports).
THEOREM FillsAlwaysReconcile == Spec => []FillsReconcile
<1>1. PathInv => FillsReconcile
  BY DEF PathInv
<1>. QED BY <1>1, BinanceInvariant, PTL

\* The order manager never replaces an order that may still execute, unless its
\* answer was lost.
THEOREM NothingRestsUnseenEver == Spec => []NothingRestsUnseen
<1>1. ASSUME PathInv PROVE NothingRestsUnseen
  <2>. SUFFICES ASSUME NEW id \in DOMAIN exchange \ lost, AtWork(id)
                PROVE  orders[exchange[id].side].id = id /\ Engine!Working(exchange[id].side)
    BY DEF NothingRestsUnseen
  <2>. DEFINE s == exchange[id].side
  <2>1. s \in Sides /\ orders[s].id = id /\ orders[s].state # "DEAD" /\ id \in OrderIds
    BY <1>1, ExecutingOrder, Typed DEF MayExecute, PathInv
  <2>2. orders[s].state # "INVALID"
    BY <1>1, <2>1 DEF PathInv, SlotsInv, OrderIds
  <2>3. orders[s].state \in {"INVALID", "PENDING_NEW", "LIVE", "PENDING_CANCEL", "DEAD"}
    BY <1>1, <2>1, Typed DEF PathInv
  <2>. QED BY <2>1, <2>2, <2>3 DEF Engine!Working
<1>. QED BY <1>1, BinanceInvariant, PTL

\* What one order adds to a sum; none if it is no order at all.
LEMMA TotalWithOne ==
    ASSUME NEW v \in [Ids -> Int], NEW w \in [Ids -> Int], NEW id, NEW c \in Int,
           id \in Ids => w[id] = v[id] + c, id \notin Ids => c = 0,
           \A n \in Ids : n # id => w[n] = v[n]
    PROVE  Total(w) = Total(v) + c
<1>1. CASE id \in Ids
  BY <1>1, TotalAdds
<1>2. CASE id \notin Ids
  <2>1. w = v /\ c = 0
    BY <1>2
  <2>2. Total(v) \in Int
    BY TotalOfNone
  <2>. QED BY <2>1, <2>2
<1>. QED BY <1>1, <1>2

\* What the order in a slot has executed and not booked.
Ahead(side) == IF MayExecute(orders[side].id) THEN Executed(orders[side].id) ELSE 0

LEMMA AheadBounds ==
    ASSUME PathInv
    PROVE  /\ Ahead("BUY") \in Int /\ Ahead("SELL") \in Int
           /\ Ahead("BUY") >= 0 /\ (Ahead("BUY") # 0 => orders["BUY"].id # 0
                                                        /\ Ahead("BUY") <= orders["BUY"].qty)
           /\ Ahead("SELL") <= 0 /\ (Ahead("SELL") # 0 => orders["SELL"].id # 0
                                                          /\ Ahead("SELL") >= -orders["SELL"].qty)
<1>1. ASSUME NEW s \in Sides, MayExecute(orders[s].id)
      PROVE  /\ orders[s].id # 0 /\ exchange[orders[s].id].side = s
             /\ Executed(orders[s].id) = Sign(s) * exchange[orders[s].id].executed
             /\ exchange[orders[s].id].executed \in Nat
             /\ exchange[orders[s].id].executed <= orders[s].qty /\ orders[s].qty \in Nat
  <2>. DEFINE id == orders[s].id
  <2>1. /\ id \in DOMAIN exchange \ lost /\ exchange[id].side \in Sides
        /\ orders[exchange[id].side].id = id /\ orders[exchange[id].side].qty = exchange[id].qty
    BY <1>1, ExecutingOrder
  <2>2. id \in OrderIds /\ exchange[id].executed \in Nat /\ orders[s].qty \in Nat
    BY <2>1, Typed DEF PathInv
  <2>3. exchange[id].side = s
    BY <2>1, <2>2, SideFacts DEF PathInv, SlotsInv, OrderIds
  <2>4. exchange[id].executed <= exchange[id].qty
    BY <2>1 DEF PathInv, ExchangeInv
  <2>. QED BY <2>1, <2>2, <2>3, <2>4 DEF Executed, OrderIds
<1>2. Sign("BUY") = 1 /\ Sign("SELL") = -1 /\ "BUY" \in Sides /\ "SELL" \in Sides
  BY SideFacts
<1>3. CASE MayExecute(orders["BUY"].id)
  <2>1. /\ Ahead("BUY") \in Nat /\ Ahead("BUY") <= orders["BUY"].qty /\ orders["BUY"].id # 0
    BY <1>1, <1>2, <1>3 DEF Ahead
  <2>2. CASE MayExecute(orders["SELL"].id)
    BY <1>1, <1>2, <2>1, <2>2 DEF Ahead
  <2>3. CASE ~ MayExecute(orders["SELL"].id)
    BY <2>1, <2>3 DEF Ahead
  <2>. QED BY <2>2, <2>3
<1>4. CASE ~ MayExecute(orders["BUY"].id)
  <2>1. Ahead("BUY") = 0
    BY <1>4 DEF Ahead
  <2>2. CASE MayExecute(orders["SELL"].id)
    BY <1>1, <1>2, <2>1, <2>2 DEF Ahead
  <2>3. CASE ~ MayExecute(orders["SELL"].id)
    BY <2>1, <2>3 DEF Ahead
  <2>. QED BY <2>2, <2>3
<1>. QED BY <1>3, <1>4

\* Executions the engine has not heard of are those of the orders in the slots.
LEMMA AccountIsPositionAndSlots ==
    ASSUME PathInv
    PROVE  Holding({id \in DOMAIN exchange \ lost : exchange[id].status \in {"WORKING", "FILLED"}})
               = position.net + Ahead("BUY") + Ahead("SELL")
<1>. DEFINE ids == {id \in DOMAIN exchange \ lost : exchange[id].status \in {"WORKING", "FILLED"}}
            account == [id \in Ids |-> IF id \in ids THEN Executed(id) ELSE 0]
            b == orders["BUY"].id
            s == orders["SELL"].id
            between == [id \in Ids |-> IF id = b THEN account[id] ELSE Amounts[id]]
<1>1. Holding(ids) = Total(account)
  BY DEF Holding
<1>2. /\ Amounts \in [Ids -> Int] /\ account \in [Ids -> Int]
      /\ \A id \in Ids : /\ account[id] = IF id \in ids THEN Executed(id) ELSE 0
                         /\ Amounts[id] = IF Booked(id) THEN Executed(id) ELSE 0
  BY AmountsTyped DEF PathInv, Amounts
<1>3. /\ between \in [Ids -> Int]
      /\ \A id \in Ids : between[id] = IF id = b THEN account[id] ELSE Amounts[id]
  BY <1>2
<1>4. \A id : id \in ids <=> Booked(id) \/ MayExecute(id)
  <2>1. \A id : Booked(id) \/ MayExecute(id) => id \in ids
    BY ExecutingOrder DEF Booked
  <2>2. \A id : id \in ids => Booked(id) \/ MayExecute(id)
    BY Under DEF Booked, MayExecute, AtWork
  <2>. QED BY <2>1, <2>2
<1>5. \A id : ~ (Booked(id) /\ MayExecute(id))
  BY Under DEF Booked, MayExecute, AtWork
<1>6. \A id : MayExecute(id) => id = b \/ id = s
  BY ExecutingOrder, SideFacts
<1>7. /\ \A id : MayExecute(id) => id \in Ids
      /\ b = s => ~ MayExecute(b)
  <2>1. \A id : MayExecute(id) => id \in Ids /\ id # 0
    BY ExecutingOrder, Typed DEF PathInv, OrderIds
  <2>. QED BY <2>1 DEF PathInv, SlotsInv
<1>. HIDE DEF account, between, ids
<1>8. \A id \in Ids : account[id] = Amounts[id] + IF MayExecute(id) THEN Executed(id) ELSE 0
  <2>. SUFFICES ASSUME NEW id \in Ids
                PROVE  account[id] = Amounts[id] + IF MayExecute(id) THEN Executed(id) ELSE 0
    OBVIOUS
  <2>1. CASE MayExecute(id)
    <3>1. account[id] = Executed(id) /\ Amounts[id] = 0 /\ account[id] \in Int
      BY <1>2, <1>4, <1>5, <2>1
    <3>. QED BY <2>1, <3>1
  <2>2. CASE ~ MayExecute(id)
    <3>1. account[id] = Amounts[id] /\ Amounts[id] \in Int
      BY <1>2, <1>4, <2>2
    <3>. QED BY <2>2, <3>1
  <2>. QED BY <2>1, <2>2
<1>9. Ahead("BUY") \in Int /\ Ahead("SELL") \in Int
  BY AheadBounds
<1>10. Total(between) = Total(Amounts) + Ahead("BUY")
  <2>1. b \in Ids => between[b] = Amounts[b] + Ahead("BUY")
    BY <1>3, <1>8 DEF Ahead
  <2>2. b \notin Ids => Ahead("BUY") = 0
    BY <1>7 DEF Ahead
  <2>3. \A n \in Ids : n # b => between[n] = Amounts[n]
    BY <1>3
  <2>. DEFINE c == Ahead("BUY")
  <2>4. /\ b \in Ids => between[b] = Amounts[b] + c
        /\ b \notin Ids => c = 0
        /\ c \in Int
    BY <1>9, <2>1, <2>2
  <2>5. Amounts \in [Ids -> Int] /\ between \in [Ids -> Int]
    BY <1>2, <1>3
  <2>. HIDE DEF b, c
  <2>6. Total(between) = Total(Amounts) + c
    BY ONLY <2>3, <2>4, <2>5, TotalWithOne
  <2>. QED BY <2>6 DEF c
<1>11. Total(account) = Total(between) + Ahead("SELL")
  <2>1. s \in Ids => account[s] = between[s] + Ahead("SELL")
    <3>1. CASE s = b
      <4>1. Ahead("SELL") = 0
        BY <1>7, <3>1 DEF Ahead
      <4>. QED BY <1>2, <1>3, <3>1, <4>1
    <3>2. CASE s # b
      BY <1>3, <1>8, <3>2 DEF Ahead
    <3>. QED BY <3>1, <3>2
  <2>2. s \notin Ids => Ahead("SELL") = 0
    BY <1>7 DEF Ahead
  <2>3. ASSUME NEW n \in Ids, n # s PROVE account[n] = between[n]
    <3>1. n # b => ~ MayExecute(n)
      BY <1>6, <2>3
    <3>. QED BY <1>2, <1>3, <1>8, <3>1
  <2>. QED BY <1>2, <1>3, <1>9, <2>1, <2>2, <2>3, TotalWithOne
<1>12. position.net = Total(Amounts) /\ Total(Amounts) \in Int
  BY <1>2, Reconciled, TotalOfNone DEF PathInv
<1>13. Holding(ids) = position.net + Ahead("BUY") + Ahead("SELL")
  BY <1>1, <1>9, <1>10, <1>11, <1>12
<1>. QED BY <1>13 DEF ids

\* Where a limit is set, the account itself stays within it, executions the engine
\* has not heard of included (RiskManager::checkPreTradeRisk tests only the
\* position and the order at hand).
THEOREM AccountStaysWithinLimit ==
    ASSUME MaxPosition # QtyInvalid
    PROVE  Spec => []AccountWithinLimit
<1>1. ASSUME PathInv PROVE AccountWithinLimit
  <2>. DEFINE held == position.net + Ahead("BUY") + Ahead("SELL")
  <2>1. /\ Ahead("BUY") \in Int /\ Ahead("SELL") \in Int
        /\ Ahead("BUY") >= 0 /\ (Ahead("BUY") # 0 => orders["BUY"].id # 0
                                                     /\ Ahead("BUY") <= orders["BUY"].qty)
        /\ Ahead("SELL") <= 0 /\ (Ahead("SELL") # 0 => orders["SELL"].id # 0
                                                       /\ Ahead("SELL") >= -orders["SELL"].qty)
    BY <1>1, AheadBounds
  <2>2. /\ -MaxPosition <= position.net /\ position.net <= MaxPosition
        /\ orders["BUY"].id # 0 => position.net + orders["BUY"].qty <= MaxPosition
        /\ orders["SELL"].id # 0 => position.net - orders["SELL"].qty >= -MaxPosition
    BY <1>1 DEF PathInv, ExposureInv
  <2>3. /\ position.net \in Int /\ MaxPosition \in Nat
        /\ orders["BUY"].qty \in Nat /\ orders["SELL"].qty \in Nat
    BY <1>1, Typed, SideFacts, BinancePathAssumption DEF PathInv, TypeOK
  <2>4. held \in Int /\ held <= MaxPosition /\ -MaxPosition <= held
    <3>1. position.net + Ahead("BUY") <= MaxPosition
      BY ONLY <2>1, <2>2, <2>3
    <3>2. position.net + Ahead("SELL") >= -MaxPosition
      BY ONLY <2>1, <2>2, <2>3
    <3>. QED BY ONLY <2>1, <2>3, <3>1, <3>2
  <2>5. Holding({id \in DOMAIN exchange \ lost : exchange[id].status \in {"WORKING", "FILLED"}}) = held
    BY <1>1, AccountIsPositionAndSlots
  <2>. HIDE DEF held
  <2>6. Engine!Magnitude(held) <= MaxPosition
    BY <2>3, <2>4 DEF Engine!Magnitude
  <2>. QED BY <2>5, <2>6 DEF AccountWithinLimit
<1>. QED BY <1>1, BinanceInvariant, PTL
-----------------------------------------------------------------------------
(***************************************************************************)
(* An order counted as live was taken by the exchange, and so was one      *)
(* whose acceptance is still to be read.                                   *)
(***************************************************************************)
TakenInv ==
    /\ LiveWasTaken
    /\ \A r \in In(responses) : r.type = "ACCEPTED" => r.id \in DOMAIN exchange

\* The exchange forgets no order, and none of its steps is seen at once.
LEMMA ExchangeGrows ==
    ASSUME ExchangeTakes \/ ExchangeExecutes \/ ExchangeExpires
    PROVE  UNCHANGED <<orders, responses>> /\ DOMAIN exchange \subseteq DOMAIN exchange'
<1>1. CASE ExchangeTakes
  <2>1. PICK r \in wire : TakeNew(r) \/ TakeCancel(r) \/ Refuse(r)
    BY <1>1 DEF ExchangeTakes
  <2>. QED BY <1>1, <2>1 DEF ExchangeTakes, TakeNew, TakeCancel, Refuse, With, engineVars
<1>2. CASE ExchangeExecutes
  <2>1. PICK id \in DOMAIN exchange : \E n, status :
            exchange' = [exchange EXCEPT ![id].executed = n, ![id].status = status]
    BY <1>2 DEF ExchangeExecutes
  <2>2. DOMAIN exchange' = DOMAIN exchange
    BY <2>1
  <2>. QED BY <1>2, <2>2 DEF ExchangeExecutes, engineVars
<1>3. CASE ExchangeExpires
  BY <1>3 DEF ExchangeExpires, engineVars
<1>. QED BY <1>1, <1>2, <1>3

\* Where neither slots nor acceptances are new, nothing has to be shown.
LEMMA TakenStays ==
    ASSUME TakenInv, orders' = orders, DOMAIN exchange \subseteq DOMAIN exchange',
           \A r \in In(responses') : r \in In(responses) \/ r.type # "ACCEPTED" \/ r.id \in DOMAIN exchange'
    PROVE  TakenInv'
BY SideFacts DEF TakenInv, LiveWasTaken, Engine!Sides

\* A decision makes no order live; it cancels one that is.
LEMMA DecisionsKeepTaken ==
    ASSUME PathInv, TakenInv, EngineDecides
    PROVE  TakenInv'
<1>1. PICK side \in Sides : Fills(side) \/ Cancels(side)
  BY Decided DEF EngineDecides, PathInv
<1>2. UNCHANGED <<responses, exchange>>
  BY DEF EngineDecides, exchangeVars
<1>3. orders \in [Sides -> Slot]
  BY DEF PathInv, TypeOK
<1>4. ASSUME NEW s \in Sides, orders'[s].state \in {"LIVE", "PENDING_CANCEL"}
      PROVE  orders'[s].id = orders[s].id /\ orders[s].state \in {"LIVE", "PENDING_CANCEL"}
  <2>1. CASE s # side
    BY <1>1, <1>3, <1>4, <2>1 DEF Fills, Cancels
  <2>2. CASE s = side /\ Fills(side)
    BY <1>4, <2>2 DEF Fills
  <2>3. CASE s = side /\ Cancels(side)
    BY <1>3, <2>3 DEF Cancels, Slot
  <2>. QED BY <1>1, <2>1, <2>2, <2>3
<1>5. LiveWasTaken'
  BY <1>2, <1>4, SideFacts DEF TakenInv, LiveWasTaken, Engine!Sides
<1>. QED BY <1>2, <1>5 DEF TakenInv

\* Only an acceptance that names the order in the slot, or the refusal of its own
\* cancel, makes an order live.
LEMMA ResponsesKeepTaken ==
    ASSUME PathInv, TakenInv, EngineReceives
    PROVE  TakenInv'
<1>1. PICK r : r = Head(responses)
  OBVIOUS
<1>2. /\ r \in In(responses) /\ r \in ResponseSet
      /\ In(responses) = {r} \cup In(responses')
      /\ exchange' = exchange
      /\ orders' = IF orders[r.side].id = r.id
                   THEN [orders EXCEPT ![r.side] = Engine!Updated(@, r)] ELSE orders
  BY <1>1, ResponseTaken
<1>3. orders \in [Sides -> Slot] /\ r.side \in Sides
  BY <1>2 DEF PathInv, TypeOK, ResponseSet
<1>4. r.type = "FILLED" => r.leaves = 0
  BY <1>2 DEF PathInv, ResponsesInv
<1>5. ASSUME NEW s \in Sides, orders'[s].state \in {"LIVE", "PENDING_CANCEL"}
      PROVE  orders'[s].id \in DOMAIN exchange
  <2>1. CASE s # r.side \/ orders[r.side].id # r.id
    <3>1. orders'[s] = orders[s]
      BY <1>2, <1>3, <2>1
    <3>. QED BY <1>5, <3>1, SideFacts DEF TakenInv, LiveWasTaken
  <2>2. CASE s = r.side /\ orders[r.side].id = r.id
    <3>. DEFINE o == orders[r.side]
    <3>1. orders'[s] = Engine!Updated(o, r) /\ o \in Slot /\ o.id = r.id
      BY <1>2, <1>3, <2>2
    <3>2. Engine!Updated(o, r).id = o.id
      BY <3>1 DEF Engine!Updated, Slot
    <3>3. r.type = "ACCEPTED" \/ o.state \in {"LIVE", "PENDING_CANCEL"}
      BY <1>4, <1>5, <3>1 DEF Engine!Updated, Slot
    <3>4. CASE r.type = "ACCEPTED"
      BY <1>2, <3>1, <3>2, <3>4 DEF TakenInv
    <3>5. CASE o.state \in {"LIVE", "PENDING_CANCEL"}
      BY <1>3, <3>1, <3>2, <3>5, SideFacts DEF TakenInv, LiveWasTaken
    <3>. QED BY <3>3, <3>4, <3>5
  <2>. QED BY <2>1, <2>2
<1>6. LiveWasTaken'
  BY <1>2, <1>5, SideFacts DEF LiveWasTaken, Engine!Sides
<1>. QED BY <1>2, <1>6 DEF TakenInv

\* A call is answered with an acceptance only if the exchange took the order.
LEMMA ReturnsKeepTaken ==
    ASSUME PathInv, TakenInv, GatewayReturns
    PROVE  TakenInv'
<1>1. PICK q : q = Head(requests)
  OBVIOUS
<1>2. /\ Done(q) \/ NotDone(q)
      /\ UNCHANGED <<orders, exchange>>
  BY <1>1, Returned
<1>3. PICK p \in ResponseSet : responses' = Append(responses, p) /\ p.id = q.id
  BY <1>1, ReturnFacts
<1>4. responses \in Seq(ResponseSet)
  BY DEF PathInv, TypeOK
<1>5. /\ In(responses') = In(responses) \cup {p}
      /\ Len(responses) + 1 \in DOMAIN responses'
      /\ responses'[Len(responses) + 1] = p
  BY <1>3, <1>4, ResponseAppended
<1>6. CASE NotDone(q)
  <2>1. p.type # "ACCEPTED"
    BY <1>4, <1>5, <1>6 DEF NotDone
  <2>. QED BY <1>2, <1>5, <2>1, TakenStays
<1>7. CASE Done(q)
  <2>1. q.id \in DOMAIN exchange
    BY <1>1, <1>7 DEF Done, PathInv, CallInv
  <2>. QED BY <1>2, <1>3, <1>5, <2>1, TakenStays
<1>. QED BY <1>2, <1>6, <1>7

\* A report is passed on only for an order whose call was answered, hence taken.
LEMMA EventsKeepTaken ==
    ASSUME PathInv, TakenInv, GatewayReadsEvent
    PROVE  TakenInv'
<1>1. PICK e : e = Head(userEvents)
  OBVIOUS
<1>2. UNCHANGED <<orders, exchange>> /\ e \in Event
  BY <1>1, EventTaken
<1>3. CASE e.id \notin DOMAIN live \/ e.executed <= cumulative[e.id]
  <2>1. responses' = responses
    BY <1>1, <1>3 DEF GatewayReadsEvent, HandleUserEvent
  <2>. QED BY <1>2, <2>1, TakenStays
<1>4. CASE e.id \in DOMAIN live /\ ~ (e.executed <= cumulative[e.id])
  <2>. DEFINE o == live[e.id]
              p == [type |-> MapOrderStatus(e.status), id |-> o.id, side |-> o.side,
                    offset |-> o.offset, exec |-> e.executed, leaves |-> o.qty - e.executed]
  <2>1. responses' = Append(responses, p)
    BY <1>1, <1>4 DEF GatewayReadsEvent, HandleUserEvent, PublishClientResponse, Response,
                      Engine!Response
  <2>2. o.id = e.id /\ e.id \in DOMAIN exchange
    BY <1>4 DEF PathInv, LiveInv, TypeOK
  <2>3. p \in ResponseSet
    <3>1. o \in Request /\ e.status \in {"PARTIALLY_FILLED", "FILLED", "CANCELED", "EXPIRED"}
          /\ e.executed \in Nat
      BY <1>2, <1>4 DEF PathInv, TypeOK, Event
    <3>2. o.id \in OrderIds /\ o.side \in Sides /\ o.offset \in Offsets /\ o.qty \in Nat
      BY <3>1 DEF Request
    <3>3. MapOrderStatus(e.status) \in {"ACCEPTED", "REJECTED", "FILLED", "CANCELED",
                                        "CANCEL_REJECTED"}
      BY <3>1 DEF MapOrderStatus
    <3>4. o.qty - e.executed \in Int
      BY <3>1, <3>2
    <3>. HIDE DEF o
    <3>. QED BY <3>1, <3>2, <3>3, <3>4 DEF ResponseSet
  <2>4. p.id = e.id
    BY <2>2
  <2>. HIDE DEF p
  <2>5. responses \in Seq(ResponseSet)
    BY DEF PathInv, TypeOK
  <2>6. In(responses') = In(responses) \cup {p}
    BY <2>1, <2>3, <2>5, ResponseAppended
  <2>. QED BY <1>2, <2>2, <2>4, <2>6, TakenStays
<1>. QED BY <1>3, <1>4

\* What the engine counts as live the exchange has taken: a report about an order
\* that was replaced (OrderManager::onOrderUpdate compares the ids) is never taken
\* for the acceptance of its successor.
THEOREM LiveOrdersWereTaken == Spec => []LiveWasTaken
<1>1. Init => TakenInv
  <2>. SUFFICES ASSUME Init PROVE TakenInv
    OBVIOUS
  <2>1. responses = << >> /\ \A s \in Sides : orders[s].state = "INVALID"
    BY SideFacts DEF Init, Engine!Init, Engine!NoOrder
  <2>. QED BY <2>1, EmptyQueue, SideFacts DEF TakenInv, LiveWasTaken
<1>2. PathInv /\ TakenInv /\ [Next]_vars => TakenInv'
  <2>. SUFFICES ASSUME PathInv, TakenInv, [Next]_vars PROVE TakenInv'
    OBVIOUS
  <2>1. CASE ExchangeTakes \/ ExchangeExecutes \/ ExchangeExpires
    BY <2>1, ExchangeGrows, TakenStays
  <2>2. CASE GatewaySends
    <3>1. UNCHANGED <<orders, responses, exchange>>
      BY <2>2 DEF GatewaySends, engineVars
    <3>. QED BY <3>1, TakenStays
  <2>3. CASE UNCHANGED vars
    <3>1. UNCHANGED <<orders, responses, exchange>>
      BY <2>3 DEF vars, engineVars, exchangeVars
    <3>. QED BY <3>1, TakenStays
  <2>. QED BY <2>1, <2>2, <2>3, DecisionsKeepTaken, ResponsesKeepTaken, ReturnsKeepTaken,
              EventsKeepTaken DEF Next
<1>3. TakenInv => LiveWasTaken
  BY DEF TakenInv
<1>. QED BY <1>1, <1>2, <1>3, BinanceInvariant, PTL DEF Spec
=============================================================================
