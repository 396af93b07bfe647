----------------------- MODULE SimexOrderPathProofs ------------------------
(***************************************************************************)
(* Proofs about SimexOrderPath, for every set of prices, every order       *)
(* quantity, limit and number of orders: every execution reaches the       *)
(* engine's position once, the adapter never has to refuse a new order, a  *)
(* cancel is in one place at a time, queues of the size the slots demand   *)
(* never overflow, and the venue keeps the contract of Participant.        *)
(*                                                                         *)
(* What is under way is one conveyor: requests, the stream to the venue,   *)
(* the stream back, responses.  The argument rests on what may be ahead of *)
(* what on it (MayLead), and on what each message says of the order in the *)
(* slot of its side (Fits).                                                *)
(***************************************************************************)
EXTENDS SimexOrderPath, FiniteSetTheorems, FunctionTheorems, WellFoundedInduction, TLAPS

EngineProofs == INSTANCE ParticipantProofs

Sides == Engine!Sides
Opposite(side) == Engine!Opposite(side)
Working(side) == Engine!Working(side)
Offsets == {"OPEN", "CLOSE_TODAY", "CLOSE_YESTERDAY"}
OrderIds == Nat \ {0}

Request == [type : {"NEW", "CANCEL"}, id : OrderIds, side : Sides, offset : Offsets,
            qty : Nat]
ResponseSet == [type : {"ACCEPTED", "REJECTED", "FILLED", "CANCELED", "CANCEL_REJECTED"},
                id : OrderIds, side : Sides, offset : Offsets, exec : Nat, leaves : Nat]
Record == [side : Sides, offset : Offsets, remaining : Nat,
           terminal : BOOLEAN, cancelPending : BOOLEAN]

\* The messages in a queue, between gateway and venue, and anywhere.
In(queue) == {queue[i] : i \in DOMAIN queue}
Venueward == In(incoming) \cup In(outgoing)
OnPath == In(responses) \cup In(incoming) \cup In(outgoing) \cup In(requests)

TypeOK ==
    /\ requests \in Seq(Request) /\ outgoing \in Seq(Request)
    /\ responses \in Seq(ResponseSet) /\ incoming \in Seq(ResponseSet)
    /\ metadata \in [DOMAIN metadata -> Record]
    /\ resting \in [DOMAIN resting -> Request]
    /\ netPosition \in Int
    /\ DOMAIN resting \subseteq DOMAIN metadata
    /\ DOMAIN metadata \subseteq 1 .. nextOrderId - 1
    /\ \A m \in OnPath : m.id < nextOrderId

\* Of two messages of one side, a may be ahead of b on the conveyor.  A cancel or
\* the refusal of one can be left over from the order before.
MayLead(a, b) ==
    \/ /\ a.id = b.id
       /\ \/ a.type = "ACCEPTED" /\ b.type = "FILLED"
          \/ /\ a.type = "FILLED"
             /\ \/ b.type = "FILLED" /\ b.exec + b.leaves <= a.leaves
                \/ b.type \in {"CANCEL", "CANCEL_REJECTED"}
                \/ b.type = "CANCELED" /\ a.leaves > 0
    \/ /\ a.id < b.id
       /\ a.type \in {"CANCEL", "CANCEL_REJECTED"}
       /\ b.type \in {"NEW", "ACCEPTED", "REJECTED", "FILLED"}

Sorted(queue) ==
    \A i, j \in DOMAIN queue :
        i < j /\ queue[i].side = queue[j].side => MayLead(queue[i], queue[j])
Ahead(S, T) == \A a \in S, b \in T : a.side = b.side => MayLead(a, b)

PathInv ==
    /\ Sorted(responses) /\ Sorted(incoming) /\ Sorted(outgoing) /\ Sorted(requests)
    /\ Ahead(In(responses), In(incoming))
    /\ Ahead(In(responses), In(outgoing))
    /\ Ahead(In(responses), In(requests))
    /\ Ahead(In(incoming), In(outgoing))
    /\ Ahead(In(incoming), In(requests))
    /\ Ahead(In(outgoing), In(requests))

\* What a message says of the order o in the slot of its side.
Fits(m, o) ==
    /\ m.type \notin {"CANCEL", "CANCEL_REJECTED"} =>
           /\ m.id = o.id /\ m.offset = o.offset
           /\ o.state \in {"PENDING_NEW", "LIVE", "PENDING_CANCEL"}
    /\ m.type \in {"NEW", "ACCEPTED", "REJECTED"} => o.state = "PENDING_NEW"
    /\ m.type = "NEW" => m.qty = o.qty
    /\ m.type = "FILLED" => m.exec >= 1 /\ m.exec + m.leaves <= o.qty
    /\ m.type = "CANCELED" => o.state = "PENDING_CANCEL"
    /\ m.type \in {"CANCEL", "CANCEL_REJECTED"} =>
           \/ m.id = o.id /\ o.state \in {"PENDING_CANCEL", "DEAD"}
           \/ m.id < o.id /\ o.state = "PENDING_NEW"

Fill(m) == m.type = "FILLED"

MessagesInv ==
    /\ \A m \in OnPath : Fits(m, orders[m.side]) /\ m.id # orders[Opposite(m.side)].id
    /\ \A m \in In(responses) \cup In(incoming) : ~ Fill(m) => m.exec = 0

Settling == {"CANCEL", "CANCELED", "CANCEL_REJECTED"}

SlotsInv ==
    /\ \A side \in Sides :
           LET o == orders[side]
           IN  /\ o.state = "PENDING_CANCEL" =>
                      \E m \in OnPath : m.side = side /\ m.id = o.id /\ m.type \in Settling
               /\ Working(side) => o.qty <= OrderQty
               /\ o.state # "INVALID" => o.id >= 1
    /\ orders["BUY"].id = orders["SELL"].id => orders["BUY"].id = 0

\* Each execution under way begins with what the one before it left.
FillsInv ==
    /\ \A m \in In(responses) : Fill(m) =>
           \/ m.exec + m.leaves = orders[m.side].qty
           \/ \E a \in In(responses) :
                  Fill(a) /\ a.side = m.side /\ a.leaves = m.exec + m.leaves
    /\ \A m \in In(incoming) : Fill(m) =>
           /\ m.exec + m.leaves <= metadata[m.id].remaining
           /\ \/ m.exec + m.leaves = metadata[m.id].remaining
              \/ \E a \in In(incoming) :
                     Fill(a) /\ a.side = m.side /\ a.leaves = m.exec + m.leaves

\* What the executions queued for the engine leave of the order of a side: the
\* least of what the slot says and what each of them leaves.
IsLeft(side, n) ==
    /\ n <= orders[side].qty
    /\ \A m \in In(responses) : Fill(m) /\ m.side = side => n <= m.leaves
    /\ \/ n = orders[side].qty
       \/ \E m \in In(responses) : Fill(m) /\ m.side = side /\ m.leaves = n

Final(m) == m.type \in {"CANCELED", "REJECTED"} \/ (Fill(m) /\ m.leaves = 0)

\* What the adapter remembers of order x.
RecordInv(x) ==
    LET order == metadata[x]
    IN  /\ x = orders[order.side].id => order.offset = orders[order.side].offset
        /\ x # orders[Opposite(order.side)].id
        /\ ~ order.terminal =>
               /\ x = orders[order.side].id
               /\ Working(order.side)
               /\ IsLeft(order.side, order.remaining)
               /\ \A m \in In(responses) : m.side = order.side => ~ Final(m)
        /\ order.cancelPending <=> \E m \in Venueward : m.id = x /\ m.type \in Settling

VenueInv ==
    /\ \A m \in Venueward :
           /\ m.id \in DOMAIN metadata
           /\ metadata[m.id].side = m.side /\ metadata[m.id].offset = m.offset
           /\ m.type \notin {"CANCEL", "CANCEL_REJECTED"} => ~ metadata[m.id].terminal
    /\ \A m \in In(requests) :
           /\ m.type = "NEW" => m.id \notin DOMAIN metadata
           /\ m.id \in DOMAIN metadata =>
                  metadata[m.id].side = m.side /\ metadata[m.id].offset = m.offset
    /\ \A m \in In(outgoing) :
           m.type = "NEW" => m.id \notin DOMAIN resting /\ metadata[m.id].remaining = m.qty

\* An order in the venue's book.
RestingInv(x) ==
    LET o == resting[x]
    IN  /\ o.id = x /\ o.side = metadata[x].side /\ o.offset = metadata[x].offset
        /\ ~ metadata[x].terminal
        /\ o.qty >= 1 /\ o.qty <= metadata[x].remaining
        /\ \A m \in In(incoming) : m.id = x => ~ Final(m) /\ (Fill(m) => o.qty <= m.leaves)
        /\ \/ o.qty = metadata[x].remaining
           \/ \E m \in In(incoming) : m.id = x /\ Fill(m) /\ m.leaves = o.qty
        /\ \A m \in In(responses) \cup In(incoming) : m.id = x => m.type # "CANCEL_REJECTED"
        /\ \A m \in In(outgoing) \cup In(requests) :
               m.side = o.side => m.type = "CANCEL" /\ m.id = x

AdapterInv ==
    /\ \A x \in DOMAIN metadata : RecordInv(x)
    /\ VenueInv
    /\ \A x \in DOMAIN resting : RestingInv(x)

\* The adapter's position is the engine's after the executions queued for it.
PositionInv ==
    \E buy, sell \in Nat :
        /\ IsLeft("BUY", buy) /\ IsLeft("SELL", sell)
        /\ netPosition = position.net + (orders["BUY"].qty - buy) - (orders["SELL"].qty - sell)

SimexInv ==
    /\ EngineProofs!ParticipantInv
    /\ TypeOK /\ PathInv /\ MessagesInv /\ SlotsInv /\ FillsInv /\ AdapterInv /\ PositionInv
    /\ PositionsReconcile
-----------------------------------------------------------------------------
(***************************************************************************)
(* The engine is Participant, and what was proved of that applies.         *)
(***************************************************************************)
LEMMA EngineAssumption == EngineProofs!ParticipantAssumption
BY SimexPathAssumption DEF EngineProofs!ParticipantAssumption

LEMMA SameNext == Engine!Next <=> EngineProofs!Next
BY DEF Engine!Next, Engine!Decide, Engine!HandleJevDecision, Engine!OpenDecision,
       Engine!CloseDecision, Engine!VenueFree, Engine!OpeningBlocked, Engine!MoveOrder,
       Engine!MoveCloseOrder, Engine!NewOrder, Engine!CancelOrder, Engine!RiskAllows,
       Engine!CloseOffset, Engine!CloseableQty, Engine!Sign, Engine!Opposite,
       Engine!Magnitude, Engine!Smaller, Engine!Working, Engine!Sides,
       Engine!ReceiveResponse, Engine!Answers, Engine!Response,
       Engine!HandleClientResponse, Engine!OnFill, Engine!Agrees,
       Engine!OnOrderUpdate, Engine!Updated,
       EngineProofs!Next, EngineProofs!Decide, EngineProofs!HandleJevDecision,
       EngineProofs!OpenDecision, EngineProofs!CloseDecision, EngineProofs!VenueFree,
       EngineProofs!OpeningBlocked, EngineProofs!MoveOrder, EngineProofs!MoveCloseOrder,
       EngineProofs!NewOrder, EngineProofs!CancelOrder, EngineProofs!RiskAllows,
       EngineProofs!CloseOffset, EngineProofs!CloseableQty, EngineProofs!Sign,
       EngineProofs!Opposite, EngineProofs!Magnitude, EngineProofs!Smaller,
       EngineProofs!Working, EngineProofs!Sides, EngineProofs!ReceiveResponse,
       EngineProofs!Answers, EngineProofs!Response, EngineProofs!HandleClientResponse,
       EngineProofs!OnFill, EngineProofs!Agrees, EngineProofs!OnOrderUpdate,
       EngineProofs!Updated

LEMMA EngineSteps ==
    ASSUME EngineProofs!ParticipantInv, Engine!Next \/ UNCHANGED engineVars
    PROVE  EngineProofs!ParticipantInv'
BY EngineAssumption, SameNext, EngineProofs!NextInv DEF engineVars, EngineProofs!vars

LEMMA SideFacts ==
    /\ Sides = {"BUY", "SELL"}
    /\ \A side \in Sides : /\ Opposite(side) \in Sides /\ Opposite(side) # side
                           /\ Opposite(Opposite(side)) = side
                           /\ \A s \in Sides : s # side => s = Opposite(side)
                           /\ Sign(side) = IF side = "BUY" THEN 1 ELSE -1
BY DEF Sides, Engine!Sides, Opposite, Engine!Opposite, Sign, Engine!Sign

\* What of the engine's invariant is used here.
LEMMA EngineTypes ==
    ASSUME EngineProofs!ParticipantInv
    PROVE  /\ orders \in [Sides -> [id : Nat, price : Prices \cup {PriceInvalid}, qty : Nat,
                                    offset : Offsets \cup {"INVALID"},
                                    state : {"INVALID", "PENDING_NEW", "LIVE",
                                             "PENDING_CANCEL", "DEAD"}]]
           /\ nextOrderId \in Nat \ {0}
           /\ position \in [net : Int, today : Nat, yesterday : Nat]
           /\ ~ fault
           /\ \A side \in Sides : /\ orders[side].id < nextOrderId
                                  /\ Working(side) => /\ orders[side].qty > 0
                                                      /\ orders[side].offset # "INVALID"
<1>1. EngineProofs!Sides = Sides
  BY DEF EngineProofs!Sides, Engine!Sides, Sides
<1>. QED BY <1>1
     DEF EngineProofs!ParticipantInv, EngineProofs!TypeOK, EngineProofs!NoDisagreement,
         EngineProofs!Offsets, EngineProofs!OrderStates, Offsets, Working, Engine!Working,
         EngineProofs!Working
-----------------------------------------------------------------------------
(***************************************************************************)
(* Queues.                                                                 *)
(***************************************************************************)
LEMMA Appended ==
    ASSUME NEW S, NEW queue \in Seq(S), NEW m \in S
    PROVE  /\ Append(queue, m) \in Seq(S)
           /\ In(Append(queue, m)) = In(queue) \cup {m}
           /\ Sorted(queue) /\ Ahead(In(queue), {m}) => Sorted(Append(queue, m))
<1>. DEFINE longer == Append(queue, m)
<1>1. /\ longer \in Seq(S) /\ DOMAIN queue = 1 .. Len(queue) /\ Len(queue) \in Nat
      /\ DOMAIN longer = 1 .. Len(queue) + 1
      /\ \A i \in 1 .. Len(queue) : longer[i] = queue[i]
      /\ longer[Len(queue) + 1] = m
  OBVIOUS
<1>. HIDE DEF longer
<1>2. In(longer) = In(queue) \cup {m}
  BY <1>1 DEF In
<1>3. ASSUME Sorted(queue), Ahead(In(queue), {m}), NEW i \in DOMAIN longer,
             NEW j \in DOMAIN longer, i < j, longer[i].side = longer[j].side
      PROVE  MayLead(longer[i], longer[j])
  <2>1. i \in DOMAIN queue /\ longer[i] = queue[i]
    BY <1>1, <1>3
  <2>2. CASE j = Len(queue) + 1
    BY <1>1, <1>3, <2>1, <2>2 DEF Ahead, In
  <2>3. CASE j # Len(queue) + 1
    <3>1. j \in DOMAIN queue /\ longer[j] = queue[j]
      BY <1>1, <2>3
    <3>. QED BY <1>3, <2>1, <3>1 DEF Sorted
  <2>. QED BY <2>2, <2>3
<1>. QED BY <1>1, <1>2, <1>3 DEF longer, Sorted

LEMMA RequestAppended ==
    \A queue \in Seq(Request), m \in Request :
        /\ Append(queue, m) \in Seq(Request)
        /\ In(Append(queue, m)) = In(queue) \cup {m}
        /\ Sorted(queue) /\ Ahead(In(queue), {m}) => Sorted(Append(queue, m))
BY Appended

LEMMA ResponseAppended ==
    \A queue \in Seq(ResponseSet), m \in ResponseSet :
        /\ Append(queue, m) \in Seq(ResponseSet)
        /\ In(Append(queue, m)) = In(queue) \cup {m}
        /\ Sorted(queue) /\ Ahead(In(queue), {m}) => Sorted(Append(queue, m))
BY Appended

LEMMA HeadTaken ==
    ASSUME NEW S, NEW queue \in Seq(S), queue # << >>
    PROVE  /\ Head(queue) \in S /\ Tail(queue) \in Seq(S)
           /\ Head(queue) \in In(queue)
           /\ In(queue) = {Head(queue)} \cup In(Tail(queue))
           /\ Sorted(queue) => Sorted(Tail(queue)) /\ Ahead({Head(queue)}, In(Tail(queue)))
<1>. DEFINE rest == Tail(queue)
<1>1. /\ rest \in Seq(S) /\ DOMAIN queue = 1 .. Len(queue) /\ Len(queue) \in Nat \ {0}
      /\ DOMAIN rest = 1 .. Len(queue) - 1 /\ Head(queue) = queue[1]
      /\ \A i \in 1 .. Len(queue) - 1 : rest[i] = queue[i + 1]
  OBVIOUS
<1>2. queue[1] \in S
  BY <1>1
<1>. HIDE DEF rest
<1>3. In(queue) = {queue[1]} \cup In(rest)
  <2>1. \A i \in DOMAIN queue : i = 1 \/ (i - 1 \in DOMAIN rest /\ queue[i] = rest[i - 1])
    BY <1>1
  <2>2. \A i \in DOMAIN rest : i + 1 \in DOMAIN queue /\ queue[i + 1] = rest[i]
    BY <1>1
  <2>3. 1 \in DOMAIN queue
    BY <1>1
  <2>. QED BY <2>1, <2>2, <2>3 DEF In
<1>4. ASSUME Sorted(queue) PROVE Sorted(rest) /\ Ahead({queue[1]}, In(rest))
  <2>1. ASSUME NEW i \in DOMAIN rest
        PROVE  i + 1 \in DOMAIN queue /\ 1 \in DOMAIN queue /\ 1 < i + 1 /\ rest[i] = queue[i + 1]
    BY <1>1
  <2>2. Ahead({queue[1]}, In(rest))
    BY <1>4, <2>1 DEF Ahead, In, Sorted
  <2>3. ASSUME NEW i \in DOMAIN rest, NEW j \in DOMAIN rest, i < j,
               rest[i].side = rest[j].side
        PROVE  MayLead(rest[i], rest[j])
    <3>1. i + 1 < j + 1
      BY <1>1, <2>3
    <3>. QED BY <1>4, <2>1, <2>3, <3>1 DEF Sorted
  <2>. QED BY <2>2, <2>3 DEF Sorted
<1>5. In(queue) # {} /\ queue[1] \in In(queue)
  BY <1>3
<1>. QED BY <1>1, <1>2, <1>3, <1>4, <1>5 DEF rest

LEMMA EmptyQueue == In(<< >>) = {} /\ Sorted(<< >>)
BY DEF In, Sorted

\* The fields of the messages.
LEMMA MessageTypes ==
    ASSUME TypeOK
    PROVE  /\ \A m \in In(responses) \cup In(incoming) : m \in ResponseSet
           /\ \A m \in In(outgoing) \cup In(requests) : m \in Request
           /\ \A m \in OnPath : /\ m.id \in OrderIds /\ m.side \in Sides /\ m.offset \in Offsets
                                /\ m.id < nextOrderId
<1>1. ASSUME NEW S, NEW queue \in Seq(S) PROVE In(queue) \subseteq S
  BY DEF In
<1>2. In(responses) \subseteq ResponseSet /\ In(incoming) \subseteq ResponseSet
      /\ In(outgoing) \subseteq Request /\ In(requests) \subseteq Request
  BY <1>1 DEF TypeOK
<1>3. \A m \in Request \cup ResponseSet :
          m.id \in OrderIds /\ m.side \in Sides /\ m.offset \in Offsets
  BY DEF Request, ResponseSet
<1>4. \A m \in OnPath : m.id < nextOrderId
  BY DEF TypeOK
<1>. QED BY <1>2, <1>3, <1>4 DEF OnPath
-----------------------------------------------------------------------------
(***************************************************************************)
(* What queued executions add up to.                                       *)
(***************************************************************************)
LEMMA LeastNumber ==
    ASSUME NEW S \in SUBSET Nat, S # {}
    PROVE  \E m \in S : \A n \in S : m <= n
<1>1. PICK m \in S : \A n \in S : ~ (<<n, m>> \in OpToRel(<, Nat))
  BY WFMin, NatLessThanWellFounded
<1>2. \A n \in S : ~ (n < m)
  BY <1>1 DEF OpToRel
<1>3. \A n \in S : m <= n
  BY <1>2
<1>. QED BY <1>3

\* A running total exists.
LEMMA TotalExists ==
    ASSUME NEW N \in Nat, NEW v \in [1 .. N -> Int]
    PROVE  \E f \in [0 .. N -> Int] :
               f = [n \in 0 .. N |-> IF n = 0 THEN 0 ELSE f[n - 1] + v[n]]
<1>. DEFINE Total(f, k) ==
         /\ f \in [0 .. k -> Int]
         /\ f = [n \in 0 .. k |-> IF n = 0 THEN 0 ELSE f[n - 1] + v[n]]
            Missing == {k \in 0 .. N : ~ \E f : Total(f, k)}
<1>1. ASSUME Missing # {} PROVE FALSE
  <2>1. Missing \in SUBSET Nat
    OBVIOUS
  <2>. HIDE DEF Missing
  <2>2. PICK k \in Missing : \A n \in Missing : k <= n
    BY <1>1, <2>1, LeastNumber
  <2>. USE DEF Missing
  <2>3. k \in 0 .. N /\ ~ \E f : Total(f, k)
    BY <2>2
  <2>4. k # 0
    <3>1. Total([n \in 0 .. 0 |-> 0], 0)
      OBVIOUS
    <3>. QED BY <2>3, <3>1
  <2>5. k - 1 \in 0 .. N /\ k - 1 \notin Missing
    <3>1. k - 1 \in 0 .. N /\ ~ (k <= k - 1)
      BY <2>3, <2>4
    <3>. HIDE DEF Missing
    <3>. QED BY <2>2, <3>1
  <2>6. PICK f : Total(f, k - 1)
    BY <2>5
  <2>. DEFINE g == [n \in 0 .. k |-> IF n = k THEN f[k - 1] + v[k] ELSE f[n]]
  <2>7. f[k - 1] \in Int /\ v[k] \in Int
    BY <2>3, <2>4, <2>6
  <2>8. g \in [0 .. k -> Int]
    <3>1. \A n \in 0 .. k : n # k => n \in 0 .. k - 1 /\ f[n] \in Int
      BY <2>3, <2>6
    <3>. QED BY <2>7, <3>1
  <2>9. ASSUME NEW n \in 0 .. k PROVE g[n] = IF n = 0 THEN 0 ELSE g[n - 1] + v[n]
    <3>1. CASE n = k
      <4>1. g[k] = f[k - 1] + v[k] /\ g[k - 1] = f[k - 1] /\ k \in Nat
        BY <2>3, <2>4
      <4>. QED BY <2>4, <3>1, <4>1
    <3>2. CASE n # k
      <4>1. n \in 0 .. k - 1 /\ g[n] = f[n] /\ (n # 0 => g[n - 1] = f[n - 1])
        BY <2>3, <3>2
      <4>2. f[n] = IF n = 0 THEN 0 ELSE f[n - 1] + v[n]
        BY <2>6, <4>1
      <4>. QED BY <4>1, <4>2
    <3>. QED BY <3>1, <3>2
  <2>10. g = [n \in 0 .. k |-> IF n = 0 THEN 0 ELSE g[n - 1] + v[n]]
    BY <2>9
  <2>. QED BY <2>3, <2>8, <2>10
<1>2. N \in 0 .. N
  OBVIOUS
<1>. QED BY <1>1, <1>2

\* Two running totals with the same steps keep their distance.
LEMMA TotalsKeepDistance ==
    ASSUME NEW N \in Nat, NEW f, NEW g, NEW c \in Int,
           \A n \in 0 .. N : f[n] \in Int /\ g[n] \in Int,
           g[0] = f[0] + c,
           \A n \in 1 .. N : g[n] - g[n - 1] = f[n] - f[n - 1]
    PROVE  g[N] = f[N] + c
<1>. DEFINE Differ == {n \in 0 .. N : g[n] # f[n] + c}
<1>1. ASSUME Differ # {} PROVE FALSE
  <2>1. Differ \in SUBSET Nat
    OBVIOUS
  <2>. HIDE DEF Differ
  <2>2. PICK k \in Differ : \A n \in Differ : k <= n
    BY <1>1, <2>1, LeastNumber
  <2>. USE DEF Differ
  <2>3. k \in 1 .. N /\ k - 1 \in 0 .. N /\ k - 1 \notin Differ
    BY <2>2
  <2>. QED BY <2>2, <2>3
<1>2. N \in 0 .. N
  OBVIOUS
<1>. QED BY <1>1, <1>2

\* What one response adds.
Added(r) == Sign(r.side) * r.exec

LEMMA AddedTypes == \A r \in ResponseSet : Added(r) \in Int
<1>. SUFFICES ASSUME NEW r \in ResponseSet PROVE Added(r) \in Int
  OBVIOUS
<1>1. r.exec \in Nat /\ (Sign(r.side) = 1 \/ Sign(r.side) = -1)
  BY SideFacts DEF ResponseSet
<1>. QED BY <1>1 DEF Added

LEMMA ExecutedTotals ==
    ASSUME NEW rs \in Seq(ResponseSet)
    PROVE  /\ \A n \in 0 .. Len(rs) : Executed(rs)[n] \in Int
           /\ Executed(rs)[0] = 0
           /\ \A n \in 1 .. Len(rs) : Executed(rs)[n] = Executed(rs)[n - 1] + Added(rs[n])
<1>. DEFINE v == [n \in 1 .. Len(rs) |-> Added(rs[n])]
            Sums(f) == f = [n \in 0 .. Len(rs) |-> IF n = 0 THEN 0
                                                   ELSE f[n - 1] + Added(rs[n])]
<1>1. v \in [1 .. Len(rs) -> Int] /\ Len(rs) \in Nat
  BY AddedTypes
<1>2. PICK f \in [0 .. Len(rs) -> Int] :
          f = [n \in 0 .. Len(rs) |-> IF n = 0 THEN 0 ELSE f[n - 1] + v[n]]
  BY <1>1, TotalExists
<1>3. Sums(f)
  <2>1. \A n \in 0 .. Len(rs) : n # 0 => v[n] = Added(rs[n])
    BY <1>1
  <2>. QED BY <1>2, <2>1
<1>4. Executed(rs) = CHOOSE sum : Sums(sum)
  BY DEF Executed, Added
<1>5. Sums(Executed(rs))
  BY <1>3, <1>4
<1>. DEFINE e == Executed(rs)
<1>6. e = f
  <2>1. \A n \in 0 .. Len(rs) : f[n] \in Int
    BY <1>2
  <2>. DEFINE Differ == {n \in 0 .. Len(rs) : e[n] # f[n]}
  <2>2. ASSUME Differ # {} PROVE FALSE
    <3>. HIDE DEF e
    <3>1. Differ \in SUBSET Nat
      OBVIOUS
    <3>. HIDE DEF Differ
    <3>2. PICK k \in Differ : \A n \in Differ : k <= n
      BY <2>2, <3>1, LeastNumber
    <3>. USE DEF Differ
    <3>3. k # 0
      BY <1>1, <1>3, <1>5, <3>2 DEF e
    <3>4. k - 1 \in 0 .. Len(rs) /\ k - 1 \notin Differ
      BY <1>1, <3>2, <3>3
    <3>. QED BY <1>3, <1>5, <3>2, <3>3, <3>4 DEF e
  <2>3. \A n \in 0 .. Len(rs) : e[n] = f[n]
    BY <2>2
  <2>. QED BY <1>3, <1>5, <2>3
<1>7. /\ \A n \in 0 .. Len(rs) : f[n] \in Int
      /\ f[0] = 0
      /\ \A n \in 1 .. Len(rs) : f[n] = f[n - 1] + Added(rs[n])
  <2>1. ASSUME NEW n \in 0 .. Len(rs)
        PROVE  f[n] \in Int /\ f[n] = IF n = 0 THEN 0 ELSE f[n - 1] + Added(rs[n])
    BY <1>2, <1>3
  <2>2. 0 \in 0 .. Len(rs) /\ \A n \in 1 .. Len(rs) : n \in 0 .. Len(rs) /\ n # 0
    BY <1>1
  <2>. QED BY <2>1, <2>2
<1>. QED BY <1>6, <1>7

LEMMA ExecutedAppended ==
    ASSUME NEW rs \in Seq(ResponseSet), NEW r \in ResponseSet
    PROVE  Executed(Append(rs, r))[Len(Append(rs, r))] = Executed(rs)[Len(rs)] + Added(r)
<1>. DEFINE longer == Append(rs, r)
            f == Executed(rs)
            g == Executed(longer)
<1>1. /\ longer \in Seq(ResponseSet) /\ Len(longer) = Len(rs) + 1 /\ Len(rs) \in Nat
      /\ longer[Len(rs) + 1] = r /\ \A n \in 1 .. Len(rs) : longer[n] = rs[n]
  OBVIOUS
<1>2. /\ \A n \in 0 .. Len(rs) : f[n] \in Int
      /\ f[0] = 0
      /\ \A n \in 1 .. Len(rs) : f[n] = f[n - 1] + Added(rs[n])
  BY ExecutedTotals
<1>. HIDE DEF longer
<1>3. /\ \A n \in 0 .. Len(longer) : g[n] \in Int
      /\ g[0] = 0
      /\ \A n \in 1 .. Len(longer) : g[n] = g[n - 1] + Added(longer[n])
  BY <1>1, ExecutedTotals
<1>. HIDE DEF f, g
<1>4. g[Len(rs)] = f[Len(rs)] + 0
  <2>1. \A n \in 0 .. Len(rs) : f[n] \in Int /\ g[n] \in Int
    BY <1>1, <1>2, <1>3
  <2>2. \A n \in 1 .. Len(rs) : g[n] - g[n - 1] = f[n] - f[n - 1]
    <3>. SUFFICES ASSUME NEW n \in 1 .. Len(rs) PROVE g[n] - g[n - 1] = f[n] - f[n - 1]
      OBVIOUS
    <3>1. n \in 1 .. Len(longer) /\ n - 1 \in 0 .. Len(rs) /\ rs[n] \in ResponseSet
      BY <1>1
    <3>2. Added(rs[n]) \in Int
      BY <3>1, AddedTypes
    <3>3. /\ g[n] = g[n - 1] + Added(rs[n]) /\ f[n] = f[n - 1] + Added(rs[n])
      BY <1>1, <1>2, <1>3, <3>1
    <3>4. f[n - 1] \in Int /\ g[n - 1] \in Int
      BY <2>1, <3>1
    <3>. QED BY ONLY <3>2, <3>3, <3>4
  <2>3. g[0] = f[0] + 0
    BY <1>2, <1>3
  <2>4. 0 \in Int /\ Len(rs) \in Nat
    BY <1>1
  <2>. QED BY ONLY <2>1, <2>2, <2>3, <2>4, TotalsKeepDistance
<1>5. g[Len(rs) + 1] = g[Len(rs)] + Added(r)
  BY <1>1, <1>3
<1>6. f[Len(rs)] \in Int
  BY <1>1, <1>2
<1>. QED BY <1>1, <1>4, <1>5, <1>6 DEF f, g, longer

LEMMA ExecutedTaken ==
    ASSUME NEW rs \in Seq(ResponseSet), rs # << >>
    PROVE  Executed(rs)[Len(rs)] = Added(Head(rs)) + Executed(Tail(rs))[Len(Tail(rs))]
<1>. DEFINE rest == Tail(rs)
            f == Executed(rest)
            g == [n \in 0 .. Len(rest) |-> Executed(rs)[n + 1]]
<1>1. /\ rest \in Seq(ResponseSet) /\ Len(rest) = Len(rs) - 1 /\ Len(rs) \in Nat \ {0}
      /\ Len(rest) \in Nat /\ Head(rs) = rs[1] /\ rs[1] \in ResponseSet
      /\ \A n \in 1 .. Len(rest) : rest[n] = rs[n + 1]
  OBVIOUS
<1>2. /\ \A n \in 0 .. Len(rs) : Executed(rs)[n] \in Int
      /\ Executed(rs)[0] = 0
      /\ \A n \in 1 .. Len(rs) : Executed(rs)[n] = Executed(rs)[n - 1] + Added(rs[n])
  BY ExecutedTotals
<1>. HIDE DEF rest
<1>3. /\ \A n \in 0 .. Len(rest) : f[n] \in Int
      /\ f[0] = 0
      /\ \A n \in 1 .. Len(rest) : f[n] = f[n - 1] + Added(rest[n])
  BY <1>1, ExecutedTotals
<1>4. Added(rs[1]) \in Int
  BY <1>1, AddedTypes
<1>. DEFINE e == Executed(rs)
<1>5. /\ \A n \in 0 .. Len(rest) : g[n] = e[n + 1] /\ g[n] \in Int
      /\ g[0] = Added(rs[1])
  <2>1. ASSUME NEW n \in 0 .. Len(rest) PROVE g[n] = e[n + 1] /\ g[n] \in Int
    BY <1>1, <1>2
  <2>2. 0 \in 0 .. Len(rest) /\ 1 \in 1 .. Len(rs)
    BY <1>1
  <2>3. e[1] = e[0] + Added(rs[1])
    BY <1>2, <2>2
  <2>. QED BY <1>2, <1>4, <2>1, <2>2, <2>3
<1>. HIDE DEF f, g, e
<1>6. \A n \in 1 .. Len(rest) : g[n] - g[n - 1] = f[n] - f[n - 1]
  <2>. SUFFICES ASSUME NEW n \in 1 .. Len(rest) PROVE g[n] - g[n - 1] = f[n] - f[n - 1]
    OBVIOUS
  <2>1. /\ n \in 0 .. Len(rest) /\ n - 1 \in 0 .. Len(rest) /\ n + 1 \in 1 .. Len(rs)
        /\ n \in Int
    BY <1>1
  <2>2. g[n] = e[n + 1] /\ g[n - 1] = e[n]
    BY <1>5, <2>1
  <2>3. e[n + 1] = e[n] + Added(rs[n + 1])
    BY <1>2, <2>1 DEF e
  <2>4. f[n] = f[n - 1] + Added(rs[n + 1])
    BY <1>1, <1>3, <2>1
  <2>5. Added(rs[n + 1]) \in Int
    BY <1>1, <2>1, AddedTypes
  <2>. QED BY <1>3, <1>5, <2>1, <2>2, <2>3, <2>4, <2>5
<1>7. g[Len(rest)] = f[Len(rest)] + Added(rs[1])
  <2>1. \A n \in 0 .. Len(rest) : f[n] \in Int /\ g[n] \in Int
    BY <1>3, <1>5
  <2>2. g[0] = f[0] + Added(rs[1])
    BY <1>3, <1>4, <1>5
  <2>3. Len(rest) \in Nat
    BY <1>1
  <2>. QED BY ONLY <1>4, <1>6, <2>1, <2>2, <2>3, TotalsKeepDistance
<1>8. g[Len(rest)] = e[Len(rs)]
  BY <1>1, <1>5
<1>9. f[Len(rest)] \in Int
  BY <1>1, <1>3
<1>. QED BY <1>1, <1>4, <1>7, <1>8, <1>9 DEF e, f, rest
-----------------------------------------------------------------------------
LEMMA InitSimex == Init => SimexInv
<1>. SUFFICES ASSUME Init PROVE SimexInv
  OBVIOUS
<1>1. Engine!Init <=> EngineProofs!Init
  BY DEF Engine!Init, Engine!Sides, Engine!NoOrder, EngineProofs!Init, EngineProofs!Sides,
         EngineProofs!NoOrder
<1>2. EngineProofs!ParticipantInv
  BY <1>1, EngineAssumption, EngineProofs!InitInv DEF Init
<1>3. /\ In(responses) = {} /\ In(incoming) = {} /\ In(outgoing) = {} /\ In(requests) = {}
      /\ Sorted(responses) /\ Sorted(incoming) /\ Sorted(outgoing) /\ Sorted(requests)
      /\ OnPath = {} /\ Venueward = {}
  BY EmptyQueue DEF Init, OnPath, Venueward
<1>4. /\ nextOrderId = 1 /\ position.net = 0 /\ netPosition = 0
      /\ DOMAIN metadata = {} /\ DOMAIN resting = {} /\ responses = << >>
      /\ \A side \in Sides : /\ orders[side].id = 0 /\ orders[side].qty = QtyInvalid
                             /\ orders[side].state = "INVALID"
  BY DEF Init, Engine!Init, Engine!NoOrder, Sides
<1>5. TypeOK
  <2>1. \A S : << >> \in Seq(S) /\ << >> \in [{} -> S]
    OBVIOUS
  <2>2. /\ requests \in Seq(Request) /\ outgoing \in Seq(Request)
        /\ responses \in Seq(ResponseSet) /\ incoming \in Seq(ResponseSet)
        /\ metadata \in [DOMAIN metadata -> Record]
        /\ resting \in [DOMAIN resting -> Request]
    BY <1>4, <2>1 DEF Init
  <2>. QED BY <1>3, <1>4, <2>2 DEF TypeOK
<1>6. PathInv /\ MessagesInv /\ FillsInv
  BY <1>3 DEF PathInv, Ahead, MessagesInv, FillsInv
<1>7. SlotsInv
  BY <1>4, SideFacts DEF SlotsInv, Working, Engine!Working
<1>8. AdapterInv
  BY <1>3, <1>4 DEF AdapterInv, VenueInv
<1>9. PositionInv
  <2>1. IsLeft("BUY", QtyInvalid) /\ IsLeft("SELL", QtyInvalid) /\ QtyInvalid \in Nat
    BY <1>3, <1>4, SideFacts, SimexPathAssumption DEF IsLeft
  <2>. QED BY <1>4, <2>1, SideFacts DEF PositionInv
<1>10. PositionsReconcile
  <2>1. << >> \in Seq(ResponseSet) /\ Len(<< >>) = 0
    OBVIOUS
  <2>2. Executed(responses)[Len(responses)] = 0
    BY <1>4, <2>1, ExecutedTotals
  <2>. QED BY <1>4, <2>2 DEF PositionsReconcile
<1>. QED BY <1>2, <1>5, <1>6, <1>7, <1>8, <1>9, <1>10 DEF SimexInv

\* Every message and every order of the adapter's that names the order of a slot is
\* of that side.
LEMMA OfItsSide ==
    ASSUME SimexInv
    PROVE  /\ \A m \in OnPath, side \in Sides : m.id = orders[side].id => m.side = side
           /\ \A x \in DOMAIN metadata, side \in Sides :
                  x = orders[side].id => metadata[x].side = side
           /\ \A x \in DOMAIN metadata : metadata[x] \in Record
           /\ \A x \in DOMAIN resting : resting[x] \in Request
<1>. USE DEF SimexInv
<1>1. \A x \in DOMAIN metadata : metadata[x] \in Record /\ metadata[x].side \in Sides
  BY DEF TypeOK, Record
<1>2. \A x \in DOMAIN resting : resting[x] \in Request
  BY DEF TypeOK
<1>3. \A x \in DOMAIN metadata : x # orders[Opposite(metadata[x].side)].id
  BY DEF AdapterInv, RecordInv
<1>4. \A m \in OnPath : m.side \in Sides /\ m.id # orders[Opposite(m.side)].id
  BY MessageTypes DEF MessagesInv
<1>. QED BY <1>1, <1>2, <1>3, <1>4, SideFacts
-----------------------------------------------------------------------------
(***************************************************************************)
(* The engine decides.                                                     *)
(***************************************************************************)

\* A decision fills a free slot or cancels a live order.
LEMMA Decided ==
    ASSUME SimexInv, Engine!Decide
    PROVE  /\ UNCHANGED position
           /\ \E side \in Sides :
                 \/ \E price \in Prices, qty \in 0 .. OrderQty, offset \in Offsets :
                       /\ orders[side].state \in {"INVALID", "DEAD"}
                       /\ nextOrderId' = nextOrderId + 1
                       /\ orders' = [orders EXCEPT ![side] =
                                        [id |-> nextOrderId, price |-> price, qty |-> qty,
                                         offset |-> offset, state |-> "PENDING_NEW"]]
                 \/ /\ orders[side].state = "LIVE"
                    /\ nextOrderId' = nextOrderId
                    /\ orders' = [orders EXCEPT ![side].state = "PENDING_CANCEL"]
<1>. USE DEF SimexInv
<1>. DEFINE Moved(side, price, qty, offset) ==
         \/ /\ orders[side].state \in {"INVALID", "DEAD"}
            /\ nextOrderId' = nextOrderId + 1
            /\ orders' = [orders EXCEPT ![side] =
                             [id |-> nextOrderId, price |-> price, qty |-> qty,
                              offset |-> offset, state |-> "PENDING_NEW"]]
         \/ /\ orders[side].state = "LIVE"
            /\ nextOrderId' = nextOrderId
            /\ orders' = [orders EXCEPT ![side].state = "PENDING_CANCEL"]
<1>1. UNCHANGED position
  BY DEF Engine!Decide, Engine!HandleJevDecision, Engine!OpenDecision, Engine!CloseDecision
<1>2. ASSUME NEW side \in Sides, NEW price, NEW qty, NEW offset, NEW lossBreached,
             Engine!MoveOrder(side, price, qty, offset, lossBreached)
      PROVE  Moved(side, price, qty, offset)
  BY <1>2 DEF Engine!MoveOrder, Engine!NewOrder, Engine!CancelOrder
<1>3. OrderQty \in 0 .. OrderQty /\ OrderQty \in Nat
  BY SimexPathAssumption
<1>4. ASSUME NEW side \in Sides, NEW price \in Prices, NEW lossBreached \in BOOLEAN,
             Engine!OpenDecision(side, price, lossBreached)
      PROVE  Moved(side, price, OrderQty, "OPEN")
  BY <1>2, <1>4 DEF Engine!OpenDecision
<1>5. ASSUME NEW price \in Prices, NEW lossBreached \in BOOLEAN,
             Engine!CloseDecision(price, lossBreached)
      PROVE  \E side \in Sides, qty \in 0 .. OrderQty, offset \in Offsets :
                 Moved(side, price, qty, offset)
  <2>. DEFINE side == IF position.net > 0 THEN "SELL" ELSE "BUY"
              offset == Engine!CloseOffset(OrderQty)
              qty == Engine!Smaller(OrderQty, Engine!CloseableQty(offset))
  <2>1. offset # "INVALID" /\ Engine!MoveOrder(side, price, qty, offset, lossBreached)
    BY <1>5 DEF Engine!CloseDecision, Engine!MoveCloseOrder
  <2>2. side \in Sides
    BY SideFacts
  <2>3. offset \in {"CLOSE_TODAY", "CLOSE_YESTERDAY"}
    BY <2>1 DEF Engine!CloseOffset
  <2>4. qty \in 0 .. OrderQty
    <3>1. Engine!CloseableQty(offset) \in Nat
      BY <2>3, EngineTypes DEF Engine!CloseableQty
    <3>. QED BY <1>3, <3>1 DEF Engine!Smaller
  <2>. HIDE DEF side, offset, qty, Moved
  <2>5. Moved(side, price, qty, offset)
    BY <1>2, <2>1, <2>2
  <2>. QED BY <2>2, <2>3, <2>4, <2>5 DEF Offsets
<1>6. \E side \in Sides, price \in Prices, qty \in 0 .. OrderQty, offset \in Offsets :
          Moved(side, price, qty, offset)
  <2>. HIDE DEF Moved
  <2>. QED BY <1>3, <1>4, <1>5
       DEF Engine!Decide, Engine!HandleJevDecision, Sides, Offsets
<1>. QED BY <1>1, <1>6

\* What is under way for a side whose slot is free, or whose order is live.
LEMMA QuietSides ==
    ASSUME SimexInv, NEW side \in Sides, NEW m \in OnPath, m.side = side
    PROVE  /\ orders[side].state \in {"INVALID", "DEAD"} =>
                  m.type \in {"CANCEL", "CANCEL_REJECTED"} /\ m.id = orders[side].id
           /\ orders[side].state = "LIVE" => Fill(m) /\ m.id = orders[side].id
<1>1. Fits(m, orders[side])
  BY DEF SimexInv, MessagesInv
<1>2. m.type \in {"NEW", "ACCEPTED", "REJECTED", "FILLED", "CANCELED", "CANCEL",
                  "CANCEL_REJECTED"}
  BY MessageTypes DEF SimexInv, OnPath, Request, ResponseSet
<1>. QED BY <1>1, <1>2 DEF Fits, Fill

LEMMA DecidesNew ==
    ASSUME SimexInv, NEW side \in Sides, NEW price \in Prices, NEW qty \in 0 .. OrderQty,
           NEW offset \in Offsets,
           orders[side].state \in {"INVALID", "DEAD"},
           nextOrderId' = nextOrderId + 1,
           orders' = [orders EXCEPT ![side] =
                         [id |-> nextOrderId, price |-> price, qty |-> qty,
                          offset |-> offset, state |-> "PENDING_NEW"]],
           requests' = Append(requests, [type |-> "NEW", id |-> nextOrderId, side |-> side,
                                         offset |-> offset, qty |-> qty]),
           EngineProofs!ParticipantInv',
           UNCHANGED <<position, responses, adapterVars, outgoing, incoming, resting>>
    PROVE  SimexInv'
<1>. USE DEF SimexInv, adapterVars
<1>. DEFINE m == [type |-> "NEW", id |-> nextOrderId, side |-> side, offset |-> offset,
                  qty |-> qty]
<1>1. /\ m \in Request /\ m.type = "NEW" /\ m.id = nextOrderId /\ m.side = side
      /\ m.offset = offset /\ m.qty = qty
  BY EngineTypes, SimexPathAssumption DEF Request, OrderIds
<1>2. requests' = Append(requests, m)
  OBVIOUS
<1>. HIDE DEF m
<1>3. /\ requests' \in Seq(Request) /\ In(requests') = In(requests) \cup {m}
      /\ OnPath' = OnPath \cup {m} /\ Venueward' = Venueward
      /\ Sorted(requests) /\ Ahead(In(requests), {m}) => Sorted(requests')
  <2>1. requests \in Seq(Request)
    BY DEF TypeOK
  <2>2. /\ requests' \in Seq(Request) /\ In(requests') = In(requests) \cup {m}
        /\ Sorted(requests) /\ Ahead(In(requests), {m}) => Sorted(requests')
    BY ONLY <1>1, <1>2, <2>1, RequestAppended
  <2>. QED BY <2>2 DEF OnPath, Venueward
<1>4. /\ orders'[side].id = nextOrderId /\ orders'[side].qty = qty
      /\ orders'[side].offset = offset /\ orders'[side].state = "PENDING_NEW"
      /\ \A s \in Sides : s # side => orders'[s] = orders[s]
      /\ Working(side)' /\ ~ Working(side)
      /\ \A s \in Sides : orders[s].id < nextOrderId
      /\ nextOrderId \in Nat \ {0}
  BY EngineTypes DEF Working, Engine!Working
<1>5. \A a \in OnPath : /\ a.id \in OrderIds /\ a.id < nextOrderId /\ a.side \in Sides
                        /\ a.side = side => a.type \in {"CANCEL", "CANCEL_REJECTED"}
  BY MessageTypes, QuietSides
<1>6. TypeOK'
  <2>1. DOMAIN metadata \subseteq 1 .. nextOrderId' - 1
    BY <1>4 DEF TypeOK
  <2>2. \A a \in OnPath' : a.id < nextOrderId'
    BY <1>1, <1>3, <1>4, <1>5 DEF OrderIds
  <2>. QED BY <1>3, <2>1, <2>2 DEF TypeOK
<1>7. PathInv'
  <2>1. Ahead(OnPath, {m})
    BY <1>1, <1>5 DEF Ahead, MayLead
  <2>. QED BY <1>3, <2>1 DEF PathInv, Ahead, OnPath
<1>8. MessagesInv'
  <2>1. ASSUME NEW a \in OnPath
        PROVE  Fits(a, orders'[a.side]) /\ a.id # orders'[Opposite(a.side)].id
    <3>1. Fits(a, orders[a.side]) /\ a.id # orders[Opposite(a.side)].id
      BY DEF MessagesInv
    <3>2. CASE a.side = side
      <4>1. a.type \in {"CANCEL", "CANCEL_REJECTED"} /\ a.id < nextOrderId
        BY <1>5, <3>2
      <4>2. Opposite(side) \in Sides /\ Opposite(side) # side
        BY SideFacts
      <4>. QED BY <1>4, <3>1, <3>2, <4>1, <4>2 DEF Fits
    <3>3. CASE a.side # side
      <4>1. Opposite(a.side) = side /\ orders'[a.side] = orders[a.side]
        BY <1>4, <1>5, <3>3, SideFacts
      <4>. QED BY <1>4, <1>5, <3>1, <4>1
    <3>. QED BY <3>2, <3>3
  <2>2. Fits(m, orders'[m.side])
    BY <1>1, <1>4 DEF Fits
  <2>3. m.id # orders'[Opposite(m.side)].id
    <3>1. Opposite(side) \in Sides /\ Opposite(side) # side
      BY SideFacts
    <3>2. orders'[Opposite(side)] = orders[Opposite(side)]
      BY <1>4, <3>1
    <3>. QED BY <1>1, <1>4, <3>1, <3>2
  <2>. QED BY <1>3, <2>1, <2>2, <2>3 DEF MessagesInv
<1>9. SlotsInv'
  <2>1. ASSUME NEW s \in Sides
        PROVE  /\ orders'[s].state = "PENDING_CANCEL" =>
                      \E a \in OnPath' : /\ a.side = s /\ a.id = orders'[s].id
                                         /\ a.type \in Settling
               /\ Working(s)' => orders'[s].qty <= OrderQty
               /\ orders'[s].state # "INVALID" => orders'[s].id >= 1
    <3>1. CASE s = side
      BY <1>4, <3>1, SimexPathAssumption
    <3>2. CASE s # side
      BY <1>3, <1>4, <3>2 DEF SlotsInv, Working, Engine!Working
    <3>. QED BY <3>1, <3>2
  <2>2. orders'["BUY"].id # orders'["SELL"].id
    BY <1>4, SideFacts
  <2>. QED BY <2>1, <2>2 DEF SlotsInv
<1>10. \A a \in In(responses) : Fill(a) => a.side # side
  BY <1>5 DEF Fill, OnPath
<1>11. FillsInv'
  <2>1. ASSUME NEW a \in In(responses), Fill(a)
        PROVE  orders'[a.side] = orders[a.side]
    <3>1. a.side \in Sides
      BY <1>5 DEF OnPath
    <3>. QED BY <1>4, <1>10, <2>1, <3>1
  <2>. QED BY <2>1 DEF FillsInv, Fill
<1>12. \A s \in Sides : \A n : s # side => IsLeft(s, n)' = IsLeft(s, n)
  BY <1>4 DEF IsLeft
<1>13. AdapterInv'
  <2>1. ASSUME NEW x \in DOMAIN metadata PROVE RecordInv(x)'
    <3>1. RecordInv(x) /\ x < nextOrderId /\ x \in Nat
      BY <1>4 DEF AdapterInv, TypeOK
    <3>2. metadata[x].side \in Sides
      BY OfItsSide DEF Record
    <3>3. x # orders'[Opposite(metadata[x].side)].id
      BY <1>4, <3>1, <3>2, SideFacts DEF RecordInv
    <3>4. ASSUME ~ metadata[x].terminal PROVE metadata[x].side # side
      BY <1>4, <3>1, <3>4 DEF RecordInv
    <3>5. CASE metadata[x].side = side
      BY <1>3, <1>4, <3>1, <3>3, <3>4, <3>5 DEF RecordInv
    <3>6. CASE metadata[x].side # side
      <4>1. orders'[metadata[x].side] = orders[metadata[x].side]
        BY <1>4, <3>2, <3>6
      <4>2. Working(metadata[x].side)' = Working(metadata[x].side)
        BY <4>1 DEF Working, Engine!Working
      <4>3. IsLeft(metadata[x].side, metadata[x].remaining)'
                = IsLeft(metadata[x].side, metadata[x].remaining)
        BY <1>12, <3>2, <3>6
      <4>. QED BY <1>3, <3>1, <3>3, <4>1, <4>2, <4>3 DEF RecordInv
    <3>. QED BY <3>5, <3>6
  <2>2. VenueInv'
    <3>1. m.id \notin DOMAIN metadata
      BY <1>1, <1>4 DEF TypeOK
    <3>. QED BY <1>1, <1>3, <3>1 DEF AdapterInv, VenueInv
  <2>3. ASSUME NEW x \in DOMAIN resting PROVE RestingInv(x)'
    <3>1. RestingInv(x) /\ x \in DOMAIN metadata /\ RecordInv(x)
      BY DEF AdapterInv, TypeOK
    <3>2. resting[x].side # side
      BY <1>4, <3>1 DEF RestingInv, RecordInv
    <3>. QED BY <1>1, <1>3, <3>1, <3>2 DEF RestingInv
  <2>. QED BY <2>1, <2>2, <2>3 DEF AdapterInv
<1>14. PositionInv'
  <2>1. PICK buy \in Nat, sell \in Nat :
            /\ IsLeft("BUY", buy) /\ IsLeft("SELL", sell)
            /\ netPosition = position.net + (orders["BUY"].qty - buy)
                                          - (orders["SELL"].qty - sell)
    BY DEF PositionInv
  <2>2. \A n : IsLeft(side, n) => n = orders[side].qty
    BY <1>10 DEF IsLeft
  <2>3. IsLeft(side, qty)'
    BY <1>4, <1>10 DEF IsLeft
  <2>4. position.net \in Int /\ \A s \in Sides : orders[s].qty \in Int
    BY EngineTypes
  <2>5. qty \in Nat
    BY SimexPathAssumption
  <2>6. CASE side = "BUY"
    <3>1. orders'["SELL"] = orders["SELL"] /\ IsLeft("SELL", sell)'
      BY <1>4, <1>12, <2>1, <2>6, SideFacts
    <3>2. netPosition' = position'.net + (orders'["BUY"].qty - qty)
                                       - (orders'["SELL"].qty - sell)
      BY <1>4, <2>1, <2>2, <2>4, <2>5, <2>6, <3>1
    <3>. QED BY <2>3, <2>5, <2>6, <3>1, <3>2 DEF PositionInv
  <2>7. CASE side = "SELL"
    <3>1. orders'["BUY"] = orders["BUY"] /\ IsLeft("BUY", buy)'
      BY <1>4, <1>12, <2>1, <2>7, SideFacts
    <3>2. netPosition' = position'.net + (orders'["BUY"].qty - buy)
                                       - (orders'["SELL"].qty - qty)
      BY <1>4, <2>1, <2>2, <2>4, <2>5, <2>7, <3>1
    <3>. QED BY <2>3, <2>5, <2>7, <3>1, <3>2 DEF PositionInv
  <2>. QED BY <2>6, <2>7, SideFacts
<1>15. PositionsReconcile'
  BY DEF PositionsReconcile
<1>. QED BY <1>6, <1>7, <1>8, <1>9, <1>11, <1>13, <1>14, <1>15

LEMMA DecidesCancel ==
    ASSUME SimexInv, NEW side \in Sides,
           orders[side].state = "LIVE",
           nextOrderId' = nextOrderId,
           orders' = [orders EXCEPT ![side].state = "PENDING_CANCEL"],
           requests' = Append(requests, [type |-> "CANCEL", id |-> orders[side].id,
                                         side |-> side, offset |-> orders[side].offset,
                                         qty |-> orders[side].qty]),
           EngineProofs!ParticipantInv',
           UNCHANGED <<position, responses, adapterVars, outgoing, incoming, resting>>
    PROVE  SimexInv'
<1>. USE DEF SimexInv, adapterVars
<1>. DEFINE m == [type |-> "CANCEL", id |-> orders[side].id, side |-> side,
                  offset |-> orders[side].offset, qty |-> orders[side].qty]
<1>1. /\ orders[side].id \in OrderIds /\ orders[side].offset \in Offsets
      /\ orders[side].qty \in Nat /\ Working(side)
  <2>1. orders[side].id >= 1
    BY DEF SlotsInv
  <2>2. Working(side)
    BY DEF Working, Engine!Working
  <2>. QED BY <2>1, <2>2, EngineTypes DEF OrderIds
<1>2. /\ m \in Request /\ m.type = "CANCEL" /\ m.id = orders[side].id /\ m.side = side
      /\ m.offset = orders[side].offset
  BY <1>1 DEF Request
<1>3. requests' = Append(requests, m)
  OBVIOUS
<1>. HIDE DEF m
<1>4. /\ requests' \in Seq(Request) /\ In(requests') = In(requests) \cup {m}
      /\ OnPath' = OnPath \cup {m} /\ Venueward' = Venueward
      /\ Sorted(requests) /\ Ahead(In(requests), {m}) => Sorted(requests')
  <2>1. requests \in Seq(Request)
    BY DEF TypeOK
  <2>2. /\ requests' \in Seq(Request) /\ In(requests') = In(requests) \cup {m}
        /\ Sorted(requests) /\ Ahead(In(requests), {m}) => Sorted(requests')
    BY ONLY <1>2, <1>3, <2>1, RequestAppended
  <2>. QED BY <2>2 DEF OnPath, Venueward
<1>5. /\ orders'[side].id = orders[side].id /\ orders'[side].qty = orders[side].qty
      /\ orders'[side].offset = orders[side].offset
      /\ orders'[side].state = "PENDING_CANCEL"
      /\ \A s \in Sides : s # side => orders'[s] = orders[s]
      /\ orders[side].id < nextOrderId
  BY EngineTypes
<1>6. \A a \in OnPath : /\ a.side \in Sides
                        /\ a.side = side => Fill(a) /\ a.id = orders[side].id
  BY MessageTypes, QuietSides
<1>7. \A s \in Sides : /\ orders'[s].id = orders[s].id /\ orders'[s].qty = orders[s].qty
                       /\ orders'[s].offset = orders[s].offset
                       /\ Working(s)' = Working(s)
  <2>1. Working(side)'
    BY <1>5 DEF Working, Engine!Working
  <2>2. ASSUME NEW s \in Sides, s # side PROVE Working(s)' = Working(s)
    BY <1>5, <2>2 DEF Working, Engine!Working
  <2>3. ASSUME NEW s \in Sides PROVE Working(s)' = Working(s)
    <3>1. CASE s = side
      BY <1>1, <2>1, <3>1
    <3>. QED BY <2>2, <3>1
  <2>. QED BY <1>5, <2>3
<1>8. TypeOK'
  <2>1. \A a \in OnPath' : a.id < nextOrderId'
    BY <1>2, <1>4, <1>5 DEF TypeOK
  <2>. QED BY <1>4, <2>1 DEF TypeOK
<1>9. PathInv'
  <2>1. Ahead(OnPath, {m})
    BY <1>2, <1>6 DEF Ahead, MayLead, Fill
  <2>. QED BY <1>4, <2>1 DEF PathInv, Ahead, OnPath
<1>10. MessagesInv'
  <2>1. ASSUME NEW a \in OnPath
        PROVE  Fits(a, orders'[a.side]) /\ a.id # orders'[Opposite(a.side)].id
    <3>1. Fits(a, orders[a.side]) /\ a.id # orders[Opposite(a.side)].id /\ a.side \in Sides
      BY <1>6 DEF MessagesInv
    <3>2. a.id # orders'[Opposite(a.side)].id
      BY <1>7, <3>1, SideFacts
    <3>3. CASE a.side = side
      BY <1>5, <1>6, <3>1, <3>3 DEF Fits, Fill
    <3>4. CASE a.side # side
      BY <1>5, <3>1, <3>4
    <3>. QED BY <3>2, <3>3, <3>4
  <2>2. Fits(m, orders'[m.side])
    BY <1>2, <1>5 DEF Fits
  <2>3. m.id # orders'[Opposite(m.side)].id
    <3>1. orders["BUY"].id # orders["SELL"].id
      BY <1>1, SideFacts DEF SlotsInv, OrderIds
    <3>. QED BY <1>2, <1>7, <3>1, SideFacts
  <2>. QED BY <1>4, <2>1, <2>2, <2>3 DEF MessagesInv
<1>11. SlotsInv'
  <2>1. ASSUME NEW s \in Sides
        PROVE  /\ orders'[s].state = "PENDING_CANCEL" =>
                      \E a \in OnPath' : /\ a.side = s /\ a.id = orders'[s].id
                                         /\ a.type \in Settling
               /\ Working(s)' => orders'[s].qty <= OrderQty
               /\ orders'[s].state # "INVALID" => orders'[s].id >= 1
    <3>1. CASE s = side
      <4>1. \E a \in OnPath' : /\ a.side = s /\ a.id = orders'[s].id /\ a.type \in Settling
        BY <1>2, <1>4, <1>5, <3>1 DEF Settling
      <4>. QED BY <1>1, <1>5, <3>1, <4>1 DEF SlotsInv
    <3>2. CASE s # side
      BY <1>4, <1>5, <1>7, <3>2 DEF SlotsInv
    <3>. QED BY <3>1, <3>2
  <2>. QED BY <1>7, <2>1, SideFacts DEF SlotsInv
<1>12. \A a \in In(responses) : a.side \in Sides
  BY <1>6 DEF OnPath
<1>13. FillsInv'
  BY <1>7, <1>12 DEF FillsInv
<1>14. \A s \in Sides : \A n : IsLeft(s, n)' = IsLeft(s, n)
  BY <1>7 DEF IsLeft
<1>15. AdapterInv'
  <2>1. ASSUME NEW x \in DOMAIN metadata PROVE RecordInv(x)'
    <3>1. RecordInv(x) /\ metadata[x].side \in Sides
      BY OfItsSide DEF AdapterInv, Record
    <3>. QED BY <1>4, <1>7, <1>14, <3>1, SideFacts DEF RecordInv
  <2>2. VenueInv'
    <3>1. ASSUME m.id \in DOMAIN metadata
          PROVE  metadata[m.id].side = m.side /\ metadata[m.id].offset = m.offset
      <4>1. metadata[m.id].side = side
        BY <1>2, <3>1, OfItsSide
      <4>. QED BY <1>2, <3>1, <4>1 DEF AdapterInv, RecordInv
    <3>. QED BY <1>2, <1>4, <3>1 DEF AdapterInv, VenueInv
  <2>3. ASSUME NEW x \in DOMAIN resting PROVE RestingInv(x)'
    <3>1. RestingInv(x) /\ x \in DOMAIN metadata /\ RecordInv(x)
      BY DEF AdapterInv, TypeOK
    <3>2. resting[x].side = side => x = m.id
      BY <1>2, <3>1 DEF RestingInv, RecordInv
    <3>. QED BY <1>2, <1>4, <3>1, <3>2 DEF RestingInv
  <2>. QED BY <2>1, <2>2, <2>3 DEF AdapterInv
<1>16. PositionInv'
  BY <1>7, <1>14, SideFacts DEF PositionInv
<1>17. PositionsReconcile'
  BY DEF PositionsReconcile
<1>. QED BY <1>8, <1>9, <1>10, <1>11, <1>13, <1>15, <1>16, <1>17

LEMMA EngineDecidesKeeps ==
    ASSUME SimexInv, EngineDecides
    PROVE  SimexInv'
<1>. USE DEF SimexInv
<1>1. /\ Engine!Decide
      /\ UNCHANGED <<responses, adapterVars, outgoing, incoming, resting>>
  BY DEF EngineDecides
<1>2. PICK side \in Sides : /\ orders'[side] # orders[side]
                            /\ requests' = Append(requests, RequestFor(side))
  BY DEF EngineDecides, SendClientRequest, Sides
<1>3. EngineProofs!ParticipantInv'
  BY <1>1, EngineSteps DEF Engine!Next
<1>4. /\ UNCHANGED position
      /\ \E s \in Sides :
            \/ \E price \in Prices, qty \in 0 .. OrderQty, offset \in Offsets :
                  /\ orders[s].state \in {"INVALID", "DEAD"}
                  /\ nextOrderId' = nextOrderId + 1
                  /\ orders' = [orders EXCEPT ![s] =
                                   [id |-> nextOrderId, price |-> price, qty |-> qty,
                                    offset |-> offset, state |-> "PENDING_NEW"]]
            \/ /\ orders[s].state = "LIVE"
               /\ nextOrderId' = nextOrderId
               /\ orders' = [orders EXCEPT ![s].state = "PENDING_CANCEL"]
  BY <1>1, Decided
<1>5. \A s \in Sides : \A o : orders' = [orders EXCEPT ![s] = o] => s = side
  BY <1>2, EngineTypes
<1>6. ASSUME NEW price \in Prices, NEW qty \in 0 .. OrderQty, NEW offset \in Offsets,
             orders[side].state \in {"INVALID", "DEAD"},
             nextOrderId' = nextOrderId + 1,
             orders' = [orders EXCEPT ![side] =
                           [id |-> nextOrderId, price |-> price, qty |-> qty,
                            offset |-> offset, state |-> "PENDING_NEW"]]
      PROVE  SimexInv'
  <2>1. RequestFor(side) = [type |-> "NEW", id |-> nextOrderId, side |-> side,
                            offset |-> offset, qty |-> qty]
    BY <1>6, EngineTypes DEF RequestFor
  <2>2. requests' = Append(requests, [type |-> "NEW", id |-> nextOrderId, side |-> side,
                                      offset |-> offset, qty |-> qty])
    BY <1>2, <2>1
  <2>3. UNCHANGED <<position, responses, adapterVars, outgoing, incoming, resting>>
    BY <1>1, <1>4
  <2>. HIDE DEF SimexInv
  <2>. QED BY <1>3, <1>6, <2>2, <2>3, DecidesNew
<1>7. ASSUME orders[side].state = "LIVE", nextOrderId' = nextOrderId,
             orders' = [orders EXCEPT ![side].state = "PENDING_CANCEL"]
      PROVE  SimexInv'
  <2>1. RequestFor(side) = [type |-> "CANCEL", id |-> orders[side].id, side |-> side,
                            offset |-> orders[side].offset, qty |-> orders[side].qty]
    BY <1>7, EngineTypes DEF RequestFor
  <2>. QED BY ONLY SimexInv, <1>1, <1>2, <1>3, <1>4, <1>7, <2>1, DecidesCancel
<1>. QED BY <1>4, <1>5, <1>6, <1>7
-----------------------------------------------------------------------------
(***************************************************************************)
(* The engine takes a response.                                            *)
(***************************************************************************)

\* The response the engine is about to take.
LEMMA HeadResponse ==
    ASSUME SimexInv, responses # << >>
    PROVE  LET r == Head(responses)
           IN  /\ r \in ResponseSet /\ r \in In(responses) /\ r \in OnPath
               /\ Tail(responses) \in Seq(ResponseSet) /\ Sorted(Tail(responses))
               /\ In(responses) = {r} \cup In(Tail(responses))
               /\ Ahead({r}, In(Tail(responses)) \cup Venueward \cup In(requests))
               /\ Fits(r, orders[r.side])
               /\ Fill(r) => r.exec + r.leaves = orders[r.side].qty
<1>. USE DEF SimexInv
<1>. DEFINE r == Head(responses)
<1>1. responses \in Seq(ResponseSet) /\ Sorted(responses)
  BY DEF TypeOK, PathInv
<1>2. /\ r \in ResponseSet /\ r \in In(responses)
      /\ Tail(responses) \in Seq(ResponseSet) /\ Sorted(Tail(responses))
      /\ In(responses) = {r} \cup In(Tail(responses))
      /\ Ahead({r}, In(Tail(responses)))
  BY <1>1, HeadTaken
<1>. HIDE DEF r
<1>3. Ahead({r}, In(Tail(responses)) \cup Venueward \cup In(requests))
  BY <1>2 DEF PathInv, Ahead, Venueward
<1>4. r \in OnPath /\ Fits(r, orders[r.side])
  BY <1>2 DEF OnPath, MessagesInv
<1>5. ASSUME Fill(r) PROVE r.exec + r.leaves = orders[r.side].qty
  <2>1. SUFFICES ASSUME NEW a \in In(responses), Fill(a), a.side = r.side,
                        a.leaves = r.exec + r.leaves
                 PROVE  FALSE
    BY <1>2, <1>5 DEF FillsInv
  <2>2. r.exec \in Nat /\ r.leaves \in Nat /\ r.exec >= 1
    BY <1>2, <1>4, <1>5 DEF ResponseSet, Fits, Fill
  <2>3. a # r
    BY <2>1, <2>2
  <2>4. MayLead(r, a)
    BY <1>2, <2>1, <2>3 DEF Ahead
  <2>5. a.exec \in Nat /\ a.leaves \in Nat
    BY MessageTypes DEF ResponseSet
  <2>6. a.exec + a.leaves <= r.leaves
    BY <1>5, <2>1, <2>4 DEF MayLead, Fill
  <2>. QED BY <2>1, <2>2, <2>5, <2>6
<1>. QED BY <1>2, <1>3, <1>4, <1>5 DEF r

\* What a response does to the engine.
LEMMA Received ==
    ASSUME SimexInv, responses # << >>, Engine!HandleClientResponse(Head(responses))
    PROVE  LET r == Head(responses)
           IN  /\ Engine!Next
               /\ EngineProofs!ParticipantInv'
               /\ nextOrderId' = nextOrderId
               /\ position'.net = position.net + Added(r)
               /\ orders' = Engine!OnOrderUpdate(r)
<1>. USE DEF SimexInv
<1>. DEFINE r == Head(responses)
<1>1. /\ r \in ResponseSet /\ r \in In(responses) /\ r \in OnPath /\ Fits(r, orders[r.side])
      /\ Fill(r) => r.exec + r.leaves = orders[r.side].qty
  BY HeadResponse
<1>2. Engine!HandleClientResponse(r)
  OBVIOUS
<1>. HIDE DEF r
<1>3. /\ r.side \in Sides /\ r.id \in OrderIds /\ r.id < nextOrderId
      /\ r.exec \in Nat /\ r.leaves \in Nat
      /\ r.type \in {"ACCEPTED", "REJECTED", "FILLED", "CANCELED", "CANCEL_REJECTED"}
      /\ r = [type |-> r.type, id |-> r.id, side |-> r.side, offset |-> r.offset,
              exec |-> r.exec, leaves |-> r.leaves]
      /\ ~ Fill(r) => r.exec = 0
  BY <1>1, MessageTypes DEF ResponseSet, MessagesInv
<1>4. nextOrderId \in Nat \ {0} /\ orders[r.side].qty \in Nat /\ position.net \in Int
  BY <1>3, EngineTypes
<1>5. nextOrderId' = nextOrderId
  BY <1>2 DEF Engine!HandleClientResponse
<1>6. Engine!Next
  <2>0. ASSUME r.type # "FILLED"
        PROVE  /\ position' = position /\ ~ fault' /\ ~ fault /\ nextOrderId' = nextOrderId
               /\ orders' = Engine!OnOrderUpdate(r)
    BY <1>2, <2>0 DEF Engine!HandleClientResponse
  <2>1. CASE r.type = "FILLED"
    <3>1. /\ r.id = orders[r.side].id /\ r.offset = orders[r.side].offset
          /\ Engine!Working(r.side) /\ r.exec >= 1
      BY <1>1, <2>1 DEF Fits, Engine!Working
    <3>2. r.exec \in 1 .. orders[r.side].qty /\ r.leaves = orders[r.side].qty - r.exec
      BY <1>1, <1>3, <1>4, <2>1, <3>1 DEF Fill
    <3>3. r \in Engine!Answers(r.side)
      BY <1>3, <2>1, <3>1, <3>2 DEF Engine!Answers, Engine!Response
    <3>. QED BY <1>2, <1>3, <3>3 DEF Engine!Next, Engine!ReceiveResponse, Sides
  <2>2. CASE r.type = "CANCEL_REJECTED"
    <3>. DEFINE a == Engine!Response("CANCEL_REJECTED", r.id, r.side, "OPEN", 0, 0)
    <3>1. a \in Engine!Answers(r.side)
      BY <1>3, <1>4 DEF Engine!Answers, OrderIds
    <3>2. a.type = r.type /\ a.id = r.id /\ a.side = r.side
      BY <2>2 DEF Engine!Response
    <3>. HIDE DEF a
    <3>3. Engine!HandleClientResponse(a)
      BY <1>2, <1>3, <2>0, <2>2, <3>2
         DEF Engine!HandleClientResponse, Engine!OnOrderUpdate, Engine!Updated
    <3>. QED BY <1>3, <3>1, <3>3 DEF Engine!Next, Engine!ReceiveResponse, Sides
  <2>3. CASE r.type \in {"ACCEPTED", "REJECTED", "CANCELED"}
    <3>1. /\ r.id = orders[r.side].id /\ r.offset = orders[r.side].offset
          /\ Engine!Working(r.side)
      BY <1>1, <2>3 DEF Fits, Engine!Working
    <3>. DEFINE a == Engine!Response(r.type, r.id, r.side, r.offset, 0, 0)
    <3>2. a \in Engine!Answers(r.side)
      BY <2>3, <3>1 DEF Engine!Answers
    <3>3. a.type = r.type /\ a.id = r.id /\ a.side = r.side
      BY DEF Engine!Response
    <3>. HIDE DEF a
    <3>4. Engine!HandleClientResponse(a)
      BY <1>2, <1>3, <2>0, <2>3, <3>3
         DEF Engine!HandleClientResponse, Engine!OnOrderUpdate, Engine!Updated
    <3>. QED BY <1>3, <3>2, <3>4 DEF Engine!Next, Engine!ReceiveResponse, Sides
  <2>. QED BY <1>3, <2>1, <2>2, <2>3
<1>7. EngineProofs!ParticipantInv'
  BY <1>6, EngineSteps
<1>8. ~ fault'
  BY <1>7 DEF EngineProofs!ParticipantInv, EngineProofs!NoDisagreement
<1>9. orders' = Engine!OnOrderUpdate(r)
  BY <1>2, <1>8 DEF Engine!HandleClientResponse
<1>10. position'.net = position.net + Added(r)
  <2>1. CASE Fill(r)
    <3>1. position'.net = position.net + Engine!Sign(r.side) * r.exec
      BY <1>2, <1>8, <2>1, SimexPathAssumption
         DEF Engine!HandleClientResponse, Engine!Agrees, Fill
    <3>. QED BY <3>1 DEF Added, Sign
  <2>2. CASE ~ Fill(r)
    <3>1. position' = position
      BY <1>2, <2>2 DEF Engine!HandleClientResponse, Fill
    <3>2. Added(r) = 0
      BY <1>3, <2>2, SideFacts DEF Added
    <3>. QED BY <1>4, <3>1, <3>2
  <2>. QED BY <2>1, <2>2
<1>. QED BY <1>5, <1>6, <1>7, <1>9, <1>10 DEF r

LEMMA EngineReceivesKeeps ==
    ASSUME SimexInv, EngineReceives
    PROVE  SimexInv'
<1>. USE DEF SimexInv, adapterVars
<1>0. PICK r : r = Head(responses)
  OBVIOUS
<1>. DEFINE s == r.side
<1>1. /\ responses # << >> /\ Engine!HandleClientResponse(r) /\ responses' = Tail(responses)
      /\ UNCHANGED <<requests, metadata, netPosition, outgoing, incoming, resting>>
  BY <1>0 DEF EngineReceives
<1>2. /\ r \in ResponseSet /\ r \in In(responses) /\ r \in OnPath
      /\ responses' \in Seq(ResponseSet) /\ Sorted(responses')
      /\ In(responses) = {r} \cup In(responses')
      /\ Ahead({r}, In(responses') \cup Venueward \cup In(requests))
      /\ Fits(r, orders[r.side])
      /\ Fill(r) => r.exec + r.leaves = orders[r.side].qty
  BY <1>0, <1>1, HeadResponse
<1>3. /\ EngineProofs!ParticipantInv' /\ nextOrderId' = nextOrderId
      /\ position'.net = position.net + Added(r)
      /\ orders' = Engine!OnOrderUpdate(r)
  BY <1>0, <1>1, Received
<1>4. Executed(responses)[Len(responses)]
          = Added(r) + Executed(responses')[Len(responses')]
  <2>1. responses \in Seq(ResponseSet)
    BY DEF TypeOK
  <2>. QED BY <1>0, <1>1, <2>1, ExecutedTaken
<1>5. /\ r.id \in OrderIds /\ s \in Sides /\ r.exec \in Nat /\ r.leaves \in Nat
      /\ r.type \in {"ACCEPTED", "REJECTED", "FILLED", "CANCELED", "CANCEL_REJECTED"}
      /\ ~ Fill(r) => r.exec = 0
  BY <1>2 DEF ResponseSet, MessagesInv
<1>6. /\ orders[s].id \in Nat /\ orders[s].qty \in Nat
      /\ orders[s].state \in {"INVALID", "PENDING_NEW", "LIVE", "PENDING_CANCEL", "DEAD"}
      /\ \A t \in Sides : orders[t].qty \in Nat
      /\ position.net \in Int /\ Added(r) \in Int
  BY <1>2, <1>5, EngineTypes, AddedTypes
<1>7. /\ OnPath = {r} \cup OnPath'
      /\ OnPath' = In(responses') \cup Venueward \cup In(requests)
      /\ Venueward' = Venueward
  BY <1>1, <1>2 DEF OnPath, Venueward
\* The slot of the response's side, and only that.
<1>8. /\ \A t \in Sides : t # s => orders'[t] = orders[t]
      /\ orders'[s].id = orders[s].id /\ orders'[s].offset = orders[s].offset
      /\ orders'[s].qty = IF Fill(r) THEN r.leaves ELSE orders[s].qty
      /\ orders'[s].state =
             IF r.type = "ACCEPTED" THEN "LIVE"
             ELSE IF Final(r) THEN "DEAD"
             ELSE IF r.type = "CANCEL_REJECTED" /\ orders[s].state = "PENDING_CANCEL"
             THEN "LIVE" ELSE orders[s].state
  <2>1. CASE orders[s].id = r.id
    BY <1>3, <1>5, <2>1, EngineTypes
       DEF Engine!OnOrderUpdate, Engine!Updated, Fill, Final
  <2>2. CASE orders[s].id # r.id
    <3>1. r.type = "CANCEL_REJECTED" /\ orders[s].state = "PENDING_NEW"
      BY <1>2, <1>5, <2>2 DEF Fits
    <3>. QED BY <1>3, <2>2, <3>1 DEF Engine!OnOrderUpdate, Fill, Final
  <2>. QED BY <2>1, <2>2
<1>9. \A t \in Sides : orders'[t].id = orders[t].id /\ orders'[t].offset = orders[t].offset
  BY <1>8
<1>10. ASSUME NEW a \in OnPath', a.side = s PROVE MayLead(r, a) /\ Fits(a, orders[s])
  BY <1>2, <1>7, <1>10 DEF Ahead, MessagesInv
<1>11. TypeOK'
  <2>1. \A a \in OnPath' : a.id < nextOrderId'
    BY <1>3, <1>7 DEF TypeOK
  <2>. QED BY <1>1, <1>2, <1>3, <2>1 DEF TypeOK
<1>12. PathInv'
  BY <1>1, <1>2 DEF PathInv, Ahead
\* What is behind the response fits the slot it leaves.
<1>13. ASSUME NEW a \in OnPath', a.side = s PROVE Fits(a, orders'[s])
  <2>1. /\ a.type \in {"NEW", "ACCEPTED", "REJECTED", "FILLED", "CANCELED", "CANCEL",
                       "CANCEL_REJECTED"}
        /\ a.id \in OrderIds
    BY <1>7, MessageTypes DEF OnPath, Request, ResponseSet
  <2>2. MayLead(r, a) /\ Fits(a, orders[s])
    BY <1>10, <1>13
  <2>3. a.type = "FILLED" => a.exec \in Nat /\ a.leaves \in Nat
    <3>1. a \in In(responses) \cup In(incoming) => a \in ResponseSet
      BY MessageTypes
    <3>2. a \in In(outgoing) \cup In(requests) => a \in Request
      BY MessageTypes
    <3>. QED BY <1>7, <3>1, <3>2 DEF OnPath, Request, ResponseSet
  <2>4. CASE r.type = "ACCEPTED"
    BY <1>2, <1>8, <2>1, <2>2, <2>4 DEF MayLead, Fits, Fill, Final
  <2>5. CASE Fill(r) /\ r.leaves > 0
    BY <1>2, <1>5, <1>6, <1>8, <2>1, <2>2, <2>3, <2>5 DEF MayLead, Fits, Fill, Final
  <2>6. CASE Fill(r) /\ r.leaves = 0
    BY <1>2, <1>5, <1>6, <1>8, <2>1, <2>2, <2>3, <2>6 DEF MayLead, Fits, Fill, Final
  <2>7. CASE r.type \in {"REJECTED", "CANCELED"}
    BY <2>2, <2>7 DEF MayLead
  <2>8. CASE r.type = "CANCEL_REJECTED"
    <3>1. a.id > r.id /\ a.id = orders[s].id
      BY <1>5, <2>1, <2>2, <2>8 DEF MayLead, Fits
    <3>2. orders[s].state = "PENDING_NEW"
      BY <1>2, <1>5, <1>6, <2>1, <2>8, <3>1 DEF Fits, OrderIds
    <3>. QED BY <1>8, <2>2, <2>8, <3>2 DEF Fits, Fill, Final
  <2>. QED BY <1>5, <2>4, <2>5, <2>6, <2>7, <2>8 DEF Fill
<1>14. MessagesInv'
  <2>1. ASSUME NEW a \in OnPath'
        PROVE  Fits(a, orders'[a.side]) /\ a.id # orders'[Opposite(a.side)].id
    <3>1. Fits(a, orders[a.side]) /\ a.id # orders[Opposite(a.side)].id /\ a.side \in Sides
      BY <1>7, MessageTypes DEF MessagesInv
    <3>2. a.id # orders'[Opposite(a.side)].id
      BY <1>9, <3>1, SideFacts
    <3>3. CASE a.side = s
      BY <1>13, <3>2, <3>3
    <3>4. CASE a.side # s
      BY <1>8, <3>1, <3>2, <3>4
    <3>. QED BY <3>3, <3>4
  <2>. QED BY <1>1, <1>2, <2>1 DEF MessagesInv
<1>15. SlotsInv'
  <2>1. ASSUME NEW t \in Sides
        PROVE  /\ orders'[t].state = "PENDING_CANCEL" =>
                      \E a \in OnPath' : /\ a.side = t /\ a.id = orders'[t].id
                                         /\ a.type \in Settling
               /\ Working(t)' => orders'[t].qty <= OrderQty
               /\ orders'[t].state # "INVALID" => orders'[t].id >= 1
    <3>1. CASE t = s
      <4>1. ASSUME orders'[s].state = "PENDING_CANCEL"
            PROVE  \E a \in OnPath' : a.side = s /\ a.id = orders'[s].id /\ a.type \in Settling
        <5>1. orders[s].state = "PENDING_CANCEL" /\ r.type \notin Settling
          BY <1>2, <1>5, <1>8, <4>1 DEF Final, Fill, Settling
        <5>2. PICK a \in OnPath : a.side = s /\ a.id = orders[s].id /\ a.type \in Settling
          BY <1>5, <5>1 DEF SlotsInv
        <5>. QED BY <1>7, <1>8, <5>1, <5>2
      <4>2. Working(s)' => orders'[s].qty <= OrderQty
        <5>1. ASSUME Working(s)' PROVE Working(s)
          BY <1>2, <1>8, <5>1 DEF Working, Engine!Working, Fits
        <5>2. orders'[s].qty <= orders[s].qty
          BY <1>2, <1>5, <1>6, <1>8
        <5>. QED BY <1>5, <1>6, <1>8, <5>1, <5>2, SimexPathAssumption DEF SlotsInv
      <4>3. orders'[s].state # "INVALID" => orders'[s].id >= 1
        <5>1. orders[s].state # "INVALID"
          BY <1>2, <1>5 DEF Fits
        <5>. QED BY <1>5, <1>8, <5>1 DEF SlotsInv
      <4>. QED BY <3>1, <4>1, <4>2, <4>3
    <3>2. CASE t # s
      <4>1. orders'[t] = orders[t] /\ Working(t)' = Working(t)
        BY <1>8, <3>2 DEF Working, Engine!Working
      <4>2. r.side # t
        BY <3>2
      <4>. QED BY <1>7, <4>1, <4>2 DEF SlotsInv
    <3>. QED BY <3>1, <3>2
  <2>. QED BY <1>9, <2>1, SideFacts DEF SlotsInv
<1>16. FillsInv'
  <2>1. ASSUME NEW m \in In(responses'), Fill(m)
        PROVE  \/ m.exec + m.leaves = orders'[m.side].qty
               \/ \E a \in In(responses') :
                      Fill(a) /\ a.side = m.side /\ a.leaves = m.exec + m.leaves
    <3>1. m \in In(responses) /\ m.side \in Sides /\ m \in OnPath'
      BY <1>2, <1>7, MessageTypes DEF OnPath
    <3>2. \/ m.exec + m.leaves = orders[m.side].qty
          \/ \E a \in In(responses) :
                 Fill(a) /\ a.side = m.side /\ a.leaves = m.exec + m.leaves
      BY <2>1, <3>1 DEF FillsInv
    <3>3. CASE m.side = s /\ Fill(r)
      <4>1. m.exec + m.leaves <= r.leaves
        BY <1>10, <2>1, <3>1, <3>3 DEF MayLead, Fill
      <4>2. r.exec >= 1 /\ m.exec \in Nat /\ m.leaves \in Nat
        BY <1>2, <3>1, <3>3, MessageTypes DEF Fits, Fill, ResponseSet
      <4>3. m.exec + m.leaves # orders[s].qty
        BY <1>2, <1>5, <3>3, <4>1, <4>2
      <4>4. PICK a \in In(responses) :
                Fill(a) /\ a.side = m.side /\ a.leaves = m.exec + m.leaves
        BY <3>2, <3>3, <4>3
      <4>. QED BY <1>2, <1>8, <3>3, <4>4
    <3>4. CASE m.side # s
      <4>1. orders'[m.side] = orders[m.side]
        BY <1>8, <3>1, <3>4
      <4>. QED BY <1>2, <3>2, <3>4, <4>1
    <3>5. CASE ~ Fill(r)
      <4>1. orders'[m.side].qty = orders[m.side].qty
        BY <1>8, <3>1, <3>5
      <4>. QED BY <1>2, <3>2, <3>5, <4>1
    <3>. QED BY <3>3, <3>4, <3>5
  <2>. QED BY <1>1, <2>1 DEF FillsInv, Fill
\* What the queued executions leave is the same, one of them now booked.
<1>17. ASSUME NEW t \in Sides, NEW n \in Nat, IsLeft(t, n) PROVE IsLeft(t, n)'
  <2>1. CASE t = s /\ Fill(r)
    <3>1. orders'[s].qty = r.leaves /\ r.leaves < orders[s].qty /\ n <= r.leaves
      BY <1>2, <1>5, <1>6, <1>8, <1>17, <2>1 DEF Fits, Fill, IsLeft
    <3>. QED BY <1>2, <1>5, <1>6, <1>17, <2>1, <3>1 DEF IsLeft
  <2>2. CASE t # s \/ ~ Fill(r)
    <3>1. orders'[t].qty = orders[t].qty
      BY <1>8, <2>2
    <3>. QED BY <1>2, <1>17, <2>2, <3>1 DEF IsLeft
  <2>. QED BY <2>1, <2>2
<1>18. AdapterInv'
  <2>1. ASSUME NEW x \in DOMAIN metadata PROVE RecordInv(x)'
    <3>1. RecordInv(x) /\ metadata[x].side \in Sides /\ metadata[x].remaining \in Nat
      BY OfItsSide DEF AdapterInv, Record
    <3>0. PICK t : t = metadata[x].side
      OBVIOUS
    <3>2. ASSUME ~ metadata[x].terminal
          PROVE  /\ Working(t)' /\ IsLeft(t, metadata[x].remaining)'
                 /\ \A m \in In(responses') : m.side = t => ~ Final(m)
      <4>1. /\ Working(t) /\ IsLeft(t, metadata[x].remaining)
            /\ \A m \in In(responses) : m.side = t => ~ Final(m)
        BY <3>0, <3>1, <3>2 DEF RecordInv
      <4>2. Working(t)'
        <5>1. CASE t = s
          BY <1>2, <1>5, <1>8, <4>1, <5>1 DEF Working, Engine!Working
        <5>2. CASE t # s
          BY <1>8, <3>0, <3>1, <4>1, <5>2 DEF Working, Engine!Working
        <5>. QED BY <5>1, <5>2
      <4>3. IsLeft(t, metadata[x].remaining)'
        BY <1>1, <1>17, <3>0, <3>1, <4>1
      <4>. QED BY <1>2, <4>1, <4>2, <4>3
    <3>3. x # orders'[Opposite(t)].id /\ orders'[t].id = orders[t].id
          /\ orders'[t].offset = orders[t].offset
      BY <1>9, <3>0, <3>1, SideFacts DEF RecordInv
    <3>. QED BY <1>1, <1>7, <3>0, <3>1, <3>2, <3>3 DEF RecordInv
  <2>2. VenueInv'
    BY <1>1, <1>7 DEF AdapterInv, VenueInv
  <2>3. ASSUME NEW x \in DOMAIN resting PROVE RestingInv(x)'
    BY <1>1, <1>2 DEF AdapterInv, RestingInv
  <2>. QED BY <1>1, <2>1, <2>2, <2>3 DEF AdapterInv
<1>19. PositionInv'
  <2>1. PICK buy \in Nat, sell \in Nat :
            /\ IsLeft("BUY", buy) /\ IsLeft("SELL", sell)
            /\ netPosition = position.net + (orders["BUY"].qty - buy)
                                          - (orders["SELL"].qty - sell)
    BY DEF PositionInv
  <2>2. IsLeft("BUY", buy)' /\ IsLeft("SELL", sell)'
    BY <1>17, <2>1, SideFacts
  <2>3. orders'[s].qty = orders[s].qty - r.exec
    BY <1>2, <1>5, <1>6, <1>8
  <2>4. netPosition' = position'.net + (orders'["BUY"].qty - buy)
                                     - (orders'["SELL"].qty - sell)
    <3>1. orders["BUY"].qty \in Nat /\ orders["SELL"].qty \in Nat
      BY <1>6, SideFacts
    <3>2. CASE s = "BUY"
      <4>1. Added(r) = r.exec /\ orders'["SELL"].qty = orders["SELL"].qty
        BY <1>5, <1>8, <3>2, SideFacts DEF Added
      <4>2. orders'["BUY"].qty = orders["BUY"].qty - r.exec
        BY <2>3, <3>2
      <4>3. netPosition' = netPosition /\ r.exec \in Int /\ position.net \in Int
        BY <1>1, <1>5, <1>6
      <4>. QED BY <1>3, <2>1, <3>1, <4>1, <4>2, <4>3
    <3>3. CASE s = "SELL"
      <4>1. Added(r) = - r.exec /\ orders'["BUY"].qty = orders["BUY"].qty
        BY <1>5, <1>8, <3>3, SideFacts DEF Added
      <4>2. orders'["SELL"].qty = orders["SELL"].qty - r.exec
        BY <2>3, <3>3
      <4>3. netPosition' = netPosition /\ r.exec \in Int /\ position.net \in Int
        BY <1>1, <1>5, <1>6
      <4>. QED BY <1>3, <2>1, <3>1, <4>1, <4>2, <4>3
    <3>. QED BY <1>5, <3>2, <3>3, SideFacts
  <2>. QED BY <2>2, <2>4 DEF PositionInv
<1>20. PositionsReconcile'
  <2>1. Executed(responses')[Len(responses')] \in Int
    <3>1. Len(responses') \in 0 .. Len(responses')
      BY <1>2
    <3>. QED BY <1>2, <3>1, ExecutedTotals
  <2>. QED BY <1>1, <1>3, <1>4, <1>6, <2>1 DEF PositionsReconcile
<1>. QED BY <1>3, <1>11, <1>12, <1>14, <1>15, <1>16, <1>18, <1>19, <1>20
-----------------------------------------------------------------------------
(***************************************************************************)
(* The gateway takes a request.                                            *)
(***************************************************************************)

\* The request the gateway is about to take.
LEMMA HeadRequest ==
    ASSUME SimexInv, requests # << >>
    PROVE  LET m == Head(requests)
           IN  /\ m \in Request /\ m \in In(requests) /\ m \in OnPath
               /\ Tail(requests) \in Seq(Request) /\ Sorted(Tail(requests))
               /\ In(requests) = {m} \cup In(Tail(requests))
               /\ Ahead(In(responses) \cup Venueward, {m})
               /\ Ahead({m}, In(Tail(requests)))
               /\ Fits(m, orders[m.side])
               /\ m.type = "NEW" => ~ Known(m)
<1>. USE DEF SimexInv
<1>. DEFINE m == Head(requests)
<1>1. requests \in Seq(Request) /\ Sorted(requests)
  BY DEF TypeOK, PathInv
<1>2. /\ m \in Request /\ m \in In(requests)
      /\ Tail(requests) \in Seq(Request) /\ Sorted(Tail(requests))
      /\ In(requests) = {m} \cup In(Tail(requests))
      /\ Ahead({m}, In(Tail(requests)))
  BY <1>1, HeadTaken
<1>. HIDE DEF m
<1>3. Ahead(In(responses) \cup Venueward, {m})
  BY <1>2 DEF PathInv, Ahead, Venueward
<1>4. m \in OnPath /\ Fits(m, orders[m.side])
  BY <1>2 DEF OnPath, MessagesInv
<1>5. m.type = "NEW" => ~ Known(m)
  BY <1>2 DEF AdapterInv, VenueInv, Known
<1>. QED BY <1>2, <1>3, <1>4, <1>5 DEF m

\* Under the venue's constraints an opening order extends the holding and is alone,
\* a closing order is covered by it.
LEMMA EngineHoldings ==
    ASSUME EngineProofs!ParticipantInv, NEW side \in Sides, Working(side)
    PROVE  IF orders[side].offset = "OPEN"
           THEN /\ IF side = "BUY" THEN position.net >= 0 ELSE position.net <= 0
                /\ ~ (Working(Opposite(side)) /\ orders[Opposite(side)].offset = "OPEN")
           ELSE /\ IF side = "BUY" THEN position.net < 0 ELSE position.net > 0
                /\ orders[side].qty <= IF position.net < 0 THEN - position.net
                                       ELSE position.net
<1>1. position.net \in Int /\ position.today \in Nat /\ position.yesterday \in Nat
      /\ orders[side].qty \in Nat
  BY EngineTypes
<1>2. /\ EngineProofs!Sides = Sides /\ EngineProofs!Working(side)
      /\ EngineProofs!Opposite(side) = Opposite(side)
      /\ EngineProofs!Working(Opposite(side)) = Working(Opposite(side))
      /\ EngineProofs!Sign(side) = IF side = "BUY" THEN 1 ELSE -1
  BY DEF EngineProofs!Sides, Engine!Sides, Sides, Working, Engine!Working,
         EngineProofs!Working, Opposite, EngineProofs!Opposite, Engine!Opposite,
         EngineProofs!Sign
<1>3. /\ position.today + position.yesterday = IF position.net < 0 THEN - position.net
                                               ELSE position.net
      /\ IF orders[side].offset = "OPEN"
         THEN /\ EngineProofs!Sign(side) * position.net >= 0
              /\ ~ (Working(Opposite(side)) /\ orders[Opposite(side)].offset = "OPEN")
         ELSE /\ EngineProofs!Sign(side) * position.net < 0
              /\ orders[side].qty <= EngineProofs!CloseableQty(orders[side].offset)
  BY <1>2, SimexPathAssumption
     DEF EngineProofs!ParticipantInv, EngineProofs!HoldingsAgree, EngineProofs!Magnitude
<1>4. EngineProofs!CloseableQty(orders[side].offset) <= position.today + position.yesterday
  BY <1>1 DEF EngineProofs!CloseableQty
<1>5. EngineProofs!CloseableQty(orders[side].offset) \in Nat
  BY <1>1 DEF EngineProofs!CloseableQty
<1>6. CASE side = "BUY"
  <2>1. EngineProofs!Sign(side) * position.net = position.net
    BY <1>1, <1>2, <1>6
  <2>. QED BY <1>1, <1>3, <1>4, <1>5, <1>6, <2>1
<1>7. CASE side # "BUY"
  <2>1. EngineProofs!Sign(side) * position.net = - position.net
    BY <1>1, <1>2, <1>7
  <2>. QED BY <1>1, <1>3, <1>4, <1>5, <1>7, <2>1
<1>. QED BY <1>6, <1>7

\* The adapter never has a reason to refuse a new order: its position may be ahead
\* of the engine's, but only by executions that leave the holding on the same side.
LEMMA NewNotRejected ==
    ASSUME SimexInv, requests # << >>, Head(requests).type = "NEW"
    PROVE  ~ Rejected(Head(requests))
<1>. USE DEF SimexInv
<1>0. PICK m : m = Head(requests)
  OBVIOUS
<1>1. /\ m \in Request /\ m \in In(requests) /\ m.type = "NEW" /\ ~ Known(m)
      /\ Ahead(In(responses), {m}) /\ Fits(m, orders[m.side])
  BY <1>0, HeadRequest DEF Ahead
<1>2. /\ m.side \in Sides /\ Working(m.side) /\ m.offset = orders[m.side].offset
  BY <1>1 DEF Request, Fits, Working, Engine!Working
<1>3. SUFFICES ASSUME m.offset = "OPEN", OppositeExposure(m) PROVE FALSE
  BY <1>0, <1>1 DEF Rejected
<1>. DEFINE opposite == Opposite(m.side)
<1>4. opposite \in Sides /\ opposite # m.side
  BY <1>2, SideFacts
<1>5. ~ (Working(opposite) /\ orders[opposite].offset = "OPEN")
  BY <1>2, <1>3, EngineHoldings
<1>6. ~ \E id \in DOMAIN metadata : /\ ~ metadata[id].terminal
                                    /\ metadata[id].offset = "OPEN"
                                    /\ metadata[id].side # m.side
  <2>1. SUFFICES ASSUME NEW id \in DOMAIN metadata, ~ metadata[id].terminal,
                        metadata[id].offset = "OPEN", metadata[id].side # m.side
                 PROVE  FALSE
    OBVIOUS
  <2>2. RecordInv(id) /\ metadata[id].side \in Sides
    BY OfItsSide DEF AdapterInv, Record
  <2>3. metadata[id].side = opposite
    BY <1>2, <2>1, <2>2, SideFacts
  <2>. QED BY <1>5, <2>1, <2>2, <2>3 DEF RecordInv
<1>7. Sign(m.side) * netPosition < 0
  BY <1>3, <1>6 DEF OppositeExposure
<1>8. PICK buy \in Nat, sell \in Nat :
          /\ IsLeft("BUY", buy) /\ IsLeft("SELL", sell)
          /\ netPosition = position.net + (orders["BUY"].qty - buy)
                                        - (orders["SELL"].qty - sell)
  BY DEF PositionInv
<1>9. \A n : IsLeft(m.side, n) => n = orders[m.side].qty
  <2>1. \A a \in In(responses) : a.side = m.side => ~ Fill(a)
    BY <1>1 DEF Ahead, MayLead, Fill
  <2>. QED BY <2>1 DEF IsLeft
<1>10. \A n : IsLeft(opposite, n) =>
           /\ n <= orders[opposite].qty
           /\ ~ Working(opposite) => n = orders[opposite].qty
  <2>1. ASSUME ~ Working(opposite) PROVE \A a \in In(responses) : a.side = opposite => ~ Fill(a)
    BY <2>1 DEF MessagesInv, OnPath, Fits, Fill, Working, Engine!Working
  <2>. QED BY <2>1 DEF IsLeft
<1>11. Working(opposite) => orders[opposite].qty <= IF position.net < 0 THEN - position.net
                                                    ELSE position.net
  BY <1>4, <1>5, EngineHoldings
<1>12. IF m.side = "BUY" THEN position.net >= 0 ELSE position.net <= 0
  BY <1>2, <1>3, EngineHoldings
<1>13. position.net \in Int /\ orders["BUY"].qty \in Nat /\ orders["SELL"].qty \in Nat
  BY EngineTypes, SideFacts
<1>14. netPosition = position.net + (orders["BUY"].qty - buy) - (orders["SELL"].qty - sell)
  BY <1>8
<1>15. CASE m.side = "BUY"
  <2>1. opposite = "SELL" /\ netPosition < 0 /\ position.net >= 0
    BY <1>2, <1>4, <1>7, <1>12, <1>15, SideFacts DEF TypeOK
  <2>2. buy = orders["BUY"].qty
    BY <1>8, <1>9, <1>15
  <2>3. sell <= orders["SELL"].qty /\ (sell # orders["SELL"].qty => Working("SELL"))
    BY <1>8, <1>10, <2>1
  <2>4. sell # orders["SELL"].qty => orders["SELL"].qty <= position.net
    <3>1. Working("SELL") => orders["SELL"].qty <= IF position.net < 0 THEN - position.net
                                                   ELSE position.net
      BY <1>11, <2>1
    <3>. QED BY ONLY <1>13, <2>1, <2>3, <3>1
  <2>5. netPosition = position.net - (orders["SELL"].qty - sell)
    BY ONLY <1>13, <1>14, <2>2, buy \in Nat, sell \in Nat
  <2>6. orders["SELL"].qty - sell <= position.net
    BY ONLY <1>13, <2>1, <2>3, <2>4, sell \in Nat
  <2>. QED BY ONLY <1>13, <2>1, <2>5, <2>6, sell \in Nat
<1>16. CASE m.side = "SELL"
  <2>1. opposite = "BUY" /\ netPosition > 0 /\ position.net <= 0
    BY <1>2, <1>4, <1>7, <1>12, <1>16, SideFacts DEF TypeOK
  <2>2. sell = orders["SELL"].qty
    BY <1>8, <1>9, <1>16
  <2>3. buy <= orders["BUY"].qty /\ (buy # orders["BUY"].qty => Working("BUY"))
    BY <1>8, <1>10, <2>1
  <2>4. buy # orders["BUY"].qty => orders["BUY"].qty <= - position.net
    <3>1. Working("BUY") => orders["BUY"].qty <= IF position.net < 0 THEN - position.net
                                                 ELSE position.net
      BY <1>11, <2>1
    <3>. QED BY ONLY <1>13, <2>1, <2>3, <3>1
  <2>. QED BY ONLY <1>13, <1>14, <2>1, <2>2, <2>3, <2>4, buy \in Nat, sell \in Nat
<1>. QED BY <1>2, <1>15, <1>16, SideFacts

\* A request is refused without the venue: only a cancel, of an order that has
\* nothing more on its way to the venue or back.
LEMMA RejectKeeps ==
    ASSUME SimexInv, GatewaySubmits, Rejected(Head(requests))
    PROVE  SimexInv'
<1>. USE DEF SimexInv
<1>0. PICK m : m = Head(requests)
  OBVIOUS
<1>. DEFINE r == [type |-> "CANCEL_REJECTED", id |-> m.id, side |-> m.side,
                  offset |-> m.offset, exec |-> 0, leaves |-> 0]
<1>1. /\ m \in Request /\ m \in In(requests) /\ m \in OnPath
      /\ Tail(requests) \in Seq(Request) /\ Sorted(Tail(requests))
      /\ In(requests) = {m} \cup In(Tail(requests))
      /\ Ahead(In(responses) \cup Venueward, {m})
      /\ Ahead({m}, In(Tail(requests)))
      /\ Fits(m, orders[m.side])
  BY <1>0, HeadRequest DEF GatewaySubmits
<1>2. m.type = "CANCEL" /\ Rejected(m)
  <2>1. m.type # "NEW"
    BY <1>0, NewNotRejected DEF GatewaySubmits
  <2>. QED BY <1>0, <1>1, <2>1 DEF Request
<1>3. /\ requests' = Tail(requests) /\ responses' = Append(responses, r)
      /\ UNCHANGED <<orders, nextOrderId, position, fault, metadata, netPosition, outgoing,
                     incoming, resting>>
  BY <1>0, <1>2
     DEF GatewaySubmits, Submit, Reject, PublishClientResponse, Response, Engine!Response,
         engineVars
<1>4. /\ r \in ResponseSet /\ r.type = "CANCEL_REJECTED" /\ r.id = m.id /\ r.side = m.side
      /\ r.exec = 0 /\ ~ Fill(r) /\ ~ Final(r) /\ m.side \in Sides
  BY <1>1 DEF Request, ResponseSet, Fill, Final
<1>. HIDE DEF r
<1>5. /\ responses' \in Seq(ResponseSet) /\ In(responses') = In(responses) \cup {r}
      /\ Sorted(responses) /\ Ahead(In(responses), {r}) => Sorted(responses')
      /\ Executed(responses')[Len(responses')] = Executed(responses)[Len(responses)] + Added(r)
  <2>1. responses \in Seq(ResponseSet)
    BY DEF TypeOK
  <2>2. r \in ResponseSet /\ responses' = Append(responses, r)
    BY <1>3, <1>4
  <2>. QED BY ONLY <2>1, <2>2, ResponseAppended, ExecutedAppended
<1>6. /\ In(requests) = {m} \cup In(requests') /\ Venueward' = Venueward
      /\ OnPath = In(responses) \cup Venueward \cup {m} \cup In(requests')
      /\ OnPath' = In(responses) \cup Venueward \cup {r} \cup In(requests')
  BY <1>1, <1>3, <1>5 DEF OnPath, Venueward
<1>7. \A a \in Venueward : a.side # m.side
  <2>1. SUFFICES ASSUME NEW a \in Venueward, a.side = m.side PROVE FALSE
    OBVIOUS
  <2>2. MayLead(a, m)
    BY <1>1, <2>1 DEF Ahead
  <2>3. Fill(a) /\ a.id = m.id
    BY <1>2, <2>2 DEF MayLead, Fill
  <2>4. Known(m) /\ ~ metadata[m.id].terminal /\ metadata[m.id].side = m.side
    BY <2>1, <2>3 DEF AdapterInv, VenueInv, Known, Fill
  <2>5. metadata[m.id].cancelPending
    BY <1>2, <2>4 DEF Rejected
  <2>6. PICK b \in Venueward : b.id = m.id /\ b.type \in Settling
    BY <2>4, <2>5 DEF AdapterInv, RecordInv, Known
  <2>7. b.side = m.side
    BY <2>4, <2>6 DEF AdapterInv, VenueInv
  <2>8. MayLead(b, m)
    BY <1>1, <2>7 DEF Ahead
  <2>. QED BY <1>2, <2>6, <2>8 DEF MayLead, Settling
<1>8. ASSUME NEW x \in DOMAIN resting PROVE x # m.id
  <2>1. SUFFICES ASSUME x = m.id PROVE FALSE
    OBVIOUS
  <2>2. Known(m) /\ ~ metadata[m.id].terminal /\ metadata[m.id].side = m.side
    BY <1>1, <2>1 DEF AdapterInv, VenueInv, RestingInv, TypeOK, Known
  <2>3. metadata[m.id].cancelPending
    BY <1>2, <2>2 DEF Rejected
  <2>4. PICK b \in Venueward : b.id = m.id
    BY <2>2, <2>3 DEF AdapterInv, RecordInv, Known
  <2>. QED BY <1>7, <2>2, <2>4 DEF AdapterInv, VenueInv
<1>9. TypeOK'
  <2>1. \A a \in OnPath' : a.id < nextOrderId'
    BY <1>1, <1>3, <1>4, <1>6 DEF TypeOK
  <2>. QED BY <1>1, <1>3, <1>5, <2>1 DEF TypeOK
<1>10. PathInv'
  <2>1. Ahead(In(responses), {r})
    BY <1>1, <1>2, <1>4 DEF Ahead, MayLead
  <2>2. Ahead({r}, In(requests'))
    BY <1>1, <1>2, <1>3, <1>4 DEF Ahead, MayLead
  <2>3. Ahead({r}, In(incoming)) /\ Ahead({r}, In(outgoing))
    BY <1>4, <1>7 DEF Ahead, Venueward
  <2>4. In(requests') \subseteq In(requests) /\ Sorted(requests')
    BY <1>1, <1>3
  <2>. QED BY <1>3, <1>5, <2>1, <2>2, <2>3, <2>4 DEF PathInv, Ahead
<1>11. MessagesInv'
  <2>1. Fits(r, orders[r.side]) /\ r.id # orders[Opposite(r.side)].id
    BY <1>1, <1>2, <1>4 DEF Fits, MessagesInv
  <2>. QED BY <1>3, <1>4, <1>5, <1>6, <2>1 DEF MessagesInv
<1>12. SlotsInv'
  <2>1. ASSUME NEW t \in Sides, orders[t].state = "PENDING_CANCEL"
        PROVE  \E a \in OnPath' : a.side = t /\ a.id = orders[t].id /\ a.type \in Settling
    <3>1. PICK a \in OnPath : a.side = t /\ a.id = orders[t].id /\ a.type \in Settling
      BY <2>1 DEF SlotsInv
    <3>2. a = m => r.side = t /\ r.id = orders[t].id /\ r.type \in Settling
      BY <1>4, <3>1 DEF Settling
    <3>. QED BY <1>6, <3>1, <3>2
  <2>. QED BY <1>3, <2>1 DEF SlotsInv, Working, Engine!Working
<1>13. FillsInv'
  BY <1>3, <1>4, <1>5 DEF FillsInv
<1>14. \A t, n : IsLeft(t, n)' = IsLeft(t, n)
  BY <1>3, <1>4, <1>5 DEF IsLeft
<1>15. AdapterInv'
  <2>1. ASSUME NEW x \in DOMAIN metadata PROVE RecordInv(x)'
    <3>1. RecordInv(x)
      BY DEF AdapterInv
    <3>. QED BY <1>3, <1>4, <1>5, <1>6, <1>14, <3>1 DEF RecordInv, Working, Engine!Working
  <2>2. VenueInv'
    BY <1>3, <1>6 DEF AdapterInv, VenueInv
  <2>3. ASSUME NEW x \in DOMAIN resting PROVE RestingInv(x)'
    <3>1. RestingInv(x) /\ x # m.id
      BY <1>8 DEF AdapterInv
    <3>. QED BY <1>3, <1>4, <1>5, <1>6, <3>1 DEF RestingInv
  <2>. QED BY <1>3, <2>1, <2>2, <2>3 DEF AdapterInv
<1>16. PositionInv'
  BY <1>3, <1>14 DEF PositionInv
<1>17. PositionsReconcile'
  <2>1. Added(r) = 0
    BY <1>4, SideFacts DEF Added
  <2>2. Executed(responses)[Len(responses)] \in Int
    <3>1. responses \in Seq(ResponseSet) /\ Len(responses) \in 0 .. Len(responses)
      BY DEF TypeOK
    <3>. QED BY <3>1, ExecutedTotals
  <2>. QED BY <1>3, <1>5, <2>1, <2>2 DEF PositionsReconcile
<1>18. EngineProofs!ParticipantInv'
  BY <1>3, EngineSteps DEF engineVars
<1>. QED BY <1>9, <1>10, <1>11, <1>12, <1>13, <1>15, <1>16, <1>17, <1>18

\* What the adapter still remembers when its map is full.
LEMMA RetainedFacts ==
    /\ DOMAIN Retained \subseteq DOMAIN metadata
    /\ \A x \in DOMAIN Retained : Retained[x] = metadata[x]
    /\ \A x \in DOMAIN metadata :
           ~ metadata[x].terminal \/ metadata[x].cancelPending => x \in DOMAIN Retained
BY DEF Retained, Without

\* A request goes on to the venue.
LEMMA ForwardKeeps ==
    ASSUME SimexInv, GatewaySubmits, ~ Rejected(Head(requests))
    PROVE  SimexInv'
<1>. USE DEF SimexInv
<1>0. PICK m : m = Head(requests)
  OBVIOUS
<1>1. /\ m \in Request /\ m \in In(requests) /\ m \in OnPath
      /\ Tail(requests) \in Seq(Request) /\ Sorted(Tail(requests))
      /\ In(requests) = {m} \cup In(Tail(requests))
      /\ Ahead(In(responses) \cup Venueward, {m})
      /\ Ahead({m}, In(Tail(requests)))
      /\ Fits(m, orders[m.side])
      /\ m.type = "NEW" => m.id \notin DOMAIN metadata
  BY <1>0, HeadRequest DEF GatewaySubmits, Known
<1>2. /\ Forward(m) /\ requests' = Tail(requests) /\ outgoing' = Append(outgoing, m)
      /\ UNCHANGED <<orders, nextOrderId, position, fault, netPosition, responses, incoming,
                     resting>>
  BY <1>0 DEF GatewaySubmits, Submit, Forward, engineVars
<1>3. /\ m.type \in {"NEW", "CANCEL"} /\ m.id \in OrderIds /\ m.side \in Sides
      /\ m.offset \in Offsets /\ m.qty \in Nat /\ m.id < nextOrderId
      /\ m.type = "CANCEL" => m.id \in DOMAIN metadata /\ ~ metadata[m.id].terminal
  <2>1. m.type = "CANCEL" => m.id \in DOMAIN metadata /\ ~ metadata[m.id].terminal
    BY <1>0, <1>2 DEF Rejected, Known
  <2>. QED BY <1>1, <2>1, MessageTypes DEF Request
<1>4. /\ outgoing' \in Seq(Request) /\ In(outgoing') = In(outgoing) \cup {m}
      /\ Sorted(outgoing) /\ Ahead(In(outgoing), {m}) => Sorted(outgoing')
  <2>1. outgoing \in Seq(Request)
    BY DEF TypeOK
  <2>2. m \in Request
    BY <1>1
  <2>3. outgoing' = Append(outgoing, m)
    BY <1>2
  <2>. QED BY ONLY <2>1, <2>2, <2>3, RequestAppended
<1>5. OnPath' = OnPath /\ Venueward' = Venueward \cup {m}
      /\ In(requests) = {m} \cup In(requests')
  BY <1>1, <1>2, <1>4 DEF OnPath, Venueward
\* The records after the step: what the messages and the book need is kept.
<1>6. /\ m.id \in DOMAIN metadata' /\ metadata'[m.id] \in Record
      /\ metadata'[m.id].side = m.side /\ metadata'[m.id].offset = m.offset
      /\ ~ metadata'[m.id].terminal
      /\ m.type = "NEW" => metadata'[m.id].remaining = m.qty /\ ~ metadata'[m.id].cancelPending
      /\ m.type = "CANCEL" => /\ metadata'[m.id].remaining = metadata[m.id].remaining
                              /\ metadata'[m.id].cancelPending
  <2>1. CASE m.type = "NEW"
    <3>1. metadata' = With(Retained, m.id,
                           [side |-> m.side, offset |-> m.offset, remaining |-> m.qty,
                            terminal |-> FALSE, cancelPending |-> FALSE])
      BY <1>2, <2>1 DEF Forward
    <3>. QED BY <1>3, <2>1, <3>1 DEF With, Record
  <2>2. CASE m.type = "CANCEL"
    <3>1. metadata' = [Retained EXCEPT ![m.id].cancelPending = TRUE]
      BY <1>2, <2>2 DEF Forward
    <3>2. m.id \in DOMAIN Retained /\ Retained[m.id] = metadata[m.id]
      BY <1>3, <2>2, RetainedFacts
    <3>3. metadata'[m.id] = [metadata[m.id] EXCEPT !.cancelPending = TRUE]
          /\ m.id \in DOMAIN metadata'
      BY <3>1, <3>2
    <3>4. metadata[m.id] \in Record /\ metadata[m.id].side = m.side
          /\ metadata[m.id].offset = m.offset
      BY <1>1, <1>3, <2>2, OfItsSide DEF AdapterInv, VenueInv
    <3>. QED BY <1>3, <2>2, <3>3, <3>4 DEF Record
  <2>. QED BY <1>3, <2>1, <2>2
<1>7. \A x \in DOMAIN metadata' : x # m.id => x \in DOMAIN metadata /\ metadata'[x] = metadata[x]
  <2>1. CASE m.type = "NEW"
    BY <1>2, <2>1, RetainedFacts DEF Forward, With
  <2>2. CASE m.type = "CANCEL"
    BY <1>2, <2>2, RetainedFacts DEF Forward
  <2>. QED BY <1>3, <2>1, <2>2
<1>8. \A x \in DOMAIN metadata :
          ~ metadata[x].terminal \/ metadata[x].cancelPending => x \in DOMAIN metadata'
  <2>1. CASE m.type = "NEW"
    BY <1>2, <2>1, RetainedFacts DEF Forward, With
  <2>2. CASE m.type = "CANCEL"
    BY <1>2, <2>2, RetainedFacts DEF Forward
  <2>. QED BY <1>3, <2>1, <2>2
<1>9. ASSUME NEW a \in Venueward
      PROVE  /\ a.id \in DOMAIN metadata /\ a.id \in DOMAIN metadata'
             /\ a.id # m.id => metadata'[a.id] = metadata[a.id]
  <2>1. a.id \in DOMAIN metadata
    BY DEF AdapterInv, VenueInv
  <2>2. ~ metadata[a.id].terminal \/ metadata[a.id].cancelPending
    <3>1. CASE a.type \in {"CANCEL", "CANCEL_REJECTED"}
      BY <2>1, <3>1 DEF AdapterInv, RecordInv, Settling
    <3>2. CASE a.type \notin {"CANCEL", "CANCEL_REJECTED"}
      BY <3>2 DEF AdapterInv, VenueInv
    <3>. QED BY <3>1, <3>2
  <2>. QED BY <1>7, <1>8, <2>1, <2>2
<1>10. ASSUME NEW x \in DOMAIN resting
       PROVE  /\ x \in DOMAIN metadata /\ x \in DOMAIN metadata'
              /\ metadata'[x].side = metadata[x].side
              /\ metadata'[x].offset = metadata[x].offset
              /\ metadata'[x].remaining = metadata[x].remaining
              /\ ~ metadata'[x].terminal
  <2>1. x \in DOMAIN metadata /\ ~ metadata[x].terminal
    BY DEF AdapterInv, RestingInv, TypeOK
  <2>2. CASE x = m.id
    BY <1>1, <1>3, <1>6, <2>1, <2>2 DEF AdapterInv, VenueInv
  <2>3. CASE x # m.id
    BY <1>7, <1>8, <2>1, <2>3
  <2>. QED BY <2>2, <2>3
<1>11. TypeOK'
  <2>1. metadata' \in [DOMAIN metadata' -> Record]
    <3>1. \A x \in DOMAIN metadata' : metadata'[x] \in Record
      BY <1>6, <1>7, OfItsSide
    <3>2. metadata' = [x \in DOMAIN metadata' |-> metadata'[x]]
      <4>1. CASE m.type = "NEW"
        BY <1>2, <4>1 DEF Forward, With
      <4>2. CASE m.type = "CANCEL"
        <5>1. metadata' = [Retained EXCEPT ![m.id].cancelPending = TRUE]
          BY <1>2, <4>2 DEF Forward
        <5>. QED BY <5>1
      <4>. QED BY <1>3, <4>1, <4>2
    <3>. QED BY <3>1, <3>2
  <2>2. DOMAIN metadata' \subseteq 1 .. nextOrderId' - 1
    <3>1. m.id \in 1 .. nextOrderId - 1
      BY <1>3, EngineTypes DEF OrderIds
    <3>. QED BY <1>2, <1>7, <3>1 DEF TypeOK
  <2>3. DOMAIN resting' \subseteq DOMAIN metadata'
    BY <1>2, <1>10
  <2>4. \A a \in OnPath' : a.id < nextOrderId'
    BY <1>2, <1>5 DEF TypeOK
  <2>. QED BY <1>1, <1>2, <1>4, <2>1, <2>2, <2>3, <2>4 DEF TypeOK
<1>12. PathInv'
  <2>1. Ahead(In(outgoing), {m}) /\ Ahead({m}, In(requests'))
    BY <1>1, <1>2 DEF Ahead, Venueward
  <2>2. Ahead(In(responses), {m}) /\ Ahead(In(incoming), {m})
    BY <1>1 DEF Ahead, Venueward
  <2>3. In(requests') \subseteq In(requests) /\ Sorted(requests')
    BY <1>1, <1>2
  <2>. QED BY <1>2, <1>4, <2>1, <2>2, <2>3 DEF PathInv, Ahead
<1>13. MessagesInv' /\ SlotsInv'
  BY <1>2, <1>5 DEF MessagesInv, SlotsInv, Working, Engine!Working
<1>14. FillsInv'
  <2>1. ASSUME NEW a \in In(incoming), Fill(a)
        PROVE  metadata'[a.id].remaining = metadata[a.id].remaining
    <3>1. a \in Venueward
      BY DEF Venueward
    <3>. QED BY <1>1, <1>3, <1>6, <1>9, <3>1
  <2>. QED BY <1>2, <2>1 DEF FillsInv
<1>15. \A t, n : IsLeft(t, n)' = IsLeft(t, n)
  BY <1>2 DEF IsLeft
<1>16. ASSUME NEW x \in DOMAIN metadata' PROVE RecordInv(x)'
  <2>1. CASE x # m.id
    <3>1. RecordInv(x) /\ metadata'[x] = metadata[x]
      BY <1>7, <2>1 DEF AdapterInv
    <3>. QED BY <1>2, <1>5, <1>15, <2>1, <3>1 DEF RecordInv, Working, Engine!Working
  <2>2. CASE x = m.id /\ m.type = "CANCEL"
    <3>1. /\ RecordInv(x) /\ ~ metadata[x].terminal
          /\ metadata[x].side = m.side /\ metadata[x].offset = m.offset
      BY <1>1, <1>3, <2>2 DEF AdapterInv, VenueInv
    <3>2. \E a \in Venueward' : a.id = x /\ a.type \in Settling
      BY <1>5, <2>2 DEF Settling
    <3>3. metadata'[x].cancelPending <=> \E a \in Venueward' : a.id = x /\ a.type \in Settling
      BY <1>6, <2>2, <3>2
    <3>4. /\ metadata'[x].side = m.side /\ metadata'[x].offset = m.offset
          /\ metadata'[x].remaining = metadata[x].remaining
      BY <1>6, <2>2
    <3>5. IsLeft(m.side, metadata[x].remaining)'
      <4>1. IsLeft(m.side, metadata[x].remaining)
        BY <3>1 DEF RecordInv
      <4>. QED BY <1>2, <3>4, <4>1 DEF IsLeft
    <3>. QED BY <1>2, <3>1, <3>3, <3>4, <3>5 DEF RecordInv, Working, Engine!Working, IsLeft
  <2>3. CASE x = m.id /\ m.type = "NEW"
    <3>1. /\ m.id = orders[m.side].id /\ m.offset = orders[m.side].offset
          /\ Working(m.side) /\ m.qty = orders[m.side].qty
          /\ m.id # orders[Opposite(m.side)].id
      BY <1>1, <2>3 DEF Fits, MessagesInv, Working, Engine!Working
    <3>2. \A a \in In(responses) : a.side = m.side => a.type \in {"CANCEL", "CANCEL_REJECTED"}
      BY <1>1, <2>3 DEF Ahead, MayLead
    <3>3. /\ IsLeft(m.side, m.qty)
          /\ \A a \in In(responses) : a.side = m.side => ~ Final(a)
      BY <1>3, <3>1, <3>2 DEF IsLeft, Fill, Final
    <3>4. ~ \E a \in Venueward' : a.id = x /\ a.type \in Settling
      BY <1>1, <1>5, <1>9, <2>3 DEF Settling
    <3>5. metadata'[x].cancelPending <=> \E a \in Venueward' : a.id = x /\ a.type \in Settling
      BY <1>6, <2>3, <3>4
    <3>6. /\ metadata'[x].side = m.side /\ metadata'[x].offset = m.offset
          /\ metadata'[x].remaining = m.qty
      BY <1>6, <2>3
    <3>. QED BY <1>2, <2>3, <3>1, <3>3, <3>5, <3>6
         DEF RecordInv, Working, Engine!Working, IsLeft
  <2>. QED BY <1>3, <2>1, <2>2, <2>3
<1>17. VenueInv'
  <2>1. ASSUME NEW a \in Venueward'
        PROVE  /\ a.id \in DOMAIN metadata'
               /\ metadata'[a.id].side = a.side /\ metadata'[a.id].offset = a.offset
               /\ a.type \notin {"CANCEL", "CANCEL_REJECTED"} => ~ metadata'[a.id].terminal
    <3>1. CASE a \in Venueward /\ a.id # m.id
      BY <1>9, <3>1 DEF AdapterInv, VenueInv
    <3>2. CASE a \in Venueward /\ a.id = m.id
      <4>1. a.id \in DOMAIN metadata /\ m.type = "CANCEL"
        BY <1>1, <1>3, <1>9, <3>2
      <4>2. /\ metadata[m.id].side = a.side /\ metadata[m.id].offset = a.offset
            /\ metadata[m.id].side = m.side /\ metadata[m.id].offset = m.offset
        BY <1>1, <3>2, <4>1 DEF AdapterInv, VenueInv
      <4>. QED BY <1>6, <3>2, <4>1, <4>2
    <3>3. CASE a = m
      BY <1>6, <3>3
    <3>. QED BY <1>5, <3>1, <3>2, <3>3
  <2>2. ASSUME NEW a \in In(requests')
        PROVE  /\ a.type = "NEW" => a.id \notin DOMAIN metadata'
               /\ a.id \in DOMAIN metadata' =>
                      metadata'[a.id].side = a.side /\ metadata'[a.id].offset = a.offset
    <3>1. a \in In(requests) /\ a \in OnPath /\ a.side \in Sides
      BY <1>5, MessageTypes DEF OnPath
    <3>2. a.type \in {"NEW", "CANCEL"}
      BY <3>1, MessageTypes DEF Request
    <3>3. CASE a.id # m.id
      BY <1>7, <3>1, <3>3 DEF AdapterInv, VenueInv
    <3>4. CASE a.id = m.id /\ m.type = "CANCEL"
      BY <1>1, <1>3, <1>6, <3>1, <3>4 DEF AdapterInv, VenueInv
    <3>5. CASE a.id = m.id /\ m.type = "NEW"
      <4>1. m.id = orders[m.side].id
        BY <1>1, <3>5 DEF Fits
      <4>2. a.side = m.side
        BY <1>3, <3>1, <3>5, <4>1, OfItsSide
      <4>3. MayLead(m, a)
        BY <1>1, <1>2, <4>2 DEF Ahead
      <4>. QED BY <3>5, <4>3 DEF MayLead
    <3>. QED BY <1>3, <3>3, <3>4, <3>5
  <2>3. ASSUME NEW a \in In(outgoing'), a.type = "NEW"
        PROVE  a.id \notin DOMAIN resting' /\ metadata'[a.id].remaining = a.qty
    <3>1. CASE a = m
      BY <1>1, <1>2, <1>6, <2>3, <3>1 DEF TypeOK
    <3>2. CASE a # m
      <4>1. a \in In(outgoing) /\ a \in Venueward
        BY <1>4, <3>2 DEF Venueward
      <4>2. a.id \notin DOMAIN resting /\ metadata[a.id].remaining = a.qty
        BY <2>3, <4>1 DEF AdapterInv, VenueInv
      <4>3. metadata'[a.id].remaining = metadata[a.id].remaining
        BY <1>1, <1>3, <1>6, <1>9, <4>1
      <4>. QED BY <1>2, <4>2, <4>3
    <3>. QED BY <3>1, <3>2
  <2>. QED BY <2>1, <2>2, <2>3 DEF VenueInv
<1>18. ASSUME NEW x \in DOMAIN resting PROVE RestingInv(x)'
  <2>1. RestingInv(x)
    BY DEF AdapterInv
  <2>2. In(outgoing') \cup In(requests') = In(outgoing) \cup In(requests)
    BY <1>4, <1>5
  <2>. QED BY <1>2, <1>10, <2>1, <2>2 DEF RestingInv
<1>19. AdapterInv'
  BY <1>2, <1>16, <1>17, <1>18 DEF AdapterInv
<1>20. PositionInv' /\ PositionsReconcile'
  BY <1>2, <1>15 DEF PositionInv, PositionsReconcile
<1>21. EngineProofs!ParticipantInv'
  BY <1>2, EngineSteps DEF engineVars
<1>. QED BY <1>11, <1>12, <1>13, <1>14, <1>19, <1>20, <1>21
-----------------------------------------------------------------------------
(***************************************************************************)
(* The gateway takes a response of the venue.                              *)
(***************************************************************************)

\* Only one number is what the queued executions leave.
LEMMA LeftUnique ==
    ASSUME TypeOK, EngineProofs!ParticipantInv, NEW side \in Sides,
           NEW m \in Nat, NEW n \in Nat, IsLeft(side, m), IsLeft(side, n)
    PROVE  m = n
<1>1. orders[side].qty \in Nat /\ \A a \in In(responses) : a.leaves \in Nat
  BY EngineTypes, MessageTypes DEF ResponseSet
<1>2. m <= n
  BY <1>1 DEF IsLeft
<1>3. n <= m
  BY <1>1 DEF IsLeft
<1>. QED BY <1>2, <1>3

\* The response the gateway is about to take, which response() never throws at.
LEMMA HeadIncoming ==
    ASSUME SimexInv, incoming # << >>
    PROVE  LET r == Head(incoming)
           IN  /\ r \in ResponseSet /\ r \in In(incoming) /\ r \in Venueward /\ r \in OnPath
               /\ Tail(incoming) \in Seq(ResponseSet) /\ Sorted(Tail(incoming))
               /\ In(incoming) = {r} \cup In(Tail(incoming))
               /\ Ahead(In(responses), {r})
               /\ Ahead({r}, In(Tail(incoming)) \cup In(outgoing) \cup In(requests))
               /\ Fits(r, orders[r.side])
               /\ r.id \in DOMAIN metadata /\ metadata[r.id] \in Record
               /\ metadata[r.id].side = r.side /\ metadata[r.id].offset = r.offset
               /\ r.type # "CANCEL_REJECTED" => ~ metadata[r.id].terminal
               /\ Fill(r) => r.exec + r.leaves = metadata[r.id].remaining
               /\ ~ Invalid(r)
<1>. USE DEF SimexInv
<1>. DEFINE r == Head(incoming)
<1>1. incoming \in Seq(ResponseSet) /\ Sorted(incoming)
  BY DEF TypeOK, PathInv
<1>2. /\ r \in ResponseSet /\ r \in In(incoming)
      /\ Tail(incoming) \in Seq(ResponseSet) /\ Sorted(Tail(incoming))
      /\ In(incoming) = {r} \cup In(Tail(incoming))
      /\ Ahead({r}, In(Tail(incoming)))
  BY <1>1, HeadTaken
<1>. HIDE DEF r
<1>3. Ahead({r}, In(Tail(incoming)) \cup In(outgoing) \cup In(requests))
      /\ Ahead(In(responses), {r})
  BY <1>2 DEF PathInv, Ahead
<1>4. r \in OnPath /\ r \in Venueward /\ Fits(r, orders[r.side])
  BY <1>2 DEF OnPath, Venueward, MessagesInv
<1>5. /\ r.id \in DOMAIN metadata /\ metadata[r.id] \in Record
      /\ metadata[r.id].side = r.side /\ metadata[r.id].offset = r.offset
      /\ r.type # "CANCEL_REJECTED" => ~ metadata[r.id].terminal
  <2>1. r.type # "CANCEL"
    BY <1>2 DEF ResponseSet
  <2>. QED BY <1>4, <2>1, OfItsSide DEF AdapterInv, VenueInv
<1>6. ASSUME Fill(r) PROVE r.exec + r.leaves = metadata[r.id].remaining
  <2>1. SUFFICES ASSUME NEW a \in In(incoming), Fill(a), a.side = r.side,
                        a.leaves = r.exec + r.leaves
                 PROVE  FALSE
    BY <1>2, <1>6 DEF FillsInv
  <2>2. r.exec \in Nat /\ r.leaves \in Nat /\ r.exec >= 1
    BY <1>2, <1>4, <1>6 DEF ResponseSet, Fits, Fill
  <2>3. a # r
    BY <2>1, <2>2
  <2>4. MayLead(r, a)
    BY <1>2, <2>1, <2>3 DEF Ahead
  <2>5. a.exec \in Nat /\ a.leaves \in Nat
    BY MessageTypes DEF ResponseSet
  <2>6. a.exec + a.leaves <= r.leaves
    BY <1>6, <2>1, <2>4 DEF MayLead, Fill
  <2>. QED BY <2>1, <2>2, <2>5, <2>6
<1>7. ~ Invalid(r)
  <2>1. ASSUME Fill(r)
        PROVE  /\ ~ metadata[r.id].terminal
               /\ r.exec \in 1 .. metadata[r.id].remaining
               /\ r.leaves = metadata[r.id].remaining - r.exec
    <3>1. r.exec \in Nat /\ r.leaves \in Nat /\ r.exec >= 1
      BY <1>2, <1>4, <2>1 DEF ResponseSet, Fits, Fill
    <3>2. metadata[r.id].remaining = r.exec + r.leaves
      BY <1>6, <2>1
    <3>. QED BY <1>5, <2>1, <3>1, <3>2 DEF Fill
  <2>. QED BY <1>5, <2>1 DEF Invalid, Fill
<1>. QED BY <1>2, <1>3, <1>4, <1>5, <1>6, <1>7 DEF r

LEMMA GatewayReceivesKeeps ==
    ASSUME SimexInv, GatewayReceives
    PROVE  SimexInv'
<1>. USE DEF SimexInv
<1>0. PICK r, s : r = Head(incoming) /\ s = r.side
  OBVIOUS
<1>1. /\ r \in ResponseSet /\ r \in In(incoming) /\ r \in Venueward /\ r \in OnPath
      /\ incoming' \in Seq(ResponseSet) /\ Sorted(incoming')
      /\ In(incoming) = {r} \cup In(incoming')
      /\ Ahead(In(responses), {r})
      /\ Ahead({r}, In(incoming') \cup In(outgoing) \cup In(requests))
      /\ Fits(r, orders[s])
      /\ r.id \in DOMAIN metadata /\ metadata[r.id] \in Record
      /\ metadata[r.id].side = s /\ metadata[r.id].offset = r.offset
      /\ r.type # "CANCEL_REJECTED" => ~ metadata[r.id].terminal
      /\ Fill(r) => r.exec + r.leaves = metadata[r.id].remaining
      /\ ~ Invalid(r) /\ incoming # << >>
  <2>1. incoming # << >> /\ incoming' = Tail(incoming)
    BY DEF GatewayReceives
  <2>. QED BY <1>0, <2>1, HeadIncoming
<1>2. /\ metadata' = [metadata EXCEPT ![r.id] = Recorded(metadata[r.id], r)]
      /\ netPosition' = netPosition + Added(r)
      /\ responses' = Append(responses, r)
      /\ UNCHANGED <<orders, nextOrderId, position, fault, requests, outgoing, resting>>
  BY <1>0, <1>1 DEF GatewayReceives, Receive, PublishClientResponse, engineVars, Added
<1>3. /\ s \in Sides /\ r.id \in OrderIds /\ r.exec \in Nat /\ r.leaves \in Nat
      /\ r.type \in {"ACCEPTED", "REJECTED", "FILLED", "CANCELED", "CANCEL_REJECTED"}
      /\ ~ Fill(r) => r.exec = 0
      /\ Fill(r) => r.exec >= 1
  BY <1>0, <1>1 DEF ResponseSet, MessagesInv, Fits, Fill
<1>4. /\ responses' \in Seq(ResponseSet) /\ In(responses') = In(responses) \cup {r}
      /\ Sorted(responses')
      /\ Executed(responses')[Len(responses')] = Executed(responses)[Len(responses)] + Added(r)
  <2>1. responses \in Seq(ResponseSet) /\ Sorted(responses)
    BY DEF TypeOK, PathInv
  <2>2. r \in ResponseSet /\ Ahead(In(responses), {r})
    BY <1>1
  <2>3. responses' = Append(responses, r)
    BY <1>2
  <2>. QED BY ONLY <2>1, <2>2, <2>3, ResponseAppended, ExecutedAppended
<1>5. /\ OnPath' = OnPath /\ Venueward = {r} \cup Venueward'
      /\ Venueward' = In(incoming') \cup In(outgoing)
      /\ In(responses') \cup In(incoming') = In(responses) \cup In(incoming)
  BY <1>1, <1>2, <1>4 DEF OnPath, Venueward
\* What is behind the response.
<1>6. ASSUME NEW m \in Venueward' \cup In(requests), m.side = s PROVE MayLead(r, m)
  BY <1>0, <1>1, <1>5, <1>6 DEF Ahead
\* The records after the step.
<1>7. /\ DOMAIN metadata' = DOMAIN metadata
      /\ \A x \in DOMAIN metadata : x # r.id => metadata'[x] = metadata[x]
      /\ metadata'[r.id] = Recorded(metadata[r.id], r)
  <2>1. metadata \in [DOMAIN metadata -> Record]
    BY DEF TypeOK
  <2>. QED BY <1>1, <1>2, <2>1
<1>8. /\ metadata'[r.id] \in Record
      /\ metadata'[r.id].side = s /\ metadata'[r.id].offset = metadata[r.id].offset
      /\ metadata'[r.id].remaining = IF Fill(r) THEN r.leaves ELSE metadata[r.id].remaining
      /\ metadata'[r.id].terminal <=> metadata[r.id].terminal \/ Final(r)
      /\ metadata'[r.id].cancelPending <=>
             metadata[r.id].cancelPending /\ r.type \notin {"CANCELED", "CANCEL_REJECTED"}
  <2>1. metadata[r.id] \in Record
    BY <1>1
  <2>2. r.type = "FILLED" => ~ metadata[r.id].terminal
    BY <1>1
  <2>3. PICK o, q : o = metadata[r.id] /\ q = metadata'[r.id]
    OBVIOUS
  <2>4. /\ o \in Record /\ q = Recorded(o, r) /\ o.side = s
        /\ r.type = "FILLED" => ~ o.terminal
    BY <1>1, <1>7, <2>1, <2>2, <2>3
  <2>5. /\ q \in Record /\ q.side = s /\ q.offset = o.offset
        /\ q.remaining = IF Fill(r) THEN r.leaves ELSE o.remaining
        /\ q.terminal <=> o.terminal \/ Final(r)
        /\ q.cancelPending <=>
               o.cancelPending /\ r.type \notin {"CANCELED", "CANCEL_REJECTED"}
    BY ONLY <1>3, <2>4 DEF Recorded, Record, Fill, Final
  <2>. QED BY <2>3, <2>5
<1>9. \A x \in DOMAIN metadata : metadata'[x].side = metadata[x].side
                                 /\ metadata'[x].offset = metadata[x].offset
  BY <1>1, <1>7, <1>8
<1>10. TypeOK'
  <2>1. metadata' \in [DOMAIN metadata' -> Record]
    <3>1. \A x \in DOMAIN metadata' : metadata'[x] \in Record
      BY <1>7, <1>8, OfItsSide
    <3>2. metadata' = [x \in DOMAIN metadata' |-> metadata'[x]]
      BY <1>2
    <3>. QED BY <3>1, <3>2
  <2>2. netPosition' \in Int
    BY <1>1, <1>2, AddedTypes DEF TypeOK
  <2>3. /\ DOMAIN resting' \subseteq DOMAIN metadata'
        /\ DOMAIN metadata' \subseteq 1 .. nextOrderId' - 1
        /\ \A m \in OnPath' : m.id < nextOrderId'
    BY <1>2, <1>5, <1>7 DEF TypeOK
  <2>. QED BY <1>1, <1>2, <1>4, <2>1, <2>2, <2>3 DEF TypeOK
<1>11. PathInv'
  <2>1. In(incoming') \subseteq In(incoming)
    BY <1>1
  <2>. QED BY <1>1, <1>2, <1>4, <2>1 DEF PathInv, Ahead
<1>12. MessagesInv' /\ SlotsInv'
  <2>1. MessagesInv'
    BY <1>2, <1>5 DEF MessagesInv
  <2>2. SlotsInv'
    BY <1>2, <1>5 DEF SlotsInv, Working, Engine!Working
  <2>. QED BY <2>1, <2>2
\* What the executions queued for the engine leave of the order of a side.
<1>13. ASSUME NEW t \in Sides, NEW n \in Nat, IsLeft(t, n), t # s \/ ~ Fill(r)
       PROVE  IsLeft(t, n)'
  <2>1. r.side # t \/ ~ Fill(r)
    BY <1>0, <1>13
  <2>. QED BY <1>2, <1>4, <1>13, <2>1 DEF IsLeft, Fill
<1>14. ASSUME Fill(r) PROVE IsLeft(s, metadata[r.id].remaining) /\ IsLeft(s, r.leaves)'
  <2>1. IsLeft(s, metadata[r.id].remaining)
    BY <1>1, <1>3, <1>14 DEF AdapterInv, RecordInv, Fill
  <2>2. /\ r.exec + r.leaves <= orders[s].qty
        /\ \A m \in In(responses) : Fill(m) /\ m.side = s => r.exec + r.leaves <= m.leaves
    BY <1>1, <1>14, <2>1 DEF IsLeft
  <2>3. orders[s].qty \in Nat /\ \A m \in In(responses) : m.leaves \in Nat
    BY <1>3, EngineTypes, MessageTypes DEF ResponseSet
  <2>4. /\ r.leaves <= orders[s].qty
        /\ \A m \in In(responses) : Fill(m) /\ m.side = s => r.leaves <= m.leaves
    BY <1>3, <2>2, <2>3
  <2>. QED BY <1>0, <1>2, <1>3, <1>4, <1>14, <2>1, <2>4 DEF IsLeft
<1>15. FillsInv'
  <2>1. ASSUME NEW m \in In(responses'), Fill(m)
        PROVE  \/ m.exec + m.leaves = orders'[m.side].qty
               \/ \E a \in In(responses') :
                      Fill(a) /\ a.side = m.side /\ a.leaves = m.exec + m.leaves
    <3>1. CASE m \in In(responses)
      BY <1>2, <1>4, <2>1, <3>1 DEF FillsInv
    <3>2. CASE m = r
      BY <1>0, <1>1, <1>2, <1>4, <1>14, <2>1, <3>2 DEF IsLeft
    <3>. QED BY <1>4, <3>1, <3>2
  <2>2. ASSUME NEW m \in In(incoming'), Fill(m)
        PROVE  /\ m.exec + m.leaves <= metadata'[m.id].remaining
               /\ \/ m.exec + m.leaves = metadata'[m.id].remaining
                  \/ \E a \in In(incoming') :
                         Fill(a) /\ a.side = m.side /\ a.leaves = m.exec + m.leaves
    <3>1. /\ m \in In(incoming) /\ m \in Venueward' /\ m \in Venueward
          /\ m.exec \in Nat /\ m.leaves \in Nat
          /\ m.id \in DOMAIN metadata /\ metadata[m.id].side = m.side
      BY <1>1, <1>5, MessageTypes DEF Venueward, AdapterInv, VenueInv, ResponseSet
    <3>2. /\ m.exec + m.leaves <= metadata[m.id].remaining
          /\ \/ m.exec + m.leaves = metadata[m.id].remaining
             \/ \E a \in In(incoming) :
                    Fill(a) /\ a.side = m.side /\ a.leaves = m.exec + m.leaves
      BY <2>2, <3>1 DEF FillsInv
    <3>3. CASE m.side = s /\ Fill(r)
      <4>1. m.id = r.id /\ m.exec + m.leaves <= r.leaves
        BY <1>6, <2>2, <3>1, <3>3 DEF MayLead, Fill
      <4>2. metadata'[m.id].remaining = r.leaves
        BY <1>8, <3>3, <4>1
      <4>3. m.exec + m.leaves # metadata[m.id].remaining
        BY <1>1, <1>3, <3>1, <3>3, <4>1
      <4>4. PICK a \in In(incoming) :
                Fill(a) /\ a.side = m.side /\ a.leaves = m.exec + m.leaves
        BY <3>2, <4>3
      <4>. QED BY <1>1, <4>1, <4>2, <4>4
    <3>4. CASE m.side # s \/ ~ Fill(r)
      <4>1. metadata'[m.id].remaining = metadata[m.id].remaining
        BY <1>1, <1>7, <1>8, <3>1, <3>4
      <4>2. \A a \in In(incoming) : Fill(a) /\ a.side = m.side => a \in In(incoming')
        BY <1>0, <1>1, <3>4
      <4>. QED BY <3>2, <4>1, <4>2
    <3>. QED BY <3>3, <3>4
  <2>3. \A m \in In(responses') : Fill(m) =>
            \/ m.exec + m.leaves = orders'[m.side].qty
            \/ \E a \in In(responses') :
                   Fill(a) /\ a.side = m.side /\ a.leaves = m.exec + m.leaves
    BY <2>1
  <2>4. \A m \in In(incoming') : Fill(m) =>
            /\ m.exec + m.leaves <= metadata'[m.id].remaining
            /\ \/ m.exec + m.leaves = metadata'[m.id].remaining
               \/ \E a \in In(incoming') :
                      Fill(a) /\ a.side = m.side /\ a.leaves = m.exec + m.leaves
    BY <2>2
  <2>. QED BY ONLY <2>3, <2>4 DEF FillsInv, Fill
<1>16. ASSUME NEW x \in DOMAIN metadata' PROVE RecordInv(x)'
  <2>1. RecordInv(x) /\ x \in DOMAIN metadata /\ metadata[x] \in Record
    BY <1>7, OfItsSide DEF AdapterInv
  <2>2. PICK t : t = metadata[x].side
    OBVIOUS
  <2>3. t \in Sides /\ metadata[x].remaining \in Nat /\ metadata'[x].side = t
    BY <1>9, <2>1, <2>2 DEF Record
  <2>4. /\ x = orders'[t].id => metadata'[x].offset = orders'[t].offset
        /\ x # orders'[Opposite(t)].id
    BY <1>2, <1>9, <2>1, <2>2 DEF RecordInv
  <2>5. ASSUME ~ metadata'[x].terminal
        PROVE  /\ x = orders'[t].id /\ Working(t)'
               /\ \E n \in Nat : n = metadata'[x].remaining /\ IsLeft(t, n)'
               /\ \A m \in In(responses') : m.side = t => ~ Final(m)
    <3>1. ~ metadata[x].terminal
      BY <1>7, <1>8, <2>1, <2>5
    <3>2. /\ x = orders[t].id /\ Working(t) /\ IsLeft(t, metadata[x].remaining)
          /\ \A m \in In(responses) : m.side = t => ~ Final(m)
      BY <2>1, <2>2, <3>1 DEF RecordInv
    <3>3. Working(t)'
      BY <1>2, <3>2 DEF Working, Engine!Working
    <3>4. PICK n \in Nat : n = metadata[x].remaining /\ IsLeft(t, n)
      BY <2>3, <3>2
    <3>5. CASE x = r.id
      <4>1. t = s /\ ~ Final(r)
        BY <1>1, <1>8, <2>2, <2>5, <3>5
      <4>2. \E k \in Nat : k = metadata'[x].remaining /\ IsLeft(t, k)'
        <5>1. CASE Fill(r)
          <6>1. metadata'[x].remaining = r.leaves
            BY <1>8, <3>5, <5>1
          <6>2. IsLeft(s, r.leaves)'
            BY <1>14, <5>1
          <6>. QED BY <1>3, <4>1, <6>1, <6>2
        <5>2. CASE ~ Fill(r)
          <6>1. metadata'[x].remaining = n
            BY <1>8, <3>4, <3>5, <5>2
          <6>2. IsLeft(t, n)'
            BY <1>13, <2>3, <3>4, <5>2
          <6>. QED BY <6>1, <6>2
        <5>. QED BY <5>1, <5>2
      <4>. QED BY <1>2, <1>4, <3>2, <3>3, <4>1, <4>2
    <3>6. CASE x # r.id
      <4>1. metadata'[x].remaining = n
        BY <1>7, <2>1, <3>4, <3>6
      <4>2. t = s => ~ Fill(r) /\ ~ Final(r)
        BY <1>1, <3>2, <3>6 DEF Fits, Fill, Final
      <4>3. IsLeft(t, n)'
        BY <1>13, <2>3, <3>4, <4>2
      <4>4. \A m \in In(responses') : m.side = t => ~ Final(m)
        BY <1>0, <1>4, <3>2, <4>2
      <4>. QED BY <1>2, <3>2, <3>3, <4>1, <4>3, <4>4
    <3>. QED BY <3>5, <3>6
  <2>6. metadata'[x].cancelPending <=> \E m \in Venueward' : m.id = x /\ m.type \in Settling
    <3>1. metadata[x].cancelPending <=> \E m \in Venueward : m.id = x /\ m.type \in Settling
      BY <2>1 DEF RecordInv
    <3>2. CASE x = r.id /\ r.type \in {"CANCELED", "CANCEL_REJECTED"}
      <4>1. ASSUME NEW m \in Venueward', m.id = x PROVE FALSE
        <5>1. m.side = s
          BY <1>1, <1>5, <3>2, <4>1 DEF AdapterInv, VenueInv
        <5>2. MayLead(r, m)
          BY <1>6, <5>1
        <5>3. m.id \in Nat
          BY <1>5, <4>1, MessageTypes DEF OnPath, Venueward, OrderIds
        <5>. QED BY <3>2, <4>1, <5>2, <5>3 DEF MayLead
      <4>. QED BY <1>8, <3>2, <4>1
    <3>3. CASE x # r.id \/ r.type \notin {"CANCELED", "CANCEL_REJECTED"}
      <4>1. metadata'[x].cancelPending <=> metadata[x].cancelPending
        BY <1>7, <1>8, <2>1, <3>3
      <4>2. ~ (r.id = x /\ r.type \in Settling)
        BY <1>3, <3>3 DEF Settling
      <4>. QED BY <1>5, <3>1, <4>1, <4>2
    <3>. QED BY <3>2, <3>3
  <2>7. ASSUME ~ metadata'[x].terminal
        PROVE  IsLeft(metadata[x].side, metadata[x].remaining)'
    <3>1. PICK n \in Nat : n = metadata'[x].remaining /\ IsLeft(t, n)'
      BY <2>5, <2>7
    <3>. QED BY <2>3, <3>1 DEF IsLeft
  <2>. QED BY <2>3, <2>4, <2>5, <2>6, <2>7 DEF RecordInv, Working, Engine!Working
<1>17. VenueInv'
  <2>1. ASSUME NEW m \in Venueward', m.type \notin {"CANCEL", "CANCEL_REJECTED"}
        PROVE  ~ metadata'[m.id].terminal
    <3>1. m.id \in DOMAIN metadata /\ metadata[m.id].side = m.side /\ ~ metadata[m.id].terminal
      BY <1>5, <2>1 DEF AdapterInv, VenueInv
    <3>2. CASE m.id = r.id
      <4>1. MayLead(r, m) /\ m.id \in Nat /\ Fits(m, orders[s])
        BY <1>1, <1>5, <1>6, <3>1, <3>2, MessageTypes
           DEF OnPath, Venueward, OrderIds, MessagesInv
      <4>2. m.type = "FILLED" => m.exec \in Nat /\ m.leaves \in Nat
        <5>1. m \in In(incoming) \/ m \in In(outgoing)
          BY <1>1, <1>5
        <5>. QED BY <5>1, MessageTypes DEF Request, ResponseSet
      <4>3. ~ Final(r)
        BY <1>3, <2>1, <3>2, <4>1, <4>2 DEF MayLead, Final, Fill, Fits
      <4>. QED BY <1>8, <3>1, <3>2, <4>3
    <3>3. CASE m.id # r.id
      BY <1>7, <3>1, <3>3
    <3>. QED BY <3>2, <3>3
  <2>2. ASSUME NEW m \in Venueward'
        PROVE  /\ m.id \in DOMAIN metadata'
               /\ metadata'[m.id].side = m.side /\ metadata'[m.id].offset = m.offset
    BY <1>5, <1>7, <1>9 DEF AdapterInv, VenueInv
  <2>3. ASSUME NEW m \in In(requests')
        PROVE  /\ m.type = "NEW" => m.id \notin DOMAIN metadata'
               /\ m.id \in DOMAIN metadata' =>
                      metadata'[m.id].side = m.side /\ metadata'[m.id].offset = m.offset
    BY <1>2, <1>7, <1>9 DEF AdapterInv, VenueInv
  <2>4. ASSUME NEW m \in In(outgoing'), m.type = "NEW"
        PROVE  m.id \notin DOMAIN resting' /\ metadata'[m.id].remaining = m.qty
    <3>1. /\ m \in In(outgoing) /\ m \in Venueward' /\ m.id \in DOMAIN metadata
          /\ metadata[m.id].side = m.side
          /\ m.id \notin DOMAIN resting /\ metadata[m.id].remaining = m.qty
      BY <1>2, <1>5, <2>4 DEF AdapterInv, VenueInv, Venueward
    <3>2. m.id # r.id
      <4>1. ASSUME m.id = r.id PROVE FALSE
        <5>1. MayLead(r, m) /\ m.id \in Nat
          BY <1>1, <1>6, <3>1, <4>1, MessageTypes DEF OnPath, OrderIds
        <5>. QED BY <2>4, <4>1, <5>1 DEF MayLead
      <4>. QED BY <4>1
    <3>. QED BY <1>2, <1>7, <3>1, <3>2
  <2>. QED BY <2>1, <2>2, <2>3, <2>4 DEF VenueInv
<1>18. ASSUME NEW x \in DOMAIN resting' PROVE RestingInv(x)'
  <2>1. /\ x \in DOMAIN resting /\ RestingInv(x) /\ x \in DOMAIN metadata
        /\ resting[x] \in Request
    BY <1>2, OfItsSide DEF AdapterInv, TypeOK
  <2>2. \A m \in In(incoming') : m \in In(incoming)
    BY <1>1
  <2>3. \A m \in In(outgoing') \cup In(requests') :
            m.side = resting'[x].side => m.type = "CANCEL" /\ m.id = x
    BY <1>2, <2>1 DEF RestingInv
  <2>4. \A m \in In(responses') \cup In(incoming') : m.id = x => m.type # "CANCEL_REJECTED"
    BY <1>5, <2>1 DEF RestingInv
  <2>5. /\ resting'[x].qty <= metadata'[x].remaining /\ ~ metadata'[x].terminal
        /\ \/ resting'[x].qty = metadata'[x].remaining
           \/ \E m \in In(incoming') : m.id = x /\ Fill(m) /\ m.leaves = resting'[x].qty
    <3>1. CASE x = r.id
      <4>1. /\ ~ Final(r) /\ ~ metadata[x].terminal
            /\ Fill(r) => resting[x].qty <= r.leaves
        BY <1>1, <2>1, <3>1 DEF RestingInv
      <4>2. ~ metadata'[x].terminal
        BY <1>8, <3>1, <4>1
      <4>3. resting[x].qty \in Nat
        BY <2>1 DEF Request
      <4>4. CASE Fill(r)
        <5>1. metadata'[x].remaining = r.leaves
          BY <1>8, <3>1, <4>4
        <5>2. resting[x].qty # metadata[x].remaining
          BY <1>1, <1>3, <3>1, <4>1, <4>3, <4>4
        <5>3. PICK m \in In(incoming) : m.id = x /\ Fill(m) /\ m.leaves = resting[x].qty
          BY <2>1, <5>2 DEF RestingInv
        <5>. QED BY <1>1, <1>2, <4>1, <4>2, <4>4, <5>1, <5>3
      <4>5. CASE ~ Fill(r)
        <5>1. metadata'[x].remaining = metadata[x].remaining
          BY <1>8, <3>1, <4>5
        <5>2. \A m \in In(incoming) : Fill(m) => m \in In(incoming')
          BY <1>1, <4>5
        <5>. QED BY <1>2, <2>1, <4>2, <5>1, <5>2 DEF RestingInv
      <4>. QED BY <4>4, <4>5
    <3>2. CASE x # r.id
      <4>1. metadata'[x] = metadata[x]
        BY <1>7, <2>1, <3>2
      <4>2. \A m \in In(incoming) : m.id = x => m \in In(incoming')
        BY <1>1, <3>2
      <4>. QED BY <1>2, <2>1, <4>1, <4>2 DEF RestingInv
    <3>. QED BY <3>1, <3>2
  <2>6. /\ resting'[x].id = x /\ resting'[x].side = metadata'[x].side
        /\ resting'[x].offset = metadata'[x].offset /\ resting'[x].qty >= 1
        /\ \A m \in In(incoming') : m.id = x =>
               ~ Final(m) /\ (Fill(m) => resting'[x].qty <= m.leaves)
    BY <1>2, <1>9, <2>1, <2>2 DEF RestingInv
  <2>. QED BY ONLY <2>3, <2>4, <2>5, <2>6 DEF RestingInv, Final, Fill
<1>19. AdapterInv'
  BY <1>16, <1>17, <1>18 DEF AdapterInv
<1>20. PositionInv'
  <2>1. PICK buy \in Nat, sell \in Nat :
            /\ IsLeft("BUY", buy) /\ IsLeft("SELL", sell)
            /\ netPosition = position.net + (orders["BUY"].qty - buy)
                                          - (orders["SELL"].qty - sell)
    BY DEF PositionInv
  <2>2. /\ orders["BUY"].qty \in Nat /\ orders["SELL"].qty \in Nat
        /\ position.net \in Int /\ netPosition \in Int
        /\ metadata[r.id].remaining \in Nat
    BY <1>1, EngineTypes, SideFacts DEF TypeOK, Record
  <2>3. /\ position' = position /\ orders' = orders
        /\ netPosition' = netPosition + Added(r)
    BY <1>2
  <2>4. CASE ~ Fill(r)
    <3>1. Added(r) = 0
      BY <1>0, <1>3, <2>4, SideFacts DEF Added
    <3>2. IsLeft("BUY", buy)' /\ IsLeft("SELL", sell)'
      BY <1>13, <2>1, <2>4, SideFacts
    <3>. QED BY <2>1, <2>2, <2>3, <3>1, <3>2 DEF PositionInv
  <2>5. CASE Fill(r) /\ s = "BUY"
    <3>1. Added(r) = r.exec
      BY <1>0, <1>3, <2>5, SideFacts DEF Added
    <3>2. buy = metadata[r.id].remaining
      BY <1>3, <1>14, <2>1, <2>2, <2>5, LeftUnique
    <3>3. buy = r.exec + r.leaves
      BY <1>1, <2>5, <3>2
    <3>4. IsLeft("BUY", r.leaves)' /\ IsLeft("SELL", sell)'
      BY <1>13, <1>14, <2>1, <2>5, SideFacts
    <3>5. netPosition' = position'.net + (orders'["BUY"].qty - r.leaves)
                                       - (orders'["SELL"].qty - sell)
      BY <1>3, <2>1, <2>2, <2>3, <3>1, <3>3
    <3>. QED BY <1>3, <3>4, <3>5 DEF PositionInv
  <2>6. CASE Fill(r) /\ s = "SELL"
    <3>1. Added(r) = - r.exec
      BY <1>0, <1>3, <2>6, SideFacts DEF Added
    <3>2. sell = metadata[r.id].remaining
      BY <1>3, <1>14, <2>1, <2>2, <2>6, LeftUnique
    <3>3. sell = r.exec + r.leaves
      BY <1>1, <2>6, <3>2
    <3>4. IsLeft("SELL", r.leaves)' /\ IsLeft("BUY", buy)'
      BY <1>13, <1>14, <2>1, <2>6, SideFacts
    <3>5. netPosition' = position'.net + (orders'["BUY"].qty - buy)
                                       - (orders'["SELL"].qty - r.leaves)
      BY <1>3, <2>1, <2>2, <2>3, <3>1, <3>3
    <3>. QED BY <1>3, <3>4, <3>5 DEF PositionInv
  <2>. QED BY <1>3, <2>4, <2>5, <2>6, SideFacts
<1>21. PositionsReconcile'
  <2>1. Executed(responses)[Len(responses)] \in Int
    <3>1. responses \in Seq(ResponseSet) /\ Len(responses) \in 0 .. Len(responses)
      BY DEF TypeOK
    <3>. QED BY <3>1, ExecutedTotals
  <2>2. Added(r) \in Int /\ position.net \in Int
    BY <1>1, AddedTypes, EngineTypes
  <2>. QED BY <1>2, <1>4, <2>1, <2>2 DEF PositionsReconcile
<1>22. EngineProofs!ParticipantInv'
  BY <1>2, EngineSteps DEF engineVars
<1>. QED BY <1>10, <1>11, <1>12, <1>15, <1>19, <1>20, <1>21, <1>22
-----------------------------------------------------------------------------
(***************************************************************************)
(* The venue takes a request.                                              *)
(***************************************************************************)

\* The request the venue is about to take.
LEMMA HeadOutgoing ==
    ASSUME SimexInv, outgoing # << >>
    PROVE  LET m == Head(outgoing)
           IN  /\ m \in Request /\ m \in In(outgoing) /\ m \in Venueward /\ m \in OnPath
               /\ Tail(outgoing) \in Seq(Request) /\ Sorted(Tail(outgoing))
               /\ In(outgoing) = {m} \cup In(Tail(outgoing))
               /\ Ahead(In(responses) \cup In(incoming), {m})
               /\ Ahead({m}, In(Tail(outgoing)) \cup In(requests))
               /\ Fits(m, orders[m.side])
               /\ m.id \in DOMAIN metadata
               /\ metadata[m.id].side = m.side /\ metadata[m.id].offset = m.offset
               /\ m.type = "NEW" => /\ ~ metadata[m.id].terminal
                                    /\ m.id \notin DOMAIN resting
                                    /\ metadata[m.id].remaining = m.qty
<1>. USE DEF SimexInv
<1>. DEFINE m == Head(outgoing)
<1>1. outgoing \in Seq(Request) /\ Sorted(outgoing)
  BY DEF TypeOK, PathInv
<1>2. /\ m \in Request /\ m \in In(outgoing)
      /\ Tail(outgoing) \in Seq(Request) /\ Sorted(Tail(outgoing))
      /\ In(outgoing) = {m} \cup In(Tail(outgoing))
      /\ Ahead({m}, In(Tail(outgoing)))
  BY <1>1, HeadTaken
<1>. HIDE DEF m
<1>3. Ahead(In(responses) \cup In(incoming), {m}) /\ Ahead({m}, In(Tail(outgoing)) \cup In(requests))
  BY <1>2 DEF PathInv, Ahead
<1>4. m \in OnPath /\ m \in Venueward /\ Fits(m, orders[m.side])
  BY <1>2 DEF OnPath, Venueward, MessagesInv
<1>5. /\ m.id \in DOMAIN metadata
      /\ metadata[m.id].side = m.side /\ metadata[m.id].offset = m.offset
      /\ m.type = "NEW" => ~ metadata[m.id].terminal
  BY <1>4 DEF AdapterInv, VenueInv
<1>6. m.type = "NEW" => m.id \notin DOMAIN resting /\ metadata[m.id].remaining = m.qty
  BY <1>2 DEF AdapterInv, VenueInv
<1>. QED BY <1>2, <1>3, <1>4, <1>5, <1>6 DEF m

\* Where the request was, there is now the answer to it.
LEMMA VenueAnswered ==
    ASSUME SimexInv, VenueTakes
    PROVE  LET m == Head(outgoing)
           IN  \E b \in ResponseSet :
                 /\ incoming' = Append(incoming, b)
                 /\ b.id = m.id /\ b.side = m.side /\ b.offset = m.offset /\ b.exec = 0
                 /\ IF m.type = "NEW" THEN b.type \in {"ACCEPTED", "REJECTED"}
                    ELSE b.type = IF m.id \in DOMAIN resting THEN "CANCELED"
                                  ELSE "CANCEL_REJECTED"
                 /\ resting' = IF b.type = "ACCEPTED" THEN With(resting, m.id, m)
                               ELSE IF b.type = "CANCELED" THEN Without(resting, {m.id})
                               ELSE resting
<1>. DEFINE m == Head(outgoing)
            Answer(type) == [type |-> type, id |-> m.id, side |-> m.side,
                             offset |-> m.offset, exec |-> 0, leaves |-> 0]
<1>1. m \in Request
  BY HeadOutgoing DEF VenueTakes
<1>2. \A type \in {"ACCEPTED", "REJECTED", "CANCELED", "CANCEL_REJECTED"} :
          Answer(type) \in ResponseSet
  BY <1>1 DEF Request, ResponseSet
<1>3. VenueTakesNew \/ VenueTakesCancel
  BY DEF VenueTakes
<1>4. CASE VenueTakesNew
  <2>1. m.type = "NEW"
    BY <1>4 DEF VenueTakesNew
  <2>2. CASE incoming' = Append(incoming, Answer("REJECTED")) /\ resting' = resting
    BY <1>2, <2>1, <2>2
  <2>3. CASE incoming' = Append(incoming, Answer("ACCEPTED")) /\ resting' = With(resting, m.id, m)
    BY <1>2, <2>1, <2>3
  <2>. QED BY <1>4, <2>2, <2>3 DEF VenueTakesNew, VenueAnswers, Response, Engine!Response
<1>5. CASE VenueTakesCancel
  <2>1. m.type # "NEW"
    BY <1>5 DEF VenueTakesCancel
  <2>2. CASE m.id \in DOMAIN resting
    <3>1. incoming' = Append(incoming, Answer("CANCELED")) /\ resting' = Without(resting, {m.id})
      BY <1>5, <2>2 DEF VenueTakesCancel, VenueAnswers, Response, Engine!Response
    <3>. QED BY <1>2, <2>1, <2>2, <3>1
  <2>3. CASE m.id \notin DOMAIN resting
    <3>1. incoming' = Append(incoming, Answer("CANCEL_REJECTED")) /\ resting' = resting
      BY <1>5, <2>3 DEF VenueTakesCancel, VenueAnswers, Response, Engine!Response
    <3>. QED BY <1>2, <2>1, <2>3, <3>1
  <2>. QED BY <2>2, <2>3
<1>. QED BY <1>3, <1>4, <1>5

LEMMA VenueTakesKeeps ==
    ASSUME SimexInv, VenueTakes
    PROVE  SimexInv'
<1>. USE DEF SimexInv
<1>0. PICK m, s, x : m = Head(outgoing) /\ s = m.side /\ x = m.id
  OBVIOUS
<1>1. /\ m \in Request /\ m \in In(outgoing) /\ m \in Venueward /\ m \in OnPath
      /\ outgoing' \in Seq(Request) /\ Sorted(outgoing')
      /\ In(outgoing) = {m} \cup In(outgoing')
      /\ Ahead(In(responses) \cup In(incoming), {m})
      /\ Ahead({m}, In(outgoing') \cup In(requests))
      /\ Fits(m, orders[s])
      /\ x \in DOMAIN metadata
      /\ metadata[x].side = s /\ metadata[x].offset = m.offset
      /\ m.type = "NEW" => /\ ~ metadata[x].terminal
                           /\ x \notin DOMAIN resting
                           /\ metadata[x].remaining = m.qty
  <2>1. outgoing # << >> /\ outgoing' = Tail(outgoing)
    BY DEF VenueTakes
  <2>. QED BY <1>0, <2>1, HeadOutgoing
<1>2. UNCHANGED <<orders, nextOrderId, position, fault, requests, responses, metadata,
                  netPosition>>
  BY DEF VenueTakes, engineVars, adapterVars
<1>3. PICK b \in ResponseSet :
        /\ incoming' = Append(incoming, b)
        /\ b.id = x /\ b.side = s /\ b.offset = m.offset /\ b.exec = 0
        /\ IF m.type = "NEW" THEN b.type \in {"ACCEPTED", "REJECTED"}
           ELSE b.type = IF x \in DOMAIN resting THEN "CANCELED" ELSE "CANCEL_REJECTED"
        /\ resting' = IF b.type = "ACCEPTED" THEN With(resting, x, m)
                      ELSE IF b.type = "CANCELED" THEN Without(resting, {x})
                      ELSE resting
  BY <1>0, VenueAnswered
<1>4. /\ s \in Sides /\ x \in Nat /\ m.type \in {"NEW", "CANCEL"} /\ ~ Fill(b)
      /\ b.type \in Settling <=> m.type \in Settling
  BY <1>0, <1>1, <1>3 DEF Request, Fill, Settling, OrderIds
\* An order in the book is the engine's, open, and its cancel the last of its side.
<1>5. ASSUME b.type = "CANCELED"
      PROVE  /\ m.type = "CANCEL" /\ x \in DOMAIN resting
             /\ x = orders[s].id /\ m.offset = orders[s].offset
             /\ orders[s].state = "PENDING_CANCEL" /\ ~ metadata[x].terminal
             /\ \A a \in In(responses) \cup In(incoming) : a.side = s =>
                    Fill(a) /\ a.id = x /\ a.leaves > 0
             /\ \A a \in In(outgoing') \cup In(requests) : a.side # s
  <2>1. m.type = "CANCEL" /\ x \in DOMAIN resting
    BY <1>3, <1>4, <1>5
  <2>2. RestingInv(x) /\ RecordInv(x) /\ ~ metadata[x].terminal /\ resting[x].side = s
    BY <1>1, <2>1 DEF AdapterInv, RestingInv
  <2>3. x = orders[s].id /\ Working(s) /\ m.offset = orders[s].offset
        /\ \A a \in In(responses) : a.side = s => ~ Final(a)
    BY <1>1, <2>2 DEF RecordInv
  <2>4. orders[s].state = "PENDING_CANCEL"
    BY <1>0, <1>1, <1>4, <2>1, <2>3 DEF Fits, Working, Engine!Working
  <2>5. ASSUME NEW a \in In(responses) \cup In(incoming), a.side = s
        PROVE  Fill(a) /\ a.id = x /\ a.leaves > 0
    <3>1. MayLead(a, m)
      BY <1>0, <1>1, <2>5 DEF Ahead
    <3>2. a \in ResponseSet
      BY MessageTypes
    <3>3. Fill(a) /\ a.id = x
      BY <1>0, <2>1, <3>1, <3>2 DEF MayLead, Fill, ResponseSet
    <3>4. ~ Final(a)
      BY <2>2, <2>3, <2>5, <3>3 DEF RestingInv
    <3>. QED BY <3>2, <3>3, <3>4 DEF Final, ResponseSet
  <2>6. ASSUME NEW a \in In(outgoing') \cup In(requests), a.side = s PROVE FALSE
    <3>1. a.type = "CANCEL" /\ a.id = x
      BY <1>1, <2>2, <2>6 DEF RestingInv
    <3>2. MayLead(m, a)
      BY <1>0, <1>1, <2>6 DEF Ahead
    <3>. QED BY <2>1, <3>1, <3>2 DEF MayLead
  <2>. QED BY <2>1, <2>2, <2>3, <2>4, <2>5, <2>6
\* A new order follows only leftovers of the order before, and nothing follows it.
<1>6. ASSUME m.type = "NEW"
      PROVE  /\ \A a \in In(responses) \cup In(incoming) : a.side = s =>
                    a.type = "CANCEL_REJECTED" /\ a.id < x
             /\ \A a \in In(outgoing') \cup In(requests) : a.side # s
  <2>1. ASSUME NEW a \in In(responses) \cup In(incoming), a.side = s
        PROVE  a.type = "CANCEL_REJECTED" /\ a.id < x
    <3>1. MayLead(a, m)
      BY <1>0, <1>1, <2>1 DEF Ahead
    <3>2. a \in ResponseSet
      BY MessageTypes
    <3>. QED BY <1>0, <1>6, <3>1, <3>2 DEF MayLead, ResponseSet
  <2>2. ASSUME NEW a \in In(outgoing') \cup In(requests), a.side = s PROVE FALSE
    <3>1. MayLead(m, a)
      BY <1>0, <1>1, <2>2 DEF Ahead
    <3>. QED BY <1>6, <3>1 DEF MayLead
  <2>. QED BY <2>1, <2>2
<1>7. Ahead(In(responses) \cup In(incoming), {b})
  <2>1. SUFFICES ASSUME NEW a \in In(responses) \cup In(incoming), a.side = s
                 PROVE  MayLead(a, b)
    BY <1>3 DEF Ahead
  <2>2. CASE m.type = "NEW"
    BY <1>3, <1>6, <2>1, <2>2 DEF MayLead
  <2>3. CASE b.type = "CANCELED"
    BY <1>3, <1>5, <2>1, <2>3 DEF MayLead, Fill
  <2>4. CASE b.type = "CANCEL_REJECTED"
    <3>1. MayLead(a, m) /\ m.type = "CANCEL"
      BY <1>0, <1>1, <1>3, <1>4, <2>1, <2>4 DEF Ahead
    <3>. QED BY <1>0, <1>3, <2>4, <3>1 DEF MayLead
  <2>. QED BY <1>3, <1>4, <2>2, <2>3, <2>4
<1>8. Ahead({b}, In(outgoing') \cup In(requests))
  <2>1. SUFFICES ASSUME NEW a \in In(outgoing') \cup In(requests), a.side = s
                 PROVE  MayLead(b, a)
    BY <1>3 DEF Ahead
  <2>2. m.type = "CANCEL" /\ b.type = "CANCEL_REJECTED" /\ MayLead(m, a)
    BY <1>0, <1>1, <1>3, <1>4, <1>5, <1>6, <2>1 DEF Ahead
  <2>. QED BY <1>0, <1>3, <2>2 DEF MayLead
<1>9. Fits(b, orders[s])
  <2>1. CASE m.type = "NEW"
    BY <1>0, <1>1, <1>3, <2>1 DEF Fits
  <2>2. CASE b.type = "CANCELED"
    BY <1>3, <1>5, <2>2 DEF Fits
  <2>3. CASE b.type = "CANCEL_REJECTED"
    BY <1>0, <1>1, <1>3, <1>4, <2>3 DEF Fits
  <2>. QED BY <1>3, <1>4, <2>1, <2>2, <2>3
<1>10. b.type # "CANCEL_REJECTED" => ~ metadata[x].terminal
  BY <1>1, <1>3, <1>4, <1>5
<1>11. /\ incoming' \in Seq(ResponseSet) /\ In(incoming') = In(incoming) \cup {b}
       /\ Sorted(incoming')
  <2>1. incoming \in Seq(ResponseSet) /\ Sorted(incoming)
    BY DEF TypeOK, PathInv
  <2>2. b \in ResponseSet /\ Ahead(In(incoming), {b}) /\ incoming' = Append(incoming, b)
    BY <1>3, <1>7 DEF Ahead
  <2>. QED BY ONLY <2>1, <2>2, ResponseAppended
<1>12. \E rest : OnPath = rest \cup {m} /\ OnPath' = rest \cup {b}
  <2>1. PICK rest : rest = In(responses) \cup In(incoming) \cup In(outgoing') \cup In(requests)
    OBVIOUS
  <2>2. OnPath = rest \cup {m} /\ OnPath' = rest \cup {b}
    BY <1>1, <1>2, <1>11, <2>1 DEF OnPath, Venueward
  <2>. QED BY <2>2
<1>13. \E rest : Venueward = rest \cup {m} /\ Venueward' = rest \cup {b}
  <2>1. PICK rest : rest = In(incoming) \cup In(outgoing')
    OBVIOUS
  <2>2. Venueward = rest \cup {m} /\ Venueward' = rest \cup {b}
    BY <1>1, <1>2, <1>11, <2>1 DEF Venueward
  <2>. QED BY <2>2
\* The book after the step.
<1>14. /\ \A y \in DOMAIN resting' : y # x => y \in DOMAIN resting /\ resting'[y] = resting[y]
       /\ x \in DOMAIN resting' => b.type = "ACCEPTED" /\ resting'[x] = m
  <2>1. CASE b.type = "ACCEPTED"
    BY <1>3, <2>1 DEF With
  <2>2. CASE b.type = "CANCELED"
    BY <1>3, <2>2 DEF Without
  <2>3. CASE b.type \notin {"ACCEPTED", "CANCELED"}
    BY <1>1, <1>3, <1>4, <2>3
  <2>. QED BY <2>1, <2>2, <2>3
<1>15. TypeOK'
  <2>1. resting' \in [DOMAIN resting' -> Request]
    <3>1. \A y \in DOMAIN resting' : resting'[y] \in Request
      BY <1>1, <1>14, OfItsSide
    <3>2. resting' = [y \in DOMAIN resting' |-> resting'[y]]
      <4>1. resting = [y \in DOMAIN resting |-> resting[y]]
        BY DEF TypeOK
      <4>. QED BY <1>3, <4>1 DEF With, Without
    <3>. QED BY <3>1, <3>2
  <2>2. DOMAIN resting' \subseteq DOMAIN metadata'
    BY <1>1, <1>2, <1>14 DEF TypeOK
  <2>3. \A a \in OnPath' : a.id < nextOrderId'
    BY <1>0, <1>1, <1>2, <1>3, <1>12 DEF TypeOK
  <2>. QED BY <1>1, <1>2, <1>11, <2>1, <2>2, <2>3 DEF TypeOK
<1>16. PathInv'
  <2>1. In(outgoing') \subseteq In(outgoing)
    BY <1>1
  <2>2. /\ Ahead(In(responses), In(incoming')) /\ Ahead(In(incoming'), In(outgoing'))
        /\ Ahead(In(incoming'), In(requests)) /\ Ahead(In(responses), In(outgoing'))
        /\ Ahead(In(outgoing'), In(requests))
    BY <1>7, <1>8, <1>11, <2>1 DEF PathInv, Ahead
  <2>. QED BY <1>1, <1>2, <1>11, <2>2 DEF PathInv
<1>17. MessagesInv'
  <2>1. x # orders[Opposite(s)].id
    BY <1>0, <1>1 DEF MessagesInv
  <2>2. \A a \in OnPath' : Fits(a, orders[a.side]) /\ a.id # orders[Opposite(a.side)].id
    BY <1>3, <1>9, <1>12, <2>1 DEF MessagesInv
  <2>3. \A a \in In(responses) \cup In(incoming') : ~ Fill(a) => a.exec = 0
    BY <1>3, <1>11 DEF MessagesInv
  <2>. QED BY <1>2, <2>2, <2>3 DEF MessagesInv
<1>18. SlotsInv'
  <2>1. ASSUME NEW t \in Sides, orders[t].state = "PENDING_CANCEL"
        PROVE  \E a \in OnPath' : a.side = t /\ a.id = orders[t].id /\ a.type \in Settling
    <3>1. PICK a \in OnPath : a.side = t /\ a.id = orders[t].id /\ a.type \in Settling
      BY <2>1 DEF SlotsInv
    <3>2. CASE a = m
      BY <1>0, <1>3, <1>4, <1>12, <3>1, <3>2
    <3>3. CASE a # m
      BY <1>12, <3>1, <3>3
    <3>. QED BY <3>2, <3>3
  <2>. QED BY <1>2, <2>1 DEF SlotsInv, Working, Engine!Working
<1>19. FillsInv'
  BY <1>2, <1>4, <1>11 DEF FillsInv
<1>20. \A t, n : IsLeft(t, n)' = IsLeft(t, n)
  BY <1>2 DEF IsLeft
<1>21. ASSUME NEW y \in DOMAIN metadata PROVE RecordInv(y)'
  <2>1. RecordInv(y)
    BY DEF AdapterInv
  <2>2. (\E a \in Venueward' : a.id = y /\ a.type \in Settling)
            <=> \E a \in Venueward : a.id = y /\ a.type \in Settling
    BY <1>0, <1>3, <1>4, <1>13
  <2>. QED BY <1>2, <1>20, <2>1, <2>2 DEF RecordInv, Working, Engine!Working
<1>22. VenueInv'
  <2>1. ASSUME NEW a \in Venueward'
        PROVE  /\ a.id \in DOMAIN metadata
               /\ metadata[a.id].side = a.side /\ metadata[a.id].offset = a.offset
               /\ a.type \notin {"CANCEL", "CANCEL_REJECTED"} => ~ metadata[a.id].terminal
    <3>1. CASE a = b
      BY <1>1, <1>3, <1>10, <3>1
    <3>2. CASE a # b
      BY <1>13, <3>2 DEF AdapterInv, VenueInv
    <3>. QED BY <3>1, <3>2
  <2>2. ASSUME NEW a \in In(outgoing'), a.type = "NEW"
        PROVE  a.id \notin DOMAIN resting' /\ metadata[a.id].remaining = a.qty
    <3>1. /\ a \in In(outgoing) /\ a.id \notin DOMAIN resting
          /\ metadata[a.id].remaining = a.qty
      BY <1>1, <2>2 DEF AdapterInv, VenueInv
    <3>2. ASSUME a.id = x, m.type = "NEW" PROVE FALSE
      <4>1. a.side = s
        BY <1>1, <3>1, <3>2 DEF AdapterInv, VenueInv, Venueward
      <4>. QED BY <1>6, <3>2, <4>1
    <3>3. a.id \in DOMAIN resting' => a.id = x /\ b.type = "ACCEPTED"
      BY <1>14, <3>1
    <3>4. b.type = "ACCEPTED" => m.type = "NEW"
      BY <1>3
    <3>. QED BY <3>1, <3>2, <3>3, <3>4
  <2>. QED BY <1>2, <2>1, <2>2 DEF VenueInv, AdapterInv
<1>23. ASSUME NEW y \in DOMAIN resting' PROVE RestingInv(y)'
  <2>1. CASE y # x
    <3>1. y \in DOMAIN resting /\ resting'[y] = resting[y] /\ RestingInv(y)
      BY <1>14, <2>1 DEF AdapterInv
    <3>2. \A a \in In(outgoing') : a \in In(outgoing)
      BY <1>1
    <3>. QED BY <1>2, <1>3, <1>11, <2>1, <3>1, <3>2 DEF RestingInv
  <2>2. CASE y = x
    <3>1. b.type = "ACCEPTED" /\ m.type = "NEW" /\ resting'[y] = m
      BY <1>3, <1>14, <2>2
    <3>2. \A a \in In(responses) \cup In(incoming) : a.id = y => FALSE
      <4>1. SUFFICES ASSUME NEW a \in In(responses) \cup In(incoming), a.id = x PROVE FALSE
        BY <2>2
      <4>2. x = orders[s].id /\ a \in OnPath
        BY <1>0, <1>1, <3>1 DEF Fits, OnPath
      <4>3. a.side = s
        BY <1>4, <4>1, <4>2, OfItsSide
      <4>. QED BY <1>4, <1>6, <3>1, <4>1, <4>3
    <3>3. \A a \in In(outgoing') \cup In(requests) : a.side # s
      BY <1>6, <3>1
    <3>4. m.qty >= 1
      <4>1. Working(s) /\ m.qty = orders[s].qty
        BY <1>0, <1>1, <3>1 DEF Fits, Working, Engine!Working
      <4>2. orders[s].qty > 0 /\ orders[s].qty \in Nat
        BY <1>4, <4>1, EngineTypes
      <4>. QED BY <4>1, <4>2
    <3>5. m.qty <= metadata[x].remaining /\ m.qty = metadata[x].remaining
      BY <1>1, <3>1 DEF Request
    <3>6. ~ Final(b)
      BY <3>1, <1>4 DEF Final
    <3>7. /\ m.id = x /\ m.side = metadata[x].side /\ m.offset = metadata[x].offset
          /\ ~ metadata[x].terminal
      BY <1>0, <1>1, <3>1
    <3>8. \A a \in In(incoming') : a.id = y => ~ Final(a) /\ ~ Fill(a)
      BY <1>4, <1>11, <3>2, <3>6
    <3>9. \A a \in In(responses) \cup In(incoming') : a.id = y => a.type # "CANCEL_REJECTED"
      BY <1>11, <3>1, <3>2
    <3>. QED BY <1>0, <1>2, <2>2, <3>1, <3>3, <3>4, <3>5, <3>7, <3>8, <3>9 DEF RestingInv
  <2>. QED BY <2>1, <2>2
<1>24. AdapterInv'
  BY <1>2, <1>21, <1>22, <1>23 DEF AdapterInv
<1>25. PositionInv' /\ PositionsReconcile'
  BY <1>2, <1>20 DEF PositionInv, PositionsReconcile
<1>26. EngineProofs!ParticipantInv'
  BY <1>2, EngineSteps DEF engineVars
<1>. QED BY <1>15, <1>16, <1>17, <1>18, <1>19, <1>24, <1>25, <1>26
-----------------------------------------------------------------------------
(***************************************************************************)
(* The venue executes what rests.                                          *)
(***************************************************************************)

\* The execution, and what it leaves in the book.
LEMMA VenueExecuted ==
    ASSUME SimexInv, VenueExecutes
    PROVE  \E x \in DOMAIN resting, b \in ResponseSet :
             /\ b.type = "FILLED" /\ b.id = x /\ b.side = metadata[x].side
             /\ b.offset = metadata[x].offset
             /\ b.exec >= 1 /\ b.exec + b.leaves = resting[x].qty
             /\ incoming' = Append(incoming, b)
             /\ resting' = [y \in DOMAIN resting' |-> resting'[y]]
             /\ \A y \in DOMAIN resting' :
                    /\ y \in DOMAIN resting
                    /\ y # x => resting'[y] = resting[y]
                    /\ y = x => /\ b.leaves >= 1
                                /\ resting'[y] = [resting[x] EXCEPT !.qty = b.leaves]
<1>. USE DEF SimexInv
<1>0. PICK x \in DOMAIN resting : \E exec \in 1 .. resting[x].qty :
          LET leaves == resting[x].qty - exec
          IN  /\ VenueAnswers(Response("FILLED", resting[x], exec, leaves))
              /\ resting' = IF leaves = 0 THEN Without(resting, {x})
                            ELSE [resting EXCEPT ![x].qty = leaves]
  BY DEF VenueExecutes
<1>1. PICK exec \in 1 .. resting[x].qty :
          LET leaves == resting[x].qty - exec
          IN  /\ VenueAnswers(Response("FILLED", resting[x], exec, leaves))
              /\ resting' = IF leaves = 0 THEN Without(resting, {x})
                            ELSE [resting EXCEPT ![x].qty = leaves]
  BY <1>0
<1>2. /\ resting[x] \in Request /\ resting[x].id = x
      /\ resting[x].side = metadata[x].side /\ resting[x].offset = metadata[x].offset
      /\ resting[x].qty \in Nat
  BY OfItsSide DEF AdapterInv, RestingInv, Request
<1>3. PICK leaves : leaves = resting[x].qty - exec
  OBVIOUS
<1>4. /\ leaves \in Nat /\ exec \in Nat /\ exec >= 1 /\ exec + leaves = resting[x].qty
      /\ leaves # 0 => leaves >= 1
  BY <1>2, <1>3
<1>5. PICK b : b = [type |-> "FILLED", id |-> resting[x].id, side |-> resting[x].side,
                    offset |-> resting[x].offset, exec |-> exec, leaves |-> leaves]
  OBVIOUS
<1>6. b \in ResponseSet /\ incoming' = Append(incoming, b)
  <2>1. incoming' = Append(incoming, b)
    BY <1>1, <1>3, <1>5 DEF VenueAnswers, Response, Engine!Response
  <2>2. b \in ResponseSet
    BY <1>2, <1>4, <1>5 DEF Request, ResponseSet
  <2>. QED BY <2>1, <2>2
<1>7. resting = [y \in DOMAIN resting |-> resting[y]]
  BY DEF TypeOK
<1>8. CASE leaves = 0
  <2>1. resting' = Without(resting, {x})
    BY <1>1, <1>3, <1>8
  <2>2. resting' = [y \in DOMAIN resting' |-> resting'[y]]
    BY <2>1 DEF Without
  <2>3. \A y \in DOMAIN resting' : y \in DOMAIN resting /\ y # x /\ resting'[y] = resting[y]
    BY <2>1 DEF Without
  <2>. QED BY <1>2, <1>4, <1>5, <1>6, <2>2, <2>3
<1>9. CASE leaves # 0
  <2>1. resting' = [resting EXCEPT ![x].qty = leaves]
    BY <1>1, <1>3, <1>9
  <2>2. resting' = [y \in DOMAIN resting' |-> resting'[y]]
    BY <1>7, <2>1
  <2>3. /\ DOMAIN resting' = DOMAIN resting
        /\ \A y \in DOMAIN resting : y # x => resting'[y] = resting[y]
        /\ resting'[x] = [resting[x] EXCEPT !.qty = leaves]
    BY <1>7, <2>1
  <2>. QED BY <1>2, <1>4, <1>5, <1>6, <1>9, <2>2, <2>3
<1>. QED BY <1>4, <1>8, <1>9

LEMMA VenueExecutesKeeps ==
    ASSUME SimexInv, VenueExecutes
    PROVE  SimexInv'
<1>. USE DEF SimexInv
<1>1. PICK x \in DOMAIN resting, b \in ResponseSet :
        /\ b.type = "FILLED" /\ b.id = x /\ b.side = metadata[x].side
        /\ b.offset = metadata[x].offset
        /\ b.exec >= 1 /\ b.exec + b.leaves = resting[x].qty
        /\ incoming' = Append(incoming, b)
        /\ resting' = [y \in DOMAIN resting' |-> resting'[y]]
        /\ \A y \in DOMAIN resting' :
               /\ y \in DOMAIN resting
               /\ y # x => resting'[y] = resting[y]
               /\ y = x => /\ b.leaves >= 1
                           /\ resting'[y] = [resting[x] EXCEPT !.qty = b.leaves]
  BY VenueExecuted
<1>2. PICK s : s = metadata[x].side
  OBVIOUS
<1>3. UNCHANGED <<orders, nextOrderId, position, fault, requests, responses, metadata,
                  netPosition, outgoing>>
  BY DEF VenueExecutes, engineVars, adapterVars
<1>4. /\ x \in DOMAIN metadata /\ RecordInv(x) /\ RestingInv(x)
      /\ metadata[x] \in Record /\ resting[x] \in Request
      /\ ~ metadata[x].terminal /\ s \in Sides /\ resting[x].side = s
      /\ b.exec \in Nat /\ b.leaves \in Nat /\ Fill(b)
  BY <1>1, <1>2, OfItsSide DEF AdapterInv, TypeOK, RestingInv, Record, ResponseSet, Fill
<1>5. /\ x = orders[s].id /\ Working(s) /\ IsLeft(s, metadata[x].remaining)
      /\ b.offset = orders[s].offset /\ x # orders[Opposite(s)].id
      /\ \A a \in In(responses) : a.side = s => ~ Final(a)
  BY <1>1, <1>2, <1>4 DEF RecordInv
<1>6. /\ resting[x].qty \in Nat /\ metadata[x].remaining \in Nat /\ orders[s].qty \in Nat
      /\ resting[x].qty <= metadata[x].remaining /\ metadata[x].remaining <= orders[s].qty
      /\ b.exec + b.leaves <= orders[s].qty
      /\ b.leaves <= resting[x].qty
  <2>1. /\ resting[x].qty \in Nat /\ metadata[x].remaining \in Nat /\ orders[s].qty \in Nat
    BY <1>4, EngineTypes DEF Request, Record
  <2>2. resting[x].qty <= metadata[x].remaining /\ metadata[x].remaining <= orders[s].qty
    BY <1>4, <1>5 DEF RestingInv, IsLeft
  <2>. QED BY <1>1, <1>4, <2>1, <2>2
<1>7. Ahead(In(responses) \cup In(incoming), {b})
  <2>1. SUFFICES ASSUME NEW a \in In(responses) \cup In(incoming), a.side = s
                 PROVE  MayLead(a, b)
    BY <1>1, <1>2 DEF Ahead
  <2>2. a \in ResponseSet /\ a \in OnPath /\ Fits(a, orders[s])
    BY <2>1, MessageTypes DEF OnPath, MessagesInv
  <2>3. CASE a.type = "CANCEL_REJECTED"
    <3>1. a.id # x
      BY <1>4, <2>1, <2>3 DEF RestingInv
    <3>2. a.id < x
      BY <1>5, <2>2, <2>3, <3>1 DEF Fits
    <3>. QED BY <1>1, <2>3, <3>2 DEF MayLead
  <2>4. CASE a.type # "CANCEL_REJECTED"
    <3>1. a.id = x
      BY <1>5, <2>2, <2>4 DEF Fits, ResponseSet
    <3>2. ~ Final(a)
      BY <1>4, <1>5, <2>1, <3>1 DEF RestingInv
    <3>3. Fill(a) => resting[x].qty <= a.leaves
      <4>1. a \in In(incoming) /\ Fill(a) => resting[x].qty <= a.leaves
        BY <1>4, <3>1 DEF RestingInv
      <4>2. a \in In(responses) /\ Fill(a) => metadata[x].remaining <= a.leaves
        BY <1>5, <2>1 DEF IsLeft
      <4>3. a.leaves \in Nat
        BY <2>2 DEF ResponseSet
      <4>. QED BY <1>6, <2>1, <4>1, <4>2, <4>3
    <3>. QED BY <1>1, <2>2, <2>4, <3>1, <3>2, <3>3 DEF MayLead, Final, Fill, ResponseSet
  <2>. QED BY <2>3, <2>4
<1>8. Ahead({b}, In(outgoing) \cup In(requests))
  BY <1>1, <1>2, <1>4 DEF Ahead, RestingInv, MayLead
<1>9. Fits(b, orders[s])
  BY <1>1, <1>5, <1>6 DEF Fits, Working, Engine!Working
<1>10. /\ incoming' \in Seq(ResponseSet) /\ In(incoming') = In(incoming) \cup {b}
       /\ Sorted(incoming')
  <2>1. incoming \in Seq(ResponseSet) /\ Sorted(incoming)
    BY DEF TypeOK, PathInv
  <2>2. b \in ResponseSet /\ Ahead(In(incoming), {b}) /\ incoming' = Append(incoming, b)
    BY <1>1, <1>7 DEF Ahead
  <2>. QED BY ONLY <2>1, <2>2, ResponseAppended
<1>11. OnPath' = OnPath \cup {b} /\ Venueward' = Venueward \cup {b}
  BY <1>3, <1>10 DEF OnPath, Venueward
<1>12. TypeOK'
  <2>1. resting' \in [DOMAIN resting' -> Request]
    <3>1. [resting[x] EXCEPT !.qty = b.leaves] \in Request
      BY <1>4 DEF Request
    <3>2. \A y \in DOMAIN resting' : resting'[y] \in Request
      BY <1>1, <3>1, OfItsSide
    <3>. QED BY <1>1, <3>2
  <2>2. DOMAIN resting' \subseteq DOMAIN metadata'
    BY <1>1, <1>3 DEF TypeOK
  <2>3. \A a \in OnPath' : a.id < nextOrderId'
    <3>1. x < nextOrderId
      BY <1>4, <1>5, EngineTypes
    <3>. QED BY <1>1, <1>3, <1>11, <3>1 DEF TypeOK
  <2>. QED BY <1>3, <1>10, <2>1, <2>2, <2>3 DEF TypeOK
<1>13. PathInv'
  <2>1. /\ Ahead(In(responses), In(incoming')) /\ Ahead(In(incoming'), In(outgoing))
        /\ Ahead(In(incoming'), In(requests))
    BY <1>7, <1>8, <1>10 DEF PathInv, Ahead
  <2>. QED BY <1>3, <1>10, <2>1 DEF PathInv
<1>14. MessagesInv'
  <2>0. b.side = s /\ b.id = x /\ Fits(b, orders[b.side]) /\ b.id # orders[Opposite(b.side)].id
    BY <1>1, <1>2, <1>5, <1>9
  <2>1. \A a \in OnPath' : Fits(a, orders[a.side]) /\ a.id # orders[Opposite(a.side)].id
    BY <1>11, <2>0 DEF MessagesInv
  <2>2. \A a \in In(responses) \cup In(incoming') : ~ Fill(a) => a.exec = 0
    BY <1>4, <1>10 DEF MessagesInv
  <2>. QED BY <1>3, <2>1, <2>2 DEF MessagesInv
<1>15. SlotsInv'
  <2>1. ASSUME NEW t \in Sides, orders[t].state = "PENDING_CANCEL"
        PROVE  \E a \in OnPath' : a.side = t /\ a.id = orders[t].id /\ a.type \in Settling
    BY <1>11, <2>1 DEF SlotsInv
  <2>. QED BY <1>3, <2>1 DEF SlotsInv, Working, Engine!Working
<1>16. FillsInv'
  <2>1. ASSUME NEW a \in In(incoming'), Fill(a)
        PROVE  /\ a.exec + a.leaves <= metadata[a.id].remaining
               /\ \/ a.exec + a.leaves = metadata[a.id].remaining
                  \/ \E c \in In(incoming') :
                         Fill(c) /\ c.side = a.side /\ c.leaves = a.exec + a.leaves
    <3>1. CASE a = b
      <4>1. a.exec + a.leaves = resting[x].qty /\ a.id = x /\ a.side = s
        BY <1>1, <1>2, <3>1
      <4>2. \/ resting[x].qty = metadata[x].remaining
            \/ \E c \in In(incoming) : c.id = x /\ Fill(c) /\ c.leaves = resting[x].qty
        BY <1>4 DEF RestingInv
      <4>3. \A c \in In(incoming) : c.id = x => c.side = s
        BY <1>2 DEF AdapterInv, VenueInv, Venueward
      <4>. QED BY <1>6, <1>10, <4>1, <4>2, <4>3
    <3>2. CASE a # b
      BY <1>10, <2>1, <3>2 DEF FillsInv
    <3>. QED BY <3>1, <3>2
  <2>2. \A a \in In(incoming') : Fill(a) =>
               /\ a.exec + a.leaves <= metadata[a.id].remaining
               /\ \/ a.exec + a.leaves = metadata[a.id].remaining
                  \/ \E c \in In(incoming') :
                         Fill(c) /\ c.side = a.side /\ c.leaves = a.exec + a.leaves
    BY <2>1
  <2>. QED BY <1>3, <2>2 DEF FillsInv, Fill
<1>17. \A t, n : IsLeft(t, n)' = IsLeft(t, n)
  BY <1>3 DEF IsLeft
<1>18. ASSUME NEW y \in DOMAIN metadata PROVE RecordInv(y)'
  <2>1. RecordInv(y)
    BY DEF AdapterInv
  <2>2. (\E a \in Venueward' : a.id = y /\ a.type \in Settling)
            <=> \E a \in Venueward : a.id = y /\ a.type \in Settling
    BY <1>1, <1>11 DEF Settling
  <2>. QED BY <1>3, <1>17, <2>1, <2>2 DEF RecordInv, Working, Engine!Working
<1>19. VenueInv'
  <2>1. ASSUME NEW a \in Venueward'
        PROVE  /\ a.id \in DOMAIN metadata
               /\ metadata[a.id].side = a.side /\ metadata[a.id].offset = a.offset
               /\ a.type \notin {"CANCEL", "CANCEL_REJECTED"} => ~ metadata[a.id].terminal
    <3>1. CASE a = b
      BY <1>1, <1>4, <3>1
    <3>2. CASE a # b
      BY <1>11, <3>2 DEF AdapterInv, VenueInv
    <3>. QED BY <3>1, <3>2
  <2>2. \A a \in In(outgoing) : a.type = "NEW" =>
            a.id \notin DOMAIN resting' /\ metadata[a.id].remaining = a.qty
    BY <1>1 DEF AdapterInv, VenueInv
  <2>. QED BY <1>3, <2>1, <2>2 DEF VenueInv, AdapterInv
<1>20. ASSUME NEW y \in DOMAIN resting' PROVE RestingInv(y)'
  <2>1. CASE y # x
    <3>1. y \in DOMAIN resting /\ resting'[y] = resting[y] /\ RestingInv(y)
      BY <1>1, <2>1 DEF AdapterInv
    <3>. QED BY <1>1, <1>3, <1>10, <2>1, <3>1 DEF RestingInv
  <2>2. CASE y = x
    <3>1. b.leaves >= 1 /\ resting'[x] = [resting[x] EXCEPT !.qty = b.leaves]
      BY <1>1, <2>2
    <3>2. /\ resting'[x].id = x /\ resting'[x].side = s
          /\ resting'[x].offset = metadata[x].offset /\ resting'[x].qty = b.leaves
      BY <1>4, <3>1 DEF Request, RestingInv
    <3>3. ASSUME NEW a \in In(incoming'), a.id = x
          PROVE  ~ Final(a) /\ (Fill(a) => b.leaves <= a.leaves)
      <4>1. CASE a = b
        BY <1>1, <1>4, <3>1, <4>1 DEF Final
      <4>2. CASE a # b
        <5>1. ~ Final(a) /\ (Fill(a) => resting[x].qty <= a.leaves) /\ a \in In(incoming)
          BY <1>4, <1>10, <3>3, <4>2 DEF RestingInv
        <5>2. a.leaves \in Nat
          BY <5>1, MessageTypes DEF ResponseSet
        <5>. QED BY <1>4, <1>6, <5>1, <5>2
      <4>. QED BY <4>1, <4>2
    <3>4. \A a \in In(responses) \cup In(incoming') : a.id = x => a.type # "CANCEL_REJECTED"
      BY <1>1, <1>4, <1>10 DEF RestingInv
    <3>5. \A a \in In(outgoing) \cup In(requests) : a.side = s => a.type = "CANCEL" /\ a.id = x
      BY <1>4 DEF RestingInv
    <3>6. b.leaves <= metadata[x].remaining
      BY <1>4, <1>6
    <3>7. \E a \in In(incoming') : a.id = x /\ Fill(a) /\ a.leaves = b.leaves
      BY <1>1, <1>4, <1>10
    <3>8. \A a \in In(incoming') : a.id = x => ~ Final(a) /\ (Fill(a) => b.leaves <= a.leaves)
      BY <3>3
    <3>. QED BY <1>2, <1>3, <1>4, <2>2, <3>1, <3>2, <3>4, <3>5, <3>6, <3>7, <3>8
         DEF RestingInv
  <2>. QED BY <2>1, <2>2
<1>21. AdapterInv'
  BY <1>3, <1>18, <1>19, <1>20 DEF AdapterInv
<1>22. PositionInv' /\ PositionsReconcile'
  BY <1>3, <1>17 DEF PositionInv, PositionsReconcile
<1>23. EngineProofs!ParticipantInv'
  BY <1>3, EngineSteps DEF engineVars
<1>. QED BY <1>12, <1>13, <1>14, <1>15, <1>16, <1>21, <1>22, <1>23
-----------------------------------------------------------------------------
(***************************************************************************)
(* The invariant, and what follows from it.                                *)
(***************************************************************************)
LEMMA NextKeeps ==
    ASSUME SimexInv, [Next]_vars
    PROVE  SimexInv'
<1>1. CASE EngineDecides
  BY <1>1, EngineDecidesKeeps
<1>2. CASE EngineReceives
  BY <1>2, EngineReceivesKeeps
<1>3. CASE GatewaySubmits
  BY <1>3, RejectKeeps, ForwardKeeps
<1>4. CASE GatewayReceives
  BY <1>4, GatewayReceivesKeeps
<1>5. CASE VenueTakes
  BY <1>5, VenueTakesKeeps
<1>6. CASE VenueExecutes
  BY <1>6, VenueExecutesKeeps
<1>7. CASE UNCHANGED vars
  <2>1. UNCHANGED <<orders, nextOrderId, position, fault, requests, responses, metadata,
                    netPosition, outgoing, incoming, resting>>
    BY <1>7 DEF vars, engineVars, adapterVars
  <2>2. OnPath' = OnPath /\ Venueward' = Venueward
    BY <2>1 DEF OnPath, Venueward
  <2>3. EngineProofs!ParticipantInv'
    BY <2>1, EngineSteps DEF SimexInv, engineVars
  <2>4. TypeOK' /\ PathInv'
    BY <2>1, <2>2 DEF SimexInv, TypeOK, PathInv
  <2>5. MessagesInv' /\ SlotsInv' /\ FillsInv'
    BY <2>1, <2>2 DEF SimexInv, MessagesInv, SlotsInv, FillsInv, Working, Engine!Working
  <2>6. \A t, n : IsLeft(t, n)' = IsLeft(t, n)
    BY <2>1 DEF IsLeft
  <2>7. ASSUME NEW x \in DOMAIN metadata PROVE RecordInv(x)'
    <3>1. RecordInv(x)
      BY DEF SimexInv, AdapterInv
    <3>. QED BY <2>1, <2>2, <2>6, <3>1 DEF RecordInv, Working, Engine!Working
  <2>8. VenueInv' /\ \A x \in DOMAIN resting : RestingInv(x)'
    BY <2>1, <2>2 DEF SimexInv, AdapterInv, VenueInv, RestingInv
  <2>9. AdapterInv'
    BY <2>1, <2>7, <2>8 DEF AdapterInv
  <2>10. PositionInv' /\ PositionsReconcile'
    BY <2>1, <2>6 DEF SimexInv, PositionInv, PositionsReconcile
  <2>. QED BY <2>3, <2>4, <2>5, <2>9, <2>10 DEF SimexInv
<1>. QED BY <1>1, <1>2, <1>3, <1>4, <1>5, <1>6, <1>7 DEF Next

\* Of every state the path can reach: what may be ahead of what on the conveyor, that
\* each message says of the order in the slot of its side what that order is waiting
\* for, what the adapter and the venue remember of an order, and that the adapter's
\* position is the engine's after the executions queued for it.
THEOREM SimexInvariant == SafeSpec => []SimexInv
<1>. QED BY InitSimex, NextKeeps, PTL DEF SafeSpec

\* The adapter's net_position (response()) and the engine's position keeper book the
\* same executions: the difference is what is queued between the two threads.
THEOREM PositionsAlwaysReconcile == SafeSpec => []PositionsReconcile
<1>1. SimexInv => PositionsReconcile
  BY DEF SimexInv
<1>. QED BY <1>1, SimexInvariant, PTL

\* Two messages about one order's cancel are never under way at once.
LEMMA OneSettling ==
    ASSUME SimexInv, NEW a, NEW b, a.side = b.side, a.id = b.id,
           a.type \in Settling, b.type \in Settling
    PROVE  /\ ~ (a \in In(responses) /\ b \in Venueward)
           /\ ~ (a \in In(responses) /\ b \in In(requests))
           /\ ~ (a \in Venueward /\ b \in In(requests))
<1>1. SUFFICES ASSUME a.id \in OrderIds PROVE ~ MayLead(a, b)
  BY MessageTypes DEF SimexInv, PathInv, Ahead, OnPath, Venueward
<1>. QED BY <1>1 DEF MayLead, Settling, OrderIds

\* The order manager's slot, the queues, the adapter's cancel_pending and the stream
\* agree about a cancel: it is in exactly one of those places while the slot waits for
\* its outcome, and in none while the order is live.
THEOREM CancelsAlwaysAccountedFor == SafeSpec => []CancelsAccountedFor
<1>1. SimexInv => CancelsAccountedFor
  <2>. SUFFICES ASSUME SimexInv, NEW side \in Sides
                PROVE  LET o == orders[side]
                           inRequests == \E i \in DOMAIN requests :
                               requests[i].type = "CANCEL" /\ requests[i].id = o.id
                           atVenue == o.id \in DOMAIN metadata /\ metadata[o.id].cancelPending
                           answered == \E i \in DOMAIN responses :
                               /\ responses[i].id = o.id
                               /\ responses[i].type \in {"CANCELED", "CANCEL_REJECTED"}
                       IN  /\ o.state = "PENDING_CANCEL" =>
                                  Cardinality({p \in {1, 2, 3} :
                                      <<inRequests, atVenue, answered>>[p]}) = 1
                           /\ o.state = "LIVE" => ~ (inRequests \/ atVenue \/ answered)
    BY DEF CancelsAccountedFor, Sides
  <2>. DEFINE o == orders[side]
              inRequests == \E i \in DOMAIN requests :
                                requests[i].type = "CANCEL" /\ requests[i].id = o.id
              atVenue == o.id \in DOMAIN metadata /\ metadata[o.id].cancelPending
              answered == \E i \in DOMAIN responses :
                              /\ responses[i].id = o.id
                              /\ responses[i].type \in {"CANCELED", "CANCEL_REJECTED"}
              Settles(S) == \E m \in S : m.side = side /\ m.id = o.id /\ m.type \in Settling
  <2>1. inRequests = Settles(In(requests))
    <3>1. \A m \in In(requests) : m \in OnPath /\ m.type \in {"NEW", "CANCEL"}
      BY MessageTypes DEF SimexInv, OnPath, Request
    <3>2. \A m \in In(requests) : m.id = o.id => m.side = side
      BY <3>1, OfItsSide
    <3>. QED BY <3>1, <3>2 DEF In, Settling
  <2>2. atVenue = Settles(Venueward)
    <3>1. ASSUME atVenue PROVE Settles(Venueward)
      <4>1. PICK m \in Venueward : m.id = o.id /\ m.type \in Settling
        BY <3>1 DEF SimexInv, AdapterInv, RecordInv
      <4>2. m.side = side
        BY <4>1, OfItsSide DEF OnPath, Venueward
      <4>. QED BY <4>1, <4>2
    <3>2. ASSUME Settles(Venueward) PROVE atVenue
      <4>1. PICK m \in Venueward : m.id = o.id /\ m.type \in Settling
        BY <3>2
      <4>2. o.id \in DOMAIN metadata
        BY <4>1 DEF SimexInv, AdapterInv, VenueInv
      <4>3. metadata[o.id] \in Record /\ RecordInv(o.id)
        BY <4>2, OfItsSide DEF SimexInv, AdapterInv
      <4>. QED BY <4>1, <4>2, <4>3 DEF RecordInv
    <3>3. atVenue \in BOOLEAN
      <4>1. o.id \in DOMAIN metadata => metadata[o.id].cancelPending \in BOOLEAN
        BY OfItsSide DEF Record
      <4>. QED BY <4>1
    <3>. QED BY <3>1, <3>2, <3>3
  <2>3. answered = Settles(In(responses))
    <3>1. \A m \in In(responses) : m \in OnPath /\ m.type # "CANCEL"
      BY MessageTypes DEF SimexInv, OnPath, ResponseSet
    <3>2. \A m \in In(responses) : m.id = o.id => m.side = side
      BY <3>1, OfItsSide
    <3>. QED BY <3>1, <3>2 DEF In, Settling
  <2>4. ASSUME o.state = "LIVE" PROVE ~ inRequests /\ ~ atVenue /\ ~ answered
    <3>1. \A m \in OnPath : m.side = side => ~ (m.type \in Settling)
      BY <2>4, QuietSides DEF Fill, Settling
    <3>. QED BY <2>1, <2>2, <2>3, <3>1 DEF OnPath, Venueward
  <2>5. /\ ~ (answered /\ atVenue) /\ ~ (answered /\ inRequests) /\ ~ (atVenue /\ inRequests)
    BY <2>1, <2>2, <2>3, OneSettling
  <2>6. ASSUME o.state = "PENDING_CANCEL" PROVE inRequests \/ atVenue \/ answered
    BY <2>1, <2>2, <2>3, <2>6 DEF SimexInv, SlotsInv, OnPath, Venueward
  <2>7. inRequests \in BOOLEAN /\ atVenue \in BOOLEAN /\ answered \in BOOLEAN
    BY <2>2
  <2>. HIDE DEF inRequests, atVenue, answered
  <2>8. ASSUME o.state = "PENDING_CANCEL"
        PROVE  Cardinality({p \in {1, 2, 3} : <<inRequests, atVenue, answered>>[p]}) = 1
    <3>0. PICK places : places = <<inRequests, atVenue, answered>>
      OBVIOUS
    <3>1. /\ places[1] = inRequests /\ places[2] = atVenue /\ places[3] = answered
      BY <3>0
    <3>2. \E p \in {1, 2, 3} : \A q \in {1, 2, 3} : places[q] <=> q = p
      <4>1. CASE inRequests
        <5>1. places[1] /\ ~ places[2] /\ ~ places[3]
          BY <2>5, <3>1, <4>1
        <5>. QED BY <5>1
      <4>2. CASE atVenue
        <5>1. ~ places[1] /\ places[2] /\ ~ places[3]
          BY <2>5, <3>1, <4>2
        <5>. QED BY <5>1
      <4>3. CASE answered
        <5>1. ~ places[1] /\ ~ places[2] /\ places[3]
          BY <2>5, <3>1, <4>3
        <5>. QED BY <5>1
      <4>. QED BY <2>6, <2>8, <4>1, <4>2, <4>3
    <3>3. \E p : {q \in {1, 2, 3} : places[q]} = {p}
      BY <3>2
    <3>. QED BY <3>0, <3>3, FS_Singleton
  <2>9. ~ (o.state = "LIVE" /\ (inRequests \/ atVenue \/ answered))
    BY <2>4
  <2>. QED BY <2>8, <2>9 DEF inRequests, atVenue, answered
<1>. QED BY <1>1, SimexInvariant, PTL

\* submit() forwards every new order the engine asks for: what its checks guard
\* against, the engine's own checks have already excluded, although they look at a
\* position that lags behind.
THEOREM NewOrdersAlwaysForwarded == SafeSpec => NewOrdersForwarded
<1>1. ASSUME SimexInv, [Next]_vars, requests # << >>, requests' = Tail(requests),
             Head(requests).type = "NEW"
      PROVE  outgoing' = Append(outgoing, Head(requests))
  <2>1. requests \in Seq(Request) /\ Len(requests) \in Nat \ {0}
    BY <1>1 DEF SimexInv, TypeOK
  <2>2. Len(requests') = Len(requests) - 1
    BY <1>1, <2>1
  <2>3. CASE GatewaySubmits
    <3>1. ~ Rejected(Head(requests))
      BY <1>1, NewNotRejected
    <3>. QED BY <2>3, <3>1 DEF GatewaySubmits, Submit, Forward
  <2>4. CASE ~ GatewaySubmits
    <3>1. requests' = requests \/ \E m : requests' = Append(requests, m)
      BY <1>1, <2>4
         DEF Next, EngineDecides, SendClientRequest, EngineReceives, GatewayReceives,
             VenueTakes, VenueExecutes, vars
    <3>2. ASSUME NEW m, requests' = Append(requests, m) PROVE Len(requests') = Len(requests) + 1
      BY <2>1, <3>2
    <3>. QED BY <2>1, <2>2, <3>1, <3>2
  <2>. QED BY <2>3, <2>4
<1>2. SimexInv /\ [Next]_vars =>
          [requests # << >> /\ requests' = Tail(requests) /\ Head(requests).type = "NEW"
           => outgoing' = Append(outgoing, Head(requests))]_vars
  BY <1>1
<1>. QED BY <1>2, SimexInvariant, PTL DEF SafeSpec, NewOrdersForwarded

\* Every response the adapter publishes is one Participant expects: the engine's part
\* of every behaviour is a behaviour of Participant, so all that is proved of that
\* (ParticipantProofs) holds of the engine behind this adapter.
THEOREM SimexImplementsParticipant == SafeSpec => ImplementsParticipant
<1>1. Init => Engine!Init
  BY DEF Init
<1>2. SimexInv /\ [Next]_vars => [Engine!Next]_(Engine!vars)
  <2>. SUFFICES ASSUME SimexInv, [Next]_vars PROVE Engine!Next \/ UNCHANGED engineVars
    BY DEF engineVars, Engine!vars
  <2>1. CASE EngineDecides
    BY <2>1 DEF EngineDecides, Engine!Next
  <2>2. CASE EngineReceives
    BY <2>2, Received DEF EngineReceives
  <2>3. CASE GatewaySubmits \/ GatewayReceives \/ VenueTakes \/ VenueExecutes
    BY <2>3 DEF GatewaySubmits, GatewayReceives, VenueTakes, VenueExecutes
  <2>4. CASE UNCHANGED vars
    BY <2>4 DEF vars
  <2>. QED BY <2>1, <2>2, <2>3, <2>4 DEF Next
<1>. QED BY <1>1, <1>2, SimexInvariant, PTL
     DEF SafeSpec, ImplementsParticipant, Engine!Spec
-----------------------------------------------------------------------------
(***************************************************************************)
(* How much the slots let out.                                             *)
(***************************************************************************)
CapacitiesSuffice ==
    /\ RequestCapacity >= 4 /\ BufferCapacity >= 4
    /\ ResponseCapacity >= 2 * OrderQty + 4

LEMMA Interval ==
    ASSUME NEW n \in Nat
    PROVE  IsFiniteSet(1 .. n) /\ Cardinality(1 .. n) = n
<1>1. IsFiniteSet(1 .. n) /\ Cardinality(1 .. n) = IF 1 > n THEN 0 ELSE n - 1 + 1
  BY FS_Interval
<1>. QED BY <1>1

\* A queue whose messages differ in side or in one of n keys holds 2n of them.
LEMMA QueueBound ==
    ASSUME NEW S, NEW queue \in Seq(S), NEW n \in Nat, n >= 1, NEW key,
           \A m \in In(queue) : m.side \in Sides /\ key[m] \in 1 .. n,
           \A i, j \in DOMAIN queue :
               i < j /\ queue[i].side = queue[j].side => key[queue[i]] # key[queue[j]]
    PROVE  Len(queue) <= 2 * n
<1>. DEFINE K == Sides \X (1 .. n)
            f == [i \in 1 .. Len(queue) |-> <<queue[i].side, key[queue[i]]>>]
<1>1. DOMAIN queue = 1 .. Len(queue) /\ Len(queue) \in Nat
  OBVIOUS
<1>2. f \in [1 .. Len(queue) -> K]
  BY <1>1 DEF In
<1>3. IsFiniteSet(K) /\ Cardinality(K) = 2 * n
  <2>1. IsFiniteSet(1 .. n) /\ Cardinality(1 .. n) = n
    BY Interval
  <2>2. IsFiniteSet(Sides) /\ Cardinality(Sides) = 2
    <3>1. Sides = {"BUY"} \cup {"SELL"}
      BY SideFacts
    <3>2. IsFiniteSet({"BUY"}) /\ Cardinality({"BUY"}) = 1
      BY FS_Singleton
    <3>3. "SELL" \notin {"BUY"}
      OBVIOUS
    <3>4. /\ IsFiniteSet({"BUY"} \cup {"SELL"})
          /\ Cardinality({"BUY"} \cup {"SELL"}) = Cardinality({"BUY"}) + 1
      BY <3>2, <3>3, FS_AddElement
    <3>. QED BY <3>1, <3>2, <3>4
  <2>3. IsFiniteSet(K) /\ Cardinality(K) = Cardinality(Sides) * Cardinality(1 .. n)
    BY <2>1, <2>2, FS_Product
  <2>. QED BY <2>1, <2>2, <2>3
<1>4. f \in Injection(1 .. Len(queue), K)
  <2>1. ASSUME NEW i \in 1 .. Len(queue), NEW j \in 1 .. Len(queue), i # j PROVE f[i] # f[j]
    <3>1. i < j \/ j < i
      BY <2>1
    <3>. QED BY <1>1, <3>1
  <2>. QED BY <1>2, <2>1 DEF Injection, IsInjective
<1>. HIDE DEF K, f
<1>5. Cardinality(1 .. Len(queue)) <= 2 * n
  BY <1>3, <1>4, FS_Injection
<1>6. Cardinality(1 .. Len(queue)) = Len(queue)
  BY <1>1, Interval
<1>. QED BY <1>5, <1>6

\* A cancel and the next new order of each side.
LEMMA FewRequests ==
    ASSUME NEW queue \in Seq(Request), Sorted(queue)
    PROVE  Len(queue) <= 4
<1>. DEFINE key == [m \in Request |-> IF m.type = "NEW" THEN 2 ELSE 1]
<1>1. queue \in Seq(Request) /\ 2 \in Nat /\ 2 >= 1 /\ \A i \in DOMAIN queue : queue[i] \in Request
  OBVIOUS
<1>2. \A m \in In(queue) : m.side \in Sides /\ key[m] \in 1 .. 2
  BY <1>1 DEF In, Request
<1>3. \A i, j \in DOMAIN queue :
          i < j /\ queue[i].side = queue[j].side => key[queue[i]] # key[queue[j]]
  BY <1>1 DEF Sorted, MayLead, Request
<1>. HIDE DEF key
<1>4. Len(queue) <= 2 * 2
  BY ONLY <1>1, <1>2, <1>3, QueueBound
<1>. QED BY <1>4

\* An execution is part of an order of at most OrderQty.
LEMMA FillsSmall ==
    ASSUME SimexInv, NEW m \in In(responses) \cup In(incoming), Fill(m)
    PROVE  m.exec >= 1 /\ m.exec + m.leaves <= OrderQty
<1>1. Fits(m, orders[m.side]) /\ m \in ResponseSet
  BY MessageTypes DEF SimexInv, MessagesInv, OnPath
<1>2. Working(m.side) /\ m.exec >= 1 /\ m.exec + m.leaves <= orders[m.side].qty
  BY <1>1 DEF Fits, Fill, Working, Engine!Working
<1>3. orders[m.side].qty <= OrderQty /\ orders[m.side].qty \in Nat /\ m.side \in Sides
  BY <1>1, <1>2, EngineTypes DEF SimexInv, SlotsInv, ResponseSet
<1>4. m.exec \in Nat /\ m.leaves \in Nat /\ OrderQty \in Nat
  BY <1>1, SimexPathAssumption DEF ResponseSet
<1>. QED BY <1>2, <1>3, <1>4

\* For each side the executions of its order, one quantity after the other, the answer
\* to the order and the answer to its cancel.
LEMMA FewResponses ==
    ASSUME NEW queue \in Seq(ResponseSet), Sorted(queue),
           \A m \in In(queue) : Fill(m) => m.exec >= 1 /\ m.exec + m.leaves <= OrderQty
    PROVE  Len(queue) <= 2 * OrderQty + 4
<1>. DEFINE key == [m \in ResponseSet |->
                      IF Fill(m) THEN m.leaves + 1
                      ELSE IF m.type \in {"ACCEPTED", "REJECTED"} THEN OrderQty + 1
                      ELSE OrderQty + 2]
<1>1. queue \in Seq(ResponseSet) /\ OrderQty \in Nat
  BY SimexPathAssumption
<1>2. ASSUME NEW m \in In(queue)
      PROVE  /\ m \in ResponseSet /\ m.side \in Sides /\ m.leaves \in Nat /\ m.exec \in Nat
             /\ m.id \in Nat
             /\ Fill(m) => m.leaves < OrderQty
  <2>1. m \in ResponseSet
    BY <1>1 DEF In
  <2>2. /\ m.side \in Sides /\ m.leaves \in Nat /\ m.exec \in Nat /\ m.id \in Nat
    BY <2>1 DEF ResponseSet, OrderIds
  <2>. QED BY <1>1, <2>1, <2>2
<1>3. \A m \in In(queue) : key[m] \in 1 .. OrderQty + 2
  BY <1>1, <1>2
<1>4. ASSUME NEW i \in DOMAIN queue, NEW j \in DOMAIN queue, i < j,
             queue[i].side = queue[j].side
      PROVE  key[queue[i]] # key[queue[j]]
  <2>0. PICK a, b : a = queue[i] /\ b = queue[j]
    OBVIOUS
  <2>1. a \in In(queue) /\ b \in In(queue) /\ MayLead(a, b)
    BY <1>4, <2>0 DEF In, Sorted
  <2>2. CASE Fill(a) /\ Fill(b)
    <3>1. b.exec >= 1 /\ b.exec + b.leaves <= a.leaves
      BY <2>1, <2>2 DEF Fill, MayLead
    <3>2. b.leaves # a.leaves
      BY <1>2, <2>1, <3>1
    <3>3. key[a] = a.leaves + 1 /\ key[b] = b.leaves + 1
      BY <1>2, <2>1, <2>2
    <3>4. a.leaves \in Nat /\ b.leaves \in Nat
      BY <1>2, <2>1
    <3>. QED BY ONLY <2>0, <3>2, <3>3, <3>4
  <2>3. CASE ~ (Fill(a) /\ Fill(b))
    <3>1. /\ a \in ResponseSet /\ b \in ResponseSet
          /\ a.leaves \in Nat /\ b.leaves \in Nat
          /\ Fill(a) => a.leaves < OrderQty
          /\ Fill(b) => b.leaves < OrderQty
      BY <1>2, <2>1
    <3>2. CASE a.type = "ACCEPTED" /\ Fill(b)
      BY <1>1, <2>0, <3>1, <3>2 DEF Fill
    <3>3. CASE Fill(a) /\ b.type \in {"CANCELED", "CANCEL_REJECTED"}
      BY <1>1, <2>0, <3>1, <3>3 DEF Fill
    <3>4. CASE a.type = "CANCEL_REJECTED" /\ b.type \in {"ACCEPTED", "REJECTED", "FILLED"}
      BY <1>1, <2>0, <3>1, <3>4 DEF Fill
    <3>5. a.type # "CANCEL" /\ b.type \notin {"CANCEL", "NEW"}
      BY <3>1 DEF ResponseSet
    <3>. QED BY <2>1, <2>3, <3>2, <3>3, <3>4, <3>5 DEF MayLead, Fill
  <2>. QED BY <2>2, <2>3
<1>. HIDE DEF key
<1>5. Len(queue) <= 2 * (OrderQty + 2)
  <2>1. OrderQty + 2 \in Nat /\ OrderQty + 2 >= 1
    BY <1>1
  <2>2. \A m \in In(queue) : m.side \in Sides /\ key[m] \in 1 .. OrderQty + 2
    BY <1>2, <1>3
  <2>3. \A i, j \in DOMAIN queue :
            i < j /\ queue[i].side = queue[j].side => key[queue[i]] # key[queue[j]]
    BY <1>4
  <2>. QED BY ONLY <1>1, <2>1, <2>2, <2>3, QueueBound
<1>. QED BY <1>1, <1>5

\* What the adapter cannot forget when it forwards a new order: the order of the other
\* side, and one finished order per side whose cancel is unanswered.
LEMMA FewRemembered ==
    ASSUME SimexInv, requests # << >>, Head(requests).type = "NEW",
           Cardinality(DOMAIN metadata) >= BufferCapacity
    PROVE  Cardinality(DOMAIN Retained) <= 3
<1>0. PICK m : m = Head(requests)
  OBVIOUS
<1>1. m.side \in Sides /\ m.id = orders[m.side].id /\ m.id \notin DOMAIN metadata
  BY <1>0, HeadRequest DEF Fits, Known, Request
<1>2. ASSUME NEW x \in DOMAIN Retained
      PROVE  /\ x \in DOMAIN metadata /\ metadata[x].side \in Sides
             /\ RecordInv(x)
             /\ metadata[x].terminal => metadata[x].cancelPending
  BY OfItsSide DEF Retained, Without, SimexInv, AdapterInv, Record
<1>. DEFINE f == [x \in DOMAIN Retained |-> IF ~ metadata[x].terminal THEN 3
                                            ELSE IF metadata[x].side = "BUY" THEN 1 ELSE 2]
<1>3. ASSUME NEW x \in DOMAIN Retained, NEW y \in DOMAIN Retained, x # y PROVE f[x] # f[y]
  <2>1. CASE ~ metadata[x].terminal /\ ~ metadata[y].terminal
    <3>1. x = orders[metadata[x].side].id /\ y = orders[metadata[y].side].id
      BY <1>2, <2>1 DEF RecordInv
    <3>2. metadata[x].side = Opposite(m.side) /\ metadata[y].side = Opposite(m.side)
      BY <1>1, <1>2, <3>1, SideFacts
    <3>. QED BY <1>3, <3>1, <3>2
  <2>2. CASE metadata[x].terminal /\ metadata[y].terminal /\ metadata[x].side = metadata[y].side
    <3>1. PICK a \in Venueward, b \in Venueward :
              /\ a.id = x /\ a.type \in Settling
              /\ b.id = y /\ b.type \in Settling
      BY <1>2, <2>2 DEF RecordInv
    <3>2. a.side = b.side /\ a # b
      BY <1>3, <2>2, <3>1 DEF SimexInv, AdapterInv, VenueInv
    <3>3. MayLead(a, b) \/ MayLead(b, a)
      <4>1. CASE a \in In(incoming) /\ b \in In(incoming)
        <5>1. PICK i \in DOMAIN incoming, j \in DOMAIN incoming :
                  a = incoming[i] /\ b = incoming[j]
          BY <4>1 DEF In
        <5>2. incoming \in Seq(ResponseSet) /\ Sorted(incoming)
          BY DEF SimexInv, TypeOK, PathInv
        <5>3. i < j \/ j < i
          BY <3>2, <5>1, <5>2
        <5>. QED BY <3>2, <5>1, <5>2, <5>3 DEF Sorted
      <4>2. CASE a \in In(outgoing) /\ b \in In(outgoing)
        <5>1. PICK i \in DOMAIN outgoing, j \in DOMAIN outgoing :
                  a = outgoing[i] /\ b = outgoing[j]
          BY <4>2 DEF In
        <5>2. outgoing \in Seq(Request) /\ Sorted(outgoing)
          BY DEF SimexInv, TypeOK, PathInv
        <5>3. i < j \/ j < i
          BY <3>2, <5>1, <5>2
        <5>. QED BY <3>2, <5>1, <5>2, <5>3 DEF Sorted
      <4>3. CASE \/ a \in In(incoming) /\ b \in In(outgoing)
                 \/ a \in In(outgoing) /\ b \in In(incoming)
        BY <3>2, <4>3 DEF SimexInv, PathInv, Ahead
      <4>. QED BY <4>1, <4>2, <4>3 DEF Venueward
    <3>. QED BY <1>3, <3>1, <3>3 DEF MayLead, Settling
  <2>3. CASE /\ metadata[x].terminal /\ metadata[y].terminal
             /\ metadata[x].side # metadata[y].side
    BY <1>2, <2>3, SideFacts
  <2>4. CASE \/ ~ metadata[x].terminal /\ metadata[y].terminal
             \/ metadata[x].terminal /\ ~ metadata[y].terminal
    BY <2>4
  <2>. QED BY <2>1, <2>2, <2>3, <2>4
<1>4. f \in Injection(DOMAIN Retained, 1 .. 3)
  <2>1. f \in [DOMAIN Retained -> 1 .. 3]
    OBVIOUS
  <2>. QED BY <1>3, <2>1 DEF Injection, IsInjective
<1>. HIDE DEF f
<1>5. IsFiniteSet(1 .. 3) /\ Cardinality(1 .. 3) = 3
  <2>1. 3 \in Nat
    OBVIOUS
  <2>. QED BY ONLY <2>1, Interval
<1>6. Cardinality(DOMAIN Retained) <= Cardinality(1 .. 3)
  BY <1>4, <1>5, FS_Injection
<1>. QED BY <1>5, <1>6

LEMMA StepNeverTerminates ==
    ASSUME CapacitiesSuffice, SimexInv, SimexInv', ~ terminated, [Next]_vars
    PROVE  ~ terminated'
<1>1. /\ requests \in Seq(Request) /\ outgoing \in Seq(Request)
      /\ responses \in Seq(ResponseSet)
      /\ requests' \in Seq(Request) /\ outgoing' \in Seq(Request)
      /\ responses' \in Seq(ResponseSet)
      /\ Sorted(requests') /\ Sorted(outgoing') /\ Sorted(responses')
  BY DEF SimexInv, TypeOK, PathInv
<1>2. /\ RequestCapacity \in Nat /\ ResponseCapacity \in Nat /\ BufferCapacity \in Nat
      /\ OrderQty \in Nat
  BY SimexPathAssumption
<1>3. ASSUME NEW queue, NEW longer, NEW m, NEW S, NEW T, queue \in Seq(S), longer \in Seq(T),
             longer = Append(queue, m)
      PROVE  Len(longer) = Len(queue) + 1
  BY <1>3
<1>4. ASSUME NEW r, responses' = Append(responses, r),
             Fill(r) => r.exec >= 1 /\ r.exec + r.leaves <= OrderQty
      PROVE  ~ (Len(responses) >= ResponseCapacity)
  <2>1. ASSUME NEW m \in In(responses'), Fill(m)
        PROVE  m.exec >= 1 /\ m.exec + m.leaves <= OrderQty
    <3>1. m = r \/ m \in In(responses)
      BY <1>1, <1>4 DEF In
    <3>. QED BY <1>4, <2>1, <3>1, FillsSmall
  <2>2. Len(responses') <= 2 * OrderQty + 4
    BY <1>1, <2>1, FewResponses
  <2>3. Len(responses') = Len(responses) + 1 /\ Len(responses) \in Nat
    BY <1>1, <1>3, <1>4
  <2>. QED BY <1>2, <2>2, <2>3 DEF CapacitiesSuffice
<1>5. CASE EngineDecides
  <2>1. PICK m : /\ requests' = Append(requests, m)
                 /\ terminated' = (Len(requests) >= RequestCapacity)
    BY <1>5 DEF EngineDecides, SendClientRequest
  <2>2. Len(requests') <= 4
    BY <1>1, FewRequests
  <2>3. Len(requests') = Len(requests) + 1 /\ Len(requests) \in Nat
    BY <1>1, <1>3, <2>1
  <2>4. ~ (Len(requests) >= RequestCapacity)
    BY <1>2, <2>2, <2>3 DEF CapacitiesSuffice
  <2>. QED BY <2>1, <2>4
<1>6. CASE EngineReceives
  BY <1>6 DEF EngineReceives, SimexInv, EngineProofs!ParticipantInv,
              EngineProofs!NoDisagreement
<1>7. CASE GatewaySubmits
  <2>0. PICK m : m = Head(requests)
    OBVIOUS
  <2>1. CASE Rejected(m)
    <3>1. \E r : /\ responses' = Append(responses, r) /\ ~ Fill(r)
                 /\ terminated' = (Len(responses) >= ResponseCapacity)
      BY <1>7, <2>0, <2>1
         DEF GatewaySubmits, Submit, Reject, PublishClientResponse, Response,
             Engine!Response, Fill
    <3>. QED BY <1>4, <3>1
  <2>2. CASE ~ Rejected(m)
    <3>1. /\ outgoing' = Append(outgoing, m) /\ requests # << >>
          /\ terminated' = (\/ Len(outgoing) >= BufferCapacity
                            \/ /\ m.type = "NEW"
                               /\ Cardinality(DOMAIN Retained) >= BufferCapacity)
      BY <1>7, <2>0, <2>2 DEF GatewaySubmits, Submit, Forward
    <3>2. Len(outgoing') <= 4
      BY <1>1, FewRequests
    <3>3. Len(outgoing') = Len(outgoing) + 1 /\ Len(outgoing) \in Nat
      BY <1>1, <1>3, <3>1
    <3>4. ~ (Len(outgoing) >= BufferCapacity)
      BY <1>2, <3>2, <3>3 DEF CapacitiesSuffice
    <3>5. ASSUME m.type = "NEW" PROVE ~ (Cardinality(DOMAIN Retained) >= BufferCapacity)
      <4>1. DOMAIN metadata \subseteq 1 .. nextOrderId - 1 /\ nextOrderId \in Nat
        BY EngineTypes DEF SimexInv, TypeOK
      <4>2. IsFiniteSet(1 .. nextOrderId - 1)
        BY <4>1, FS_Interval
      <4>3. /\ IsFiniteSet(DOMAIN metadata) /\ IsFiniteSet(DOMAIN Retained)
        BY <4>1, <4>2, RetainedFacts, FS_Subset
      <4>4. /\ Cardinality(DOMAIN metadata) \in Nat /\ Cardinality(DOMAIN Retained) \in Nat
        BY <4>3, FS_CardinalityType
      <4>5. CASE Cardinality(DOMAIN metadata) >= BufferCapacity
        <5>1. Cardinality(DOMAIN Retained) <= 3
          BY <2>0, <3>1, <3>5, <4>5, FewRemembered
        <5>. QED BY <1>2, <4>4, <5>1 DEF CapacitiesSuffice
      <4>6. CASE ~ (Cardinality(DOMAIN metadata) >= BufferCapacity)
        BY <4>6 DEF Retained
      <4>. QED BY <4>5, <4>6
    <3>. QED BY <3>1, <3>4, <3>5
  <2>. QED BY <2>1, <2>2
<1>8. CASE GatewayReceives
  <2>0. PICK r : r = Head(incoming)
    OBVIOUS
  <2>1. /\ incoming # << >>
        /\ ~ Invalid(r) => /\ responses' = Append(responses, r)
                           /\ terminated' = (Len(responses) >= ResponseCapacity)
    BY <1>8, <2>0 DEF GatewayReceives, Receive, PublishClientResponse
  <2>2. ~ Invalid(r) /\ r \in In(incoming)
    BY <2>0, <2>1, HeadIncoming
  <2>. QED BY <1>4, <2>1, <2>2, FillsSmall
<1>9. CASE VenueTakes \/ VenueExecutes \/ UNCHANGED vars
  BY <1>9 DEF VenueTakes, VenueExecutes, vars
<1>. QED BY <1>5, <1>6, <1>7, <1>8, <1>9 DEF Next

\* No queue or buffer of the path overflows, no response refers to an order the adapter
\* has forgotten and no quantity disagrees, as long as the configured capacities hold
\* what two order slots can have under way, at worst every lot of both orders as an
\* execution of its own in the queue of responses.
THEOREM PathNeverTerminates ==
    ASSUME CapacitiesSuffice
    PROVE  SafeSpec => []NeverTerminates
<1>1. Init => NeverTerminates
  BY DEF Init, NeverTerminates
<1>2. SimexInv /\ SimexInv' /\ NeverTerminates /\ [Next]_vars => NeverTerminates'
  BY StepNeverTerminates DEF NeverTerminates
<1>. QED BY <1>1, <1>2, SimexInvariant, PTL DEF SafeSpec
=============================================================================
