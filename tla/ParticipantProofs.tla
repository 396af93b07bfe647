------------------------- MODULE ParticipantProofs -------------------------
(***************************************************************************)
(* For every limit, order quantity and set of prices, with and without the *)
(* venue's constraints, the participant keeps its holding within the       *)
(* limit, never disagrees with an execution and never reverses a holding.  *)
(*                                                                         *)
(* Three kinds of step touch the invariant: a slot changes its state only, *)
(* a free slot is taken by a new order, a working order executes.  Each    *)
(* has a lemma; every action of the participant is one of them.            *)
(***************************************************************************)
EXTENDS Participant, TLAPS

\* The fields of an order slot and of the holding.
LEMMA SlotTypes ==
    ASSUME TypeOK, NEW side \in Sides
    PROVE  /\ orders[side].id \in Nat
           /\ orders[side].price \in Prices \cup {PriceInvalid}
           /\ orders[side].qty \in Nat
           /\ orders[side].offset \in Offsets
           /\ orders[side].state \in OrderStates
           /\ Opposite(side) \in Sides /\ Opposite(side) # side
           /\ Opposite(Opposite(side)) = side
BY DEF TypeOK, Sides, Opposite

LEMMA PositionTypes ==
    ASSUME TypeOK
    PROVE  position.net \in Int /\ position.today \in Nat /\ position.yesterday \in Nat
BY DEF TypeOK

\* The participant starts in its invariant.
LEMMA InitInv == Init => ParticipantInv
<1> SUFFICES ASSUME Init PROVE ParticipantInv
  OBVIOUS
<1> USE ParticipantAssumption DEF Init
<1>1. \A side \in Sides : orders[side] = NoOrder /\ ~ Working(side)
  BY DEF NoOrder, Working
<1>2. TypeOK
  <2>1. NoOrder \in [id : Nat, price : Prices \cup {PriceInvalid}, qty : Nat,
                     offset : Offsets, state : OrderStates]
    BY DEF NoOrder, Offsets, OrderStates
  <2>2. orders \in [Sides -> [id : Nat, price : Prices \cup {PriceInvalid}, qty : Nat,
                              offset : Offsets, state : OrderStates]]
    BY <2>1
  <2>3. position \in [net : Int, today : Nat, yesterday : Nat]
    OBVIOUS
  <2>4. fault \in BOOLEAN
    OBVIOUS
  <2>5. nextOrderId \in Nat \ {0}
    OBVIOUS
  <2>6. ASSUME NEW side \in Sides PROVE orders[side].id < nextOrderId /\ ~ Working(side)
    BY <1>1 DEF NoOrder
  <2>7. QED
    BY <2>2, <2>3, <2>4, <2>5, <2>6 DEF TypeOK
<1>3. ExposureWithinLimit /\ OrderWithinLimit /\ HoldingsAgree /\ NoDisagreement
  BY <1>1 DEF ExposureWithinLimit, OrderWithinLimit, HoldingsAgree, NoDisagreement,
              Magnitude, Sides
<1>4. QED
  BY <1>2, <1>3 DEF ParticipantInv
-----------------------------------------------------------------------------
\* A slot that changes its state only, and does not start to work, keeps the
\* invariant: a cancel that leaves, and every response but an execution.
LEMMA StateChangeKeepsInv ==
    ASSUME ParticipantInv, NEW side \in Sides, NEW state \in OrderStates,
           state \in {"PENDING_NEW", "LIVE", "PENDING_CANCEL"} => Working(side),
           orders' = [orders EXCEPT ![side].state = state],
           UNCHANGED <<nextOrderId, position, fault>>
    PROVE  ParticipantInv'
<1> USE DEF ParticipantInv
<1>1. ASSUME NEW s \in Sides
      PROVE  /\ orders'[s].id = orders[s].id /\ orders'[s].price = orders[s].price
             /\ orders'[s].qty = orders[s].qty /\ orders'[s].offset = orders[s].offset
             /\ Working(s)' => Working(s)
  BY DEF TypeOK, Working
<1>2. TypeOK'
  <2>1. orders' \in [Sides -> [id : Nat, price : Prices \cup {PriceInvalid}, qty : Nat,
                               offset : Offsets, state : OrderStates]]
    BY DEF TypeOK
  <2>2. QED
    BY <1>1, <2>1 DEF TypeOK
<1>3. ExposureWithinLimit'
  BY <1>1 DEF ExposureWithinLimit, Sides
<1>4. OrderWithinLimit'
  BY <1>1 DEF OrderWithinLimit
<1>5. HoldingsAgree'
  BY <1>1, SlotTypes DEF HoldingsAgree, CloseableQty
<1>6. QED
  BY <1>2, <1>3, <1>4, <1>5 DEF NoDisagreement

\* A new order in a free slot keeps the invariant if, on its own, it respects
\* the limit and fits the holding.
LEMMA NewOrderKeepsInv ==
    ASSUME ParticipantInv, NEW side \in Sides, NEW price \in Prices,
           NEW qty \in Nat \ {0}, NEW offset \in Offsets \ {"INVALID"},
           ~ Working(side),
           orders' = [orders EXCEPT ![side] =
                         [id |-> nextOrderId, price |-> price, qty |-> qty,
                          offset |-> offset, state |-> "PENDING_NEW"]],
           nextOrderId' = nextOrderId + 1,
           UNCHANGED <<position, fault>>,
           MaxPosition # QtyInvalid =>
               /\ OrderQty <= MaxPosition
               /\ side = "BUY" => position.net + qty <= MaxPosition
               /\ side = "SELL" => position.net - qty >= -MaxPosition,
           SimexConstraints =>
               IF offset = "OPEN" THEN ~ OpeningBlocked(side)
               ELSE Sign(side) * position.net < 0 /\ qty <= CloseableQty(offset)
    PROVE  ParticipantInv'
<1> USE DEF ParticipantInv
<1>1. /\ orders'[side].id = nextOrderId /\ orders'[side].price = price
      /\ orders'[side].qty = qty /\ orders'[side].offset = offset
      /\ Working(side)'
  BY DEF TypeOK, Working
<1>2. ASSUME NEW s \in Sides, s # side
      PROVE  orders'[s] = orders[s] /\ (Working(s)' <=> Working(s))
  BY <1>2 DEF TypeOK, Working
<1>3. TypeOK'
  <2>1. orders' \in [Sides -> [id : Nat, price : Prices \cup {PriceInvalid}, qty : Nat,
                               offset : Offsets, state : OrderStates]]
    BY DEF TypeOK, OrderStates
  <2>2. ASSUME NEW s \in Sides
        PROVE  /\ orders'[s].id < nextOrderId'
               /\ Working(s)' => orders'[s].qty > 0 /\ orders'[s].offset # "INVALID"
    <3>1. CASE s = side
      BY <1>1, <3>1 DEF TypeOK
    <3>2. CASE s # side
      BY <1>2, <3>2, SlotTypes DEF TypeOK
    <3>3. QED
      BY <3>1, <3>2
  <2>3. QED
    BY <2>1, <2>2 DEF TypeOK
<1>4. ExposureWithinLimit'
  BY <1>1, <1>2 DEF ExposureWithinLimit, Sides
<1>5. OrderWithinLimit'
  BY DEF OrderWithinLimit
<1>6. HoldingsAgree'
  <2> SUFFICES ASSUME SimexConstraints, NEW s \in Sides, Working(s)'
               PROVE  IF orders'[s].offset = "OPEN"
                      THEN /\ Sign(s) * position.net >= 0
                           /\ ~ (Working(Opposite(s))' /\ orders'[Opposite(s)].offset = "OPEN")
                      ELSE /\ Sign(s) * position.net < 0
                           /\ orders'[s].qty <= CloseableQty(orders'[s].offset)
    BY DEF HoldingsAgree, CloseableQty
  <2>1. CASE s = side
    BY <1>1, <1>2, <2>1, SlotTypes, PositionTypes DEF OpeningBlocked, Sign
  <2>2. CASE s # side
    <3>1. Opposite(s) = side /\ Opposite(side) = s
      BY <2>2 DEF Sides, Opposite
    <3>2. orders'[s] = orders[s] /\ Working(s)
      BY <1>2, <2>2
    <3>3. CASE orders[s].offset = "OPEN"
      BY <1>1, <3>1, <3>2, <3>3, PositionTypes, SlotTypes
         DEF HoldingsAgree, OpeningBlocked, Sign, CloseableQty, Sides
    <3>4. CASE orders[s].offset # "OPEN"
      BY <3>2, <3>4 DEF HoldingsAgree
    <3>5. QED
      BY <3>3, <3>4
  <2>3. QED
    BY <2>1, <2>2
<1>7. QED
  BY <1>3, <1>4, <1>5, <1>6 DEF NoDisagreement

\* An execution of what works on a side, booked by the position keeper.
Filled(side, exec) ==
    Response("FILLED", orders[side].id, side, orders[side].offset, exec, orders[side].qty - exec)

\* How an execution moves the holding: by the executed quantity, or, in a close
\* the participant does not hold, by less.
LEMMA FillMovesPosition ==
    ASSUME ParticipantInv, NEW side \in Sides, Working(side),
           NEW exec \in 1 .. orders[side].qty
    PROVE  LET p == OnFill(position, Filled(side, exec))
           IN  /\ p \in [net : Int, today : Nat, yesterday : Nat]
               /\ \E moved \in 0 .. exec :
                      /\ p.net = position.net + Sign(side) * moved
                      /\ orders[side].offset = "OPEN" =>
                             /\ moved = exec
                             /\ p.today = position.today + exec
                             /\ p.yesterday = position.yesterday
                      /\ orders[side].offset = "CLOSE_TODAY" =>
                             /\ p.today = position.today - moved
                             /\ p.yesterday = position.yesterday
                      /\ orders[side].offset = "CLOSE_YESTERDAY" =>
                             /\ p.today = position.today
                             /\ p.yesterday = position.yesterday - moved
                      /\ SimexConstraints => moved = exec
<1> DEFINE r == Filled(side, exec)
           p == OnFill(position, r)
           closed == Smaller(r.exec, IF r.offset = "CLOSE_TODAY" THEN position.today
                                     ELSE position.yesterday)
           moved == IF r.offset = "OPEN" THEN exec ELSE closed
<1>1. r.side = side /\ r.offset = orders[side].offset /\ r.exec = exec
  BY DEF Filled, Response
<1>2. /\ position = [net |-> position.net, today |-> position.today,
                     yesterday |-> position.yesterday]
      /\ position.net \in Int /\ position.today \in Nat /\ position.yesterday \in Nat
      /\ exec \in Nat /\ exec > 0 /\ Sign(side) \in Int
      /\ r.offset \in {"OPEN", "CLOSE_TODAY", "CLOSE_YESTERDAY"}
  BY <1>1, SlotTypes DEF ParticipantInv, TypeOK, Offsets, Sign
<1>3. moved \in 0 .. exec
  BY <1>1, <1>2 DEF Smaller
<1>4. SimexConstraints => moved = exec
  BY <1>1, <1>2, SlotTypes DEF ParticipantInv, HoldingsAgree, CloseableQty, Smaller
<1>5. CASE r.offset = "OPEN"
  <2>1. p = [net |-> position.net + Sign(side) * exec, today |-> position.today + exec,
             yesterday |-> position.yesterday]
    BY <1>1, <1>2, <1>5 DEF OnFill
  <2>2. Sign(side) * exec \in Int
    BY <1>2 DEF Sign
  <2>3. QED
    BY <1>1, <1>2, <1>3, <1>4, <1>5, <2>1, <2>2
<1>6. CASE r.offset = "CLOSE_TODAY"
  <2>1. p = [net |-> position.net + Sign(side) * closed, today |-> position.today - closed,
             yesterday |-> position.yesterday]
    BY <1>1, <1>2, <1>6 DEF OnFill
  <2>2. moved = closed /\ closed \in 0 .. position.today /\ Sign(side) * closed \in Int
    BY <1>1, <1>2, <1>6 DEF Smaller, Sign
  <2>3. QED
    BY <1>1, <1>2, <1>3, <1>4, <1>6, <2>1, <2>2
<1>7. CASE r.offset = "CLOSE_YESTERDAY"
  <2>1. p = [net |-> position.net + Sign(side) * closed, today |-> position.today,
             yesterday |-> position.yesterday - closed]
    BY <1>1, <1>2, <1>7 DEF OnFill
  <2>2. moved = closed /\ closed \in 0 .. position.yesterday /\ Sign(side) * closed \in Int
    BY <1>1, <1>2, <1>7 DEF Smaller, Sign
  <2>3. QED
    BY <1>1, <1>2, <1>3, <1>4, <1>7, <2>1, <2>2
<1>8. QED
  BY <1>2, <1>5, <1>6, <1>7

\* An execution keeps the invariant; in particular it passes the check of the
\* handler.
LEMMA FillKeepsInv ==
    ASSUME ParticipantInv, NEW side \in Sides, Working(side),
           NEW exec \in 1 .. orders[side].qty,
           HandleClientResponse(Filled(side, exec))
    PROVE  ParticipantInv'
<1> DEFINE r == Filled(side, exec)
<1>1. /\ r.type = "FILLED" /\ r.id = orders[side].id /\ r.side = side /\ r.exec = exec
      /\ r.offset = orders[side].offset /\ r.leaves = orders[side].qty - exec
  BY DEF Filled, Response
<1>2. position' = OnFill(position, r) /\ UNCHANGED nextOrderId
  BY <1>1 DEF HandleClientResponse
<1>3. PICK moved \in 0 .. exec :
          /\ position'.net = position.net + Sign(side) * moved
          /\ orders[side].offset = "OPEN" =>
                 /\ moved = exec
                 /\ position'.today = position.today + exec
                 /\ position'.yesterday = position.yesterday
          /\ orders[side].offset = "CLOSE_TODAY" =>
                 /\ position'.today = position.today - moved
                 /\ position'.yesterday = position.yesterday
          /\ orders[side].offset = "CLOSE_YESTERDAY" =>
                 /\ position'.today = position.today
                 /\ position'.yesterday = position.yesterday - moved
          /\ SimexConstraints => moved = exec
  BY <1>2, FillMovesPosition
<1>4. position' \in [net : Int, today : Nat, yesterday : Nat]
  BY <1>2, FillMovesPosition
<1>5. /\ orders[side].qty \in Nat /\ exec \in 1 .. orders[side].qty
      /\ orders[side].offset \in {"OPEN", "CLOSE_TODAY", "CLOSE_YESTERDAY"}
      /\ position.net \in Int /\ position.today \in Nat /\ position.yesterday \in Nat
      /\ position'.net \in Int /\ position'.today \in Nat /\ position'.yesterday \in Nat
  BY <1>4, SlotTypes, PositionTypes DEF ParticipantInv, TypeOK, Offsets
<1>6. SimexConstraints => Agrees(position', r)
  BY <1>1, <1>3, <1>5 DEF Agrees, ParticipantInv, HoldingsAgree, CloseableQty, Sign, Magnitude
<1>7. ~ fault'
  BY <1>1, <1>6 DEF HandleClientResponse
<1>8. orders' = [orders EXCEPT ![side] = Updated(@, r)]
  BY <1>1, <1>7 DEF HandleClientResponse, OnOrderUpdate
<1>9. /\ orders'[side] = Updated(orders[side], r)
      /\ \A s \in Sides : s # side => orders'[s] = orders[s]
  BY <1>8 DEF ParticipantInv, TypeOK
<1>10. /\ orders'[side].id = orders[side].id /\ orders'[side].price = orders[side].price
       /\ orders'[side].qty = orders[side].qty - exec
       /\ orders'[side].offset = orders[side].offset
       /\ orders'[side].state = IF orders[side].qty = exec THEN "DEAD" ELSE orders[side].state
       /\ Working(side)' <=> exec < orders[side].qty
  BY <1>1, <1>5, <1>9 DEF Updated, ParticipantInv, TypeOK, Working
<1>11. TypeOK'
  <2>1. orders' \in [Sides -> [id : Nat, price : Prices \cup {PriceInvalid}, qty : Nat,
                               offset : Offsets, state : OrderStates]]
    <3>1. Updated(orders[side], r) \in [id : Nat, price : Prices \cup {PriceInvalid}, qty : Nat,
                                        offset : Offsets, state : OrderStates]
      <4>1. /\ orders[side] \in [id : Nat, price : Prices \cup {PriceInvalid}, qty : Nat,
                                  offset : Offsets, state : OrderStates]
            /\ r.type = "FILLED" /\ r.leaves \in Nat /\ "DEAD" \in OrderStates
        BY <1>1, <1>5 DEF ParticipantInv, TypeOK, OrderStates
      <4> HIDE DEF r
      <4>2. QED
        BY <4>1 DEF Updated
    <3>2. QED
      BY <1>8, <3>1 DEF ParticipantInv, TypeOK
  <2>2. fault' \in BOOLEAN
    BY DEF HandleClientResponse
  <2>3. ASSUME NEW s \in Sides
        PROVE  /\ orders'[s].id < nextOrderId'
               /\ Working(s)' => orders'[s].qty > 0 /\ orders'[s].offset # "INVALID"
    <3>1. CASE s = side
      BY <1>2, <1>5, <1>10, <3>1 DEF ParticipantInv, TypeOK
    <3>2. CASE s # side
      BY <1>2, <1>9, <3>2 DEF ParticipantInv, TypeOK, Working
    <3>3. QED
      BY <3>1, <3>2
  <2>4. nextOrderId' \in Nat \ {0}
    BY <1>2 DEF ParticipantInv, TypeOK
  <2>5. QED
    BY <1>4, <2>1, <2>2, <2>3, <2>4 DEF TypeOK
<1>12. ASSUME NEW s \in Sides, s # side
       PROVE  orders'[s] = orders[s] /\ (Working(s)' <=> Working(s))
  BY <1>9, <1>12 DEF Working
<1>13. ExposureWithinLimit'
  <2> SUFFICES ASSUME MaxPosition # QtyInvalid
               PROVE  /\ Magnitude(position'.net) <= MaxPosition
                      /\ Working("BUY")' => position'.net + orders'["BUY"].qty <= MaxPosition
                      /\ Working("SELL")' => position'.net - orders'["SELL"].qty >= -MaxPosition
    BY DEF ExposureWithinLimit
  <2> USE ParticipantAssumption
  <2>1. CASE side = "BUY"
    BY <1>3, <1>5, <1>10, <1>12, <2>1, SlotTypes
       DEF ParticipantInv, ExposureWithinLimit, Sign, Magnitude, Sides
  <2>2. CASE side = "SELL"
    BY <1>3, <1>5, <1>10, <1>12, <2>2, SlotTypes
       DEF ParticipantInv, ExposureWithinLimit, Sign, Magnitude, Sides
  <2>3. QED
    BY <2>1, <2>2 DEF Sides
<1>14. OrderWithinLimit'
  BY DEF ParticipantInv, OrderWithinLimit
<1>15. HoldingsAgree'
  <2> SUFFICES ASSUME SimexConstraints
               PROVE  HoldingsAgree'
    BY DEF HoldingsAgree
  <2>1. position'.today + position'.yesterday = Magnitude(position'.net)
    BY <1>1, <1>3, <1>5, <1>6 DEF Agrees
  <2>2. /\ position'.net = position.net + Sign(side) * exec
        /\ position.today + position.yesterday = Magnitude(position.net)
    BY <1>3 DEF ParticipantInv, HoldingsAgree
  <2>3. \A s \in Sides :
            Working(s) =>
                IF orders[s].offset = "OPEN"
                THEN /\ Sign(s) * position.net >= 0
                     /\ ~ (Working(Opposite(s)) /\ orders[Opposite(s)].offset = "OPEN")
                ELSE /\ Sign(s) * position.net < 0
                     /\ orders[s].qty <= CloseableQty(orders[s].offset)
    BY DEF ParticipantInv, HoldingsAgree
  <2>4. ASSUME NEW s \in Sides, Working(s)', orders'[s].offset = "OPEN"
        PROVE  /\ Sign(s) * position'.net >= 0
               /\ ~ (Working(Opposite(s))' /\ orders'[Opposite(s)].offset = "OPEN")
    <3>1. ASSUME NEW q \in Sides
          PROVE  /\ Working(q)' => Working(q)
                 /\ orders'[q].offset = orders[q].offset
      BY <1>5, <1>10, <1>12
    <3>2. ~ (Working(Opposite(s))' /\ orders'[Opposite(s)].offset = "OPEN")
      BY <2>3, <2>4, <3>1, SlotTypes DEF ParticipantInv
    <3>3. Sign(s) * position.net >= 0
      BY <2>3, <2>4, <3>1
    <3>4. CASE s = side
      <4>1. exec \in Nat /\ position'.net = position.net + Sign(s) * exec
        BY <1>5, <2>2, <3>4
      <4>2. CASE s = "BUY"
        BY <1>5, <3>2, <3>3, <4>1, <4>2 DEF Sign
      <4>3. CASE s = "SELL"
        BY <1>5, <3>2, <3>3, <4>1, <4>3 DEF Sign
      <4>4. QED
        BY <4>2, <4>3 DEF Sides
    <3>5. CASE s # side
      <4>1. s = Opposite(side) /\ side = Opposite(s)
        BY <3>5 DEF Sides, Opposite
      <4>2. orders[side].offset # "OPEN"
        BY <2>3, <2>4, <3>1, <4>1
      <4>3. Sign(side) * position.net < 0 /\ exec <= CloseableQty(orders[side].offset)
        BY <1>5, <2>3, <4>2 DEF CloseableQty
      <4>4. exec <= Magnitude(position.net)
        BY <1>5, <2>2, <4>3 DEF CloseableQty
      <4>5. exec \in Nat /\ position'.net = position.net + Sign(side) * exec
        BY <1>5, <2>2
      <4>6. CASE side = "BUY"
        BY <1>5, <3>2, <4>1, <4>3, <4>4, <4>5, <4>6 DEF Sign, Magnitude, Opposite
      <4>7. CASE side = "SELL"
        BY <1>5, <3>2, <4>1, <4>3, <4>4, <4>5, <4>7 DEF Sign, Magnitude, Opposite
      <4>8. QED
        BY <4>6, <4>7 DEF Sides
    <3>6. QED
      BY <3>2, <3>4, <3>5
  <2>5. ASSUME NEW s \in Sides, Working(s)', orders'[s].offset # "OPEN"
        PROVE  /\ Sign(s) * position'.net < 0
               /\ orders'[s].qty <= IF orders'[s].offset = "CLOSE_TODAY" THEN position'.today
                                    ELSE IF orders'[s].offset = "CLOSE_YESTERDAY"
                                    THEN position'.yesterday ELSE 0
    <3>1. CASE s = side
      <4>1. /\ Sign(side) * position.net < 0
            /\ orders[side].qty <= CloseableQty(orders[side].offset)
            /\ exec < orders[side].qty
        BY <1>10, <2>3, <2>5, <3>1
      <4>2. exec < Magnitude(position.net)
        BY <1>5, <2>2, <4>1 DEF CloseableQty
      <4>3. Sign(side) * position'.net < 0
        BY <1>5, <2>2, <4>1, <4>2 DEF Sign, Magnitude
      <4>4. QED
        BY <1>3, <1>5, <1>10, <2>5, <3>1, <4>1, <4>3 DEF CloseableQty
    <3>2. CASE s # side
      <4>1. /\ Sign(s) * position.net < 0 /\ orders[s].qty <= CloseableQty(orders[s].offset)
            /\ orders'[s] = orders[s] /\ s = Opposite(side)
        BY <1>12, <2>3, <2>5, <3>2 DEF Sides, Opposite
      <4>2. orders[side].offset = "OPEN"
        BY <1>5, <2>3, <4>1 DEF Sign, Opposite, Sides
      <4>3. /\ position'.today = position.today + exec
            /\ position'.yesterday = position.yesterday
            /\ exec \in Nat /\ orders[s].qty \in Nat
            /\ position'.net = position.net + Sign(side) * exec
        BY <1>3, <1>5, <2>2, <4>2, SlotTypes DEF ParticipantInv
      <4>4. orders'[s].qty <= IF orders'[s].offset = "CLOSE_TODAY" THEN position'.today
                              ELSE IF orders'[s].offset = "CLOSE_YESTERDAY"
                              THEN position'.yesterday ELSE 0
        BY <1>5, <4>1, <4>3 DEF CloseableQty
      <4>5. CASE side = "BUY"
        BY <1>5, <4>1, <4>3, <4>4, <4>5 DEF Sign, Opposite
      <4>6. CASE side = "SELL"
        BY <1>5, <4>1, <4>3, <4>4, <4>6 DEF Sign, Opposite
      <4>7. QED
        BY <4>5, <4>6 DEF Sides
    <3>3. QED
      BY <3>1, <3>2
  <2>6. QED
    BY <2>1, <2>4, <2>5 DEF HoldingsAgree, CloseableQty
<1>16. QED
  BY <1>7, <1>11, <1>13, <1>14, <1>15 DEF ParticipantInv, NoDisagreement
-----------------------------------------------------------------------------
\* A step that leaves the variables alone keeps the invariant.
LEMMA StutterKeepsInv == ParticipantInv /\ UNCHANGED vars => ParticipantInv'
<1> SUFFICES ASSUME ParticipantInv, UNCHANGED vars PROVE ParticipantInv'
  OBVIOUS
<1>1. TypeOK'
  BY DEF ParticipantInv, TypeOK, vars, Working
<1>2. ExposureWithinLimit' /\ OrderWithinLimit' /\ NoDisagreement'
  BY DEF ParticipantInv, ExposureWithinLimit, OrderWithinLimit, NoDisagreement, vars, Working
<1>3. HoldingsAgree'
  BY DEF ParticipantInv, HoldingsAgree, CloseableQty, vars, Working
<1>4. QED
  BY <1>1, <1>2, <1>3 DEF ParticipantInv

\* Cancelling a live order keeps the invariant.
LEMMA CancelKeepsInv ==
    ASSUME ParticipantInv, NEW side \in Sides, orders[side].state = "LIVE",
           CancelOrder(side), UNCHANGED <<position, fault>>
    PROVE  ParticipantInv'
<1>1. Working(side) /\ "PENDING_CANCEL" \in OrderStates
  BY DEF Working, OrderStates
<1>2. QED
  BY <1>1, StateChangeKeepsInv DEF CancelOrder

\* A decision to open keeps the invariant.
LEMMA OpenKeepsInv ==
    ASSUME ParticipantInv, NEW side \in Sides, NEW price \in Prices,
           NEW lossBreached \in BOOLEAN, OpenDecision(side, price, lossBreached)
    PROVE  ParticipantInv'
<1>1. CASE orders[side].state = "LIVE" /\ CancelOrder(side)
  BY <1>1, CancelKeepsInv DEF OpenDecision
<1>2. CASE /\ orders[side].state \in {"INVALID", "DEAD"}
           /\ NewOrder(side, price, OrderQty, "OPEN", lossBreached)
  <2>1. /\ ~ Working(side) /\ OrderQty \in Nat \ {0}
        /\ "OPEN" \in Offsets \ {"INVALID"}
    BY <1>2, ParticipantAssumption DEF Working, NewOrder, RiskAllows, Offsets
  <2>2. MaxPosition # QtyInvalid =>
            /\ OrderQty <= MaxPosition
            /\ side = "BUY" => position.net + OrderQty <= MaxPosition
            /\ side = "SELL" => position.net - OrderQty >= -MaxPosition
    <3> SUFFICES ASSUME MaxPosition # QtyInvalid
                 PROVE  /\ OrderQty <= MaxPosition
                        /\ side = "BUY" => position.net + OrderQty <= MaxPosition
                        /\ side = "SELL" => position.net - OrderQty >= -MaxPosition
      OBVIOUS
    <3>1. Magnitude(position.net + Sign(side) * OrderQty) <= MaxPosition
      BY <1>2 DEF NewOrder, RiskAllows
    <3>2. position.net \in Int
      BY PositionTypes DEF ParticipantInv
    <3>3. CASE side = "BUY"
      BY <3>1, <3>2, <3>3, ParticipantAssumption
         DEF ParticipantInv, OrderWithinLimit, Sign, Magnitude
    <3>4. CASE side = "SELL"
      BY <3>1, <3>2, <3>4, ParticipantAssumption
         DEF ParticipantInv, OrderWithinLimit, Sign, Magnitude
    <3>5. QED
      BY <3>3, <3>4 DEF Sides
  <2>3. SimexConstraints => ~ OpeningBlocked(side)
    BY DEF OpenDecision
  <2>4. /\ orders' = [orders EXCEPT ![side] =
                         [id |-> nextOrderId, price |-> price, qty |-> OrderQty,
                          offset |-> "OPEN", state |-> "PENDING_NEW"]]
        /\ nextOrderId' = nextOrderId + 1
        /\ UNCHANGED <<position, fault>>
    BY <1>2 DEF NewOrder, OpenDecision
  <2>5. QED
    BY <2>1, <2>2, <2>3, <2>4, NewOrderKeepsInv
<1>3. QED
  BY <1>1, <1>2 DEF OpenDecision, MoveOrder

\* A decision to close keeps the invariant.
LEMMA CloseKeepsInv ==
    ASSUME ParticipantInv, NEW price \in Prices, NEW lossBreached \in BOOLEAN,
           CloseDecision(price, lossBreached)
    PROVE  ParticipantInv'
<1> DEFINE side == IF position.net > 0 THEN "SELL" ELSE "BUY"
           offset == CloseOffset(OrderQty)
           qty == Smaller(OrderQty, CloseableQty(offset))
<1>1. /\ position.net # 0 /\ offset # "INVALID"
      /\ RiskAllows(side, offset, qty, lossBreached)
      /\ MoveOrder(side, price, qty, offset, lossBreached)
      /\ UNCHANGED <<position, fault>>
  BY DEF CloseDecision, MoveCloseOrder
<1>2. side \in Sides /\ position.net \in Int
  BY PositionTypes DEF ParticipantInv, Sides
<1>3. Sign(side) * position.net < 0
  <2>1. CASE position.net > 0
    BY <1>2, <2>1 DEF Sign
  <2>2. CASE ~ (position.net > 0)
    BY <1>1, <1>2, <2>2 DEF Sign
  <2>3. QED
    BY <2>1, <2>2
<1>4. CASE orders[side].state = "LIVE" /\ CancelOrder(side)
  <2> HIDE DEF side
  <2>1. QED
    BY <1>1, <1>2, <1>4, CancelKeepsInv
<1>5. CASE /\ orders[side].state \in {"INVALID", "DEAD"}
           /\ NewOrder(side, price, qty, offset, lossBreached)
  <2>1. offset \in {"CLOSE_TODAY", "CLOSE_YESTERDAY"}
    BY <1>1 DEF CloseOffset
  <2>2. /\ qty \in Nat \ {0} /\ qty <= OrderQty /\ qty <= CloseableQty(offset)
    BY <1>1, <2>1, PositionTypes, ParticipantAssumption
       DEF ParticipantInv, RiskAllows, Smaller, CloseableQty
  <2>3. MaxPosition # QtyInvalid =>
            /\ OrderQty <= MaxPosition
            /\ side = "BUY" => position.net + qty <= MaxPosition
            /\ side = "SELL" => position.net - qty >= -MaxPosition
    BY <1>1, <1>2, <2>2, ParticipantAssumption DEF ParticipantInv, OrderWithinLimit
  <2> HIDE DEF side, offset, qty
  <2>4. ~ Working(side) /\ offset \in Offsets \ {"INVALID"} /\ offset # "OPEN"
    BY <1>5, <2>1 DEF Working, Offsets
  <2>5. /\ orders' = [orders EXCEPT ![side] =
                         [id |-> nextOrderId, price |-> price, qty |-> qty,
                          offset |-> offset, state |-> "PENDING_NEW"]]
        /\ nextOrderId' = nextOrderId + 1
    BY <1>5 DEF NewOrder
  <2>6. QED
    BY <1>1, <1>2, <1>3, <2>2, <2>3, <2>4, <2>5, NewOrderKeepsInv
<1>6. QED
  BY <1>1, <1>4, <1>5 DEF MoveOrder

\* Every response the venue may send keeps the invariant.
LEMMA ResponseKeepsInv ==
    ASSUME ParticipantInv, NEW side \in Sides, NEW r \in Answers(side),
           HandleClientResponse(r)
    PROVE  ParticipantInv'
<1>1. CASE \E exec \in 1 .. orders[side].qty : Working(side) /\ r = Filled(side, exec)
  BY <1>1, FillKeepsInv
<1>2. CASE /\ r.side = side /\ r.type # "FILLED"
           /\ r.type # "CANCEL_REJECTED" => Working(side)
           /\ r.type \in {"ACCEPTED", "CANCELED", "REJECTED", "CANCEL_REJECTED"}
  <2>1. position' = position /\ nextOrderId' = nextOrderId
    BY <1>2 DEF HandleClientResponse
  <2>2. fault' = FALSE /\ fault = FALSE
    BY <1>2 DEF HandleClientResponse, ParticipantInv, NoDisagreement, TypeOK
  <2>3. orders' = OnOrderUpdate(r)
    BY <2>2 DEF HandleClientResponse
  <2>4. CASE orders[side].id # r.id
    BY <1>2, <2>1, <2>2, <2>3, <2>4, StutterKeepsInv DEF OnOrderUpdate, vars
  <2>5. CASE orders[side].id = r.id
    <3> DEFINE state == IF r.type = "ACCEPTED" THEN "LIVE"
                        ELSE IF r.type \in {"CANCELED", "REJECTED"} THEN "DEAD"
                        ELSE IF orders[side].state = "PENDING_CANCEL" THEN "LIVE"
                        ELSE orders[side].state
    <3>1. orders' = [orders EXCEPT ![side] = [orders[side] EXCEPT !.state = state]]
      BY <1>2, <2>3, <2>5 DEF OnOrderUpdate, Updated
    <3>2. /\ state \in OrderStates
          /\ state \in {"PENDING_NEW", "LIVE", "PENDING_CANCEL"} => Working(side)
      BY <1>2, SlotTypes DEF ParticipantInv, OrderStates, Working
    <3> HIDE DEF state
    <3>3. orders' = [orders EXCEPT ![side].state = state]
      BY <3>1
    <3>4. QED
      BY <2>1, <2>2, <3>2, <3>3, StateChangeKeepsInv
  <2>6. QED
    BY <2>4, <2>5
<1>3. QED
  BY <1>1, <1>2 DEF Answers, Response, Filled

\* Every step keeps the invariant.
LEMMA NextInv == ParticipantInv /\ [Next]_vars => ParticipantInv'
<1> SUFFICES ASSUME ParticipantInv, [Next]_vars PROVE ParticipantInv'
  OBVIOUS
<1>1. ASSUME NEW side \in Sides, NEW price \in Prices, NEW lossBreached \in BOOLEAN,
             OpenDecision(side, price, lossBreached)
      PROVE  ParticipantInv'
  BY <1>1, OpenKeepsInv
<1>2. ASSUME NEW price \in Prices, NEW lossBreached \in BOOLEAN,
             CloseDecision(price, lossBreached)
      PROVE  ParticipantInv'
  BY <1>2, CloseKeepsInv
<1>3. ASSUME NEW side \in Sides, NEW r \in Answers(side), HandleClientResponse(r)
      PROVE  ParticipantInv'
  BY <1>3, ResponseKeepsInv
<1>4. CASE UNCHANGED vars
  BY <1>4, StutterKeepsInv
<1>5. QED
  BY <1>1, <1>2, <1>3, <1>4 DEF Next, Decide, HandleJevDecision, ReceiveResponse

\* The inductive invariant holds in every reachable state.
THEOREM ParticipantInvariant == Spec => []ParticipantInv
BY InitInv, NextInv, PTL DEF Spec

\* Type correctness.
THEOREM TypeCorrect == Spec => []TypeOK
<1>1. ParticipantInv => TypeOK
  BY DEF ParticipantInv
<1>2. QED
  BY <1>1, ParticipantInvariant, PTL

\* The holding never passes the limit, nor would it if everything that works
\* executed.
THEOREM LimitHolds == Spec => []ExposureWithinLimit
<1>1. ParticipantInv => ExposureWithinLimit
  BY DEF ParticipantInv
<1>2. QED
  BY <1>1, ParticipantInvariant, PTL

\* Under the venue's constraints the position days, the holding and what works
\* agree.
THEOREM HoldingsHold == Spec => []HoldingsAgree
<1>1. ParticipantInv => HoldingsAgree
  BY DEF ParticipantInv
<1>2. QED
  BY <1>1, ParticipantInvariant, PTL

\* No execution ends the process in the disagreement check.
THEOREM NeverDisagrees == Spec => []NoDisagreement
<1>1. ParticipantInv => NoDisagreement
  BY DEF ParticipantInv
<1>2. QED
  BY <1>1, ParticipantInvariant, PTL
-----------------------------------------------------------------------------
\* Under the venue's constraints an execution stops at flat.
LEMMA FillStopsAtFlat ==
    ASSUME ParticipantInv, SimexConstraints, NEW side \in Sides, Working(side),
           NEW exec \in 1 .. orders[side].qty,
           position' = OnFill(position, Filled(side, exec))
    PROVE  /\ ~ (position.net > 0 /\ position'.net < 0)
           /\ ~ (position.net < 0 /\ position'.net > 0)
<1>1. position'.net = position.net + Sign(side) * exec
  BY FillMovesPosition
<1>2. /\ position.net \in Int /\ position.today \in Nat /\ position.yesterday \in Nat
      /\ orders[side].qty \in Nat /\ exec \in Nat /\ exec <= orders[side].qty
  BY SlotTypes, PositionTypes DEF ParticipantInv
<1>3. \/ Sign(side) * position.net >= 0
      \/ Sign(side) * position.net < 0 /\ exec <= Magnitude(position.net)
  BY <1>2 DEF ParticipantInv, HoldingsAgree, CloseableQty
<1>4. CASE side = "BUY"
  BY <1>1, <1>2, <1>3, <1>4 DEF Sign, Magnitude
<1>5. CASE side = "SELL"
  BY <1>1, <1>2, <1>3, <1>5 DEF Sign, Magnitude
<1>6. QED
  BY <1>4, <1>5 DEF Sides

\* No step reverses a holding under the venue's constraints.
THEOREM HoldingNeverReverses == Spec => NoReversal
<1> DEFINE Kept == SimexConstraints => /\ ~ (position.net > 0 /\ position'.net < 0)
                                       /\ ~ (position.net < 0 /\ position'.net > 0)
<1>1. ParticipantInv /\ [Next]_vars => [Kept]_vars
  <2> SUFFICES ASSUME ParticipantInv, Next, SimexConstraints
               PROVE  /\ ~ (position.net > 0 /\ position'.net < 0)
                      /\ ~ (position.net < 0 /\ position'.net > 0)
    OBVIOUS
  <2>1. CASE position' = position
    BY <2>1, PositionTypes DEF ParticipantInv
  <2>2. ASSUME NEW side \in Sides, NEW r \in Answers(side), HandleClientResponse(r),
               position' # position
        PROVE  \E exec \in 1 .. orders[side].qty : Working(side) /\ r = Filled(side, exec)
    BY <2>2 DEF Answers, Response, Filled, HandleClientResponse
  <2>3. ASSUME NEW side \in Sides, NEW r \in Answers(side), HandleClientResponse(r),
               position' # position
        PROVE  /\ ~ (position.net > 0 /\ position'.net < 0)
               /\ ~ (position.net < 0 /\ position'.net > 0)
    <3>1. PICK exec \in 1 .. orders[side].qty : Working(side) /\ r = Filled(side, exec)
      BY <2>2, <2>3
    <3>2. position' = OnFill(position, Filled(side, exec))
      BY <2>3, <3>1 DEF HandleClientResponse, Filled, Response
    <3>3. QED
      BY <3>1, <3>2, FillStopsAtFlat
  <2>4. CASE Decide
    BY <2>1, <2>4 DEF Decide, HandleJevDecision, OpenDecision, CloseDecision
  <2>5. QED
    BY <2>1, <2>3, <2>4 DEF Next, ReceiveResponse
<1>2. QED
  BY <1>1, ParticipantInvariant, PTL DEF Spec, NoReversal

\* An order keeps its slot as long as it may execute.
THEOREM SlotsAreHeld == Spec => SlotHeldUntilDone
<1> DEFINE Held == \A side \in Sides : Working(side) => orders'[side].id = orders[side].id
<1>1. ParticipantInv /\ [Next]_vars => [Held]_vars
  <2> SUFFICES ASSUME ParticipantInv, Next, NEW s \in Sides, Working(s)
               PROVE  orders'[s].id = orders[s].id
    OBVIOUS
  <2>1. ASSUME NEW side \in Sides, CancelOrder(side) PROVE orders'[s].id = orders[s].id
    BY <2>1 DEF CancelOrder, ParticipantInv, TypeOK
  <2>2. ASSUME NEW side \in Sides, NEW price, NEW qty, NEW offset, NEW lossBreached,
               orders[side].state \in {"INVALID", "DEAD"},
               NewOrder(side, price, qty, offset, lossBreached)
        PROVE  orders'[s].id = orders[s].id
    BY <2>2 DEF NewOrder, ParticipantInv, TypeOK, Working
  <2>3. ASSUME NEW side \in Sides, NEW price, NEW qty, NEW offset, NEW lossBreached,
               MoveOrder(side, price, qty, offset, lossBreached)
        PROVE  orders'[s].id = orders[s].id
    BY <2>1, <2>2, <2>3 DEF MoveOrder
  <2>4. CASE Decide
    <3>1. ASSUME NEW price, NEW lossBreached, CloseDecision(price, lossBreached)
          PROVE  orders'[s].id = orders[s].id
      <4> DEFINE side == IF position.net > 0 THEN "SELL" ELSE "BUY"
      <4>1. side \in Sides
        BY DEF Sides
      <4>2. \E qty, offset : MoveOrder(side, price, qty, offset, lossBreached)
        BY <3>1 DEF CloseDecision, MoveCloseOrder
      <4> HIDE DEF side
      <4>3. QED
        BY <2>3, <4>1, <4>2
    <3>2. QED
      BY <2>3, <2>4, <3>1 DEF Decide, HandleJevDecision, OpenDecision
  <2>5. ASSUME NEW side \in Sides, NEW r \in Answers(side), HandleClientResponse(r)
        PROVE  orders'[s].id = orders[s].id
    <3>1. orders' = orders \/ orders' = [orders EXCEPT ![r.side] = Updated(@, r)]
      BY <2>5 DEF HandleClientResponse, OnOrderUpdate
    <3>2. CASE orders' = [orders EXCEPT ![r.side] = Updated(@, r)]
      BY <3>2 DEF Updated, ParticipantInv, TypeOK
    <3>3. QED
      BY <3>1, <3>2
  <2>6. QED
    BY <2>4, <2>5 DEF Next, ReceiveResponse
<1>2. QED
  BY <1>1, ParticipantInvariant, PTL DEF Spec, SlotHeldUntilDone
=============================================================================
