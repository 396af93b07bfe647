---------------------------- MODULE Participant ----------------------------
(***************************************************************************)
(* The trading participant: what TradeEngine does with a fresh decision    *)
(* and with a response, through OrderManager, RiskManager and              *)
(* PositionKeeper, for one ticker.                                         *)
(*                                                                         *)
(* The engine holds at most one order per side.  It decides on its own     *)
(* view of the market and of its orders, which lags behind the venue: the  *)
(* venue's side is here only the contract Answers, the responses that may  *)
(* reach the engine next.  SimexOrderPath shows a real path that keeps it. *)
(*                                                                         *)
(* Which decisions are fresh is the business of the evaluation pipeline:   *)
(* here any decision may come at any time.  A decision the handler drops   *)
(* changes nothing and is a stuttering step.                               *)
(***************************************************************************)
EXTENDS Integers, FiniteSets

CONSTANTS Prices,            \* best quotes the book may show
          PriceInvalid,      \* Price_INVALID, the price of an unused slot
          OrderQty,          \* decision_order_quantity_
          MaxOrderSize,      \* limits_.max_order_size_
          MaxPosition,       \* limits_.max_position_
          QtyInvalid,        \* Qty_INVALID: as a limit, no limit
          SimexConstraints,  \* simex_constraints_
          SingleOrderVenue,  \* single_order_venue_
          MaxOrders          \* bound of the model: order ids given out

ASSUME ParticipantAssumption ==
    /\ OrderQty \in Nat
    /\ MaxOrderSize \in Nat
    /\ MaxPosition \in Nat
    /\ QtyInvalid \in Nat
    /\ SimexConstraints \in BOOLEAN
    /\ SingleOrderVenue \in BOOLEAN
    /\ SingleOrderVenue => SimexConstraints    \* enableSingleOrderVenue()

VARIABLES orders,        \* the order slot of each side (OrderManager::orders_)
          nextOrderId,   \* OrderManager::next_order_id_
          position,      \* Position of the ticker, without its amounts
          fault          \* handleClientResponse threw: the process ends

vars == <<orders, nextOrderId, position, fault>>

Sides == {"BUY", "SELL"}
Offsets == {"INVALID", "OPEN", "CLOSE_TODAY", "CLOSE_YESTERDAY"}
OrderStates == {"INVALID", "PENDING_NEW", "LIVE", "PENDING_CANCEL", "DEAD"}

Sign(side) == IF side = "BUY" THEN 1 ELSE -1
Opposite(side) == IF side = "BUY" THEN "SELL" ELSE "BUY"
Magnitude(n) == IF n < 0 THEN -n ELSE n
Smaller(m, n) == IF m < n THEN m ELSE n

\* A slot never used; 0 stands for OrderId_INVALID.
NoOrder == [id |-> 0, price |-> PriceInvalid, qty |-> QtyInvalid,
            offset |-> "INVALID", state |-> "INVALID"]

Working(side) == orders[side].state \in {"PENDING_NEW", "LIVE", "PENDING_CANCEL"}

Init ==
    /\ orders = [side \in Sides |-> NoOrder]
    /\ nextOrderId = 1
    /\ position = [net |-> 0, today |-> 0, yesterday |-> 0]
    /\ fault = FALSE
-----------------------------------------------------------------------------
(***************************************************************************)
(* RiskManager and the allocation of a close to a position day.            *)
(***************************************************************************)

\* Position::closeableQty
CloseableQty(offset) ==
    IF offset = "CLOSE_TODAY" THEN position.today
    ELSE IF offset = "CLOSE_YESTERDAY" THEN position.yesterday ELSE 0

\* Position::closeOffsetFor: yesterday's holding goes first.
CloseOffset(qty) ==
    IF qty = 0 THEN "INVALID"
    ELSE IF position.yesterday > 0 THEN "CLOSE_YESTERDAY"
    ELSE IF position.today > 0 THEN "CLOSE_TODAY" ELSE "INVALID"

\* Wrong on purpose: the limit is tested on the holding before the order.
RiskAllows_CurrentPosition(side, offset, qty, lossBreached) ==
    /\ qty \notin {0, QtyInvalid}
    /\ MaxOrderSize # QtyInvalid => qty <= MaxOrderSize
    /\ IF offset = "OPEN"
       THEN MaxPosition # QtyInvalid => Magnitude(position.net) <= MaxPosition
       ELSE qty <= CloseableQty(offset)
    /\ ~ lossBreached

\* Wrong on purpose: an opening order of any sign is tested as a purchase.
RiskAllows_Unsigned(side, offset, qty, lossBreached) ==
    /\ qty \notin {0, QtyInvalid}
    /\ MaxOrderSize # QtyInvalid => qty <= MaxOrderSize
    /\ IF offset = "OPEN"
       THEN MaxPosition # QtyInvalid => Magnitude(position.net + qty) <= MaxPosition
       ELSE qty <= CloseableQty(offset)
    /\ ~ lossBreached

\* RiskManager::checkPreTradeRisk; whether the loss limit is breached depends
\* on prices and is left open.
RiskAllows(side, offset, qty, lossBreached) ==
    /\ qty \notin {0, QtyInvalid}
    /\ MaxOrderSize # QtyInvalid => qty <= MaxOrderSize
    /\ IF offset = "OPEN"
       THEN MaxPosition # QtyInvalid
                => Magnitude(position.net + Sign(side) * qty) <= MaxPosition
       ELSE qty <= CloseableQty(offset)
    /\ ~ lossBreached
-----------------------------------------------------------------------------
(***************************************************************************)
(* OrderManager: one order per side, replaced by cancel and new.           *)
(***************************************************************************)

\* newOrder: the request leaves, the slot is taken over.
NewOrder(side, price, qty, offset, lossBreached) ==
    /\ RiskAllows(side, offset, qty, lossBreached)
    /\ nextOrderId <= MaxOrders
    /\ orders' = [orders EXCEPT ![side] =
                     [id |-> nextOrderId, price |-> price, qty |-> qty,
                      offset |-> offset, state |-> "PENDING_NEW"]]
    /\ nextOrderId' = nextOrderId + 1

\* cancelOrder: the cancel request leaves, the order stays in its slot.
CancelOrder(side) ==
    /\ orders' = [orders EXCEPT ![side].state = "PENDING_CANCEL"]
    /\ UNCHANGED nextOrderId

\* moveOrder: cancel a live order that differs, fill a free slot, else wait.
MoveOrder(side, price, qty, offset, lossBreached) ==
    \/ /\ orders[side].state = "LIVE"
       /\ <<orders[side].price, orders[side].qty, orders[side].offset>> # <<price, qty, offset>>
       /\ CancelOrder(side)
    \/ /\ orders[side].state \in {"INVALID", "DEAD"}
       /\ NewOrder(side, price, qty, offset, lossBreached)

\* Wrong on purpose: the requested quantity is not cut to what is held, and the
\* risk check of the close is left out.
MoveCloseOrder_Uncapped(side, price, lossBreached) ==
    LET offset == CloseOffset(OrderQty)
    IN  /\ offset # "INVALID"
        /\ orders[side].state \in {"INVALID", "DEAD"}
        /\ nextOrderId <= MaxOrders
        /\ orders' = [orders EXCEPT ![side] =
                         [id |-> nextOrderId, price |-> price, qty |-> OrderQty,
                          offset |-> offset, state |-> "PENDING_NEW"]]
        /\ nextOrderId' = nextOrderId + 1

\* moveCloseOrder: a close takes one position day and at most what it holds.
MoveCloseOrder(side, price, lossBreached) ==
    LET offset == CloseOffset(OrderQty)
        qty == Smaller(OrderQty, CloseableQty(offset))
    IN  /\ offset # "INVALID"
        /\ RiskAllows(side, offset, qty, lossBreached)
        /\ MoveOrder(side, price, qty, offset, lossBreached)
-----------------------------------------------------------------------------
(***************************************************************************)
(* TradeEngine::handleJevDecision, past the freshness checks.  The price   *)
(* is the best quote of the other side; features are valid only when both  *)
(* quotes are.                                                             *)
(***************************************************************************)

\* A single-order venue takes no decision while any order works.
VenueFree == SingleOrderVenue => \A side \in Sides : ~ Working(side)

\* Wrong on purpose: an order being cancelled no longer counts as outstanding.
OpeningBlocked_IgnoresPendingCancel(side) ==
    \/ Sign(side) * position.net < 0
    \/ /\ orders[Opposite(side)].state \in {"PENDING_NEW", "LIVE"}
       /\ orders[Opposite(side)].offset = "OPEN"

\* Wrong on purpose: only orders are looked at, not the holding.
OpeningBlocked_IgnoresHolding(side) ==
    /\ Working(Opposite(side))
    /\ orders[Opposite(side)].offset = "OPEN"

\* Under the venue's constraints an opening order may not face a holding or an
\* outstanding opening order of the other side.
OpeningBlocked(side) ==
    \/ Sign(side) * position.net < 0
    \/ /\ Working(Opposite(side))
       /\ orders[Opposite(side)].offset = "OPEN"

OpenDecision(side, price, lossBreached) ==
    /\ ~ fault
    /\ VenueFree
    /\ SingleOrderVenue => position.net = 0
    /\ SimexConstraints => ~ OpeningBlocked(side)
    /\ MoveOrder(side, price, OrderQty, "OPEN", lossBreached)
    /\ UNCHANGED <<position, fault>>

CloseDecision(price, lossBreached) ==
    /\ ~ fault
    /\ VenueFree
    /\ position.net # 0
    /\ MoveCloseOrder(IF position.net > 0 THEN "SELL" ELSE "BUY", price, lossBreached)
    /\ UNCHANGED <<position, fault>>

HandleJevDecision(price, lossBreached) ==
    \/ \E side \in Sides : OpenDecision(side, price, lossBreached)
    \/ CloseDecision(price, lossBreached)
-----------------------------------------------------------------------------
(***************************************************************************)
(* TradeEngine::handleClientResponse.                                      *)
(***************************************************************************)

\* Position::onFill: a close takes no more than the day still holds.
OnFill(p, r) ==
    LET closed == Smaller(r.exec, IF r.offset = "CLOSE_TODAY" THEN p.today ELSE p.yesterday)
    IN  IF r.offset = "OPEN"
        THEN [p EXCEPT !.net = @ + Sign(r.side) * r.exec, !.today = @ + r.exec]
        ELSE IF r.offset = "CLOSE_TODAY"
        THEN [p EXCEPT !.net = @ + Sign(r.side) * closed, !.today = @ - closed]
        ELSE [p EXCEPT !.net = @ + Sign(r.side) * closed, !.yesterday = @ - closed]

\* Wrong on purpose: an order with nothing left stays in its state.
Updated_KeepsFilledOrder(order, r) ==
    IF r.type = "FILLED"
    THEN [order EXCEPT !.qty = r.leaves]
    ELSE [order EXCEPT !.state =
             IF r.type = "ACCEPTED" THEN "LIVE"
             ELSE IF r.type \in {"CANCELED", "REJECTED"} THEN "DEAD"
             ELSE IF @ = "PENDING_CANCEL" THEN "LIVE" ELSE @]

\* Wrong on purpose: a cancellation is not among the cases.
Updated_IgnoresCanceled(order, r) ==
    IF r.type = "FILLED"
    THEN [order EXCEPT !.qty = r.leaves, !.state = IF r.leaves = 0 THEN "DEAD" ELSE @]
    ELSE [order EXCEPT !.state =
             IF r.type = "ACCEPTED" THEN "LIVE"
             ELSE IF r.type = "REJECTED" THEN "DEAD"
             ELSE IF r.type = "CANCEL_REJECTED" /\ @ = "PENDING_CANCEL" THEN "LIVE" ELSE @]

\* The order a slot holds after a response that names it.
Updated(order, r) ==
    IF r.type = "FILLED"
    THEN [order EXCEPT !.qty = r.leaves, !.state = IF r.leaves = 0 THEN "DEAD" ELSE @]
    ELSE [order EXCEPT !.state =
             IF r.type = "ACCEPTED" THEN "LIVE"
             ELSE IF r.type \in {"CANCELED", "REJECTED"} THEN "DEAD"
             ELSE IF @ = "PENDING_CANCEL" THEN "LIVE" ELSE @]

\* Wrong on purpose: a response changes the order in the slot whichever it names.
OnOrderUpdate_AnyOrder(r) == [orders EXCEPT ![r.side] = Updated(@, r)]

\* OrderManager::onOrderUpdate: a response to an older order changes nothing.
OnOrderUpdate(r) ==
    IF orders[r.side].id = r.id THEN [orders EXCEPT ![r.side] = Updated(@, r)] ELSE orders

\* The execution moved the holding as far as it said, and the days add up to it.
Agrees(p, r) ==
    LET expected == position.net + Sign(r.side) * r.exec
    IN  p.net = expected /\ p.today + p.yesterday = Magnitude(expected)

HandleClientResponse(r) ==
    /\ ~ fault
    /\ position' = IF r.type = "FILLED" THEN OnFill(position, r) ELSE position
    /\ fault' = (SimexConstraints /\ r.type = "FILLED" /\ ~ Agrees(position', r))
    /\ orders' = IF fault' THEN orders ELSE OnOrderUpdate(r)
    /\ UNCHANGED nextOrderId

Response(type, id, side, offset, exec, leaves) ==
    [type |-> type, id |-> id, side |-> side, offset |-> offset,
     exec |-> exec, leaves |-> leaves]

(***************************************************************************)
(* The venue's contract.  A working order may be accepted, executed up to  *)
(* what is left of it, cancelled or rejected; a cancel may be rejected     *)
(* long after its order was replaced.  Quantities matter on executions     *)
(* only and are 0 on every other response.                                 *)
(***************************************************************************)
Answers(side) ==
    {Response("CANCEL_REJECTED", id, side, "OPEN", 0, 0) : id \in 1 .. nextOrderId - 1}
    \cup IF Working(side)
         THEN LET o == orders[side]
              IN  {Response(type, o.id, side, o.offset, 0, 0) :
                       type \in {"ACCEPTED", "CANCELED", "REJECTED"}}
                  \cup {Response("FILLED", o.id, side, o.offset, exec, o.qty - exec) :
                            exec \in 1 .. o.qty}
         ELSE {}

ReceiveResponse == \E side \in Sides : \E r \in Answers(side) : HandleClientResponse(r)
-----------------------------------------------------------------------------
Decide == \E price \in Prices, lossBreached \in BOOLEAN : HandleJevDecision(price, lossBreached)

Next == Decide \/ ReceiveResponse

Spec == Init /\ [][Next]_vars
-----------------------------------------------------------------------------
(***************************************************************************)
(* Properties.                                                             *)
(***************************************************************************)

\* The types of the variables; what works has an order id and something left.
TypeOK ==
    /\ orders \in [Sides -> [id : Nat, price : Prices \cup {PriceInvalid}, qty : Nat,
                             offset : Offsets, state : OrderStates]]
    /\ nextOrderId \in Nat \ {0}
    /\ position \in [net : Int, today : Nat, yesterday : Nat]
    /\ fault \in BOOLEAN
    /\ \A side \in Sides : /\ orders[side].id < nextOrderId
                           /\ Working(side) => /\ orders[side].qty > 0
                                               /\ orders[side].offset # "INVALID"

\* The holding, and the holding after everything that works on a side executes,
\* stay within the limit, although each order was checked against a holding
\* that other fills have changed since.
ExposureWithinLimit ==
    MaxPosition # QtyInvalid =>
        /\ Magnitude(position.net) <= MaxPosition
        /\ Working("BUY") => position.net + orders["BUY"].qty <= MaxPosition
        /\ Working("SELL") => position.net - orders["SELL"].qty >= -MaxPosition

\* No order larger than the limit was ever let through, also not to close.
OrderWithinLimit ==
    /\ MaxPosition # QtyInvalid
    /\ position.net # 0 \/ \E side \in Sides : Working(side)
    => OrderQty <= MaxPosition

\* Under the venue's constraints the two position days always add up to the
\* holding, openings only ever extend it and closings never exceed the day
\* they close: no execution can turn a long holding into a short one.
HoldingsAgree ==
    SimexConstraints =>
        /\ position.today + position.yesterday = Magnitude(position.net)
        /\ \A side \in Sides :
               Working(side) =>
                   IF orders[side].offset = "OPEN"
                   THEN /\ Sign(side) * position.net >= 0
                        /\ ~ (Working(Opposite(side)) /\ orders[Opposite(side)].offset = "OPEN")
                   ELSE /\ Sign(side) * position.net < 0
                        /\ orders[side].qty <= CloseableQty(orders[side].offset)

\* handleClientResponse never finds that the venue's execution and the
\* participant's holding disagree.
NoDisagreement == ~ fault

\* The inductive invariant.
ParticipantInv ==
    TypeOK /\ ExposureWithinLimit /\ OrderWithinLimit /\ HoldingsAgree /\ NoDisagreement

\* Under the venue's constraints no step turns a long holding into a short one
\* or back: it has to go through flat.
NoReversal ==
    [][SimexConstraints => ~ (position.net > 0 /\ position'.net < 0)
                           /\ ~ (position.net < 0 /\ position'.net > 0)]_vars

\* A slot is never taken over while the order in it may still execute.
SlotHeldUntilDone ==
    [][\A side \in Sides : Working(side) => orders'[side].id = orders[side].id]_vars
=============================================================================
