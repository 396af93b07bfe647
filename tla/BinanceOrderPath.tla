-------------------------- MODULE BinanceOrderPath --------------------------
(***************************************************************************)
(* The path of an order in Binance mode: the engine thread (Participant),  *)
(* the two queues between it and the order gateway, the gateway thread     *)
(* with the order side of BinanceUmFuturesVenueAdapter, and the exchange.  *)
(*                                                                         *)
(* The gateway thread sends one REST request at a time and waits for its   *)
(* answer; what happens to the orders meanwhile arrives on the user stream *)
(* and waits in user_events_ until the thread is free again.  A REST call  *)
(* may time out, whether the exchange took the request or not.             *)
(***************************************************************************)
EXTENDS Integers, Sequences, FiniteSets

CONSTANTS Prices, PriceInvalid, OrderQty, MaxOrderSize, MaxPosition, QtyInvalid,
          SimexConstraints, SingleOrderVenue, MaxOrders,
          RequestCapacity,   \* elements of the client_requests queue
          ResponseCapacity,  \* elements of the client_responses queue
          EventCapacity,     \* elements of user_events_
          MaxTimeouts        \* bound of the model: calls that time out

ASSUME BinancePathAssumption ==
    /\ ~ SimexConstraints /\ ~ SingleOrderVenue    \* main() sets neither in this mode
    /\ OrderQty \in Nat /\ MaxOrderSize \in Nat /\ MaxPosition \in Nat /\ QtyInvalid \in Nat
    /\ MaxOrders \in Nat /\ MaxTimeouts \in Nat
    /\ RequestCapacity \in Nat /\ ResponseCapacity \in Nat /\ EventCapacity \in Nat

VARIABLES orders, nextOrderId, position, fault,   \* the engine: see Participant
          requests,     \* client_requests; the head is the one being handled
          responses,    \* client_responses
          calling,      \* the gateway thread waits for the answer to the head
          answer,       \* that answer: "none", "ok" or "error"
          live,         \* live_orders_
          cumulative,   \* cumulative_exec_qty_
          userEvents,   \* user_events_, filled by the stream's thread
          wire,         \* requests sent that the exchange has not taken
          exchange,     \* the orders the exchange took
          lost,         \* the new orders whose answer did not come in time
          timeouts,     \* calls that timed out so far
          terminated    \* std::terminate was called

engineVars == <<orders, nextOrderId, position, fault>>
callVars == <<calling, answer>>
adapterVars == <<live, cumulative>>
exchangeVars == <<wire, exchange>>
lossVars == <<lost, timeouts>>
vars == <<engineVars, requests, responses, callVars, adapterVars, userEvents,
          exchangeVars, lossVars, terminated>>

Engine == INSTANCE Participant

Ids == 1 .. MaxOrders

Init ==
    /\ Engine!Init
    /\ requests = << >>
    /\ responses = << >>
    /\ calling = FALSE
    /\ answer = "none"
    /\ live = << >>
    /\ cumulative = [id \in Ids |-> 0]
    /\ userEvents = << >>
    /\ wire = {}
    /\ exchange = << >>
    /\ lost = {}
    /\ timeouts = 0
    /\ terminated = FALSE

Sign(side) == Engine!Sign(side)
Response(type, o, exec, leaves) == Engine!Response(type, o.id, o.side, o.offset, exec, leaves)

With(f, id, value) == [i \in DOMAIN f \cup {id} |-> IF i = id THEN value ELSE f[i]]
Without(f, id) == [i \in DOMAIN f \ {id} |-> f[i]]
-----------------------------------------------------------------------------
(***************************************************************************)
(* The engine thread.                                                      *)
(***************************************************************************)

\* The request the order manager sends for a slot it has just changed.
RequestFor(side) ==
    LET o == orders'[side]
    IN  [type |-> IF o.state = "PENDING_NEW" THEN "NEW" ELSE "CANCEL",
         id |-> o.id, side |-> side, offset |-> o.offset, qty |-> o.qty]

EngineDecides ==
    /\ ~ terminated
    /\ Engine!Decide
    /\ \E side \in Engine!Sides : /\ orders'[side] # orders[side]
                                  /\ requests' = Append(requests, RequestFor(side))
    /\ terminated' = (Len(requests) >= RequestCapacity)
    /\ UNCHANGED <<responses, callVars, adapterVars, userEvents, exchangeVars, lossVars>>

EngineReceives ==
    /\ ~ terminated
    /\ responses # << >>
    /\ Engine!HandleClientResponse(Head(responses))
    /\ responses' = Tail(responses)
    /\ terminated' = fault'
    /\ UNCHANGED <<requests, callVars, adapterVars, userEvents, exchangeVars, lossVars>>
-----------------------------------------------------------------------------
(***************************************************************************)
(* The gateway thread: REST calls.                                         *)
(***************************************************************************)

\* OrderGateway::publishClientResponse: a full queue ends the process.
PublishClientResponse(response) ==
    /\ responses' = Append(responses, response)
    /\ terminated' = (Len(responses) >= ResponseCapacity)

\* handleRequest, up to the answer of the exchange.
GatewaySends ==
    /\ ~ terminated
    /\ ~ calling
    /\ requests # << >>
    /\ calling' = TRUE
    /\ wire' = wire \cup {Head(requests)}
    /\ UNCHANGED <<engineVars, requests, responses, answer, adapterVars, userEvents,
                   exchange, lossVars, terminated>>

\* The thread is free again; the request leaves the queue.
CallReturns ==
    /\ calling' = FALSE
    /\ answer' = "none"
    /\ requests' = Tail(requests)
    /\ UNCHANGED <<engineVars, cumulative, userEvents, exchangeVars>>

\* Wrong on purpose: a cancel that failed is reported as done.
PublishRejected_ConfirmsCancel(request) ==
    PublishClientResponse(Response(IF request.type = "CANCEL" THEN "CANCELED" ELSE "REJECTED",
                                   request, 0, request.qty))

\* Wrong on purpose: a cancel that failed is not reported.
PublishRejected_NewOnly(request) ==
    IF request.type = "CANCEL" THEN UNCHANGED <<responses, terminated>>
    ELSE PublishClientResponse(Response("REJECTED", request, 0, request.qty))

PublishRejected(request) ==
    PublishClientResponse(Response(IF request.type = "CANCEL" THEN "CANCEL_REJECTED"
                                   ELSE "REJECTED", request, 0, request.qty))

\* Wrong on purpose: the answer to a cancel is reported as one to a new order.
CallSucceeds_AlwaysAccepted ==
    LET request == Head(requests)
    IN  /\ answer = "ok"
        /\ PublishClientResponse(Response("ACCEPTED", request, 0, request.qty))
        /\ live' = IF request.type = "NEW" THEN With(live, request.id, request) ELSE live
        /\ CallReturns /\ UNCHANGED lossVars

\* The order that was cancelled stays among the live ones.
CallSucceeds ==
    LET request == Head(requests)
    IN  /\ answer = "ok"
        /\ PublishClientResponse(Response(IF request.type = "CANCEL" THEN "CANCELED"
                                          ELSE "ACCEPTED", request, 0, request.qty))
        /\ live' = IF request.type = "NEW" THEN With(live, request.id, request) ELSE live
        /\ CallReturns /\ UNCHANGED lossVars

CallFails ==
    /\ answer = "error"
    /\ PublishRejected(Head(requests))
    /\ CallReturns /\ UNCHANGED <<live, lossVars>>

\* No answer in time, which does not tell whether the exchange took the request.
CallTimesOut ==
    /\ calling
    /\ timeouts < MaxTimeouts
    /\ timeouts' = timeouts + 1
    /\ PublishRejected(Head(requests))
    /\ lost' = IF Head(requests).type = "NEW" THEN lost \cup {Head(requests).id} ELSE lost
    /\ CallReturns /\ UNCHANGED live

GatewayReturns == ~ terminated /\ (CallSucceeds \/ CallFails \/ CallTimesOut)
-----------------------------------------------------------------------------
(***************************************************************************)
(* The gateway thread: the user stream.                                    *)
(***************************************************************************)
MapOrderStatus(status) ==
    IF status = "FILLED" THEN "FILLED"
    ELSE IF status \in {"CANCELED", "EXPIRED"} THEN "CANCELED" ELSE "ACCEPTED"

\* Wrong on purpose: an execution is reported with what it added.
HandleUserEvent_Increment(e) ==
    IF e.id \notin DOMAIN live \/ e.executed <= cumulative[e.id]
    THEN UNCHANGED <<live, cumulative, responses, terminated>>
    ELSE LET type == MapOrderStatus(e.status)
             order == live[e.id]
         IN  /\ cumulative' = [cumulative EXCEPT ![e.id] = e.executed]
             /\ PublishClientResponse(Response(type, order, e.executed - cumulative[e.id],
                                               order.qty - e.executed))
             /\ live' = IF type \in {"FILLED", "CANCELED"} THEN Without(live, e.id) ELSE live

\* handleUserEvent: only an event of a live order that brings a new execution is
\* reported, with all that was executed so far; a finished order is forgotten.
HandleUserEvent(e) ==
    IF e.id \notin DOMAIN live \/ e.executed <= cumulative[e.id]
    THEN UNCHANGED <<live, cumulative, responses, terminated>>
    ELSE LET type == MapOrderStatus(e.status)
             order == live[e.id]
         IN  /\ cumulative' = [cumulative EXCEPT ![e.id] = e.executed]
             /\ PublishClientResponse(Response(type, order, e.executed, order.qty - e.executed))
             /\ live' = IF type \in {"FILLED", "CANCELED"} THEN Without(live, e.id) ELSE live

GatewayReadsEvent ==
    /\ ~ terminated
    /\ ~ calling
    /\ userEvents # << >>
    /\ HandleUserEvent(Head(userEvents))
    /\ userEvents' = Tail(userEvents)
    /\ UNCHANGED <<engineVars, requests, callVars, exchangeVars, lossVars>>

-----------------------------------------------------------------------------
(***************************************************************************)
(* The exchange, as the adapter uses it: it takes requests, answers the    *)
(* call if it still waits, executes and expires what works, and reports    *)
(* every execution and every end of an order on the user stream, in order. *)
(***************************************************************************)
Answered(r, outcome) == answer' = IF calling /\ r = Head(requests) THEN outcome ELSE answer

\* The stream's thread queues an event; a full queue ends the process.
Report(id, status, executed) ==
    /\ userEvents' = Append(userEvents, [id |-> id, status |-> status, executed |-> executed])
    /\ terminated' = (Len(userEvents) >= EventCapacity)

AtWork(id) == id \in DOMAIN exchange /\ exchange[id].status = "WORKING"

\* That the order is new is reported too: no execution, which the adapter drops.
TakeNew(r) ==
    /\ r.type = "NEW"
    /\ exchange' = With(exchange, r.id, [side |-> r.side, qty |-> r.qty, executed |-> 0,
                                         status |-> "WORKING"])
    /\ Answered(r, "ok")
    /\ UNCHANGED <<userEvents, terminated>>

TakeCancel(r) ==
    /\ r.type = "CANCEL"
    /\ AtWork(r.id)
    /\ exchange' = [exchange EXCEPT ![r.id].status = "CANCELED"]
    /\ Answered(r, "ok")
    /\ Report(r.id, "CANCELED", exchange[r.id].executed)

\* An order that does not suit the account; a cancel of an order that is over.
Refuse(r) ==
    /\ r.type = "CANCEL" => ~ AtWork(r.id)
    /\ Answered(r, "error")
    /\ UNCHANGED <<exchange, userEvents, terminated>>

ExchangeTakes ==
    /\ ~ terminated
    /\ \E r \in wire : /\ TakeNew(r) \/ TakeCancel(r) \/ Refuse(r)
                       /\ wire' = wire \ {r}
    /\ UNCHANGED <<engineVars, requests, responses, calling, adapterVars, lossVars>>

ExchangeExecutes ==
    /\ ~ terminated
    /\ \E id \in DOMAIN exchange :
          /\ AtWork(id)
          /\ \E executed \in exchange[id].executed + 1 .. exchange[id].qty :
                LET full == executed = exchange[id].qty
                IN  /\ exchange' = [exchange EXCEPT ![id].executed = executed,
                                                    ![id].status = IF full THEN "FILLED" ELSE @]
                    /\ Report(id, IF full THEN "FILLED" ELSE "PARTIALLY_FILLED", executed)
    /\ UNCHANGED <<engineVars, requests, responses, callVars, adapterVars, wire, lossVars>>

\* The exchange itself ends an order, for one that would trade with another of
\* the same account.
ExchangeExpires ==
    /\ ~ terminated
    /\ \E id \in DOMAIN exchange :
          /\ AtWork(id)
          /\ exchange' = [exchange EXCEPT ![id].status = "EXPIRED"]
          /\ Report(id, "EXPIRED", exchange[id].executed)
    /\ UNCHANGED <<engineVars, requests, responses, callVars, adapterVars, wire, lossVars>>
-----------------------------------------------------------------------------
Next ==
    \/ EngineDecides \/ EngineReceives
    \/ GatewaySends \/ GatewayReturns \/ GatewayReadsEvent
    \/ ExchangeTakes \/ ExchangeExecutes \/ ExchangeExpires

\* Both threads poll their queues in a loop, and a REST call returns: at its timeout,
\* or, the model's timeouts being bounded, because the exchange takes what it is sent.
Fairness ==
    /\ WF_vars(EngineReceives)
    /\ WF_vars(GatewaySends)
    /\ WF_vars(GatewayReturns)
    /\ WF_vars(GatewayReadsEvent)
    /\ WF_vars(ExchangeTakes)

Spec == Init /\ [][Next]_vars /\ Fairness
-----------------------------------------------------------------------------
(***************************************************************************)
(* Properties.                                                             *)
(***************************************************************************)
\* The report that the order was executed to the end is on its way to the engine.
FillUnderWay(id) ==
    \/ \E i \in DOMAIN userEvents : userEvents[i].id = id /\ userEvents[i].status = "FILLED"
    \/ \E i \in DOMAIN responses : responses[i].id = id /\ responses[i].type = "FILLED"

\* What is executed of an order, as a holding.
Executed(id) == Sign(exchange[id].side) * exchange[id].executed

\* The sum of an amount for each order.
Total(amounts) ==
    LET upTo[n \in 0 .. MaxOrders] == IF n = 0 THEN 0 ELSE upTo[n - 1] + amounts[n]
    IN  upTo[MaxOrders]

\* What is executed of these orders.
Holding(ids) == Total([id \in Ids |-> IF id \in ids THEN Executed(id) ELSE 0])

\* The engine's position is what the orders executed to the end amount to, less
\* those whose last report is still on its way: each is booked once and whole,
\* whatever was reported of it before, except orders whose answer was lost.
FillsReconcile ==
    position.net = Holding({id \in DOMAIN exchange \ lost :
                               exchange[id].status = "FILLED" /\ ~ FillUnderWay(id)})

\* The account itself stays within the limit, executions the engine has not heard
\* of included.  Two kinds of executions escape it: those of an order whose answer
\* was lost, and the part executed of an order that was then cancelled or expired.
AccountWithinLimit ==
    Engine!Magnitude(Holding({id \in DOMAIN exchange \ lost :
                                 exchange[id].status \in {"WORKING", "FILLED"}})) <= MaxPosition

\* An order that works at the exchange is in the slot of its side and counts as
\* working there, unless its answer was lost: the engine never replaces an order
\* that may still execute.
NothingRestsUnseen ==
    \A id \in DOMAIN exchange \ lost :
        AtWork(id) => /\ orders[exchange[id].side].id = id
                      /\ Engine!Working(exchange[id].side)

\* What the engine counts as live the exchange has taken.  A report about an order
\* that was replaced may come after its successor was sent; it is never taken for
\* the acceptance of the successor.
LiveWasTaken ==
    \A side \in Engine!Sides :
        orders[side].state \in {"LIVE", "PENDING_CANCEL"} => orders[side].id \in DOMAIN exchange

\* A report of a partial execution that is read after the answer to the cancel makes
\* a dead order live again.  This takes an execution: an order cancelled untouched
\* is not counted as live any more, unless a call timed out.
RevivedOnlyIfExecuted ==
    \A side \in Engine!Sides :
        LET o == orders[side]
        IN  /\ o.state = "LIVE" /\ o.id \in DOMAIN exchange
            /\ exchange[o.id].status = "CANCELED"
            => exchange[o.id].executed > 0 \/ timeouts > 0

\* Every order the engine waits for becomes live or finished, or the process ends.
SlotsResolve ==
    \A side \in Engine!Sides :
        orders[side].state \in {"PENDING_NEW", "PENDING_CANCEL"}
            ~> orders[side].state \in {"LIVE", "DEAD"} \/ terminated

\* An order that expired at the exchange does not stay in its slot as a working one.
ExpiredOrdersEnd ==
    \A id \in Ids :
        id \in DOMAIN exchange \ lost /\ exchange[id].status = "EXPIRED"
            ~> terminated \/ \A side \in Engine!Sides :
                                orders[side].id = id => ~ Engine!Working(side)
=============================================================================
