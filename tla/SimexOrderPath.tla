--------------------------- MODULE SimexOrderPath ---------------------------
(***************************************************************************)
(* The path of an order in simex mode: the engine thread (Participant),    *)
(* the two queues between it and the order gateway, the gateway thread     *)
(* with the order side of SimexVenueAdapter, and the venue behind its TCP  *)
(* connection.                                                             *)
(*                                                                         *)
(* Every party acts on its own view of an order: the engine on what the    *)
(* responses it has consumed say, the adapter on what it has sent and      *)
(* received, the venue on what rests in its book.  Decisions, requests,    *)
(* executions and answers cross each other in the queues.                  *)
(***************************************************************************)
EXTENDS Integers, Sequences, FiniteSets

CONSTANTS Prices, PriceInvalid, OrderQty, MaxOrderSize, MaxPosition, QtyInvalid,
          SimexConstraints, SingleOrderVenue, MaxOrders,
          RequestCapacity,   \* elements of the client_requests queue
          ResponseCapacity,  \* elements of the client_responses queue
          BufferCapacity     \* venue.buffer_capacity

ASSUME SimexPathAssumption ==
    /\ OrderQty \in Nat /\ MaxOrderSize \in Nat /\ MaxPosition \in Nat /\ QtyInvalid \in Nat
    /\ SimexConstraints
    /\ SingleOrderVenue \in BOOLEAN
    /\ RequestCapacity \in Nat /\ ResponseCapacity \in Nat /\ BufferCapacity \in Nat

VARIABLES orders, nextOrderId, position, fault,   \* the engine: see Participant
          requests,      \* client_requests, engine to gateway
          responses,     \* client_responses, gateway to engine
          metadata,      \* the adapter's orders map
          netPosition,   \* the adapter's net_position
          outgoing,      \* requests buffered and on the TCP stream to the venue
          incoming,      \* responses on the TCP stream from the venue
          resting,       \* what rests in the venue's book
          terminated     \* std::terminate was called

engineVars == <<orders, nextOrderId, position, fault>>
adapterVars == <<metadata, netPosition>>
vars == <<engineVars, requests, responses, adapterVars, outgoing, incoming, resting, terminated>>

Engine == INSTANCE Participant

Init ==
    /\ Engine!Init
    /\ requests = << >>
    /\ responses = << >>
    /\ metadata = << >>
    /\ netPosition = 0
    /\ outgoing = << >>
    /\ incoming = << >>
    /\ resting = << >>
    /\ terminated = FALSE

Sign(side) == Engine!Sign(side)
Response(type, o, exec, leaves) == Engine!Response(type, o.id, o.side, o.offset, exec, leaves)

\* Function f without the keys in ids.
Without(f, ids) == [id \in DOMAIN f \ ids |-> f[id]]
With(f, id, value) == [i \in DOMAIN f \cup {id} |-> IF i = id THEN value ELSE f[i]]
-----------------------------------------------------------------------------
(***************************************************************************)
(* The engine thread.                                                      *)
(***************************************************************************)

\* The request the order manager sends for a slot it has just changed.
RequestFor(side) ==
    LET o == orders'[side]
    IN  [type |-> IF o.state = "PENDING_NEW" THEN "NEW" ELSE "CANCEL",
         id |-> o.id, side |-> side, offset |-> o.offset, qty |-> o.qty]

\* TradeEngine::sendClientRequest: a full queue ends the process.
SendClientRequest(request) ==
    /\ requests' = Append(requests, request)
    /\ terminated' = (Len(requests) >= RequestCapacity)

EngineDecides ==
    /\ ~ terminated
    /\ Engine!Decide
    /\ \E side \in Engine!Sides : /\ orders'[side] # orders[side]
                                  /\ SendClientRequest(RequestFor(side))
    /\ UNCHANGED <<responses, adapterVars, outgoing, incoming, resting>>

EngineReceives ==
    /\ ~ terminated
    /\ responses # << >>
    /\ Engine!HandleClientResponse(Head(responses))
    /\ responses' = Tail(responses)
    /\ terminated' = fault'
    /\ UNCHANGED <<requests, adapterVars, outgoing, incoming, resting>>
-----------------------------------------------------------------------------
(***************************************************************************)
(* The gateway thread: requests of the engine.                             *)
(***************************************************************************)

\* OrderGateway::publishClientResponse: a full queue ends the process.
PublishClientResponse(response) ==
    /\ responses' = Append(responses, response)
    /\ terminated' = (Len(responses) >= ResponseCapacity)

\* reject: an answer of the adapter's own, the venue hears nothing.
Reject(request) ==
    /\ PublishClientResponse(Response(IF request.type = "CANCEL" THEN "CANCEL_REJECTED"
                                      ELSE "REJECTED", request, 0, 0))
    /\ UNCHANGED <<metadata, outgoing>>

\* An opening order would face a holding or an opening order of the other side.
OppositeExposure(request) ==
    \/ Sign(request.side) * netPosition < 0
    \/ \E id \in DOMAIN metadata : /\ ~ metadata[id].terminal
                                   /\ metadata[id].offset = "OPEN"
                                   /\ metadata[id].side # request.side

Known(request) == request.id \in DOMAIN metadata

Rejected(request) ==
    IF request.type = "CANCEL"
    THEN ~ Known(request) \/ metadata[request.id].terminal
                          \/ metadata[request.id].cancelPending
    ELSE Known(request) \/ (request.offset = "OPEN" /\ OppositeExposure(request))

\* Wrong on purpose: a finished order is forgotten with its cancel unanswered.
Retained_DropsPendingCancel ==
    IF Cardinality(DOMAIN metadata) >= BufferCapacity
    THEN Without(metadata, {id \in DOMAIN metadata : metadata[id].terminal})
    ELSE metadata

\* At capacity, finished orders with no answer to come are forgotten.
Retained ==
    IF Cardinality(DOMAIN metadata) >= BufferCapacity
    THEN Without(metadata, {id \in DOMAIN metadata : /\ metadata[id].terminal
                                                     /\ ~ metadata[id].cancelPending})
    ELSE metadata

\* Exhausted buffers throw, which ends the process.
Forward(request) ==
    LET full == \/ Len(outgoing) >= BufferCapacity
                \/ request.type = "NEW" /\ Cardinality(DOMAIN Retained) >= BufferCapacity
    IN  /\ terminated' = full
        /\ metadata' =
              IF request.type = "NEW"
              THEN With(Retained, request.id,
                        [side |-> request.side, offset |-> request.offset,
                         remaining |-> request.qty, terminal |-> FALSE,
                         cancelPending |-> FALSE])
              ELSE [Retained EXCEPT ![request.id].cancelPending = TRUE]
        /\ outgoing' = Append(outgoing, request)
        /\ UNCHANGED responses

\* Wrong on purpose: a cancel is confirmed as soon as it is sent.
Submit_ConfirmsCancel(request) ==
    IF Rejected(request) THEN Reject(request)
    ELSE IF request.type = "CANCEL"
    THEN /\ PublishClientResponse(Response("CANCELED", request, 0, 0))
         /\ metadata' = [metadata EXCEPT ![request.id].cancelPending = TRUE]
         /\ outgoing' = Append(outgoing, request)
    ELSE Forward(request)

\* The adapter's submit, after the checks every request of the engine passes.
Submit(request) == IF Rejected(request) THEN Reject(request) ELSE Forward(request)

GatewaySubmits ==
    /\ ~ terminated
    /\ requests # << >>
    /\ Submit(Head(requests))
    /\ requests' = Tail(requests)
    /\ UNCHANGED <<engineVars, netPosition, incoming, resting>>
-----------------------------------------------------------------------------
(***************************************************************************)
(* The gateway thread: responses of the venue.                             *)
(***************************************************************************)

\* What response() throws at: an unknown order, other attributes than sent, an
\* execution of a finished order or of other quantities than remain.
Invalid(r) ==
    \/ r.id \notin DOMAIN metadata
    \/ metadata[r.id].side # r.side \/ metadata[r.id].offset # r.offset
    \/ /\ r.type = "FILLED"
       /\ \/ metadata[r.id].terminal
          \/ r.exec \notin 1 .. metadata[r.id].remaining
          \/ r.leaves # metadata[r.id].remaining - r.exec

\* Wrong on purpose: an order executed to the end is not marked finished.
Recorded_NeverTerminal(order, r) ==
    IF r.type = "FILLED" THEN [order EXCEPT !.remaining = r.leaves]
    ELSE IF r.type = "REJECTED" THEN [order EXCEPT !.terminal = TRUE]
    ELSE IF r.type = "CANCELED" THEN [order EXCEPT !.terminal = TRUE, !.cancelPending = FALSE]
    ELSE IF r.type = "CANCEL_REJECTED" THEN [order EXCEPT !.cancelPending = FALSE]
    ELSE order

\* What the adapter remembers of an order after a response.
Recorded(order, r) ==
    IF r.type = "FILLED"
    THEN [order EXCEPT !.remaining = r.leaves, !.terminal = (r.leaves = 0)]
    ELSE IF r.type = "REJECTED" THEN [order EXCEPT !.terminal = TRUE]
    ELSE IF r.type = "CANCELED" THEN [order EXCEPT !.terminal = TRUE, !.cancelPending = FALSE]
    ELSE IF r.type = "CANCEL_REJECTED" THEN [order EXCEPT !.cancelPending = FALSE]
    ELSE order

\* Wrong on purpose: the side of an execution is forgotten in the position.
Receive_Unsigned(r) ==
    IF Invalid(r) THEN terminated' = TRUE /\ UNCHANGED <<metadata, netPosition, responses>>
    ELSE /\ metadata' = [metadata EXCEPT ![r.id] = Recorded(@, r)]
         /\ netPosition' = netPosition + r.exec
         /\ PublishClientResponse(r)

\* The adapter's response(): executions move its own position.
Receive(r) ==
    IF Invalid(r) THEN terminated' = TRUE /\ UNCHANGED <<metadata, netPosition, responses>>
    ELSE /\ metadata' = [metadata EXCEPT ![r.id] = Recorded(@, r)]
         /\ netPosition' = netPosition + Sign(r.side) * r.exec
         /\ PublishClientResponse(r)

GatewayReceives ==
    /\ ~ terminated
    /\ incoming # << >>
    /\ Receive(Head(incoming))
    /\ incoming' = Tail(incoming)
    /\ UNCHANGED <<engineVars, requests, outgoing, resting>>
-----------------------------------------------------------------------------
(***************************************************************************)
(* The venue, as its responses are used here: it takes requests in order,  *)
(* answers each once, and executes what rests at any time.                 *)
(***************************************************************************)
VenueAnswers(r) == incoming' = Append(incoming, r)

VenueTakesNew ==
    /\ Head(outgoing).type = "NEW"
    /\ \/ /\ VenueAnswers(Response("REJECTED", Head(outgoing), 0, 0))
          /\ UNCHANGED resting
       \/ /\ VenueAnswers(Response("ACCEPTED", Head(outgoing), 0, 0))
          /\ resting' = With(resting, Head(outgoing).id, Head(outgoing))

VenueTakesCancel ==
    /\ Head(outgoing).type = "CANCEL"
    /\ IF Head(outgoing).id \in DOMAIN resting
       THEN /\ VenueAnswers(Response("CANCELED", Head(outgoing), 0, 0))
            /\ resting' = Without(resting, {Head(outgoing).id})
       ELSE /\ VenueAnswers(Response("CANCEL_REJECTED", Head(outgoing), 0, 0))
            /\ UNCHANGED resting

VenueTakes ==
    /\ ~ terminated
    /\ outgoing # << >>
    /\ VenueTakesNew \/ VenueTakesCancel
    /\ outgoing' = Tail(outgoing)
    /\ UNCHANGED <<engineVars, requests, responses, adapterVars, terminated>>

VenueExecutes ==
    /\ ~ terminated
    /\ \E id \in DOMAIN resting : \E exec \in 1 .. resting[id].qty :
           LET leaves == resting[id].qty - exec
           IN  /\ VenueAnswers(Response("FILLED", resting[id], exec, leaves))
               /\ resting' = IF leaves = 0 THEN Without(resting, {id})
                             ELSE [resting EXCEPT ![id].qty = leaves]
    /\ UNCHANGED <<engineVars, requests, responses, adapterVars, outgoing, terminated>>
-----------------------------------------------------------------------------
Next ==
    \/ EngineDecides \/ EngineReceives
    \/ GatewaySubmits \/ GatewayReceives
    \/ VenueTakes \/ VenueExecutes

\* The engine and the gateway poll their queues in a loop and the venue answers
\* what it is sent; no decision and no execution has to come.
Fairness ==
    /\ WF_vars(EngineReceives)
    /\ WF_vars(GatewaySubmits)
    /\ WF_vars(GatewayReceives)
    /\ WF_vars(VenueTakes)

SafeSpec == Init /\ [][Next]_vars
Spec == SafeSpec /\ Fairness
-----------------------------------------------------------------------------
(***************************************************************************)
(* Properties.                                                             *)
(***************************************************************************)

\* The responses that reach the engine over this path keep the contract under
\* which Participant was proved correct.
ImplementsParticipant == Engine!Spec

\* The running total of what the executions among these responses add to the position.
Executed(rs) ==
    LET sum[n \in 0 .. Len(rs)] ==
            IF n = 0 THEN 0 ELSE sum[n - 1] + Sign(rs[n].side) * rs[n].exec
    IN  sum

\* The adapter's position runs ahead of the engine's by exactly the executions
\* still queued between the two threads: no execution is lost, booked twice or
\* booked with another quantity or sign.
PositionsReconcile == netPosition = position.net + Executed(responses)[Len(responses)]

\* No check on the path ends the process: every queue and buffer is large enough
\* for what the order slots let out, every response refers to an order the
\* adapter still remembers, and the venue's quantities add up.
NeverTerminates == ~ terminated

\* The engine judges opposite openings on a view that lags behind the adapter's,
\* yet the adapter never has to refuse a new order.
NewOrdersForwarded ==
    [][/\ requests # << >> /\ requests' = Tail(requests) /\ Head(requests).type = "NEW"
       => outgoing' = Append(outgoing, Head(requests))]_vars

\* An order waiting for the outcome of its cancel has that cancel, or a response
\* that settles it, somewhere on the path, once; an order the engine takes for
\* live has none, so it is never cancelled twice.
CancelsAccountedFor ==
    \A side \in Engine!Sides :
        LET o == orders[side]
            inRequests == \E i \in DOMAIN requests :
                              requests[i].type = "CANCEL" /\ requests[i].id = o.id
            atVenue == o.id \in DOMAIN metadata /\ metadata[o.id].cancelPending
            answered == \E i \in DOMAIN responses :
                            /\ responses[i].id = o.id
                            /\ responses[i].type \in {"CANCELED", "CANCEL_REJECTED"}
        IN  /\ o.state = "PENDING_CANCEL" => Cardinality({p \in {1, 2, 3} :
                                                 <<inRequests, atVenue, answered>>[p]}) = 1
            /\ o.state = "LIVE" => ~ (inRequests \/ atVenue \/ answered)

\* Every order the engine waits for becomes live or finished: no lost or crossed
\* answer leaves a side blocked for good.
SlotsResolve ==
    \A side \in Engine!Sides :
        orders[side].state \in {"PENDING_NEW", "PENDING_CANCEL"}
            ~> orders[side].state \in {"LIVE", "DEAD"}
=============================================================================
