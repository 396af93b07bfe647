--------------------------- MODULE SimNowOrderPath ---------------------------
(***************************************************************************)
(* Simnow mode from log-in to shutdown, and the path of an order there: the *)
(* engine thread (Participant at a single-order venue), the order gateway  *)
(* thread with SimNowExecution, the vendor SDK, the exchange, the market   *)
(* thread that may signal a failure and the main thread that shuts down.   *)
(*                                                                         *)
(* Every order is of one lot.  The SDK may call back in any order and more *)
(* than once: what the exchange has said of an order stays in callbacks    *)
(* and may be handled at any time, until the bounded queue of events loses *)
(* it.  An earlier run may have left an order or a holding in the account.  *)
(***************************************************************************)
EXTENDS Integers, Sequences, FiniteSets, SequencesExt

CONSTANTS Prices, PriceInvalid, OrderQty, MaxOrderSize, MaxPosition, QtyInvalid,
          SimexConstraints, SingleOrderVenue, MaxOrders

ASSUME SimNowAssumption ==
    /\ SingleOrderVenue /\ SimexConstraints
    /\ OrderQty = 1
    /\ MaxOrderSize \in Nat /\ MaxPosition \in Nat /\ QtyInvalid \in Nat

VARIABLES orders, nextOrderId, position, fault,   \* the engine: see Participant
          venueReady,    \* TradeEngine::venue_ready_
          requests,      \* client_requests, engine to gateway
          responses,     \* client_responses, gateway to engine
          known,         \* SimNowExecution::orders, by order id
          netPosition,   \* net_position
          ready,         \* SimNowExecution::ready
          stage,         \* how much of the start-up the exchange has answered
          asked,         \* the next request of the start-up is on its way
          active,        \* control.active
          confirming,    \* a poll has found trading usable and is about to set active
          submitting,    \* the first request has passed the checks of submit
          overflow,      \* control.overflow
          failures,      \* the reasons signalFailure was called with: control.fatal
          stopDone,      \* control.stop_done
          main,          \* where the main thread is
          outgoing,      \* inserts and cancels on their way to the exchange
          callbacks,     \* what the SDK may call back with
          book,          \* the orders the exchange has taken
          account,       \* what an earlier run left in the account
          holding        \* the lots the account holds, signed

engineVars == <<orders, nextOrderId, position, fault>>
startVars == <<stage, asked>>
exchangeVars == <<callbacks, book, account, holding>>
vars == <<engineVars, venueReady, requests, responses, known, netPosition, ready, startVars,
          active, confirming, submitting, overflow, failures, stopDone, main, outgoing,
          exchangeVars>>

Engine == INSTANCE Participant

Init ==
    /\ Engine!Init
    /\ venueReady = FALSE
    /\ requests = << >>
    /\ responses = << >>
    /\ known = << >>
    /\ netPosition = 0
    /\ ready = FALSE
    /\ stage = 0
    /\ asked = TRUE
    /\ active = FALSE
    /\ confirming = FALSE
    /\ submitting = FALSE
    /\ overflow = FALSE
    /\ failures = {}
    /\ stopDone = FALSE
    /\ main = "starting"
    /\ outgoing = << >>
    /\ callbacks = {}
    /\ book = << >>
    /\ account \in {"empty", "resting", "holding"}
    /\ holding = IF account = "holding" THEN 1 ELSE 0

Fatal == failures # {}
\* What has to be answered before trading: the connection, the log-in, which asks
\* one thing after the other at once, and the queries, which a poll sends.
Conversation == <<"TraderConnected", "Auth", "Login", "Settlement",
                  "Instrument", "Account", "Position", "OrderQuery">>
LoggedIn == stage >= 3
StartUpDone == stage = Len(Conversation)
Query == stage >= 4 /\ ~ StartUpDone
Leftover == 0   \* the order an earlier run may have left: no order of this one
Stopping == main \in {"quiescing", "stopped"}
With(f, id, value) == [i \in DOMAIN f \cup {id} |-> IF i = id THEN value ELSE f[i]]
Sign(side) == Engine!Sign(side)

\* publish: a response about an order; quantities matter on executions only.
Answer(type, o) ==
    Engine!Response(type, o.id, o.side, o.offset, IF type = "FILLED" THEN 1 ELSE 0, 0)
\* Bound of the model: one failure from outside in a behaviour.
Calm == failures = {} /\ ~ overflow

Message(type, o) == [type |-> type, id |-> o.id, side |-> o.side, offset |-> o.offset]
-----------------------------------------------------------------------------
(***************************************************************************)
(* The engine thread.  With VenueFree in the way of every decision it only *)
(* ever sends new orders.                                                  *)
(***************************************************************************)
EngineDecides ==
    /\ venueReady
    /\ account # "empty" => nextOrderId = 1   \* bound: one order in such an account
    /\ Engine!Decide
    /\ \E side \in Engine!Sides :
           /\ orders'[side] # orders[side]
           /\ requests' = Append(requests, [id |-> orders'[side].id, side |-> side,
                                            offset |-> orders'[side].offset])
    /\ UNCHANGED <<venueReady, responses, known, netPosition, ready, startVars, active,
                   confirming, submitting, overflow, failures, stopDone, main, outgoing,
                   exchangeVars>>

EngineReceives ==
    /\ responses # << >>
    /\ Engine!HandleClientResponse(Head(responses))
    /\ responses' = Tail(responses)
    /\ UNCHANGED <<venueReady, requests, known, netPosition, ready, startVars, active,
                   confirming, submitting, overflow, failures, stopDone, main, outgoing,
                   exchangeVars>>
-----------------------------------------------------------------------------
(***************************************************************************)
(* The gateway thread: requests.                                           *)
(***************************************************************************)
GatewayIdle == main # "stopped" /\ ~ submitting /\ ~ confirming

\* Wrong on purpose: an order whose cancel was sent no longer counts.
Outstanding_IgnoresCanceled == {id \in DOMAIN known : ~ known[id].done /\ ~ known[id].cancelSent}

\* outstanding: the orders that are not finished.
Outstanding == {id \in DOMAIN known : ~ known[id].done}

\* state: the engine hears of a change, or of new account figures.
PublishState(enabled, refreshed) ==
    IF ready = enabled /\ ~ refreshed
    THEN UNCHANGED <<ready, venueReady>>
    ELSE ready' = enabled /\ venueReady' = enabled

\* fail: the failure is signalled and trading disabled at once.
Fail(reason) ==
    /\ failures' = failures \cup {reason}
    /\ active' = FALSE
    /\ PublishState(FALSE, FALSE)

\* The reasons submit has to refuse a well-formed order.
Refused(r) ==
    \/ ~ ready \/ Stopping \/ Fatal \/ Outstanding # {}
    \/ IF r.offset = "OPEN" THEN netPosition # 0
       ELSE r.offset # "CLOSE_TODAY" \/ netPosition # - Sign(r.side)

\* submit, up to the call of the SDK.
CheckRequest ==
    /\ GatewayIdle
    /\ requests # << >>
    /\ IF Refused(Head(requests))
       THEN /\ responses' = Append(responses, Answer("REJECTED", Head(requests)))
            /\ requests' = Tail(requests)
            /\ UNCHANGED submitting
       ELSE submitting' = TRUE /\ UNCHANGED <<requests, responses>>
    /\ UNCHANGED <<engineVars, venueReady, known, netPosition, ready, startVars, active,
                   confirming, overflow, failures, stopDone, main, outgoing,
                   exchangeVars>>

\* The rest of submit: the SDK takes the insert, or refuses it on the spot.
Insert(accepted) ==
    LET r == Head(requests)
    IN  /\ submitting
        /\ known' = With(known, r.id,
               [id |-> r.id, side |-> r.side, offset |-> r.offset, fills |-> 0, reported |-> 0,
                accepted |-> FALSE, done |-> ~ accepted, cancelSent |-> FALSE,
                cancelRejected |-> FALSE, terminal |-> FALSE, rejected |-> FALSE])
        /\ IF accepted
           THEN outgoing' = Append(outgoing, Message("INSERT", r)) /\ UNCHANGED responses
           ELSE responses' = Append(responses, Answer("REJECTED", r)) /\ UNCHANGED outgoing
        /\ requests' = Tail(requests)
        /\ submitting' = FALSE
        /\ UNCHANGED <<engineVars, venueReady, netPosition, ready, startVars, active,
                       confirming, overflow, failures, stopDone, main, exchangeVars>>
-----------------------------------------------------------------------------
(***************************************************************************)
(* The gateway thread: callbacks.  A callback tells of an order's status,  *)
(* of its execution, or of an error of its insert or its cancel.           *)
(***************************************************************************)
Callback(kind, id, status) == [kind |-> kind, id |-> id, status |-> status]

RefusesCancel(status) == status \in {"cancelRejected", "tradedCancelRejected"}
EndsOrder(status) == status \in {"traded", "canceled", "insertRejected", "tradedCancelRejected"}
Reported(o, status) ==
    IF status \in {"traded", "tradedCancelRejected"} THEN 1 ELSE o.reported

\* An order after a callback, with the types of the responses it publishes.
Effect(o, types) == [order |-> o, types |-> types]

\* Wrong on purpose: a terminal status finishes an order, traded or not.
Finished_WithoutTrade(o) ==
    Effect([o EXCEPT !.done = TRUE],
           IF o.fills = 1 THEN << >> ELSE IF o.rejected THEN <<"REJECTED">> ELSE <<"CANCELED">>)

\* finish: a terminal status waits for the execution it reports.
Finished(o) ==
    IF o.done \/ ~ o.terminal \/ o.fills < o.reported THEN Effect(o, << >>)
    ELSE Effect([o EXCEPT !.done = TRUE],
                IF o.fills = 1 THEN << >>
                ELSE IF o.rejected THEN <<"REJECTED">> ELSE <<"CANCELED">>)

\* A rejected cancel is reported once.
CancelRejected(o) ==
    IF o.cancelRejected THEN Effect(o, << >>)
    ELSE Effect([o EXCEPT !.cancelRejected = TRUE], <<"CANCEL_REJECTED">>)

\* orderEvent: the status of an order.
OrderEvent(o, status) ==
    LET reported == [o EXCEPT !.reported = Reported(o, status)]
        refused == IF RefusesCancel(status) THEN CancelRejected(reported)
                   ELSE Effect(reported, << >>)
        ended == Finished([refused.order EXCEPT !.terminal = TRUE,
                                                !.rejected = (status = "insertRejected")])
    IN  IF o.done THEN Effect(reported, << >>)
        ELSE IF EndsOrder(status) THEN Effect(ended.order, refused.types \o ended.types)
        ELSE IF o.accepted THEN refused
        ELSE Effect([refused.order EXCEPT !.accepted = TRUE], refused.types \o <<"ACCEPTED">>)

\* Wrong on purpose: the trade id is not remembered.
TradeEvent_Unchecked(o) == Effect([o EXCEPT !.fills = 1, !.done = TRUE], <<"FILLED">>)

\* tradeEvent: an execution that was not seen before finishes its order.
TradeEvent(o) ==
    IF o.fills = 1 THEN Effect(o, << >>)
    ELSE Effect([o EXCEPT !.fills = 1, !.done = TRUE], <<"FILLED">>)

\* Wrong on purpose: a refused cancel is taken for the end of the order.
ErrorEvent_EndsOrder(o, kind) ==
    IF o.done THEN Effect(o, << >>)
    ELSE IF kind = "insertError" THEN Finished([o EXCEPT !.rejected = TRUE, !.terminal = TRUE])
    ELSE Effect([o EXCEPT !.done = TRUE], <<"CANCELED">>)

\* An error of an insert or of a cancel.
ErrorEvent(o, kind) ==
    IF o.done THEN Effect(o, << >>)
    ELSE IF kind = "insertError" THEN Finished([o EXCEPT !.rejected = TRUE, !.terminal = TRUE])
    ELSE CancelRejected(o)

\* What the handlers throw at: an order nobody sent, an execution of an order
\* that is finished without it, more executions than the status reports.
Unexpected(c) ==
    \/ c.id \notin DOMAIN known
    \/ c.kind = "trade" /\ known[c.id].done /\ known[c.id].fills = 0
    \/ /\ c.kind = "order" /\ EndsOrder(c.status) /\ ~ known[c.id].done
       /\ known[c.id].fills > Reported(known[c.id], c.status)

EffectOf(c) ==
    LET o == known[c.id]
    IN  IF c.kind = "order" THEN OrderEvent(o, c.status)
        ELSE IF c.kind = "trade" THEN TradeEvent(o) ELSE ErrorEvent(o, c.kind)

\* event, for the callbacks about orders.
HandleCallback(c) ==
    /\ GatewayIdle
    /\ c \in callbacks
    /\ IF Unexpected(c)
       THEN /\ Fail(IF c.id = Leftover THEN "account" ELSE "callback")
            /\ UNCHANGED <<responses, known, netPosition>>
       ELSE LET effect == EffectOf(c)
                published == [i \in DOMAIN effect.types |->
                                  Answer(effect.types[i], known[c.id])]
            IN  /\ known' = [known EXCEPT ![c.id] = effect.order]
                /\ responses' = responses \o published
                /\ netPosition' = IF "FILLED" \in Range(effect.types)
                                  THEN netPosition + Sign(known[c.id].side) ELSE netPosition
                /\ UNCHANGED <<venueReady, ready, active, failures>>
    /\ UNCHANGED <<engineVars, requests, startVars, confirming, submitting, overflow,
                   stopDone, main, outgoing, exchangeVars>>

\* The connection is lost, or a response reports an error, or a query is not
\* answered in time.
GatewayFails(lost) ==
    /\ GatewayIdle
    /\ Calm
    /\ Fail(IF lost THEN "disconnected" ELSE "query")
    /\ UNCHANGED <<engineVars, requests, responses, known, netPosition, startVars,
                   confirming, submitting, overflow, stopDone, main, outgoing,
                   exchangeVars>>

\* enqueue, on the SDK's thread, finds no slot: a callback is lost for good, one
\* that no longer matters, or another event.
LoseCallback(c) ==
    /\ c \in callbacks
    /\ Calm
    /\ callbacks' = IF c.id \in Outstanding \cup {Leftover} THEN callbacks \ {c}
                                                           ELSE callbacks
    /\ overflow' = TRUE
    /\ UNCHANGED <<engineVars, venueReady, requests, responses, known, netPosition,
                   ready, startVars, active, confirming, submitting, failures, stopDone,
                   main, outgoing, book, account, holding>>

LoseEvent ==
    /\ main # "stopped"
    /\ ~ StartUpDone
    /\ Calm
    /\ overflow' = TRUE
    /\ UNCHANGED <<engineVars, venueReady, requests, responses, known, netPosition,
                   ready, startVars, active, confirming, submitting, failures, stopDone,
                   main, outgoing, exchangeVars>>
-----------------------------------------------------------------------------
(***************************************************************************)
(* The gateway thread: the answers of the start-up.                        *)
(***************************************************************************)

\* Wrong on purpose: the last query is asked and its answer is not looked at.
StartUpRefused_IgnoresOrders == Conversation[stage + 1] = "Position" /\ holding # 0

\* What the queries refuse: a holding, an order that may still execute.
StartUpRefused ==
    \/ Conversation[stage + 1] = "Position" /\ holding # 0
    \/ Conversation[stage + 1] = "OrderQuery" /\ account = "resting"

\* event, for the answers: after a failure they are ignored; the next step of
\* the log-in is requested at once.
AnswerStartUp ==
    /\ GatewayIdle
    /\ ~ StartUpDone
    /\ asked
    /\ ~ Fatal
    /\ IF StartUpRefused
       THEN Fail("account") /\ UNCHANGED startVars
       ELSE /\ stage' = stage + 1
            /\ asked' = (stage' < 4)
            /\ UNCHANGED <<venueReady, ready, active, failures>>
    /\ UNCHANGED <<engineVars, requests, responses, known, netPosition, confirming,
                   submitting, overflow, stopDone, main, outgoing, exchangeVars>>
-----------------------------------------------------------------------------
(***************************************************************************)
(* The gateway thread: pollOrders around the callbacks.                    *)
(***************************************************************************)

\* The head of a poll: a lost callback is a failure.
CheckOverflow ==
    /\ GatewayIdle
    /\ overflow
    /\ overflow' = FALSE
    /\ Fail("overflow")
    /\ UNCHANGED <<engineVars, requests, responses, known, netPosition, startVars,
                   confirming, submitting, stopDone, main, outgoing,
                   exchangeVars>>

\* The orders cancel would send a request for.
Cancelable == {id \in Outstanding : ~ known[id].terminal /\ ~ known[id].cancelSent
                                    /\ "disconnected" \notin failures}

\* The tail of a poll once a stop is asked for: whatever is outstanding is
\* cancelled, once; accepted says whether the SDK takes the requests.
PollStopping(accepted) ==
    LET cancels == SetToSeq({Message("CANCEL", known[id]) : id \in Cancelable})
    IN  /\ GatewayIdle /\ Stopping
        /\ known' = [id \in DOMAIN known |->
                         [known[id] EXCEPT !.cancelSent = @ \/ id \in Cancelable]]
        /\ IF accepted \/ Cancelable = {}
           THEN /\ outgoing' = outgoing \o cancels
                /\ UNCHANGED <<responses, active, failures>>
           ELSE /\ responses' = responses \o [i \in DOMAIN cancels |->
                                                  Answer("CANCEL_REJECTED", cancels[i])]
                /\ failures' = failures \cup {"cancel"}
                /\ active' = FALSE
                /\ UNCHANGED outgoing
        /\ PublishState(FALSE, FALSE)
        /\ stopDone' = (stopDone \/ Outstanding = {})
        /\ UNCHANGED <<engineVars, requests, netPosition, startVars, confirming,
                       submitting, overflow, main, exchangeVars>>

\* The tail of a poll otherwise: sent says whether the next query of the start-up
\* goes out (the SDK may ask to wait), usable whether quotes and account allow
\* trading, refreshed whether the account figures changed.
PollTrading(sent, usable, refreshed) ==
    LET enabled == usable /\ StartUpDone /\ ~ Fatal
    IN  /\ GatewayIdle /\ ~ Stopping
        /\ sent => Query /\ ~ Fatal
        /\ refreshed => stage >= 6
        /\ asked' = (asked \/ sent)
        /\ PublishState(enabled, refreshed)
        /\ confirming' = enabled
        /\ UNCHANGED <<engineVars, requests, responses, known, netPosition, stage, active,
                       submitting, overflow, failures, stopDone, main, outgoing,
                       exchangeVars>>

\* Wrong on purpose: the failure is not looked at again under the mutex.
Confirm_Unchecked ==
    /\ confirming
    /\ confirming' = FALSE
    /\ active' = TRUE
    /\ UNCHANGED <<engineVars, venueReady, requests, responses, known, netPosition,
                   ready, startVars, submitting, overflow, failures, stopDone, main,
                   outgoing, exchangeVars>>

\* The end of a poll that found trading usable, under the mutex: unless something
\* has failed meanwhile trading is active, and whoever waits for it is told.
Confirm ==
    /\ confirming
    /\ confirming' = FALSE
    /\ active' = (active \/ ~ Fatal)
    /\ UNCHANGED <<engineVars, venueReady, requests, responses, known, netPosition,
                   ready, startVars, submitting, overflow, failures, stopDone, main,
                   outgoing, exchangeVars>>
-----------------------------------------------------------------------------
(***************************************************************************)
(* The market thread and the main thread.                                  *)
(***************************************************************************)

\* SimNowMarketData signals a failure or the loss of its connection; its thread
\* is joined before a stop is asked for.
MarketFails(lost) ==
    /\ main \in {"starting", "trading", "disabled"}
    /\ Calm
    /\ failures' = failures \cup {IF lost THEN "disconnected" ELSE "market"}
    /\ active' = FALSE
    /\ UNCHANGED <<engineVars, venueReady, requests, responses, known, netPosition,
                   ready, startVars, confirming, submitting, overflow, stopDone,
                   main, outgoing, exchangeVars>>

Main(from, to) == main = from /\ main' = to

\* waitUntilReady returns ...
StartTrading ==
    /\ Main("starting", "trading")
    /\ active /\ ~ Fatal
    /\ UNCHANGED <<engineVars, venueReady, requests, responses, known, netPosition,
                   ready, startVars, active, confirming, submitting, overflow, failures,
                   stopDone, outgoing, exchangeVars>>

\* ... or throws, after a failure or when the time is up, and trading is disabled.
GiveUpStart(timedOut) ==
    /\ Main("starting", "disabled")
    /\ IF timedOut THEN ~ active /\ ~ Fatal ELSE Fatal
    /\ failures' = IF timedOut THEN {"timeout"} ELSE failures
    /\ venueReady' = FALSE
    /\ UNCHANGED <<engineVars, requests, responses, known, netPosition, ready, startVars,
                   active, confirming, submitting, overflow, stopDone, outgoing,
                   exchangeVars>>

\* The loop of main ends, at any time or because trading is no longer active:
\* disableVenueTrading, and the market thread is joined.
DisableTrading ==
    /\ Main("trading", "disabled")
    /\ venueReady' = FALSE
    /\ UNCHANGED <<engineVars, requests, responses, known, netPosition, ready, startVars,
                   active, confirming, submitting, overflow, failures, stopDone,
                   outgoing, exchangeVars>>

\* quiesce asks for a stop ...
AskToStop ==
    /\ Main("disabled", "quiescing")
    /\ UNCHANGED <<engineVars, venueReady, requests, responses, known, netPosition,
                   ready, startVars, active, confirming, submitting, overflow, failures,
                   stopDone, outgoing, exchangeVars>>

\* ... and waits until it is done, but not for ever; then the gateway is joined
\* and the adapter stopped.
StopGateway ==
    /\ Main("quiescing", "stopped")
    /\ ~ submitting /\ ~ confirming
    /\ failures' = IF stopDone THEN failures ELSE failures \cup {"shutdown"}
    /\ active' = FALSE
    /\ PublishState(FALSE, FALSE)
    /\ UNCHANGED <<engineVars, requests, responses, known, netPosition, startVars,
                   confirming, submitting, overflow, stopDone, outgoing, exchangeVars>>
-----------------------------------------------------------------------------
(***************************************************************************)
(* The exchange behind the SDK, as its callbacks are used here.  Where it  *)
(* may say the same twice, it says both: either may still be handled first *)
(* or never.                                                               *)
(***************************************************************************)
ExchangeSays(said) == callbacks' = callbacks \cup said

Alive(id) == id \in DOMAIN book /\ book[id].status = "queueing"

\* An insert is rejected, by an error and by a status, or queued.
TakeInsert ==
    LET o == Head(outgoing)
    IN  /\ o.type = "INSERT"
        /\ \/ /\ ExchangeSays({Callback("insertError", o.id, "none"),
                              Callback("order", o.id, "insertRejected")})
              /\ UNCHANGED book
           \/ /\ ExchangeSays({Callback("order", o.id, "queueing")})
              /\ book' = With(book, o.id,
                              [side |-> o.side, offset |-> o.offset, status |-> "queueing"])

\* A cancel ends an order that is still queued, or is refused by an error and,
\* where the order was queued once, by a status.
TakeCancel ==
    LET id == Head(outgoing).id
        refusal == Callback("cancelError", id, "none")
    IN  /\ Head(outgoing).type = "CANCEL"
        /\ \/ /\ Alive(id)
              /\ ExchangeSays({Callback("order", id, "canceled")})
              /\ book' = [book EXCEPT ![id].status = "canceled"]
           \/ /\ Alive(id)
              /\ ExchangeSays({refusal, Callback("order", id, "cancelRejected")})
              /\ UNCHANGED book
           \/ /\ ~ Alive(id)
              /\ ExchangeSays(IF id \in DOMAIN book /\ book[id].status = "traded"
                              THEN {refusal, Callback("order", id, "tradedCancelRejected")}
                              ELSE {refusal})
              /\ UNCHANGED book

ExchangeTakes ==
    /\ outgoing # << >>
    /\ TakeInsert \/ TakeCancel
    /\ outgoing' = Tail(outgoing)
    /\ UNCHANGED <<engineVars, venueReady, requests, responses, known, netPosition,
                   ready, startVars, active, confirming, submitting, overflow, failures,
                   stopDone, main, account, holding>>

\* What is queued executes, or the exchange ends it.
ExchangeActs ==
    /\ \E id \in DOMAIN book :
           /\ Alive(id)
           /\ \/ /\ book' = [book EXCEPT ![id].status = "traded"]
                 /\ holding' = holding + Sign(book[id].side)
                 /\ ExchangeSays({Callback("order", id, "traded"), Callback("trade", id, "none")})
              \/ /\ book' = [book EXCEPT ![id].status = "canceled"]
                 /\ ExchangeSays({Callback("order", id, "canceled")})
                 /\ UNCHANGED holding
    /\ UNCHANGED <<engineVars, venueReady, requests, responses, known, netPosition,
                   ready, startVars, active, confirming, submitting, overflow, failures,
                   stopDone, main, outgoing, account>>

\* What is left of an earlier run executes as well; only who has logged in is told.
LeftoverExecutes ==
    /\ account = "resting"
    /\ account' = "holding"
    /\ holding' = holding + 1
    /\ ExchangeSays(IF LoggedIn THEN {Callback("trade", Leftover, "none")} ELSE {})
    /\ UNCHANGED <<engineVars, venueReady, requests, responses, known, netPosition,
                   ready, startVars, active, confirming, submitting, overflow, failures,
                   stopDone, main, outgoing, book>>
-----------------------------------------------------------------------------
Gateway ==
    \/ CheckRequest
    \/ \E accepted \in BOOLEAN : Insert(accepted)
    \/ \E lost \in BOOLEAN : GatewayFails(lost)
    \/ CheckOverflow
    \/ \E accepted \in BOOLEAN : PollStopping(accepted)
    \/ \E sent, usable, refreshed \in BOOLEAN : PollTrading(sent, usable, refreshed)
    \/ AnswerStartUp \/ Confirm

Others ==
    \/ EngineDecides \/ EngineReceives
    \/ \E lost \in BOOLEAN : MarketFails(lost)
    \/ LoseEvent
    \/ StartTrading \/ \E timedOut \in BOOLEAN : GiveUpStart(timedOut)
    \/ DisableTrading \/ AskToStop \/ StopGateway
    \/ ExchangeTakes \/ ExchangeActs \/ LeftoverExecutes

Next ==
    \/ Gateway
    \/ Others
    \/ \E c \in callbacks : HandleCallback(c) \/ LoseCallback(c)

\* The engine and the gateway poll in a loop, the SDK delivers what it has and
\* the exchange takes what it is sent; main leaves its loop once trading is no
\* longer active.  Nothing has to execute, to be decided or to be answered.
Fairness ==
    /\ WF_vars(EngineReceives)
    /\ WF_vars(CheckOverflow)
    /\ WF_vars(\E accepted \in BOOLEAN : Insert(accepted))
    /\ WF_vars(\E accepted \in BOOLEAN : PollStopping(accepted))
    /\ WF_vars(Confirm)
    /\ WF_vars(GiveUpStart(FALSE))
    /\ WF_vars(~ active /\ DisableTrading)
    /\ WF_vars(AskToStop)
    /\ WF_vars(ExchangeTakes)
    /\ WF_vars(\E c \in callbacks : HandleCallback(c))

SafeSpec == Init /\ [][Next]_vars
Spec == SafeSpec /\ Fairness
-----------------------------------------------------------------------------
(***************************************************************************)
(* Properties.                                                             *)
(***************************************************************************)

\* The responses that reach the engine over this path keep the contract under
\* which Participant was proved correct, whatever the order of the callbacks.
ImplementsParticipant == Engine!Spec

\* What the exchange may still execute.
Unsettled ==
    {id \in DOMAIN book : Alive(id)}
    \cup {outgoing[i].id : i \in {j \in DOMAIN outgoing : outgoing[j].type = "INSERT"}}

\* The engine has an execution still to hear of.
FillQueued == responses # << >> /\ Last(responses).type = "FILLED"

\* An order the adapter takes for finished is finished at the exchange and its
\* execution is booked, also when callbacks were lost; and the adapter's position
\* is the engine's and the execution queued between them, which nothing follows.
ExecutionsReconcile ==
    /\ \A id \in DOMAIN known :
           known[id].done =>
               /\ id \notin Unsettled
               /\ known[id].fills = 1 <=> (id \in DOMAIN book /\ book[id].status = "traded")
    /\ \A i \in DOMAIN responses : responses[i].type = "FILLED" => i = Len(responses)
    /\ netPosition = position.net + IF FillQueued THEN Sign(Last(responses).side) ELSE 0

\* At the exchange at most one order is open at a time and the holding of the
\* account, with that order executed or not, is never more than one lot: not after
\* lost callbacks, failures or a shutdown that gave up, and not in an account in
\* which an earlier run left a holding or an order.  One order can slip between the
\* queries: it executes after the holdings and before the orders are asked for;
\* then its execution is on the way to stop the program.
SlippedThrough ==
    /\ account = "holding"
    /\ Callback("trade", Leftover, "none") \in callbacks
       \/ overflow \/ "overflow" \in failures

ExposureStaysOne ==
    \/ SlippedThrough
    \/ /\ holding \in {-1, 0, 1}
       /\ Cardinality(Unsettled) + (IF account = "resting" THEN 1 ELSE 0) <= 1
       /\ \A id \in Unsettled : holding + Sign(known[id].side) \in {-1, 0, 1}

\* No callback of a legal order is ever taken for an error, in whatever order
\* and however often it comes.
CallbacksNeverFail == "callback" \notin failures

\* Once the adapter says that the stop is done nothing of it can execute any
\* more, although the engine and the exchange went on meanwhile.
StopLeavesNothing == stopDone => Unsettled = {}

\* After any failure, in whatever step of start-up or trading it comes, and after
\* any request to stop the program winds down: main notices, and the stop is done,
\* unless a cancel was refused, a callback or the connection was lost or the wait
\* has run out; a failure of the market data, of a query or of the start-up does
\* not hinder it.
CancelRefused ==
    \E id \in Unsettled, c \in callbacks :
        c.id = id /\ (c.kind = "cancelError" \/ c.status = "cancelRejected")

ShutdownSettles ==
    Fatal \/ Stopping ~>
                \/ stopDone
                \/ CancelRefused
                \/ failures \cap {"overflow", "disconnected", "cancel"} # {}
                \/ main = "stopped"
=============================================================================
