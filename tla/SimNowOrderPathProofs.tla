----------------------- MODULE SimNowOrderPathProofs -----------------------
(***************************************************************************)
(* Proofs about SimNowOrderPath, for every set of prices and every limit:  *)
(* no lost, late or repeated callback, no failure and no order of the      *)
(* threads leaves more than one lot at the exchange, loses an execution or *)
(* breaks the contract under which Participant was proved correct.         *)
(*                                                                         *)
(* Everything an order may still do hangs on the newest order the engine   *)
(* gave out: it is on its way to the gateway, outstanding there, or its    *)
(* last response is on its way back, and only one of the three.            *)
(***************************************************************************)
EXTENDS SimNowOrderPath, SequenceTheorems, FiniteSetTheorems, TLAPS

EngineProofs == INSTANCE ParticipantProofs

Sides == Engine!Sides
Offsets == {"OPEN", "CLOSE_TODAY", "CLOSE_YESTERDAY"}
Ending == {"FILLED", "CANCELED", "REJECTED"}
Types == Ending \cup {"ACCEPTED", "CANCEL_REJECTED"}
Newest == nextOrderId - 1

Request == [id : Nat \ {0}, side : Sides, offset : Offsets]
Record == [id : Nat \ {0}, side : Sides, offset : Offsets, fills : {0, 1}, reported : {0, 1},
           accepted : BOOLEAN, done : BOOLEAN, cancelSent : BOOLEAN,
           cancelRejected : BOOLEAN, terminal : BOOLEAN, rejected : BOOLEAN]
ResponseSet == [type : Types, id : Nat \ {0}, side : Sides, offset : Offsets,
                exec : {0, 1}, leaves : {0}]
MessageSet == [type : {"INSERT", "CANCEL"}, id : Nat \ {0}, side : Sides, offset : Offsets]
BookOrder == [side : Sides, offset : Offsets, status : {"queueing", "traded", "canceled"}]

TypeOK ==
    /\ requests \in Seq(Request)
    /\ responses \in Seq(ResponseSet)
    /\ outgoing \in Seq(MessageSet)
    /\ known \in [DOMAIN known -> Record]
    /\ book \in [DOMAIN book -> BookOrder]
    /\ DOMAIN book \subseteq DOMAIN known /\ DOMAIN known \subseteq 1 .. Newest
    /\ netPosition \in {-1, 0, 1} /\ holding \in Int /\ stage \in 0 .. 8
    /\ venueReady \in BOOLEAN /\ ready \in BOOLEAN /\ asked \in BOOLEAN /\ active \in BOOLEAN
    /\ confirming \in BOOLEAN /\ submitting \in BOOLEAN /\ overflow \in BOOLEAN
    /\ stopDone \in BOOLEAN
    /\ main \in {"starting", "trading", "disabled", "quiescing", "stopped"}
    /\ account \in {"empty", "resting", "holding"}

\* What the exchange has made of an order: executed it, or it can no longer.
Traded(id) == id \in DOMAIN book /\ book[id].status = "traded"
Inserting(id) == \E i \in DOMAIN outgoing : outgoing[i].type = "INSERT" /\ outgoing[i].id = id
Over(id) == IF id \in DOMAIN book THEN book[id].status = "canceled" ELSE ~ Inserting(id)

\* Before the start-up is over nothing is traded, and it ends in an account that
\* is empty unless an order slipped through.
StartInv ==
    /\ ~ StartUpDone => /\ ~ ready /\ ~ venueReady /\ ~ confirming /\ ~ submitting
                        /\ requests = << >> /\ nextOrderId = 1 /\ netPosition = 0
    /\ account = "resting" => ~ StartUpDone
    /\ account = "holding" => stage <= 6 \/ SlippedThrough

\* A callback tells the truth.
Truthful(c) ==
    c.id # Leftover =>
        /\ c.id \in DOMAIN known
        /\ \/ c.kind = "trade"
           \/ c.kind = "order" /\ c.status \in {"traded", "tradedCancelRejected"}
           => Traded(c.id)
        /\ \/ c.kind = "insertError"
           \/ c.kind = "order" /\ c.status \in {"canceled", "insertRejected"}
           => Over(c.id)

\* An insert is sent once, and nothing is in the book before.
OutgoingInv ==
    /\ \A i \in DOMAIN outgoing :
           /\ outgoing[i].id \in DOMAIN known
           /\ outgoing[i].type = "INSERT" => 
                 /\ outgoing[i].id \notin DOMAIN book
                 /\ outgoing[i].side = known[outgoing[i].id].side
    /\ \A i, j \in DOMAIN outgoing :
           outgoing[i].type = "INSERT" /\ outgoing[j].type = "INSERT" => i = j

\* What the adapter has noted of an order is so.
RecordInv(id) ==
    /\ known[id].id = id
    /\ known[id].fills = 1 => known[id].done /\ Traded(id)
    /\ known[id].reported = 1 => Traded(id)
    /\ known[id].terminal /\ known[id].reported = 0 => Over(id)
    /\ known[id].done /\ known[id].fills = 0 => Over(id)
    /\ id \in DOMAIN book => book[id].side = known[id].side

VenueInv ==
    /\ \A c \in callbacks : Truthful(c)
    /\ OutgoingInv
    /\ \A id \in DOMAIN known : RecordInv(id)

\* The engine's order that a request, an order of the adapter or a response is
\* about: the newest, still working.
Current(o) ==
    /\ o.id = Newest
    /\ orders[o.side].id = Newest
    /\ Engine!Working(o.side)
    /\ orders[o.side].offset = o.offset
    /\ orders[o.side].qty = 1

EngineInv ==
    /\ EngineProofs!ParticipantInv
    /\ \A i \in DOMAIN requests : i = 1 /\ Current(requests[i]) /\ Newest \notin DOMAIN known
    /\ \A id \in Outstanding : Current(known[id])
    /\ \A i \in DOMAIN responses :
           /\ Current(responses[i])
           /\ responses[i].exec = IF responses[i].type = "FILLED" THEN 1 ELSE 0
           /\ responses[i].type \in Ending => i = Len(responses) /\ Outstanding = {}
    /\ requests # << >> => responses = << >> /\ Outstanding = {}

\* The holding at the exchange, the adapter's and the engine's.
PositionInv ==
    /\ netPosition = position.net + IF FillQueued THEN Sign(Last(responses).side) ELSE 0
    /\ \A id \in Outstanding : netPosition + Sign(known[id].side) \in {-1, 0, 1}
    /\ LET before == netPosition + IF account = "holding" THEN 1 ELSE 0
       IN  IF \E id \in Outstanding : Traded(id)
           THEN \A id \in Outstanding : holding = before + Sign(known[id].side)
           ELSE holding = before
    /\ submitting => /\ requests # << >>
                     /\ netPosition = IF Head(requests).offset = "OPEN" THEN 0
                                      ELSE - Sign(Head(requests).side)

StopInv ==
    /\ stopDone => Stopping /\ ~ submitting /\ Outstanding = {}
    /\ CallbacksNeverFail

SimNowInv == TypeOK /\ StartInv /\ VenueInv /\ EngineInv /\ PositionInv /\ StopInv
-----------------------------------------------------------------------------
(***************************************************************************)
(* The engine is Participant, and what was proved of that applies.         *)
(***************************************************************************)
LEMMA Conversations == Len(Conversation) = 8
BY DEF Conversation

LEMMA EngineAssumption == EngineProofs!ParticipantAssumption
BY SimNowAssumption DEF EngineProofs!ParticipantAssumption

LEMMA SameNext == Engine!Next <=> EngineProofs!Next
BY DEF Engine!Next, Engine!Decide, Engine!HandleJevDecision, Engine!OpenDecision,
       Engine!CloseDecision, Engine!VenueFree, Engine!OpeningBlocked, Engine!MoveOrder,
       Engine!MoveCloseOrder, Engine!NewOrder, Engine!CancelOrder, Engine!RiskAllows,
       Engine!CloseOffset, Engine!CloseableQty, Engine!Sign, Engine!Opposite,
       Engine!Magnitude, Engine!Smaller, Engine!Working, Engine!Sides,
       Engine!ReceiveResponse, Engine!Answers, Engine!Response,
       Engine!HandleClientResponse, Engine!OnFill, Engine!Agrees,
       Engine!OnOrderUpdate, Engine!Updated,
       EngineProofs!Next, EngineProofs!Decide, EngineProofs!HandleJevDecision,
       EngineProofs!OpenDecision, EngineProofs!CloseDecision, EngineProofs!VenueFree,
       EngineProofs!OpeningBlocked, EngineProofs!MoveOrder, EngineProofs!MoveCloseOrder,
       EngineProofs!NewOrder, EngineProofs!CancelOrder, EngineProofs!RiskAllows,
       EngineProofs!CloseOffset, EngineProofs!CloseableQty, EngineProofs!Sign,
       EngineProofs!Opposite, EngineProofs!Magnitude, EngineProofs!Smaller,
       EngineProofs!Working, EngineProofs!Sides, EngineProofs!ReceiveResponse,
       EngineProofs!Answers, EngineProofs!Response, EngineProofs!HandleClientResponse,
       EngineProofs!OnFill, EngineProofs!Agrees, EngineProofs!OnOrderUpdate,
       EngineProofs!Updated

LEMMA EngineSteps ==
    ASSUME EngineProofs!ParticipantInv, Engine!Next \/ UNCHANGED engineVars
    PROVE  EngineProofs!ParticipantInv'
BY EngineAssumption, SameNext, EngineProofs!NextInv DEF engineVars, EngineProofs!vars

\* What of the engine's invariant is used here.
LEMMA EngineTypes ==
    ASSUME EngineProofs!ParticipantInv
    PROVE  /\ orders \in [Sides -> [id : Nat, price : Prices \cup {PriceInvalid}, qty : Nat,
                                    offset : Offsets \cup {"INVALID"},
                                    state : {"INVALID", "PENDING_NEW", "LIVE",
                                             "PENDING_CANCEL", "DEAD"}]]
           /\ nextOrderId \in Nat \ {0}
           /\ position \in [net : Int, today : Nat, yesterday : Nat]
           /\ ~ fault
           /\ position.today + position.yesterday =
                  IF position.net < 0 THEN - position.net ELSE position.net
           /\ Sides = {"BUY", "SELL"}
<1>1. EngineProofs!Sides = {"BUY", "SELL"} /\ Sides = {"BUY", "SELL"}
  BY DEF EngineProofs!Sides, Engine!Sides, Sides
<1>. QED BY <1>1, SimNowAssumption
     DEF EngineProofs!ParticipantInv, EngineProofs!TypeOK, EngineProofs!HoldingsAgree,
         EngineProofs!NoDisagreement, EngineProofs!Magnitude, EngineProofs!Offsets,
         EngineProofs!OrderStates, Offsets

LEMMA Signs == \A side \in Sides : Sign(side) = 1 \/ Sign(side) = -1
BY DEF Sides, Engine!Sides, Sign, Engine!Sign
-----------------------------------------------------------------------------
(***************************************************************************)
(* The start, and the steps that concern no order.                         *)
(***************************************************************************)
LEMMA InitSimNow == Init => SimNowInv
<1>. SUFFICES ASSUME Init PROVE SimNowInv
  OBVIOUS
<1>. USE DEF Init
<1>1. Engine!Init <=> EngineProofs!Init
  BY DEF Engine!Init, Engine!Sides, Engine!NoOrder, EngineProofs!Init, EngineProofs!Sides,
         EngineProofs!NoOrder
<1>2. EngineProofs!ParticipantInv
  BY <1>1, EngineAssumption, EngineProofs!InitInv
<1>3. /\ nextOrderId = 1 /\ position.net = 0 /\ Outstanding = {}
      /\ DOMAIN known = {} /\ DOMAIN book = {} /\ DOMAIN requests = {}
      /\ DOMAIN responses = {} /\ DOMAIN outgoing = {}
  BY DEF Engine!Init, Outstanding
<1>4. TypeOK
  <2>1. \A S : << >> \in Seq(S) /\ << >> \in [{} -> S]
    OBVIOUS
  <2>2. /\ requests \in Seq(Request) /\ responses \in Seq(ResponseSet)
        /\ outgoing \in Seq(MessageSet) /\ known \in [DOMAIN known -> Record]
        /\ book \in [DOMAIN book -> BookOrder]
    BY <1>3, <2>1
  <2>3. holding \in Int
    OBVIOUS
  <2>4. /\ main = "starting" /\ account \in {"empty", "resting", "holding"}
        /\ netPosition = 0 /\ stage = 0
        /\ venueReady \in BOOLEAN /\ ready \in BOOLEAN /\ asked \in BOOLEAN
        /\ active \in BOOLEAN /\ confirming \in BOOLEAN /\ submitting \in BOOLEAN
        /\ overflow \in BOOLEAN /\ stopDone \in BOOLEAN
    OBVIOUS
  <2>5. DOMAIN book \subseteq DOMAIN known /\ DOMAIN known \subseteq 1 .. Newest
    BY <1>3
  <2>. HIDE DEF Init
  <2>. QED
    BY <2>2, <2>3, <2>4, <2>5 DEF TypeOK
<1>5. StartInv
  BY <1>3, Conversations DEF StartInv, StartUpDone
<1>6. VenueInv
  BY DEF VenueInv, OutgoingInv
<1>7. EngineInv
  BY <1>2, <1>3 DEF EngineInv
<1>8. PositionInv
  BY <1>3 DEF PositionInv, FillQueued
<1>9. StopInv
  BY DEF StopInv, CallbacksNeverFail
<1>. QED BY <1>4, <1>5, <1>6, <1>7, <1>8, <1>9 DEF SimNowInv

\* No order, request or response is touched.
Untouched ==
    UNCHANGED <<engineVars, requests, responses, known, netPosition, outgoing, exchangeVars>>

LEMMA UntouchedKeeps ==
    ASSUME SimNowInv, Untouched, submitting' => submitting
    PROVE  VenueInv' /\ EngineInv' /\ PositionInv'
<1>. USE DEF SimNowInv, Untouched, engineVars, exchangeVars
<1>1. Outstanding' = Outstanding
  BY DEF Outstanding
<1>2. VenueInv'
  BY DEF VenueInv, OutgoingInv, Truthful, RecordInv, Traded, Over, Inserting
<1>3. EngineInv'
  <2>1. EngineProofs!ParticipantInv'
    BY EngineSteps DEF EngineInv
  <2>. QED BY <1>1, <2>1 DEF EngineInv, Current, Engine!Working, Newest
<1>4. PositionInv'
  BY <1>1 DEF PositionInv, FillQueued, Traded
<1>. QED BY <1>2, <1>3, <1>4

\* A failure, and news of the state for the engine.
LEMMA Publishes ==
    ASSUME TypeOK, NEW enabled \in BOOLEAN, NEW refreshed \in BOOLEAN,
           PublishState(enabled, refreshed)
    PROVE  /\ ready' \in BOOLEAN /\ venueReady' \in BOOLEAN
           /\ ~ enabled /\ ~ ready /\ ~ venueReady => ~ ready' /\ ~ venueReady'
BY DEF TypeOK, PublishState

LEMMA Fails ==
    ASSUME TypeOK, NEW reason, reason # "callback", Fail(reason)
    PROVE  /\ ready' \in BOOLEAN /\ venueReady' \in BOOLEAN /\ active' \in BOOLEAN
           /\ ~ ready /\ ~ venueReady => ~ ready' /\ ~ venueReady'
           /\ CallbacksNeverFail => CallbacksNeverFail'
           /\ "overflow" \in failures => "overflow" \in failures'
<1>1. PublishState(FALSE, FALSE) /\ failures' = failures \cup {reason} /\ active' = FALSE
  BY DEF Fail
<1>. QED BY <1>1, Publishes DEF CallbacksNeverFail

\* Steps of the gateway that touch no order.
LEMMA GatewayQuietKeeps ==
    ASSUME SimNowInv,
           \/ \E lost \in BOOLEAN : GatewayFails(lost)
           \/ CheckOverflow
           \/ \E sent, usable, refreshed \in BOOLEAN : PollTrading(sent, usable, refreshed)
           \/ AnswerStartUp \/ Confirm
    PROVE  SimNowInv'
<1>. USE DEF SimNowInv, startVars
<1>1. Untouched /\ UNCHANGED <<submitting, main, stopDone>>
  BY DEF Untouched, GatewayFails, CheckOverflow, PollTrading, AnswerStartUp, Confirm
<1>2. VenueInv' /\ EngineInv' /\ PositionInv'
  BY <1>1, UntouchedKeeps
<1>3. Outstanding' = Outstanding /\ Stopping' = Stopping
  BY <1>1 DEF Untouched, Outstanding, Stopping
<1>4. ASSUME CallbacksNeverFail' PROVE StopInv'
  BY <1>1, <1>3, <1>4 DEF StopInv
<1>5. ASSUME NEW lost \in BOOLEAN, GatewayFails(lost) PROVE SimNowInv'
  <2>1. \E reason : reason # "callback" /\ Fail(reason)
    BY <1>5 DEF GatewayFails
  <2>2. TypeOK'
    BY <1>1, <1>5, <2>1, Fails
       DEF TypeOK, Untouched, engineVars, exchangeVars, Newest, GatewayFails
  <2>3. StartInv' /\ CallbacksNeverFail'
    BY <1>1, <1>5, <2>1, Fails
       DEF StartInv, StartUpDone, SlippedThrough, Untouched, engineVars, exchangeVars,
           GatewayFails, StopInv
  <2>. QED BY <1>2, <1>4, <2>2, <2>3
<1>6. CASE CheckOverflow
  <2>1. Fail("overflow") /\ "overflow" \in failures'
    BY <1>6 DEF CheckOverflow, Fail
  <2>2. TypeOK'
    BY <1>1, <1>6, <2>1, Fails
       DEF TypeOK, Untouched, engineVars, exchangeVars, Newest, CheckOverflow
  <2>3. StartInv' /\ CallbacksNeverFail'
    BY <1>1, <1>6, <2>1, Fails
       DEF StartInv, StartUpDone, SlippedThrough, Untouched, engineVars, exchangeVars,
           CheckOverflow, StopInv
  <2>. QED BY <1>2, <1>4, <2>2, <2>3
<1>7. ASSUME NEW sent \in BOOLEAN, NEW usable \in BOOLEAN, NEW refreshed \in BOOLEAN,
             PollTrading(sent, usable, refreshed)
      PROVE  SimNowInv'
  <2>. DEFINE enabled == usable /\ StartUpDone /\ ~ Fatal
  <2>1. /\ enabled \in BOOLEAN
        /\ enabled => StartUpDone
        /\ PublishState(enabled, refreshed) /\ asked' = (asked \/ sent) /\ confirming' = enabled
        /\ UNCHANGED <<stage, active, overflow, failures>>
    BY <1>7 DEF PollTrading
  <2>. HIDE DEF enabled
  <2>2. /\ asked' \in BOOLEAN /\ confirming' \in BOOLEAN
        /\ ready' \in BOOLEAN /\ venueReady' \in BOOLEAN
        /\ ~ enabled /\ ~ ready /\ ~ venueReady => ~ ready' /\ ~ venueReady'
    <3>1. asked' \in BOOLEAN /\ confirming' \in BOOLEAN
      BY <2>1 DEF TypeOK
    <3>2. /\ ready' \in BOOLEAN /\ venueReady' \in BOOLEAN
          /\ ~ enabled /\ ~ ready /\ ~ venueReady => ~ ready' /\ ~ venueReady'
      <4>1. TypeOK /\ enabled \in BOOLEAN /\ PublishState(enabled, refreshed)
        BY <2>1
      <4>. QED BY <4>1, Publishes
    <3>. QED BY <3>1, <3>2
  <2>3. TypeOK'
    BY <1>1, <2>1, <2>2 DEF TypeOK, Untouched, engineVars, exchangeVars, Newest
  <2>4. StartInv' /\ CallbacksNeverFail'
    BY <1>1, <2>1, <2>2
       DEF StartInv, StartUpDone, SlippedThrough, Untouched, engineVars, exchangeVars,
           StopInv, CallbacksNeverFail
  <2>. QED BY <1>2, <1>4, <2>3, <2>4
<1>8. CASE AnswerStartUp
  <2>1. CASE StartUpRefused
    <3>1. Fail("account") /\ UNCHANGED <<stage, asked>>
      BY <1>8, <2>1 DEF AnswerStartUp
    <3>2. TypeOK'
      BY <1>1, <1>8, <3>1, Fails
         DEF TypeOK, Untouched, engineVars, exchangeVars, Newest, AnswerStartUp
    <3>3. StartInv' /\ CallbacksNeverFail'
      BY <1>1, <1>8, <3>1, Fails
         DEF StartInv, StartUpDone, SlippedThrough, Untouched, engineVars, exchangeVars,
             AnswerStartUp, StopInv
    <3>. QED BY <1>2, <1>4, <3>2, <3>3
  <2>2. CASE ~ StartUpRefused
    <3>1. /\ stage' = stage + 1 /\ asked' = (stage' < 4) /\ stage \in 0 .. 7
          /\ UNCHANGED <<venueReady, ready, active, failures, confirming, overflow>>
      BY <1>8, <2>2, Conversations DEF AnswerStartUp, StartUpDone, TypeOK
    <3>2. stage = 6 => holding = 0
      BY <2>2 DEF StartUpRefused, Conversation
    <3>3. stage = 7 => account # "resting"
      BY <2>2 DEF StartUpRefused, Conversation
    <3>4. account = "holding" /\ ~ StartUpDone => holding = 1
      <4>1. ~ StartUpDone => Outstanding = {} /\ netPosition = 0
        BY DEF StartInv, Outstanding, TypeOK, Newest
      <4>. QED BY <4>1 DEF PositionInv
    <3>5. asked' \in BOOLEAN
      BY <3>1
    <3>6. TypeOK'
      BY <1>1, <3>1, <3>5 DEF TypeOK, Untouched, engineVars, exchangeVars, Newest
    <3>7. StartInv' /\ CallbacksNeverFail'
      BY <1>1, <3>1, <3>2, <3>3, <3>4, Conversations
         DEF StartInv, StartUpDone, SlippedThrough, Untouched, engineVars, exchangeVars,
             StopInv, CallbacksNeverFail
    <3>. QED BY <1>2, <1>4, <3>6, <3>7
  <2>. QED BY <2>1, <2>2
<1>9. CASE Confirm
  <2>1. confirming' = FALSE /\ active' \in BOOLEAN
    BY <1>9 DEF Confirm, Fatal, TypeOK
  <2>2. TypeOK'
    BY <1>1, <1>9, <2>1 DEF TypeOK, Untouched, engineVars, exchangeVars, Newest, Confirm
  <2>3. StartInv' /\ CallbacksNeverFail'
    BY <1>1, <1>9
       DEF StartInv, StartUpDone, SlippedThrough, Untouched, engineVars, exchangeVars,
           Confirm, StopInv, CallbacksNeverFail
  <2>. QED BY <1>2, <1>4, <2>2, <2>3
<1>. QED BY <1>5, <1>6, <1>7, <1>8, <1>9

\* Steps of the market thread and of main.
LEMMA MainQuietKeeps ==
    ASSUME SimNowInv,
           \/ LoseEvent \/ \E lost \in BOOLEAN : MarketFails(lost)
           \/ StartTrading \/ \E timedOut \in BOOLEAN : GiveUpStart(timedOut)
           \/ DisableTrading \/ AskToStop \/ StopGateway
    PROVE  SimNowInv'
<1>. USE DEF SimNowInv, startVars
<1>1. Untouched /\ UNCHANGED <<submitting, confirming, stage, asked, stopDone>>
  BY DEF Untouched, LoseEvent, MarketFails, StartTrading, GiveUpStart, DisableTrading,
         AskToStop, StopGateway
<1>2. VenueInv' /\ EngineInv' /\ PositionInv'
  BY <1>1, UntouchedKeeps
<1>3. Stopping => Stopping'
  BY DEF Stopping, LoseEvent, MarketFails, StartTrading, GiveUpStart, DisableTrading,
         AskToStop, StopGateway, Main
<1>4. main' \in {"starting", "trading", "disabled", "quiescing", "stopped"}
  BY DEF TypeOK, LoseEvent, MarketFails, StartTrading, GiveUpStart, DisableTrading,
         AskToStop, StopGateway, Main
<1>5. /\ overflow' = TRUE \/ overflow' = overflow
      /\ active' = FALSE \/ active' = active
      /\ "overflow" \in failures => "overflow" \in failures'
      /\ CallbacksNeverFail'
  BY DEF LoseEvent, MarketFails, StartTrading, GiveUpStart, DisableTrading, AskToStop,
         StopGateway, Fatal, StopInv, CallbacksNeverFail
<1>6. /\ ready' \in BOOLEAN /\ venueReady' \in BOOLEAN
      /\ ~ ready /\ ~ venueReady => ~ ready' /\ ~ venueReady'
  <2>1. CASE StopGateway
    BY <2>1, Publishes DEF StopGateway
  <2>2. CASE ~ StopGateway
    <3>1. ready' = ready /\ (venueReady' = venueReady \/ venueReady' = FALSE)
      BY <2>2 DEF LoseEvent, MarketFails, StartTrading, GiveUpStart, DisableTrading, AskToStop
    <3>2. ready \in BOOLEAN /\ venueReady \in BOOLEAN
      BY DEF TypeOK
    <3>3. CASE venueReady' = venueReady
      BY <3>1, <3>2, <3>3
    <3>4. CASE venueReady' = FALSE
      BY <3>1, <3>2, <3>4
    <3>. QED BY <3>1, <3>3, <3>4
  <2>. QED BY <2>1, <2>2
<1>7. TypeOK'
  BY <1>1, <1>4, <1>5, <1>6 DEF TypeOK, Untouched, engineVars, exchangeVars, Newest
<1>8. StartInv'
  BY <1>1, <1>5, <1>6
     DEF StartInv, StartUpDone, SlippedThrough, Untouched, engineVars, exchangeVars
<1>9. StopInv'
  <2>1. Outstanding' = Outstanding
    BY <1>1 DEF Untouched, Outstanding
  <2>. QED BY <1>1, <1>3, <1>5, <2>1 DEF StopInv
<1>. QED BY <1>2, <1>7, <1>8, <1>9
-----------------------------------------------------------------------------
(***************************************************************************)
(* The engine's steps.                                                     *)
(***************************************************************************)

\* While the engine may decide nothing of it is under way.
LEMMA FreeEngine ==
    ASSUME SimNowInv, Engine!VenueFree
    PROVE  /\ requests = << >> /\ responses = << >> /\ Outstanding = {}
           /\ netPosition = position.net
<1>. USE DEF SimNowInv
<1>1. \A side \in Sides : ~ Engine!Working(side)
  BY SimNowAssumption DEF Engine!VenueFree, Sides
<1>2. \A r \in Request : ~ Current(r)
  BY <1>1 DEF Current, Request
<1>3. requests = << >>
  <2>1. requests \in Seq(Request)
    BY DEF TypeOK
  <2>2. ASSUME requests # << >> PROVE FALSE
    <3>1. 1 \in DOMAIN requests /\ requests[1] \in Request
      BY <2>1, <2>2
    <3>. QED BY <1>2, <3>1 DEF EngineInv
  <2>. QED BY <2>2
<1>4. Outstanding = {}
  BY <1>1 DEF EngineInv, Current, Outstanding, TypeOK, Record
<1>5. responses = << >>
  <2>1. responses \in Seq(ResponseSet)
    BY DEF TypeOK
  <2>2. ASSUME responses # << >> PROVE FALSE
    <3>1. 1 \in DOMAIN responses /\ responses[1] \in ResponseSet
      BY <2>1, <2>2
    <3>. QED BY <1>1, <3>1 DEF EngineInv, Current, ResponseSet
  <2>. QED BY <2>2
<1>6. position.net \in Int
  BY EngineTypes DEF EngineInv
<1>. QED BY <1>3, <1>4, <1>5, <1>6 DEF PositionInv, FillQueued

\* A decision gives out the next id, for one lot.
LEMMA Decided ==
    ASSUME SimNowInv, Engine!Decide
    PROVE  /\ Engine!VenueFree
           /\ nextOrderId' = nextOrderId + 1 /\ UNCHANGED position
           /\ \E side \in Sides, price \in Prices, offset \in Offsets :
                  orders' = [orders EXCEPT ![side] =
                                [id |-> nextOrderId, price |-> price, qty |-> 1,
                                 offset |-> offset, state |-> "PENDING_NEW"]]
<1>. USE DEF SimNowInv
<1>0. EngineProofs!ParticipantInv
  BY DEF EngineInv
<1>1. Engine!VenueFree /\ UNCHANGED position
  BY DEF Engine!Decide, Engine!HandleJevDecision, Engine!OpenDecision, Engine!CloseDecision
<1>2. \A side \in Sides : orders[side].state # "LIVE"
  BY <1>1, SimNowAssumption DEF Engine!VenueFree, Engine!Working, Sides
<1>3. ASSUME NEW side \in Sides, NEW price \in Prices, NEW lossBreached \in BOOLEAN,
             Engine!OpenDecision(side, price, lossBreached)
      PROVE  /\ nextOrderId' = nextOrderId + 1
             /\ orders' = [orders EXCEPT ![side] =
                              [id |-> nextOrderId, price |-> price, qty |-> 1,
                               offset |-> "OPEN", state |-> "PENDING_NEW"]]
  BY <1>2, <1>3, SimNowAssumption DEF Engine!OpenDecision, Engine!MoveOrder, Engine!NewOrder
<1>4. ASSUME NEW price \in Prices, NEW lossBreached \in BOOLEAN,
             Engine!CloseDecision(price, lossBreached)
      PROVE  \E side \in Sides, offset \in Offsets :
                /\ nextOrderId' = nextOrderId + 1
                /\ orders' = [orders EXCEPT ![side] =
                                 [id |-> nextOrderId, price |-> price, qty |-> 1,
                                  offset |-> offset, state |-> "PENDING_NEW"]]
  <2>. DEFINE side == IF position.net > 0 THEN "SELL" ELSE "BUY"
              offset == Engine!CloseOffset(OrderQty)
              qty == Engine!Smaller(OrderQty, Engine!CloseableQty(offset))
  <2>1. /\ offset # "INVALID" /\ Engine!RiskAllows(side, offset, qty, lossBreached)
        /\ Engine!MoveOrder(side, price, qty, offset, lossBreached)
    BY <1>4 DEF Engine!CloseDecision, Engine!MoveCloseOrder
  <2>2. side \in Sides
    BY <1>0, EngineTypes
  <2>3. offset \in {"CLOSE_TODAY", "CLOSE_YESTERDAY"}
    BY <2>1 DEF Engine!CloseOffset
  <2>4. qty = 1
    <3>1. qty # 0
      BY <2>1 DEF Engine!RiskAllows
    <3>2. Engine!CloseableQty(offset) \in Nat
      BY <1>0, <2>3, EngineTypes DEF Engine!CloseableQty
    <3>. QED BY <3>1, <3>2, SimNowAssumption DEF Engine!Smaller
  <2>. HIDE DEF side, offset, qty
  <2>5. Engine!NewOrder(side, price, qty, offset, lossBreached)
    BY <1>2, <2>1, <2>2 DEF Engine!MoveOrder
  <2>. QED BY <2>2, <2>3, <2>4, <2>5 DEF Engine!NewOrder, Offsets
<1>. QED BY <1>1, <1>3, <1>4
     DEF Engine!Decide, Engine!HandleJevDecision, Sides, Offsets

LEMMA EngineDecidesKeeps ==
    ASSUME SimNowInv, EngineDecides
    PROVE  SimNowInv'
<1>. USE DEF SimNowInv
<1>1. /\ venueReady /\ Engine!Decide
      /\ UNCHANGED <<venueReady, responses, known, netPosition, ready, stage, asked, active,
                     confirming, submitting, overflow, failures, stopDone, main, outgoing,
                     callbacks, book, account, holding>>
  BY DEF EngineDecides, startVars, exchangeVars
<1>2. PICK side \in Sides :
          /\ orders'[side] # orders[side]
          /\ requests' = Append(requests, [id |-> orders'[side].id, side |-> side,
                                           offset |-> orders'[side].offset])
  BY DEF EngineDecides, Sides
<1>3. /\ requests = << >> /\ responses = << >> /\ Outstanding = {}
      /\ netPosition = position.net
  BY <1>1, Decided, FreeEngine
<1>4. nextOrderId' = nextOrderId + 1 /\ UNCHANGED position
  BY <1>1, Decided
<1>5. EngineProofs!ParticipantInv /\ EngineProofs!ParticipantInv'
  BY <1>1, EngineSteps DEF EngineInv, Engine!Next
<1>6. nextOrderId \in Nat \ {0}
  BY <1>5, EngineTypes
<1>7. /\ orders'[side].id = nextOrderId /\ orders'[side].qty = 1
      /\ orders'[side].offset \in Offsets /\ Engine!Working(side)'
  <2>1. PICK s \in Sides, price \in Prices, offset \in Offsets :
            orders' = [orders EXCEPT ![s] =
                          [id |-> nextOrderId, price |-> price, qty |-> 1,
                           offset |-> offset, state |-> "PENDING_NEW"]]
    BY <1>1, Decided
  <2>2. s = side
    BY <1>2, <1>5, <2>1, EngineTypes
  <2>. QED BY <1>5, <2>1, <2>2, EngineTypes DEF Engine!Working
<1>8. requests' = <<[id |-> nextOrderId, side |-> side, offset |-> orders'[side].offset]>>
  BY <1>2, <1>3, <1>7
<1>9. Outstanding' = {}
  BY <1>1, <1>3 DEF Outstanding
<1>10. TypeOK'
  <2>1. [id |-> nextOrderId, side |-> side, offset |-> orders'[side].offset] \in Request
    BY <1>6, <1>7 DEF Request
  <2>2. requests' \in Seq(Request)
    BY <1>8, <2>1
  <2>3. DOMAIN known \subseteq 1 .. Newest'
    BY <1>4, <1>6 DEF TypeOK, Newest
  <2>. QED BY <1>1, <2>2, <2>3 DEF TypeOK
<1>11. StartInv'
  BY <1>1 DEF StartInv, StartUpDone, SlippedThrough
<1>12. VenueInv'
  BY <1>1 DEF VenueInv, OutgoingInv, Truthful, RecordInv, Traded, Over, Inserting
<1>13. EngineInv'
  <2>1. Newest' = nextOrderId /\ Newest' \notin DOMAIN known
    <3>1. \A id \in DOMAIN known : id \in Int /\ id <= Newest
      BY <1>6 DEF TypeOK, Newest
    <3>. QED BY <1>4, <1>6, <3>1 DEF Newest
  <2>2. \A i \in DOMAIN requests' : i = 1 /\ Current(requests[i])'
    BY <1>7, <1>8, <2>1 DEF Current, Engine!Working
  <2>. QED BY <1>1, <1>3, <1>5, <1>8, <1>9, <2>1, <2>2 DEF EngineInv
<1>14. PositionInv'
  BY <1>1, <1>3, <1>4, <1>9 DEF PositionInv, FillQueued
<1>15. StopInv'
  BY <1>1, <1>9 DEF StopInv, Stopping, CallbacksNeverFail
<1>. QED BY <1>10, <1>11, <1>12, <1>13, <1>14, <1>15

\* What a response does to the engine: one that ends its order frees the slot,
\* and an execution moves the holding by a lot.
LEMMA Received ==
    ASSUME SimNowInv, responses # << >>, Engine!HandleClientResponse(Head(responses))
    PROVE  LET r == Head(responses)
           IN  /\ r \in ResponseSet /\ r = responses[1] /\ Current(r)
               /\ Engine!Next
               /\ UNCHANGED nextOrderId
               /\ position'.net = position.net + IF r.type = "FILLED" THEN Sign(r.side) ELSE 0
               /\ r.type \notin Ending =>
                      /\ \A s \in Sides : /\ orders'[s].id = orders[s].id
                                          /\ orders'[s].qty = orders[s].qty
                                          /\ orders'[s].offset = orders[s].offset
                                          /\ Engine!Working(s) => Engine!Working(s)'
<1>. USE DEF SimNowInv
<1>. DEFINE r == Head(responses)
<1>1. r \in ResponseSet /\ r = responses[1] /\ 1 \in DOMAIN responses
  BY DEF TypeOK
<1>2. Current(r) /\ r.exec = IF r.type = "FILLED" THEN 1 ELSE 0
  BY <1>1 DEF EngineInv
<1>3. EngineProofs!ParticipantInv
  BY DEF EngineInv
<1>4. /\ r.side \in Sides /\ r.id \in 1 .. Newest /\ r.id = orders[r.side].id /\ r.leaves = 0
      /\ r.offset = orders[r.side].offset /\ Engine!Working(r.side) /\ orders[r.side].qty = 1
      /\ r.type \in Types
      /\ r = [type |-> r.type, id |-> r.id, side |-> r.side, offset |-> r.offset,
              exec |-> r.exec, leaves |-> r.leaves]
  BY <1>1, <1>2, <1>3, EngineTypes DEF ResponseSet, Current, Newest
<1>. HIDE DEF r
<1>5. Engine!HandleClientResponse(r)
  BY DEF r
<1>6. CASE r.type = "FILLED"
  <2>1. r \in Engine!Answers(r.side)
    BY <1>2, <1>4, <1>6 DEF Engine!Answers, Engine!Response
  <2>2. Engine!Next
    BY <1>4, <1>5, <2>1 DEF Engine!Next, Engine!ReceiveResponse, Sides
  <2>3. EngineProofs!ParticipantInv'
    BY <1>3, <2>2, EngineSteps
  <2>4. ~ fault'
    BY <2>3 DEF EngineProofs!ParticipantInv, EngineProofs!NoDisagreement
  <2>5. position'.net = position.net + Engine!Sign(r.side) * r.exec
    BY <1>5, <1>6, <2>4, SimNowAssumption DEF Engine!HandleClientResponse, Engine!Agrees
  <2>6. position.net \in Int /\ Sign(r.side) \in Int /\ Engine!Sign(r.side) = Sign(r.side)
    BY <1>3, EngineTypes DEF Sign, Engine!Sign
  <2>7. UNCHANGED nextOrderId
    BY <1>5 DEF Engine!HandleClientResponse
  <2>. QED BY <1>1, <1>2, <1>6, <2>2, <2>5, <2>6, <2>7 DEF Ending, r
<1>7. CASE r.type # "FILLED"
  <2>1. position' = position /\ ~ fault' /\ nextOrderId' = nextOrderId
        /\ orders' = Engine!OnOrderUpdate(r)
    BY <1>5, <1>7, SimNowAssumption DEF Engine!HandleClientResponse
  <2>2. PICK a \in Engine!Answers(r.side) :
            a.type = r.type /\ a.id = r.id /\ a.side = r.side /\ a.exec = 0
    <3>1. CASE r.type = "CANCEL_REJECTED"
      <4>1. Engine!Response("CANCEL_REJECTED", r.id, r.side, "OPEN", 0, 0)
                \in Engine!Answers(r.side)
        BY <1>4 DEF Engine!Answers, Newest
      <4>. QED BY <3>1, <4>1 DEF Engine!Response
    <3>2. CASE r.type \in {"ACCEPTED", "CANCELED", "REJECTED"}
      <4>1. r \in Engine!Answers(r.side)
        BY <1>2, <1>4, <3>2 DEF Engine!Answers, Engine!Response
      <4>. QED BY <1>2, <1>7, <4>1
    <3>. QED BY <1>4, <1>7, <3>1, <3>2 DEF Types, Ending
  <2>3. Engine!HandleClientResponse(a)
    BY <1>3, <1>7, <2>1, <2>2, EngineTypes
       DEF Engine!HandleClientResponse, Engine!OnOrderUpdate, Engine!Updated
  <2>4. Engine!Next
    BY <1>4, <2>2, <2>3 DEF Engine!Next, Engine!ReceiveResponse, Sides
  <2>5. position.net \in Int
    BY <1>3, EngineTypes
  <2>6. orders' = [orders EXCEPT ![r.side] = Engine!Updated(orders[r.side], r)]
    BY <1>4, <2>1 DEF Engine!OnOrderUpdate
  <2>7. ASSUME r.type \notin Ending, NEW s \in Sides
        PROVE  /\ orders'[s].id = orders[s].id /\ orders'[s].qty = orders[s].qty
               /\ orders'[s].offset = orders[s].offset
               /\ Engine!Working(s) => Engine!Working(s)'
    BY <1>3, <1>4, <1>7, <2>6, <2>7, EngineTypes
       DEF Engine!Updated, Engine!Working, Ending, Types
  <2>. QED BY <1>1, <1>2, <1>7, <2>1, <2>4, <2>5, <2>7 DEF r
<1>. QED BY <1>6, <1>7

LEMMA EngineReceivesKeeps ==
    ASSUME SimNowInv, EngineReceives
    PROVE  SimNowInv'
<1>. USE DEF SimNowInv
<1>. DEFINE r == Head(responses)
<1>1. /\ responses # << >> /\ Engine!HandleClientResponse(r)
      /\ responses' = Tail(responses)
      /\ UNCHANGED <<venueReady, requests, known, netPosition, ready, stage, asked, active,
                     confirming, submitting, overflow, failures, stopDone, main, outgoing,
                     callbacks, book, account, holding>>
  BY DEF EngineReceives, startVars, exchangeVars
<1>2. /\ r \in ResponseSet /\ r = responses[1] /\ Current(r) /\ Engine!Next
      /\ nextOrderId' = nextOrderId
      /\ position'.net = position.net + IF r.type = "FILLED" THEN Sign(r.side) ELSE 0
      /\ r.type \notin Ending =>
             /\ \A s \in Sides : /\ orders'[s].id = orders[s].id
                                 /\ orders'[s].qty = orders[s].qty
                                 /\ orders'[s].offset = orders[s].offset
                                 /\ Engine!Working(s) => Engine!Working(s)'
  BY <1>1, Received
<1>3. /\ Len(responses) \in Nat \ {0} /\ responses \in Seq(ResponseSet)
      /\ responses' \in Seq(ResponseSet) /\ Len(responses') = Len(responses) - 1
      /\ \A i \in 1 .. Len(responses') : responses'[i] = responses[i + 1]
      /\ DOMAIN responses = 1 .. Len(responses) /\ DOMAIN responses' = 1 .. Len(responses')
  BY <1>1 DEF TypeOK
<1>. HIDE DEF r
<1>4. EngineProofs!ParticipantInv /\ EngineProofs!ParticipantInv'
  BY <1>2, EngineSteps DEF EngineInv
<1>5. Outstanding' = Outstanding /\ Newest' = Newest
  BY <1>1, <1>2 DEF Outstanding, Newest
<1>6. requests = << >>
  BY <1>1 DEF EngineInv
<1>7. TypeOK'
  BY <1>1, <1>3, <1>5 DEF TypeOK
<1>8. StartInv'
  BY <1>1, <1>2 DEF StartInv, StartUpDone, SlippedThrough
<1>9. VenueInv'
  BY <1>1 DEF VenueInv, OutgoingInv, Truthful, RecordInv, Traded, Over, Inserting
<1>10. r.type \in Ending => Len(responses) = 1 /\ Outstanding = {}
  BY <1>2, <1>3 DEF EngineInv
<1>11. EngineInv'
  <2>1. CASE r.type \in Ending
    <3>1. DOMAIN responses' = {} /\ Outstanding' = {} /\ DOMAIN requests' = {}
      BY <1>1, <1>3, <1>5, <1>6, <1>10, <2>1
    <3>. QED BY <1>1, <1>4, <1>6, <3>1 DEF EngineInv
  <2>2. CASE r.type \notin Ending
    <3>2. \A id \in DOMAIN known : known[id].side \in Sides
      BY DEF TypeOK, Record
    <3>3. \A id \in Outstanding' : Current(known[id])'
      BY <1>1, <1>2, <1>5, <2>2, <3>2 DEF EngineInv, Outstanding, Current
    <3>4. \A i \in DOMAIN responses' :
              /\ Current(responses[i])'
              /\ responses'[i].exec = IF responses'[i].type = "FILLED" THEN 1 ELSE 0
              /\ responses'[i].type \in Ending => i = Len(responses') /\ Outstanding' = {}
      <4>1. SUFFICES ASSUME NEW i \in 1 .. Len(responses')
                     PROVE  /\ Current(responses[i])'
                            /\ responses'[i].exec =
                                   IF responses'[i].type = "FILLED" THEN 1 ELSE 0
                            /\ responses'[i].type \in Ending =>
                                   i = Len(responses') /\ Outstanding' = {}
        BY <1>3
      <4>2. /\ i + 1 \in DOMAIN responses /\ responses'[i] = responses[i + 1]
            /\ responses[i + 1].side \in Sides
        <5>1. i + 1 \in 1 .. Len(responses) /\ responses'[i] = responses[i + 1]
          BY <1>3
        <5>2. responses[i + 1] \in ResponseSet
          BY <1>3, <5>1
        <5>. QED BY <1>3, <5>1, <5>2 DEF ResponseSet
      <4>3. /\ Current(responses[i + 1])
            /\ responses[i + 1].exec = IF responses[i + 1].type = "FILLED" THEN 1 ELSE 0
            /\ responses[i + 1].type \in Ending => i + 1 = Len(responses) /\ Outstanding = {}
        BY <4>2 DEF EngineInv
      <4>4. Current(responses[i])'
        BY <1>2, <1>5, <2>2, <4>2, <4>3 DEF Current
      <4>. QED BY <1>3, <1>5, <4>2, <4>3, <4>4
    <3>. QED BY <1>1, <1>4, <1>6, <3>3, <3>4 DEF EngineInv
  <2>. QED BY <2>1, <2>2
<1>12. PositionInv'
  <2>1. position.net \in Int /\ Sign(r.side) \in Int
    BY <1>4, EngineTypes DEF Sign, Engine!Sign
  <2>2. netPosition = position'.net
                      + IF FillQueued' THEN Sign(Last(responses').side) ELSE 0
    <3>1. CASE Len(responses) = 1
      <4>1. Last(responses) = r /\ ~ FillQueued'
        BY <1>2, <1>3, <3>1 DEF Last, FillQueued
      <4>. QED BY <1>1, <1>2, <2>1, <4>1 DEF PositionInv, FillQueued
    <3>2. CASE Len(responses) # 1
      <4>1. r.type \notin Ending
        BY <1>10, <3>2
      <4>2. Last(responses') = Last(responses) /\ responses' # << >>
        BY <1>3, <3>2 DEF Last
      <4>3. position'.net = position.net
        BY <1>2, <2>1, <4>1 DEF Ending
      <4>. QED BY <1>1, <4>2, <4>3 DEF PositionInv, FillQueued
    <3>. QED BY <3>1, <3>2
  <2>. QED BY <1>1, <1>5, <2>2 DEF PositionInv, Traded
<1>13. StopInv'
  BY <1>1, <1>5 DEF StopInv, Stopping, CallbacksNeverFail
<1>. QED BY <1>7, <1>8, <1>9, <1>11, <1>12, <1>13
-----------------------------------------------------------------------------
(***************************************************************************)
(* The gateway's steps.                                                    *)
(***************************************************************************)

\* What the exchange may still execute is not finished for the adapter, and that
\* is only the newest order.
LEMMA OnlyTheNewest ==
    ASSUME SimNowInv
    PROVE  /\ \A id \in Outstanding : id = Newest
           /\ \A id \in DOMAIN book : Alive(id) => id \in Outstanding
           /\ \A id : Inserting(id) => id \in Outstanding /\ id \notin DOMAIN book
           /\ \A id \in DOMAIN known : ~ (Traded(id) /\ Over(id))
<1>. USE DEF SimNowInv
<1>1. \A id \in DOMAIN known : RecordInv(id) /\ known[id] \in Record
  BY DEF VenueInv, TypeOK
<1>2. \A id \in Outstanding : id = Newest
  BY <1>1 DEF EngineInv, Current, RecordInv, Outstanding
<1>3. \A id \in DOMAIN known : ~ Traded(id) /\ ~ Over(id) => id \in Outstanding
  BY <1>1 DEF RecordInv, Outstanding, Record
<1>4. \A id \in DOMAIN book : Alive(id) => id \in Outstanding
  BY <1>3 DEF Alive, Traded, Over, TypeOK
<1>5. \A id : Inserting(id) => id \in DOMAIN known /\ id \notin DOMAIN book
  BY DEF Inserting, VenueInv, OutgoingInv
<1>6. \A id : Inserting(id) => id \in Outstanding
  BY <1>3, <1>5 DEF Traded, Over
<1>7. \A id \in DOMAIN known : ~ (Traded(id) /\ Over(id))
  BY DEF Traded, Over
<1>. QED BY <1>2, <1>4, <1>5, <1>6, <1>7

\* The request the gateway is about to handle.
LEMMA HeadRequest ==
    ASSUME SimNowInv, requests # << >>
    PROVE  /\ Head(requests) \in Request /\ Current(Head(requests))
           /\ Head(requests).id = Newest /\ Newest \notin DOMAIN known
           /\ Tail(requests) = << >> /\ responses = << >> /\ Outstanding = {}
<1>. USE DEF SimNowInv
<1>1. requests \in Seq(Request) /\ Head(requests) = requests[1] /\ 1 \in DOMAIN requests
  BY DEF TypeOK
<1>2. \A i \in DOMAIN requests : i = 1 /\ Current(requests[i]) /\ Newest \notin DOMAIN known
  BY DEF EngineInv
<1>3. Len(requests) = 1
  <2>1. Len(requests) \in DOMAIN requests
    BY <1>1
  <2>. QED BY <1>2, <2>1
<1>4. Tail(requests) = << >>
  <2>1. Tail(requests) \in Seq(Request) /\ Len(Tail(requests)) = 0
    BY <1>1, <1>3
  <2>. QED BY <2>1, EmptySeq
<1>. QED BY <1>1, <1>2, <1>4 DEF EngineInv, Current

LEMMA CheckRequestKeeps ==
    ASSUME SimNowInv, CheckRequest
    PROVE  SimNowInv'
<1>. USE DEF SimNowInv
<1>. DEFINE r == Head(requests)
<1>1. /\ requests # << >> /\ ~ submitting
      /\ UNCHANGED <<orders, nextOrderId, position, fault, venueReady, known, netPosition,
                     ready, stage, asked, active, confirming, overflow, failures, stopDone,
                     main, outgoing, callbacks, book, account, holding>>
  BY DEF CheckRequest, GatewayIdle, engineVars, startVars, exchangeVars
<1>2. /\ r \in Request /\ Current(r) /\ r.id = Newest /\ Newest \notin DOMAIN known
      /\ Tail(requests) = << >> /\ responses = << >> /\ Outstanding = {}
  BY <1>1, HeadRequest
<1>. HIDE DEF r
<1>3. Outstanding' = {} /\ Newest' = Newest /\ \A o : Current(o)' <=> Current(o)
  BY <1>1, <1>2 DEF Outstanding, Newest, Current, Engine!Working
<1>4. EngineProofs!ParticipantInv'
  BY <1>1, EngineSteps DEF EngineInv, engineVars
<1>5. StartUpDone
  BY <1>1 DEF StartInv
<1>6. VenueInv'
  BY <1>1 DEF VenueInv, OutgoingInv, Truthful, RecordInv, Traded, Over, Inserting
<1>7. CASE Refused(r)
  <2>1. /\ responses' = <<Answer("REJECTED", r)>> /\ requests' = << >> /\ submitting' = FALSE
    BY <1>1, <1>2, <1>7 DEF CheckRequest, r
  <2>2. /\ Answer("REJECTED", r) \in ResponseSet /\ Answer("REJECTED", r).exec = 0
        /\ Answer("REJECTED", r).type = "REJECTED" /\ Current(Answer("REJECTED", r))
    BY <1>2 DEF Answer, Engine!Response, ResponseSet, Request, Types, Ending, Current
  <2>3. TypeOK'
    <3>1. responses' \in Seq(ResponseSet) /\ requests' \in Seq(Request)
      BY <2>1, <2>2
    <3>2. TypeOK /\ Newest' = Newest
      BY <1>3
    <3>. HIDE DEF SimNowInv
    <3>3. /\ venueReady' \in BOOLEAN /\ ready' \in BOOLEAN /\ asked' \in BOOLEAN
          /\ active' \in BOOLEAN /\ confirming' \in BOOLEAN /\ submitting' \in BOOLEAN
          /\ overflow' \in BOOLEAN /\ stopDone' \in BOOLEAN
      BY <1>1, <2>1, <3>2 DEF TypeOK
    <3>. QED BY <1>1, <3>1, <3>2, <3>3 DEF TypeOK
  <2>4. StartInv'
    BY <1>1, <1>5, <2>1 DEF StartInv, StartUpDone, SlippedThrough
  <2>5. EngineInv'
    <3>1. \A i \in DOMAIN responses' :
              i = 1 /\ i = Len(responses') /\ responses'[i] = Answer("REJECTED", r)
      BY <2>1
    <3>. QED BY <1>3, <1>4, <2>1, <2>2, <3>1 DEF EngineInv
  <2>6. PositionInv'
    <3>1. ~ FillQueued /\ ~ FillQueued'
      BY <1>2, <2>1, <2>2 DEF FillQueued, Last
    <3>. QED BY <1>1, <1>2, <1>3, <2>1, <3>1 DEF PositionInv
  <2>7. StopInv'
    BY <1>1, <1>3, <2>1 DEF StopInv, Stopping, CallbacksNeverFail
  <2>. QED BY <1>6, <2>3, <2>4, <2>5, <2>6, <2>7
<1>8. CASE ~ Refused(r)
  <2>1. requests' = requests /\ responses' = responses /\ submitting' = TRUE
    BY <1>8 DEF CheckRequest, r
  <2>2. TypeOK'
    BY <1>1, <1>3, <2>1 DEF TypeOK
  <2>3. StartInv'
    BY <1>1, <1>5, <2>1 DEF StartInv, StartUpDone, SlippedThrough
  <2>4. EngineInv'
    BY <1>1, <1>2, <1>3, <1>4, <2>1 DEF EngineInv
  <2>5. PositionInv'
    BY <1>1, <1>2, <1>3, <1>8, <2>1 DEF PositionInv, FillQueued, Refused, r
  <2>6. StopInv'
    BY <1>1, <1>3, <1>8, <2>1 DEF StopInv, Stopping, CallbacksNeverFail, Refused
  <2>. QED BY <1>6, <2>2, <2>3, <2>4, <2>5, <2>6
<1>. QED BY <1>7, <1>8

\* The rest of submit.  The insert is the only one, and the adapter's position
\* says that the order leaves at most one lot.
LEMMA InsertKeeps ==
    ASSUME SimNowInv, NEW accepted \in BOOLEAN, Insert(accepted)
    PROVE  SimNowInv'
<1>. USE DEF SimNowInv
<1>. DEFINE r == Head(requests)
            new == [id |-> r.id, side |-> r.side, offset |-> r.offset, fills |-> 0,
                    reported |-> 0, accepted |-> FALSE, done |-> ~ accepted,
                    cancelSent |-> FALSE, cancelRejected |-> FALSE, terminal |-> FALSE,
                    rejected |-> FALSE]
<1>1. /\ submitting /\ submitting' = FALSE
      /\ known' = With(known, r.id, new) /\ requests' = Tail(requests)
      /\ UNCHANGED <<orders, nextOrderId, position, fault, venueReady, netPosition,
                     ready, stage, asked, active, confirming, overflow, failures, stopDone,
                     main, callbacks, book, account, holding>>
  BY DEF Insert, engineVars, startVars, exchangeVars
<1>2. /\ IF accepted
         THEN outgoing' = Append(outgoing, Message("INSERT", r)) /\ UNCHANGED responses
         ELSE responses' = Append(responses, Answer("REJECTED", r)) /\ UNCHANGED outgoing
      /\ requests # << >> /\ StartUpDone /\ ~ stopDone
      /\ netPosition = IF r.offset = "OPEN" THEN 0 ELSE - Sign(r.side)
  BY <1>1 DEF Insert, StartInv, StopInv, PositionInv
<1>3. /\ r \in Request /\ Current(r) /\ r.id = Newest /\ Newest \notin DOMAIN known
      /\ requests' = << >> /\ responses = << >> /\ Outstanding = {}
  BY <1>1, <1>2, HeadRequest
<1>. HIDE DEF r
<1>4. new \in Record /\ new.id = Newest /\ new.side = r.side /\ new.done = ~ accepted
      /\ Current(new) /\ Newest \in 1 .. Newest
  BY <1>3 DEF Record, Request, Current
<1>5. /\ DOMAIN known' = DOMAIN known \cup {Newest} /\ known'[Newest] = new
      /\ \A id \in DOMAIN known : known'[id] = known[id] /\ id # Newest
      /\ known' \in [DOMAIN known' -> Record]
  BY <1>1, <1>3, <1>4 DEF With, TypeOK
<1>6. Outstanding' = IF accepted THEN {Newest} ELSE {}
  <2>1. \A id \in DOMAIN known : known'[id].done
    BY <1>3, <1>5 DEF Outstanding
  <2>2. known'[Newest].done = ~ accepted
    BY <1>4, <1>5
  <2>. QED BY <1>5, <2>1, <2>2 DEF Outstanding
<1>. HIDE DEF new
<1>7. Newest' = Newest /\ \A o : Current(o)' <=> Current(o)
  BY <1>1 DEF Newest, Current, Engine!Working
<1>8. \A id : ~ Inserting(id)
  BY <1>3, OnlyTheNewest
<1>9. /\ Newest \notin DOMAIN book
      /\ accepted => \A i \in DOMAIN outgoing' :
             \/ /\ i \in DOMAIN outgoing /\ outgoing'[i] = outgoing[i]
                /\ outgoing[i].type # "INSERT"
             \/ i = Len(outgoing) + 1 /\ outgoing'[i] = Message("INSERT", r)
  <2>1. Newest \notin DOMAIN book
    BY <1>3 DEF TypeOK
  <2>2. \A i \in DOMAIN outgoing : outgoing[i].type # "INSERT"
    BY <1>8 DEF Inserting
  <2>3. accepted => \A i \in DOMAIN outgoing' :
            \/ i \in DOMAIN outgoing /\ outgoing'[i] = outgoing[i]
            \/ i = Len(outgoing) + 1 /\ outgoing'[i] = Message("INSERT", r)
    BY <1>2 DEF TypeOK
  <2>. QED BY <2>1, <2>2, <2>3
<1>10. \A id \in DOMAIN known : (Traded(id)' <=> Traded(id)) /\ (Over(id) => Over(id)')
  <2>1. \A id \in DOMAIN known : ~ Inserting(id)'
    BY <1>2, <1>3, <1>5, <1>8, <1>9 DEF Inserting, Message
  <2>. QED BY <1>1, <2>1 DEF Traded, Over
<1>11. TypeOK'
  <2>1. requests' \in Seq(Request)
    BY <1>3
  <2>2. responses' \in Seq(ResponseSet)
    <3>1. Answer("REJECTED", r) \in ResponseSet
      BY <1>3 DEF Answer, Engine!Response, ResponseSet, Request, Types, Ending
    <3>2. responses' = responses \/ responses' = <<Answer("REJECTED", r)>>
      BY <1>2, <1>3
    <3>3. responses' = << >> \/ responses' = <<Answer("REJECTED", r)>>
      BY <1>3, <3>2
    <3>4. << >> \in Seq(ResponseSet) /\ <<Answer("REJECTED", r)>> \in Seq(ResponseSet)
      BY <3>1
    <3>. QED BY <3>3, <3>4
  <2>3. outgoing' \in Seq(MessageSet)
    <3>1. Message("INSERT", r) \in MessageSet
      BY <1>3 DEF Message, MessageSet, Request
    <3>2. outgoing \in Seq(MessageSet)
      BY DEF TypeOK
    <3>3. CASE accepted
      BY <1>2, <3>1, <3>2, <3>3
    <3>4. CASE ~ accepted
      BY <1>2, <3>2, <3>4
    <3>. QED BY <3>3, <3>4
  <2>4. DOMAIN book \subseteq DOMAIN known' /\ DOMAIN known' \subseteq 1 .. Newest
    BY <1>4, <1>5 DEF TypeOK
  <2>5. /\ venueReady' \in BOOLEAN /\ ready' \in BOOLEAN /\ asked' \in BOOLEAN
        /\ active' \in BOOLEAN /\ confirming' \in BOOLEAN /\ submitting' \in BOOLEAN
        /\ overflow' \in BOOLEAN /\ stopDone' \in BOOLEAN
    BY <1>1 DEF TypeOK
  <2>6. TypeOK /\ Newest' = Newest
    BY <1>7
  <2>. HIDE DEF SimNowInv
  <2>. QED BY <1>1, <1>5, <2>1, <2>2, <2>3, <2>4, <2>5, <2>6 DEF TypeOK
<1>12. StartInv'
  BY <1>1, <1>2 DEF StartInv, StartUpDone, SlippedThrough
<1>13. VenueInv'
  <2>1. \A c \in callbacks' : Truthful(c)'
    BY <1>1, <1>5, <1>10 DEF VenueInv, Truthful
  <2>2. OutgoingInv'
    <3>1. CASE accepted
      BY <1>1, <1>3, <1>4, <1>5, <1>9, <3>1 DEF VenueInv, OutgoingInv, Message
    <3>2. CASE ~ accepted
      BY <1>1, <1>2, <1>5, <3>2 DEF VenueInv, OutgoingInv
    <3>. QED BY <3>1, <3>2
  <2>3. \A id \in DOMAIN known : RecordInv(id)'
    BY <1>1, <1>5, <1>10 DEF VenueInv, RecordInv
  <2>4. RecordInv(Newest)'
    <3>1. ~ accepted => Over(Newest)'
      BY <1>1, <1>2, <1>7, <1>8, <1>9 DEF Over, Inserting
    <3>2. /\ known'[Newest] = new /\ new.fills = 0 /\ new.reported = 0 /\ ~ new.terminal
          /\ Newest \notin DOMAIN book'
      BY <1>1, <1>5, <1>9 DEF new
    <3>3. new.done => Over(Newest)'
      BY <1>4, <3>1
    <3>. QED BY <1>4, <1>7, <3>2, <3>3 DEF RecordInv
  <2>. QED BY <1>5, <1>7, <2>1, <2>2, <2>3, <2>4 DEF VenueInv
<1>14. EngineInv'
  <2>1. EngineProofs!ParticipantInv'
    BY <1>1, EngineSteps DEF EngineInv, engineVars
  <2>2. \A id \in Outstanding' : Current(known[id])'
    BY <1>4, <1>5, <1>6, <1>7
  <2>3. CASE accepted
    BY <1>2, <1>3, <2>1, <2>2, <2>3 DEF EngineInv
  <2>4. CASE ~ accepted
    <3>1. /\ Current(Answer("REJECTED", r)) /\ Answer("REJECTED", r).exec = 0
          /\ Answer("REJECTED", r).type = "REJECTED"
      BY <1>3 DEF Answer, Engine!Response, Current
    <3>2. \A i \in DOMAIN responses' :
              i = 1 /\ i = Len(responses') /\ responses'[i] = Answer("REJECTED", r)
      BY <1>2, <1>3, <2>4
    <3>. QED BY <1>3, <1>6, <1>7, <2>1, <2>2, <2>4, <3>1, <3>2 DEF EngineInv
  <2>. QED BY <2>3, <2>4
<1>15. PositionInv'
  <2>1. ~ FillQueued /\ ~ FillQueued'
    BY <1>2, <1>3 DEF FillQueued, Last, Answer, Engine!Response
  <2>2. accepted => netPosition + Sign(r.side) \in {-1, 0, 1}
    BY <1>2, <1>3, Signs DEF Request
  <2>3. ~ (\E id \in Outstanding' : Traded(id)')
    BY <1>1, <1>6, <1>9 DEF Traded
  <2>. QED BY <1>1, <1>3, <1>4, <1>5, <1>6, <2>1, <2>2, <2>3 DEF PositionInv
<1>16. StopInv'
  BY <1>1, <1>2 DEF StopInv, CallbacksNeverFail
<1>. QED BY <1>11, <1>12, <1>13, <1>14, <1>15, <1>16
-----------------------------------------------------------------------------
(***************************************************************************)
(* Callbacks.                                                              *)
(***************************************************************************)

\* Of an order a callback changes only what it has become.
Same(p, o) ==
    /\ p \in Record /\ p.id = o.id /\ p.side = o.side /\ p.offset = o.offset
    /\ p.fills = o.fills

LEMMA CancelRejectedOnce ==
    ASSUME NEW o \in Record
    PROVE  LET e == CancelRejected(o)
           IN  /\ Same(e.order, o) /\ e.order.reported = o.reported
               /\ e.order.done <=> o.done
               /\ e.order.terminal <=> o.terminal
               /\ e.types = << >> \/ e.types = <<"CANCEL_REJECTED">>
BY DEF CancelRejected, Effect, Same, Record

\* A terminal status finishes an order unless an execution is still to come.
LEMMA FinishedUnlessTraded ==
    ASSUME NEW o \in Record, ~ o.done, o.fills = 0
    PROVE  LET e == Finished(o)
           IN  /\ Same(e.order, o) /\ e.order.reported = o.reported
               /\ e.order.terminal <=> o.terminal
               /\ e.order.done => o.terminal /\ o.reported = 0
               /\ IF e.order.done THEN e.types = <<"REJECTED">> \/ e.types = <<"CANCELED">>
                                  ELSE e.types = << >>
<1>1. CASE o.terminal /\ o.reported = 0
  <2>1. Finished(o) = Effect([o EXCEPT !.done = TRUE],
                             IF o.rejected THEN <<"REJECTED">> ELSE <<"CANCELED">>)
    BY <1>1 DEF Finished
  <2>2. /\ Finished(o).order = [o EXCEPT !.done = TRUE]
        /\ Finished(o).types = <<"REJECTED">> \/ Finished(o).types = <<"CANCELED">>
    BY <2>1 DEF Effect
  <2>3. /\ Same(Finished(o).order, o) /\ Finished(o).order.reported = o.reported
        /\ Finished(o).order.terminal <=> o.terminal
        /\ Finished(o).order.done
    BY <2>2 DEF Same, Record
  <2>. QED BY <1>1, <2>2, <2>3
<1>2. CASE ~ (o.terminal /\ o.reported = 0)
  <2>1. Finished(o) = Effect(o, << >>)
    BY <1>2 DEF Finished, Record
  <2>2. Finished(o).order = o /\ Finished(o).types = << >>
    BY <2>1 DEF Effect
  <2>. QED BY <2>2 DEF Same
<1>. QED BY <1>1, <1>2

\* The responses of a callback: whatever it reports of the order that goes on, and
\* the end at most, and last.
Progress == {"ACCEPTED", "CANCEL_REJECTED"}
EndsOnce(types) == \E s \in Seq(Progress), type \in Ending : types = Append(s, type)

\* What orderEvent makes of an order and publishes.
LEMMA OrderEventEffect ==
    ASSUME NEW o \in Record, NEW status, o.fills = 1 => o.done
    PROVE  LET e == OrderEvent(o, status)
           IN  /\ Same(e.order, o) /\ e.order.reported = Reported(o, status)
               /\ o.done => e.order.done /\ e.types = << >>
               /\ IF e.order.done /\ ~ o.done
                  THEN \E s \in Seq(Progress), type \in {"REJECTED", "CANCELED"} :
                           e.types = Append(s, type)
                  ELSE e.types \in Seq(Progress)
               /\ e.order.terminal => o.terminal \/ EndsOrder(status)
               /\ e.order.done /\ ~ o.done => e.order.terminal /\ e.order.reported = 0
<1>. DEFINE e == OrderEvent(o, status)
            reported == [o EXCEPT !.reported = Reported(o, status)]
            refused == IF RefusesCancel(status) THEN CancelRejected(reported)
                       ELSE Effect(reported, << >>)
            ending == [refused.order EXCEPT !.terminal = TRUE,
                                            !.rejected = (status = "insertRejected")]
            ended == Finished(ending)
<1>1. /\ Same(reported, o) /\ reported.reported = Reported(o, status)
      /\ reported.done <=> o.done
      /\ reported.terminal <=> o.terminal
  BY DEF Same, Record, Reported
<1>2. /\ Same(refused.order, o) /\ refused.order.reported = Reported(o, status)
      /\ refused.order.done <=> o.done
      /\ refused.order.terminal <=> o.terminal
      /\ refused.types \in Seq(Progress)
  <2>1. CASE RefusesCancel(status)
    <3>1. refused = CancelRejected(reported) /\ reported \in Record
      BY <1>1, <2>1 DEF Same
    <3>. HIDE DEF reported, refused
    <3>2. refused.types = << >> \/ refused.types = <<"CANCEL_REJECTED">>
      BY <3>1, CancelRejectedOnce
    <3>3. << >> \in Seq(Progress) /\ <<"CANCEL_REJECTED">> \in Seq(Progress)
      BY DEF Progress
    <3>. QED BY <1>1, <3>1, <3>2, <3>3, CancelRejectedOnce DEF Same
  <2>2. CASE ~ RefusesCancel(status)
    <3>1. refused = Effect(reported, << >>)
      BY <2>2
    <3>. HIDE DEF reported, refused
    <3>. QED BY <1>1, <3>1 DEF Effect
  <2>. QED BY <2>1, <2>2
<1>3. e = IF o.done THEN Effect(reported, << >>)
          ELSE IF EndsOrder(status) THEN Effect(ended.order, refused.types \o ended.types)
          ELSE IF o.accepted THEN refused
          ELSE Effect([refused.order EXCEPT !.accepted = TRUE],
                      refused.types \o <<"ACCEPTED">>)
  BY DEF OrderEvent
<1>4. /\ Same(ending, o) /\ ending.reported = Reported(o, status) /\ ending.terminal
      /\ ending.done <=> o.done
  <2>. HIDE DEF refused
  <2>. QED BY <1>2 DEF Same, Record
<1>. HIDE DEF e, reported, refused, ending
<1>5. ASSUME NEW type PROVE refused.types \o <<type>> = Append(refused.types, type)
  BY <1>2
<1>6. CASE o.done
  <2>1. e.order = reported /\ e.types = << >> /\ << >> \in Seq(Progress)
    BY <1>3, <1>6 DEF Effect
  <2>. QED BY <1>1, <1>6, <2>1 DEF e
<1>7. CASE ~ o.done /\ EndsOrder(status)
  <2>1. ending \in Record /\ ~ ending.done /\ ending.fills = 0
    BY <1>4, <1>7 DEF Same, Record
  <2>2. /\ Same(ended.order, ending) /\ ended.order.reported = ending.reported
        /\ ended.order.terminal
        /\ ended.order.done => ended.order.reported = 0
        /\ IF ended.order.done THEN ended.types = <<"REJECTED">> \/ ended.types = <<"CANCELED">>
                               ELSE ended.types = << >>
    BY <1>4, <2>1, FinishedUnlessTraded
  <2>. HIDE DEF ended
  <2>3. e.order = ended.order /\ e.types = refused.types \o ended.types
    BY <1>3, <1>7 DEF Effect
  <2>4. CASE ended.order.done
    <3>1. PICK type \in {"REJECTED", "CANCELED"} : ended.types = <<type>>
      BY <2>2, <2>4
    <3>2. e.types = Append(refused.types, type)
      BY <1>5, <2>3, <3>1
    <3>. QED BY <1>2, <1>4, <1>7, <2>2, <2>3, <2>4, <3>2 DEF Same, e
  <2>5. CASE ~ ended.order.done
    <3>1. e.types = refused.types
      BY <1>2, <2>2, <2>3, <2>5, ConcatEmptySeq
    <3>. QED BY <1>2, <1>4, <1>7, <2>2, <2>3, <2>5, <3>1 DEF Same, e
  <2>. QED BY <2>4, <2>5
<1>8. CASE ~ o.done /\ ~ EndsOrder(status) /\ o.accepted
  <2>1. e = refused
    BY <1>3, <1>8
  <2>. QED BY <1>2, <1>8, <2>1 DEF e
<1>9. CASE ~ o.done /\ ~ EndsOrder(status) /\ ~ o.accepted
  <2>1. /\ e.order = [refused.order EXCEPT !.accepted = TRUE]
        /\ e.types = Append(refused.types, "ACCEPTED")
    BY <1>3, <1>5, <1>9 DEF Effect
  <2>2. /\ Same(e.order, o) /\ e.order.reported = Reported(o, status)
        /\ e.order.done <=> o.done
        /\ e.order.terminal <=> o.terminal
    BY <1>2, <2>1 DEF Same, Record
  <2>3. e.types \in Seq(Progress)
    BY <1>2, <2>1 DEF Progress
  <2>. QED BY <1>9, <2>2, <2>3 DEF e
<1>. QED BY <1>6, <1>7, <1>8, <1>9

\* A callback about an order is never taken for an error, and what it makes of
\* the order is what the exchange made of it.
LEMMA CallbackEffect ==
    ASSUME SimNowInv, NEW c \in callbacks, c.id \in DOMAIN known
    PROVE  /\ ~ Unexpected(c)
           /\ LET o == known[c.id]
                  e == EffectOf(c)
              IN  /\ e.order \in Record
                  /\ e.order.id = o.id /\ e.order.side = o.side /\ e.order.offset = o.offset
                  /\ e.order.fills = 1 => e.order.done /\ Traded(c.id)
                  /\ e.order.reported = 1 => Traded(c.id)
                  /\ e.order.terminal /\ e.order.reported = 0 => Over(c.id)
                  /\ e.order.done /\ e.order.fills = 0 => Over(c.id)
                  /\ o.done => e.order.done /\ e.types = << >>
                  /\ IF e.order.done /\ ~ o.done
                     THEN \E s \in Seq(Progress), type \in Ending :
                              /\ e.types = Append(s, type)
                              /\ type = "FILLED" <=> e.order.fills = 1
                     ELSE e.types \in Seq(Progress)
<1>. USE DEF SimNowInv
<1>. DEFINE o == known[c.id]
            e == EffectOf(c)
<1>1. o \in Record /\ RecordInv(c.id) /\ Truthful(c) /\ c.id # Leftover
  BY DEF TypeOK, VenueInv, Leftover, Newest
<1>2. /\ o.fills = 1 => o.done /\ Traded(c.id)
      /\ o.reported = 1 => Traded(c.id)
      /\ o.terminal /\ o.reported = 0 => Over(c.id)
      /\ o.done /\ o.fills = 0 => Over(c.id)
      /\ o.fills \in {0, 1} /\ o.reported \in {0, 1} /\ o.done \in BOOLEAN
  BY <1>1 DEF RecordInv, Record
<1>3. ~ (Traded(c.id) /\ Over(c.id))
  BY OnlyTheNewest
<1>. HIDE DEF o
<1>4. ~ Unexpected(c)
  <2>1. c.kind = "trade" => ~ (o.done /\ o.fills = 0)
    BY <1>1, <1>2, <1>3 DEF Truthful
  <2>2. ~ o.done => ~ (o.fills > Reported(o, c.status))
    BY <1>2 DEF Reported
  <2>. QED BY <2>1, <2>2 DEF Unexpected, o
<1>5. CASE c.kind = "order"
  <2>1. e = OrderEvent(o, c.status)
    BY <1>5 DEF EffectOf, o
  <2>. HIDE DEF e
  <2>2. /\ Same(e.order, o) /\ e.order.reported = Reported(o, c.status)
        /\ o.done => e.order.done /\ e.types = << >>
        /\ IF e.order.done /\ ~ o.done
           THEN \E s \in Seq(Progress), type \in {"REJECTED", "CANCELED"} :
                    e.types = Append(s, type)
           ELSE e.types \in Seq(Progress)
        /\ e.order.terminal => o.terminal \/ EndsOrder(c.status)
        /\ e.order.done /\ ~ o.done => e.order.terminal /\ e.order.reported = 0
    BY <1>1, <1>2, <2>1, OrderEventEffect
  <2>3. /\ e.order.reported = 1 => Traded(c.id)
        /\ e.order.terminal /\ e.order.reported = 0 => Over(c.id)
    BY <1>1, <1>2, <1>5, <2>2 DEF Truthful, Reported, EndsOrder
  <2>4. e.order.done /\ e.order.fills = 0 => Over(c.id)
    BY <1>2, <2>2, <2>3 DEF Same
  <2>5. e.order.fills = 1 => o.done /\ e.order.done /\ Traded(c.id)
    BY <1>2, <2>2 DEF Same
  <2>6. IF e.order.done /\ ~ o.done
        THEN \E s \in Seq(Progress), type \in Ending :
                 /\ e.types = Append(s, type)
                 /\ type = "FILLED" <=> e.order.fills = 1
        ELSE e.types \in Seq(Progress)
    BY <2>2, <2>5 DEF Ending
  <2>. QED BY <1>4, <2>2, <2>3, <2>4, <2>5, <2>6 DEF Same, o, e
<1>6. CASE c.kind = "trade"
  <2>1. e = TradeEvent(o) /\ Traded(c.id)
    BY <1>1, <1>6 DEF EffectOf, Truthful, o
  <2>. HIDE DEF e
  <2>2. CASE o.fills = 1
    <3>1. e.order = o /\ e.types = << >> /\ << >> \in Seq(Progress)
      BY <2>1, <2>2 DEF TradeEvent, Effect
    <3>. QED BY <1>1, <1>2, <1>4, <2>2, <3>1 DEF o, e
  <2>3. CASE o.fills = 0
    <3>1. /\ e.order = [o EXCEPT !.fills = 1, !.done = TRUE] /\ e.types = <<"FILLED">>
          /\ ~ o.done
      BY <1>2, <1>3, <2>1, <2>3 DEF TradeEvent, Effect
    <3>2. e.types = Append(<< >>, "FILLED") /\ << >> \in Seq(Progress)
      BY <3>1
    <3>3. /\ e.order \in Record /\ e.order.id = o.id /\ e.order.side = o.side
          /\ e.order.offset = o.offset /\ e.order.fills = 1 /\ e.order.done
          /\ e.order.reported = o.reported
          /\ e.order.terminal <=> o.terminal
      BY <1>1, <3>1 DEF Record
    <3>4. \E s \in Seq(Progress), type \in Ending :
              /\ e.types = Append(s, type)
              /\ type = "FILLED" <=> e.order.fills = 1
      BY <3>2, <3>3 DEF Ending
    <3>. QED BY <1>2, <1>4, <2>1, <3>1, <3>3, <3>4 DEF o, e
  <2>. QED BY <1>2, <2>2, <2>3
<1>7. CASE c.kind \notin {"order", "trade"}
  <2>1. e = ErrorEvent(o, c.kind)
    BY <1>7 DEF EffectOf, o
  <2>. HIDE DEF e
  <2>2. CASE o.done
    <3>1. e.order = o /\ e.types = << >> /\ << >> \in Seq(Progress)
      BY <2>1, <2>2 DEF ErrorEvent, Effect
    <3>. QED BY <1>1, <1>2, <1>4, <2>2, <3>1 DEF o, e
  <2>3. CASE ~ o.done /\ c.kind = "insertError"
    <3>. DEFINE p == [o EXCEPT !.rejected = TRUE, !.terminal = TRUE]
    <3>1. e = Finished(p) /\ Over(c.id)
      BY <1>1, <2>1, <2>3 DEF ErrorEvent, Truthful
    <3>2. Same(p, o) /\ p.reported = o.reported /\ p.terminal /\ ~ p.done /\ p.fills = 0
      BY <1>1, <1>2, <2>3 DEF Same, Record
    <3>. HIDE DEF p
    <3>3. /\ Same(e.order, p) /\ e.order.reported = p.reported
          /\ IF e.order.done THEN e.types = <<"REJECTED">> \/ e.types = <<"CANCELED">>
                             ELSE e.types = << >>
      BY <3>1, <3>2, FinishedUnlessTraded DEF Same
    <3>4. IF e.order.done
          THEN \E s \in Seq(Progress), type \in Ending :
                   /\ e.types = Append(s, type)
                   /\ type = "FILLED" <=> e.order.fills = 1
          ELSE e.types \in Seq(Progress)
      <4>1. /\ Append(<< >>, "REJECTED") = <<"REJECTED">>
            /\ Append(<< >>, "CANCELED") = <<"CANCELED">>
            /\ << >> \in Seq(Progress)
        OBVIOUS
      <4>2. e.order.fills # 1
        BY <3>2, <3>3 DEF Same
      <4>. QED BY <3>3, <4>1, <4>2 DEF Ending
    <3>. QED BY <1>2, <1>4, <2>3, <3>1, <3>2, <3>3, <3>4 DEF Same, o, e
  <2>4. CASE ~ o.done /\ c.kind # "insertError"
    <3>1. e = CancelRejected(o)
      BY <2>1, <2>4 DEF ErrorEvent
    <3>2. /\ Same(e.order, o) /\ e.order.reported = o.reported
          /\ e.order.done <=> o.done
          /\ e.order.terminal <=> o.terminal
          /\ e.types = << >> \/ e.types = <<"CANCEL_REJECTED">>
      BY <1>1, <3>1, CancelRejectedOnce
    <3>3. << >> \in Seq(Progress) /\ <<"CANCEL_REJECTED">> \in Seq(Progress)
      BY DEF Progress
    <3>. QED BY <1>2, <1>4, <2>4, <3>2, <3>3 DEF Same, o, e
  <2>. QED BY <2>2, <2>3, <2>4
<1>. QED BY <1>5, <1>6, <1>7

\* The responses of a callback behind those that are queued.
LEMMA ResponsesBehind ==
    ASSUME responses \in Seq(ResponseSet), NEW o \in Record, NEW types \in Seq(Types)
    PROVE  LET added == [i \in DOMAIN types |-> Answer(types[i], o)]
               all == responses \o added
           IN  /\ all \in Seq(ResponseSet)
               /\ DOMAIN all = 1 .. Len(responses) + Len(types)
               /\ Len(all) = Len(responses) + Len(types)
               /\ \A i \in 1 .. Len(responses) : i \in DOMAIN responses /\ all[i] = responses[i]
               /\ \A i \in 1 .. Len(types) :
                      /\ all[Len(responses) + i].type = types[i]
                      /\ all[Len(responses) + i].id = o.id
                      /\ all[Len(responses) + i].side = o.side
                      /\ all[Len(responses) + i].offset = o.offset
                      /\ all[Len(responses) + i].exec = IF types[i] = "FILLED" THEN 1 ELSE 0
<1>. DEFINE added == [i \in DOMAIN types |-> Answer(types[i], o)]
<1>1. /\ DOMAIN types = 1 .. Len(types) /\ Len(types) \in Nat
      /\ \A i \in DOMAIN types : types[i] \in Types
  OBVIOUS
<1>2. ASSUME NEW i \in DOMAIN types
      PROVE  /\ added[i] \in ResponseSet
             /\ added[i].type = types[i] /\ added[i].id = o.id
             /\ added[i].side = o.side /\ added[i].offset = o.offset
             /\ added[i].exec = IF types[i] = "FILLED" THEN 1 ELSE 0
  BY <1>1 DEF Answer, Engine!Response, ResponseSet, Record
<1>3. added \in Seq(ResponseSet) /\ Len(added) = Len(types)
  BY <1>1, <1>2
<1>. HIDE DEF added
<1>4. /\ responses \o added \in Seq(ResponseSet)
      /\ Len(responses \o added) = Len(responses) + Len(added)
      /\ \A i \in 1 .. Len(responses) + Len(added) :
             (responses \o added)[i] = IF i <= Len(responses) THEN responses[i]
                                       ELSE added[i - Len(responses)]
  BY <1>3, ConcatProperties
<1>5. DOMAIN (responses \o added) = 1 .. Len(responses) + Len(types)
  BY <1>3, <1>4
<1>6. Len(responses) \in Nat /\ DOMAIN responses = 1 .. Len(responses)
  OBVIOUS
<1>7. \A i \in 1 .. Len(types) : (responses \o added)[Len(responses) + i] = added[i]
  BY <1>1, <1>3, <1>4, <1>6
<1>8. \A i \in 1 .. Len(responses) : (responses \o added)[i] = responses[i]
  BY <1>1, <1>3, <1>4, <1>6
<1>. QED BY <1>1, <1>2, <1>3, <1>4, <1>5, <1>6, <1>7, <1>8 DEF added

LEMMA HandleCallbackKeeps ==
    ASSUME SimNowInv, NEW c \in callbacks, HandleCallback(c)
    PROVE  SimNowInv'
<1>. USE DEF SimNowInv
<1>1. /\ ~ submitting
      /\ UNCHANGED <<orders, nextOrderId, position, fault, requests, stage, asked, confirming,
                     submitting, overflow, stopDone, main, outgoing, callbacks, book,
                     account, holding>>
  BY DEF HandleCallback, GatewayIdle, engineVars, startVars, exchangeVars
<1>2. CASE c.id \notin DOMAIN known
  <2>1. c.id = Leftover
    BY <1>2 DEF VenueInv, Truthful
  <2>2. Unexpected(c)
    BY <1>2 DEF Unexpected
  <2>3. Fail("account") /\ UNCHANGED <<responses, known, netPosition>>
    BY <2>1, <2>2 DEF HandleCallback
  <2>4. VenueInv' /\ EngineInv' /\ PositionInv'
    BY <1>1, <2>3, UntouchedKeeps DEF Untouched, engineVars, exchangeVars
  <2>5. TypeOK'
    BY <1>1, <2>3, Fails DEF TypeOK, Newest
  <2>6. StartInv'
    BY <1>1, <2>3, Fails DEF StartInv, StartUpDone, SlippedThrough
  <2>7. StopInv'
    BY <1>1, <2>3, Fails DEF StopInv, Stopping, Outstanding
  <2>. QED BY <2>4, <2>5, <2>6, <2>7
<1>3. CASE c.id \in DOMAIN known
  <2>. DEFINE o == known[c.id]
              e == EffectOf(c)
              added == [i \in DOMAIN e.types |-> Answer(e.types[i], o)]
  <2>1. /\ known' = [known EXCEPT ![c.id] = e.order] /\ responses' = responses \o added
        /\ netPosition' = IF "FILLED" \in Range(e.types) THEN netPosition + Sign(o.side)
                          ELSE netPosition
        /\ UNCHANGED <<venueReady, ready, active, failures>>
    BY <1>3, CallbackEffect DEF HandleCallback
  <2>2. /\ e.order \in Record
        /\ e.order.id = o.id /\ e.order.side = o.side /\ e.order.offset = o.offset
        /\ e.order.fills = 1 => e.order.done /\ Traded(c.id)
        /\ e.order.reported = 1 => Traded(c.id)
        /\ e.order.terminal /\ e.order.reported = 0 => Over(c.id)
        /\ e.order.done /\ e.order.fills = 0 => Over(c.id)
        /\ o.done => e.order.done /\ e.types = << >>
        /\ IF e.order.done /\ ~ o.done
           THEN \E s \in Seq(Progress), type \in Ending :
                    /\ e.types = Append(s, type)
                    /\ type = "FILLED" <=> e.order.fills = 1
           ELSE e.types \in Seq(Progress)
    BY <1>3, CallbackEffect
  <2>3. o \in Record /\ o.id = c.id /\ o.side \in Sides /\ c.id \in 1 .. Newest
    BY <1>3 DEF TypeOK, VenueInv, RecordInv, Record
  <2>. HIDE DEF e, o
  <2>4. e.types \in Seq(Types)
    <3>1. CASE e.order.done /\ ~ o.done
      <4>1. PICK s \in Seq(Progress), type \in Ending : e.types = Append(s, type)
        BY <2>2, <3>1
      <4>2. s \in Seq(Types) /\ type \in Types
        BY <4>1, SeqMonotonic DEF Progress, Types, Ending
      <4>. QED BY <4>1, <4>2
    <3>2. CASE ~ (e.order.done /\ ~ o.done)
      BY <2>2, <3>2, SeqMonotonic DEF Progress, Types
    <3>. QED BY <3>1, <3>2
  <2>5. /\ responses' \in Seq(ResponseSet)
        /\ DOMAIN responses' = 1 .. Len(responses) + Len(e.types)
        /\ Len(responses') = Len(responses) + Len(e.types)
        /\ \A i \in 1 .. Len(responses) : i \in DOMAIN responses /\ responses'[i] = responses[i]
        /\ \A i \in 1 .. Len(e.types) :
               /\ responses'[Len(responses) + i].type = e.types[i]
               /\ responses'[Len(responses) + i].id = o.id
               /\ responses'[Len(responses) + i].side = o.side
               /\ responses'[Len(responses) + i].offset = o.offset
               /\ responses'[Len(responses) + i].exec = IF e.types[i] = "FILLED" THEN 1 ELSE 0
        /\ Len(responses) \in Nat /\ Len(e.types) \in Nat
    <3>1. responses \in Seq(ResponseSet)
      BY DEF TypeOK
    <3>2. Len(responses) \in Nat /\ Len(e.types) \in Nat
      BY <2>4, <3>1
    <3>. QED BY <2>1, <2>3, <2>4, <3>1, <3>2, ResponsesBehind
  <2>6. /\ \A i \in 1 .. Len(e.types) :
               e.types[i] \in Ending => i = Len(e.types) /\ e.order.done /\ ~ o.done
        /\ e.order.done /\ ~ o.done => /\ Len(e.types) > 0 /\ e.types[Len(e.types)] \in Ending
                                       /\ e.types[Len(e.types)] = "FILLED" <=> e.order.fills = 1
        /\ "FILLED" \in Range(e.types) <=>
               e.order.done /\ ~ o.done /\ e.types[Len(e.types)] = "FILLED"
    <3>1. CASE e.order.done /\ ~ o.done
      <4>1. PICK s \in Seq(Progress), type \in Ending :
                e.types = Append(s, type) /\ (type = "FILLED" <=> e.order.fills = 1)
        BY <2>2, <3>1
      <4>2. /\ Len(e.types) = Len(s) + 1 /\ Len(s) \in Nat /\ e.types[Len(s) + 1] = type
            /\ \A i \in 1 .. Len(s) : e.types[i] = s[i] /\ s[i] \in Progress
            /\ DOMAIN e.types = 1 .. Len(s) + 1
        BY <4>1
      <4>3. \A i \in 1 .. Len(s) : e.types[i] \notin Ending
        BY <4>2 DEF Progress, Ending
      <4>4. "FILLED" \in Range(e.types) <=> type = "FILLED"
        BY <4>2, <4>3 DEF Range, Ending
      <4>. QED BY <3>1, <4>1, <4>2, <4>3, <4>4
    <3>2. CASE ~ (e.order.done /\ ~ o.done)
      <4>1. e.types \in Seq(Progress)
        BY <2>2, <3>2
      <4>2. \A i \in DOMAIN e.types : e.types[i] \in Progress
        BY <4>1
      <4>3. DOMAIN e.types = 1 .. Len(e.types)
        BY <4>1
      <4>. QED BY <3>2, <4>2, <4>3 DEF Range, Progress, Ending
    <3>. QED BY <3>1, <3>2
  <2>7. /\ DOMAIN known' = DOMAIN known /\ known'[c.id] = e.order
        /\ \A id \in DOMAIN known : id # c.id => known'[id] = known[id]
        /\ known' \in [DOMAIN known' -> Record]
    BY <1>3, <2>1, <2>2 DEF TypeOK
  <2>8. Outstanding' = IF e.order.done THEN Outstanding \ {c.id} ELSE Outstanding
    BY <1>3, <2>2, <2>7 DEF Outstanding, o
  <2>9. ~ o.done => /\ c.id \in Outstanding /\ c.id = Newest /\ Outstanding = {c.id}
                    /\ Current(o) /\ requests = << >>
                    /\ \A i \in DOMAIN responses : responses[i].type \notin Ending
    <3>1. ~ o.done => c.id \in Outstanding
      BY <1>3 DEF Outstanding, o
    <3>. QED BY <3>1, OnlyTheNewest DEF EngineInv, o
  <2>10. /\ Newest' = Newest
         /\ \A p : Current(p)' <=> Current(p)
         /\ \A id : (Traded(id)' <=> Traded(id)) /\ (Over(id)' <=> Over(id))
    BY <1>1 DEF Newest, Current, Engine!Working, Traded, Over, Inserting
  <2>11. EngineProofs!ParticipantInv'
    BY <1>1, EngineSteps DEF EngineInv, engineVars
  <2>12. StartUpDone
    BY <1>3 DEF StartInv, TypeOK, Newest
  <2>13. netPosition' \in {-1, 0, 1}
    <3>1. CASE "FILLED" \in Range(e.types)
      BY <2>1, <2>6, <2>9, <3>1 DEF PositionInv, o
    <3>2. CASE "FILLED" \notin Range(e.types)
      BY <2>1, <3>2 DEF TypeOK
    <3>. QED BY <3>1, <3>2
  <2>14. TypeOK'
    BY <1>1, <2>1, <2>5, <2>7, <2>10, <2>13 DEF TypeOK
  <2>15. StartInv'
    BY <1>1, <2>1, <2>12 DEF StartInv, StartUpDone, SlippedThrough
  <2>16. VenueInv'
    <3>1. \A k \in callbacks' : Truthful(k)'
      BY <1>1, <2>7, <2>10 DEF VenueInv, Truthful
    <3>2. OutgoingInv'
      BY <1>1, <1>3, <2>2, <2>7 DEF VenueInv, OutgoingInv, o
    <3>3. \A id \in DOMAIN known : id # c.id => RecordInv(id)'
      BY <1>1, <2>7, <2>10 DEF VenueInv, RecordInv
    <3>4. RecordInv(c.id)'
      BY <1>1, <1>3, <2>2, <2>3, <2>7, <2>10 DEF VenueInv, RecordInv, o
    <3>. QED BY <2>7, <3>1, <3>2, <3>3, <3>4 DEF VenueInv
  <2>17. EngineInv'
    <3>1. \A id \in Outstanding' : Current(known[id])'
      <4>1. SUFFICES ASSUME NEW id \in Outstanding' PROVE Current(known'[id])
        BY <2>10
      <4>2. id \in Outstanding /\ id \in DOMAIN known /\ Current(known[id])
        BY <2>8 DEF EngineInv, Outstanding
      <4>. QED BY <2>2, <2>7, <4>2 DEF Current, o
    <3>2. ASSUME NEW i \in DOMAIN responses'
          PROVE  /\ Current(responses[i])'
                 /\ responses'[i].exec = IF responses'[i].type = "FILLED" THEN 1 ELSE 0
                 /\ responses'[i].type \in Ending => i = Len(responses') /\ Outstanding' = {}
      <4>1. CASE i \in 1 .. Len(responses)
        <5>1. i \in DOMAIN responses /\ responses'[i] = responses[i]
          BY <2>5, <4>1
        <5>2. Current(responses[i])'
          BY <2>10, <5>1 DEF EngineInv, Current
        <5>3. responses[i].type \in Ending => e.types = << >> /\ Outstanding' = {}
          BY <2>2, <2>8, <2>9, <5>1 DEF EngineInv
        <5>4. responses[i].type \in Ending => Len(responses') = Len(responses)
          BY <2>5, <5>3
        <5>. QED BY <5>1, <5>2, <5>3, <5>4 DEF EngineInv
      <4>2. CASE i \notin 1 .. Len(responses)
        <5>1. PICK j \in 1 .. Len(e.types) : i = Len(responses) + j
          <6>1. i - Len(responses) \in 1 .. Len(e.types)
            BY <2>5, <4>2
          <6>. QED BY <2>5, <6>1
        <5>2. ~ o.done
          BY <2>2, <5>1
        <5>3. /\ responses'[i].type = e.types[j] /\ responses'[i].id = o.id
              /\ responses'[i].side = o.side /\ responses'[i].offset = o.offset
              /\ responses'[i].exec = IF e.types[j] = "FILLED" THEN 1 ELSE 0
          BY <2>5, <5>1
        <5>4. Current(responses[i])'
          BY <2>9, <2>10, <5>2, <5>3 DEF Current
        <5>5. e.types[j] \in Ending => i = Len(responses') /\ Outstanding' = {}
          BY <2>5, <2>6, <2>8, <2>9, <5>1, <5>2
        <5>. QED BY <5>3, <5>4, <5>5
      <4>. QED BY <4>1, <4>2
    <3>3. requests' # << >> => responses' = << >> /\ Outstanding' = {}
      <4>1. requests # << >> => Outstanding = {} /\ responses = << >>
        BY DEF EngineInv
      <4>2. requests # << >> => e.types = << >> /\ Outstanding' = {}
        BY <2>2, <2>8, <2>9, <4>1
      <4>3. requests # << >> => Len(responses') = 0
        BY <2>5, <4>1, <4>2
      <4>. QED BY <1>1, <2>5, <4>2, <4>3, EmptySeq
    <3>4. \A i \in DOMAIN requests' : /\ i = 1 /\ Current(requests[i])'
                                      /\ Newest' \notin DOMAIN known'
      BY <1>1, <2>7, <2>10 DEF EngineInv
    <3>. QED BY <2>11, <3>1, <3>2, <3>3, <3>4 DEF EngineInv
  <2>18. PositionInv'
    <3>1. position.net \in Int /\ Sign(o.side) \in Int /\ netPosition \in Int
      BY EngineTypes DEF EngineInv, TypeOK, Sign, Engine!Sign
    <3>2. CASE e.order.done /\ ~ o.done
      <4>1. Outstanding' = {}
        BY <2>8, <2>9, <3>2
      <4>2. /\ Len(e.types) > 0 /\ Len(responses') > 0
            /\ responses'[Len(responses')].type = e.types[Len(e.types)]
            /\ responses'[Len(responses')].side = o.side
        BY <2>5, <2>6, <3>2
      <4>3. ~ FillQueued
        BY <2>9, <3>2 DEF FillQueued, Last, TypeOK, Ending
      <4>4. /\ FillQueued' <=> e.order.fills = 1
            /\ Last(responses').side = o.side
        BY <2>5, <2>6, <3>2, <4>2 DEF FillQueued, Last
      <4>5. netPosition' = IF e.order.fills = 1 THEN netPosition + Sign(o.side) ELSE netPosition
        BY <2>1, <2>6, <3>2
      <4>6. netPosition = position.net
        BY <3>1, <4>3 DEF PositionInv
      <4>7. netPosition' = position'.net
                           + IF FillQueued' THEN Sign(Last(responses').side) ELSE 0
        BY <1>1, <3>1, <4>4, <4>5, <4>6
      <4>8. e.order.fills = 1 <=> \E id \in Outstanding : Traded(id)
        BY <1>3, <2>2, <2>3, <2>9, <3>2, OnlyTheNewest DEF Record
      <4>9. holding' = netPosition' + IF account' = "holding" THEN 1 ELSE 0
        BY <1>1, <2>9, <3>1, <3>2, <4>5, <4>8 DEF PositionInv, o
      <4>. QED BY <1>1, <4>1, <4>7, <4>9 DEF PositionInv
    <3>3. CASE ~ (e.order.done /\ ~ o.done)
      <4>1. Outstanding' = Outstanding /\ netPosition' = netPosition
        BY <1>3, <2>1, <2>6, <2>8, <3>3 DEF Outstanding, o
      <4>2. \A id \in Outstanding : known'[id].side = known[id].side
        BY <1>3, <2>2, <2>7 DEF Outstanding, o
      <4>3. CASE e.types = << >>
        <5>1. responses' = responses
          BY <2>1, <4>3, ConcatEmptySeq DEF TypeOK
        <5>. QED BY <1>1, <2>10, <4>1, <4>2, <5>1 DEF PositionInv, FillQueued
      <4>4. CASE e.types # << >>
        <5>1. ~ o.done /\ Len(e.types) > 0
          BY <2>2, <2>4, <4>4
        <5>2. ~ FillQueued
          BY <2>9, <5>1 DEF FillQueued, Last, TypeOK, Ending
        <5>3. ~ FillQueued'
          <6>1. responses'[Len(responses')].type = e.types[Len(e.types)]
            BY <2>5, <5>1
          <6>2. e.types[Len(e.types)] \notin Ending
            BY <2>5, <2>6, <3>3, <5>1
          <6>. QED BY <6>1, <6>2 DEF FillQueued, Last, Ending
        <5>. QED BY <1>1, <2>10, <4>1, <4>2, <5>2, <5>3 DEF PositionInv
      <4>. QED BY <4>3, <4>4
    <3>. QED BY <3>2, <3>3
  <2>19. StopInv'
    BY <1>1, <2>1, <2>8 DEF StopInv, Stopping, CallbacksNeverFail
  <2>. QED BY <2>14, <2>15, <2>16, <2>17, <2>18, <2>19
<1>. QED BY <1>2, <1>3

LEMMA LoseCallbackKeeps ==
    ASSUME SimNowInv, NEW c \in callbacks, LoseCallback(c)
    PROVE  SimNowInv'
<1>. USE DEF SimNowInv
<1>1. /\ callbacks' \subseteq callbacks /\ overflow' = TRUE
      /\ UNCHANGED <<orders, nextOrderId, position, fault, venueReady, requests, responses,
                     known, netPosition, ready, stage, asked, active, confirming, submitting,
                     failures, stopDone, main, outgoing, book, account, holding>>
  BY DEF LoseCallback, engineVars, startVars
<1>2. Newest' = Newest /\ Outstanding' = Outstanding
  BY <1>1 DEF Newest, Outstanding
<1>3. TypeOK'
  BY <1>1, <1>2 DEF TypeOK
<1>4. StartInv'
  BY <1>1 DEF StartInv, StartUpDone, SlippedThrough
<1>5. VenueInv'
  BY <1>1 DEF VenueInv, OutgoingInv, Truthful, RecordInv, Traded, Over, Inserting
<1>6. EngineInv'
  <2>1. EngineProofs!ParticipantInv'
    BY <1>1, EngineSteps DEF EngineInv, engineVars
  <2>. QED BY <1>1, <1>2, <2>1 DEF EngineInv, Current, Engine!Working
<1>7. PositionInv'
  BY <1>1, <1>2 DEF PositionInv, FillQueued, Traded
<1>8. StopInv'
  BY <1>1, <1>2 DEF StopInv, Stopping, CallbacksNeverFail
<1>. QED BY <1>3, <1>4, <1>5, <1>6, <1>7, <1>8

\* The sequence of a set of at most one element.
LEMMA SequenceOfOne == \A x : SetToSeq({x}) = <<x>>
<1>. SUFFICES ASSUME NEW x PROVE SetToSeq({x}) = <<x>>
  OBVIOUS
<1>1. Cardinality({x}) = 1 /\ 1 .. 1 = {1}
  BY FS_Singleton
<1>2. [i \in {1} |-> x] \in [1 .. 1 -> {x}]
  BY <1>1
<1>. QED BY <1>1, <1>2 DEF SetToSeq, IsInjective

LEMMA SequenceOfNone == SetToSeq({}) = << >>
<1>1. Cardinality({}) = 0 /\ 1 .. 0 = {}
  BY FS_EmptySet
<1>. QED BY <1>1 DEF SetToSeq, IsInjective

\* A poll cancels the newest order or nothing.
LEMMA Cancels ==
    ASSUME SimNowInv
    PROVE  LET cancels == SetToSeq({Message("CANCEL", known[id]) : id \in Cancelable})
           IN  IF Cancelable = {} THEN cancels = << >>
               ELSE /\ Cancelable = {Newest} /\ Newest \in Outstanding
                    /\ cancels = <<Message("CANCEL", known[Newest])>>
<1>1. Cancelable \subseteq {Newest} /\ Cancelable \subseteq Outstanding
  BY OnlyTheNewest DEF Cancelable
<1>2. CASE Cancelable = {}
  <2>1. {Message("CANCEL", known[id]) : id \in Cancelable} = {}
    BY <1>2
  <2>. QED BY <1>2, <2>1, SequenceOfNone
<1>3. CASE Cancelable # {}
  <2>1. Cancelable = {Newest} /\ Newest \in Outstanding
    BY <1>1, <1>3
  <2>2. {Message("CANCEL", known[id]) : id \in Cancelable} = {Message("CANCEL", known[Newest])}
    BY <2>1
  <2>. QED BY <1>3, <2>1, <2>2, SequenceOfOne
<1>. QED BY <1>2, <1>3

LEMMA PollStoppingKeeps ==
    ASSUME SimNowInv, NEW accepted \in BOOLEAN, PollStopping(accepted)
    PROVE  SimNowInv'
<1>. USE DEF SimNowInv
<1>. DEFINE cancels == SetToSeq({Message("CANCEL", known[id]) : id \in Cancelable})
            m == Message("CANCEL", known[Newest])
<1>1. /\ ~ submitting /\ Stopping /\ stopDone' = (stopDone \/ Outstanding = {})
      /\ known' = [id \in DOMAIN known |->
                      [known[id] EXCEPT !.cancelSent = @ \/ id \in Cancelable]]
      /\ PublishState(FALSE, FALSE)
      /\ active' = active \/ active' = FALSE
      /\ failures' = failures \/ failures' = failures \cup {"cancel"}
      /\ UNCHANGED <<orders, nextOrderId, position, fault, requests, netPosition, stage, asked,
                     confirming, submitting, overflow, main, callbacks, book, account,
                     holding>>
  BY DEF PollStopping, GatewayIdle, engineVars, startVars, exchangeVars
<1>2. \/ outgoing' = outgoing /\ responses' = responses
      \/ /\ Newest \in Outstanding /\ responses' = responses
         /\ outgoing' = outgoing \o <<m>>
      \/ /\ Newest \in Outstanding /\ outgoing' = outgoing
         /\ responses' = responses \o <<Answer("CANCEL_REJECTED", m)>>
  <2>1. CASE Cancelable = {}
    <3>1. cancels = << >>
      BY <2>1, Cancels
    <3>2. outgoing' = outgoing \o << >> /\ responses' = responses
      BY <2>1, <3>1 DEF PollStopping
    <3>. QED BY <3>2, ConcatEmptySeq DEF TypeOK
  <2>2. CASE Cancelable # {}
    <3>1. cancels = <<m>> /\ Newest \in Outstanding
      BY <2>2, Cancels
    <3>. HIDE DEF m
    <3>2. CASE accepted
      <4>1. outgoing' = outgoing \o cancels /\ responses' = responses
        BY <2>2, <3>2 DEF PollStopping
      <4>. QED BY <3>1, <4>1
    <3>3. CASE ~ accepted
      <4>1. /\ outgoing' = outgoing
            /\ responses' = responses \o [i \in DOMAIN cancels |->
                                              Answer("CANCEL_REJECTED", cancels[i])]
        BY <2>2, <3>3 DEF PollStopping
      <4>2. [i \in DOMAIN cancels |-> Answer("CANCEL_REJECTED", cancels[i])]
                = <<Answer("CANCEL_REJECTED", m)>>
        BY <3>1
      <4>. QED BY <3>1, <4>1, <4>2
    <3>. QED BY <3>2, <3>3
  <2>. QED BY <2>1, <2>2
<1>3. /\ DOMAIN known' = DOMAIN known
      /\ \A id \in DOMAIN known :
             /\ known'[id] \in Record
             /\ known'[id].id = known[id].id /\ known'[id].side = known[id].side
             /\ known'[id].offset = known[id].offset /\ known'[id].fills = known[id].fills
             /\ known'[id].reported = known[id].reported
             /\ known'[id].done = known[id].done
             /\ known'[id].terminal = known[id].terminal
  <2>1. \A id \in DOMAIN known : known[id] \in Record
    BY DEF TypeOK
  <2>. HIDE DEF SimNowInv
  <2>2. /\ DOMAIN known' = DOMAIN known
        /\ \A id \in DOMAIN known :
               known'[id] = [known[id] EXCEPT !.cancelSent = @ \/ id \in Cancelable]
    BY <1>1
  <2>3. ASSUME NEW o \in Record, NEW sent \in BOOLEAN
        PROVE  LET p == [o EXCEPT !.cancelSent = sent]
               IN  /\ p \in Record /\ p.id = o.id /\ p.side = o.side /\ p.offset = o.offset
                   /\ p.fills = o.fills /\ p.reported = o.reported /\ p.done = o.done
                   /\ p.terminal = o.terminal
    BY DEF Record
  <2>4. ASSUME NEW id \in DOMAIN known
        PROVE  \E sent \in BOOLEAN : known'[id] = [known[id] EXCEPT !.cancelSent = sent]
    <3>1. (known[id].cancelSent \/ id \in Cancelable) \in BOOLEAN
      OBVIOUS
    <3>2. known'[id] = [known[id] EXCEPT !.cancelSent =
                            (known[id].cancelSent \/ id \in Cancelable)]
      BY <2>2
    <3>. QED BY <3>1, <3>2
  <2>5. ASSUME NEW id \in DOMAIN known
        PROVE  /\ known'[id] \in Record
               /\ known'[id].id = known[id].id /\ known'[id].side = known[id].side
               /\ known'[id].offset = known[id].offset
               /\ known'[id].fills = known[id].fills
               /\ known'[id].reported = known[id].reported
               /\ known'[id].done = known[id].done
               /\ known'[id].terminal = known[id].terminal
    <3>1. PICK sent \in BOOLEAN : known'[id] = [known[id] EXCEPT !.cancelSent = sent]
      BY <2>4
    <3>. DEFINE p == [known[id] EXCEPT !.cancelSent = sent]
    <3>2. /\ p \in Record /\ p.id = known[id].id /\ p.side = known[id].side
          /\ p.offset = known[id].offset /\ p.fills = known[id].fills
          /\ p.reported = known[id].reported /\ p.done = known[id].done
          /\ p.terminal = known[id].terminal
      BY <2>1, <2>3
    <3>3. known'[id] = p
      BY <3>1
    <3>. HIDE DEF p
    <3>. QED BY <3>2, <3>3, Zenon
  <2>. QED BY <2>2, <2>5, Zenon
<1>4. Outstanding' = Outstanding /\ Newest' = Newest
  BY <1>1, <1>3 DEF Outstanding, Newest
<1>5. \A o : Current(o)' <=> Current(o)
  BY <1>1, <1>4 DEF Current, Engine!Working
<1>6. Newest \in Outstanding =>
          /\ known[Newest] \in Record /\ Current(known[Newest]) /\ Newest \in DOMAIN known
          /\ m \in MessageSet /\ m.type = "CANCEL" /\ m.id = Newest /\ Current(m)
          /\ Answer("CANCEL_REJECTED", m) \in ResponseSet
          /\ Current(Answer("CANCEL_REJECTED", m))
          /\ Answer("CANCEL_REJECTED", m).type = "CANCEL_REJECTED"
          /\ Answer("CANCEL_REJECTED", m).exec = 0
  <2>. SUFFICES ASSUME Newest \in Outstanding
                PROVE  /\ known[Newest] \in Record /\ Current(known[Newest])
                       /\ Newest \in DOMAIN known
                       /\ m \in MessageSet /\ m.type = "CANCEL" /\ m.id = Newest /\ Current(m)
                       /\ Answer("CANCEL_REJECTED", m) \in ResponseSet
                       /\ Current(Answer("CANCEL_REJECTED", m))
                       /\ Answer("CANCEL_REJECTED", m).type = "CANCEL_REJECTED"
                       /\ Answer("CANCEL_REJECTED", m).exec = 0
    OBVIOUS
  <2>1. known[Newest] \in Record /\ Current(known[Newest]) /\ Newest \in DOMAIN known
    BY DEF TypeOK, Outstanding, EngineInv
  <2>2. /\ m \in MessageSet /\ m.type = "CANCEL" /\ m.id = Newest
        /\ m.side = known[Newest].side /\ m.offset = known[Newest].offset
    BY <2>1 DEF Message, MessageSet, Record, Current
  <2>. HIDE DEF m
  <2>3. Current(m)
    BY <2>1, <2>2 DEF Current
  <2>. QED BY <2>1, <2>2, <2>3
       DEF Answer, Engine!Response, ResponseSet, MessageSet, Types, Current
<1>. HIDE DEF m, cancels
<1>7. /\ outgoing' \in Seq(MessageSet) /\ outgoing \in Seq(MessageSet)
      /\ \A i \in DOMAIN outgoing' :
             \/ i \in DOMAIN outgoing /\ outgoing'[i] = outgoing[i]
             \/ outgoing'[i] = m /\ m.type = "CANCEL" /\ m.id \in DOMAIN known
      /\ \A i \in DOMAIN outgoing : i \in DOMAIN outgoing' /\ outgoing'[i] = outgoing[i]
  <2>1. outgoing \in Seq(MessageSet)
    BY DEF TypeOK
  <2>2. CASE outgoing' = outgoing
    BY <2>1, <2>2
  <2>3. CASE Newest \in Outstanding /\ outgoing' = outgoing \o <<m>>
    <3>1. outgoing' = Append(outgoing, m) /\ m \in MessageSet
      BY <1>6, <2>1, <2>3, AppendIsConcat
    <3>. QED BY <1>6, <2>1, <2>3, <3>1
  <2>. QED BY <1>2, <2>2, <2>3
<1>8. \A id : /\ Inserting(id)' <=> Inserting(id)
              /\ Traded(id)' <=> Traded(id)
              /\ Over(id)' <=> Over(id)
  <2>1. \A id : Inserting(id)' <=> Inserting(id)
    BY <1>7 DEF Inserting
  <2>. QED BY <1>1, <2>1 DEF Traded, Over
<1>9. \/ responses' = responses
      \/ /\ Newest \in Outstanding
         /\ responses' = Append(responses, Answer("CANCEL_REJECTED", m))
  BY <1>2, <1>6, AppendIsConcat DEF TypeOK
<1>10. TypeOK'
  <2>1. responses' \in Seq(ResponseSet)
    BY <1>6, <1>9 DEF TypeOK
  <2>2. known' \in [DOMAIN known' -> Record]
    BY <1>1, <1>3
  <2>3. ready' \in BOOLEAN /\ venueReady' \in BOOLEAN
    BY <1>1, Publishes
  <2>4. active' \in BOOLEAN
    <3>1. active \in BOOLEAN
      BY DEF TypeOK
    <3>. QED BY <1>1, <3>1
  <2>5. stopDone' \in BOOLEAN
    BY <1>1 DEF TypeOK
  <2>. QED BY <1>1, <1>3, <1>4, <1>7, <2>1, <2>2, <2>3, <2>4, <2>5 DEF TypeOK
<1>11. StartInv'
  BY <1>1, Publishes DEF StartInv, StartUpDone, SlippedThrough
<1>12. VenueInv'
  <2>1. \A c \in callbacks' : Truthful(c)'
    BY <1>1, <1>3, <1>8 DEF VenueInv, Truthful
  <2>2. OutgoingInv'
    BY <1>1, <1>3, <1>7 DEF VenueInv, OutgoingInv
  <2>3. \A id \in DOMAIN known' : RecordInv(id)'
    BY <1>1, <1>3, <1>8 DEF VenueInv, RecordInv
  <2>. QED BY <2>1, <2>2, <2>3 DEF VenueInv
<1>13. EngineInv'
  <2>1. EngineProofs!ParticipantInv'
    BY <1>1, EngineSteps DEF EngineInv, engineVars
  <2>2. ASSUME NEW id \in Outstanding' PROVE Current(known'[id])
    <3>1. id \in DOMAIN known /\ Current(known[id])
      BY <1>4 DEF EngineInv, Outstanding
    <3>. QED BY <1>3, <3>1 DEF Current
  <2>3. \A i \in DOMAIN requests' : /\ i = 1 /\ Current(requests'[i])
                                    /\ Newest' \notin DOMAIN known'
    BY <1>1, <1>3, <1>4 DEF EngineInv
  <2>4. CASE responses' = responses
    BY <1>1, <1>4, <1>5, <2>1, <2>2, <2>3, <2>4 DEF EngineInv
  <2>5. CASE /\ Newest \in Outstanding
             /\ responses' = Append(responses, Answer("CANCEL_REJECTED", m))
    <3>1. requests = << >> /\ \A i \in DOMAIN responses : responses[i].type \notin Ending
      BY <2>5 DEF EngineInv
    <3>2. responses \in Seq(ResponseSet)
      BY DEF TypeOK
    <3>3. \A i \in DOMAIN responses' :
              \/ i \in DOMAIN responses /\ responses'[i] = responses[i]
              \/ responses'[i] = Answer("CANCEL_REJECTED", m)
      BY <2>5, <3>2
    <3>4. ASSUME NEW i \in DOMAIN responses'
          PROVE  /\ Current(responses'[i])
                 /\ responses'[i].exec = IF responses'[i].type = "FILLED" THEN 1 ELSE 0
                 /\ responses'[i].type \notin Ending
      BY <1>6, <2>5, <3>1, <3>3 DEF EngineInv, Ending
    <3>. QED BY <1>1, <1>4, <1>5, <2>1, <2>2, <2>3, <3>1, <3>4 DEF EngineInv
  <2>. QED BY <1>9, <2>4, <2>5
<1>14. PositionInv'
  <2>1. FillQueued' <=> FillQueued
    BY <1>6, <1>9 DEF FillQueued, Last, TypeOK, EngineInv, Ending
  <2>2. FillQueued => Last(responses') = Last(responses)
    BY <1>9 DEF FillQueued, Last, TypeOK, EngineInv, Ending
  <2>3. \A id \in Outstanding : known'[id].side = known[id].side
    BY <1>3 DEF Outstanding
  <2>. QED BY <1>1, <1>4, <1>8, <2>1, <2>2, <2>3 DEF PositionInv
<1>15. StopInv'
  BY <1>1, <1>4 DEF StopInv, Stopping, CallbacksNeverFail
<1>. QED BY <1>10, <1>11, <1>12, <1>13, <1>14, <1>15
-----------------------------------------------------------------------------
(***************************************************************************)
(* The exchange's steps.                                                   *)
(***************************************************************************)

\* What the exchange says of itself has to be true, and it never takes back that
\* an order was executed or is over.
LEMMA ExchangeKeeps ==
    ASSUME SimNowInv, NEW said, callbacks' = callbacks \cup said,
           UNCHANGED <<orders, nextOrderId, position, fault, venueReady, requests, responses,
                       known, netPosition, ready, stage, asked, active, confirming, submitting,
                       overflow, failures, stopDone, main>>,
           outgoing' \in Seq(MessageSet), OutgoingInv',
           book' \in [DOMAIN book' -> BookOrder], DOMAIN book' \subseteq DOMAIN known,
           account' \in {"empty", "resting", "holding"}, holding' \in Int,
           \A c \in said : Truthful(c)',
           \A id \in DOMAIN known :
               /\ Traded(id) => Traded(id)'
               /\ Over(id) => Over(id)'
               /\ id \in DOMAIN book' => book'[id].side = known[id].side
    PROVE  /\ TypeOK' /\ VenueInv' /\ EngineInv' /\ StopInv'
           /\ Outstanding' = Outstanding
<1>. USE DEF SimNowInv
<1>1. Outstanding' = Outstanding /\ Newest' = Newest
  BY DEF Outstanding, Newest
<1>2. TypeOK'
  BY <1>1 DEF TypeOK
<1>3. VenueInv'
  <2>1. \A c \in callbacks : Truthful(c)'
    BY DEF VenueInv, Truthful
  <2>2. \A id \in DOMAIN known : RecordInv(id)'
    BY DEF VenueInv, RecordInv
  <2>. QED BY <2>1, <2>2 DEF VenueInv
<1>4. EngineInv'
  <2>1. EngineProofs!ParticipantInv'
    BY EngineSteps DEF EngineInv, engineVars
  <2>. QED BY <1>1, <2>1 DEF EngineInv, Current, Engine!Working
<1>5. StopInv'
  BY <1>1 DEF StopInv, Stopping, CallbacksNeverFail
<1>. QED BY <1>1, <1>2, <1>3, <1>4, <1>5

\* The head of what is on its way to the exchange.
LEMMA HeadMessage ==
    ASSUME SimNowInv, outgoing # << >>, outgoing' = Tail(outgoing)
    PROVE  LET o == Head(outgoing)
           IN  /\ o \in MessageSet /\ o.id \in DOMAIN known
               /\ o.type = "INSERT" => /\ o.id \notin DOMAIN book /\ Inserting(o.id)
                                       /\ o.side = known[o.id].side
               /\ outgoing' \in Seq(MessageSet)
               /\ \A i \in DOMAIN outgoing' :
                      /\ i + 1 \in DOMAIN outgoing /\ outgoing'[i] = outgoing[i + 1]
                      /\ o.type = "INSERT" => outgoing'[i].type # "INSERT"
               /\ \A i, j \in DOMAIN outgoing' :
                      outgoing'[i].type = "INSERT" /\ outgoing'[j].type = "INSERT" => i = j
               /\ \A id : Inserting(id)' => Inserting(id) /\ o.type # "INSERT"
<1>. USE DEF SimNowInv
<1>1. /\ outgoing \in Seq(MessageSet) /\ Head(outgoing) = outgoing[1]
      /\ 1 \in DOMAIN outgoing /\ outgoing' \in Seq(MessageSet)
      /\ \A i \in DOMAIN outgoing' :
             /\ i \in Nat \ {0} /\ i + 1 \in DOMAIN outgoing
             /\ outgoing'[i] = outgoing[i + 1]
  BY DEF TypeOK
<1>2. OutgoingInv
  BY DEF VenueInv
<1>3. ASSUME NEW i \in DOMAIN outgoing', Head(outgoing).type = "INSERT"
      PROVE  outgoing'[i].type # "INSERT"
  BY <1>1, <1>2, <1>3 DEF OutgoingInv
<1>4. ASSUME NEW i \in DOMAIN outgoing', NEW j \in DOMAIN outgoing',
             outgoing'[i].type = "INSERT", outgoing'[j].type = "INSERT"
      PROVE  i = j
  <2>1. i + 1 = j + 1
    BY <1>1, <1>2, <1>4 DEF OutgoingInv
  <2>. QED BY <1>1, <2>1
<1>5. \A id : Inserting(id)' => Inserting(id) /\ Head(outgoing).type # "INSERT"
  BY <1>1, <1>3 DEF Inserting
<1>6. outgoing[1] \in MessageSet /\ outgoing[1].id \in DOMAIN known
  BY <1>1, <1>2 DEF OutgoingInv
<1>7. outgoing[1].type = "INSERT" =>
          /\ outgoing[1].id \notin DOMAIN book /\ Inserting(outgoing[1].id)
          /\ outgoing[1].side = known[outgoing[1].id].side
  BY <1>1, <1>2 DEF OutgoingInv, Inserting
<1>. QED BY <1>1, <1>3, <1>4, <1>5, <1>6, <1>7

LEMMA ExchangeTakesKeeps ==
    ASSUME SimNowInv, ExchangeTakes
    PROVE  SimNowInv'
<1>. USE DEF SimNowInv
<1>0. PICK o : o = Head(outgoing)
  OBVIOUS
<1>1. /\ outgoing # << >> /\ outgoing' = Tail(outgoing)
      /\ UNCHANGED <<orders, nextOrderId, position, fault, venueReady, requests, responses,
                     known, netPosition, ready, stage, asked, active, confirming, submitting,
                     overflow, failures, stopDone, main, account, holding>>
  BY DEF ExchangeTakes, engineVars, startVars
<1>2. /\ o \in MessageSet /\ o.id \in DOMAIN known
      /\ o.type = "INSERT" => /\ o.id \notin DOMAIN book /\ Inserting(o.id)
                              /\ o.side = known[o.id].side
      /\ outgoing' \in Seq(MessageSet)
      /\ \A i \in DOMAIN outgoing' :
             /\ i + 1 \in DOMAIN outgoing /\ outgoing'[i] = outgoing[i + 1]
             /\ o.type = "INSERT" => outgoing'[i].type # "INSERT"
      /\ \A i, j \in DOMAIN outgoing' :
             outgoing'[i].type = "INSERT" /\ outgoing'[j].type = "INSERT" => i = j
      /\ \A id : Inserting(id)' => Inserting(id) /\ o.type # "INSERT"
  BY <1>0, <1>1, HeadMessage
<1>3. /\ book \in [DOMAIN book -> BookOrder] /\ DOMAIN book \subseteq DOMAIN known
      /\ account' \in {"empty", "resting", "holding"} /\ holding' \in Int
      /\ \A id \in DOMAIN book : book[id].side = known[id].side
      /\ OutgoingInv
  BY <1>1 DEF TypeOK, VenueInv, RecordInv
<1>4. ASSUME NEW said,
             callbacks' = callbacks \cup said, \A c \in said : Truthful(c)',
             book' \in [DOMAIN book' -> BookOrder], DOMAIN book' \subseteq DOMAIN known,
             \A i \in DOMAIN outgoing' : outgoing'[i].type = "INSERT" =>
                                             outgoing'[i].id \notin DOMAIN book',
             \A id \in DOMAIN known : 
                 /\ Traded(id) <=> Traded(id)'
                 /\ Over(id) => Over(id)'
                 /\ id \in DOMAIN book' => book'[id].side = known[id].side
      PROVE  SimNowInv'
  <2>1. OutgoingInv'
    BY <1>1, <1>2, <1>3, <1>4 DEF OutgoingInv
  <2>2. TypeOK' /\ VenueInv' /\ EngineInv' /\ StopInv' /\ Outstanding' = Outstanding
    BY <1>1, <1>2, <1>3, <1>4, <2>1, ExchangeKeeps
  <2>3. StartInv'
    BY <1>1, <1>4 DEF StartInv, StartUpDone, SlippedThrough
  <2>4. PositionInv'
    <3>1. Outstanding \subseteq DOMAIN known
      BY DEF Outstanding
    <3>2. \A id \in Outstanding : Traded(id)' <=> Traded(id)
      BY <1>4, <3>1
    <3>. QED BY <1>1, <2>2, <3>2 DEF PositionInv, FillQueued
  <2>. QED BY <2>2, <2>3, <2>4
<1>5. ASSUME UNCHANGED book
      PROVE  /\ book' \in [DOMAIN book' -> BookOrder] /\ DOMAIN book' \subseteq DOMAIN known
             /\ \A i \in DOMAIN outgoing' : outgoing'[i].type = "INSERT" =>
                                                outgoing'[i].id \notin DOMAIN book'
             /\ \A id \in DOMAIN known :
                    /\ Traded(id) <=> Traded(id)'
                    /\ Over(id) => Over(id)'
                    /\ id \in DOMAIN book' => book'[id].side = known[id].side
  BY <1>2, <1>3, <1>5 DEF Traded, Over, OutgoingInv
<1>6. CASE TakeInsert
  <2>1. o.type = "INSERT"
    BY <1>0, <1>6 DEF TakeInsert
  <2>2. CASE UNCHANGED book
    <3>. DEFINE said == {Callback("insertError", o.id, "none"),
                         Callback("order", o.id, "insertRejected")}
    <3>1. callbacks' = callbacks \cup said
      BY <1>0, <1>2, <1>6, <2>1, <2>2 DEF TakeInsert, ExchangeSays, With
    <3>2. Over(o.id)'
      BY <1>2, <2>1, <2>2 DEF Over
    <3>3. \A c \in said : Truthful(c)'
      BY <1>1, <1>2, <3>2 DEF Truthful, Callback
    <3>. HIDE DEF said
    <3>. QED BY <1>4, <1>5, <2>2, <3>1, <3>3
  <2>3. CASE ~ UNCHANGED book
    <3>. DEFINE said == {Callback("order", o.id, "queueing")}
                new == [side |-> o.side, offset |-> o.offset, status |-> "queueing"]
    <3>1. callbacks' = callbacks \cup said /\ book' = With(book, o.id, new)
      BY <1>0, <1>6, <2>3 DEF TakeInsert, ExchangeSays
    <3>2. /\ DOMAIN book' = DOMAIN book \cup {o.id} /\ book'[o.id] = new
          /\ \A id \in DOMAIN book : book'[id] = book[id]
          /\ book' \in [DOMAIN book' -> BookOrder]
      <4>1. new \in BookOrder
        BY <1>2 DEF MessageSet, BookOrder
      <4>. HIDE DEF new
      <4>. QED BY <1>2, <1>3, <2>1, <3>1, <4>1 DEF With
    <3>3. \A c \in said : Truthful(c)'
      BY <1>1, <1>2 DEF Truthful, Callback
    <3>4. \A i \in DOMAIN outgoing' : outgoing'[i].type = "INSERT" =>
                                          outgoing'[i].id \notin DOMAIN book'
      BY <1>2, <2>1
    <3>5. ASSUME NEW id \in DOMAIN known
          PROVE  /\ Traded(id) <=> Traded(id)'
                 /\ Over(id) => Over(id)'
                 /\ id \in DOMAIN book' => book'[id].side = known[id].side
      <4>1. CASE id = o.id
        BY <1>2, <2>1, <3>2, <4>1 DEF Traded, Over
      <4>2. CASE id # o.id
        BY <1>2, <1>3, <3>2, <4>2 DEF Traded, Over
      <4>. QED BY <4>1, <4>2
    <3>. HIDE DEF said, new
    <3>. QED BY <1>2, <1>3, <1>4, <3>1, <3>2, <3>3, <3>4, <3>5
  <2>. QED BY <2>2, <2>3
<1>7. CASE TakeCancel
  <2>. DEFINE refusal == Callback("cancelError", o.id, "none")
              end == {Callback("order", o.id, "canceled")}
              said1 == {refusal, Callback("order", o.id, "cancelRejected")}
              said2 == IF o.id \in DOMAIN book /\ book[o.id].status = "traded"
                       THEN {refusal, Callback("order", o.id, "tradedCancelRejected")}
                       ELSE {refusal}
  <2>1. \/ /\ Alive(o.id) /\ callbacks' = callbacks \cup end
           /\ book' = [book EXCEPT ![o.id].status = "canceled"]
        \/ callbacks' = callbacks \cup said1 /\ UNCHANGED book
        \/ callbacks' = callbacks \cup said2 /\ UNCHANGED book
    BY <1>0, <1>7 DEF TakeCancel, ExchangeSays
  <2>2. CASE callbacks' = callbacks \cup said1 /\ UNCHANGED book
    <3>1. \A c \in said1 : Truthful(c)'
      BY <1>1, <1>2 DEF Truthful, Callback
    <3>. HIDE DEF said1
    <3>. QED BY <1>4, <1>5, <2>2, <3>1
  <2>3. CASE callbacks' = callbacks \cup said2 /\ UNCHANGED book
    <3>1. \A c \in said2 : Truthful(c)'
      BY <1>1, <1>2, <2>3 DEF Truthful, Callback, Traded
    <3>. HIDE DEF said2
    <3>. QED BY <1>4, <1>5, <2>3, <3>1
  <2>4. CASE /\ Alive(o.id) /\ callbacks' = callbacks \cup end
             /\ book' = [book EXCEPT ![o.id].status = "canceled"]
    <3>1. /\ DOMAIN book' = DOMAIN book /\ o.id \in DOMAIN book
          /\ book[o.id].status = "queueing" /\ book'[o.id].status = "canceled"
          /\ \A id \in DOMAIN book : book'[id].side = book[id].side
          /\ \A id \in DOMAIN book : id # o.id => book'[id] = book[id]
          /\ book' \in [DOMAIN book' -> BookOrder]
      BY <1>3, <2>4 DEF Alive, BookOrder
    <3>2. \A c \in end : Truthful(c)'
      BY <1>1, <1>2, <3>1 DEF Truthful, Callback, Over
    <3>3. \A i \in DOMAIN outgoing' : outgoing'[i].type = "INSERT" =>
                                          outgoing'[i].id \notin DOMAIN book'
      BY <1>2, <1>3, <3>1 DEF OutgoingInv
    <3>4. ASSUME NEW id \in DOMAIN known
          PROVE  /\ Traded(id) <=> Traded(id)'
                 /\ Over(id) => Over(id)'
                 /\ id \in DOMAIN book' => book'[id].side = known[id].side
      <4>1. CASE id = o.id
        BY <1>2, <1>3, <3>1, <4>1 DEF Traded, Over
      <4>2. CASE id # o.id
        BY <1>2, <1>3, <3>1, <4>2 DEF Traded, Over
      <4>. QED BY <4>1, <4>2
    <3>5. DOMAIN book' \subseteq DOMAIN known
      BY <1>3, <3>1
    <3>6. callbacks' = callbacks \cup end
      BY <2>4
    <3>. HIDE DEF end
    <3>. QED BY <1>4, <3>1, <3>2, <3>3, <3>4, <3>5, <3>6
  <2>. HIDE DEF end, said1, said2
  <2>. QED BY <2>1, <2>2, <2>3, <2>4
<1>. QED BY <1>6, <1>7 DEF ExchangeTakes

LEMMA ExchangeActsKeeps ==
    ASSUME SimNowInv, ExchangeActs
    PROVE  SimNowInv'
<1>. USE DEF SimNowInv
<1>1. PICK id \in DOMAIN book :
          /\ Alive(id)
          /\ \/ /\ book' = [book EXCEPT ![id].status = "traded"]
                /\ holding' = holding + Sign(book[id].side)
                /\ ExchangeSays({Callback("order", id, "traded"), Callback("trade", id, "none")})
             \/ /\ book' = [book EXCEPT ![id].status = "canceled"]
                /\ ExchangeSays({Callback("order", id, "canceled")})
                /\ UNCHANGED holding
  BY DEF ExchangeActs
<1>2. UNCHANGED <<orders, nextOrderId, position, fault, venueReady, requests, responses,
                  known, netPosition, ready, stage, asked, active, confirming, submitting,
                  overflow, failures, stopDone, main, outgoing, account>>
  BY DEF ExchangeActs, engineVars, startVars
<1>3. /\ book \in [DOMAIN book -> BookOrder] /\ DOMAIN book \subseteq DOMAIN known
      /\ account' \in {"empty", "resting", "holding"} /\ holding \in Int
      /\ netPosition \in Int /\ outgoing' \in Seq(MessageSet)
      /\ \A i \in DOMAIN book : book[i].side = known[i].side
      /\ OutgoingInv
  BY <1>2 DEF TypeOK, VenueInv, RecordInv
<1>4. id \in DOMAIN known /\ Outstanding = {id} /\ ~ Inserting(id)
  BY <1>1, <1>3, OnlyTheNewest
<1>5. book[id].status = "queueing" /\ ~ Traded(id) /\ ~ Over(id) /\ book[id].side \in Sides
  BY <1>1, <1>3 DEF Alive, Traded, Over, BookOrder
<1>6. ASSUME NEW status \in {"traded", "canceled"}, NEW said,
             book' = [book EXCEPT ![id].status = status], ExchangeSays(said),
             holding' \in Int,
             \A c \in said : Truthful(c)'
      PROVE  /\ TypeOK' /\ StartInv' /\ VenueInv' /\ EngineInv' /\ StopInv'
             /\ Outstanding' = Outstanding
  <2>1. /\ DOMAIN book' = DOMAIN book
        /\ book'[id].status = status
        /\ \A i \in DOMAIN book : book'[i].side = book[i].side
        /\ \A i \in DOMAIN book : i # id => book'[i] = book[i]
        /\ book' \in [DOMAIN book' -> BookOrder]
    BY <1>3, <1>6 DEF BookOrder
  <2>2. OutgoingInv'
    BY <1>2, <1>3, <2>1 DEF OutgoingInv
  <2>3. callbacks' = callbacks \cup said
    BY <1>6 DEF ExchangeSays
  <2>4. ASSUME NEW i \in DOMAIN known
        PROVE  /\ Traded(i) => Traded(i)'
               /\ Over(i) => Over(i)'
               /\ i \in DOMAIN book' => book'[i].side = known[i].side
    <3>1. CASE i = id
      BY <1>3, <1>5, <2>1, <3>1
    <3>2. CASE i # id
      BY <1>2, <1>3, <2>1, <3>2 DEF Traded, Over, Inserting
    <3>. QED BY <3>1, <3>2
  <2>5. /\ TypeOK' /\ VenueInv' /\ EngineInv' /\ StopInv' /\ Outstanding' = Outstanding
    BY <1>2, <1>3, <1>6, <2>1, <2>2, <2>3, <2>4, ExchangeKeeps
  <2>6. StartInv'
    BY <1>2, <2>3 DEF StartInv, StartUpDone, SlippedThrough
  <2>. QED BY <2>5, <2>6
<1>7. CASE /\ book' = [book EXCEPT ![id].status = "traded"]
           /\ holding' = holding + Sign(book[id].side)
           /\ ExchangeSays({Callback("order", id, "traded"), Callback("trade", id, "none")})
  <2>. DEFINE said == {Callback("order", id, "traded"), Callback("trade", id, "none")}
  <2>1. Traded(id)' /\ Sign(book[id].side) \in Int
    BY <1>3, <1>5, <1>7, Signs DEF Traded, BookOrder
  <2>2. \A c \in said : Truthful(c)'
    BY <1>2, <1>4, <2>1 DEF Truthful, Callback
  <2>3. holding' \in Int /\ ExchangeSays(said)
    BY <1>3, <1>7, <2>1
  <2>. HIDE DEF said
  <2>4. TypeOK' /\ StartInv' /\ VenueInv' /\ EngineInv' /\ StopInv' /\ Outstanding' = {id}
    BY <1>4, <1>6, <1>7, <2>2, <2>3
  <2>5. PositionInv'
    <3>1. /\ holding = netPosition + IF account = "holding" THEN 1 ELSE 0
          /\ holding' = holding + Sign(known[id].side)
      BY <1>1, <1>3, <1>4, <1>5, <1>7 DEF PositionInv
    <3>. QED BY <1>2, <1>4, <2>1, <2>4, <3>1 DEF PositionInv, FillQueued
  <2>. QED BY <2>4, <2>5
<1>8. CASE /\ book' = [book EXCEPT ![id].status = "canceled"]
           /\ ExchangeSays({Callback("order", id, "canceled")})
           /\ UNCHANGED holding
  <2>. DEFINE said == {Callback("order", id, "canceled")}
  <2>1. Over(id)' /\ ~ Traded(id)'
    BY <1>3, <1>5, <1>8 DEF Over, Traded, BookOrder
  <2>2. \A c \in said : Truthful(c)'
    BY <1>2, <1>4, <2>1 DEF Truthful, Callback
  <2>3. holding' \in Int /\ ExchangeSays(said)
    BY <1>3, <1>8
  <2>. HIDE DEF said
  <2>4. TypeOK' /\ StartInv' /\ VenueInv' /\ EngineInv' /\ StopInv' /\ Outstanding' = {id}
    BY <1>4, <1>6, <1>8, <2>2, <2>3
  <2>5. PositionInv'
    BY <1>2, <1>4, <1>5, <1>8, <2>1, <2>4 DEF PositionInv, FillQueued
  <2>. QED BY <2>4, <2>5
<1>. QED BY <1>1, <1>7, <1>8

LEMMA LeftoverExecutesKeeps ==
    ASSUME SimNowInv, LeftoverExecutes
    PROVE  SimNowInv'
<1>. USE DEF SimNowInv
<1>. DEFINE said == IF LoggedIn THEN {Callback("trade", Leftover, "none")} ELSE {}
<1>1. /\ account = "resting" /\ account' = "holding" /\ holding' = holding + 1
      /\ callbacks' = callbacks \cup said
      /\ UNCHANGED <<orders, nextOrderId, position, fault, venueReady, requests, responses,
                     known, netPosition, ready, stage, asked, active, confirming, submitting,
                     overflow, failures, stopDone, main, outgoing, book>>
  BY DEF LeftoverExecutes, ExchangeSays, engineVars, startVars
<1>2. /\ book' \in [DOMAIN book' -> BookOrder] /\ DOMAIN book' \subseteq DOMAIN known
      /\ holding \in Int /\ netPosition \in Int /\ outgoing' \in Seq(MessageSet)
      /\ OutgoingInv'
      /\ \A id \in DOMAIN book' : book'[id].side = known[id].side
  BY <1>1 DEF TypeOK, VenueInv, OutgoingInv, RecordInv
<1>3. \A c \in said : Truthful(c)'
  BY DEF Truthful, Callback
<1>4. \A id : (Traded(id)' <=> Traded(id)) /\ (Over(id)' <=> Over(id))
  BY <1>1 DEF Traded, Over, Inserting
<1>5. StartInv'
  <2>1. ~ StartUpDone /\ stage \in 0 .. 8
    BY <1>1 DEF StartInv, TypeOK
  <2>2. CASE stage <= 6
    BY <1>1, <2>1, <2>2 DEF StartInv, StartUpDone
  <2>3. CASE stage > 6
    <3>1. Callback("trade", Leftover, "none") \in callbacks'
      BY <1>1, <2>1, <2>3 DEF LoggedIn
    <3>. HIDE DEF said
    <3>. QED BY <1>1, <2>1, <3>1 DEF StartInv, StartUpDone, SlippedThrough
  <2>. QED BY <2>1, <2>2, <2>3
<1>. HIDE DEF said
<1>6. TypeOK' /\ VenueInv' /\ EngineInv' /\ StopInv' /\ Outstanding' = Outstanding
  <2>1. account' \in {"empty", "resting", "holding"} /\ holding' \in Int
    BY <1>1, <1>2
  <2>2. \A id \in DOMAIN known :
            /\ Traded(id) => Traded(id)'
            /\ Over(id) => Over(id)'
            /\ id \in DOMAIN book' => book'[id].side = known[id].side
    BY <1>2, <1>4
  <2>. QED BY <1>1, <1>2, <1>3, <2>1, <2>2, ExchangeKeeps
<1>7. PositionInv'
  <2>1. known = known' /\ \A id \in Outstanding : Sign(known[id].side) \in Int
    BY <1>1, Signs DEF Outstanding, TypeOK, Record
  <2>. QED BY <1>1, <1>2, <1>4, <1>6, <2>1 DEF PositionInv, FillQueued
<1>. QED BY <1>5, <1>6, <1>7
-----------------------------------------------------------------------------
(***************************************************************************)
(* The invariant, and what it says.                                        *)
(***************************************************************************)
LEMMA NextKeeps ==
    ASSUME SimNowInv, [Next]_vars
    PROVE  SimNowInv'
<1>1. CASE CheckRequest
  BY <1>1, CheckRequestKeeps
<1>2. ASSUME NEW accepted \in BOOLEAN, Insert(accepted) PROVE SimNowInv'
  BY <1>2, InsertKeeps
<1>3. ASSUME NEW accepted \in BOOLEAN, PollStopping(accepted) PROVE SimNowInv'
  BY <1>3, PollStoppingKeeps
<1>4. CASE \/ \E lost \in BOOLEAN : GatewayFails(lost)
           \/ CheckOverflow
           \/ \E sent, usable, refreshed \in BOOLEAN : PollTrading(sent, usable, refreshed)
           \/ AnswerStartUp \/ Confirm
  BY <1>4, GatewayQuietKeeps
<1>5. CASE EngineDecides
  BY <1>5, EngineDecidesKeeps
<1>6. CASE EngineReceives
  BY <1>6, EngineReceivesKeeps
<1>7. CASE \/ LoseEvent \/ \E lost \in BOOLEAN : MarketFails(lost)
           \/ StartTrading \/ \E timedOut \in BOOLEAN : GiveUpStart(timedOut)
           \/ DisableTrading \/ AskToStop \/ StopGateway
  BY <1>7, MainQuietKeeps
<1>8. CASE ExchangeTakes
  BY <1>8, ExchangeTakesKeeps
<1>9. CASE ExchangeActs
  BY <1>9, ExchangeActsKeeps
<1>10. CASE LeftoverExecutes
  BY <1>10, LeftoverExecutesKeeps
<1>11. ASSUME NEW c \in callbacks, HandleCallback(c) PROVE SimNowInv'
  BY <1>11, HandleCallbackKeeps
<1>12. ASSUME NEW c \in callbacks, LoseCallback(c) PROVE SimNowInv'
  BY <1>12, LoseCallbackKeeps
<1>13. CASE UNCHANGED vars
  <2>1. Untouched /\ UNCHANGED <<submitting, venueReady, ready, stage, asked, active, confirming,
                                 overflow, failures, stopDone, main>>
    BY <1>13 DEF vars, Untouched, startVars
  <2>2. VenueInv' /\ EngineInv' /\ PositionInv'
    BY <2>1, UntouchedKeeps
  <2>3. TypeOK'
    BY <2>1 DEF SimNowInv, TypeOK, Untouched, engineVars, exchangeVars, Newest
  <2>4. StartInv'
    BY <2>1 DEF SimNowInv, StartInv, StartUpDone, SlippedThrough, Untouched, engineVars,
                exchangeVars
  <2>5. StopInv'
    BY <2>1 DEF SimNowInv, StopInv, Stopping, CallbacksNeverFail, Outstanding, Untouched
  <2>. QED BY <2>2, <2>3, <2>4, <2>5 DEF SimNowInv
<1>. QED BY <1>1, <1>2, <1>3, <1>4, <1>5, <1>6, <1>7, <1>8, <1>9, <1>10, <1>11, <1>12, <1>13
     DEF Next, Gateway, Others

\* The invariant everything below follows from: what the engine, the adapter, the
\* exchange and whatever is on its way between them know of the newest order agree,
\* after any callbacks, failures and stops.
THEOREM SimNowInvariant == SafeSpec => []SimNowInv
<1>1. Init => SimNowInv
  BY InitSimNow
<1>2. SimNowInv /\ [Next]_vars => SimNowInv'
  BY NextKeeps
<1>. QED BY <1>1, <1>2, PTL DEF SafeSpec

\* What the exchange may still execute is the newest order or nothing.
LEMMA UnsettledOrders ==
    ASSUME SimNowInv
    PROVE  /\ Unsettled \subseteq Outstanding
           /\ Unsettled \subseteq {Newest}
           /\ \A id \in Unsettled : ~ Traded(id)
<1>1. \A id \in Unsettled : (id \in DOMAIN book /\ Alive(id)) \/ Inserting(id)
  BY DEF Unsettled, Inserting
<1>. QED BY <1>1, OnlyTheNewest DEF Alive, Traded

\* No order of callbacks, no repetition and no loss of them makes the adapter take
\* an order that may still execute for finished, miss an execution of a finished one
\* or book it twice (orderEvent, tradeEvent, finish), and its position is always the
\* engine's with the one execution queued between them.
THEOREM ExecutionsAlwaysReconcile == SafeSpec => []ExecutionsReconcile
<1>1. SimNowInv => ExecutionsReconcile
  <2>. SUFFICES ASSUME SimNowInv PROVE ExecutionsReconcile
    OBVIOUS
  <2>1. ASSUME NEW id \in DOMAIN known, known[id].done
        PROVE  /\ id \notin Unsettled
               /\ known[id].fills = 1 <=> (id \in DOMAIN book /\ book[id].status = "traded")
    <3>1. id \notin Unsettled
      BY <2>1, UnsettledOrders DEF Outstanding
    <3>2. RecordInv(id) /\ known[id].fills \in {0, 1}
      BY DEF SimNowInv, VenueInv, TypeOK, Record
    <3>3. ~ (Traded(id) /\ Over(id))
      BY OnlyTheNewest
    <3>. QED BY <2>1, <3>1, <3>2, <3>3 DEF RecordInv, Traded
  <2>2. \A i \in DOMAIN responses : responses[i].type = "FILLED" => i = Len(responses)
    BY DEF SimNowInv, EngineInv, Ending
  <2>3. netPosition = position.net + IF FillQueued THEN Sign(Last(responses).side) ELSE 0
    BY DEF SimNowInv, PositionInv
  <2>. QED BY <2>1, <2>2, <2>3 DEF ExecutionsReconcile
<1>. QED BY <1>1, SimNowInvariant, PTL

\* submit and the start-up queries keep the account to one lot, open orders
\* included, through lost callbacks, failures and a shutdown that gave up, and what
\* an earlier run left is found before anything is traded, except an order that
\* executes between the queries.
THEOREM ExposureAlwaysOne == SafeSpec => []ExposureStaysOne
<1>1. SimNowInv => ExposureStaysOne
  <2>. SUFFICES ASSUME SimNowInv, ~ SlippedThrough
                PROVE  /\ holding \in {-1, 0, 1}
                       /\ Cardinality(Unsettled) + (IF account = "resting" THEN 1 ELSE 0) <= 1
                       /\ \A id \in Unsettled : holding + Sign(known[id].side) \in {-1, 0, 1}
    BY DEF ExposureStaysOne
  <2>. USE DEF SimNowInv
  <2>1. Unsettled \subseteq Outstanding /\ Unsettled \subseteq {Newest}
        /\ \A id \in Unsettled : ~ Traded(id)
    BY UnsettledOrders
  <2>2. Cardinality(Unsettled) = 0 \/ Cardinality(Unsettled) = 1
    <3>1. Unsettled = {} \/ Unsettled = {Newest}
      BY <2>1
    <3>. QED BY <3>1, FS_EmptySet, FS_Singleton
  <2>3. ~ StartUpDone => Outstanding = {} /\ Unsettled = {} /\ netPosition = 0
    BY <2>1 DEF StartInv, Outstanding, TypeOK, Newest
  <2>4. account # "empty" => ~ StartUpDone
    <3>1. account = "holding" => stage <= 6
      BY DEF StartInv
    <3>. QED BY <3>1, Conversations DEF StartInv, StartUpDone, TypeOK
  <2>5. CASE account = "empty"
    <3>1. netPosition \in {-1, 0, 1}
      BY DEF TypeOK
    <3>2. \A id \in Outstanding : netPosition + Sign(known[id].side) \in {-1, 0, 1}
      BY DEF PositionInv
    <3>3. CASE \E id \in Outstanding : Traded(id)
      <4>1. \A id \in Outstanding : Traded(id) /\ holding = netPosition + Sign(known[id].side)
        BY <2>5, <3>1, <3>3, OnlyTheNewest DEF PositionInv
      <4>. QED BY <2>1, <2>2, <2>5, <3>2, <3>3, <4>1
    <3>4. CASE ~ \E id \in Outstanding : Traded(id)
      <4>1. holding = netPosition
        BY <2>5, <3>1, <3>4 DEF PositionInv
      <4>. QED BY <2>1, <2>2, <2>5, <3>1, <3>2, <4>1
    <3>. QED BY <3>3, <3>4
  <2>6. CASE account # "empty"
    <3>1. holding \in {0, 1} /\ Unsettled = {}
      BY <2>3, <2>4, <2>6 DEF PositionInv
    <3>. QED BY <3>1, FS_EmptySet
  <2>. QED BY <2>5, <2>6
<1>. QED BY <1>1, SimNowInvariant, PTL

\* The handlers of the callbacks (event, orderEvent, tradeEvent) never find a reason
\* to stop trading in a callback of an order the adapter sent, whatever the order in
\* which the SDK delivers it.
THEOREM CallbacksAreNeverRefused == SafeSpec => []CallbacksNeverFail
<1>1. SimNowInv => CallbacksNeverFail
  BY DEF SimNowInv, StopInv
<1>. QED BY <1>1, SimNowInvariant, PTL

\* When pollOrders reports the stop done, nothing the adapter sent can execute any
\* more, whatever the engine still asks for afterwards.
THEOREM StopAlwaysLeavesNothing == SafeSpec => []StopLeavesNothing
<1>1. SimNowInv => StopLeavesNothing
  BY UnsettledOrders DEF SimNowInv, StopInv, StopLeavesNothing
<1>. QED BY <1>1, SimNowInvariant, PTL

\* Every response the adapter publishes is one Participant expects: the engine's part
\* of every behaviour is a behaviour of Participant, so all that is proved of that
\* (ParticipantProofs) holds of the engine behind this adapter.
THEOREM SimNowImplementsParticipant == SafeSpec => ImplementsParticipant
<1>1. Init => Engine!Init
  BY DEF Init
<1>2. SimNowInv /\ [Next]_vars => [Engine!Next]_(Engine!vars)
  <2>. SUFFICES ASSUME SimNowInv, [Next]_vars PROVE Engine!Next \/ UNCHANGED engineVars
    BY DEF engineVars, Engine!vars
  <2>1. CASE EngineDecides
    BY <2>1 DEF EngineDecides, Engine!Next
  <2>2. CASE EngineReceives
    BY <2>2, Received DEF EngineReceives
  <2>3. CASE Gateway
    BY <2>3 DEF Gateway, CheckRequest, Insert, GatewayFails, CheckOverflow, PollStopping,
                PollTrading, AnswerStartUp, Confirm
  <2>4. CASE Others /\ ~ EngineDecides /\ ~ EngineReceives
    BY <2>4 DEF Others, MarketFails, LoseEvent, StartTrading, GiveUpStart, DisableTrading,
                AskToStop, StopGateway, ExchangeTakes, ExchangeActs, LeftoverExecutes
  <2>5. CASE \E c \in callbacks : HandleCallback(c) \/ LoseCallback(c)
    BY <2>5 DEF HandleCallback, LoseCallback
  <2>6. CASE UNCHANGED vars
    BY <2>6 DEF vars
  <2>. QED BY <2>1, <2>2, <2>3, <2>4, <2>5, <2>6 DEF Next
<1>. QED BY <1>1, <1>2, SimNowInvariant, PTL
     DEF SafeSpec, ImplementsParticipant, Engine!Spec
=============================================================================
