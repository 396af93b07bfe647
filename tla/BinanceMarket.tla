--------------------------- MODULE BinanceMarket ---------------------------
(***************************************************************************)
(* The market-data half of the Binance adapter, for one side of the book:  *)
(* the exchange, the depth stream with the queue depth_events_, the        *)
(* snapshot taken by prepare(), and the market thread that applies the     *)
(* events to the depth book, level by level, and publishes it.  The book   *)
(* is what PriceLevels implements, a PriceBook.                            *)
(*                                                                         *)
(* The exchange numbers its updates; an event covers those since the event *)
(* before it.  Some numbers belong to other books.                         *)
(***************************************************************************)
EXTENDS PriceBook

CONSTANTS QueueCapacity,   \* elements of depth_events_
          MaxUpdates       \* bound of the model: updates of the exchange

ASSUME BinanceMarketAssumption ==
    /\ Prices \subseteq Nat
    /\ Quantities \subseteq Nat \ {0}
    /\ IsBid \in BOOLEAN
    /\ {Capacity, QueueCapacity, MaxUpdates} \subseteq Nat

VARIABLES books,     \* the ladder of the exchange after so many updates
          emitted,   \* the last update covered by an event
          lost,      \* an event was lost between the exchange and the adapter
          stream,    \* depth_events_; the head is the event being applied
          phase,     \* where prepare() or the market thread is
          todo,      \* the levels of the snapshot or event not applied yet
          last,      \* last_update_id_
          shown,     \* what was last published; Nothing at first
          fatal      \* what ended the process

vars == <<ladder, books, emitted, lost, stream, phase, todo, last, shown, fatal>>

Nothing == [at |-> -1, ladder |-> << >>]

Init ==
    /\ BookInit
    /\ books = [n \in {0} |-> << >>]
    /\ emitted = 0
    /\ lost = FALSE
    /\ stream = << >>
    /\ phase = "starting"
    /\ todo = {}
    /\ last = 0
    /\ shown = Nothing
    /\ fatal = "none"

Newest == Cardinality(DOMAIN books) - 1
Alive == fatal = "none"
-----------------------------------------------------------------------------
(***************************************************************************)
(* The exchange.                                                           *)
(***************************************************************************)

\* The ladder after a change of one level; quantity 0 removes it.
Changed(levels, price, qty) ==
    LET others == {level \in ToSet(levels) : level.price # price}
    IN  Ladder(others \cup {level \in {[price |-> price, qty |-> qty]} : qty > 0})

\* A level is set or removed, or the number goes to another book.
ExchangeUpdates ==
    /\ Alive
    /\ Newest < MaxUpdates
    /\ \E new \in {books[Newest]} \cup {Changed(books[Newest], price, qty) :
                                          price \in Prices, qty \in {0} \cup Quantities} :
          books' = [n \in 0 .. Newest + 1 |-> IF n > Newest THEN new ELSE books[n]]
    /\ UNCHANGED <<ladder, emitted, lost, stream, phase, todo, last, shown, fatal>>

\* The updates of this book among some numbers.
Own(numbers) == {n \in numbers : books[n] # books[n - 1]}

\* The next event.  Once the stream is connected it reaches the queue, or is lost;
\* a full queue ends the process.
ExchangeEmits ==
    /\ Alive
    /\ LET covered == Own(emitted + 1 .. Newest)
           event == [first |-> Min(covered), final |-> Max(covered), previous |-> emitted]
       IN  /\ covered # {}
           /\ emitted' = event.final
           /\ \/ phase = "starting" /\ UNCHANGED <<stream, lost, fatal>>
              \/ phase # "starting" /\ ~ lost /\ lost' = TRUE /\ UNCHANGED <<stream, fatal>>
              \/ /\ phase # "starting"
                 /\ stream' = Append(stream, event)
                 /\ fatal' = IF Len(stream) >= QueueCapacity THEN "overflow" ELSE "none"
                 /\ UNCHANGED lost
    /\ UNCHANGED <<ladder, books, phase, todo, last, shown>>

\* The quantity a ladder has at a price, 0 if no level.
QtyAt(levels, price) ==
    LET there == {level \in ToSet(levels) : level.price = price}
    IN  IF there = {} THEN 0 ELSE (CHOOSE level \in there : TRUE).qty

\* The levels of an event: the prices it changed, as they are at its end.
Changes(event) ==
    {[price |-> price, qty |-> QtyAt(books[event.final], price)] :
        price \in {p \in Prices : \E n \in event.first .. event.final :
                                      QtyAt(books[n], p) # QtyAt(books[n - 1], p)}}
-----------------------------------------------------------------------------
(***************************************************************************)
(* prepare().                                                              *)
(***************************************************************************)
Connect ==
    /\ phase = "starting"
    /\ phase' = "connected"
    /\ UNCHANGED <<ladder, books, emitted, lost, stream, todo, last, shown, fatal>>

\* installSnapshot with the book of the exchange, fetched after the stream was
\* connected; it carries the number of the book's newest update, never 0.
FetchSnapshot ==
    /\ Alive /\ phase = "connected"
    /\ Clear
    /\ Own(1 .. Newest) # {}
    /\ last' = Max(Own(1 .. Newest))
    /\ todo' = ToSet(books[Newest])
    /\ phase' = "installing"
    /\ UNCHANGED <<books, emitted, lost, stream, shown, fatal>>

Installed ==
    /\ Alive
    /\ phase = "installing" /\ todo = {}
    /\ phase' = "prepared"
    /\ UNCHANGED <<ladder, books, emitted, lost, stream, todo, last, shown, fatal>>
-----------------------------------------------------------------------------
(***************************************************************************)
(* The market thread: pollMarket.                                          *)
(***************************************************************************)

\* buildMarketUpdate walks the levels from the best on.
Publish(id) == shown' = [at |-> id, ladder |-> ladder]

PublishSnapshot ==
    /\ Alive /\ phase = "prepared"
    /\ Publish(last)
    /\ phase' = "polling"
    /\ UNCHANGED <<ladder, books, emitted, lost, stream, todo, last, fatal>>

\* Wrong on purpose: an event with nothing new stays at the head of the queue.
SkipEvent_KeepsIt ==
    /\ Alive /\ phase = "polling"
    /\ stream # << >> /\ Head(stream).final <= last
    /\ Publish(last)
    /\ UNCHANGED <<ladder, books, emitted, lost, stream, phase, todo, last, fatal>>

\* An event with nothing new; what is there is published again.
SkipEvent ==
    /\ Alive /\ phase = "polling"
    /\ stream # << >> /\ Head(stream).final <= last
    /\ Publish(last)
    /\ stream' = Tail(stream)
    /\ UNCHANGED <<ladder, books, emitted, lost, phase, todo, last, fatal>>

\* Wrong on purpose: only the number of the event before is compared.
Follows_PreviousOnly(event) == event.previous = last

\* Wrong on purpose: any event that is not old will do.
Follows_Any(event) == TRUE

\* The event follows what is there, or covers the update after it.
Follows(event) ==
    \/ last = 0
    \/ event.previous = last
    \/ event.first <= last + 1 /\ event.final >= last + 1

\* applyDepthEvent up to its loops; a gap ends the process.
StartEvent ==
    /\ Alive /\ phase = "polling"
    /\ stream # << >> /\ Head(stream).final > last
    /\ IF Follows(Head(stream))
       THEN phase' = "applying" /\ todo' = Changes(Head(stream)) /\ UNCHANGED fatal
       ELSE fatal' = "gap" /\ UNCHANGED <<phase, todo>>
    /\ UNCHANGED <<ladder, books, emitted, lost, stream, last, shown>>

\* One turn of the loops over the levels of an event or of the snapshot; a level
\* there is no room for ends the process.
ApplyLevel ==
    /\ Alive /\ phase \in {"installing", "applying"}
    /\ \E change \in todo :
          /\ \/ change.qty = 0 /\ RemoveLevel(change.price) /\ UNCHANGED fatal
             \/ change.qty > 0 /\ SetLevel(change.price, change.qty) /\ UNCHANGED fatal
             \/ /\ change.qty > 0 /\ ~ HasRoom(change.price)
                /\ fatal' = "out of space"
                /\ UNCHANGED ladder
          /\ todo' = todo \ {change}
    /\ UNCHANGED <<books, emitted, lost, stream, phase, last, shown>>

EventApplied ==
    /\ Alive
    /\ phase = "applying" /\ todo = {}
    /\ last' = Head(stream).final
    /\ Publish(last')
    /\ phase' = "polling"
    /\ stream' = Tail(stream)
    /\ UNCHANGED <<ladder, books, emitted, lost, todo, fatal>>
-----------------------------------------------------------------------------
Prepare == Connect \/ FetchSnapshot \/ Installed
MarketThread == ApplyLevel \/ PublishSnapshot \/ SkipEvent \/ StartEvent \/ EventApplied

Next == ExchangeUpdates \/ ExchangeEmits \/ Prepare \/ MarketThread

\* prepare() goes on and the market thread polls; the exchange owes no event.
Spec == Init /\ [][Next]_vars /\ WF_vars(Prepare \/ MarketThread)
-----------------------------------------------------------------------------
(***************************************************************************)
(* Properties.                                                             *)
(***************************************************************************)

\* What is published is a book of the exchange, complete and in order, each time
\* the same or a later one, however snapshot and events overlapped and whatever was
\* lost between them.
Replica == INSTANCE BookReplica
    WITH at <- shown.at,
         shown <- shown.ladder
ImplementsReplica == Replica!SkippingSpec

\* Snapshot and stream join without a gap: the process ends over one only after an
\* event was lost.
GapOnlyAfterLoss == fatal = "gap" => lost

\* What reaches the queue is published, or the process ends.
CatchesUp ==
    \A n \in 1 .. MaxUpdates :
        stream # << >> /\ Last(stream).final >= n ~> shown.at >= n \/ ~ Alive
=============================================================================
