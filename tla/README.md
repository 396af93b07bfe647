# A TLA+ verification project for jev-quant

jev-quant is a trading participant written in C++20. It follows one instrument
at one venue (Binance UM futures, a Simex exchange, or SimNow through the CTP
SDK), asks a language-model service ("Jev") for decisions about it, and turns
the decisions into orders. This directory holds TLA+ modules of its core, the
TLC configurations that check them on small instances, and proofs checked by
TLAPS. Paths below are relative to the repository's own `src/` directory
(`trading/...`, `common/...`) unless they start with `docs/`. `PROJECT.json`
ties every definition to the lines it models.

## 1. The system

### Threads and what connects them

| Thread | Loop | Reads | Writes |
| --- | --- | --- | --- |
| TradeEngine | responses, then market updates, then decisions, then the schedule of evaluations | `client_responses`, `market_updates`, `decisions` | `client_requests`, `evaluations` |
| JevWorker | drain evaluations to the newest, filter, call the provider | `evaluations` | `decisions` |
| OrderGateway | the adapter's poll handler, then requests | `client_requests`, sockets or SDK events | `client_responses` |
| MarketDataConsumer | the adapter's poll handler | sockets or SDK events | `market_updates` |
| AsyncLogger | drain the loggers' queues | logger queues | files |
| SDK / WebSocket threads | call back | network | event queues of the adapters |
| main | start, wait, shut down | signals, state of the adapter | stop flags, `venue_ready_` |

The five queues are single-producer single-consumer rings of 1024 elements; a
full one ends the process, except for the logger's queues, which drop, and the
event queues of SimNow, which drop and raise `control.overflow`. Beside the
queues the threads share atomics: the ids of the latest evaluations and
`venue_ready_` of the engine, and the flags of `SimNowControl`.

### Components

For each: its state, its operations, what is hard, and what makes it correct.

* **LFQueue** (`common/lf_queue.h`). Two indices and an atomic count; claim,
  publish, take, release. Hard: the count and the indices are updated
  separately. Correct: no slot is touched by both threads, and it is a FIFO.
* **MemPool** (`common/mem_pool.h`). Blocks and a search index; allocate,
  deallocate. Hard: the search starts from a stale index. Correct: no block is
  handed out twice, none is unusable.
* **TradeEngine, OrderManager, RiskManager, PositionKeeper**
  (`trading/strategy/`). One order per side with a state, the position with
  the holdings of both days; handle a decision, handle a response. Hard: the
  engine acts on a view that lags behind the venue. Correct: exposure within
  the limit, holdings consistent, an order's slot held until it is settled.
* **Evaluation pipeline** (TradeEngine, JevWorker). Latest evaluation id,
  readiness, two queues; schedule, filter, answer, act. Hard: four threads
  read and clear two atomics. Correct: a decision is acted on at most once, in
  order, only while it is awaited.
* **OrderGateway and SimexVenueAdapter, order side.** Metadata of orders, the
  adapter's own position, buffers to the venue. Hard: cancels cross
  executions; bounded buffers whose overflow ends the process. Correct: every
  execution is booked once on both sides, every order settles.
* **SimexVenueAdapter, market side.** Pending increments, the book, its
  sequence, two timers. Hard: lost, repeated and overtaken datagrams. Correct:
  what is published was the venue's book.
* **SimNowExecution, SimNowVenueAdapter, SimNowControl, SimNowMarketData.**
  Orders with the facts reported of them, readiness, failure and stop flags.
  Hard: callbacks in any order and more than once, a bounded callback queue,
  failure and shutdown from other threads. Correct: one lot of exposure at
  most, nothing left open when a stop is reported as done.
* **BinanceUmFuturesVenueAdapter, BinanceDepthBook, BinanceWebSocketStream.**
  REST orders and a user stream; a depth book synchronised by ids. Hard: two
  sources report on one order, REST calls time out. Correct: an order executed
  to the end is booked once and whole, none that may still execute is
  replaced, and a report is taken only for the order it is about. (An order's
  state can go back, and a part executed of a cancelled order is not booked:
  section 5.)
  Both sides of the depth book keep their levels in a pool, in a sorted list
  and in an array of slots with open addressing and tombstones. Hard: chains
  of slots that removal, reuse and rehashing change. Correct: the book behaves
  as a map from prices to quantities, shown best price first; what is
  published was a book of the exchange.
* **MarketOrderBook and SlotArray.** Copies the depth snapshots of the
  adapters; an incremental half, which no adapter drives, with open addressing
  and backward-shift deletion.
* **FeatureEngine.** Features of the quotes, and whether they are valid.
* **AsyncLogger.** Producers bind, a consumer drains and stops. Hard: lost
  wake-ups, draining at the end.
* **Lifecycle** (`trading_main.cpp`). Order of start and stop.
* **JevHttpClient, configuration, JevHttpCapture, Measurement,
  CallgrindProfiler, jev_replay, CTP transport.** I/O and observers without
  state the trading loop depends on; not modelled.

`PROJECT.json` lists each component with its status and every hazard with its
line.

## 2. The modules

| Module | Models | Uses |
| --- | --- | --- |
| `BoundedFifo` | what a queue promises: a bounded FIFO channel | |
| `SpscQueue` | `LFQueue`, both threads, one access per step | refines `BoundedFifo` |
| `MemPool` | `MemPool`, the search one block per step | |
| `PriceBook` | what one side of a book promises: a ladder of levels | |
| `PriceLevels` | one side of `BinanceDepthBook`: nodes in a pool, list, slots, tombstones, rehashing | EXTENDS `MemPool`; refines `PriceBook` |
| `Participant` | decisions and responses in the engine | |
| `SimexOrderPath` | engine, gateway, adapter and venue in simex mode | INSTANCE `Participant`; refines it |
| `SimNowOrderPath` | engine, gateway, SDK, exchange, market and main thread in simnow mode | INSTANCE `Participant`; refines it |
| `BinanceOrderPath` | engine, gateway with its REST calls and user stream, and exchange in Binance mode | INSTANCE `Participant` |
| `FreshDecisions` | what the pipeline promises of the decisions acted on | |
| `EvaluationPipeline` | engine, worker, venue thread and main thread around the evaluations | refines `FreshDecisions` |
| `BookReplica` | what a market feed promises: the venue's books, one after the other | |
| `SimexMarket` | snapshot and increment synchronisation of the simex adapter | refines `BookReplica` |
| `BinanceMarket` | depth stream, snapshot and market thread of the Binance adapter, for one side of the book | EXTENDS `PriceBook`; refines `BookReplica` |
| `DepthLevels` | the aggregation of a book into a bounded array of levels | |

`*Proofs` modules hold the theorems of the module they are named after;
`PriceLevelsProofs` also those of `MemPool`, which `PriceLevels` extends,
`SimexMarketProofs` also those of `DepthLevels`, the other half of the simex
market data, and `EvaluationPipelineProofs` those of `SpscQueue`, the ring that
each queue of the pipeline is. `MC*` modules are what TLC runs. Operators named `X_Something` under a comment
that starts "Wrong on purpose" are faulty variants of `X`: with one of them in
the place of `X` the property named in `PROJECT.json` fails, which shows that
the property does depend on that piece of code.

### How state and actions correspond to the code

* `SpscQueue`. `ClaimSlot`, `WriteSlot`, `AdvanceWriteIndex`, `Publish` are
  the producer, `TakeSlot`, `HandleSlot`, `AdvanceReadIndex`, `Release` the
  consumer. Each reads or writes one shared word. Steps interleave: the count
  is released by one thread and acquired by the other around every access to a
  slot, and each index is read only by the thread that writes it, so the
  relaxed accesses to the indices add no behaviour.
* `Participant`. `orders[side]` is the slot of `OrderManager`, `position` the
  net position and the two days of `PositionInfo`. `HandleJevDecision` and
  `HandleClientResponse` are whole handlers; `fault` is the exception of
  `handleClientResponse`. The engine meets the venue through `Answers`, the
  responses a venue may send next; the path modules show that theirs do.
  The loss limit depends on prices and is a free choice. Integers are
  unbounded.
* `SimexOrderPath`. `requests` and `responses` are the two queues, `metadata`
  and `netPosition` the adapter's, `outgoing` the buffered bytes and the TCP
  stream, `resting` the venue's book. `terminated` stands for every
  `std::terminate` and for the exceptions that reach one. The checks of
  `submit` that every request of the engine passes are left out. Counting
  what is already on the stream against the buffer is stricter than the code.
* `SimNowOrderPath`. `known[id]` is the `Order` record of `SimNowExecution`
  with fields under their names (`reported` is `reported_fills`, `terminal`
  is `has_terminal`). What the exchange has said about an order stays in
  `callbacks` and may be handled at any time and any number of times: this
  covers every order, delay and repetition the SDK and the FIFO queue behind
  it can produce. `LoseCallback` and `LoseEvent` are `enqueue` on a full queue.
  Start-up is a conversation: `stage` counts the answers (`Conversation` lists
  what they answer), `asked` says that the next request is out; the log-in
  asks by itself, the queries go out with a poll, which may be told to wait.
  `account` is what an earlier run left: nothing, a holding, or an opening
  order that may still execute. The queries see it; its execution after the
  log-in is also called back. `holding` is the exchange's own account of what is
  held; no code reads it, it is what the properties compare the program
  with. A poll that finds trading usable ends with a
  step of its own (`Confirm`), which looks at the failure again before it
  sets `active`, the flag for which `waitUntilReady` and the loop of main
  look. Quotes are a free choice (`usable`). `submit` is two
  steps, so that flags may change between its checks and the call of the SDK.
  `failures` holds the reasons `signalFailure` was called with; it is
  non-empty exactly when `control.fatal` is set. At this venue the engine
  never sends a cancel (it takes no decision while an order works), so the
  cancels are those of the shutdown.
* `BinanceOrderPath`. The gateway thread is either waiting for the answer to
  the head of `requests` (`calling`) or reading `userEvents`. `wire` holds
  requests sent that the exchange has not taken: a call may time out before
  or after that, and the exchange may take a request whose caller has given
  up. `live` and `cumulative` are `live_orders_` and `cumulative_exec_qty_`.
  The exchange is external and does what the adapter's documents and tests
  expect: it takes or refuses requests, executes, cancels and expires orders,
  and reports in order. In this mode the engine runs without the constraints
  of the other two. Requests the adapter sends while preparing, and the polls
  of the listen key, are left out.
* `PriceLevels`. `node` are the blocks of the pool with their price, quantity
  and slot, `list` the blocks in the order of the links, so that unlinking and
  linking are operations on a sequence. `Home` is the hash; nothing is assumed
  of it. A probe is described by where it ends (`FindEnds`, `FirstReusable`):
  it reads only, so its turns need not be steps; that it does end is
  `SearchesAreRight`. `rehashSlots` and the search of the pool take a step a
  turn.
* `BinanceMarket`. Updates are numbered by the exchange; `books[n]` is its
  ladder after update `n`. Levels of a snapshot or event are applied one a
  step. `BinanceDepthBook` keeps a ring for events that come before the
  snapshot; the adapter starts its market thread after the snapshot is
  installed, so the ring stays empty and is left out. The model takes the
  levels from `PriceBook`, of which `PriceLevels` is shown to be an
  implementation.
* `EvaluationPipeline`. `latest` and `ready` are the two atomics, each access
  a step of its own. An evaluation or a decision is its id.
* `SimexMarket`. An order's content is the number of the update that last
  changed it, so a wrong price or quantity shows as a wrong number. `ahead`
  and `quiet` are the adapter's two timers, in ticks; `waiting` is not in the
  code and measures how long each announced increment has been missing.
* `DepthLevels`. `Aggregate` is one call of the lambda `aggregate` of
  `publishBook`; the ordered map it is compared with is the promise in the
  comment above it.

## 3. The runs

| Run | Question | States |
| --- | --- | --- |
| `spsc` | Are the threads kept apart and is it a FIFO? | 6 316 |
| `participant_simex` | With simex constraints, do exposure and holdings stay right for all responses within the contract? | 5 965 |
| `simex_path` | Does the simex path keep the contract, reconcile positions, never end the process, settle every order? | 510 407 |
| `simnow_path` | Does simnow mode start from what an earlier run left, keep the contract and one lot, and wind down after every failure? | 702 373 |
| `pipeline` | Are decisions fresh, and does nothing get stuck? | 42 711 |
| `simex_market` | Is the published book the venue's, and is a lost tail noticed? | 171 125 |
| `depth_levels` | Are the levels the best ones? | 5 859 |
| `binance_path` | In Binance mode, is each full execution booked once, the account within the limit, nothing at work unseen, every order settled? Is a late report ever taken for another order's acceptance, or an untouched order revived? | 408 739 |
| `price_levels` | Does one side of the depth book behave as a ladder, and does every search end at the right slot? | 287 867 |
| `binance_market` | Are snapshot and stream joined without a gap, is what is published a book of the exchange? | 122 924 |
| `binance_expired` | Does an order that expired at the exchange leave its slot? No. | |
| `simex_market_alarm` | Is "Simex snapshot confirms missing market increments" always justified? No. | |

### Bounds and why they are enough

* `spsc`: three slots and three elements, so that the indices wrap while the
  ring is empty, partly full and full.
* `participant_simex`: orders of two lots against a limit of three, so executions
  can be partial, a close can be larger than the holding and an opening can
  just exceed the limit; two prices, so orders are replaced; four orders.
* `simex_path`: five orders of two lots against a limit of four, so both
  sides work and one is replaced. Capacities 4, 8 and 4 are the smallest with
  which the path never ends the process: with 3 requests, 7 responses or a
  buffer of 3 `NeverTerminates` fails.
* `binance_path`: three orders of two lots against a limit of three, so that
  executions can be partial and a second order of a side can pass the limit;
  one price, since another price only makes the engine cancel, which the
  other side does already; one call that times out. The queues are large
  enough not to fill in most behaviours, and a full one ends the process.
* `price_levels`: three blocks for five prices and five slots, two prices with
  the last slot as their home, one tombstone allowed: chains wrap around,
  tombstones are reused and cleared away, the pool runs out, its search passes
  used blocks. This run also checks `MemPool`.
* `binance_market`: three prices for a book of two levels, three updates,
  queue of two: the snapshot overlaps an event, an event is lost before,
  between or after others, the book and the queue overflow.
* `simnow_path`: two orders, each of which may be rejected, ended by the
  exchange, executed or cancelled; the second is decided while late and
  repeated callbacks of the first still come. One failure from outside in a
  behaviour (lost callback, lost connection, market or query failure, in
  start-up, trading or shutdown), plus a start that times out and a cancel the
  SDK refuses. In an account that was not empty one order is enough: it
  already breaks the limit of one lot. The queues hold at most one and a few elements
  here: what a full queue does is shown on the simex path.
* `pipeline`: five evaluations through queues of two, so that a queue can
  fill while one evaluation is at the provider and one is decided.
* `simex_market`: three updates, so that a snapshot lies between increments;
  three orders against a book of two, so that the book can be full; a timeout
  of one tick.
* `depth_levels`: five prices for three levels, six orders.

### Fairness

No property needs a decision, a market update or an execution to happen.

* Simex path: the engine and the gateway poll in loops, hence WF of
  `EngineReceives`, `GatewaySubmits`, `GatewayReceives`; the venue answers
  each request, hence WF of `VenueTakes`.
* SimNow path: the same for the engine and for the steps of the gateway; the
  SDK delivers what it has (WF of handling some callback: each callback
  changes an order at most a few times, so none is passed over for ever); the
  exchange takes what it is sent. Main waits on a condition that every failure
  notifies and then runs a loop that polls `venue->running()`: WF of its step
  out of the start after a failure, out of the loop once `active` is cleared,
  and to the stop. Nothing makes the exchange answer the start-up. `ShutdownSettles`
  names what excuses it: a refused cancel, a lost callback or connection, and
  the end of the wait.
* Binance path: the engine and the gateway poll (WF of `EngineReceives`,
  `GatewaySends`, `GatewayReturns`, `GatewayReadsEvent`). A call returns
  because it has a timeout; as the timeouts of the model are bounded, the
  exchange is fair in their place (WF of `ExchangeTakes`). Executions and
  expiries are owed to nobody.
* Binance market: `prepare` goes on and the market thread polls (WF of
  their steps together); the exchange owes no update and no event.
* Pipeline: market updates pause now and then (`MarketDone`), the engine's
  other steps and the worker run, and a call of the provider returns or fails
  because it has a timeout.
* Simex market: time passes, the thread polls its timers and finishes its
  loops; no datagram has to arrive.

### What the violation runs show

`simex_market_alarm` (`trading/venue/simex/simex_venue_adapter.cpp:434-437,
512-516`). The comment says that a snapshot may precede increments still
queued and that its watermark is used to detect a lost tail; the process ends
with "Simex snapshot confirms missing market increments". The timer starts at
the first watermark that is ahead and is reset only when a poll finds the
adapter level with the newest watermark. TLC finds a feed on which no
increment is late by more than the timeout, but a newer watermark always
comes before the older one is reached, and the process ends. The run uses
`PunctualSpec`, in which the thread looks at its timers before each tick, so
that the alarm is not the fault of a thread that was late.

`binance_expired`
(`trading/venue/binance/binance_um_futures_adapter.cpp:494`). The adapter maps
`EXPIRED` to the end of an order, and its test calls the state terminal, but
`handleUserEvent` drops every event without a new execution before it looks at
the state. An order that expires without one stays live in the slot of its
side: the engine goes on counting on it, and a cancel of it is refused.

## 4. What is proved

TLAPS checks every step of these modules. Constants are any that satisfy the
named assumptions (`ParticipantAssumption`, `SimexPathAssumption`,
`SimNowAssumption`, `BinancePathAssumption`, `PipelineAssumption`, ...), which TLC evaluates in the
runs. The paths assume what their configurations switch on: simex and simnow the
constraints, and in simnow mode a venue for one order of one lot; the
Binance path assumes that neither is on.

| Module | Theorems | Inductive invariant |
| --- | --- | --- |
| `ParticipantProofs` | `TypeCorrect`, `LimitHolds`, `HoldingsHold`, `NeverDisagrees`, `HoldingNeverReverses`, `SlotsAreHeld` | `ParticipantInv` |
| `EvaluationPipelineProofs`, ring | `RingInvariant`, `NoRace`, `NoAbort`, `RingImplementsFifo` | `RingInv` |
| the same, pipeline | `PipelineInvariant`, `PipelineImplementsFresh`, `NothingActsWhileDown` | `PipelineInv`, `ReadinessInv` |
| `SimexOrderPathProofs` | `SimexInvariant`, `PositionsAlwaysReconcile`, `CancelsAlwaysAccountedFor`, `NewOrdersAlwaysForwarded`, `PathNeverTerminates`, `SimexImplementsParticipant` | `SimexInv` |
| `SimNowOrderPathProofs` | `SimNowInvariant`, `ExecutionsAlwaysReconcile`, `ExposureAlwaysOne`, `CallbacksAreNeverRefused`, `StopAlwaysLeavesNothing`, `SimNowImplementsParticipant` | `SimNowInv` |
| `BinanceOrderPathProofs` | `BinanceInvariant`, `FillsAlwaysReconcile`, `NothingRestsUnseenEver`, `AccountStaysWithinLimit`, `LiveOrdersWereTaken` | `PathInv`, `TakenInv` |
| `SimexMarketProofs`, simex adapter | `ReplicaInvariant`, `NeverRefused`, `MarketImplementsReplica` | `MarketInv` |
| the same, levels | `LevelsHold`, `EvictedStay` | `LevelsInv` of `DepthLevels` |
| `PriceLevelsProofs`, pool | `PoolInvariant`, `NoBlockTwice`, `EveryBlockUsable` | `PoolInv` |
| the same, levels | `LevelsInvariant`, `SearchesRight`, `BookNeverGetsBlockTwice` | `LevelsInv` of `PriceLevels` |
| `BinanceMarketProofs` | `JoinsWithoutGap` | `JoinInv` |

How the arguments go:

* **Ring.** `RingInv` ties the count to the distance of the two indices, with
  a correction while one thread is between its two updates. Only this
  correction makes the invariant inductive; the race and the aborts are
  excluded by what it says about the two program counters. The refinement
  mapping shows the window of full slots as a sequence; `Publish` and
  `HandleSlot` are the two steps of the channel.
* **Pool.** Between operations the search index is at a free block or every
  block is used; during a search all blocks passed are used.
* **Participant.** `ExposureWithinLimit` alone is not inductive: an execution
  on one side changes the holding that the order of the other side was
  checked against. With `HoldingsAgree` (under the constraints, working
  opens extend the holding and closes are covered by the day they close) and
  `OrderWithinLimit` (once anything is held or works, an order is no larger
  than the limit) every step keeps the
  conjunction. `NeverDisagrees` then says that the exception in
  `handleClientResponse` cannot be thrown by a venue within the contract.
* **Simex path.** `PositionsReconcile` alone says nothing about the next step:
  that an execution can be booked depends on what every message under way
  and every record means. `SimexInv` sees requests, the stream to the venue,
  the stream back and responses as one conveyor. `MayLead` says which message
  of a side may be ahead of which: the acceptance before the executions, an
  execution before what is left of the order, and of an earlier order at most a
  cancel or its refusal. `Fits` says what each message means for the slot of
  its side (a new order has the slot's quantity and waits for its answer, an
  execution is no larger than the order), `SlotsInv` that a slot waiting for a
  cancel has its outcome on the conveyor. `RecordInv` ties the adapter's record
  of an order to the slot after the queued executions (`IsLeft`), `RestingInv`
  the venue's book to the record after the executions in the stream. From these
  follows that a cancel is in one place at a time, that the checks of `submit`
  pass although they look at a later position than the engine's, and
  that every response is one `Answers` allows.
  `PositionsReconcile` compares the two positions by a running total over the
  responses (`Executed`, a recursive function). How the total changes when a
  message is added or taken is proved by looking at the shortest prefix for
  which it would not hold, since Nat is well-founded. `PathNeverTerminates` is proved for
  any capacities that hold what two slots can have under way
  (`CapacitiesSuffice`, with equality in the run): a message is determined by
  its side and a key from a small set, so a queue of n messages needs n
  such pairs. The queues of the program hold 1024, which suffices for orders of up
  to 510 lots; a larger order would have to execute lot by lot while the
  engine takes nothing from its queue.
* **SimNow path.** One order at a time makes everything hang on the newest
  order the engine gave out: it is in `requests`, or outstanding at the adapter, or
  its last response is in `responses`, and only one of the three
  (`EngineInv`). Callbacks come late, again and out of order, so the invariant
  says of each only that it is true of what the exchange has done
  (`Truthful`), and of each record that what it notes is so (`RecordInv`). An
  execution ends the possibility of every other end, which is why an order
  booked or reported once is never booked again. `PositionInv` compares three
  positions, the exchange's, the adapter's and the engine's: they
  differ by at most the one execution that is known to the one and not yet
  to the other, and by what slipped through the start-up. `StopLeavesNothing`
  rests on the adapter's own notes only (`StopInv`), the rest shows that the
  notes are right.
* **Binance path.** The argument follows one order: its request waits
  (`Asked`), then the exchange has it and it may execute (`MayExecute`), then its
  last execution is reported and not read (`Unread`), then read and not booked
  (`Unbooked`), and it is in one of these places at a time. All that while, unless
  its answer was lost, it is in the slot of its side with the quantity the
  exchange has, and the slot is not dead, although partial executions and
  answers overtake one another (`ExchangeInv`). So the slot is free only when
  nothing can execute any more, the last report finds the order in the
  adapter's records (`LiveInv`), and it is booked once and whole (`EventsInv`,
  `ResponsesInv`). A close is never cut by a smaller position (`CloseInv`):
  what it closes was there when it was decided, and an order of the other side
  cannot take it away. For the sums behind `FillsReconcile` it
  suffices that one term changes at a time (`TotalAdds`). For `AccountWithinLimit` the
  account is the position plus what the orders of the two slots have executed
  and the engine has not booked; each slot's order fits the limit on its own
  (`ExposureInv`), and the two pull in opposite directions.
  `LiveWasTaken` becomes inductive with one fact more (`TakenInv`): every
  acceptance under way to the engine names an order the exchange has. A slot
  becomes live by an acceptance only, and the engine compares the ids.
* **Pipeline.** Ids ascend from the decision acted on, through the decisions,
  the worker and the evaluations, to the last id given out. `NothingActsWhileDown`
  uses the order of the two stores in `updateVenueState` and
  `disableVenueTrading`: readiness is withdrawn before the ids are cleared.
  The other order would leave a window.
* **Simex market.** The book is the venue's after `sequence` updates in every
  phase, also in the middle of joining; hence an increment that passes the
  sequence checks also passes the checks of `apply`, and each step of the
  adapter shows the next book.
* **Levels.** The array holds exactly the best prices seen, in order, with
  the sum of what was seen at each; a price once pushed out is worse than a
  full array, and the array only gets better.
* **Slots.** `SearchesAreRight` alone is not inductive: whether a search ends
  depends on how many slots are neither empty nor in use, whether it ends
  rightly on the chains. `LevelsInv` says that every node is reached from its
  home without passing an empty slot (`ChainsInv`), that no slot leads to
  anything but a node of the list (`SlotsInv`), that the list is sorted and
  its blocks are those in use (`ListInv`), and that the count of tombstones is
  not below what there is (`TombstonesInv`). With `Capacity + MaxTombstones <
  SlotCount`, the assumption the constants of the code meet, an empty slot
  always exists, so the first slot at which a probe ends exists too. During
  rehashing the same holds of the nodes placed so far. The proof holds for
  any hash, and the pool's invariant is carried along, which gives
  `NeverInUseTwice` for the pool as the book uses it.
* **Joining at Binance.** `JoinInv` says that an event begins with the first
  update of the book after the event before it (`EventsInv`), and that,
  unless something was lost, the queue is a chain of events that ends at the
  last one emitted and begins no later than where the book is (`StreamInv`).
  The snapshot is at least as new as everything emitted before it. So the
  event at the head either follows what is there or covers the update after
  it, and the test for a gap is passed.

### What is only model-checked

* Liveness (`SlotsResolve`, `EvaluationsSettle`, `TailNoticed`,
  `ShutdownSettles`, `CatchesUp`): fairness and ENABLED are beyond the prover.
* `RevivedOnlyIfExecuted` of `BinanceOrderPath`. An invariant for it would say
  that of an order nothing was executed of, at most one cancel or answer to it
  is under way. Nothing stands in the way of this but the work.
* Of `BinanceMarket`, that what it shows is a book of the exchange. Nothing
  stands in the way of this but the work.
* That `PriceLevels` implements `PriceBook`: the ladder is defined by sorting
  a set, and that sorting gives a sequence with the members of the set needs
  induction over data.

Some theorems state properties that no run checks any more, because they are
means to an end: `RingInv`, `PoolInv`, `LevelsInv` of `PriceLevels`, `TypeOK`
and `SlotHeldUntilDone` of `Participant`, `EvictedStayOut` of `DepthLevels`, `NeverInconsistent` of `SimexMarket`, `SimexInv`, `SimNowInv`, `PathInv` of
`BinanceOrderPath`.

What holds together: `Participant` is proved for any venue that keeps the
contract `Answers`, and the simex and simnow paths are proved to keep it
(`SimexImplementsParticipant`, `SimNowImplementsParticipant`). So exposure, holdings
and slots are right for the engine behind the simex adapter and behind SimNow, not
only for an engine that is told what it expects. Binance mode has no such
contract: it runs without the constraints, and its adapter does not report
partial executions (section 5).

## 5. What the models say that is worth knowing

* The engine compares the id of a response with the slot's order. On the
  simex path it fails in one case only: a cancel that crossed the last
  execution is refused after the slot was given to a new order. The new order
  is then still waiting for its answer, so without the comparison the refusal
  would change nothing either (`Fits` states both).
* `yesterday` never becomes positive in the program (there is no rollover of
  positions), so closes of yesterday's holding do not occur. The models keep
  the code as it is.
* `scheduleJevEvaluation` reads readiness and registers the evaluation later.
  An outage between the two leaves an evaluation made before it valid after
  recovery. The code allows it and no document excludes it.
* A lost market-data connection sets the same flag as a lost trading
  connection, and `cancel` does nothing while it is set: at shutdown an order
  may be left at the exchange. The adapter does not report the stop as done
  in that case (`StopLeavesNothing`), the wait ends by its timeout.
* In Binance mode partial executions are reported as acceptances and change no
  position. An order executed to the end is booked whole by its last report;
  the part executed of an order that is then cancelled or expires is never
  booked, so account and engine part. `FillsReconcile` and
  `AccountWithinLimit` say what remains true.
* A partial execution that waits in the user stream while a cancel is answered
  is reported after that answer, as an acceptance, and makes the dead slot of
  that order live again; the next cancel of it is refused. No test of the
  repository puts the two reports in this order. `RevivedOnlyIfExecuted` says
  how far it goes: an order cancelled before anything of it was executed stays
  dead, unless a call timed out.
* A cancel that timed out but reached the exchange is answered to the engine
  as a refusal, and the order counts as live again. The user stream does not
  correct this: an event without a new execution is dropped before its status
  is looked at (`binance_um_futures_adapter.cpp:494`). The next cancel is
  refused by the exchange, and the order counts as live again.
* A REST call that timed out counts as a rejection. The exchange may hold the
  order all the same; the engine neither knows nor asks. The safety
  properties of `binance_path` except such orders by name (`lost`).
* `rehashSlots` runs when a removal finds the count of tombstones at its limit,
  and the count is not lowered when an insertion reuses one: it is an upper
  bound, so rehashing comes early, never late.
* A lost depth event always ends the process ("gap") when the next one is
  read; nothing synchronises the book again.
* Between `disableVenueTrading` and `quiesce` an account refresh publishes
  readiness again (`simnow_execution.cpp:293`). An order decided then is
  refused or cancelled, which is part of what `simnow_path` checks.
* `docs/simnow/adapter-operations.md:20` says that the queries of the start-up
  reject any position or active order. They are asked one after the other: an
  order of an earlier run that executes between the position query and the
  order query is seen by neither. Its execution is then called back and ends
  the program, but an order may go out before that. `ExposureStaysOne` excepts
  this case by name (`SlippedThrough`).

## 6. Not modelled, and why

* Prices, profit, the loss limit, 32-bit arithmetic, several tickers: the
  properties do not tell them apart, or they only restrict choices.
* Partial reads and writes, framing, field checks of well-formed messages,
  TLS, HTTP, JSON, the vendor SDK: I/O.
* Of the start-up of SimNow: the contents of the answers other than holdings
  and active orders, the comparison of trading days and the log-in to the
  market data. Each of them ends in a failure, which may come at any time, or
  in a quote, which may be valid at any poll.
* Weak memory beyond what section 2 says of the ring: the steps of the models
  interleave.
* `moveOrders`, which has no caller.
* The incremental half of `MarketOrderBook`: all three adapters publish depth
  snapshots, which it copies, so its slot array is used by tests only.
* Of `BinanceDepthBook`: the ring of events before the snapshot (see section
  2), the limits of 1000 levels of a snapshot and five published levels, and
  that the two sides share one event.
* Of the Binance adapter: the checks of account and instrument at start-up,
  signing, the listen key, WebSocket and TLS.
* `AsyncLogger`: no trading state depends on it; its queues are `SpscQueue`.
* The shutdown in Binance and Simex mode: threads stop, queued requests stay
  unsent and orders may rest; no document promises anything of them.

## 7. Plan

Done: the queue and the pool; the engine; the simex path; the pipeline; the
simex market data and its levels; simnow mode from log-in to shutdown;
the Binance path, depth book and market data; proofs
for all but what section 4 lists as only model-checked.

1. *AsyncLogger*: binding, wake-ups, draining at the end.
2. *Lifecycle* in the other modes.
3. *Proofs*: that `BinanceMarket` implements `BookReplica`;
   `RevivedOnlyIfExecuted`.
