---------------------- MODULE EvaluationPipelineProofs ----------------------
(***************************************************************************)
(* Proofs about EvaluationPipeline, for every capacity of the queues and   *)
(* any number of evaluations, and about the ring each of its queues is,    *)
(* SpscQueue: for every capacity and every set of elements it keeps the    *)
(* two threads on different slots, never trips its own checks and is the   *)
(* bounded FIFO channel the pipeline takes its queues to be.               *)
(***************************************************************************)
EXTENDS EvaluationPipeline, SpscQueue, SequenceTheorems, TLAPS

(***************************************************************************)
(* Queues of evaluation ids.                                               *)
(***************************************************************************)

\* Taking the first id leaves the others, in their order, one place earlier.
LEMMA TailKeepsOrder ==
    ASSUME NEW s \in Seq(Nat), s # << >>, Ascending(s)
    PROVE  /\ Tail(s) \in Seq(Nat)
           /\ Ascending(Tail(s))
           /\ 1 \in DOMAIN s /\ Head(s) = s[1]
           /\ \A i \in DOMAIN Tail(s) : /\ i + 1 \in DOMAIN s
                                        /\ Tail(s)[i] = s[i + 1]
                                        /\ s[1] < Tail(s)[i]
BY DEF Ascending

\* An id above all those queued can be appended.
LEMMA AppendKeepsOrder ==
    ASSUME NEW s \in Seq(Nat), NEW id \in Nat, Ascending(s),
           \A i \in DOMAIN s : s[i] < id
    PROVE  /\ Append(s, id) \in Seq(Nat)
           /\ Ascending(Append(s, id))
           /\ \A i \in DOMAIN Append(s, id) : \/ /\ i \in DOMAIN s
                                                 /\ Append(s, id)[i] = s[i]
                                              \/ Append(s, id)[i] = id
BY DEF Ascending
-----------------------------------------------------------------------------
(***************************************************************************)
(* The ids are in order everywhere.  The engine's steps that disturb the   *)
(* order are the three that hand out, register and queue an id; the        *)
(* worker's are those that move one on.                                    *)
(***************************************************************************)
LEMMA InitPipeline == Init => PipelineInv
<1>. SUFFICES ASSUME Init PROVE PipelineInv
  OBVIOUS
<1>1. TypeOK
  <2>1. << >> \in Seq(Nat)
    OBVIOUS
  <2>2. 0 \in Nat /\ 1 \in Nat \ {0}
    OBVIOUS
  <2>. QED BY <2>1, <2>2, Zenon DEF Init, TypeOK
<1>2. DOMAIN evaluations = {} /\ DOMAIN decisions = {}
  BY DEF Init
<1>3. LastRegistered = 0 /\ LastQueued = 0 /\ ~ Holds
  BY DEF Init, LastRegistered, LastQueued, Holds
<1>. QED BY <1>1, <1>2, <1>3 DEF Init, PipelineInv, Ascending

LEMMA MarketUpdateKeeps ==
    ASSUME PipelineInv, NEW usable \in BOOLEAN, MarketUpdate(usable)
    PROVE  PipelineInv'
BY DEF PipelineInv, TypeOK, LastRegistered, LastQueued, Holds, Ascending,
       MarketUpdate, EngineAt, workerVars, outsideVars

LEMMA MarketDoneKeeps ==
    ASSUME PipelineInv, MarketDone
    PROVE  PipelineInv'
BY DEF PipelineInv, TypeOK, LastRegistered, LastQueued, Holds, Ascending,
       MarketDone, EngineAt, workerVars, outsideVars

LEMMA CheckReadinessKeeps ==
    ASSUME PipelineInv, CheckReadiness
    PROVE  PipelineInv'
<1>1. decisions \in Seq(Nat) /\ decisions # << >> /\ Ascending(decisions)
  BY DEF PipelineInv, TypeOK, CheckReadiness
<1>2. /\ Tail(decisions) \in Seq(Nat)
      /\ Ascending(Tail(decisions))
      /\ \A i \in DOMAIN Tail(decisions) : /\ i + 1 \in DOMAIN decisions
                                           /\ Tail(decisions)[i] = decisions[i + 1]
  BY <1>1, TailKeepsOrder
<1>3. CASE engine' = "compare" /\ UNCHANGED decisions
  BY <1>1, <1>3 DEF PipelineInv, TypeOK, LastRegistered, LastQueued, Holds, Ascending,
       CheckReadiness, EngineAt, workerVars, outsideVars
<1>4. CASE decisions' = Tail(decisions) /\ UNCHANGED engine
  BY <1>2, <1>4 DEF PipelineInv, TypeOK, LastRegistered, LastQueued, Holds, Ascending,
       CheckReadiness, EngineAt, workerVars, outsideVars
<1>. QED BY <1>3, <1>4 DEF CheckReadiness

LEMMA CompareEvaluationKeeps ==
    ASSUME PipelineInv, CompareEvaluation
    PROVE  PipelineInv'
<1>1. decisions \in Seq(Nat) /\ decisions # << >> /\ Ascending(decisions)
  BY DEF PipelineInv, TypeOK, CompareEvaluation, EngineAt
<1>2. /\ Tail(decisions) \in Seq(Nat)
      /\ Ascending(Tail(decisions))
      /\ 1 \in DOMAIN decisions /\ Head(decisions) = decisions[1]
      /\ \A i \in DOMAIN Tail(decisions) : /\ i + 1 \in DOMAIN decisions
                                           /\ Tail(decisions)[i] = decisions[i + 1]
                                           /\ decisions[1] < Tail(decisions)[i]
  BY <1>1, TailKeepsOrder
<1>3. decisions' = Tail(decisions) /\ engine = "compare" /\ engine' = "decisions"
  BY DEF CompareEvaluation, EngineAt
<1>4. acted' \in {acted, decisions[1]}
  BY <1>2 DEF CompareEvaluation
<1>5. acted' \in Nat /\ acted' <= LastQueued'
  BY <1>2, <1>3, <1>4 DEF PipelineInv, TypeOK, CompareEvaluation, LastQueued
<1>6. \A i \in DOMAIN decisions' : acted' < decisions'[i] /\ decisions'[i] <= LastQueued'
  BY <1>2, <1>3, <1>4 DEF PipelineInv, TypeOK, CompareEvaluation, LastQueued
<1>7. \A i \in DOMAIN evaluations : acted' < evaluations[i]
  BY <1>2, <1>3, <1>4 DEF PipelineInv, TypeOK
<1>8. Holds => acted' < candidate
  BY <1>2, <1>3, <1>4 DEF PipelineInv, TypeOK
<1>. QED
  BY <1>2, <1>3, <1>5, <1>6, <1>7, <1>8
  DEF PipelineInv, TypeOK, LastRegistered, LastQueued, Holds, Ascending,
       CompareEvaluation, workerVars, outsideVars

LEMMA DecisionsDoneKeeps ==
    ASSUME PipelineInv, DecisionsDone
    PROVE  PipelineInv'
BY DEF PipelineInv, TypeOK, LastRegistered, LastQueued, Holds, Ascending,
       DecisionsDone, EngineAt, workerVars, outsideVars

LEMMA ScheduleKeeps ==
    ASSUME PipelineInv, NEW due \in BOOLEAN, Schedule(due)
    PROVE  PipelineInv'
<1>1. CASE valid /\ nextId' = nextId + 1 /\ engine' = "register"
  BY <1>1 DEF PipelineInv, TypeOK, LastRegistered, LastQueued, Holds, Ascending,
       Schedule, EngineAt, workerVars, outsideVars
<1>2. CASE engine' = "market" /\ UNCHANGED nextId
  BY <1>2 DEF PipelineInv, TypeOK, LastRegistered, LastQueued, Holds, Ascending,
       Schedule, EngineAt, workerVars, outsideVars
<1>. QED BY <1>1, <1>2 DEF Schedule

LEMMA RegisterKeeps ==
    ASSUME PipelineInv, Register
    PROVE  PipelineInv'
<1>1. CASE terminated' = TRUE /\ UNCHANGED <<latest, engine>>
  BY <1>1 DEF PipelineInv, TypeOK, LastRegistered, LastQueued, Holds, Ascending,
       Register, EngineAt, workerVars, outsideVars
<1>2. CASE latest' = nextId - 1 /\ engine' = "enqueue" /\ UNCHANGED terminated
  BY <1>2 DEF PipelineInv, TypeOK, LastRegistered, LastQueued, Holds, Ascending,
       Register, EngineAt, workerVars, outsideVars
<1>. QED BY <1>1, <1>2 DEF Register

LEMMA EnqueueKeeps ==
    ASSUME PipelineInv, Enqueue
    PROVE  PipelineInv'
<1>1. engine = "enqueue" /\ engine' = "market" /\ nextId \in Nat /\ nextId > 1
      /\ evaluations \in Seq(Nat) /\ Ascending(evaluations)
  BY DEF PipelineInv, TypeOK, Enqueue, EngineAt
<1>2. LastQueued = nextId - 2 /\ LastQueued' = nextId - 1 /\ nextId - 1 \in Nat
  BY <1>1 DEF LastQueued, Enqueue
<1>3. evaluations' = Append(evaluations, nextId - 1)
  BY DEF Enqueue
<1>4. \A i \in DOMAIN evaluations : evaluations[i] < nextId - 1
  BY <1>1, <1>2 DEF PipelineInv
<1>5. /\ evaluations' \in Seq(Nat)
      /\ Ascending(evaluations)'
      /\ \A i \in DOMAIN evaluations' : \/ /\ i \in DOMAIN evaluations
                                          /\ evaluations'[i] = evaluations[i]
                                       \/ evaluations'[i] = nextId - 1
  <2>1. /\ Append(evaluations, nextId - 1) \in Seq(Nat)
        /\ Ascending(Append(evaluations, nextId - 1))
        /\ \A i \in DOMAIN Append(evaluations, nextId - 1) :
               \/ /\ i \in DOMAIN evaluations
                  /\ Append(evaluations, nextId - 1)[i] = evaluations[i]
               \/ Append(evaluations, nextId - 1)[i] = nextId - 1
    BY <1>1, <1>2, <1>4, AppendKeepsOrder
  <2>. QED BY <2>1, <1>3 DEF Ascending
<1>6. acted <= LastQueued'
  BY <1>1, <1>2 DEF PipelineInv, TypeOK
<1>7. \A i \in DOMAIN evaluations' : acted < evaluations'[i] /\ evaluations'[i] <= LastQueued'
  <2>1. acted < nextId - 1
    BY <1>1, <1>2 DEF PipelineInv, TypeOK
  <2>2. \A i \in DOMAIN evaluations : acted < evaluations[i] /\ evaluations[i] <= LastQueued'
    BY <1>1, <1>2, <1>4 DEF PipelineInv
  <2>. QED BY <1>2, <1>5, <2>1, <2>2
<1>8. \A i \in DOMAIN decisions : decisions[i] <= LastQueued'
  BY <1>1, <1>2 DEF PipelineInv, TypeOK
<1>9. Holds => /\ candidate <= LastQueued'
               /\ \A i \in DOMAIN evaluations' : candidate < evaluations'[i]
  <2>1. Holds => candidate < nextId - 1 /\ candidate <= LastQueued'
    BY <1>1, <1>2 DEF PipelineInv, TypeOK
  <2>2. Holds => \A i \in DOMAIN evaluations : candidate < evaluations[i]
    BY DEF PipelineInv
  <2>. QED BY <1>5, <2>1, <2>2
<1>10. \A i \in DOMAIN decisions, j \in DOMAIN evaluations' : decisions[i] < evaluations'[j]
  <2>1. \A i \in DOMAIN decisions : decisions[i] < nextId - 1
    BY <1>1, <1>2 DEF PipelineInv, TypeOK
  <2>2. \A i \in DOMAIN decisions, j \in DOMAIN evaluations : decisions[i] < evaluations[j]
    BY DEF PipelineInv
  <2>. QED BY <1>5, <2>1, <2>2
<1>11. TypeOK'
  BY <1>1, <1>5 DEF PipelineInv, TypeOK, Enqueue, workerVars, outsideVars
<1>12. latest' <= LastRegistered' /\ (valid' \/ latest' = 0)
  BY <1>1 DEF PipelineInv, TypeOK, LastRegistered, Enqueue
<1>. QED
  BY <1>1, <1>5, <1>6, <1>7, <1>8, <1>9, <1>10, <1>11, <1>12
  DEF PipelineInv, Holds, Ascending, Enqueue, workerVars

\* An action that leaves both queues, the ids and the engine's place alone.
LEMMA EngineSideKept ==
    ASSUME PipelineInv,
           UNCHANGED <<nextId, valid, engine, acted, evaluations, decisions>>,
           TypeOK', latest' \in {latest, 0},
           Holds' => Holds /\ candidate' = candidate
    PROVE  PipelineInv'
BY DEF PipelineInv, TypeOK, LastRegistered, LastQueued, Holds, Ascending

LEMMA TakeEvaluationKeeps ==
    ASSUME PipelineInv, TakeEvaluation
    PROVE  PipelineInv'
<1>1. evaluations \in Seq(Nat) /\ evaluations # << >> /\ Ascending(evaluations)
  BY DEF PipelineInv, TypeOK, TakeEvaluation
<1>2. /\ Tail(evaluations) \in Seq(Nat)
      /\ Ascending(Tail(evaluations))
      /\ 1 \in DOMAIN evaluations /\ Head(evaluations) = evaluations[1]
      /\ \A i \in DOMAIN Tail(evaluations) : /\ i + 1 \in DOMAIN evaluations
                                             /\ Tail(evaluations)[i] = evaluations[i + 1]
                                             /\ evaluations[1] < Tail(evaluations)[i]
  BY <1>1, TailKeepsOrder
<1>3. /\ evaluations' = Tail(evaluations) /\ candidate' = evaluations[1]
      /\ worker' = "draining" /\ Holds'
  BY <1>2 DEF TakeEvaluation, Holds
<1>4. evaluations[1] \in Nat
  BY <1>1, <1>2
<1>5. \A i \in DOMAIN decisions : decisions[i] < candidate'
  BY <1>2, <1>3 DEF PipelineInv
<1>6. acted < candidate' /\ candidate' <= LastQueued'
  BY <1>2, <1>3 DEF PipelineInv, LastQueued, TakeEvaluation, engineVars
<1>. QED
  BY <1>2, <1>3, <1>4, <1>5, <1>6
  DEF PipelineInv, TypeOK, LastRegistered, LastQueued, Holds, Ascending,
       TakeEvaluation, engineVars, outsideVars

LEMMA ProviderAnswersKeeps ==
    ASSUME PipelineInv, ProviderAnswers
    PROVE  PipelineInv'
<1>1. CASE terminated' = TRUE /\ UNCHANGED <<decisions, worker>>
  BY <1>1 DEF PipelineInv, TypeOK, LastRegistered, LastQueued, Holds, Ascending,
       ProviderAnswers, engineVars, outsideVars
<1>2. CASE /\ decisions' = Append(decisions, candidate)
           /\ worker' = "idle"
           /\ UNCHANGED terminated
  <2>1. /\ decisions \in Seq(Nat) /\ Ascending(decisions) /\ candidate \in Nat
        /\ worker = "evaluate"
    BY DEF PipelineInv, TypeOK, ProviderAnswers, WorkerAt
  <2>2. /\ \A i \in DOMAIN decisions : decisions[i] < candidate
        /\ \A j \in DOMAIN evaluations : candidate < evaluations[j]
        /\ acted < candidate /\ candidate <= LastQueued
    BY <2>1 DEF PipelineInv, Holds
  <2>3. /\ decisions' \in Seq(Nat)
        /\ Ascending(decisions)'
        /\ decisions' # << >>
        /\ \A i \in DOMAIN decisions' : \/ /\ i \in DOMAIN decisions
                                          /\ decisions'[i] = decisions[i]
                                       \/ decisions'[i] = candidate
    <3>1. /\ Append(decisions, candidate) \in Seq(Nat)
          /\ Ascending(Append(decisions, candidate))
          /\ \A i \in DOMAIN Append(decisions, candidate) :
                 \/ /\ i \in DOMAIN decisions
                    /\ Append(decisions, candidate)[i] = decisions[i]
                 \/ Append(decisions, candidate)[i] = candidate
      BY <2>1, <2>2, AppendKeepsOrder
    <3>2. Append(decisions, candidate) # << >>
      BY <2>1
    <3>. QED BY <3>1, <3>2, <1>2 DEF Ascending
  <2>4. UNCHANGED <<nextId, valid, engine, acted, evaluations, latest, candidate>>
    BY DEF ProviderAnswers, engineVars
  <2>5. \A i \in DOMAIN decisions' : acted < decisions'[i] /\ decisions'[i] <= LastQueued
    BY <2>2, <2>3 DEF PipelineInv
  <2>6. \A i \in DOMAIN decisions', j \in DOMAIN evaluations : decisions'[i] < evaluations[j]
    BY <2>2, <2>3 DEF PipelineInv
  <2>7. TypeOK'
    BY <1>2, <2>3, <2>4 DEF PipelineInv, TypeOK, ProviderAnswers, outsideVars
  <2>. QED
    BY <1>2, <2>3, <2>4, <2>5, <2>6, <2>7
    DEF PipelineInv, LastRegistered, LastQueued, Holds, Ascending
<1>. QED BY <1>1, <1>2 DEF ProviderAnswers

LEMMA WorkerKeeps ==
    ASSUME PipelineInv, Drained \/ FilterReadiness \/ FilterLatest \/ ProviderFails
    PROVE  PipelineInv'
<1>1. /\ UNCHANGED <<nextId, valid, engine, acted, evaluations, decisions, latest, candidate>>
      /\ UNCHANGED <<ready, venue, main, terminated>>
      /\ worker' \in {"idle", "draining", "filter", "compare", "evaluate"}
      /\ worker # "idle"
  BY DEF Drained, FilterReadiness, FilterLatest, ProviderFails, WorkerAt,
         engineVars, outsideVars
<1>2. TypeOK'
  BY <1>1 DEF PipelineInv, TypeOK
<1>. QED BY <1>1, <1>2, EngineSideKept DEF Holds

LEMMA OutsideKeeps ==
    ASSUME PipelineInv, Outside
    PROVE  PipelineInv'
<1>1. /\ UNCHANGED <<nextId, valid, engine, acted, evaluations, decisions, worker, candidate>>
      /\ UNCHANGED terminated
      /\ latest' \in {latest, 0}
      /\ ready' \in {ready, TRUE, FALSE}
      /\ venue' \in {venue, "idle", "clearing"}
      /\ main' \in {main, "clearing", "disabled"}
  BY DEF Outside, VenueUp, VenueDown, VenueClears, DisableTrading, MainClears,
         engineVars, workerVars, outsideVars
<1>2. TypeOK'
  <2>1. latest' \in Nat
    BY <1>1 DEF PipelineInv, TypeOK
  <2>2. ready' \in BOOLEAN
    BY <1>1 DEF PipelineInv, TypeOK
  <2>3. venue' \in {"idle", "clearing"}
    BY <1>1 DEF PipelineInv, TypeOK
  <2>4. main' \in {"trading", "clearing", "disabled"}
    BY <1>1 DEF PipelineInv, TypeOK
  <2>5. /\ nextId' = nextId /\ valid' = valid /\ engine' = engine /\ acted' = acted
        /\ evaluations' = evaluations /\ decisions' = decisions
        /\ worker' = worker /\ candidate' = candidate /\ terminated' = terminated
    BY <1>1
  <2>6. TypeOK
    BY DEF PipelineInv
  <2>. QED BY ONLY <2>1, <2>2, <2>3, <2>4, <2>5, <2>6 DEF TypeOK
<1>. QED BY <1>1, <1>2, EngineSideKept DEF Holds

LEMMA NextKeepsPipeline == PipelineInv /\ [Next]_vars => PipelineInv'
<1>. SUFFICES ASSUME PipelineInv, [Next]_vars PROVE PipelineInv'
  OBVIOUS
<1>1. CASE Engine
  BY <1>1, MarketUpdateKeeps, MarketDoneKeeps, CheckReadinessKeeps, CompareEvaluationKeeps,
     DecisionsDoneKeeps, ScheduleKeeps, RegisterKeeps, EnqueueKeeps DEF Engine
<1>2. CASE Worker
  BY <1>2, TakeEvaluationKeeps, ProviderAnswersKeeps, WorkerKeeps DEF Worker
<1>3. CASE Outside
  BY <1>3, OutsideKeeps
<1>4. CASE UNCHANGED vars
  BY <1>4 DEF vars, engineVars, workerVars, outsideVars, PipelineInv, TypeOK,
              LastRegistered, LastQueued, Holds, Ascending
<1>. QED BY <1>1, <1>2, <1>3, <1>4 DEF Next

\* The evaluations are in order all along the pipeline, with any interference
\* of the venue's and the main thread and queues of any capacity.
THEOREM PipelineInvariant == SafeSpec => []PipelineInv
BY InitPipeline, NextKeepsPipeline, PTL DEF SafeSpec
-----------------------------------------------------------------------------
(***************************************************************************)
(* The refinement.  Three actions move the abstract state: Register,       *)
(* CompareEvaluation, and whatever clears the id.                          *)
(***************************************************************************)
LEMMA InitFresh == Init => Fresh!Init
BY DEF Init, Fresh!Init, LastRegistered

LEMMA NextFresh == PipelineInv /\ [Next]_vars => [Fresh!Next]_Fresh!vars
<1>. SUFFICES ASSUME PipelineInv, [Next]_vars PROVE [Fresh!Next]_Fresh!vars
  OBVIOUS
<1>. USE DEF Fresh!Next, Fresh!Register, Fresh!Invalidate, Fresh!Act, Fresh!vars
<1>1. CASE \E usable \in BOOLEAN : MarketUpdate(usable)
  BY <1>1 DEF MarketUpdate, LastRegistered
<1>2. CASE MarketDone \/ CheckReadiness \/ DecisionsDone \/ Enqueue
  BY <1>2 DEF MarketDone, CheckReadiness, DecisionsDone, Enqueue, EngineAt, LastRegistered
<1>3. CASE CompareEvaluation
  <2>1. /\ decisions \in Seq(Nat) /\ decisions # << >>
        /\ \A i \in DOMAIN decisions : acted < decisions[i]
    BY <1>3 DEF PipelineInv, TypeOK, CompareEvaluation, EngineAt
  <2>2. acted < Head(decisions)
    BY <2>1
  <2>3. UNCHANGED <<latest, LastRegistered>>
    BY <1>3 DEF CompareEvaluation, EngineAt, LastRegistered
  <2>. QED BY <1>3, <2>2, <2>3 DEF CompareEvaluation
<1>4. CASE \E due \in BOOLEAN : Schedule(due)
  <2>1. UNCHANGED <<latest, acted>>
    BY <1>4 DEF Schedule
  <2>2. LastRegistered' = LastRegistered
    BY <1>4 DEF Schedule, EngineAt, LastRegistered, PipelineInv, TypeOK
  <2>. QED BY <2>1, <2>2
<1>5. CASE Register
  <2>1. /\ engine = "register" /\ nextId \in Nat /\ UNCHANGED <<nextId, acted>>
        /\ LastRegistered = nextId - 2
    BY <1>5 DEF Register, EngineAt, LastRegistered, PipelineInv, TypeOK
  <2>2. CASE UNCHANGED <<latest, engine>>
    BY <2>1, <2>2 DEF LastRegistered
  <2>3. CASE latest' = nextId - 1 /\ engine' = "enqueue"
    <3>1. LastRegistered' = nextId - 1
      BY <2>1, <2>3 DEF LastRegistered
    <3>. QED BY <2>1, <2>3, <3>1
  <2>. QED BY <1>5, <2>2, <2>3 DEF Register
<1>6. CASE Worker
  BY <1>6 DEF Worker, TakeEvaluation, Drained, FilterReadiness, FilterLatest,
              ProviderAnswers, ProviderFails, engineVars, LastRegistered
<1>7. CASE Outside
  BY <1>7 DEF Outside, VenueUp, VenueDown, VenueClears, DisableTrading, MainClears,
              engineVars, LastRegistered
<1>8. CASE UNCHANGED vars
  BY <1>8 DEF vars, engineVars, LastRegistered
<1>. QED BY <1>1, <1>2, <1>3, <1>4, <1>5, <1>6, <1>7, <1>8 DEF Next, Engine

\* Decisions are acted on in the order of their evaluations, each at most once,
\* and only while their evaluation is the one awaited.
THEOREM PipelineImplementsFresh == SafeSpec => ImplementsFresh
BY InitFresh, NextFresh, PipelineInvariant, PTL DEF SafeSpec, ImplementsFresh, Fresh!Spec
-----------------------------------------------------------------------------
(***************************************************************************)
(* What the engine found when it read the readiness may be outdated when   *)
(* it compares the id; then the id has been cleared, or is about to be.    *)
(***************************************************************************)
ReadinessInv ==
    engine = "compare" /\ SingleOrderVenue
        => ready \/ venue = "clearing" \/ main = "clearing" \/ latest = 0

LEMMA InitReadiness == Init => ReadinessInv
BY DEF Init, ReadinessInv

LEMMA NextReadiness == ReadinessInv /\ [Next]_vars => ReadinessInv'
<1>. SUFFICES ASSUME ReadinessInv, [Next]_vars PROVE ReadinessInv'
  OBVIOUS
<1>. USE DEF ReadinessInv
<1>1. CASE CheckReadiness
  BY <1>1 DEF CheckReadiness, VenueAllows, EngineAt
<1>2. CASE Engine /\ ~ CheckReadiness
  BY <1>2 DEF Engine, MarketUpdate, MarketDone, CompareEvaluation, DecisionsDone,
              Schedule, Register, Enqueue, EngineAt
<1>3. CASE Worker
  BY <1>3 DEF Worker, TakeEvaluation, Drained, FilterReadiness, FilterLatest,
              ProviderAnswers, ProviderFails, engineVars, outsideVars
<1>4. CASE Outside
  BY <1>4 DEF Outside, VenueUp, VenueDown, VenueClears, DisableTrading, MainClears,
              engineVars, outsideVars
<1>5. CASE UNCHANGED vars
  BY <1>5 DEF vars, engineVars, outsideVars
<1>. QED BY <1>1, <1>2, <1>3, <1>4, <1>5 DEF Next

LEMMA ActingNeedsReadiness ==
    ASSUME PipelineInv, ReadinessInv, Next, acted' # acted, SingleOrderVenue
    PROVE  ready \/ venue = "clearing" \/ main = "clearing"
<1>1. CompareEvaluation
  BY DEF Next, Engine, Worker, Outside, MarketUpdate, MarketDone, CheckReadiness,
         DecisionsDone, Schedule, Register, Enqueue, TakeEvaluation, Drained,
         FilterReadiness, FilterLatest, ProviderAnswers, ProviderFails, VenueUp,
         VenueDown, VenueClears, DisableTrading, MainClears, engineVars
<1>2. engine = "compare" /\ Head(decisions) = latest
  BY <1>1 DEF CompareEvaluation, EngineAt
<1>3. latest # 0
  <2>1. /\ decisions \in Seq(Nat) /\ decisions # << >> /\ acted \in Nat
        /\ \A i \in DOMAIN decisions : acted < decisions[i]
    BY <1>2 DEF PipelineInv, TypeOK
  <2>2. acted < Head(decisions)
    BY <2>1
  <2>. QED BY <1>2, <2>1, <2>2
<1>. QED BY <1>2, <1>3 DEF ReadinessInv

\* Nothing is acted on once the venue's readiness is fully withdrawn.
THEOREM NothingActsWhileDown == SafeSpec => NothingActedWhileDown
<1>1. PipelineInv /\ ReadinessInv /\ [Next]_vars
      => [acted' # acted /\ SingleOrderVenue
          => ready \/ venue = "clearing" \/ main = "clearing"]_vars
  BY ActingNeedsReadiness
<1>2. SafeSpec => []ReadinessInv
  BY InitReadiness, NextReadiness, PTL DEF SafeSpec
<1>. QED BY <1>1, <1>2, PipelineInvariant, PTL DEF SafeSpec, NothingActedWhileDown
-----------------------------------------------------------------------------
(***************************************************************************)
(* The ring.                                                               *)
(***************************************************************************)

\* The code's modular successor is the slot one place ahead.
LEMMA NextIsAhead ==
    ASSUME NEW i \in Slots
    PROVE  NextIndex(i) = Ahead(i, 1) /\ NextIndex(i) \in Slots
<1>1. CASE i + 1 = Capacity
  BY <1>1, CapacityAssumption DEF NextIndex, Ahead, Slots
<1>2. CASE i + 1 < Capacity
  BY <1>2, CapacityAssumption DEF NextIndex, Ahead, Slots
<1>3. QED
  BY <1>1, <1>2, CapacityAssumption DEF Slots

\* Moving ahead stays in the ring.
LEMMA AheadInRing ==
    ASSUME NEW i \in Slots, NEW k \in 0 .. Capacity
    PROVE  Ahead(i, k) \in Slots
BY CapacityAssumption DEF Ahead, Slots

\* Places ahead add up.
LEMMA AheadAdds ==
    ASSUME NEW i \in Slots, NEW j \in 0 .. Capacity, NEW k \in 0 .. Capacity,
           j + k <= Capacity
    PROVE  Ahead(Ahead(i, j), k) = Ahead(i, j + k)
BY CapacityAssumption DEF Ahead, Slots

\* Different places less than a full turn ahead are different slots.
LEMMA AheadDiffers ==
    ASSUME NEW i \in Slots, NEW j \in 0 .. Capacity - 1, NEW k \in 0 .. Capacity - 1,
           j # k
    PROVE  Ahead(i, j) # Ahead(i, k)
BY CapacityAssumption DEF Ahead, Slots
-----------------------------------------------------------------------------
\* The ring starts in its invariant.
LEMMA InitRingInv == RingInit => RingInv
<1> SUFFICES ASSUME RingInit PROVE RingInv
  OBVIOUS
<1>1. RingTypeOK
  <2>1. store \in [Slots -> Elements]
    BY DEF RingInit, Elements
  <2>2. writeIndex \in Slots /\ readIndex \in Slots /\ count \in 0 .. Capacity
    BY CapacityAssumption DEF RingInit, Slots
  <2>3. /\ producer \in {"idle", "write", "advance", "publish"}
        /\ consumer \in {"idle", "read", "advance", "release"}
        /\ pending \in Elements /\ handled \in Elements /\ aborted \in BOOLEAN
    BY DEF RingInit, Elements
  <2>4. QED
    BY <2>1, <2>2, <2>3 DEF RingTypeOK
<1>2. writeIndex = Ahead(readIndex, count - StillCounted + Uncounted)
  BY CapacityAssumption DEF RingInit, Ahead, Uncounted, StillCounted
<1>3. QED
  BY <1>1, <1>2 DEF RingInit, RingInv

\* Every step of either thread keeps the ring's invariant.
LEMMA NextRingInv == RingInv /\ [RingNext]_ringVars => RingInv'
<1> SUFFICES ASSUME RingInv, [RingNext]_ringVars PROVE RingInv'
  OBVIOUS
<1> USE CapacityAssumption DEF RingInv, RingTypeOK, Slots, Elements, Uncounted, StillCounted
<1>1. ASSUME NEW v \in Values, ClaimSlot(v) PROVE RingInv'
  BY <1>1 DEF ClaimSlot, Ahead
<1>2. CASE WriteSlot
  BY <1>2 DEF WriteSlot, Ahead
<1>3. CASE AdvanceWriteIndex
  <2>1. writeIndex' = Ahead(writeIndex, 1) /\ writeIndex' \in Slots
    BY <1>3, NextIsAhead DEF AdvanceWriteIndex
  <2>2. QED
    BY <1>3, <2>1 DEF AdvanceWriteIndex, Ahead
<1>4. CASE Publish
  BY <1>4 DEF Publish, Ahead
<1>5. CASE TakeSlot
  BY <1>5 DEF TakeSlot, Ahead
<1>6. CASE HandleSlot
  BY <1>6 DEF HandleSlot, Ahead
<1>7. CASE AdvanceReadIndex
  <2>1. readIndex' = Ahead(readIndex, 1) /\ readIndex' \in Slots
    BY <1>7, NextIsAhead DEF AdvanceReadIndex
  <2>2. QED
    BY <1>7, <2>1 DEF AdvanceReadIndex, Ahead
<1>8. CASE Release
  BY <1>8 DEF Release, Ahead
<1>9. CASE UNCHANGED ringVars
  BY <1>9 DEF ringVars, Ahead
<1>10. QED
  BY <1>1, <1>2, <1>3, <1>4, <1>5, <1>6, <1>7, <1>8, <1>9 DEF RingNext, Produce, Consume

\* The ring's invariant holds in every reachable state.
THEOREM RingInvariant == RingSpec => []RingInv
BY InitRingInv, NextRingInv, PTL DEF RingSpec

\* The producer and the consumer never work on the same slot.
THEOREM NoRace == RingSpec => []NoSlotRace
<1>1. RingInv => NoSlotRace
  BY CapacityAssumption
     DEF RingInv, RingTypeOK, NoSlotRace, Slots, Ahead, Uncounted, StillCounted
<1>2. QED
  BY <1>1, RingInvariant, PTL

\* The checks inside the index updates never end the process.
THEOREM NoAbort == RingSpec => []NeverAborts
<1>1. RingInv => NeverAborts
  BY DEF RingInv, NeverAborts
<1>2. QED
  BY <1>1, RingInvariant, PTL
-----------------------------------------------------------------------------
(***************************************************************************)
(* The refinement.                                                         *)
(***************************************************************************)

\* A window of the ring is a sequence.
LEMMA WindowIsSequence ==
    ASSUME NEW f \in [Slots -> Elements], NEW b \in Slots, NEW n \in 0 .. Capacity
    PROVE  /\ Window(f, b, n) \in Seq(Elements)
           /\ Len(Window(f, b, n)) = n
           /\ \A k \in 1 .. n : Window(f, b, n)[k] = f[Ahead(b, k - 1)]
<1>1. \A k \in 1 .. n : f[Ahead(b, k - 1)] \in Elements
  <2>1. TAKE k \in 1 .. n
  <2>2. k - 1 \in 0 .. Capacity
    BY CapacityAssumption
  <2>3. QED
    BY <2>2, AheadInRing
<1>2. n \in Nat
  BY CapacityAssumption
<1>3. QED
  BY <1>1, <1>2 DEF Window

\* In the ring's invariant the abstract queue starts at a slot and is as long as
\* the counter says, less the element already handled.
LEMMA QueueBounds ==
    ASSUME RingInv
    PROVE  FirstUnread \in Slots /\ Unread \in 0 .. Capacity
BY CapacityAssumption, AheadInRing
   DEF RingInv, RingTypeOK, FirstUnread, Unread, IsHandled

\* The slots hold elements.
LEMMA StoreType ==
    ASSUME RingInv
    PROVE  store \in [Slots -> Elements] /\ readIndex \in Slots /\ pending \in Elements
BY DEF RingInv, RingTypeOK

\* The abstract queue, element by element.
LEMMA ContentsIsSequence ==
    ASSUME RingInv
    PROVE  /\ Contents \in Seq(Elements)
           /\ Len(Contents) = Unread
           /\ \A k \in 1 .. Unread : Contents[k] = store[Ahead(FirstUnread, k - 1)]
<1>1. store \in [Slots -> Elements] /\ FirstUnread \in Slots /\ Unread \in 0 .. Capacity
  BY StoreType, QueueBounds
<1>2. QED
  BY <1>1, WindowIsSequence DEF Contents

\* The ring starts empty.
LEMMA InitRefines == RingInit => Fifo!Init
<1> SUFFICES ASSUME RingInit PROVE Fifo!Init
  OBVIOUS
<1>1. Unread = 0
  BY DEF RingInit, Unread, IsHandled
<1>2. Contents = << >>
  BY <1>1 DEF Contents, Window
<1>3. QED
  BY <1>2 DEF RingInit, Fifo!Init

\* Writing the claimed slot touches no unread element.
LEMMA WriteSlotStutters ==
    ASSUME RingInv, RingInv', WriteSlot
    PROVE  UNCHANGED <<Contents, handled>>
<1> USE CapacityAssumption
<1>1. Unread' = Unread /\ FirstUnread' = FirstUnread
  BY DEF WriteSlot, Unread, IsHandled, FirstUnread
<1>2. ASSUME NEW k \in 1 .. Unread
      PROVE  Ahead(FirstUnread, k - 1) # writeIndex
  BY <1>2 DEF RingInv, RingTypeOK, WriteSlot, Slots, Ahead, Unread, IsHandled, FirstUnread,
              StillCounted, Uncounted
<1>3. ASSUME NEW k \in 1 .. Unread
      PROVE  store'[Ahead(FirstUnread, k - 1)] = store[Ahead(FirstUnread, k - 1)]
  <2>1. Ahead(FirstUnread, k - 1) \in Slots
    BY <1>3, QueueBounds, AheadInRing
  <2>2. QED
    BY <1>2, <1>3, <2>1 DEF WriteSlot, RingInv, RingTypeOK
<1>4. Contents' = Contents
  BY <1>1, <1>3 DEF Contents, Window
<1>5. QED
  BY <1>4 DEF WriteSlot

\* Counting an element appends it.
LEMMA PublishEnqueues ==
    ASSUME RingInv, RingInv', Publish
    PROVE  Fifo!Enqueue(pending)
<1> USE CapacityAssumption
<1>1. Unread' = Unread + 1 /\ FirstUnread' = FirstUnread /\ store' = store
  BY DEF Publish, RingInv, RingTypeOK, Unread, IsHandled, FirstUnread
<1>2. Unread < Capacity
  BY DEF Publish, RingInv, RingTypeOK, Unread, IsHandled
<1>3. store[Ahead(FirstUnread, Unread)] = pending
  BY DEF Publish, RingInv, RingTypeOK, Slots, Unread, IsHandled, FirstUnread, Ahead, StillCounted
<1>4. Contents' = Append(Contents, pending)
  <2>1. /\ Contents \in Seq(Elements) /\ Len(Contents) = Unread /\ pending \in Elements
        /\ \A k \in 1 .. Unread : Contents[k] = store[Ahead(FirstUnread, k - 1)]
        /\ Unread \in Nat
    BY QueueBounds, ContentsIsSequence, StoreType
  <2>2. /\ Append(Contents, pending) \in Seq(Elements)
        /\ Len(Append(Contents, pending)) = Unread + 1
        /\ \A k \in 1 .. Unread : Append(Contents, pending)[k] = Contents[k]
        /\ Append(Contents, pending)[Unread + 1] = pending
    BY <2>1, AppendProperties
  <2>3. /\ Contents' \in Seq(Elements) /\ Len(Contents') = Unread + 1
        /\ \A k \in 1 .. Unread + 1 : Contents'[k] = store[Ahead(FirstUnread, k - 1)]
    <3>1. /\ Unread + 1 \in 0 .. Capacity /\ FirstUnread \in Slots
          /\ store \in [Slots -> Elements]
      BY <1>2, QueueBounds, StoreType
    <3>2. Contents' = Window(store, FirstUnread, Unread + 1)
      BY <1>1 DEF Contents, Window
    <3>3. QED
      BY <3>1, <3>2, WindowIsSequence
  <2>4. \A k \in 1 .. Unread + 1 : Contents'[k] = Append(Contents, pending)[k]
    BY <1>3, <2>1, <2>2, <2>3
  <2>5. QED
    BY <2>2, <2>3, <2>4, SeqEqual
<1>5. QED
  BY <1>2, <1>4, QueueBounds, WindowIsSequence
     DEF Publish, Fifo!Enqueue, Contents, RingInv, RingTypeOK

\* Handling the slot at the read index takes the head of the queue.
LEMMA HandleDequeues ==
    ASSUME RingInv, RingInv', HandleSlot
    PROVE  Fifo!Dequeue
<1> USE CapacityAssumption
<1>1. /\ Unread = count /\ Unread' = Unread - 1 /\ Unread > 0
      /\ FirstUnread = readIndex /\ FirstUnread' = Ahead(readIndex, 1)
      /\ store' = store
  BY DEF HandleSlot, RingInv, RingTypeOK, Unread, IsHandled, FirstUnread, Ahead, Slots
<1>2. /\ Contents \in Seq(Elements) /\ Len(Contents) = Unread
      /\ \A k \in 1 .. Unread : Contents[k] = store[Ahead(readIndex, k - 1)]
      /\ Unread \in 0 .. Capacity
  BY <1>1, QueueBounds, ContentsIsSequence
<1>3. Contents # << >> /\ handled' = Head(Contents)
  BY <1>1, <1>2 DEF HandleSlot, RingInv, RingTypeOK, Slots, Ahead
<1>4. Contents' = Tail(Contents)
  <2>1. /\ Tail(Contents) \in Seq(Elements) /\ Len(Tail(Contents)) = Unread - 1
        /\ \A k \in 1 .. Unread - 1 : Tail(Contents)[k] = Contents[k + 1]
    BY <1>2, <1>3, HeadTailProperties
  <2>2. /\ Contents' \in Seq(Elements) /\ Len(Contents') = Unread - 1
        /\ \A k \in 1 .. Unread - 1 :
               Contents'[k] = store[Ahead(Ahead(readIndex, 1), k - 1)]
    <3>1. Unread - 1 \in 0 .. Capacity /\ store \in [Slots -> Elements]
      BY <1>1, <1>2, StoreType
    <3>2. Ahead(readIndex, 1) \in Slots
      BY StoreType, AheadInRing, 1 \in 0 .. Capacity
    <3>3. Contents' = Window(store, Ahead(readIndex, 1), Unread - 1)
      BY <1>1 DEF Contents, Window
    <3>4. QED
      BY <3>1, <3>2, <3>3, WindowIsSequence
  <2>3. \A k \in 1 .. Unread - 1 : Ahead(Ahead(readIndex, 1), k - 1) = Ahead(readIndex, k)
    BY <1>2 DEF RingInv, RingTypeOK, Slots, Ahead
  <2>4. ASSUME NEW k \in 1 .. Unread - 1
        PROVE  Contents'[k] = Tail(Contents)[k]
    <3>1. k + 1 \in 1 .. Unread /\ (k + 1) - 1 = k
      BY <1>2
    <3>2. Contents[k + 1] = store[Ahead(readIndex, k)]
      BY <1>2, <3>1
    <3>3. QED
      BY <2>1, <2>2, <2>3, <3>2
  <2>5. /\ Len(Contents') = Len(Tail(Contents))
        /\ \A k \in 1 .. Len(Contents') : Contents'[k] = Tail(Contents)[k]
    BY <2>1, <2>2, <2>4
  <2>6. QED
    BY <2>1, <2>2, <2>5, SeqEqual
<1>5. QED
  BY <1>3, <1>4 DEF Fifo!Dequeue

\* Moving the read index and giving the slot back are invisible in the queue.
LEMMA ConsumerRestStutters ==
    ASSUME RingInv, RingInv', AdvanceReadIndex \/ Release
    PROVE  UNCHANGED <<Contents, handled>>
<1> USE CapacityAssumption
<1>1. CASE AdvanceReadIndex
  <2>1. readIndex' = Ahead(readIndex, 1)
    BY <1>1, NextIsAhead DEF AdvanceReadIndex, RingInv, RingTypeOK
  <2>2. Unread' = Unread /\ FirstUnread' = FirstUnread /\ store' = store
    BY <1>1, <2>1 DEF AdvanceReadIndex, RingInv, RingTypeOK, Unread, IsHandled, FirstUnread
  <2>3. QED
    BY <1>1, <2>2 DEF AdvanceReadIndex, Contents, Window
<1>2. CASE Release
  <2>1. Unread' = Unread /\ FirstUnread' = FirstUnread /\ store' = store
    BY <1>2 DEF Release, RingInv, RingTypeOK, Unread, IsHandled, FirstUnread
  <2>2. QED
    BY <1>2, <2>1 DEF Release, Contents, Window
<1>3. QED
  BY <1>1, <1>2

\* Every step of the ring is a step of the channel or leaves it unchanged.
LEMMA NextRefines ==
    ASSUME RingInv, RingInv', [RingNext]_ringVars
    PROVE  [Fifo!Next]_(Fifo!vars)
<1>1. ASSUME NEW v \in Values, ClaimSlot(v) PROVE UNCHANGED <<Contents, handled>>
  BY <1>1 DEF ClaimSlot, Contents, Window, Unread, IsHandled, FirstUnread
<1>2. CASE WriteSlot
  BY <1>2, WriteSlotStutters DEF Fifo!vars
<1>3. CASE AdvanceWriteIndex
  BY <1>3 DEF AdvanceWriteIndex, Contents, Window, Unread, IsHandled, FirstUnread, Fifo!vars
<1>4. CASE Publish
  <2>1. pending \in Values
    BY <1>4 DEF RingInv, Publish
  <2>2. QED
    BY <1>4, <2>1, PublishEnqueues DEF Fifo!Next
<1>5. CASE TakeSlot
  BY <1>5 DEF TakeSlot, Contents, Window, Unread, IsHandled, FirstUnread, Fifo!vars
<1>6. CASE HandleSlot
  BY <1>6, HandleDequeues DEF Fifo!Next
<1>7. CASE AdvanceReadIndex \/ Release
  BY <1>7, ConsumerRestStutters DEF Fifo!vars
<1>8. CASE UNCHANGED ringVars
  BY <1>8 DEF ringVars, Contents, Window, Unread, IsHandled, FirstUnread, Fifo!vars
<1>9. QED
  BY <1>1, <1>2, <1>3, <1>4, <1>5, <1>6, <1>7, <1>8 DEF RingNext, Produce, Consume, Fifo!vars

\* The lock-free ring implements the bounded FIFO channel, whatever its capacity.
THEOREM RingImplementsFifo == RingSpec => ImplementsFifo
<1>1. RingInit => Fifo!Init
  BY InitRefines
<1>2. RingInv /\ RingInv' /\ [RingNext]_ringVars => [Fifo!Next]_(Fifo!vars)
  BY NextRefines
<1>3. QED
  BY <1>1, <1>2, RingInvariant, PTL DEF RingSpec, ImplementsFifo, Fifo!Spec
=============================================================================
