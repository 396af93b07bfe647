------------------------- MODULE EvaluationPipeline -------------------------
(***************************************************************************)
(* From a market update to a decision that is acted on: the engine thread  *)
(* schedules evaluations and handles decisions, the Jev worker asks the    *)
(* provider, the venue's thread reports readiness and the main thread      *)
(* disables trading at shutdown.                                           *)
(*                                                                         *)
(* The four threads share the id of the latest evaluation and the          *)
(* readiness of the venue, both atomic; every access is a step.  What a    *)
(* decision then does to the orders is the business of Participant.        *)
(***************************************************************************)
EXTENDS Integers, Sequences

CONSTANTS SingleOrderVenue,     \* single_order_venue_: readiness is consulted
          EvaluationCapacity,   \* elements of the evaluations queue
          DecisionCapacity,     \* elements of the decisions queue
          MaxEvaluations        \* bound of the model: evaluation ids given out

ASSUME PipelineAssumption ==
    /\ SingleOrderVenue \in BOOLEAN
    /\ EvaluationCapacity \in Nat
    /\ DecisionCapacity \in Nat

VARIABLES latest,        \* latest_evaluation_ids_ of the ticker; 0 is none
          ready,         \* venue_ready_
          nextId,        \* next_evaluation_id_
          valid,         \* the features of the ticker are valid
          evaluations,   \* the queue to the worker
          decisions,     \* the queue back to the engine
          engine,        \* where the engine thread is in processPending()
          worker,        \* where the worker is in its processPending()
          candidate,     \* the evaluation the worker took last
          venue,         \* where the venue's thread is in updateVenueState()
          main,          \* where the main thread is in disableVenueTrading()
          acted,         \* the evaluation of the last decision acted on
          terminated     \* std::terminate was called

engineVars == <<nextId, valid, engine, acted>>
workerVars == <<worker, candidate>>
outsideVars == <<venue, main>>
vars == <<latest, ready, evaluations, decisions, terminated,
          engineVars, workerVars, outsideVars>>

Init ==
    /\ latest = 0
    /\ ready = FALSE
    /\ nextId = 1
    /\ valid = FALSE
    /\ evaluations = << >>
    /\ decisions = << >>
    /\ engine = "market"
    /\ worker = "idle"
    /\ candidate = 0
    /\ venue = "idle"
    /\ main = "trading"
    /\ acted = 0
    /\ terminated = FALSE

VenueAllows == SingleOrderVenue => ready
-----------------------------------------------------------------------------
(***************************************************************************)
(* The engine thread: market updates, then decisions, then scheduling.     *)
(***************************************************************************)
EngineAt(here) == ~ terminated /\ engine = here

\* Wrong on purpose: invalid features leave the pending evaluation alone.
MarketUpdate_KeepsEvaluation(usable) ==
    /\ EngineAt("market")
    /\ valid' = usable
    /\ UNCHANGED <<latest, ready, nextId, evaluations, decisions, engine, acted, terminated,
                   workerVars, outsideVars>>

\* handleMarketUpdate: unusable quotes invalidate the pending evaluation.
MarketUpdate(usable) ==
    /\ EngineAt("market")
    /\ valid' = usable
    /\ latest' = IF usable THEN latest ELSE 0
    /\ UNCHANGED <<ready, nextId, evaluations, decisions, engine, acted, terminated,
                   workerVars, outsideVars>>

\* The market updates are read; the decisions come next.
MarketDone ==
    /\ EngineAt("market")
    /\ engine' = "decisions"
    /\ UNCHANGED <<latest, ready, nextId, valid, evaluations, decisions, acted, terminated,
                   workerVars, outsideVars>>

\* handleJevDecision: first the readiness of a single-order venue ...
CheckReadiness ==
    /\ EngineAt("decisions")
    /\ decisions # << >>
    /\ IF VenueAllows
       THEN engine' = "compare" /\ UNCHANGED decisions
       ELSE decisions' = Tail(decisions) /\ UNCHANGED engine
    /\ UNCHANGED <<latest, ready, nextId, valid, evaluations, acted, terminated,
                   workerVars, outsideVars>>

\* Wrong on purpose: any decision of a venue that was ready is acted on.
CompareEvaluation_AnyId ==
    /\ EngineAt("compare")
    /\ acted' = IF valid THEN Head(decisions) ELSE acted
    /\ decisions' = Tail(decisions)
    /\ engine' = "decisions"
    /\ UNCHANGED <<latest, ready, nextId, valid, evaluations, terminated,
                   workerVars, outsideVars>>

\* ... then the id and the features.
CompareEvaluation ==
    /\ EngineAt("compare")
    /\ acted' = IF Head(decisions) = latest /\ valid THEN Head(decisions) ELSE acted
    /\ decisions' = Tail(decisions)
    /\ engine' = "decisions"
    /\ UNCHANGED <<latest, ready, nextId, valid, evaluations, terminated,
                   workerVars, outsideVars>>

DecisionsDone ==
    /\ EngineAt("decisions")
    /\ decisions = << >>
    /\ engine' = "schedule"
    /\ UNCHANGED <<latest, ready, nextId, valid, evaluations, decisions, acted, terminated,
                   workerVars, outsideVars>>

\* scheduleJevEvaluation: the checks, and the id of the evaluation to build;
\* due says whether the interval has passed.
Schedule(due) ==
    /\ EngineAt("schedule")
    /\ due => nextId <= MaxEvaluations
    /\ IF VenueAllows /\ valid /\ due
       THEN nextId' = nextId + 1 /\ engine' = "register"
       ELSE engine' = "market" /\ UNCHANGED nextId
    /\ UNCHANGED <<latest, ready, valid, evaluations, decisions, acted, terminated,
                   workerVars, outsideVars>>

\* A full queue ends the process; else the evaluation becomes the latest.
Register ==
    /\ EngineAt("register")
    /\ IF Len(evaluations) >= EvaluationCapacity
       THEN terminated' = TRUE /\ UNCHANGED <<latest, engine>>
       ELSE latest' = nextId - 1 /\ engine' = "enqueue" /\ UNCHANGED terminated
    /\ UNCHANGED <<ready, nextId, valid, evaluations, decisions, acted,
                   workerVars, outsideVars>>

Enqueue ==
    /\ EngineAt("enqueue")
    /\ evaluations' = Append(evaluations, nextId - 1)
    /\ engine' = "market"
    /\ UNCHANGED <<latest, ready, nextId, valid, decisions, acted, terminated,
                   workerVars, outsideVars>>
-----------------------------------------------------------------------------
(***************************************************************************)
(* The worker: JevWorker::processPending.                                  *)
(***************************************************************************)
WorkerAt(here) == ~ terminated /\ worker = here

\* The queue is drained; each evaluation replaces the one before.
TakeEvaluation ==
    /\ ~ terminated
    /\ worker \in {"idle", "draining"}
    /\ evaluations # << >>
    /\ candidate' = Head(evaluations)
    /\ evaluations' = Tail(evaluations)
    /\ worker' = "draining"
    /\ UNCHANGED <<latest, ready, decisions, terminated, engineVars, outsideVars>>

Drained ==
    /\ WorkerAt("draining")
    /\ evaluations = << >>
    /\ worker' = "filter"
    /\ UNCHANGED <<latest, ready, evaluations, decisions, candidate, terminated,
                   engineVars, outsideVars>>

\* acceptsEvaluation: the venue is ready, and the evaluation is the latest.
FilterReadiness ==
    /\ WorkerAt("filter")
    /\ worker' = IF VenueAllows THEN "compare" ELSE "idle"
    /\ UNCHANGED <<latest, ready, evaluations, decisions, candidate, terminated,
                   engineVars, outsideVars>>

FilterLatest ==
    /\ WorkerAt("compare")
    /\ worker' = IF latest = candidate THEN "evaluate" ELSE "idle"
    /\ UNCHANGED <<latest, ready, evaluations, decisions, candidate, terminated,
                   engineVars, outsideVars>>

\* The provider's answer is queued; a full queue ends the process.
ProviderAnswers ==
    /\ WorkerAt("evaluate")
    /\ IF Len(decisions) >= DecisionCapacity
       THEN terminated' = TRUE /\ UNCHANGED <<decisions, worker>>
       ELSE /\ decisions' = Append(decisions, candidate)
            /\ worker' = "idle"
            /\ UNCHANGED terminated
    /\ UNCHANGED <<latest, ready, evaluations, candidate, engineVars, outsideVars>>

\* Wrong on purpose: the provider is asked again, however often it fails.
ProviderFails_Retries ==
    /\ WorkerAt("evaluate")
    /\ worker' = "filter"
    /\ UNCHANGED <<latest, ready, evaluations, decisions, candidate, terminated,
                   engineVars, outsideVars>>

\* A failure of the provider leaves its evaluation without a decision.
ProviderFails ==
    /\ WorkerAt("evaluate")
    /\ worker' = "idle"
    /\ UNCHANGED <<latest, ready, evaluations, decisions, candidate, terminated,
                   engineVars, outsideVars>>
-----------------------------------------------------------------------------
(***************************************************************************)
(* The venue's thread and the main thread.  Both withdraw readiness before *)
(* they clear the evaluation; nothing keeps one from acting between the    *)
(* two stores of the other.                                                *)
(***************************************************************************)

\* updateVenueState(true)
VenueUp ==
    /\ ~ terminated /\ SingleOrderVenue
    /\ venue = "idle"
    /\ ready' = TRUE
    /\ UNCHANGED <<latest, evaluations, decisions, terminated, engineVars, workerVars,
                   outsideVars>>

\* updateVenueState(false)
VenueDown ==
    /\ ~ terminated /\ SingleOrderVenue
    /\ venue = "idle"
    /\ ready' = FALSE
    /\ venue' = "clearing"
    /\ UNCHANGED <<latest, evaluations, decisions, main, terminated, engineVars, workerVars>>

\* Wrong on purpose: readiness is withdrawn, the evaluation stays.
VenueClears_KeepsEvaluation ==
    /\ ~ terminated /\ venue = "clearing"
    /\ venue' = "idle"
    /\ UNCHANGED <<latest, ready, evaluations, decisions, main, terminated,
                   engineVars, workerVars>>

VenueClears ==
    /\ ~ terminated /\ venue = "clearing"
    /\ latest' = 0
    /\ venue' = "idle"
    /\ UNCHANGED <<ready, evaluations, decisions, main, terminated, engineVars, workerVars>>

\* disableVenueTrading, called once at shutdown.
DisableTrading ==
    /\ ~ terminated /\ SingleOrderVenue
    /\ main = "trading"
    /\ ready' = FALSE
    /\ main' = "clearing"
    /\ UNCHANGED <<latest, evaluations, decisions, venue, terminated, engineVars, workerVars>>

MainClears ==
    /\ ~ terminated /\ main = "clearing"
    /\ latest' = 0
    /\ main' = "disabled"
    /\ UNCHANGED <<ready, evaluations, decisions, venue, terminated, engineVars, workerVars>>
-----------------------------------------------------------------------------
Engine ==
    \/ \E usable \in BOOLEAN : MarketUpdate(usable)
    \/ MarketDone
    \/ CheckReadiness
    \/ CompareEvaluation
    \/ DecisionsDone
    \/ \E due \in BOOLEAN : Schedule(due)
    \/ Register
    \/ Enqueue

Worker ==
    \/ TakeEvaluation
    \/ Drained
    \/ FilterReadiness
    \/ FilterLatest
    \/ ProviderAnswers
    \/ ProviderFails

Outside == VenueUp \/ VenueDown \/ VenueClears \/ DisableTrading \/ MainClears

Next == Engine \/ Worker \/ Outside

\* The engine and the worker poll in a loop, market updates pause now and then,
\* and every call of the provider returns or fails (it has a timeout).
Fairness ==
    /\ WF_vars(MarketDone)
    /\ WF_vars(CheckReadiness \/ CompareEvaluation \/ DecisionsDone)
    /\ WF_vars(Schedule(FALSE) \/ Schedule(TRUE) \/ Register \/ Enqueue)
    /\ WF_vars(Worker)

SafeSpec == Init /\ [][Next]_vars
Spec == SafeSpec /\ Fairness
-----------------------------------------------------------------------------
(***************************************************************************)
(* Properties.                                                             *)
(***************************************************************************)

\* The types of the variables.
TypeOK ==
    /\ latest \in Nat
    /\ ready \in BOOLEAN
    /\ nextId \in Nat \ {0}
    /\ valid \in BOOLEAN
    /\ evaluations \in Seq(Nat)
    /\ decisions \in Seq(Nat)
    /\ engine \in {"market", "decisions", "compare", "schedule", "register", "enqueue"}
    /\ worker \in {"idle", "draining", "filter", "compare", "evaluate"}
    /\ candidate \in Nat
    /\ venue \in {"idle", "clearing"}
    /\ main \in {"trading", "clearing", "disabled"}
    /\ acted \in Nat
    /\ terminated \in BOOLEAN

\* The last evaluation that was registered, and the last that was queued.
LastRegistered == IF engine = "register" THEN nextId - 2 ELSE nextId - 1
LastQueued == IF engine \in {"register", "enqueue"} THEN nextId - 2 ELSE nextId - 1

Holds == worker # "idle"

Ascending(s) == \A i, j \in DOMAIN s : i < j => s[i] < s[j]

\* The evaluations on their way are in the order of their ids, from the queue
\* through the worker to the decisions, with the one acted on before them all;
\* and while the features are invalid no evaluation is awaited.
PipelineInv ==
    /\ TypeOK
    /\ latest <= LastRegistered
    /\ valid \/ latest = 0
    /\ engine \in {"register", "enqueue"} => valid
    /\ engine = "compare" => decisions # << >>
    /\ engine \in {"register", "enqueue"} => nextId > 1
    /\ Ascending(evaluations)
    /\ Ascending(decisions)
    /\ acted <= LastQueued
    /\ \A i \in DOMAIN evaluations : acted < evaluations[i] /\ evaluations[i] <= LastQueued
    /\ \A i \in DOMAIN decisions : acted < decisions[i] /\ decisions[i] <= LastQueued
    /\ Holds => acted < candidate /\ candidate <= LastQueued
    /\ Holds => \A i \in DOMAIN evaluations : candidate < evaluations[i]
    /\ Holds => \A i \in DOMAIN decisions : decisions[i] < candidate
    /\ \A i \in DOMAIN decisions, j \in DOMAIN evaluations : decisions[i] < evaluations[j]

\* What is acted on keeps the promise of FreshDecisions, although the id is
\* cleared by three threads and compared long after the evaluation was made.
Fresh == INSTANCE FreshDecisions WITH pending <- latest, last <- LastRegistered
ImplementsFresh == Fresh!Spec

\* Nothing is acted on once the venue's readiness is fully withdrawn, although
\* the engine read the readiness before it compared the id.
NothingActedWhileDown ==
    [][acted' # acted /\ SingleOrderVenue
       => ready \/ venue = "clearing" \/ main = "clearing"]_vars

\* An evaluation that was queued leaves the pipeline: it is superseded, dropped,
\* failed or acted on, and none blocks those behind it.
InPipeline(id) ==
    \/ \E i \in DOMAIN evaluations : evaluations[i] = id
    \/ Holds /\ candidate = id
    \/ \E i \in DOMAIN decisions : decisions[i] = id

EvaluationsSettle ==
    \A id \in 1 .. MaxEvaluations : InPipeline(id) ~> ~ InPipeline(id) \/ terminated
=============================================================================
