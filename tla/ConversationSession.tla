------------------------- MODULE ConversationSession -------------------------
(***************************************************************************)
(* One non-restartable interaction lifetime (src/src/                      *)
(* conversation_session.cpp): callers of start() and stop(), operations    *)
(* admitted under a lease, and the lifecycle worker that starts the engine,*)
(* drains the leases, stops the engine and closes the timeline.            *)
(*                                                                         *)
(* The engine is any ConversationEngine: its start and stop may throw, it  *)
(* may emit events from the moment start is entered until stop has         *)
(* returned, and its calls return.  A wait on cv_ is the guard of the      *)
(* action after it.                                                        *)
(***************************************************************************)
EXTENDS Naturals, Sequences, FiniteSets

CONSTANTS Starters,      \* threads that call start()
          Stoppers,      \* external threads that call stop()
          Callers,       \* threads that push audio, observe, handle events
          MaxEvents      \* bound: observed and emitted events explored

ASSUME BoundAssumption == MaxEvents \in Nat
\* A process has finitely many threads.
ASSUME ThreadsAssumption == IsFiniteSet(Callers)

VARIABLES
    \* guarded by mutex_
    lifecycle, start_requested, stop_requested, active_operations,
    failure,        \* failure_: is an exception stored
    capabilities,   \* capabilities_: have they been filled in
    \* the lifecycle worker: position and locals
    worker, attempted_start, local_failure,
    \* collaborators
    engine,         \* off, starting, up, broken (start threw), stopping, down
    stop_calls,     \* times engine_->stop() was entered
    journal,        \* the timeline's admitted events
    closed,         \* timeline_.close() was called
    unrecorded,     \* history: the lifecycle events whose append threw
    \* client threads
    starter, stopper, caller

core    == <<lifecycle, start_requested, stop_requested, active_operations,
             failure, capabilities>>
loop    == <<worker, attempted_start, local_failure>>
world   == <<engine, stop_calls, journal, closed, unrecorded>>
clients == <<starter, stopper, caller>>
vars    == <<core, loop, world, clients>>

Terminal(state) == state \in {"Stopped", "Failed"}

Init ==
    /\ lifecycle = "Created"
    /\ start_requested = FALSE /\ stop_requested = FALSE
    /\ active_operations = 0
    /\ failure = FALSE /\ capabilities = FALSE
    /\ worker = "wait" /\ attempted_start = FALSE /\ local_failure = FALSE
    /\ engine = "off" /\ stop_calls = 0 /\ journal = <<>> /\ closed = FALSE
    /\ unrecorded = {}
    /\ starter = [c \in Starters |-> "idle"]
    /\ stopper = [c \in Stoppers |-> "idle"]
    /\ caller = [c \in Callers |-> "idle"]

-----------------------------------------------------------------------------
(* The timeline as the session sees it: an append is refused once closed.  *)

Free == MaxEvents - Cardinality({i \in 1..Len(journal) :
                                    journal[i] \in {"observed", "emitted"}})

Admit(event) == journal' = IF closed THEN journal ELSE Append(journal, event)

\* publish_lifecycle swallows whatever the append throws.
PublishLifecycle(event) ==
    \/ Admit(event) /\ UNCHANGED unrecorded
    \/ UNCHANGED journal /\ unrecorded' = unrecorded \union {event}

-----------------------------------------------------------------------------
(* start()                                                                 *)

Start(c) ==
    /\ starter[c] = "idle"
    /\ \/ /\ lifecycle = "Running"
          /\ starter' = [starter EXCEPT ![c] = "started"]
          /\ UNCHANGED <<lifecycle, start_requested>>
       \/ /\ lifecycle = "Created"
          /\ lifecycle' = "Starting"
          /\ start_requested' = TRUE
          /\ starter' = [starter EXCEPT ![c] = "waiting"]
       \/ /\ lifecycle = "Starting"
          /\ starter' = [starter EXCEPT ![c] = "waiting"]
          /\ UNCHANGED <<lifecycle, start_requested>>
       \/ /\ lifecycle \in {"Stopping", "Stopped", "Failed"}
          /\ starter' = [starter EXCEPT ![c] = "cannot restart"]
          /\ UNCHANGED <<lifecycle, start_requested>>
    /\ UNCHANGED <<stop_requested, active_operations, failure, capabilities,
                   loop, world, stopper, caller>>

StartReturns(c) ==
    /\ starter[c] = "waiting"
    /\ lifecycle = "Running" \/ Terminal(lifecycle)
    /\ starter' = [starter EXCEPT ![c] = IF failure THEN "rethrown"
                                         ELSE IF lifecycle = "Running" THEN "started"
                                         ELSE "startup stopped"]
    /\ UNCHANGED <<core, loop, world, stopper, caller>>

-----------------------------------------------------------------------------
(* request_stop() and stop()                                               *)

RequestStop == /\ ~Terminal(lifecycle)
               /\ stop_requested' = TRUE
               /\ lifecycle' = "Stopping"

\* From an external thread: request, then wait for the terminal state.
Stop(c) ==
    /\ stopper[c] = "idle"
    /\ \/ RequestStop
       \/ Terminal(lifecycle) /\ UNCHANGED <<stop_requested, lifecycle>>
    /\ stopper' = [stopper EXCEPT ![c] = "waiting"]
    /\ UNCHANGED <<start_requested, active_operations, failure, capabilities,
                   loop, world, starter, caller>>

StopReturns(c) ==
    /\ stopper[c] = "waiting"
    /\ Terminal(lifecycle)
    /\ stopper' = [stopper EXCEPT ![c] = "returned"]
    /\ UNCHANGED <<core, loop, world, starter, caller>>

\* callback_thread(): stop() called inside an admitted operation only requests.
AfterNestedStopMutant == "nested wait"          \* stop() waits whoever calls it
AfterNestedStop == "engine"

NestedStop(c) ==
    /\ caller[c] = "engine"
    /\ RequestStop
    /\ caller' = [caller EXCEPT ![c] = AfterNestedStop]
    /\ UNCHANGED <<start_requested, active_operations, failure, capabilities,
                   loop, world, starter, stopper>>

\* request_stop() from an engine callback while the engine starts or runs.
CallbackStop ==
    /\ engine \in {"starting", "up"}
    /\ RequestStop
    /\ UNCHANGED <<start_requested, active_operations, failure, capabilities,
                   loop, world, clients>>

-----------------------------------------------------------------------------
(* Operations: a lease, then an append and/or an engine call, then release.*)

\* acquire_operation: refused unless Running.
Admissible == lifecycle = "Running"

Acquire(c) ==
    /\ caller[c] = "idle"
    /\ Admissible
    /\ active_operations' = active_operations + 1
    /\ caller' = [caller EXCEPT ![c] = "leased"]
    /\ UNCHANGED <<lifecycle, start_requested, stop_requested, failure,
                   capabilities, loop, world, starter, stopper>>

\* observe(): the append is the whole operation.
Observe(c) ==
    /\ caller[c] = "leased"
    /\ Free > 0
    /\ Admit("observed")
    /\ caller' = [caller EXCEPT ![c] = "releasing"]
    /\ UNCHANGED <<core, loop, engine, stop_calls, closed, unrecorded,
                   starter, stopper>>

\* handle_event(): the engine hears of it only when the timeline admitted it.
HandleEvent(c) ==
    /\ caller[c] = "leased"
    /\ Free > 0
    /\ Admit("observed")
    /\ caller' = [caller EXCEPT ![c] = IF closed THEN "releasing" ELSE "engine"]
    /\ UNCHANGED <<core, loop, engine, stop_calls, closed, unrecorded,
                   starter, stopper>>

\* The timeline refuses the event: wrong session or generation, too large.
AppendRefused(c) ==
    /\ caller[c] = "leased"
    /\ caller' = [caller EXCEPT ![c] = "releasing"]
    /\ UNCHANGED <<core, loop, world, starter, stopper>>

\* push_audio, cancel_response, state(): straight into the engine.
EngineCall(c) ==
    /\ caller[c] = "leased"
    /\ caller' = [caller EXCEPT ![c] = "engine"]
    /\ UNCHANGED <<core, loop, world, starter, stopper>>

EngineReturns(c) ==
    /\ caller[c] = "engine"
    /\ caller' = [caller EXCEPT ![c] = "releasing"]
    /\ UNCHANGED <<core, loop, world, starter, stopper>>

Release(c) ==
    /\ caller[c] = "releasing"
    /\ active_operations' = active_operations - 1
    /\ caller' = [caller EXCEPT ![c] = "idle"]
    /\ UNCHANGED <<lifecycle, start_requested, stop_requested, failure,
                   capabilities, loop, world, starter, stopper>>

\* The engine reports through its sink.
EngineEmits ==
    /\ engine \in {"starting", "up", "broken", "stopping"}
    /\ Free > 0
    /\ Admit("emitted")
    /\ UNCHANGED <<core, loop, engine, stop_calls, closed, unrecorded, clients>>

-----------------------------------------------------------------------------
(* lifecycle_loop                                                          *)

\* The first wait; with a start and no stop the engine is entered.
WorkerWakes ==
    /\ worker = "wait"
    /\ start_requested \/ stop_requested
    /\ attempted_start' = (start_requested /\ ~stop_requested)
    /\ worker' = IF attempted_start' THEN "starting" ELSE "drain"
    /\ engine' = IF attempted_start' THEN "starting" ELSE engine
    /\ UNCHANGED <<core, local_failure, stop_calls, journal, closed,
                   unrecorded, clients>>

EngineStarts ==
    /\ worker = "starting"
    /\ engine' = "up"
    /\ worker' = "announce"
    /\ UNCHANGED <<core, attempted_start, local_failure, stop_calls, journal,
                   closed, unrecorded, clients>>

\* SessionStarted is published whether or not a stop came in meanwhile.
AnnounceStarted ==
    /\ worker = "announce"
    /\ PublishLifecycle("Started")
    /\ worker' = "open"
    /\ UNCHANGED <<core, attempted_start, local_failure, engine, stop_calls,
                   closed, clients>>

OpenedMutant == "Running"                       \* a stop during startup is lost
Opened == IF stop_requested THEN lifecycle ELSE "Running"

OpenAdmission ==
    /\ worker = "open"
    /\ capabilities' = TRUE
    /\ lifecycle' = Opened
    /\ worker' = "drain"
    /\ UNCHANGED <<start_requested, stop_requested, active_operations, failure,
                   attempted_start, local_failure, world, clients>>

\* capabilities() or start() throws: keep the exception, go and clean up.
StateAfterThrow == "Stopping"

EngineStartThrows ==
    /\ worker = "starting"
    /\ engine' = "broken"
    /\ local_failure' = TRUE
    /\ stop_requested' = TRUE
    /\ lifecycle' = StateAfterThrow
    /\ worker' = "drain"
    /\ UNCHANGED <<start_requested, active_operations, failure, capabilities,
                   attempted_start, stop_calls, journal, closed, unrecorded, clients>>

\* The second wait: a stop was requested and every lease has been returned.
Drained == stop_requested /\ active_operations = 0

MustCleanMutant == attempted_start /\ ~local_failure   \* no partial-start cleanup
MustClean == attempted_start

StopsEngine ==
    /\ worker = "drain"
    /\ Drained
    /\ worker' = IF MustClean THEN "stopping" ELSE "report"
    /\ engine' = IF MustClean THEN "stopping" ELSE engine
    /\ stop_calls' = IF MustClean THEN stop_calls + 1 ELSE stop_calls
    /\ UNCHANGED <<core, attempted_start, local_failure, journal, closed,
                   unrecorded, clients>>

\* engine_->stop() returns, or throws and is kept unless startup failed before.
EngineStopped ==
    /\ worker = "stopping"
    /\ engine' = "down"
    /\ local_failure' \in {local_failure, TRUE}
    /\ worker' = "report"
    /\ UNCHANGED <<core, attempted_start, stop_calls, journal, closed,
                   unrecorded, clients>>

ReportEnd ==
    /\ worker = "report"
    /\ PublishLifecycle(IF local_failure THEN "Failed" ELSE "Stopped")
    /\ worker' = "close"
    /\ UNCHANGED <<core, attempted_start, local_failure, engine, stop_calls,
                   closed, clients>>

CloseTimeline ==
    /\ worker = "close"
    /\ closed' = TRUE
    /\ worker' = "end"
    /\ UNCHANGED <<core, attempted_start, local_failure, engine, stop_calls,
                   journal, unrecorded, clients>>

EndSession ==
    /\ worker = "end"
    /\ failure' = local_failure
    /\ lifecycle' = IF local_failure THEN "Failed" ELSE "Stopped"
    /\ worker' = "exited"
    /\ UNCHANGED <<start_requested, stop_requested, active_operations,
                   capabilities, attempted_start, local_failure, world, clients>>

-----------------------------------------------------------------------------
\* What runs without waiting for anybody but the engine's own return.
Worker == \/ WorkerWakes \/ EngineStarts \/ EngineStartThrows \/ AnnounceStarted
          \/ OpenAdmission \/ StopsEngine \/ EngineStopped \/ ReportEnd
          \/ CloseTimeline \/ EndSession
Works(c) == AppendRefused(c) \/ EngineCall(c) \/ EngineReturns(c) \/ Release(c)

Next == \/ Worker
        \/ \E c \in Starters : Start(c) \/ StartReturns(c)
        \/ \E c \in Stoppers : Stop(c) \/ StopReturns(c)
        \/ \E c \in Callers : \/ Acquire(c) \/ Observe(c) \/ HandleEvent(c)
                              \/ NestedStop(c) \/ Works(c)
        \/ CallbackStop
        \/ EngineEmits

Spec == Init /\ [][Next]_vars

\* Threads are scheduled, and engine calls return ("bounded" in
\* docs/runtime-foundation.md).  Nobody has to call start, stop or an operation.
Fairness == /\ WF_vars(Worker)
            /\ \A c \in Starters : WF_vars(StartReturns(c))
            /\ \A c \in Stoppers : WF_vars(StopReturns(c))
            /\ \A c \in Callers : WF_vars(Works(c))
FairSpec == Spec /\ Fairness

-----------------------------------------------------------------------------
(* Properties.                                                             *)

CoreType ==
    /\ lifecycle \in {"Created", "Starting", "Running", "Stopping", "Stopped", "Failed"}
    /\ start_requested \in BOOLEAN /\ stop_requested \in BOOLEAN
    /\ active_operations \in 0..Cardinality(Callers)
    /\ failure \in BOOLEAN /\ capabilities \in BOOLEAN
LoopType ==
    /\ worker \in {"wait", "starting", "announce", "open", "drain", "stopping",
                   "report", "close", "end", "exited"}
    /\ attempted_start \in BOOLEAN /\ local_failure \in BOOLEAN
WorldType ==
    /\ engine \in {"off", "starting", "up", "broken", "stopping", "down"}
    /\ stop_calls \in Nat
    /\ journal \in Seq({"observed", "emitted", "Started", "Stopped", "Failed"})
    /\ closed \in BOOLEAN
    /\ unrecorded \subseteq {"Started", "Stopped", "Failed"}
ClientType ==
    /\ starter \in [Starters -> {"idle", "waiting", "started", "cannot restart",
                                 "rethrown", "startup stopped"}]
    /\ stopper \in [Stoppers -> {"idle", "waiting", "returned"}]
    /\ caller \in [Callers -> {"idle", "leased", "engine", "releasing"}]
TypeOK == CoreType /\ LoopType /\ WorldType /\ ClientType

\* An admitted call is in the engine only between a start that succeeded and
\* the stop: the lease keeps engine_->stop() out until the call has returned.
EngineFenced == \A c \in Callers : caller[c] = "engine" => engine = "up"

\* engine_->stop() runs at most once, and a session whose start was attempted,
\* even one that threw half way, is not over before it has run.
StopOnce ==
    /\ stop_calls <= 1
    /\ Terminal(lifecycle) => /\ stop_calls = (IF attempted_start THEN 1 ELSE 0)
                              /\ engine \in {"off", "down"}

\* The journal tells the lifetime: one terminal event at most, with nothing
\* after it, SessionStarted at most once; a terminal state has its event unless
\* the append of that event threw.
IsEnd(event) == event \in {"Stopped", "Failed"}
JournalEnds ==
    /\ \A i \in 1..Len(journal) : IsEnd(journal[i]) => i = Len(journal)
    /\ \A i, j \in 1..Len(journal) :
          journal[i] = "Started" /\ journal[j] = "Started" => i = j
    /\ Terminal(lifecycle) =>
          \/ lifecycle \in unrecorded
          \/ journal # <<>> /\ journal[Len(journal)] = lifecycle

\* What start() tells its callers is true of the session: it rethrows a failure
\* only after the cleanup, says "startup was stopped" only of a session that
\* ended well, and returns only after an engine start that filled in the
\* capabilities (conversation_session.cpp:87-92 against 204-213).
StartTellsTheTruth ==
    \A c \in Starters :
        /\ starter[c] = "rethrown" => lifecycle = "Failed" /\ engine = "down"
        /\ starter[c] = "startup stopped" => lifecycle = "Stopped"
        /\ starter[c] = "started" => attempted_start /\ capabilities

\* The refinement mapping: the engine is dirty from start to the end of stop.
Contract == INSTANCE SessionLifecycle
              WITH phase <- lifecycle, inside <- active_operations,
                   dirty <- engine \in {"starting", "up", "broken", "stopping"}

\* The session implements the forward-only lifetime of SessionLifecycle.
ImplementsLifecycle == Contract!Spec

\* A stop request always ends the session: also one made inside an admitted
\* call or before or during startup.
StopEnds == stop_requested ~> Terminal(lifecycle)

\* Nobody waits for ever in start() or stop().
WaitersReturn ==
    /\ \A c \in Starters : starter[c] = "waiting" ~> starter[c] # "waiting"
    /\ \A c \in Stoppers : stopper[c] = "waiting" ~> stopper[c] = "returned"

\* No call meets a stopped engine, the engine is cleaned up exactly once, the journal
\* ends with the one terminal event, and start() tells its callers the truth.
SessionSafe == TypeOK /\ EngineFenced /\ StopOnce /\ JournalEnds /\ StartTellsTheTruth

\* Every stop request ends the session and every caller of start() and stop()
\* gets an answer.
Progress == StopEnds /\ WaitersReturn

=============================================================================
