---------------------------- MODULE RuntimeManager ----------------------------
(***************************************************************************)
(* The process-wide registry of sessions (src/src/runtime_manager.cpp).    *)
(* Application threads add, remove and call sessions; startup workers build*)
(* them; one supervisor polls them and retires the ones that are over; one *)
(* dispatcher tells an optional observer.  One registry mutex covers every *)
(* step written as one action; factories, engines, observers and           *)
(* destructors run between the steps.                                      *)
(*                                                                         *)
(* An entry is named by its generation, the part of a SessionHandle that is*)
(* never reused.  Each entry carries the life of its ConversationSession,  *)
(* reduced to what SessionLifecycle promises; SessionsKeepContract checks  *)
(* that this is how the manager uses it.                                   *)
(***************************************************************************)
EXTENDS Naturals, Sequences, FiniteSets
SeqOps == INSTANCE SequencesExt

CONSTANTS Ids,                     \* session ids applications choose
          Workers,                 \* startup workers
          Callers,                 \* threads in push_audio() and its like
          MaxSessions,             \* config.max_sessions
          MaxPendingStarts,        \* config.max_pending_starts
          MaxPendingNotifications, \* config.max_pending_notifications
          Observed,                \* a NotifySink was given
          MaxGenerations           \* bound: admissions explored

ASSUME LimitAssumption ==          \* checked by the constructor
          /\ MaxSessions \in Nat \ {0}
          /\ MaxPendingStarts \in Nat \ {0}
          /\ MaxPendingNotifications \in Nat \ {0}
          /\ Workers # {}
ASSUME BoundAssumption == MaxGenerations \in Nat /\ Observed \in BOOLEAN
\* A process has finitely many threads.
ASSUME ThreadsAssumption == IsFiniteSet(Workers) /\ IsFiniteSet(Callers)

Generations == 1..MaxGenerations
NoSession == 0

Fatal    == {"StartupFailed", "EngineFailure", "ReportedFailure",
             "LifecycleFailure", "UnexpectedStop"}                \* failed()
Outcomes == {"None", "Removed", "RuntimeShutdown"} \union Fatal
Terminal == {"Stopped", "Failed"}                                 \* terminal()

\* Released is Retiring after the session and its dependencies are destroyed.
Phases == {"Reserved", "Starting", "Running", "StopRequested", "Retiring", "Released"}
Lives  == {"None", "Created", "Starting", "Running", "Stopping"} \union Terminal

VARIABLES
    entry,         \* generation -> Entry, kept after retirement as a history
    registry,      \* generations in the map
    generation,    \* the next one to hand out
    pending,       \* reservations waiting for a startup worker: add() appends ascending
                   \* generations, so the deque is this set, its front the least
    lifecycle,     \* Running, Draining or Stopped
    worker,        \* worker -> [at, gen, failed]
    workers_done,
    supervisor,    \* [at, gen, left]: where it is in its scan
    notifications, \* queue of [type, gen]
    dispatcher,    \* [at, note]
    told,          \* history: generation -> the last notification delivered
    caller         \* caller -> [at, gen]

vars == <<entry, registry, generation, pending, lifecycle, worker, workers_done,
          supervisor, notifications, dispatcher, told, caller>>

NewEntry(i) ==
    [id |-> i, phase |-> "Reserved", outcome |-> "None", operations |-> 0,
     stop_requested |-> FALSE, startup_done |-> FALSE,
     cancelled_before_start |-> FALSE, started |-> "unset", retired |-> "unset",
     life |-> "None",      \* lifecycle() of the session, None without one
     dirty |-> FALSE,      \* the engine was started and not yet stopped
     broken |-> FALSE,     \* the lifecycle thread holds a failure
     observing |-> FALSE]  \* timeline callbacks are queued or in flight

Kinds == <<"Reserved", "Started", "StopRequested", "Retired">>

Init ==
    /\ entry = [g \in {} |-> NewEntry(g)]
    /\ registry = {} /\ generation = 1 /\ pending = {}
    /\ lifecycle = "Running"
    /\ worker = [w \in Workers |-> [at |-> "idle", gen |-> NoSession, failed |-> FALSE]]
    /\ workers_done = 0
    /\ supervisor = [at |-> "scan", gen |-> NoSession, left |-> {}]
    /\ notifications = <<>>
    /\ dispatcher = [at |-> "wait", note |-> <<>>]
    /\ told = [g \in Generations |-> 0]
    /\ caller = [c \in Callers |-> [at |-> "out", gen |-> NoSession]]

-----------------------------------------------------------------------------
(* publish(), matching() and stop_entry()                                  *)

Room == MaxPendingNotifications - Len(notifications)

\* What is published and finds no room, or no memory, is dropped.
Publish(notes) ==
    \/ ~Observed /\ UNCHANGED notifications
    \/ /\ Observed
       /\ \E n \in 0..Len(notes) :
             n <= Room /\ notifications' = notifications \o SubSeq(notes, 1, n)

Note(kind, g) == [type |-> kind, gen |-> g]

\* A stop takes effect once; after that only a fatal reason over one that is not.
Escalates(e, reason) == reason \in Fatal /\ e.outcome \notin Fatal
First(e) == e.phase \notin {"Retiring", "Released"} /\ ~e.stop_requested
EffectiveMutant(e, reason) == First(e) \/ Escalates(e, reason)  \* also while Retiring
Effective(e, reason) == \/ First(e)
                        \/ /\ e.phase \notin {"Retiring", "Released"}
                           /\ Escalates(e, reason)

\* The session's request_stop(): a flag its lifecycle thread looks at.
Asked(life) == IF life \in {"Created", "Starting", "Running"} THEN "Stopping" ELSE life

Cancels(e) == First(e) /\ e.phase = "Reserved"

\* No worker will report a cancelled reservation, so its startup is over here.
StartupOverMutant(e) == e.startup_done
StartupOver(e) == e.startup_done \/ Cancels(e)

Stopped(e, reason) ==
    IF ~Effective(e, reason) THEN e
    ELSE [e EXCEPT !.outcome = reason,
                   !.cancelled_before_start = @ \/ Cancels(e),
                   !.startup_done = StartupOver(e),
                   !.stop_requested = TRUE,
                   !.phase = "StopRequested",
                   !.life = Asked(@)]

\* A cancelled reservation leaves the startup queue.
StillQueued(gs) == pending \ {g \in gs : Cancels(entry[g])}

\* stop_entry() on each of gs, in the order the map yields them.
StopEntries(gs, reason) ==
    /\ entry' = [g \in DOMAIN entry |->
                   IF g \in gs THEN Stopped(entry[g], reason) ELSE entry[g]]
    /\ pending' = StillQueued(gs)
    /\ \E order \in SeqOps!SetToSeqs({g \in gs : First(entry[g])}) :
          Publish([i \in 1..Len(order) |-> Note("StopRequested", order[i])])

\* A promise is set once: a second set_value throws in a thread that cannot.
Kept(old, value) == IF old = "unset" THEN value ELSE "twice"

-----------------------------------------------------------------------------
(* Application threads: add(), remove(), fail(), request_shutdown()        *)

\* max_sessions counts every phase, teardown included.
Charged == registry

\* So does its id: the map keeps it until the entry is erased.
TakenMutant(i) == \E g \in registry : entry[g].id = i /\ entry[g].phase # "Retiring"
Taken(i) == \E g \in registry : entry[g].id = i

Admissible(i) == /\ lifecycle = "Running" /\ ~Taken(i)
                 /\ Cardinality(Charged) < MaxSessions
                 /\ Cardinality(pending) < MaxPendingStarts

Add(i) ==
    /\ generation \in Generations
    /\ Admissible(i)
    /\ entry' = [g \in DOMAIN entry \union {generation} |->
                   IF g = generation THEN NewEntry(i) ELSE entry[g]]
    /\ registry' = registry \union {generation}
    /\ pending' = pending \union {generation}
    /\ generation' = generation + 1
    /\ Publish(<<Note("Reserved", generation)>>)
    /\ UNCHANGED <<lifecycle, worker, workers_done, supervisor, dispatcher, told, caller>>

\* A handle whose generation is no longer registered changes nothing.
Remove(g, reason) ==
    /\ g \in registry
    /\ Effective(entry[g], reason)
    /\ StopEntries({g}, reason)
    /\ UNCHANGED <<registry, generation, lifecycle, worker, workers_done, supervisor,
                   dispatcher, told, caller>>

RequestShutdown ==
    /\ lifecycle = "Running"
    /\ lifecycle' = "Draining"
    /\ StopEntries(registry, "RuntimeShutdown")
    /\ UNCHANGED <<registry, generation, worker, workers_done, supervisor,
                   dispatcher, told, caller>>

-----------------------------------------------------------------------------
(* startup_loop()                                                          *)

Goes(w, at) == worker' = [worker EXCEPT ![w].at = at]

\* The cv wait ends and the oldest reservation is taken.
TakeReservation(w) ==
    /\ worker[w].at = "idle"
    /\ \E g \in pending : LET attempt == ~entry[g].stop_requested IN
          /\ \A h \in pending : g <= h
          /\ pending' = pending \ {g}
          /\ entry' = IF attempt THEN [entry EXCEPT ![g].phase = "Starting"] ELSE entry
          /\ worker' = [worker EXCEPT ![w] =
                          [at |-> IF attempt THEN "factory" ELSE "report",
                           gen |-> g, failed |-> FALSE]]
    /\ UNCHANGED <<registry, generation, lifecycle, workers_done, supervisor,
                   notifications, dispatcher, told, caller>>

WorkerLeaves == pending = {} /\ lifecycle # "Running"

WorkerDone(w) ==
    /\ worker[w].at = "idle" /\ WorkerLeaves
    /\ workers_done' = workers_done + 1
    /\ Goes(w, "done")
    /\ UNCHANGED <<entry, registry, generation, pending, lifecycle, supervisor,
                   notifications, dispatcher, told, caller>>

\* factory() or the session's constructor throws.
FactoryThrows(w) ==
    /\ worker[w].at = "factory"
    /\ Goes(w, "catch")
    /\ UNCHANGED <<entry, registry, generation, pending, lifecycle, workers_done,
                   supervisor, notifications, dispatcher, told, caller>>

\* The built session is installed; a stop that came first is passed on to it.
StartsMutant(e) == TRUE
Starts(e) == ~e.stop_requested

Install(w) ==
    /\ worker[w].at = "factory"
    /\ LET g == worker[w].gen
           start == Starts(entry[g]) IN
          /\ entry' = [entry EXCEPT ![g].life = IF start THEN "Created" ELSE "Stopping"]
          /\ Goes(w, IF start THEN "start" ELSE "report")
    /\ UNCHANGED <<registry, generation, pending, lifecycle, workers_done, supervisor,
                   notifications, dispatcher, told, caller>>

\* instance->start(): a session that was stopped in between cannot restart.
StartSession(w) ==
    /\ worker[w].at = "start"
    /\ LET g == worker[w].gen IN
          \/ /\ entry[g].life = "Created"
             /\ entry' = [entry EXCEPT ![g].life = "Starting"]
             /\ Goes(w, "waiting")
          \/ /\ entry[g].life # "Created"
             /\ Goes(w, "catch")
             /\ UNCHANGED entry
    /\ UNCHANGED <<registry, generation, pending, lifecycle, workers_done, supervisor,
                   notifications, dispatcher, told, caller>>

\* start() returns, or throws because the session is over.
StartReturns(w) ==
    /\ worker[w].at = "waiting"
    /\ LET life == entry[worker[w].gen].life IN
          \/ life = "Running" /\ Goes(w, "report")
          \/ life \in Terminal /\ Goes(w, "catch")
    /\ UNCHANGED <<entry, registry, generation, pending, lifecycle, workers_done,
                   supervisor, notifications, dispatcher, told, caller>>

\* Cancellation racing start is not itself a startup failure.
StartupFailed(e) == ~e.stop_requested \/ e.life \in {"None", "Failed"}

Catch(w) ==
    /\ worker[w].at = "catch"
    /\ worker' = [worker EXCEPT ![w].at = "report",
                                ![w].failed = StartupFailed(entry[worker[w].gen])]
    /\ UNCHANGED <<entry, registry, generation, pending, lifecycle, workers_done,
                   supervisor, notifications, dispatcher, told, caller>>

\* The last lock: apply a failure, then resolve started.
OpensMutant(e) == e.outcome \notin Fatal
Opens(e) == ~e.stop_requested

Reported(e, failure) ==
    LET settled == [(IF failure THEN Stopped(e, "StartupFailed") ELSE e)
                      EXCEPT !.startup_done = TRUE] IN
    IF Opens(settled)
    THEN [settled EXCEPT !.phase = "Running", !.started = Kept(@, "Started")]
    ELSE [settled EXCEPT !.started = Kept(@, settled.outcome)]

Report(w) ==
    /\ worker[w].at = "report"
    /\ LET g == worker[w].gen
           after == Reported(entry[g], worker[w].failed) IN
          /\ entry' = [entry EXCEPT ![g] = after]
          /\ Publish(IF after.phase = "Running" THEN <<Note("Started", g)>>
                     ELSE IF First(entry[g]) THEN <<Note("StopRequested", g)>>
                     ELSE <<>>)
    /\ worker' = [worker EXCEPT ![w] = [at |-> "idle", gen |-> NoSession, failed |-> FALSE]]
    /\ UNCHANGED <<registry, generation, pending, lifecycle, workers_done, supervisor,
                   dispatcher, told, caller>>

-----------------------------------------------------------------------------
(* Managed sessions: the lifecycle thread of each, as SessionLifecycle     *)

Inside(g) == {c \in Callers : caller[c].at = "inside" /\ caller[c].gen = g}

Session(g, e) ==
    /\ entry' = [entry EXCEPT ![g] = e]
    /\ UNCHANGED <<registry, generation, pending, lifecycle, worker, workers_done,
                   supervisor, notifications, dispatcher, told, caller>>

EngineBegins(g) ==
    /\ entry[g].life = "Starting" /\ ~entry[g].dirty
    /\ Session(g, [entry[g] EXCEPT !.dirty = TRUE])

EngineOpens(g) ==
    /\ entry[g].life = "Starting" /\ entry[g].dirty
    /\ Session(g, [entry[g] EXCEPT !.life = "Running"])

EngineThrows(g) ==
    /\ entry[g].life = "Starting" /\ entry[g].dirty
    /\ Session(g, [entry[g] EXCEPT !.life = "Stopping", !.broken = TRUE])

\* engine->stop(), after a start that a stop request overtook has come back;
\* either call may throw.
EngineStops(g) ==
    /\ entry[g].life = "Stopping" /\ entry[g].dirty /\ Inside(g) = {}
    /\ \E throws \in BOOLEAN :
          Session(g, [entry[g] EXCEPT !.dirty = FALSE, !.broken = @ \/ throws])

\* The closing event goes to the timeline before the session reports its end.
SessionEnds(g) ==
    /\ entry[g].life = "Stopping" /\ ~entry[g].dirty /\ Inside(g) = {}
    /\ Session(g, [entry[g] EXCEPT !.life = IF entry[g].broken THEN "Failed" ELSE "Stopped",
                                   !.observing = TRUE])

ObserversDrain(g) ==
    /\ entry[g].observing
    /\ Session(g, [entry[g] EXCEPT !.observing = FALSE])

-----------------------------------------------------------------------------
(* supervise()                                                             *)

\* Everything the application gave is back and every worker has left.
SupervisorLeaves == /\ registry = {} /\ lifecycle # "Running"
                    /\ workers_done = Cardinality(Workers)

\* The wait between two scans is timed, so a scan always comes.
Scan ==
    /\ supervisor.at = "scan"
    /\ supervisor' = IF SupervisorLeaves THEN [supervisor EXCEPT !.at = "done"]
                     ELSE [supervisor EXCEPT !.at = "each", !.left = registry]
    /\ UNCHANGED <<entry, registry, generation, pending, lifecycle, worker, workers_done,
                   notifications, dispatcher, told, caller>>

ScanEnds ==
    /\ supervisor.at = "each" /\ supervisor.left = {}
    /\ supervisor' = [supervisor EXCEPT !.at = "scan"]
    /\ UNCHANGED <<entry, registry, generation, pending, lifecycle, worker, workers_done,
                   notifications, dispatcher, told, caller>>

Skip == supervisor' = [supervisor EXCEPT !.at = "each", !.gen = NoSession]

\* Entries still starting are left for a later scan.
Look(g) ==
    /\ supervisor.at = "each" /\ g \in supervisor.left
    /\ supervisor' = [at |-> IF ~entry[g].startup_done THEN "each"
                             ELSE IF entry[g].life = "None" THEN "claim" ELSE "judge",
                      gen |-> IF entry[g].startup_done THEN g ELSE NoSession,
                      left |-> supervisor.left \ {g}]
    /\ UNCHANGED <<entry, registry, generation, pending, lifecycle, worker, workers_done,
                   notifications, dispatcher, told, caller>>

\* A live session is skipped; how a finished one ended is put on its entry.
Judge ==
    /\ supervisor.at = "judge"
    /\ LET g == supervisor.gen IN
          \/ /\ entry[g].life \notin Terminal
             /\ Skip
             /\ UNCHANGED <<entry, pending, notifications>>
          \/ /\ entry[g].life = "Failed"
             /\ StopEntries({g}, "LifecycleFailure")
             /\ supervisor' = [supervisor EXCEPT !.at = "flush"]
          \/ /\ entry[g].life = "Stopped"
             /\ IF entry[g].stop_requested THEN UNCHANGED <<entry, pending, notifications>>
                ELSE StopEntries({g}, "UnexpectedStop")
             /\ supervisor' = [supervisor EXCEPT !.at = "flush"]
    /\ UNCHANGED <<registry, generation, lifecycle, worker, workers_done, dispatcher,
                   told, caller>>

\* timeline().flush(0): a slow observer only postpones its own session.
FlushedMutant(e) == TRUE
Flushed(e) == ~e.observing

Flush ==
    /\ supervisor.at = "flush"
    /\ IF Flushed(entry[supervisor.gen])
       THEN supervisor' = [supervisor EXCEPT !.at = "claim"]
       ELSE Skip
    /\ UNCHANGED <<entry, registry, generation, pending, lifecycle, worker, workers_done,
                   notifications, dispatcher, told, caller>>

Unused(e) == e.operations = 0

Claim ==
    /\ supervisor.at = "claim"
    /\ LET g == supervisor.gen IN
          IF Unused(entry[g])
          THEN /\ entry' = [entry EXCEPT ![g].phase = "Retiring"]
               /\ supervisor' = [supervisor EXCEPT !.at = "destroy"]
          ELSE Skip /\ UNCHANGED entry
    /\ UNCHANGED <<registry, generation, pending, lifecycle, worker, workers_done,
                   notifications, dispatcher, told, caller>>

\* Session, dependencies and factory, in that order and outside the lock.
Destroy ==
    /\ supervisor.at = "destroy"
    /\ entry' = [entry EXCEPT ![supervisor.gen].phase = "Released"]
    /\ supervisor' = [supervisor EXCEPT !.at = "erase"]
    /\ UNCHANGED <<registry, generation, pending, lifecycle, worker, workers_done,
                   notifications, dispatcher, told, caller>>

\* The map is keyed by id; a reservation never started resolves started here.
OwesStartedMutant(e) == FALSE
OwesStarted(e) == e.cancelled_before_start

Erase ==
    /\ supervisor.at = "erase"
    /\ LET g == supervisor.gen
           e == entry[g] IN
          /\ registry' = {h \in registry : entry[h].id # e.id}
          /\ entry' = [entry EXCEPT
                         ![g].started = IF OwesStarted(e) THEN Kept(@, e.outcome) ELSE @,
                         ![g].retired = Kept(@, e.outcome)]
          /\ Publish(<<Note("Retired", g)>>)
    /\ Skip
    /\ UNCHANGED <<generation, pending, lifecycle, worker, workers_done, dispatcher,
                   told, caller>>

-----------------------------------------------------------------------------
(* dispatch()                                                              *)

Dispatch ==
    /\ dispatcher.at = "wait" /\ notifications # <<>>
    /\ dispatcher' = [at |-> "notify", note |-> Head(notifications)]
    /\ notifications' = Tail(notifications)
    /\ UNCHANGED <<entry, registry, generation, pending, lifecycle, worker, workers_done,
                   supervisor, told, caller>>

\* The observer returns or throws; either way the loop goes on.
Notified ==
    /\ dispatcher.at = "notify"
    /\ told' = [told EXCEPT ![dispatcher.note.gen] =
                   CHOOSE k \in 1..4 : Kinds[k] = dispatcher.note.type]
    /\ dispatcher' = [at |-> "wait", note |-> <<>>]
    /\ UNCHANGED <<entry, registry, generation, pending, lifecycle, worker, workers_done,
                   supervisor, notifications, caller>>

DispatchEnds ==
    /\ dispatcher.at = "wait" /\ notifications = <<>> /\ supervisor.at = "done"
    /\ dispatcher' = [dispatcher EXCEPT !.at = "done"]
    /\ lifecycle' = "Stopped"
    /\ UNCHANGED <<entry, registry, generation, pending, worker, workers_done, supervisor,
                   notifications, told, caller>>

-----------------------------------------------------------------------------
(* push_audio(), cancel_response(), handle_event(), observe()              *)

Moves(c, at, g) == caller' = [caller EXCEPT ![c] = [at |-> at, gen |-> g]]

Leasable(e) == e.phase = "Running" /\ ~e.stop_requested

Lease(c, g) ==
    /\ caller[c].at = "out" /\ g \in registry
    /\ lifecycle = "Running" /\ Leasable(entry[g])
    /\ entry' = [entry EXCEPT ![g].operations = @ + 1]
    /\ Moves(c, "leased", g)
    /\ UNCHANGED <<registry, generation, pending, lifecycle, worker, workers_done,
                   supervisor, notifications, dispatcher, told>>

\* The session admits the call, or refuses it because it is stopping.
EnterableMutant(e) == e.life # "Stopped"
Enterable(e) == e.life = "Running"

Enter(c) ==
    /\ caller[c].at = "leased" /\ Enterable(entry[caller[c].gen])
    /\ Moves(c, "inside", caller[c].gen)
    /\ UNCHANGED <<entry, registry, generation, pending, lifecycle, worker, workers_done,
                   supervisor, notifications, dispatcher, told>>

\* Refused by the session, an event for another handle, or only observed.
Bypass(c) ==
    /\ caller[c].at = "leased"
    /\ Moves(c, "ending", caller[c].gen)
    /\ UNCHANGED <<entry, registry, generation, pending, lifecycle, worker, workers_done,
                   supervisor, notifications, dispatcher, told>>

EngineReturns(c, at) ==
    /\ caller[c].at = "inside"
    /\ Moves(c, at, caller[c].gen)
    /\ UNCHANGED <<entry, registry, generation, pending, lifecycle, worker, workers_done,
                   supervisor, notifications, dispatcher, told>>

\* remove(handle, EngineFailure) from the catch block, lease still held.
ReportEngineFailure(c) ==
    /\ caller[c].at = "threw"
    /\ StopEntries({caller[c].gen} \intersect registry, "EngineFailure")
    /\ Moves(c, "ending", caller[c].gen)
    /\ UNCHANGED <<registry, generation, lifecycle, worker, workers_done, supervisor,
                   dispatcher, told>>

EndLease(c) ==
    /\ caller[c].at = "ending"
    /\ entry' = [entry EXCEPT ![caller[c].gen].operations = @ - 1]
    /\ Moves(c, "out", NoSession)
    /\ UNCHANGED <<registry, generation, pending, lifecycle, worker, workers_done,
                   supervisor, notifications, dispatcher, told>>

-----------------------------------------------------------------------------
Application ==
    \/ \E i \in Ids : Add(i)
    \/ \E g \in registry : Remove(g, "Removed") \/ Remove(g, "ReportedFailure")
    \/ RequestShutdown
    \/ \E c \in Callers, g \in registry : Lease(c, g)

Startup(w) == \/ TakeReservation(w) \/ WorkerDone(w) \/ FactoryThrows(w) \/ Install(w)
              \/ StartSession(w) \/ StartReturns(w) \/ Catch(w) \/ Report(w)

Sessions(g) == \/ EngineBegins(g) \/ EngineOpens(g) \/ EngineThrows(g)
               \/ EngineStops(g) \/ SessionEnds(g) \/ ObserversDrain(g)

Supervise == \/ Scan \/ ScanEnds \/ \E g \in supervisor.left : Look(g)
             \/ Judge \/ Flush \/ Claim \/ Destroy \/ Erase

Dispatching == Dispatch \/ Notified \/ DispatchEnds

Calling(c) == \/ Enter(c) \/ Bypass(c)
              \/ EngineReturns(c, "ending") \/ EngineReturns(c, "threw")
              \/ ReportEngineFailure(c) \/ EndLease(c)

\* join(): shutdown() and the destructor return when every thread has left.
Joined == /\ \A w \in Workers : worker[w].at = "done"
          /\ supervisor.at = "done" /\ dispatcher.at = "done"

Over == Joined /\ (\A c \in Callers : caller[c].at = "out") /\ UNCHANGED vars

Next == \/ Application
        \/ \E w \in Workers : Startup(w)
        \/ \E g \in DOMAIN entry : Sessions(g)
        \/ Supervise \/ Dispatching
        \/ \E c \in Callers : Calling(c)
        \/ Over

Spec == Init /\ [][Next]_vars

\* Only the supervisor is promised to run: factories, engines and observers may
\* hang for ever.
ReaperSpec == Spec /\ WF_vars(Supervise)

\* Every thread runs and every callback returns: shutdown is cooperative.
FairSpec ==
    /\ Spec /\ WF_vars(Supervise) /\ WF_vars(Dispatching)
    /\ \A w \in Workers : WF_vars(Startup(w))
    /\ \A c \in Callers : WF_vars(Calling(c))
    /\ \A g \in Generations : WF_vars(g \in DOMAIN entry /\ Sessions(g))

-----------------------------------------------------------------------------
(* Properties                                                              *)

TypeOK ==
    /\ registry \subseteq Generations /\ DOMAIN entry \subseteq Generations
    /\ \A g \in DOMAIN entry :
          /\ entry[g].phase \in Phases /\ entry[g].outcome \in Outcomes
          /\ entry[g].life \in Lives /\ entry[g].operations \in Nat
    /\ Cardinality(pending) <= MaxPendingStarts
    /\ Len(notifications) <= MaxPendingNotifications
    /\ lifecycle \in {"Running", "Draining", "Stopped"}

Resolved(ticket) == ticket # "unset"

\* The started and retired promises of an admission are each set at most once,
\* although a startup worker and the supervisor may both owe started: a second
\* set_value throws in a thread that has no handler (runtime_manager.cpp:317-320,
\* 385-387).
TicketsOnce == \A g \in DOMAIN entry : "twice" \notin {entry[g].started, entry[g].retired}

\* What an application reads in its two futures agrees: retirement comes after
\* startup was answered, never says Started or nothing, never blames a stop nobody
\* asked for, and keeps the first fatal cause that startup reported.
TicketsAgree ==
    \A g \in DOMAIN entry : Resolved(entry[g].retired) =>
       /\ Resolved(entry[g].started)
       /\ entry[g].retired \in Outcomes \ {"None", "UnexpectedStop"}
       /\ entry[g].started \in Fatal => entry[g].retired = entry[g].started

\* The registry charges exactly the admissions that are not retired, under
\* distinct ids and within max_sessions: erasing by id never takes a replacement
\* out, and a session being torn down still counts.
Membership ==
    /\ registry = {g \in DOMAIN entry : ~Resolved(entry[g].retired)}
    /\ \A g, h \in registry : entry[g].id = entry[h].id => g = h
    /\ Cardinality(registry) <= MaxSessions

\* A call that holds a lease never meets a session that the supervisor took away
\* or destroyed, whatever remove() and shutdown do meanwhile.
LeaseKeepsSession ==
    \A c \in Callers : caller[c].at # "out" =>
       /\ entry[caller[c].gen].phase \in {"Running", "StopRequested"}
       /\ entry[caller[c].gen].life # "None"

\* A session is taken for teardown only when it is over, its engine was cleaned up
\* and its timeline has no callback queued or running.
QuietTeardown ==
    \A g \in DOMAIN entry : entry[g].phase \in {"Retiring", "Released"} =>
       /\ entry[g].stop_requested /\ entry[g].startup_done
       /\ entry[g].life \in Terminal \union {"None"}
       /\ ~entry[g].dirty /\ ~entry[g].observing

\* A stop is never lost on an entry that is being built: once a stop is on the
\* entry, an installed session was told, and a drain is on every entry.
StopReachesSession ==
    \A g \in registry :
       /\ entry[g].stop_requested =>
             entry[g].life \in {"None", "Stopping"} \union Terminal
       /\ lifecycle # "Running" => entry[g].stop_requested

\* Stopped is reported only when every ticket is answered, every worker has left
\* and every notification that was queued has been delivered.
StoppedMeansDone ==
    lifecycle = "Stopped" =>
       /\ registry = {} /\ pending = {} /\ notifications = <<>>
       /\ \A w \in Workers : worker[w].at = "done"
       /\ \A g \in DOMAIN entry : Resolved(entry[g].started) /\ Resolved(entry[g].retired)

\* The observer hears of a session in the order Reserved, Started, StopRequested,
\* Retired, with possible gaps: never Started after StopRequested.
StoryForward == [][\A g \in Generations : told'[g] # told[g] => told'[g] > told[g]]_vars

Life(g)  == IF g \in DOMAIN entry /\ entry[g].life # "None" THEN entry[g].life ELSE "Created"
Dirty(g) == g \in DOMAIN entry /\ entry[g].dirty

Contract(g) == INSTANCE SessionLifecycle
    WITH phase <- Life(g), inside <- Cardinality(Inside(g)), dirty <- Dirty(g)

\* The manager drives each session only as the session's own contract allows: every
\* step of the manager is a step of SessionLifecycle, or none, for each session.
SessionsKeepContract ==
    [][\A g \in Generations :
          Contract(g)!Next \/ UNCHANGED <<Life(g), Inside(g), Dirty(g)>>]_vars

AdmissionPhase(g) ==
    CASE g \notin DOMAIN entry -> "None"
      [] g \in DOMAIN entry \ registry -> "Erased"
      [] g \in registry -> IF entry[g].phase = "Released" THEN "Retiring" ELSE entry[g].phase
StartedTicket(g) ==
    IF g \notin DOMAIN entry \/ entry[g].started \in {"unset", "Started", "twice"}
       THEN IF g \in DOMAIN entry THEN entry[g].started ELSE "unset"
       ELSE "NotStarted"
IsRetired(g) == g \in DOMAIN entry /\ Resolved(entry[g].retired)

Admission(g) == INSTANCE ManagedSession
    WITH phase <- AdmissionPhase(g), started <- StartedTicket(g), retired <- IsRetired(g)

\* What an application can observe of an admission through find() and its two tickets
\* is what ManagedSession allows, whoever stops it and whenever: VoiceChatConnection
\* relies on this contract only.
ImplementsAdmissions ==
    [][\A g \in Generations :
          Admission(g)!Next
          \/ UNCHANGED <<AdmissionPhase(g), StartedTicket(g), IsRetired(g)>>]_vars

\* A reservation cancelled while it waits is retired by the supervisor alone, even when
\* every startup worker is stuck for ever in the factory of another admission.
CancelledReservationRetires ==
    \A g \in Generations :
       (g \in DOMAIN entry /\ entry[g].cancelled_before_start)
          ~> (g \in DOMAIN entry /\ Resolved(entry[g].retired))

\* With cooperative callbacks every admission is told how its startup went, also
\* one that was cancelled, failed or overtaken by a drain.
StartedResolves ==
    \A g \in Generations :
       (g \in DOMAIN entry) ~> (g \in DOMAIN entry /\ Resolved(entry[g].started))

\* With cooperative callbacks a session asked to stop is retired.
StopRetires ==
    \A g \in Generations :
       (g \in DOMAIN entry /\ entry[g].stop_requested)
          ~> (g \in DOMAIN entry /\ Resolved(entry[g].retired))

\* With cooperative callbacks request_shutdown() leads to Stopped and shutdown() returns.
DrainEnds == lifecycle = "Draining" ~> lifecycle = "Stopped" /\ Joined

\* Promises are set once and agree, no lease meets a session taken away, teardown meets a
\* quiet session, and Stopped means that nothing is left.
ManagerSafe == /\ TypeOK /\ TicketsOnce /\ TicketsAgree /\ LeaseKeepsSession
               /\ QuietTeardown /\ StoppedMeansDone

\* With cooperative callbacks every ticket is answered and a drain ends.
Progress == StartedResolves /\ StopRetires /\ DrainEnds

=============================================================================
