--------------------------- MODULE SessionExecutor ---------------------------
(***************************************************************************)
(* The session executor of ByteTurn (src/src/executor.cpp): a fixed pool   *)
(* of worker threads that runs turns, one FIFO lane per session, with a    *)
(* bound on the waiting turns of a session and of the executor.            *)
(*                                                                         *)
(* Every critical section of the code (submit_turn, cancel_session, the    *)
(* head of shutdown, the two locked blocks of worker_loop) is one action.  *)
(* What a worker does between its two locked blocks is split at each store *)
(* that another thread can see.  A wait on ready_cv_ is the guard of the   *)
(* action that follows it: every change of the predicate notifies.         *)
(*                                                                         *)
(* A turn is the number its Work object takes from next_turn_id_.          *)
(***************************************************************************)
EXTENDS Naturals, Integers, Sequences, FiniteSets

CONSTANTS Sessions,              \* session ids
          Workers,               \* worker threads
          Stoppers,              \* threads that call shutdown()
          MaxPendingPerSession,  \* config_.max_pending_per_session
          MaxPendingTotal,       \* config_.max_pending_total
          MaxTurns,              \* bound: submissions explored
          Timed,                 \* bound: the turns submitted with a deadline
          NoSession              \* the lane of a turn number not in use

ASSUME LimitsAssumption ==       \* checked by the constructor
          /\ MaxPendingPerSession \in Nat \ {0}
          /\ MaxPendingTotal \in Nat \ {0}
ASSUME BoundAssumption   == MaxTurns \in Nat /\ Timed \subseteq Nat
ASSUME SessionAssumption == NoSession \notin Sessions
ASSUME WorkerAssumption  == Workers # {}      \* ensured by the constructor

Turns  == 1..MaxTurns
NoTurn == 0

VARIABLES
    \* guarded by mutex_
    sessions,       \* keys of sessions_
    queue,          \* Session::queue
    running,        \* Session::running
    scheduled,      \* Session::scheduled
    ready_sessions,
    next_turn_id,
    pending_total,
    stopping,
    \* one Work object per turn
    lane,           \* the session the turn was submitted to
    cancelled,      \* the atomic flag behind its CancellationToken
    expired,        \* now() >= deadline_
    state,          \* TurnContext::state_
    promise,        \* Work::promise as the holder of the future sees it
    \* threads
    pc,             \* where each worker is in worker_loop
    work,           \* its local variable work
    stopper         \* where each caller of shutdown() is

laneVars   == <<sessions, queue, running, scheduled, ready_sessions, pending_total>>
turnVars   == <<lane, cancelled, expired, state, promise>>
workerVars == <<pc, work>>
vars == <<laneVars, next_turn_id, stopping, turnVars, workerVars, stopper>>

TurnStates == {"Queued", "Running", "Completed", "Cancelled", "TimedOut", "Failed"}
Resolved   == {"value", "exception", "double"}
Busy       == {"begin", "task", "valued", "thrown", "finish"}

(***************************************************************************)
(* promise.set_value and promise.set_exception.  On a satisfied promise    *)
(* both throw std::future_error, which "double" records.                   *)
(***************************************************************************)
Settle(t, outcome) == IF promise[t] = "pending" THEN outcome ELSE "double"

Elements(seq) == {seq[i] : i \in 1..Len(seq)}

-----------------------------------------------------------------------------
FirstTurnIdMutant == 0
FirstTurnId == 1

Init ==
    /\ sessions = {}
    /\ queue = [s \in Sessions |-> <<>>]
    /\ running = [s \in Sessions |-> NoTurn]
    /\ scheduled = [s \in Sessions |-> FALSE]
    /\ ready_sessions = <<>>
    /\ next_turn_id = FirstTurnId
    /\ pending_total = 0
    /\ stopping = FALSE
    /\ lane = [t \in Turns |-> NoSession]
    /\ cancelled = [t \in Turns |-> FALSE]
    /\ expired = [t \in Turns |-> FALSE]
    /\ state = [t \in Turns |-> "Queued"]
    /\ promise = [t \in Turns |-> "none"]
    /\ pc = [w \in Workers |-> "idle"]
    /\ work = [w \in Workers |-> NoTurn]
    /\ stopper = [c \in Stoppers |-> "idle"]

-----------------------------------------------------------------------------
(* submit_turn: the limits it enforces, admission, and the overload throw. *)

Full(s) == \/ s \in sessions /\ Len(queue[s]) >= MaxPendingPerSession
           \/ pending_total >= MaxPendingTotal

\* A lane is handed to the workers only by the turn that finds it at rest.
AtRestMutant(s) == ~scheduled[s]          \* forgets that the lane runs
AtRest(s) == ~scheduled[s] /\ running[s] = NoTurn

PushBackMutant(s, t) == <<t>> \o queue[s] \* push_front
PushBack(s, t) == Append(queue[s], t)

\* The lane joins ready_sessions_ (and a worker is notified).
MakeReady(s) == /\ scheduled' = [scheduled EXCEPT ![s] = TRUE]
                /\ ready_sessions' = Append(ready_sessions, s)

Submit(s) ==
    /\ ~stopping
    /\ next_turn_id \in Turns
    /\ ~Full(s)
    /\ LET t == next_turn_id IN
          /\ lane' = [lane EXCEPT ![t] = s]
          /\ promise' = [promise EXCEPT ![t] = "pending"]
          /\ queue' = [queue EXCEPT ![s] = PushBack(s, t)]
    /\ next_turn_id' = next_turn_id + 1
    /\ sessions' = sessions \union {s}
    /\ pending_total' = pending_total + 1
    /\ IF AtRest(s)
          THEN MakeReady(s)
          ELSE UNCHANGED <<scheduled, ready_sessions>>
    /\ UNCHANGED <<running, stopping, cancelled, expired, state, workerVars, stopper>>

\* ExecutorOverloaded: only the turn id is spent.
SubmitOverloaded(s) ==
    /\ ~stopping
    /\ next_turn_id \in Turns
    /\ Full(s)
    /\ next_turn_id' = next_turn_id + 1
    /\ UNCHANGED <<laneVars, stopping, turnVars, workerVars, stopper>>

\* The deadline of a turn passes.
Expire(t) ==
    /\ promise[t] = "pending"
    /\ ~expired[t]
    /\ t \in Timed
    /\ expired' = [expired EXCEPT ![t] = TRUE]
    /\ UNCHANGED <<laneVars, next_turn_id, stopping, lane, cancelled, state,
                   promise, workerVars, stopper>>

-----------------------------------------------------------------------------
(* cancel_session and the locked head of shutdown do the same to a set of  *)
(* lanes: flag what runs, fail and drop what waits.  Entries stay in the   *)
(* map and in ready_sessions_.                                             *)

Waiting(lanes) == UNION {Elements(queue[s]) : s \in lanes}

FlaggedMutant(lanes) == Waiting(lanes)     \* the running turn is not told
Flagged(lanes) == Waiting(lanes) \union {running[s] : s \in lanes}

EmptiedMutant(lanes) == queue              \* no queue.clear()
Emptied(lanes) == [s \in Sessions |-> IF s \in lanes THEN <<>> ELSE queue[s]]

StillPendingMutant(lanes) == pending_total \* the counter is left alone
StillPending(lanes) == pending_total - Cardinality(Waiting(lanes))

DropLanes(lanes) ==
    /\ cancelled' = [t \in Turns |-> cancelled[t] \/ t \in Flagged(lanes)]
    /\ promise' = [t \in Turns |-> IF t \in Waiting(lanes) THEN Settle(t, "exception")
                                                           ELSE promise[t]]
    /\ pending_total' = StillPending(lanes)
    /\ queue' = Emptied(lanes)

CancelSession(s) ==
    /\ s \in sessions
    /\ DropLanes({s})
    /\ UNCHANGED <<sessions, running, scheduled, ready_sessions, next_turn_id,
                   stopping, lane, expired, state, workerVars, stopper>>

ShutdownBegin(c) ==
    /\ stopper[c] = "idle"
    /\ ~stopping
    /\ stopping' = TRUE
    /\ DropLanes(sessions)
    /\ stopper' = [stopper EXCEPT ![c] = "joining"]
    /\ UNCHANGED <<sessions, running, scheduled, ready_sessions, next_turn_id,
                   lane, expired, state, workerVars>>

WorkersJoined == \A w \in Workers : pc[w] = "exited"

ShutdownJoined(c) ==
    /\ stopper[c] = "joining"
    /\ WorkersJoined
    /\ stopper' = [stopper EXCEPT ![c] = "joined"]
    /\ UNCHANGED <<laneVars, next_turn_id, stopping, turnVars, workerVars>>

\* A later call (another thread's, or the destructor's after an explicit shutdown)
\* returns at once, whether or not the workers have ended.
ShutdownAgain(c) ==
    /\ stopper[c] \in {"idle", "joined"}
    /\ stopping
    /\ stopper' = [stopper EXCEPT ![c] = "returned"]
    /\ UNCHANGED <<laneVars, next_turn_id, stopping, turnVars, workerVars>>

-----------------------------------------------------------------------------
(* worker_loop, first locked block: wait, then take the next lane.         *)

Leaves == "exited"

WorkerExit(w) ==
    /\ pc[w] = "idle"
    /\ stopping /\ ready_sessions = <<>>
    /\ pc' = [pc EXCEPT ![w] = Leaves]
    /\ UNCHANGED <<laneVars, next_turn_id, stopping, turnVars, work, stopper>>

PopReady == /\ ready_sessions' = Tail(ready_sessions)
            /\ scheduled' = [scheduled EXCEPT ![Head(ready_sessions)] = FALSE]

\* A cancelled lane: nothing to run, its entry stays in sessions_.
WorkerSkip(w) ==
    /\ pc[w] = "idle"
    /\ ready_sessions # <<>>
    /\ queue[Head(ready_sessions)] = <<>>
    /\ PopReady
    /\ UNCHANGED <<sessions, queue, running, pending_total, next_turn_id,
                   stopping, turnVars, workerVars, stopper>>

WorkerTake(w) ==
    /\ pc[w] = "idle"
    /\ ready_sessions # <<>>
    /\ LET s == Head(ready_sessions) IN
          /\ queue[s] # <<>>
          /\ work' = [work EXCEPT ![w] = Head(queue[s])]
          /\ queue' = [queue EXCEPT ![s] = Tail(@)]
          /\ running' = [running EXCEPT ![s] = Head(queue[s])]
    /\ PopReady
    /\ pending_total' = pending_total - 1
    /\ pc' = [pc EXCEPT ![w] = "begin"]
    /\ UNCHANGED <<sessions, next_turn_id, stopping, turnVars, stopper>>

-----------------------------------------------------------------------------
(* worker_loop between the locks.  The task is the caller's: it may return *)
(* or throw, now or later, whatever its token says.                        *)

WorkerBegin(w) ==
    /\ pc[w] = "begin"
    /\ cancelled' = [cancelled EXCEPT ![work[w]] = @ \/ expired[work[w]]]
    /\ state' = [state EXCEPT ![work[w]] = "Running"]
    /\ pc' = [pc EXCEPT ![w] = "task"]
    /\ UNCHANGED <<laneVars, next_turn_id, stopping, lane, expired, promise,
                   work, stopper>>

\* The task returns: set_value, and only then the Completed state.
TaskReturns(w) ==
    /\ pc[w] = "task"
    /\ promise' = [promise EXCEPT ![work[w]] = Settle(work[w], "value")]
    /\ pc' = [pc EXCEPT ![w] = "valued"]
    /\ UNCHANGED <<laneVars, next_turn_id, stopping, lane, cancelled, expired,
                   state, work, stopper>>

MarkCompleted(w) ==
    /\ pc[w] = "valued"
    /\ state' = [state EXCEPT ![work[w]] = "Completed"]
    /\ pc' = [pc EXCEPT ![w] = "finish"]
    /\ UNCHANGED <<laneVars, next_turn_id, stopping, lane, cancelled, expired,
                   promise, work, stopper>>

\* The task throws: the terminal state first, then set_exception.
FailureState(t) == IF expired[t] THEN "TimedOut"
                   ELSE IF cancelled[t] THEN "Cancelled" ELSE "Failed"

TaskThrows(w) ==
    /\ pc[w] = "task"
    /\ state' = [state EXCEPT ![work[w]] = FailureState(work[w])]
    /\ pc' = [pc EXCEPT ![w] = "thrown"]
    /\ UNCHANGED <<laneVars, next_turn_id, stopping, lane, cancelled, expired,
                   promise, work, stopper>>

SetException(w) ==
    /\ pc[w] = "thrown"
    /\ promise' = [promise EXCEPT ![work[w]] = Settle(work[w], "exception")]
    /\ pc' = [pc EXCEPT ![w] = "finish"]
    /\ UNCHANGED <<laneVars, next_turn_id, stopping, lane, cancelled, expired,
                   state, work, stopper>>

(* worker_loop, second locked block: the lane is handed back, or its entry *)
(* is erased.                                                              *)
GoesOnMutant(s) == FALSE                   \* the lane is not made ready again
GoesOn(s) == queue[s] # <<>> /\ ~stopping

Kept(s) == IF queue[s] = <<>> THEN sessions \ {s} ELSE sessions

WorkerFinish(w) ==
    /\ pc[w] = "finish"
    /\ LET s == lane[work[w]] IN
          /\ running' = [running EXCEPT ![s] = NoTurn]
          /\ IF GoesOn(s)
                THEN MakeReady(s)
                ELSE UNCHANGED <<scheduled, ready_sessions>>
          /\ sessions' = Kept(s)
    /\ work' = [work EXCEPT ![w] = NoTurn]
    /\ pc' = [pc EXCEPT ![w] = "idle"]
    /\ UNCHANGED <<queue, pending_total, next_turn_id, stopping, turnVars, stopper>>

-----------------------------------------------------------------------------
Client == \/ \E s \in Sessions : Submit(s) \/ SubmitOverloaded(s) \/ CancelSession(s)
          \/ \E c \in Stoppers : ShutdownBegin(c) \/ ShutdownAgain(c)
Clock  == \E t \in Turns : Expire(t)
Runs(w) == \/ WorkerExit(w) \/ WorkerSkip(w) \/ WorkerTake(w) \/ WorkerBegin(w)
           \/ MarkCompleted(w) \/ SetException(w) \/ WorkerFinish(w)
TaskEnds(w) == TaskReturns(w) \/ TaskThrows(w)

\* Every shutdown() has returned and every worker is gone.
Stopped == /\ \A c \in Stoppers : stopper[c] \in {"joined", "returned"}
           /\ \A w \in Workers : pc[w] = "exited"
           /\ UNCHANGED vars

Next == \/ Client
        \/ Clock
        \/ \E w \in Workers : Runs(w) \/ TaskEnds(w)
        \/ \E c \in Stoppers : ShutdownJoined(c)
        \/ Stopped

Spec == Init /\ [][Next]_vars

\* The operating system schedules every worker, the joining thread returns
\* once the workers have ended, and a task handed to the executor returns.
Fairness == /\ \A w \in Workers : WF_vars(Runs(w)) /\ WF_vars(TaskEnds(w))
            /\ \A c \in Stoppers : WF_vars(ShutdownJoined(c))
FairSpec == Spec /\ Fairness

-----------------------------------------------------------------------------
(* Properties.                                                             *)

TypeOK ==
    /\ sessions \subseteq Sessions
    /\ queue \in [Sessions -> Seq(Turns)]
    /\ running \in [Sessions -> Turns \union {NoTurn}]
    /\ scheduled \in [Sessions -> BOOLEAN]
    /\ ready_sessions \in Seq(Sessions)
    /\ next_turn_id \in 1..(MaxTurns + 1)
    /\ pending_total \in Int
    /\ stopping \in BOOLEAN
    /\ lane \in [Turns -> Sessions \union {NoSession}]
    /\ cancelled \in [Turns -> BOOLEAN]
    /\ expired \in [Turns -> BOOLEAN]
    /\ state \in [Turns -> TurnStates]
    /\ promise \in [Turns -> {"none", "pending"} \union Resolved]
    /\ pc \in [Workers -> {"idle", "exited"} \union Busy]
    /\ work \in [Workers -> Turns \union {NoTurn}]
    /\ stopper \in [Stoppers -> {"idle", "joining", "joined", "returned"}]

Held(t) == \E w \in Workers : work[w] = t

\* No future is settled twice: a cancel or a shutdown that fails the waiting
\* turns of a lane never meets a worker that already owns one of them, so
\* neither set_value nor set_exception throws out of a worker thread.
PromiseOnce == \A t \in Turns : promise[t] # "double"

\* The turns of a session run in the order of submission and never overlap:
\* once a turn has been taken, every earlier turn of its session is settled
\* and off its worker; and one turn is never on two workers.
LaneOrder ==
    /\ \A t, u \in Turns :
          /\ u < t
          /\ lane[u] = lane[t]
          /\ promise[u] # "none"
          /\ Held(t) \/ state[t] # "Queued"
          => promise[u] \in Resolved /\ ~Held(u)
    /\ \A v, w \in Workers : work[v] = work[w] /\ work[v] # NoTurn => v = w

\* ready_sessions_, scheduled and running agree, whatever was cancelled in
\* between: sessions_.at never throws in a worker, a lane is queued at most
\* once and never while it runs, and no waiting turn is left in a lane that
\* nobody will look at again.
LaneIndexed ==
    /\ \A s \in Sessions : scheduled[s] <=> s \in Elements(ready_sessions)
    /\ \A i, j \in 1..Len(ready_sessions) :
          ready_sessions[i] = ready_sessions[j] => i = j
    /\ Elements(ready_sessions) \subseteq sessions
    /\ \A s \in Sessions : running[s] # NoTurn => s \in sessions /\ ~scheduled[s]
    /\ \A w \in Workers : work[w] # NoTurn => running[lane[work[w]]] = work[w]
    /\ \A s \in Sessions :
          queue[s] # <<>> => s \in sessions /\ (scheduled[s] \/ running[s] # NoTurn)

\* pending_total_ counts exactly the waiting turns, so the executor's limit
\* neither leaks capacity on a cancel nor wraps below zero, and both limits hold.
PendingAccounting ==
    /\ pending_total = Cardinality({si \in Sessions \X Turns : si[2] <= Len(queue[si[1]])})
    /\ pending_total <= MaxPendingTotal
    /\ \A s \in Sessions : Len(queue[s]) <= MaxPendingPerSession

\* After shutdown() has begun no task runs, or starts, with a token that does
\* not say cancelled: also the task whose worker sits between taking it and
\* calling it.
StopReachesEveryTurn ==
    stopping => \A t \in Turns : promise[t] = "pending" => cancelled[t]

\* When the call of shutdown() that joins returns, every future handed out is
\* ready and no lane holds a turn.
JoinedMeansQuiet ==
    (\E c \in Stoppers : stopper[c] = "joined") =>
        /\ \A t \in Turns : promise[t] # "pending"
        /\ \A s \in Sessions : queue[s] = <<>> /\ running[s] = NoTurn
        /\ ready_sessions = <<>>

\* The refinement mapping to TurnLanes: a turn is active while a worker owns it
\* and its future is not ready.
Phase(t) == CASE promise[t] = "none" -> "unused"
              [] promise[t] = "pending" /\ ~Held(t) -> "waiting"
              [] promise[t] = "pending" /\ Held(t) -> "active"
              [] promise[t] \in Resolved /\ Held(t) -> "settled"
              [] promise[t] \in Resolved /\ ~Held(t) -> "over"

Lanes == INSTANCE TurnLanes WITH owner <- lane, phase <- [t \in Turns |-> Phase(t)]

\* The executor implements the per-session FIFO contract.
ImplementsTurnLanes == Lanes!Spec

\* Every accepted turn's future becomes ready: no lane is forgotten when
\* cancels, finishes and submissions cross, and none starves.
EveryTurnResolves ==
    \A t \in Turns : promise[t] = "pending" ~> promise[t] \in Resolved

\* The call of shutdown() that joins returns: workers drain the lanes that are
\* still ready and leave.
ShutdownCompletes ==
    \A c \in Stoppers : stopper[c] = "joining" ~> stopper[c] = "joined"

\* Nothing waits for ever on the executor: every accepted turn's future becomes
\* ready and shutdown() returns.
Progress == EveryTurnResolves /\ ShutdownCompletes

=============================================================================
