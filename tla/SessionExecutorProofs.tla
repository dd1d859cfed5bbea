------------------------ MODULE SessionExecutorProofs ------------------------
(***************************************************************************)
(* Theorems about SessionExecutor, for any number of sessions, workers,    *)
(* turns and any queue limits.                                             *)
(***************************************************************************)
EXTENDS SessionExecutor, FiniteSetTheorems, FunctionTheorems, TLAPS

-----------------------------------------------------------------------------
(* The queue operations, seen as sets of elements.                         *)

LEMMA AppendElements ==
  ASSUME NEW S, NEW q \in Seq(S), NEW e \in S
  PROVE  /\ Elements(Append(q, e)) = Elements(q) \union {e}
         /\ Append(q, e) \in Seq(S)
         /\ Append(q, e) # <<>>
  BY DEF Elements

LEMMA HeadTailElements ==
  ASSUME NEW S, NEW q \in Seq(S), q # <<>>
  PROVE  /\ Elements(q) = {Head(q)} \union Elements(Tail(q))
         /\ Head(q) \in S
         /\ Tail(q) \in Seq(S)
  BY DEF Elements

LEMMA ElementsType ==
  ASSUME NEW S, NEW q \in Seq(S)
  PROVE  Elements(q) \subseteq S
  BY DEF Elements

LEMMA EmptyElements ==
  ASSUME NEW S, NEW q \in Seq(S)
  PROVE  Elements(q) = {} <=> q = <<>>
<1>1. q = <<>> => Elements(q) = {}
  BY DEF Elements
<1>2. q # <<>> => q[1] \in Elements(q)
  BY DEF Elements
<1> QED
  BY <1>1, <1>2

\* What cancel_session and shutdown subtract from pending_total_ is a number.
LEMMA WaitingCount ==
  ASSUME TypeOK, NEW lanes \in SUBSET Sessions
  PROVE  /\ Waiting(lanes) \subseteq Turns
         /\ Cardinality(Waiting(lanes)) \in Nat
<1>1. Waiting(lanes) \subseteq Turns
  BY ElementsType DEF TypeOK, Waiting
<1>2. IsFiniteSet(Turns)
  BY FS_Interval, BoundAssumption DEF Turns
<1>3. IsFiniteSet(Waiting(lanes))
  BY <1>1, <1>2, FS_Subset
<1> QED
  BY <1>1, <1>3, FS_CardinalityType

-----------------------------------------------------------------------------
(***************************************************************************)
(* The inductive invariant.  Beside the properties to be shown it says who *)
(* owns a turn: a waiting turn is in the queue of its lane and nowhere     *)
(* else, a taken one is the running turn of its lane and of one worker,    *)
(* and its future is open exactly until that worker settles it.            *)
(***************************************************************************)

\* A busy worker's turn is the running turn of the lane it was taken from.
WorkerOwns ==
    \A w \in Workers :
        IF pc[w] \in Busy
           THEN /\ work[w] \in Turns
                /\ lane[work[w]] \in Sessions
                /\ running[lane[work[w]]] = work[w]
           ELSE work[w] = NoTurn

\* The future is open until the worker settles it.
WorkerSettles ==
    \A w \in Workers :
        /\ pc[w] \in {"begin", "task", "thrown"} => promise[work[w]] = "pending"
        /\ pc[w] \in {"valued", "finish"} => promise[work[w]] \in {"value", "exception"}

RunningOwned ==
    \A s \in Sessions : running[s] # NoTurn =>
        lane[running[s]] = s /\ \E w \in Workers : work[w] = running[s]

\* A waiting turn is untouched.
QueueFresh ==
    \A s \in Sessions : \A t \in Elements(queue[s]) :
        lane[t] = s /\ promise[t] = "pending" /\ state[t] = "Queued" /\ ~Held(t)

QueueSorted ==
    \A s \in Sessions : \A i, j \in 1..Len(queue[s]) :
        i < j => queue[s][i] < queue[s][j]

\* An open future has an owner: its lane's queue or its lane's worker.
PendingPlaced ==
    \A t \in Turns : promise[t] = "pending" =>
        /\ lane[t] \in Sessions
        /\ t \in Elements(queue[lane[t]]) \/ running[lane[t]] = t

Unborn ==
    \A t \in Turns :
        /\ next_turn_id <= t => promise[t] = "none"
        /\ promise[t] = "none" => state[t] = "Queued"

\* Once stopping_ is set no lane fills again, and a worker leaves the pool
\* only when no lane is ready.
StopFinal ==
    /\ stopping => \A s \in Sessions : queue[s] = <<>>
    /\ \A w \in Workers : pc[w] = "exited" => stopping /\ ready_sessions = <<>>
    /\ \A c \in Stoppers : stopper[c] = "joined" => \A w \in Workers : pc[w] = "exited"

LaneInv == /\ WorkerOwns /\ WorkerSettles /\ RunningOwned
           /\ QueueFresh /\ QueueSorted /\ PendingPlaced /\ Unborn
           /\ LaneIndexed

IInv == TypeOK /\ LaneInv /\ PromiseOnce /\ LaneOrder
        /\ StopReachesEveryTurn /\ StopFinal

-----------------------------------------------------------------------------
LEMMA TypeInit == Init => TypeOK
<1> SUFFICES ASSUME Init PROVE TypeOK
  OBVIOUS
<1>1. queue \in [Sessions -> Seq(Turns)] /\ ready_sessions \in Seq(Sessions)
  BY DEF Init
<1>2. next_turn_id \in 1..(MaxTurns + 1)
  BY BoundAssumption DEF Init, FirstTurnId
<1>3. pending_total \in Int /\ sessions \subseteq Sessions
  BY DEF Init
<1> QED
  BY <1>1, <1>2, <1>3 DEF Init, TypeOK, TurnStates, NoTurn

LEMMA TypeDrop ==
  ASSUME TypeOK, NEW lanes \in SUBSET Sessions, DropLanes(lanes)
  PROVE  /\ cancelled' \in [Turns -> BOOLEAN]
         /\ promise' \in [Turns -> {"none", "pending"} \union Resolved]
         /\ pending_total' \in Int
         /\ queue' \in [Sessions -> Seq(Turns)]
<1>1. cancelled' \in [Turns -> BOOLEAN]
  BY DEF TypeOK, DropLanes
<1>2. promise' \in [Turns -> {"none", "pending"} \union Resolved]
  BY DEF TypeOK, DropLanes, Settle, Resolved
<1>3. pending_total' \in Int
  BY WaitingCount DEF TypeOK, DropLanes, StillPending
<1>4. queue' \in [Sessions -> Seq(Turns)]
  BY DEF TypeOK, DropLanes, Emptied
<1> QED
  BY <1>1, <1>2, <1>3, <1>4

LEMMA TypeNext == TypeOK /\ WorkerOwns /\ [Next]_vars => TypeOK'
<1> SUFFICES ASSUME TypeOK, WorkerOwns, [Next]_vars PROVE TypeOK'
  OBVIOUS
<1> USE BoundAssumption
<1>1. ASSUME NEW s \in Sessions, Submit(s) PROVE TypeOK'
  <2>1. PushBack(s, next_turn_id) \in Seq(Turns)
    BY <1>1, AppendElements DEF TypeOK, Submit, PushBack
  <2>2. Append(ready_sessions, s) \in Seq(Sessions)
    BY <1>1, AppendElements DEF TypeOK
  <2>3. /\ scheduled' \in [Sessions -> BOOLEAN]
        /\ ready_sessions' \in Seq(Sessions)
    BY <1>1, <2>2 DEF TypeOK, Submit, MakeReady
  <2>4. /\ next_turn_id' \in 1..(MaxTurns + 1)
        /\ pending_total' \in Int
    BY <1>1 DEF TypeOK, Submit, Turns
  <2>5. /\ queue' \in [Sessions -> Seq(Turns)]
        /\ lane' \in [Turns -> Sessions \union {NoSession}]
        /\ promise' \in [Turns -> {"none", "pending"} \union Resolved]
    BY <1>1, <2>1 DEF TypeOK, Submit
  <2> QED
    BY <1>1, <2>3, <2>4, <2>5 DEF TypeOK, Submit, workerVars
<1>2. ASSUME NEW s \in Sessions, SubmitOverloaded(s) PROVE TypeOK'
  BY <1>2 DEF TypeOK, SubmitOverloaded, laneVars, turnVars, workerVars, Turns
<1>3. ASSUME NEW s \in Sessions, CancelSession(s) PROVE TypeOK'
  BY <1>3, TypeDrop DEF TypeOK, CancelSession, workerVars
<1>4. ASSUME NEW c \in Stoppers, ShutdownBegin(c) PROVE TypeOK'
  BY <1>4, TypeDrop DEF TypeOK, ShutdownBegin, workerVars
<1>5. ASSUME NEW c \in Stoppers, ShutdownAgain(c) \/ ShutdownJoined(c) PROVE TypeOK'
  BY <1>5 DEF TypeOK, ShutdownAgain, ShutdownJoined, laneVars, turnVars, workerVars
<1>6. ASSUME NEW t \in Turns, Expire(t) PROVE TypeOK'
  BY <1>6 DEF TypeOK, Expire, laneVars, workerVars
<1>7. ASSUME NEW w \in Workers, WorkerExit(w) PROVE TypeOK'
  BY <1>7 DEF TypeOK, WorkerExit, Leaves, laneVars, turnVars
<1>8. ASSUME NEW w \in Workers, WorkerSkip(w) PROVE TypeOK'
  BY <1>8, HeadTailElements DEF TypeOK, WorkerSkip, PopReady, turnVars, workerVars
<1>9. ASSUME NEW w \in Workers, WorkerTake(w) PROVE TypeOK'
  <2>1. Head(ready_sessions) \in Sessions /\ Tail(ready_sessions) \in Seq(Sessions)
    BY <1>9, HeadTailElements DEF TypeOK, WorkerTake
  <2>2. /\ Head(queue[Head(ready_sessions)]) \in Turns
        /\ Tail(queue[Head(ready_sessions)]) \in Seq(Turns)
    BY <1>9, <2>1, HeadTailElements DEF TypeOK, WorkerTake
  <2> QED
    BY <1>9, <2>1, <2>2 DEF TypeOK, WorkerTake, PopReady, turnVars, Busy
<1>10. ASSUME NEW w \in Workers, WorkerBegin(w) \/ MarkCompleted(w) PROVE TypeOK'
  <2>1. cancelled' \in [Turns -> BOOLEAN]
    BY <1>10 DEF TypeOK, WorkerBegin, MarkCompleted
  <2> QED
    BY <1>10, <2>1
       DEF TypeOK, WorkerBegin, MarkCompleted, laneVars, Busy, TurnStates
<1>11. ASSUME NEW w \in Workers, TaskReturns(w) \/ SetException(w) PROVE TypeOK'
  BY <1>11 DEF TypeOK, TaskReturns, SetException, Settle, laneVars, Busy, Resolved
<1>12. ASSUME NEW w \in Workers, TaskThrows(w) PROVE TypeOK'
  BY <1>12 DEF TypeOK, TaskThrows, FailureState, laneVars, Busy, TurnStates
<1>13. ASSUME NEW w \in Workers, WorkerFinish(w) PROVE TypeOK'
  <2>1. \A s \in Sessions : Append(ready_sessions, s) \in Seq(Sessions)
    BY AppendElements DEF TypeOK
  <2>2. running' \in [Sessions -> Turns \union {NoTurn}]
    BY <1>13 DEF TypeOK, WorkerFinish
  <2>3. sessions' \subseteq Sessions
    BY <1>13 DEF TypeOK, WorkerFinish, Kept
  <2>4. lane[work[w]] \in Sessions
    BY <1>13 DEF WorkerOwns, WorkerFinish, Busy
  <2>5. scheduled' \in [Sessions -> BOOLEAN] /\ ready_sessions' \in Seq(Sessions)
    BY <1>13, <2>1, <2>4 DEF TypeOK, WorkerFinish, MakeReady
  <2> QED
    BY <1>13, <2>2, <2>3, <2>5 DEF TypeOK, WorkerFinish, turnVars
<1>14. CASE UNCHANGED vars
  BY <1>14 DEF TypeOK, vars, laneVars, turnVars, workerVars
<1> QED
  BY <1>1, <1>2, <1>3, <1>4, <1>5, <1>6, <1>7, <1>8, <1>9, <1>10, <1>11, <1>12,
     <1>13, <1>14
     DEF Next, Client, Clock, Runs, TaskEnds, Stopped

LEMMA InvInit == Init => IInv
<1> SUFFICES ASSUME Init PROVE IInv
  OBVIOUS
<1>1. \A s \in Sessions : Elements(queue[s]) = {} /\ Len(queue[s]) = 0
  BY DEF Init, Elements
<1>2. Elements(ready_sessions) = {} /\ Len(ready_sessions) = 0
  BY DEF Init, Elements
<1>3. \A t \in Turns : ~Held(t)
  BY DEF Init, Held, Turns, NoTurn
<1>4. LaneInv
  BY <1>1, <1>2, <1>3
     DEF Init, LaneInv, WorkerOwns, WorkerSettles, RunningOwned, QueueFresh,
         QueueSorted, PendingPlaced, Unborn, LaneIndexed, Busy
<1>5. PromiseOnce /\ LaneOrder /\ StopReachesEveryTurn /\ StopFinal
  BY <1>3 DEF Init, PromiseOnce, LaneOrder, StopReachesEveryTurn, StopFinal
<1> QED
  BY <1>4, <1>5, TypeInit DEF IInv

-----------------------------------------------------------------------------
(* One lemma per action: the lane invariant, single settlement and order.  *)

Core == LaneInv /\ PromiseOnce /\ LaneOrder

\* A turn on a worker has been submitted.
LEMMA HeldNotNone ==
  ASSUME WorkerOwns, WorkerSettles, NEW t \in Turns, Held(t)
  PROVE  promise[t] # "none"
<1>1. PICK w \in Workers : work[w] = t
  BY DEF Held
<1>2. pc[w] \in Busy
  BY <1>1 DEF WorkerOwns, Turns, NoTurn
<1> QED
  BY <1>1, <1>2 DEF WorkerSettles, Busy

LEMMA SubmitCore ==
  ASSUME TypeOK, Core, NEW s \in Sessions, Submit(s)
  PROVE  Core'
<1> DEFINE n == next_turn_id
<1> USE DEF Core, LaneInv
<1>1. n \in Turns /\ promise[n] = "none" /\ state[n] = "Queued" /\ ~Held(n)
  <2>1. n \in Turns /\ promise[n] = "none" /\ state[n] = "Queued"
    BY DEF Submit, Unborn, Turns
  <2> QED
    BY <2>1, HeldNotNone
<1>2. /\ queue' = [queue EXCEPT ![s] = Append(queue[s], n)]
      /\ Elements(Append(queue[s], n)) = Elements(queue[s]) \union {n}
  BY <1>1, AppendElements DEF Submit, PushBack, TypeOK
<1>3. \A t \in Turns : t # n => promise'[t] = promise[t] /\ lane'[t] = lane[t]
  BY DEF Submit, TypeOK
<1>4. promise'[n] = "pending" /\ lane'[n] = s
  BY <1>1 DEF Submit, TypeOK
<1>5. \A t : Held(t)' <=> Held(t)
  BY DEF Submit, Held, workerVars
<1>6. \A w \in Workers : work[w] # n
  BY <1>1 DEF Held
<1>7. \A x \in Sessions : n \notin Elements(queue[x]) /\ running[x] # n
  BY <1>1 DEF QueueFresh, RunningOwned, Held, Turns, NoTurn
<1>8. WorkerOwns' /\ WorkerSettles'
  BY <1>3, <1>6 DEF WorkerOwns, WorkerSettles, Submit, workerVars, Busy
<1>9. RunningOwned'
  BY <1>3, <1>7 DEF RunningOwned, Submit, workerVars, TypeOK
<1>10. QueueFresh'
  <2> SUFFICES ASSUME NEW x \in Sessions, NEW t \in Elements(queue'[x])
               PROVE  (lane[t] = x /\ promise[t] = "pending" /\ state[t] = "Queued"
                       /\ ~Held(t))'
    BY DEF QueueFresh, Elements
  <2>1. CASE t = n
    <3>1. x = s
      BY <2>1, <1>2, <1>7 DEF TypeOK
    <3> QED
      BY <2>1, <3>1, <1>1, <1>4, <1>5 DEF Submit
  <2>2. CASE t # n
    <3>1. t \in Elements(queue[x])
      BY <2>2, <1>2 DEF TypeOK
    <3>2. t \in Turns
      BY <3>1, ElementsType DEF TypeOK
    <3> QED
      BY <2>2, <3>1, <3>2, <1>3, <1>5 DEF QueueFresh, Submit
  <2> QED
    BY <2>1, <2>2
<1>11. QueueSorted'
  <2>1. ASSUME NEW i \in 1..Len(queue[s]) PROVE queue[s][i] < n
    <3>1. queue[s][i] \in Elements(queue[s]) /\ queue[s][i] \in Turns
      BY DEF Elements, TypeOK
    <3>2. promise[queue[s][i]] # "none"
      BY <3>1 DEF QueueFresh
    <3> QED
      BY <3>1, <3>2 DEF Unborn, TypeOK, Turns
  <2>2. ASSUME NEW x \in Sessions, NEW i \in 1..Len(queue'[x]),
               NEW j \in 1..Len(queue'[x]), i < j
        PROVE  queue'[x][i] < queue'[x][j]
    <3>1. CASE x # s
      BY <2>2, <3>1, <1>2 DEF QueueSorted, TypeOK
    <3>2. CASE x = s
      <4>1. queue'[x] = Append(queue[s], n) /\ queue[s] \in Seq(Turns)
        BY <3>2, <1>2 DEF TypeOK
      <4>2. Len(queue'[x]) = Len(queue[s]) + 1 /\ i \in 1..Len(queue[s])
        BY <4>1, <2>2
      <4> QED
        BY <4>1, <4>2, <2>1, <2>2, <1>1, <3>2 DEF QueueSorted
    <3> QED
      BY <3>1, <3>2
  <2> QED
    BY <2>2 DEF QueueSorted
<1>12. PendingPlaced'
  BY <1>1, <1>2, <1>3, <1>4 DEF PendingPlaced, Submit, TypeOK
<1>13. Unborn'
  BY <1>1, <1>3, <1>4, BoundAssumption DEF Unborn, Submit, Turns, TypeOK
<1>14. LaneIndexed'
  <2>1. CASE AtRest(s)
    <3>0. MakeReady(s)
      BY <2>1 DEF Submit
    <3>1. /\ ready_sessions' = Append(ready_sessions, s)
          /\ Elements(ready_sessions') = Elements(ready_sessions) \union {s}
          /\ scheduled' = [scheduled EXCEPT ![s] = TRUE]
      BY <3>0, AppendElements DEF MakeReady, TypeOK
    <3>2. s \notin Elements(ready_sessions)
      BY <2>1 DEF AtRest, LaneIndexed
    <3>3. \A i, j \in 1..Len(ready_sessions') :
             ready_sessions'[i] = ready_sessions'[j] => i = j
      BY <3>1, <3>2 DEF LaneIndexed, Elements, TypeOK
    <3> QED
      BY <2>1, <3>1, <3>3, <1>2, <1>3, <1>6
         DEF LaneIndexed, Submit, AtRest, workerVars, TypeOK
  <2>2. CASE ~AtRest(s)
    <3>1. scheduled' = scheduled /\ ready_sessions' = ready_sessions
      BY <2>2 DEF Submit
    <3> QED
      BY <2>2, <3>1, <1>2, <1>3, <1>6
         DEF LaneIndexed, Submit, AtRest, workerVars, TypeOK
  <2> QED
    BY <2>1, <2>2
<1>15. PromiseOnce'
  BY <1>3, <1>4 DEF PromiseOnce
<1>16. LaneOrder'
  <2>1. ASSUME NEW t \in Turns, Held(t) \/ state[t] # "Queued"
        PROVE  t < n
    BY <2>1, HeldNotNone DEF Unborn, Turns, TypeOK
  <2> QED
    BY <2>1, <1>1, <1>3, <1>5 DEF LaneOrder, Submit, workerVars, Turns, TypeOK
<1> QED
  BY <1>8, <1>9, <1>10, <1>11, <1>12, <1>13, <1>14, <1>15, <1>16

\* cancel_session and shutdown settle waiting turns only, and only open ones.
LEMMA DropCore ==
  ASSUME TypeOK, Core, NEW lanes \in SUBSET Sessions, DropLanes(lanes),
         UNCHANGED <<sessions, running, scheduled, ready_sessions, next_turn_id,
                     lane, state, pc, work>>
  PROVE  Core'
<1> USE DEF Core, LaneInv
<1>1. \A t \in Waiting(lanes) :
         /\ t \in Turns /\ promise[t] = "pending" /\ ~Held(t)
         /\ lane[t] \in lanes /\ t \in Elements(queue[lane[t]])
  <2> SUFFICES ASSUME NEW t \in Waiting(lanes)
               PROVE  /\ t \in Turns /\ promise[t] = "pending" /\ ~Held(t)
                      /\ lane[t] \in lanes /\ t \in Elements(queue[lane[t]])
    OBVIOUS
  <2>1. PICK s \in lanes : t \in Elements(queue[s])
    BY DEF Waiting
  <2> QED
    BY <2>1, WaitingCount DEF QueueFresh
<1>2. \A t \in Turns : promise'[t] = IF t \in Waiting(lanes) THEN "exception"
                                                             ELSE promise[t]
  BY <1>1 DEF DropLanes, Settle
<1>3. \A s \in Sessions : queue'[s] = IF s \in lanes THEN <<>> ELSE queue[s]
  BY DEF DropLanes, Emptied
<1>4. \A t : Held(t)' <=> Held(t)
  BY DEF Held
<1>5. \A s \in Sessions : Elements(queue'[s]) = IF s \in lanes THEN {} ELSE Elements(queue[s])
  BY <1>3 DEF Elements
<1>6. WorkerOwns'
  BY DEF WorkerOwns
<1>7. WorkerSettles'
  <2>1. \A w \in Workers : pc[w] \in Busy =>
           work[w] \in Turns /\ work[w] \notin Waiting(lanes)
    BY <1>1 DEF WorkerOwns, Held
  <2> QED
    BY <2>1, <1>2 DEF WorkerSettles, Busy
<1>8. RunningOwned'
  BY DEF RunningOwned
<1>9. QueueFresh'
  <2> SUFFICES ASSUME NEW s \in Sessions, NEW t \in Elements(queue'[s])
               PROVE  (lane[t] = s /\ promise[t] = "pending" /\ state[t] = "Queued"
                       /\ ~Held(t))'
    BY DEF QueueFresh, Elements
  <2>1. s \notin lanes /\ t \in Elements(queue[s]) /\ t \in Turns
    BY <1>5, ElementsType DEF TypeOK
  <2>2. lane[t] = s /\ promise[t] = "pending" /\ state[t] = "Queued" /\ ~Held(t)
    BY <2>1 DEF QueueFresh
  <2>3. t \notin Waiting(lanes)
    BY <2>1, <2>2, <1>1
  <2> QED
    BY <2>1, <2>2, <2>3, <1>2, <1>4
<1>10. QueueSorted'
  BY <1>3 DEF QueueSorted
<1>11. PendingPlaced'
  <2> SUFFICES ASSUME NEW t \in Turns, promise'[t] = "pending"
               PROVE  /\ lane[t] \in Sessions
                      /\ t \in Elements(queue'[lane[t]]) \/ running[lane[t]] = t
    BY DEF PendingPlaced, Elements
  <2>1. promise[t] = "pending" /\ t \notin Waiting(lanes)
    BY <1>2
  <2>2. /\ lane[t] \in Sessions
        /\ t \in Elements(queue[lane[t]]) \/ running[lane[t]] = t
    BY <2>1 DEF PendingPlaced
  <2> QED
    BY <2>1, <2>2, <1>5 DEF Waiting
<1>12. Unborn'
  BY <1>1, <1>2 DEF Unborn
<1>13. LaneIndexed'
  BY <1>3 DEF LaneIndexed, Elements
<1>14. PromiseOnce'
  BY <1>2 DEF PromiseOnce
<1>15. LaneOrder'
  BY <1>1, <1>2, <1>4 DEF LaneOrder, Resolved
<1> QED
  BY <1>6, <1>7, <1>8, <1>9, <1>10, <1>11, <1>12, <1>13, <1>14, <1>15

\* Taking a lane off ready_sessions_.
LEMMA PopReadyFacts ==
  ASSUME TypeOK, LaneIndexed, ready_sessions # <<>>, PopReady
  PROVE  LET s == Head(ready_sessions) IN
         /\ s \in Sessions /\ s \in sessions /\ scheduled[s] /\ running[s] = NoTurn
         /\ Elements(ready_sessions') = Elements(ready_sessions) \ {s}
         /\ ready_sessions' \in Seq(Sessions)
         /\ \A i, j \in 1..Len(ready_sessions') :
               ready_sessions'[i] = ready_sessions'[j] => i = j
         /\ scheduled' = [scheduled EXCEPT ![s] = FALSE]
<1> DEFINE s == Head(ready_sessions)
<1>1. /\ Elements(ready_sessions) = {s} \union Elements(Tail(ready_sessions))
      /\ s \in Sessions /\ Tail(ready_sessions) \in Seq(Sessions)
  BY HeadTailElements DEF TypeOK
<1>2. ready_sessions' = Tail(ready_sessions)
  BY DEF PopReady
<1>3. s \notin Elements(Tail(ready_sessions))
  BY DEF LaneIndexed, Elements, TypeOK
<1>4. \A i, j \in 1..Len(Tail(ready_sessions)) :
         Tail(ready_sessions)[i] = Tail(ready_sessions)[j] => i = j
  BY DEF LaneIndexed, TypeOK
<1>5. s \in sessions /\ scheduled[s] /\ running[s] = NoTurn
  BY <1>1 DEF LaneIndexed
<1> QED
  BY <1>1, <1>2, <1>3, <1>4, <1>5 DEF PopReady

LEMMA SkipCore ==
  ASSUME TypeOK, Core, NEW w \in Workers, WorkerSkip(w)
  PROVE  Core'
<1> USE DEF Core, LaneInv
<1>1. /\ UNCHANGED <<sessions, queue, running, next_turn_id, turnVars, pc, work>>
      /\ queue[Head(ready_sessions)] = <<>>
  BY DEF WorkerSkip, workerVars
<1>2. LaneIndexed'
  <2> DEFINE s == Head(ready_sessions)
  <2>1. /\ s \in Sessions /\ s \in sessions /\ scheduled[s] /\ running[s] = NoTurn
        /\ Elements(ready_sessions') = Elements(ready_sessions) \ {s}
        /\ \A i, j \in 1..Len(ready_sessions') :
              ready_sessions'[i] = ready_sessions'[j] => i = j
        /\ scheduled' = [scheduled EXCEPT ![s] = FALSE]
    BY PopReadyFacts DEF WorkerSkip
  <2> HIDE DEF s
  <2>2. scheduled \in [Sessions -> BOOLEAN] /\ queue[s] = <<>>
    BY <1>1 DEF TypeOK, s
  <2> QED
    BY <1>1, <2>1, <2>2 DEF LaneIndexed, turnVars
<1>3. /\ WorkerOwns' /\ WorkerSettles' /\ RunningOwned' /\ QueueFresh'
      /\ QueueSorted' /\ PendingPlaced' /\ Unborn' /\ PromiseOnce' /\ LaneOrder'
  <2>1. WorkerOwns' /\ WorkerSettles' /\ RunningOwned'
    BY <1>1 DEF WorkerOwns, WorkerSettles, RunningOwned, turnVars
  <2>2. QueueFresh' /\ QueueSorted' /\ PendingPlaced'
    BY <1>1 DEF QueueFresh, QueueSorted, PendingPlaced, Held, turnVars, Elements
  <2>3. Unborn' /\ PromiseOnce' /\ LaneOrder'
    BY <1>1 DEF Unborn, PromiseOnce, LaneOrder, Held, turnVars
  <2> QED
    BY <2>1, <2>2, <2>3
<1> QED
  BY <1>2, <1>3

LEMMA TakeCore ==
  ASSUME TypeOK, Core, NEW w \in Workers, WorkerTake(w)
  PROVE  Core'
<1> USE DEF Core, LaneInv
<1> DEFINE s == Head(ready_sessions)
           t == Head(queue[s])
<1>1. /\ s \in Sessions /\ s \in sessions /\ scheduled[s] /\ running[s] = NoTurn
      /\ Elements(ready_sessions') = Elements(ready_sessions) \ {s}
      /\ \A i, j \in 1..Len(ready_sessions') :
            ready_sessions'[i] = ready_sessions'[j] => i = j
      /\ scheduled' = [scheduled EXCEPT ![s] = FALSE]
  BY PopReadyFacts DEF WorkerTake
<1>2. /\ queue[s] # <<>>
      /\ work' = [work EXCEPT ![w] = t]
      /\ queue' = [queue EXCEPT ![s] = Tail(queue[s])]
      /\ running' = [running EXCEPT ![s] = t]
      /\ pc' = [pc EXCEPT ![w] = "begin"]
      /\ pc[w] = "idle"
      /\ UNCHANGED <<sessions, next_turn_id, turnVars>>
  BY DEF WorkerTake
<1>3. /\ queue \in [Sessions -> Seq(Turns)] /\ work \in [Workers -> Turns \union {NoTurn}]
      /\ running \in [Sessions -> Turns \union {NoTurn}]
      /\ scheduled \in [Sessions -> BOOLEAN]
      /\ pc \in [Workers -> {"idle", "exited"} \union Busy]
  BY DEF TypeOK
<1>4. /\ Elements(queue[s]) = {t} \union Elements(Tail(queue[s]))
      /\ t \in Turns /\ t \in Elements(queue[s])
      /\ Tail(queue[s]) \in Seq(Turns)
  BY <1>1, <1>2, <1>3, HeadTailElements
<1>5. \A u \in Elements(Tail(queue[s])) : t < u
  <2>1. \A i \in 1..Len(Tail(queue[s])) :
           /\ Tail(queue[s])[i] = queue[s][i+1]
           /\ i + 1 \in 1..Len(queue[s]) /\ 1 \in 1..Len(queue[s]) /\ 1 < i + 1
    BY <1>1, <1>2, <1>3
  <2>2. t = queue[s][1]
    BY <1>1, <1>2, <1>3
  <2> QED
    BY <1>1, <2>1, <2>2 DEF QueueSorted, Elements
<1> HIDE DEF s, t
<1>6. lane[t] = s /\ promise[t] = "pending" /\ state[t] = "Queued" /\ ~Held(t)
  BY <1>1, <1>4 DEF QueueFresh
<1>7. t # NoTurn /\ work[w] = NoTurn
  <2>1. work[w] = NoTurn
    BY <1>2 DEF WorkerOwns, Busy
  <2>2. t # NoTurn
    BY <1>4 DEF Turns, NoTurn
  <2> QED
    BY <2>1, <2>2
<1>8. \A u \in Turns : Held(u)' <=> Held(u) \/ u = t
  BY <1>2, <1>3, <1>7 DEF Held, Turns, NoTurn
<1>9. WorkerOwns'
  BY <1>1, <1>2, <1>3, <1>4, <1>6 DEF WorkerOwns, turnVars, Busy, NoTurn, Turns
<1>10. WorkerSettles'
  BY <1>2, <1>3, <1>6 DEF WorkerSettles, turnVars
<1>11. RunningOwned'
  BY <1>1, <1>2, <1>3, <1>6, <1>7 DEF RunningOwned, turnVars
<1>12. QueueFresh'
  <2> SUFFICES ASSUME NEW x \in Sessions, NEW u \in Elements(queue'[x])
               PROVE  (lane[u] = x /\ promise[u] = "pending" /\ state[u] = "Queued"
                       /\ ~Held(u))'
    BY DEF QueueFresh, Elements
  <2>1. u \in Elements(queue[x]) /\ u # t
    <3>1. CASE x = s
      BY <3>1, <1>2, <1>3, <1>4, <1>5, ElementsType DEF Turns
    <3>2. CASE x # s
      BY <3>2, <1>2, <1>3, <1>6 DEF QueueFresh
    <3> QED
      BY <3>1, <3>2
  <2>2. u \in Turns
    BY <2>1, <1>3, ElementsType
  <2> QED
    BY <2>1, <2>2, <1>2, <1>8 DEF QueueFresh, turnVars
<1>13. QueueSorted'
  <2>1. \A i \in 1..Len(Tail(queue[s])) :
           Tail(queue[s])[i] = queue[s][i+1] /\ i + 1 \in 1..Len(queue[s])
    BY <1>1, <1>2, <1>3
  <2> QED
    BY <2>1, <1>1, <1>2, <1>3 DEF QueueSorted
<1>14. PendingPlaced'
  <2> SUFFICES ASSUME NEW u \in Turns, promise[u] = "pending"
               PROVE  /\ lane[u] \in Sessions
                      /\ u \in Elements(queue'[lane[u]]) \/ running'[lane[u]] = u
    BY <1>2 DEF PendingPlaced, Elements, turnVars
  <2>1. /\ lane[u] \in Sessions
        /\ u \in Elements(queue[lane[u]]) \/ running[lane[u]] = u
    BY DEF PendingPlaced
  <2> QED
    BY <2>1, <1>1, <1>2, <1>3, <1>4 DEF Turns, NoTurn
<1>15. Unborn'
  BY <1>2 DEF Unborn, turnVars
<1>16. LaneIndexed'
  <2>1. \A x \in Sessions : queue'[x] # <<>> => queue[x] # <<>>
    BY <1>1, <1>2, <1>3
  <2>2. \A x \in Sessions : running'[x] = IF x = s THEN t ELSE running[x]
    BY <1>2, <1>3
  <2>3. \A v \in Workers : work'[v] # NoTurn => running'[lane'[work'[v]]] = work'[v]
    BY <1>9 DEF WorkerOwns
  <2> QED
    BY <1>1, <1>2, <1>3, <1>7, <2>1, <2>2, <2>3 DEF LaneIndexed
<1>17. PromiseOnce'
  BY <1>2 DEF PromiseOnce, turnVars
<1>18. LaneOrder'
  <2>1. ASSUME NEW u \in Turns, u < t, lane[u] = s, promise[u] # "none"
        PROVE  promise[u] \in Resolved /\ ~Held(u)
    <3>1. u \notin Elements(queue[s]) /\ u # NoTurn
      BY <2>1, <1>4, <1>5 DEF Turns, NoTurn
    <3>2. promise[u] # "pending"
      BY <2>1, <3>1, <1>1 DEF PendingPlaced
    <3>3. ~Held(u)
      BY <2>1, <3>1, <1>1 DEF LaneIndexed, Held
    <3> QED
      BY <2>1, <3>2, <3>3 DEF TypeOK
  <2>2. \A v, x \in Workers : work'[v] = work'[x] /\ work'[v] # NoTurn => v = x
    BY <1>2, <1>3, <1>6 DEF LaneOrder, Held
  <2>3. \A u \in Turns : promise[t] \notin Resolved
    BY <1>6 DEF Resolved
  <2>4. ASSUME NEW x \in Turns, NEW u \in Turns, u < x, lane[u] = lane[x],
               promise[u] # "none", Held(x)' \/ state[x] # "Queued"
        PROVE  promise[u] \in Resolved /\ ~Held(u)'
    <3>1. CASE x = t
      BY <3>1, <2>1, <2>4, <1>4, <1>6, <1>8 DEF Turns
    <3>2. CASE x # t
      <4>1. Held(x) \/ state[x] # "Queued"
        BY <2>4, <3>2, <1>8
      <4>2. promise[u] \in Resolved /\ ~Held(u)
        BY <2>4, <4>1 DEF LaneOrder
      <4> QED
        BY <4>2, <2>3, <1>8
    <3> QED
      BY <3>1, <3>2
  <2> QED
    BY <2>2, <2>4, <1>2 DEF LaneOrder, turnVars
<1> QED
  BY <1>9, <1>10, <1>11, <1>12, <1>13, <1>14, <1>15, <1>16, <1>17, <1>18

\* A worker moves its turn's state: the turn has been taken already.
LEMMA MarkCore ==
  ASSUME TypeOK, Core, NEW w \in Workers,
         WorkerBegin(w) \/ MarkCompleted(w) \/ TaskThrows(w)
  PROVE  Core'
<1> USE DEF Core, LaneInv
<1>1. /\ UNCHANGED <<sessions, queue, running, scheduled, ready_sessions,
                     next_turn_id, lane, promise, work>>
      /\ \A t \in Turns : t # work[w] => state'[t] = state[t]
      /\ pc[w] \in Busy
      /\ pc' \in [Workers -> {"idle", "exited"} \union Busy]
      /\ \A v \in Workers : v # w => pc'[v] = pc[v]
      /\ \/ pc[w] = "begin" /\ pc'[w] = "task"
         \/ pc[w] = "valued" /\ pc'[w] = "finish"
         \/ pc[w] = "task" /\ pc'[w] = "thrown"
  BY DEF TypeOK, WorkerBegin, MarkCompleted, TaskThrows, laneVars, Busy
<1>2. work[w] \in Turns /\ Held(work[w]) /\ promise[work[w]] # "none"
  BY <1>1, HeldNotNone DEF WorkerOwns, Held
<1>3. WorkerOwns' /\ WorkerSettles'
  BY <1>1 DEF WorkerOwns, WorkerSettles, Busy
<1>4. RunningOwned' /\ QueueSorted' /\ PendingPlaced' /\ LaneIndexed' /\ PromiseOnce'
  BY <1>1 DEF RunningOwned, QueueSorted, PendingPlaced, LaneIndexed, PromiseOnce, Elements
<1>5. QueueFresh' /\ Unborn'
  <2>1. \A s \in Sessions : \A t \in Elements(queue[s]) : t \in Turns /\ t # work[w]
    BY <1>2, ElementsType DEF QueueFresh, TypeOK
  <2> QED
    BY <1>1, <1>2, <2>1 DEF QueueFresh, Unborn, Held, Elements
<1>6. LaneOrder'
  BY <1>1, <1>2 DEF LaneOrder, Held
<1> QED
  BY <1>3, <1>4, <1>5, <1>6

\* A worker settles its turn's future, which is still open.
LEMMA SettleCore ==
  ASSUME TypeOK, Core, NEW w \in Workers, TaskReturns(w) \/ SetException(w)
  PROVE  Core'
<1> USE DEF Core, LaneInv
<1>1. /\ UNCHANGED <<sessions, queue, running, scheduled, ready_sessions,
                     next_turn_id, lane, state, work>>
      /\ \A t \in Turns : t # work[w] => promise'[t] = promise[t]
      /\ pc[w] \in {"task", "thrown"}
      /\ pc'[w] \in {"valued", "finish"}
      /\ \A v \in Workers : v # w => pc'[v] = pc[v]
  BY DEF TypeOK, TaskReturns, SetException, laneVars
<1>2. work[w] \in Turns /\ Held(work[w]) /\ promise[work[w]] = "pending"
  BY <1>1 DEF WorkerOwns, WorkerSettles, Held, Busy
<1>3. promise'[work[w]] \in {"value", "exception"}
  BY <1>2 DEF TaskReturns, SetException, Settle, TypeOK
<1>4. \A v \in Workers : v # w /\ pc[v] \in Busy => work[v] # work[w] /\ work[v] \in Turns
  BY <1>2 DEF LaneOrder, WorkerOwns, Turns, NoTurn
<1>5. WorkerOwns' /\ WorkerSettles'
  BY <1>1, <1>3, <1>4 DEF WorkerOwns, WorkerSettles, Busy
<1>6. RunningOwned' /\ QueueSorted' /\ LaneIndexed'
  BY <1>1 DEF RunningOwned, QueueSorted, LaneIndexed, Elements
<1>7. PendingPlaced' /\ PromiseOnce'
  BY <1>1, <1>3 DEF PendingPlaced, PromiseOnce, Elements
<1>8. QueueFresh' /\ Unborn'
  <2>1. \A s \in Sessions : \A t \in Elements(queue[s]) : t \in Turns /\ t # work[w]
    BY <1>2, ElementsType DEF QueueFresh, TypeOK
  <2> QED
    BY <1>1, <1>2, <1>3, <2>1 DEF QueueFresh, Unborn, Held, Elements
<1>9. LaneOrder'
  BY <1>1, <1>2, <1>3 DEF LaneOrder, Held, Resolved
<1> QED
  BY <1>5, <1>6, <1>7, <1>8, <1>9

\* A worker hands its lane back.
LEMMA FinishCore ==
  ASSUME TypeOK, Core, NEW w \in Workers, WorkerFinish(w), StopFinal
  PROVE  Core'
<1> USE DEF Core, LaneInv
<1> DEFINE t == work[w]
           s == lane[t]
<1>1. /\ t \in Turns /\ s \in Sessions /\ running[s] = t /\ Held(t)
      /\ promise[t] \in {"value", "exception"}
  BY DEF WorkerFinish, WorkerOwns, WorkerSettles, Busy, Held
<1>2. /\ UNCHANGED <<queue, next_turn_id, turnVars>>
      /\ running' = [running EXCEPT ![s] = NoTurn]
      /\ work' = [work EXCEPT ![w] = NoTurn]
      /\ pc' = [pc EXCEPT ![w] = "idle"]
      /\ sessions' = IF queue[s] = <<>> THEN sessions \ {s} ELSE sessions
      /\ IF queue[s] # <<>> /\ ~stopping
            THEN MakeReady(s) ELSE UNCHANGED <<scheduled, ready_sessions>>
  BY DEF WorkerFinish, GoesOn, Kept
<1>3. /\ work \in [Workers -> Turns \union {NoTurn}]
      /\ running \in [Sessions -> Turns \union {NoTurn}]
      /\ scheduled \in [Sessions -> BOOLEAN]
      /\ ready_sessions \in Seq(Sessions)
      /\ pc \in [Workers -> {"idle", "exited"} \union Busy]
  BY DEF TypeOK
<1>4. \A v \in Workers : v # w /\ work[v] # NoTurn =>
         work[v] # t /\ lane[work[v]] # s /\ lane[work[v]] \in Sessions
  BY <1>1, <1>3 DEF LaneOrder, WorkerOwns, Turns, NoTurn
<1>5. t # NoTurn /\ (queue[s] # <<>> => ~stopping)
  BY <1>1 DEF StopFinal, Turns, NoTurn
<1> HIDE DEF t, s
<1>6. \A u \in Turns : Held(u)' <=> Held(u) /\ u # t
  BY <1>2, <1>3, <1>4 DEF Held, Turns, NoTurn, t
<1>7. WorkerOwns' /\ WorkerSettles'
  BY <1>2, <1>3, <1>4 DEF WorkerOwns, WorkerSettles, Busy, turnVars
<1>8. RunningOwned'
  <2>1. ASSUME NEW x \in Sessions, running'[x] # NoTurn
        PROVE  lane[running[x]] = x /\ running[x] = running'[x]
               /\ \E v \in Workers : work'[v] = running[x]
    <3>1. x # s /\ running'[x] = running[x]
      BY <1>1, <1>2, <1>3, <2>1
    <3>2. PICK v \in Workers : work[v] = running[x]
      BY <2>1, <3>1 DEF RunningOwned
    <3>3. lane[running[x]] = x
      BY <2>1, <3>1 DEF RunningOwned
    <3>4. v # w
      BY <3>1, <3>2, <3>3 DEF s, t
    <3> QED
      BY <1>2, <1>3, <3>1, <3>2, <3>3, <3>4
  <2> QED
    BY <1>2, <2>1 DEF RunningOwned, turnVars
<1>9. QueueFresh'
  BY <1>2, <1>6, ElementsType DEF QueueFresh, turnVars, Elements, TypeOK
<1>10. PendingPlaced'
  <2>1. \A u \in Turns : promise[u] = "pending" => u # t
    BY <1>1
  <2>2. \A u \in Turns : lane[u] \in Sessions /\ running[lane[u]] = u /\ u # t
           => running'[lane[u]] = u
    BY <1>1, <1>2, <1>3
  <2> QED
    BY <1>2, <2>1, <2>2 DEF PendingPlaced, Elements, turnVars
<1>11. QueueSorted' /\ Unborn' /\ PromiseOnce'
  BY <1>2 DEF QueueSorted, Unborn, PromiseOnce, turnVars
<1>12. LaneIndexed'
  <2>1. s \in sessions /\ ~scheduled[s] /\ s \notin Elements(ready_sessions)
    BY <1>1, <1>5 DEF LaneIndexed
  <2>2. \A v \in Workers : work'[v] # NoTurn => running'[lane'[work'[v]]] = work'[v]
    BY <1>7 DEF WorkerOwns
  <2>3. \A x \in Sessions : running'[x] # NoTurn => x # s /\ running[x] # NoTurn
    BY <1>1, <1>2, <1>3
  <2>4. \A x \in Sessions : x # s => running'[x] = running[x]
    BY <1>1, <1>2, <1>3
  <2>5. CASE queue[s] # <<>>
    <3>1. MakeReady(s) /\ sessions' = sessions
      BY <1>2, <1>5, <2>5
    <3>2. /\ ready_sessions' = Append(ready_sessions, s)
          /\ Elements(ready_sessions') = Elements(ready_sessions) \union {s}
          /\ scheduled' = [scheduled EXCEPT ![s] = TRUE]
      BY <3>1, <1>1, <1>3, AppendElements DEF MakeReady
    <3>3. \A i, j \in 1..Len(ready_sessions') :
             ready_sessions'[i] = ready_sessions'[j] => i = j
      BY <3>2, <2>1, <1>1, <1>3 DEF LaneIndexed, Elements
    <3> QED
      BY <1>1, <1>2, <1>3, <2>1, <2>2, <2>3, <2>4, <3>1, <3>2, <3>3 DEF LaneIndexed
  <2>6. CASE queue[s] = <<>>
    <3>1. sessions' = sessions \ {s} /\ UNCHANGED <<scheduled, ready_sessions>>
      BY <1>2, <2>6
    <3> QED
      BY <1>2, <2>1, <2>2, <2>3, <2>4, <2>6, <3>1 DEF LaneIndexed, Elements
  <2> QED
    BY <2>5, <2>6
<1>13. LaneOrder'
  <2>1. \A v, x \in Workers : work'[v] = work'[x] /\ work'[v] # NoTurn => v = x
    BY <1>2, <1>3 DEF LaneOrder
  <2> QED
    BY <1>2, <1>6, <2>1 DEF LaneOrder, turnVars
<1> QED
  BY <1>7, <1>8, <1>9, <1>10, <1>11, <1>12, <1>13

\* Steps that leave lanes, futures and ownership alone.
LEMMA IdleCore ==
  ASSUME Core, UNCHANGED <<sessions, queue, running, scheduled, ready_sessions,
                           lane, state, promise, work>>,
         next_turn_id' = next_turn_id \/ next_turn_id' = next_turn_id + 1,
         next_turn_id \in Nat,
         \A w \in Workers : pc'[w] # pc[w] => pc[w] = "idle" /\ pc'[w] = "exited"
  PROVE  Core'
<1> USE DEF Core, LaneInv
<1>1. WorkerOwns' /\ WorkerSettles'
  BY DEF WorkerOwns, WorkerSettles, Busy
<1>2. Unborn'
  BY DEF Unborn, Turns
<1>3. /\ RunningOwned' /\ QueueFresh' /\ QueueSorted' /\ PendingPlaced'
      /\ LaneIndexed' /\ PromiseOnce' /\ LaneOrder'
  BY DEF RunningOwned, QueueFresh, QueueSorted, PendingPlaced, LaneIndexed,
         PromiseOnce, LaneOrder, Held, Elements
<1> QED
  BY <1>1, <1>2, <1>3

LEMMA CoreNext == IInv /\ [Next]_vars => Core'
<1> SUFFICES ASSUME IInv, [Next]_vars PROVE Core'
  OBVIOUS
<1> USE DEF IInv
<1>0. Core /\ TypeOK /\ next_turn_id \in Nat
  BY DEF Core, TypeOK
<1>1. ASSUME NEW s \in Sessions, Submit(s) PROVE Core'
  BY <1>0, <1>1, SubmitCore
<1>2. ASSUME NEW s \in Sessions, SubmitOverloaded(s) PROVE Core'
  BY <1>0, <1>2, IdleCore DEF SubmitOverloaded, laneVars, turnVars, workerVars
<1>3. ASSUME NEW s \in Sessions, CancelSession(s) PROVE Core'
  BY <1>0, <1>3, DropCore DEF CancelSession, workerVars
<1>4. ASSUME NEW c \in Stoppers, ShutdownBegin(c) PROVE Core'
  BY <1>0, <1>4, DropCore DEF ShutdownBegin, workerVars, TypeOK
<1>5. ASSUME NEW c \in Stoppers, ShutdownAgain(c) \/ ShutdownJoined(c) PROVE Core'
  BY <1>0, <1>5, IdleCore
     DEF ShutdownAgain, ShutdownJoined, laneVars, turnVars, workerVars
<1>6. ASSUME NEW t \in Turns, Expire(t) PROVE Core'
  BY <1>0, <1>6, IdleCore DEF Expire, laneVars, workerVars
<1>7. ASSUME NEW w \in Workers, WorkerExit(w) PROVE Core'
  BY <1>0, <1>7, IdleCore DEF WorkerExit, Leaves, laneVars, turnVars, TypeOK
<1>8. ASSUME NEW w \in Workers, WorkerSkip(w) PROVE Core'
  BY <1>0, <1>8, SkipCore
<1>9. ASSUME NEW w \in Workers, WorkerTake(w) PROVE Core'
  BY <1>0, <1>9, TakeCore
<1>10. ASSUME NEW w \in Workers, WorkerBegin(w) \/ MarkCompleted(w) \/ TaskThrows(w)
       PROVE  Core'
  BY <1>0, <1>10, MarkCore
<1>11. ASSUME NEW w \in Workers, TaskReturns(w) \/ SetException(w) PROVE Core'
  BY <1>0, <1>11, SettleCore
<1>12. ASSUME NEW w \in Workers, WorkerFinish(w) PROVE Core'
  BY <1>0, <1>12, FinishCore
<1>13. CASE UNCHANGED vars
  BY <1>0, <1>13, IdleCore DEF vars, laneVars, turnVars, workerVars
<1> QED
  BY <1>1, <1>2, <1>3, <1>4, <1>5, <1>6, <1>7, <1>8, <1>9, <1>10, <1>11, <1>12, <1>13
     DEF Next, Client, Clock, Runs, TaskEnds, Stopped

\* shutdown() reaches every open turn, and nothing reopens a lane behind it.
LEMMA StopNext == IInv /\ [Next]_vars => StopReachesEveryTurn' /\ StopFinal'
<1> SUFFICES ASSUME IInv, [Next]_vars PROVE StopReachesEveryTurn' /\ StopFinal'
  OBVIOUS
<1> USE DEF IInv, LaneInv, StopReachesEveryTurn, StopFinal
<1>1. ASSUME NEW s \in Sessions, Submit(s) PROVE StopReachesEveryTurn' /\ StopFinal'
  BY <1>1 DEF Submit, workerVars
<1>2. ASSUME NEW s \in Sessions, CancelSession(s) PROVE StopReachesEveryTurn' /\ StopFinal'
  <2>1. \A t \in Turns : promise'[t] = "pending" => promise[t] = "pending"
    BY <1>2 DEF CancelSession, DropLanes, Settle
  <2>2. \A t \in Turns : cancelled[t] => cancelled'[t]
    BY <1>2 DEF CancelSession, DropLanes
  <2>3. \A x \in Sessions : queue[x] = <<>> => queue'[x] = <<>>
    BY <1>2 DEF CancelSession, DropLanes, Emptied
  <2> QED
    BY <1>2, <2>1, <2>2, <2>3 DEF CancelSession, workerVars
<1>3. ASSUME NEW c \in Stoppers, ShutdownBegin(c) PROVE StopReachesEveryTurn' /\ StopFinal'
  <2>1. ASSUME NEW t \in Turns, promise'[t] = "pending" PROVE cancelled'[t]
    <3>1. promise[t] = "pending"
      BY <1>3, <2>1 DEF ShutdownBegin, DropLanes, Settle
    <3>2. /\ lane[t] \in Sessions
          /\ t \in Elements(queue[lane[t]]) \/ running[lane[t]] = t
      BY <3>1 DEF PendingPlaced
    <3>3. lane[t] \in sessions
      BY <3>2, EmptyElements DEF LaneIndexed, TypeOK, Turns, NoTurn
    <3>4. t \in Flagged(sessions)
      BY <3>2, <3>3 DEF Flagged, Waiting
    <3> QED
      BY <1>3, <3>4 DEF ShutdownBegin, DropLanes
  <2>2. \A s \in Sessions : queue'[s] = <<>>
    BY <1>3 DEF ShutdownBegin, DropLanes, Emptied, LaneIndexed, TypeOK
  <2> QED
    BY <1>3, <2>1, <2>2 DEF ShutdownBegin, workerVars, TypeOK
<1>4. ASSUME NEW t \in Turns, Expire(t) PROVE StopReachesEveryTurn' /\ StopFinal'
  BY <1>4 DEF Expire, laneVars, workerVars
<1>5. ASSUME NEW c \in Stoppers, ShutdownAgain(c) \/ ShutdownJoined(c)
      PROVE  StopReachesEveryTurn' /\ StopFinal'
  BY <1>5 DEF ShutdownAgain, ShutdownJoined, WorkersJoined, laneVars, turnVars,
              workerVars, TypeOK
<1>6. ASSUME NEW w \in Workers, WorkerExit(w) PROVE StopReachesEveryTurn' /\ StopFinal'
  BY <1>6 DEF WorkerExit, Leaves, laneVars, turnVars, TypeOK
<1>7. ASSUME NEW w \in Workers, WorkerSkip(w) \/ WorkerTake(w)
      PROVE  StopReachesEveryTurn' /\ StopFinal'
  <2>1. ready_sessions # <<>> /\ pc[w] = "idle"
    BY <1>7 DEF WorkerSkip, WorkerTake
  <2>2. Head(ready_sessions) \in Sessions
    BY <2>1, HeadTailElements DEF TypeOK
  <2>3. \A x \in Sessions : stopping => queue'[x] = <<>>
    BY <1>7, <2>2 DEF WorkerSkip, WorkerTake, TypeOK
  <2>4. UNCHANGED <<stopping, stopper, turnVars>>
    BY <1>7 DEF WorkerSkip, WorkerTake
  <2>5. \A v \in Workers : pc[v] # "exited" /\ pc'[v] # "exited"
    BY <1>7, <2>1 DEF WorkerSkip, WorkerTake, workerVars, TypeOK
  <2> QED
    BY <2>1, <2>3, <2>4, <2>5 DEF turnVars
<1>8. ASSUME NEW w \in Workers, WorkerBegin(w) \/ MarkCompleted(w) \/ TaskThrows(w)
      PROVE  StopReachesEveryTurn' /\ StopFinal'
  <2>1. \A t \in Turns : cancelled[t] => cancelled'[t]
    BY <1>8 DEF WorkerBegin, MarkCompleted, TaskThrows, TypeOK
  <2>2. /\ UNCHANGED <<laneVars, stopping, stopper, promise>>
        /\ \A v \in Workers : pc'[v] = "exited" <=> pc[v] = "exited"
    BY <1>8 DEF WorkerBegin, MarkCompleted, TaskThrows, TypeOK
  <2> QED
    BY <2>1, <2>2 DEF laneVars
<1>9. ASSUME NEW w \in Workers, TaskReturns(w) \/ SetException(w)
      PROVE  StopReachesEveryTurn' /\ StopFinal'
  <2>1. \A t \in Turns : promise'[t] = "pending" => promise[t] = "pending"
    BY <1>9 DEF TaskReturns, SetException, Settle, TypeOK
  <2>2. /\ UNCHANGED <<laneVars, stopping, stopper, cancelled>>
        /\ \A v \in Workers : pc'[v] = "exited" <=> pc[v] = "exited"
    BY <1>9 DEF TaskReturns, SetException, TypeOK
  <2> QED
    BY <2>1, <2>2 DEF laneVars
<1>10. ASSUME NEW w \in Workers, WorkerFinish(w) PROVE StopReachesEveryTurn' /\ StopFinal'
  <2>1. /\ UNCHANGED <<queue, stopping, stopper, turnVars>>
        /\ \A v \in Workers : pc'[v] = "exited" <=> v # w /\ pc[v] = "exited"
        /\ stopping => ready_sessions' = ready_sessions
    BY <1>10 DEF WorkerFinish, GoesOn, TypeOK
  <2>2. \A c \in Stoppers : stopper[c] # "joined"
    BY <1>10 DEF WorkerFinish
  <2> QED
    BY <2>1, <2>2 DEF turnVars
<1>11. ASSUME NEW s \in Sessions, SubmitOverloaded(s)
       PROVE  StopReachesEveryTurn' /\ StopFinal'
  BY <1>11 DEF SubmitOverloaded, laneVars, turnVars, workerVars
<1>12. CASE UNCHANGED vars
  BY <1>12 DEF vars, laneVars, turnVars, workerVars
<1> QED
  BY <1>1, <1>2, <1>3, <1>4, <1>5, <1>6, <1>7, <1>8, <1>9, <1>10, <1>11, <1>12
     DEF Next, Client, Clock, Runs, TaskEnds, Stopped

LEMMA InvNext == IInv /\ [Next]_vars => IInv'
  BY TypeNext, CoreNext, StopNext DEF IInv, Core, LaneInv

-----------------------------------------------------------------------------
(* The theorems.                                                           *)

\* Every reachable state of the executor satisfies the inductive invariant.
THEOREM Invariance == Spec => []IInv
  BY InvInit, InvNext, PTL DEF Spec

\* The executor's state keeps its types: no queue, counter or worker variable
\* leaves its range, for any workload and any number of workers.
THEOREM TypeCorrect == Spec => []TypeOK
<1>1. IInv => TypeOK
  BY DEF IInv
<1> QED
  BY <1>1, Invariance, PTL

\* No future is settled twice, however cancel_session, shutdown and the workers
\* interleave.
THEOREM SettledOnce == Spec => []PromiseOnce
<1>1. IInv => PromiseOnce
  BY DEF IInv
<1> QED
  BY <1>1, Invariance, PTL

\* The turns of one session run in submission order and never overlap.
THEOREM SessionFifo == Spec => []LaneOrder
<1>1. IInv => LaneOrder
  BY DEF IInv
<1> QED
  BY <1>1, Invariance, PTL

\* The ready list, the scheduled flags and the running turns of all lanes agree
\* and no waiting turn is stranded.
THEOREM LanesIndexed == Spec => []LaneIndexed
<1>1. IInv => LaneIndexed
  BY DEF IInv, LaneInv
<1> QED
  BY <1>1, Invariance, PTL

\* Once shutdown() has begun, every turn whose future is open has been told.
THEOREM StopReaches == Spec => []StopReachesEveryTurn
<1>1. IInv => StopReachesEveryTurn
  BY DEF IInv
<1> QED
  BY <1>1, Invariance, PTL

\* When the joining call of shutdown() has returned, every future is ready and
\* every lane is at rest.
THEOREM ShutdownQuiet == Spec => []JoinedMeansQuiet
<1>1. IInv => JoinedMeansQuiet
  <2> SUFFICES ASSUME IInv, NEW c \in Stoppers, stopper[c] = "joined"
               PROVE  /\ \A t \in Turns : promise[t] # "pending"
                      /\ \A s \in Sessions : queue[s] = <<>> /\ running[s] = NoTurn
                      /\ ready_sessions = <<>>
    BY DEF JoinedMeansQuiet
  <2>1. /\ \A w \in Workers : pc[w] = "exited"
        /\ stopping /\ ready_sessions = <<>>
        /\ \A s \in Sessions : queue[s] = <<>>
    BY WorkerAssumption DEF IInv, StopFinal
  <2>2. \A w \in Workers : work[w] = NoTurn
    BY <2>1 DEF IInv, LaneInv, WorkerOwns, Busy
  <2>3. \A s \in Sessions : running[s] = NoTurn
    BY <2>2 DEF IInv, LaneInv, RunningOwned
  <2>4. \A t \in Turns : promise[t] # "pending"
    BY <2>1, <2>3, EmptyElements DEF IInv, LaneInv, PendingPlaced, TypeOK, Turns, NoTurn
  <2> QED
    BY <2>1, <2>3, <2>4
<1> QED
  BY <1>1, Invariance, PTL

-----------------------------------------------------------------------------
(***************************************************************************)
(* pending_total_.  The turns that wait are counted as a set first: a turn *)
(* is in one queue, once.                                                  *)
(***************************************************************************)

Counted ==
    /\ pending_total = Cardinality(Waiting(Sessions))
    /\ pending_total <= MaxPendingTotal
    /\ \A s \in Sessions : Len(queue[s]) <= MaxPendingPerSession

LEMMA FiniteWaiting ==
  ASSUME TypeOK, NEW lanes \in SUBSET Sessions
  PROVE  IsFiniteSet(Waiting(lanes))
<1>1. IsFiniteSet(Turns)
  BY FS_Interval, BoundAssumption DEF Turns
<1> QED
  BY <1>1, WaitingCount, FS_Subset

LEMMA QueueElement ==
  ASSUME NEW q \in Seq(Turns), NEW i \in 1..Len(q)
  PROVE  q[i] \in Turns /\ q[i] \in Nat /\ q[i] \in Elements(q)
<1>1. q[i] \in Turns
  OBVIOUS
<1> QED
  BY <1>1 DEF Elements, Turns

LEMMA OneLane ==
  ASSUME IInv, NEW x \in Sessions, NEW y \in Sessions,
         NEW t \in Elements(queue[x]), t \in Elements(queue[y])
  PROVE  x = y
<1>1. lane[t] = x /\ lane[t] = y
  BY DEF IInv, LaneInv, QueueFresh
<1> QED
  BY <1>1

LEMMA SubmitCounted ==
  ASSUME IInv, Counted, NEW s \in Sessions, Submit(s)
  PROVE  Counted'
<1> DEFINE n == next_turn_id
<1>1. n \in Turns /\ promise[n] = "none"
  BY DEF Submit, IInv, LaneInv, Unborn, TypeOK, Turns
<1>2. n \notin Waiting(Sessions)
  BY <1>1 DEF Waiting, IInv, LaneInv, QueueFresh
<1>3. /\ Elements(queue'[s]) = Elements(queue[s]) \union {n}
      /\ Len(queue'[s]) = Len(queue[s]) + 1
  BY <1>1, AppendElements DEF Submit, PushBack, IInv, TypeOK
<1>4. \A x \in Sessions : x # s => queue'[x] = queue[x]
  BY DEF Submit, IInv, TypeOK
<1>5. Waiting(Sessions)' = Waiting(Sessions) \union {n}
  BY <1>3, <1>4 DEF Waiting
<1>6. Cardinality(Waiting(Sessions)') = Cardinality(Waiting(Sessions)) + 1
  BY <1>2, <1>5, FiniteWaiting, FS_AddElement DEF IInv
<1>7. pending_total' = Cardinality(Waiting(Sessions)') /\ pending_total' <= MaxPendingTotal
  BY <1>6, LimitsAssumption DEF Submit, Full, Counted, IInv, TypeOK
<1>8. Len(queue[s]) < MaxPendingPerSession
  <2>1. CASE s \in sessions
    BY <2>1, LimitsAssumption DEF Submit, Full, IInv, TypeOK
  <2>2. CASE s \notin sessions
    BY <2>2, LimitsAssumption DEF IInv, LaneInv, LaneIndexed
  <2> QED
    BY <2>1, <2>2
<1>9. \A x \in Sessions : Len(queue'[x]) <= MaxPendingPerSession
  <2>1. Len(queue[s]) \in Nat
    BY DEF IInv, TypeOK
  <2>2. Len(queue'[s]) <= MaxPendingPerSession
    BY <1>3, <1>8, <2>1, LimitsAssumption
  <2> QED
    BY <1>4, <2>2 DEF Counted
<1> QED
  BY <1>7, <1>9 DEF Counted

LEMMA DropCounted ==
  ASSUME IInv, Counted, NEW lanes \in SUBSET Sessions, DropLanes(lanes)
  PROVE  Counted'
<1>1. \A x \in Sessions : queue'[x] = IF x \in lanes THEN <<>> ELSE queue[x]
  BY DEF DropLanes, Emptied
<1>2. Waiting(lanes) \subseteq Waiting(Sessions)
  BY DEF Waiting
<1>3. Waiting(Sessions)' = Waiting(Sessions) \ Waiting(lanes)
  <2>1. \A x \in Sessions : Elements(queue'[x]) = IF x \in lanes THEN {} ELSE Elements(queue[x])
    BY <1>1 DEF Elements
  <2>2. \A x \in Sessions, y \in lanes :
           x \notin lanes => Elements(queue[x]) \cap Elements(queue[y]) = {}
    BY DEF IInv, LaneInv, QueueFresh
  <2> QED
    BY <2>1, <2>2 DEF Waiting
<1>4. Cardinality(Waiting(Sessions)') = Cardinality(Waiting(Sessions)) - Cardinality(Waiting(lanes))
  <2>1. Waiting(Sessions) \cap Waiting(lanes) = Waiting(lanes)
    BY <1>2
  <2> QED
    BY <1>3, <2>1, FiniteWaiting, FS_Difference DEF IInv
<1>5. pending_total' = Cardinality(Waiting(Sessions)') /\ pending_total' <= MaxPendingTotal
  <2>1. Cardinality(Waiting(lanes)) \in Nat
    BY WaitingCount DEF IInv
  <2>2. /\ pending_total' = pending_total - Cardinality(Waiting(lanes))
        /\ pending_total = Cardinality(Waiting(Sessions))
        /\ pending_total \in Int /\ pending_total <= MaxPendingTotal
    BY DEF DropLanes, StillPending, Counted, IInv, TypeOK
  <2> QED
    BY <1>4, <2>1, <2>2, LimitsAssumption
<1>6. \A x \in Sessions : Len(queue'[x]) <= MaxPendingPerSession
  BY <1>1, LimitsAssumption DEF Counted
<1> QED
  BY <1>5, <1>6 DEF Counted

LEMMA TakeCounted ==
  ASSUME IInv, Counted, NEW w \in Workers, WorkerTake(w)
  PROVE  Counted'
<1> DEFINE s == Head(ready_sessions)
           t == Head(queue[s])
<1>1. s \in Sessions /\ queue[s] # <<>> /\ queue[s] \in Seq(Turns)
  BY HeadTailElements DEF WorkerTake, IInv, TypeOK
<1>2. /\ queue'[s] = Tail(queue[s])
      /\ \A x \in Sessions : x # s => queue'[x] = queue[x]
      /\ pending_total' = pending_total - 1
  BY <1>1 DEF WorkerTake, IInv, TypeOK
<1>3. Elements(queue[s]) = {t} \union Elements(queue'[s])
  BY <1>1, <1>2, HeadTailElements
<1>4. t \notin Elements(queue'[s])
  <2>1. \A i \in 1..Len(Tail(queue[s])) :
           Tail(queue[s])[i] = queue[s][i + 1] /\ i + 1 \in 1..Len(queue[s])
    BY <1>1
  <2>2. \A i \in 1..Len(Tail(queue[s])) : queue[s][1] < queue[s][i + 1]
    BY <1>1, <2>1 DEF IInv, LaneInv, QueueSorted
  <2>3. \A i \in 1..Len(Tail(queue[s])) : queue[s][1] # queue[s][i + 1]
    <3>1. 1 \in 1..Len(queue[s])
      BY <1>1
    <3> QED
      BY <1>1, <2>1, <2>2, <3>1, QueueElement
  <2>4. t = queue[s][1]
    BY <1>1
  <2>5. \A i \in 1..Len(queue'[s]) : t # queue'[s][i]
    BY <1>2, <2>1, <2>3, <2>4
  <2> QED
    BY <2>5 DEF Elements
<1>5. \A x \in Sessions : x # s => t \notin Elements(queue[x])
  BY <1>1, <1>3, OneLane
<1>6. Waiting(Sessions)' = Waiting(Sessions) \ {t} /\ t \in Waiting(Sessions)
  BY <1>1, <1>2, <1>3, <1>4, <1>5 DEF Waiting
<1>7. Cardinality(Waiting(Sessions)') = Cardinality(Waiting(Sessions)) - 1
  BY <1>6, FiniteWaiting, FS_RemoveElement DEF IInv
<1>8. Len(queue'[s]) <= Len(queue[s]) /\ Len(queue[s]) \in Nat /\ Len(queue'[s]) \in Nat
  BY <1>1, <1>2
<1>9. \A x \in Sessions : Len(queue'[x]) <= MaxPendingPerSession
  <2>1. Len(queue'[s]) <= MaxPendingPerSession
    BY <1>1, <1>8, LimitsAssumption DEF Counted
  <2> QED
    BY <1>2, <2>1 DEF Counted
<1> QED
  BY <1>2, <1>7, <1>9, LimitsAssumption DEF Counted, IInv, TypeOK

LEMMA CountedStep == IInv /\ Counted /\ [Next]_vars => Counted'
<1> SUFFICES ASSUME IInv, Counted, [Next]_vars  PROVE  Counted'
  OBVIOUS
<1>1. ASSUME NEW s \in Sessions, Submit(s)  PROVE  Counted'
  BY <1>1, SubmitCounted
<1>2. ASSUME NEW s \in Sessions, CancelSession(s)  PROVE  Counted'
  BY <1>2, DropCounted DEF CancelSession
<1>3. ASSUME NEW c \in Stoppers, ShutdownBegin(c)  PROVE  Counted'
  BY <1>3, DropCounted DEF ShutdownBegin, IInv, TypeOK
<1>4. ASSUME NEW w \in Workers, WorkerTake(w)  PROVE  Counted'
  BY <1>4, TakeCounted
<1>5. ASSUME UNCHANGED <<queue, pending_total>>  PROVE  Counted'
  BY <1>5 DEF Counted, Waiting
<1> QED
  BY <1>1, <1>2, <1>3, <1>4, <1>5
     DEF Next, Client, Clock, Runs, TaskEnds, Stopped, vars, laneVars, SubmitOverloaded,
         Expire, ShutdownAgain, ShutdownJoined, WorkerExit, WorkerSkip, WorkerBegin,
         TaskReturns, MarkCompleted, TaskThrows, SetException, WorkerFinish

\* The places of the queues, which pending() adds up, and the turns in them.
LEMMA PlacesAreTurns ==
  ASSUME IInv
  PROVE  Cardinality({si \in Sessions \X Turns : si[2] <= Len(queue[si[1]])})
            = Cardinality(Waiting(Sessions))
<1> DEFINE P == {si \in Sessions \X Turns : si[2] <= Len(queue[si[1]])}
           W == Waiting(Sessions)
           at == [si \in P |-> queue[si[1]][si[2]]]
<1>1. ASSUME NEW s \in Sessions  PROVE  1..Len(queue[s]) \subseteq Turns
  <2> DEFINE q == queue[s]
             f == [i \in 1..Len(q) |-> q[i]]
  <2>1. q \in Seq(Turns) /\ Len(q) \in Nat
    BY DEF IInv, TypeOK
  <2>2. \A i, j \in 1..Len(q) : q[i] = q[j] => i = j
    <3> SUFFICES ASSUME NEW i \in 1..Len(q), NEW j \in 1..Len(q), i # j  PROVE  q[i] # q[j]
      OBVIOUS
    <3>1. q[i] < q[j] \/ q[j] < q[i]
      BY <2>1 DEF IInv, LaneInv, QueueSorted
    <3>2. q[i] \in Nat /\ q[j] \in Nat
      BY <2>1, QueueElement
    <3> QED
      BY <3>1, <3>2
  <2>3. f \in Injection(1..Len(q), Turns)
    BY <2>1, <2>2 DEF Injection, IsInjective
  <2>4. IsFiniteSet(Turns) /\ Cardinality(Turns) = MaxTurns
    BY FS_Interval, BoundAssumption DEF Turns
  <2>5. Cardinality(1..Len(q)) <= MaxTurns
    BY <2>3, <2>4, FS_Injection
  <2>6. Len(q) <= MaxTurns
    BY <2>1, <2>5, FS_Interval, BoundAssumption
  <2> QED
    BY <2>1, <2>6, BoundAssumption DEF Turns
<1>2. \A si \in P : /\ si[1] \in Sessions /\ si[2] \in 1..Len(queue[si[1]])
                    /\ si = <<si[1], si[2]>>
  BY DEF IInv, TypeOK, Turns
<1>3. at \in [P -> W]
  BY <1>2 DEF Waiting, Elements
<1>4. \A a, b \in P : at[a] = at[b] => a = b
  <2> SUFFICES ASSUME NEW a \in P, NEW b \in P, at[a] = at[b]  PROVE  a = b
    OBVIOUS
  <2>1. queue[a[1]][a[2]] = queue[b[1]][b[2]]
    OBVIOUS
  <2>2. a[1] = b[1]
    <3>1. /\ queue[a[1]][a[2]] \in Elements(queue[a[1]])
          /\ queue[b[1]][b[2]] \in Elements(queue[b[1]])
      BY <1>2, QueueElement DEF IInv, TypeOK
    <3> QED
      BY <1>2, <2>1, <3>1, OneLane
  <2>3. a[2] = b[2]
    <3>1. queue[a[1]] \in Seq(Turns) /\ a[2] \in 1..Len(queue[a[1]]) /\ b[2] \in 1..Len(queue[a[1]])
      BY <1>2, <2>2 DEF IInv, TypeOK
    <3>2. queue[a[1]][a[2]] \in Nat
      BY <3>1, QueueElement
    <3>3. a[2] < b[2] => queue[a[1]][a[2]] < queue[a[1]][b[2]]
      BY <1>2, <3>1 DEF IInv, LaneInv, QueueSorted
    <3>4. b[2] < a[2] => queue[a[1]][b[2]] < queue[a[1]][a[2]]
      BY <1>2, <3>1 DEF IInv, LaneInv, QueueSorted
    <3> QED
      BY <2>1, <2>2, <3>1, <3>2, <3>3, <3>4
  <2> QED
    BY <1>2, <2>2, <2>3
<1>5. \A t \in W : \E si \in P : at[si] = t
  <2> SUFFICES ASSUME NEW t \in W  PROVE  \E si \in P : at[si] = t
    OBVIOUS
  <2>1. PICK s \in Sessions : t \in Elements(queue[s])
    BY DEF Waiting
  <2>2. PICK i \in 1..Len(queue[s]) : queue[s][i] = t
    BY <2>1 DEF Elements
  <2>3. <<s, i>> \in P
    BY <1>1, <2>1, <2>2
  <2> QED
    BY <2>2, <2>3
<1>6. at \in Bijection(P, W)
  BY <1>3, <1>4, <1>5 DEF Bijection, Injection, Surjection, IsInjective
<1>7. ExistsBijection(W, P)
  BY <1>6, Fun_ExistsBijSymmetric DEF ExistsBijection
<1>8. IsFiniteSet(W)
  BY FiniteWaiting DEF IInv
<1> QED
  BY <1>7, <1>8, FS_Bijection

\* pending_total_ is exactly the number of waiting turns, and neither the limit of
\* a session nor that of the executor is ever exceeded.
THEOREM PendingCounted == Spec => []PendingAccounting
<1>1. Init => Counted
  <2> SUFFICES ASSUME Init  PROVE  Counted
    OBVIOUS
  <2>1. \A s \in Sessions : queue[s] = <<>>
    BY DEF Init
  <2>2. Waiting(Sessions) = {}
    BY <2>1 DEF Waiting, Elements
  <2> QED
    BY <2>1, <2>2, FS_EmptySet, LimitsAssumption DEF Init, Counted
<1>2. IInv /\ Counted => PendingAccounting
  BY PlacesAreTurns DEF Counted, PendingAccounting
<1> QED
  BY <1>1, <1>2, CountedStep, Invariance, PTL DEF Spec

-----------------------------------------------------------------------------
(***************************************************************************)
(* The refinement of TurnLanes, one action at a time.  A turn's phase is   *)
(* read off its promise and off the worker that holds it.                  *)
(***************************************************************************)

LaneMap  == [t \in Turns |-> Phase(t)]
LaneMove == [Lanes!Next]_<<lane, LaneMap>>

\* A turn number that was not accepted belongs to no session.
Unowned == \A t \in Turns : promise[t] = "none" => lane[t] = NoSession

LEMMA UnownedStep == IInv /\ Unowned /\ [Next]_vars => Unowned'
<1> SUFFICES ASSUME IInv, Unowned, [Next]_vars, NEW t \in Turns, promise'[t] = "none"
             PROVE  lane'[t] = NoSession
  BY DEF Unowned
<1> USE DEF IInv, TypeOK, Unowned
<1>1. ASSUME NEW s \in Sessions, Submit(s)  PROVE  lane'[t] = NoSession
  BY <1>1 DEF Submit
<1>2. ASSUME NEW lanes \in SUBSET Sessions, DropLanes(lanes), UNCHANGED lane
      PROVE  lane'[t] = NoSession
  BY <1>2 DEF DropLanes, Settle
<1>3. ASSUME NEW w \in Workers, TaskReturns(w) \/ SetException(w)
      PROVE  lane'[t] = NoSession
  BY <1>3 DEF TaskReturns, SetException, Settle
<1>4. ASSUME UNCHANGED <<lane, promise>>  PROVE  lane'[t] = NoSession
  BY <1>4
<1>5. ASSUME NEW s \in Sessions, CancelSession(s)  PROVE  lane'[t] = NoSession
  BY <1>5, <1>2 DEF CancelSession
<1>6. ASSUME NEW c \in Stoppers, ShutdownBegin(c)  PROVE  lane'[t] = NoSession
  BY <1>6, <1>2 DEF ShutdownBegin
<1> HIDE DEF IInv, TypeOK, Unowned
<1> QED
  BY <1>1, <1>3, <1>4, <1>5, <1>6
     DEF Next, Client, Clock, Runs, TaskEnds, Stopped, vars, turnVars, SubmitOverloaded,
         Expire, ShutdownAgain, ShutdownJoined, WorkerExit, WorkerSkip, WorkerTake,
         WorkerBegin, MarkCompleted, TaskThrows, WorkerFinish

LEMMA PhaseValue ==
  ASSUME TypeOK, NEW t \in Turns
  PROVE  /\ promise[t] = "none" => Phase(t) = "unused"
         /\ promise[t] = "pending" => Phase(t) = IF Held(t) THEN "active" ELSE "waiting"
         /\ promise[t] \in Resolved => Phase(t) = IF Held(t) THEN "settled" ELSE "over"
         /\ LaneMap[t] = Phase(t)
<1>1. promise[t] \in {"none", "pending", "value", "exception", "double"}
  BY DEF TypeOK, Resolved
<1> QED
  BY <1>1 DEF Phase, Resolved, LaneMap

LEMMA PhaseValueNext ==
  ASSUME TypeOK', NEW t \in Turns
  PROVE  /\ promise'[t] = "none" => Phase(t)' = "unused"
         /\ promise'[t] = "pending" => Phase(t)' = IF Held(t)' THEN "active" ELSE "waiting"
         /\ promise'[t] \in Resolved => Phase(t)' = IF Held(t)' THEN "settled" ELSE "over"
         /\ LaneMap'[t] = Phase(t)'
<1>1. promise'[t] \in {"none", "pending", "value", "exception", "double"}
  BY DEF TypeOK, Resolved
<1> QED
  BY <1>1 DEF Phase, Resolved, LaneMap

\* The phases depend on the promises and on who holds what.
LEMMA SamePhase ==
  ASSUME TypeOK, TypeOK', NEW t \in Turns, promise'[t] = promise[t], Held(t)' <=> Held(t)
  PROVE  LaneMap'[t] = LaneMap[t]
<1>1. promise[t] \in {"none", "pending"} \union Resolved
  BY DEF TypeOK
<1> QED
  BY <1>1, PhaseValue, PhaseValueNext

\* A step that changes the phase of one turn.
LEMMA OnePhase ==
  ASSUME NEW t \in Turns, NEW p, LaneMap'[t] = p,
         \A u \in Turns : u # t => LaneMap'[u] = LaneMap[u]
  PROVE  LaneMap' = [LaneMap EXCEPT ![t] = p]
  BY DEF LaneMap

LEMMA NoPhase ==
  ASSUME \A u \in Turns : LaneMap'[u] = LaneMap[u]
  PROVE  LaneMap' = LaneMap
  BY DEF LaneMap

LEMMA LanesQuiet ==
  ASSUME TypeOK, TypeOK', UNCHANGED <<lane, promise, work>>
  PROVE  LaneMove
<1>1. \A t \in Turns : Held(t)' <=> Held(t)
  BY DEF Held
<1> QED
  BY <1>1, SamePhase, NoPhase DEF LaneMove

LEMMA LanesSubmit ==
  ASSUME IInv, TypeOK', NEW s \in Sessions, Submit(s)
  PROVE  LaneMove
<1> DEFINE n == next_turn_id
<1>1. /\ n \in Turns
      /\ lane' = [lane EXCEPT ![n] = s]
      /\ promise'[n] = "pending" /\ work' = work
      /\ \A u \in Turns : u # n => promise'[u] = promise[u]
  BY DEF Submit, IInv, TypeOK, workerVars
<1>2. \A u \in Turns : n <= u => LaneMap[u] = "unused"
  BY PhaseValue DEF IInv, LaneInv, Unborn
<1>3. \A u \in Turns : Held(u)' <=> Held(u)
  BY <1>1 DEF Held
<1>4. ~Held(n)
  <2>1. promise[n] = "none"
    BY <1>1 DEF IInv, LaneInv, Unborn, TypeOK
  <2> QED
    BY <1>1, <2>1, HeldNotNone DEF IInv, LaneInv
<1>5. LaneMap'[n] = "waiting"
  BY <1>1, <1>3, <1>4, PhaseValueNext
<1>6. \A u \in Turns : u # n => LaneMap'[u] = LaneMap[u]
  BY <1>1, <1>3, SamePhase DEF IInv
<1>7. Lanes!Admit(n, s)
  BY <1>1, <1>2, <1>5, <1>6, OnePhase DEF Lanes!Admit, Lanes!Turns, Turns, LaneMap
<1> QED
  BY <1>1, <1>7 DEF LaneMove, LaneMap, Lanes!Next, Lanes!Turns, Turns

LEMMA LanesDrop ==
  ASSUME IInv, TypeOK', NEW lanes \in SUBSET Sessions, DropLanes(lanes),
         UNCHANGED <<lane, work>>
  PROVE  LaneMove
<1> DEFINE T == Waiting(lanes)
<1>1. T \in SUBSET Turns
  BY WaitingCount DEF IInv
<1>2. \A t \in T : promise[t] = "pending" /\ ~Held(t)
  BY DEF Waiting, IInv, LaneInv, QueueFresh
<1>3. \A t \in Turns : Held(t)' <=> Held(t)
  BY DEF Held
<1>4. \A t \in Turns : promise'[t] = IF t \in T THEN "exception" ELSE promise[t]
  BY <1>2 DEF DropLanes, Settle
<1>5. \A t \in T : LaneMap[t] = "waiting"
  BY <1>1, <1>2, PhaseValue DEF IInv
<1>6. \A t \in T : LaneMap'[t] = "over"
  BY <1>1, <1>2, <1>3, <1>4, PhaseValueNext DEF Resolved
<1>7. \A t \in Turns : t \notin T => LaneMap'[t] = LaneMap[t]
  BY <1>3, <1>4, SamePhase DEF IInv
<1>8. LaneMap' = [t \in Turns |-> IF t \in T THEN "over" ELSE LaneMap[t]]
  BY <1>1, <1>6, <1>7 DEF LaneMap
<1>9. Lanes!Drop(T)
  BY <1>5, <1>8 DEF Lanes!Drop, Lanes!Turns, Turns, LaneMap
<1> QED
  BY <1>1, <1>9 DEF LaneMove, LaneMap, Lanes!Next, Lanes!Turns, Turns

LEMMA LanesTake ==
  ASSUME IInv, IInv', Unowned, NEW w \in Workers, WorkerTake(w)
  PROVE  LaneMove
<1>0. PICK s \in Sessions, t \in Turns :
         s = Head(ready_sessions) /\ queue[s] # <<>> /\ t = Head(queue[s])
  BY HeadTailElements DEF WorkerTake, IInv, TypeOK
<1>1. t \in Elements(queue[s])
  BY <1>0, HeadTailElements DEF IInv, TypeOK
<1>2. promise[t] = "pending" /\ ~Held(t) /\ lane[t] = s
  BY <1>1 DEF IInv, LaneInv, QueueFresh
<1>3. work[w] = NoTurn
  BY DEF WorkerTake, IInv, LaneInv, WorkerOwns, Busy
<1>4. /\ UNCHANGED <<lane, promise, state>>
      /\ work'[w] = t
      /\ \A v \in Workers : v # w => work'[v] = work[v]
  BY <1>0 DEF WorkerTake, turnVars, IInv, TypeOK
<1>5. Held(t)' /\ \A u \in Turns : u # t => (Held(u)' <=> Held(u))
  BY <1>3, <1>4 DEF Held, Turns, NoTurn
<1>6. LaneMap[t] = "waiting" /\ LaneMap'[t] = "active"
  BY <1>1, <1>2, <1>4, <1>5, PhaseValue, PhaseValueNext DEF IInv
<1>7. ASSUME NEW u \in Turns, u < t, lane[u] = lane[t]
      PROVE  LaneMap[u] = "over"
  <2>1. promise[u] # "none"
    BY <1>1, <1>2, <1>7, SessionAssumption DEF Unowned
  <2>2. promise[u] \in Resolved /\ ~Held(u)'
    BY <1>1, <1>4, <1>5, <1>7, <2>1 DEF IInv, LaneOrder
  <2>3. u # t
    BY <1>1, <1>7 DEF Turns
  <2> QED
    BY <1>5, <2>2, <2>3, PhaseValue DEF IInv
<1>8. \A u \in Turns : u # t => LaneMap'[u] = LaneMap[u]
  BY <1>4, <1>5, SamePhase DEF IInv
<1>9. LaneMap' = [LaneMap EXCEPT ![t] = "active"]
  BY <1>1, <1>6, <1>8, OnePhase
<1>10. Lanes!Start(t)
  BY <1>4, <1>6, <1>7, <1>9 DEF Lanes!Start, Lanes!Turns, Turns, LaneMap
<1> QED
  BY <1>1, <1>10 DEF LaneMove, LaneMap, Lanes!Next, Lanes!Turns, Turns

LEMMA LanesSettle ==
  ASSUME IInv, TypeOK', NEW w \in Workers, TaskReturns(w) \/ SetException(w)
  PROVE  LaneMove
<1>0. PICK t \in Turns : t = work[w]
  BY DEF TaskReturns, SetException, IInv, LaneInv, WorkerOwns, Busy
<1>1. promise[t] = "pending" /\ Held(t)
  BY <1>0 DEF TaskReturns, SetException, IInv, LaneInv, WorkerOwns, WorkerSettles, Busy, Held
<1>2. /\ UNCHANGED <<lane, work>>
      /\ promise'[t] \in Resolved
      /\ \A u \in Turns : u # t => promise'[u] = promise[u]
  BY <1>0, <1>1 DEF TaskReturns, SetException, Settle, Resolved, IInv, TypeOK
<1>3. \A u \in Turns : Held(u)' <=> Held(u)
  BY <1>2 DEF Held
<1>4. LaneMap[t] = "active" /\ LaneMap'[t] = "settled"
  BY <1>1, <1>2, <1>3, PhaseValue, PhaseValueNext DEF IInv
<1>5. \A u \in Turns : u # t => LaneMap'[u] = LaneMap[u]
  BY <1>2, <1>3, SamePhase DEF IInv
<1>6. Lanes!Resolve(t)
  BY <1>1, <1>2, <1>4, <1>5, OnePhase DEF Lanes!Resolve, Lanes!Turns, Turns, LaneMap
<1> QED
  BY <1>1, <1>6 DEF LaneMove, LaneMap, Lanes!Next, Lanes!Turns, Turns

LEMMA LanesFinish ==
  ASSUME IInv, TypeOK', NEW w \in Workers, WorkerFinish(w)
  PROVE  LaneMove
<1>0. PICK t \in Turns : t = work[w]
  BY DEF WorkerFinish, IInv, LaneInv, WorkerOwns, Busy
<1>1. promise[t] \in {"value", "exception"} /\ Held(t)
  BY <1>0 DEF WorkerFinish, IInv, LaneInv, WorkerOwns, WorkerSettles, Busy, Held
<1>2. /\ UNCHANGED <<lane, promise>>
      /\ work'[w] = NoTurn
      /\ \A v \in Workers : v # w => work'[v] = work[v]
  BY DEF WorkerFinish, turnVars, IInv, TypeOK
<1>3. \A v \in Workers : work[v] = t => v = w
  BY <1>0 DEF IInv, LaneOrder, Turns, NoTurn
<1>4. ~Held(t)' /\ \A u \in Turns : u # t => (Held(u)' <=> Held(u))
  BY <1>1, <1>2, <1>3 DEF Held, Turns, NoTurn
<1>5. LaneMap[t] = "settled" /\ LaneMap'[t] = "over"
  BY <1>1, <1>2, <1>4, PhaseValue, PhaseValueNext DEF IInv, Resolved
<1>6. \A u \in Turns : u # t => LaneMap'[u] = LaneMap[u]
  BY <1>2, <1>4, SamePhase DEF IInv
<1>7. Lanes!Release(t)
  BY <1>1, <1>2, <1>5, <1>6, OnePhase DEF Lanes!Release, Lanes!Turns, Turns, LaneMap
<1> QED
  BY <1>1, <1>7 DEF LaneMove, LaneMap, Lanes!Next, Lanes!Turns, Turns

LEMMA LanesStep == IInv /\ IInv' /\ Unowned /\ [Next]_vars => LaneMove
<1> SUFFICES ASSUME IInv, IInv', Unowned, [Next]_vars  PROVE  LaneMove
  OBVIOUS
<1>0. TypeOK /\ TypeOK'
  BY DEF IInv
<1>1. ASSUME NEW s \in Sessions, Submit(s)  PROVE  LaneMove
  BY <1>0, <1>1, LanesSubmit
<1>2. ASSUME NEW s \in Sessions, CancelSession(s)  PROVE  LaneMove
  BY <1>0, <1>2, LanesDrop DEF CancelSession, workerVars
<1>3. ASSUME NEW c \in Stoppers, ShutdownBegin(c)  PROVE  LaneMove
  BY <1>0, <1>3, LanesDrop DEF ShutdownBegin, workerVars, TypeOK
<1>4. ASSUME NEW w \in Workers, WorkerTake(w)  PROVE  LaneMove
  BY <1>4, LanesTake
<1>5. ASSUME NEW w \in Workers, TaskReturns(w) \/ SetException(w)  PROVE  LaneMove
  BY <1>0, <1>5, LanesSettle
<1>6. ASSUME NEW w \in Workers, WorkerFinish(w)  PROVE  LaneMove
  BY <1>0, <1>6, LanesFinish
<1>7. ASSUME UNCHANGED <<lane, promise, work>>  PROVE  LaneMove
  BY <1>0, <1>7, LanesQuiet
<1> QED
  BY <1>1, <1>2, <1>3, <1>4, <1>5, <1>6, <1>7
     DEF Next, Client, Clock, Runs, TaskEnds, Stopped, vars, turnVars, workerVars,
         SubmitOverloaded, Expire, ShutdownAgain, ShutdownJoined, WorkerExit, WorkerSkip,
         WorkerBegin, MarkCompleted, TaskThrows

\* The executor implements the contract of TurnLanes: whatever its workers, queues
\* and cancellations do, each session sees its turns start in order, one at a
\* time, each future settled once, and no dropped turn run.
THEOREM Refinement == Spec => ImplementsTurnLanes
<1>1. Init => Lanes!Init /\ Unowned
  <2> SUFFICES ASSUME Init  PROVE  Lanes!Init /\ Unowned
    OBVIOUS
  <2>1. \A t \in Turns : LaneMap[t] = "unused"
    BY TypeInit, PhaseValue DEF Init
  <2> QED
    BY <2>1 DEF Init, Unowned, Lanes!Init, Lanes!Turns, Turns, LaneMap
<1> QED
  BY <1>1, LanesStep, UnownedStep, Invariance, PTL
     DEF Spec, ImplementsTurnLanes, Lanes!Spec, LaneMove, LaneMap

=============================================================================
