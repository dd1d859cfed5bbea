---------------------- MODULE ConversationSessionProofs ----------------------
(***************************************************************************)
(* Theorems about ConversationSession, for any number of threads calling   *)
(* start(), stop() and the operations, and any number of events: the       *)
(* session is safe, and it implements SessionLifecycle.                    *)
(***************************************************************************)
EXTENDS ConversationSession, FiniteSetTheorems, TLAPS

-----------------------------------------------------------------------------
(***************************************************************************)
(* The inductive invariant.  Almost everything the session promises hangs  *)
(* on where the lifecycle worker is: its position determines the engine,   *)
(* the calls of stop() and the timeline, and bounds the lifecycle state.   *)
(***************************************************************************)

Inside == {c \in Callers : caller[c] # "idle"}

\* Before the second wait is over, and after it.
Early == {"wait", "starting", "announce", "open"}
Late  == {"stopping", "report", "close", "end", "exited"}

\* What the engine has been through when the worker is where it is.
EnginePosition ==
    /\ worker = "wait" => engine = "off" /\ ~attempted_start
    /\ worker = "starting" => engine = "starting"
    /\ worker \in {"announce", "open"} => engine = "up"
    /\ worker \in {"starting", "announce", "open"} => attempted_start
    /\ worker = "drain" =>
          engine = IF ~attempted_start THEN "off"
                   ELSE IF local_failure THEN "broken" ELSE "up"
    /\ worker = "stopping" => engine = "stopping" /\ attempted_start
    /\ worker \in {"report", "close", "end", "exited"} =>
          engine = IF attempted_start THEN "down" ELSE "off"
    /\ worker \in Early => ~local_failure
    /\ local_failure => attempted_start
    /\ stop_calls = IF worker \in Late /\ attempted_start THEN 1 ELSE 0

\* The terminal event this lifetime gets, and the terminal state.
EndEvent == IF local_failure THEN "Failed" ELSE "Stopped"

\* What the public state can be there.
PhasePosition ==
    /\ lifecycle = "Created" => worker = "wait" /\ ~start_requested
    /\ lifecycle = "Starting" => worker \in Early /\ start_requested
    /\ lifecycle = "Running" => /\ worker = "drain" /\ capabilities
                                /\ attempted_start /\ ~local_failure
    /\ worker = "drain" /\ ~stop_requested => lifecycle = "Running"
    /\ worker \in Late => stop_requested
    /\ stop_requested <=> lifecycle \in {"Stopping", "Stopped", "Failed"}
    /\ worker = "exited" <=> Terminal(lifecycle)
    /\ worker = "exited" => /\ failure = local_failure
                            /\ lifecycle = EndEvent
    /\ failure => worker = "exited"
    /\ capabilities => attempted_start

\* The leases: counted by active_operations_, and given back before the stop.
Leases ==
    /\ active_operations = Cardinality(Inside)
    /\ \A c \in Inside : worker = "drain" /\ engine = "up"
    /\ worker \in Late => active_operations = 0

\* The timeline: SessionStarted once, no terminal event before the worker
\* reported it, and nothing after it.
Timeline ==
    /\ closed <=> worker \in {"end", "exited"}
    /\ \A i \in 1..Len(journal) :
          journal[i] = "Started" => worker \notin {"wait", "starting", "announce"}
    /\ \A i, j \in 1..Len(journal) :
          journal[i] = "Started" /\ journal[j] = "Started" => i = j
    /\ \A i \in 1..Len(journal) :
          IsEnd(journal[i]) => worker \in {"close", "end", "exited"} /\ i = Len(journal)
    /\ worker \in {"close", "end", "exited"} =>
          \/ EndEvent \in unrecorded
          \/ journal # <<>> /\ journal[Len(journal)] = EndEvent

\* What the callers of start() were told.
Told ==
    \A c \in Starters :
        /\ starter[c] = "rethrown" => failure
        /\ starter[c] = "startup stopped" => lifecycle = "Stopped"
        /\ starter[c] = "started" => attempted_start /\ capabilities

IInv == TypeOK /\ EnginePosition /\ PhasePosition /\ Leases /\ Timeline /\ Told

-----------------------------------------------------------------------------
(* The leases are counted exactly, also when the last one is returned.     *)

LEMMA FiniteInside == IsFiniteSet(Inside)
  BY ThreadsAssumption, FS_Subset DEF Inside

LEMMA NoneInside ==
  ASSUME Leases, active_operations = 0
  PROVE  Inside = {}
  BY FiniteInside, FS_EmptySet DEF Leases

LEMMA LeasesStep ==
  ASSUME IInv, Next
  PROVE  Leases'
<1> USE DEF IInv, TypeOK, LoopType, Leases, EnginePosition, PhasePosition,
            Early, Late, Terminal, core, loop, world, clients
<1>0. caller' = caller => Inside' = Inside
  BY DEF Inside
<1>1. CASE WorkerWakes
  BY <1>1, <1>0 DEF WorkerWakes
<1>2. CASE EngineStarts
  BY <1>2, <1>0 DEF EngineStarts
<1>3. CASE EngineStartThrows
  BY <1>3, <1>0 DEF EngineStartThrows, StateAfterThrow
<1>4. CASE AnnounceStarted
  BY <1>4, <1>0 DEF AnnounceStarted, PublishLifecycle, Admit
<1>5. CASE OpenAdmission
  BY <1>5, <1>0 DEF OpenAdmission, Opened
<1>6. CASE StopsEngine
  <2>1. Inside = {} /\ Inside' = Inside
    BY <1>6, NoneInside, <1>0 DEF StopsEngine, Drained
  <2> QED
    BY <1>6, <2>1 DEF StopsEngine, Drained
<1>7. CASE EngineStopped
  BY <1>7, <1>0 DEF EngineStopped
<1>8. CASE ReportEnd
  BY <1>8, <1>0 DEF ReportEnd, PublishLifecycle, Admit
<1>9. CASE CloseTimeline
  BY <1>9, <1>0 DEF CloseTimeline
<1>10. CASE EndSession
  BY <1>10, <1>0 DEF EndSession
<1>11. ASSUME NEW c \in Starters, Start(c)  PROVE  Leases'
  BY <1>11, <1>0 DEF Start
<1>12. ASSUME NEW c \in Starters, StartReturns(c)  PROVE  Leases'
  BY <1>12, <1>0 DEF StartReturns
<1>13. ASSUME NEW c \in Stoppers, Stop(c)  PROVE  Leases'
  BY <1>13, <1>0 DEF Stop, RequestStop
<1>14. ASSUME NEW c \in Stoppers, StopReturns(c)  PROVE  Leases'
  BY <1>14, <1>0 DEF StopReturns
<1>15. ASSUME NEW c \in Callers, Acquire(c)  PROVE  Leases'
  <2>1. Inside' = Inside \union {c} /\ c \notin Inside
    BY <1>15 DEF Acquire, ClientType, Inside
  <2>2. Cardinality(Inside') = Cardinality(Inside) + 1
    BY <2>1, FiniteInside, FS_AddElement
  <2> QED
    BY <1>15, <2>1, <2>2 DEF Acquire, Admissible
<1>16. ASSUME NEW c \in Callers, Observe(c)  PROVE  Leases'
  <2>1. Inside' = Inside
    BY <1>16 DEF Observe, Admit, ClientType, Inside
  <2> QED
    BY <1>16, <2>1 DEF Observe, Admit
<1>17. ASSUME NEW c \in Callers, HandleEvent(c)  PROVE  Leases'
  <2>1. Inside' = Inside
    BY <1>17 DEF HandleEvent, Admit, ClientType, Inside
  <2> QED
    BY <1>17, <2>1 DEF HandleEvent, Admit
<1>18. ASSUME NEW c \in Callers, NestedStop(c)  PROVE  Leases'
  <2>1. Inside' = Inside
    BY <1>18 DEF NestedStop, RequestStop, AfterNestedStop, ClientType, Inside
  <2> QED
    BY <1>18, <2>1 DEF NestedStop, RequestStop, AfterNestedStop
<1>19. ASSUME NEW c \in Callers, AppendRefused(c)  PROVE  Leases'
  <2>1. Inside' = Inside
    BY <1>19 DEF AppendRefused, ClientType, Inside
  <2> QED
    BY <1>19, <2>1 DEF AppendRefused
<1>20. ASSUME NEW c \in Callers, EngineCall(c)  PROVE  Leases'
  <2>1. Inside' = Inside
    BY <1>20 DEF EngineCall, ClientType, Inside
  <2> QED
    BY <1>20, <2>1 DEF EngineCall
<1>21. ASSUME NEW c \in Callers, EngineReturns(c)  PROVE  Leases'
  <2>1. Inside' = Inside
    BY <1>21 DEF EngineReturns, ClientType, Inside
  <2> QED
    BY <1>21, <2>1 DEF EngineReturns
<1>22. ASSUME NEW c \in Callers, Release(c)  PROVE  Leases'
  <2>1. Inside' = Inside \ {c} /\ c \in Inside
    BY <1>22 DEF Release, ClientType, Inside
  <2>2. Cardinality(Inside') = Cardinality(Inside) - 1
    BY <2>1, FiniteInside, FS_RemoveElement
  <2> QED
    BY <1>22, <2>1, <2>2 DEF Release
<1>23. CASE CallbackStop
  BY <1>23, <1>0 DEF CallbackStop, RequestStop
<1>24. CASE EngineEmits
  BY <1>24, <1>0 DEF EngineEmits, Admit
<1> QED
  BY <1>1, <1>2, <1>3, <1>4, <1>5, <1>6, <1>7, <1>8, <1>9, <1>10, <1>11,
         <1>12, <1>13, <1>14, <1>15, <1>16, <1>17, <1>18, <1>19, <1>20,
         <1>21, <1>22, <1>23, <1>24
     DEF Next, Worker, Works

-----------------------------------------------------------------------------
(* Types.                                                                  *)

LEMMA CountType ==
  ASSUME Leases'
  PROVE  active_operations' \in 0..Cardinality(Callers)
<1>1. Inside' \subseteq Callers
  BY DEF Inside
<1>2. Cardinality(Inside') \in Nat /\ Cardinality(Inside') <= Cardinality(Callers)
  BY <1>1, ThreadsAssumption, FS_Subset, FS_CardinalityType
<1> QED
  BY <1>2, ThreadsAssumption, FS_CardinalityType DEF Leases

LEMMA TypeStep ==
  ASSUME TypeOK, Leases', Next
  PROVE  TypeOK'
<1> USE DEF TypeOK
<1>1. CoreType'
  <2> USE DEF CoreType, core
  <2>1. lifecycle' \in {"Created", "Starting", "Running", "Stopping", "Stopped", "Failed"}
    BY DEF Next, Worker, Works, WorkerWakes, EngineStarts, EngineStartThrows,
       AnnounceStarted, OpenAdmission, StopsEngine, EngineStopped, ReportEnd,
       CloseTimeline, EndSession, Start, StartReturns, Stop, StopReturns,
       Acquire, Observe, HandleEvent, NestedStop, AppendRefused, EngineCall,
       EngineReturns, Release, CallbackStop, EngineEmits, RequestStop,
       Opened, StateAfterThrow
  <2>2. /\ start_requested' \in BOOLEAN /\ stop_requested' \in BOOLEAN
        /\ failure' \in BOOLEAN /\ capabilities' \in BOOLEAN
    BY DEF LoopType, Next, Worker, Works, WorkerWakes, EngineStarts,
       EngineStartThrows, AnnounceStarted, OpenAdmission, StopsEngine,
       EngineStopped, ReportEnd, CloseTimeline, EndSession, Start,
       StartReturns, Stop, StopReturns, Acquire, Observe, HandleEvent,
       NestedStop, AppendRefused, EngineCall, EngineReturns, Release,
       CallbackStop, EngineEmits, RequestStop
  <2> QED
    BY <2>1, <2>2, CountType
<1>2. LoopType'
  BY DEF LoopType, loop, Next, Worker, Works, WorkerWakes, EngineStarts,
     EngineStartThrows, AnnounceStarted, OpenAdmission, StopsEngine,
     EngineStopped, ReportEnd, CloseTimeline, EndSession, Start,
     StartReturns, Stop, StopReturns, Acquire, Observe, HandleEvent,
     NestedStop, AppendRefused, EngineCall, EngineReturns, Release,
     CallbackStop, EngineEmits, MustClean
<1>3. ClientType'
  BY DEF ClientType, clients, Next, Worker, Works, WorkerWakes, EngineStarts,
     EngineStartThrows, AnnounceStarted, OpenAdmission, StopsEngine,
     EngineStopped, ReportEnd, CloseTimeline, EndSession, Start,
     StartReturns, Stop, StopReturns, Acquire, Observe, HandleEvent,
     NestedStop, AppendRefused, EngineCall, EngineReturns, Release,
     CallbackStop, EngineEmits, AfterNestedStop
<1>4. WorldType'
  <2> USE DEF WorldType, world
  <2>1. \/ journal' = journal
        \/ \E e \in {"observed", "emitted", "Started", "Stopped", "Failed"} :
              journal' = Append(journal, e)
    BY DEF Next, Worker, Works, WorkerWakes, EngineStarts, EngineStartThrows,
       AnnounceStarted, OpenAdmission, StopsEngine, EngineStopped, ReportEnd,
       CloseTimeline, EndSession, Start, StartReturns, Stop, StopReturns,
       Acquire, Observe, HandleEvent, NestedStop, AppendRefused, EngineCall,
       EngineReturns, Release, CallbackStop, EngineEmits, PublishLifecycle,
       Admit
  <2>2. closed' \in BOOLEAN /\ unrecorded' \subseteq {"Started", "Stopped", "Failed"}
    BY DEF Next, Worker, Works, WorkerWakes, EngineStarts, EngineStartThrows,
       AnnounceStarted, OpenAdmission, StopsEngine, EngineStopped, ReportEnd,
       CloseTimeline, EndSession, Start, StartReturns, Stop, StopReturns,
       Acquire, Observe, HandleEvent, NestedStop, AppendRefused, EngineCall,
       EngineReturns, Release, CallbackStop, EngineEmits, PublishLifecycle
  <2>3. engine' \in {"off", "starting", "up", "broken", "stopping", "down"}
    BY DEF Next, Worker, Works, WorkerWakes, EngineStarts, EngineStartThrows,
       AnnounceStarted, OpenAdmission, StopsEngine, EngineStopped, ReportEnd,
       CloseTimeline, EndSession, Start, StartReturns, Stop, StopReturns,
       Acquire, Observe, HandleEvent, NestedStop, AppendRefused, EngineCall,
       EngineReturns, Release, CallbackStop, EngineEmits, MustClean
  <2>4. stop_calls' \in {stop_calls, stop_calls + 1}
    BY DEF Next, Worker, Works, WorkerWakes, EngineStarts, EngineStartThrows,
       AnnounceStarted, OpenAdmission, StopsEngine, EngineStopped, ReportEnd,
       CloseTimeline, EndSession, Start, StartReturns, Stop, StopReturns,
       Acquire, Observe, HandleEvent, NestedStop, AppendRefused, EngineCall,
       EngineReturns, Release, CallbackStop, EngineEmits
  <2>5. journal' \in Seq({"observed", "emitted", "Started", "Stopped", "Failed"})
    BY <2>1
  <2> QED
    BY <2>2, <2>3, <2>4, <2>5
<1> QED
  BY <1>1, <1>2, <1>3, <1>4

-----------------------------------------------------------------------------
(* Worker, engine and public state move together.                          *)
LEMMA EngineStep ==
  ASSUME IInv, Next
  PROVE  EnginePosition'
<1> USE DEF IInv, TypeOK, CoreType, LoopType, EnginePosition, PhasePosition,
            Early, Late, Terminal, core, loop, world, clients
<1>1. CASE WorkerWakes
  BY <1>1 DEF WorkerWakes
<1>2. CASE EngineStarts
  BY <1>2 DEF EngineStarts
<1>3. CASE EngineStartThrows
  BY <1>3 DEF EngineStartThrows, StateAfterThrow
<1>4. CASE AnnounceStarted
  BY <1>4 DEF AnnounceStarted, PublishLifecycle, Admit
<1>5. CASE OpenAdmission
  BY <1>5 DEF OpenAdmission, Opened
<1>6. CASE StopsEngine
  <2>1. stop_calls = 0
    BY <1>6 DEF StopsEngine, IInv, EnginePosition, Late
  <2>2. /\ worker' = IF attempted_start THEN "stopping" ELSE "report"
        /\ engine' = IF attempted_start THEN "stopping" ELSE "off"
        /\ stop_calls' = IF attempted_start THEN 1 ELSE 0
        /\ attempted_start' = attempted_start /\ local_failure' = local_failure
    BY <1>6, <2>1 DEF StopsEngine, MustClean, IInv, EnginePosition
  <2> QED
    BY <2>2 DEF IInv, TypeOK, LoopType, EnginePosition, Early, Late
<1>7. CASE EngineStopped
  BY <1>7 DEF EngineStopped
<1>8. CASE ReportEnd
  BY <1>8 DEF ReportEnd, PublishLifecycle, Admit
<1>9. CASE CloseTimeline
  BY <1>9 DEF CloseTimeline
<1>10. CASE EndSession
  BY <1>10 DEF EndSession
<1>11. ASSUME NEW c \in Starters, Start(c)  PROVE  EnginePosition'
  BY <1>11 DEF Start
<1>12. ASSUME NEW c \in Starters, StartReturns(c)  PROVE  EnginePosition'
  BY <1>12 DEF StartReturns
<1>13. ASSUME NEW c \in Stoppers, Stop(c)  PROVE  EnginePosition'
  BY <1>13 DEF Stop, RequestStop
<1>14. ASSUME NEW c \in Stoppers, StopReturns(c)  PROVE  EnginePosition'
  BY <1>14 DEF StopReturns
<1>15. ASSUME NEW c \in Callers, Acquire(c)  PROVE  EnginePosition'
  BY <1>15 DEF Acquire, Admissible
<1>16. ASSUME NEW c \in Callers, Observe(c)  PROVE  EnginePosition'
  BY <1>16 DEF Observe, Admit
<1>17. ASSUME NEW c \in Callers, HandleEvent(c)  PROVE  EnginePosition'
  BY <1>17 DEF HandleEvent, Admit
<1>18. ASSUME NEW c \in Callers, NestedStop(c)  PROVE  EnginePosition'
  BY <1>18 DEF NestedStop, RequestStop, AfterNestedStop
<1>19. ASSUME NEW c \in Callers, AppendRefused(c)  PROVE  EnginePosition'
  BY <1>19 DEF AppendRefused
<1>20. ASSUME NEW c \in Callers, EngineCall(c)  PROVE  EnginePosition'
  BY <1>20 DEF EngineCall
<1>21. ASSUME NEW c \in Callers, EngineReturns(c)  PROVE  EnginePosition'
  BY <1>21 DEF EngineReturns
<1>22. ASSUME NEW c \in Callers, Release(c)  PROVE  EnginePosition'
  BY <1>22 DEF Release
<1>23. CASE CallbackStop
  BY <1>23 DEF CallbackStop, RequestStop
<1>24. CASE EngineEmits
  BY <1>24 DEF EngineEmits, Admit
<1> QED
  BY <1>1, <1>2, <1>3, <1>4, <1>5, <1>6, <1>7, <1>8, <1>9, <1>10, <1>11,
         <1>12, <1>13, <1>14, <1>15, <1>16, <1>17, <1>18, <1>19, <1>20,
         <1>21, <1>22, <1>23, <1>24
     DEF Next, Worker, Works

LEMMA PhaseStep ==
  ASSUME IInv, Next
  PROVE  PhasePosition'
<1> USE DEF IInv, TypeOK, CoreType, LoopType, EnginePosition, PhasePosition,
            Early, Late, Terminal, EndEvent, core, loop, world, clients
<1>1. CASE WorkerWakes
  BY <1>1 DEF WorkerWakes
<1>2. CASE EngineStarts
  BY <1>2 DEF EngineStarts
<1>3. CASE EngineStartThrows
  BY <1>3 DEF EngineStartThrows, StateAfterThrow
<1>4. CASE AnnounceStarted
  BY <1>4 DEF AnnounceStarted, PublishLifecycle, Admit
<1>5. CASE OpenAdmission
  BY <1>5 DEF OpenAdmission, Opened
<1>6. CASE StopsEngine
  BY <1>6 DEF StopsEngine, Drained, MustClean
<1>7. CASE EngineStopped
  BY <1>7 DEF EngineStopped
<1>8. CASE ReportEnd
  BY <1>8 DEF ReportEnd, PublishLifecycle, Admit
<1>9. CASE CloseTimeline
  BY <1>9 DEF CloseTimeline
<1>10. CASE EndSession
  BY <1>10 DEF EndSession
<1>11. ASSUME NEW c \in Starters, Start(c)  PROVE  PhasePosition'
  BY <1>11 DEF Start
<1>12. ASSUME NEW c \in Starters, StartReturns(c)  PROVE  PhasePosition'
  BY <1>12 DEF StartReturns
<1>13. ASSUME NEW c \in Stoppers, Stop(c)  PROVE  PhasePosition'
  BY <1>13 DEF Stop, RequestStop
<1>14. ASSUME NEW c \in Stoppers, StopReturns(c)  PROVE  PhasePosition'
  BY <1>14 DEF StopReturns
<1>15. ASSUME NEW c \in Callers, Acquire(c)  PROVE  PhasePosition'
  BY <1>15 DEF Acquire, Admissible, Leases, Inside
<1>16. ASSUME NEW c \in Callers, Observe(c)  PROVE  PhasePosition'
  BY <1>16 DEF Observe, Admit, Leases, Inside
<1>17. ASSUME NEW c \in Callers, HandleEvent(c)  PROVE  PhasePosition'
  BY <1>17 DEF HandleEvent, Admit, Leases, Inside
<1>18. ASSUME NEW c \in Callers, NestedStop(c)  PROVE  PhasePosition'
  BY <1>18 DEF NestedStop, RequestStop, AfterNestedStop, Leases, Inside
<1>19. ASSUME NEW c \in Callers, AppendRefused(c)  PROVE  PhasePosition'
  BY <1>19 DEF AppendRefused, Leases, Inside
<1>20. ASSUME NEW c \in Callers, EngineCall(c)  PROVE  PhasePosition'
  BY <1>20 DEF EngineCall, Leases, Inside
<1>21. ASSUME NEW c \in Callers, EngineReturns(c)  PROVE  PhasePosition'
  BY <1>21 DEF EngineReturns, Leases, Inside
<1>22. ASSUME NEW c \in Callers, Release(c)  PROVE  PhasePosition'
  BY <1>22 DEF Release, Leases, Inside
<1>23. CASE CallbackStop
  BY <1>23 DEF CallbackStop, RequestStop
<1>24. CASE EngineEmits
  BY <1>24 DEF EngineEmits, Admit
<1> QED
  BY <1>1, <1>2, <1>3, <1>4, <1>5, <1>6, <1>7, <1>8, <1>9, <1>10, <1>11,
         <1>12, <1>13, <1>14, <1>15, <1>16, <1>17, <1>18, <1>19, <1>20,
         <1>21, <1>22, <1>23, <1>24
     DEF Next, Worker, Works

LEMMA ToldStep ==
  ASSUME IInv, Next
  PROVE  Told'
<1> USE DEF IInv, TypeOK, CoreType, LoopType, EnginePosition, PhasePosition,
            Early, Late, Terminal, EndEvent, ClientType, Told, core, loop,
            world, clients
<1>1. CASE WorkerWakes
  BY <1>1 DEF WorkerWakes
<1>2. CASE EngineStarts
  BY <1>2 DEF EngineStarts
<1>3. CASE EngineStartThrows
  BY <1>3 DEF EngineStartThrows, StateAfterThrow
<1>4. CASE AnnounceStarted
  BY <1>4 DEF AnnounceStarted, PublishLifecycle, Admit
<1>5. CASE OpenAdmission
  BY <1>5 DEF OpenAdmission, Opened
<1>6. CASE StopsEngine
  BY <1>6 DEF StopsEngine, Drained, MustClean
<1>7. CASE EngineStopped
  BY <1>7 DEF EngineStopped
<1>8. CASE ReportEnd
  BY <1>8 DEF ReportEnd, PublishLifecycle, Admit
<1>9. CASE CloseTimeline
  BY <1>9 DEF CloseTimeline
<1>10. CASE EndSession
  BY <1>10 DEF EndSession
<1>11. ASSUME NEW c \in Starters, Start(c)  PROVE  Told'
  BY <1>11 DEF Start
<1>12. ASSUME NEW c \in Starters, StartReturns(c)  PROVE  Told'
  BY <1>12 DEF StartReturns
<1>13. ASSUME NEW c \in Stoppers, Stop(c)  PROVE  Told'
  BY <1>13 DEF Stop, RequestStop
<1>14. ASSUME NEW c \in Stoppers, StopReturns(c)  PROVE  Told'
  BY <1>14 DEF StopReturns
<1>15. ASSUME NEW c \in Callers, Acquire(c)  PROVE  Told'
  BY <1>15 DEF Acquire, Admissible
<1>16. ASSUME NEW c \in Callers, Observe(c)  PROVE  Told'
  BY <1>16 DEF Observe, Admit
<1>17. ASSUME NEW c \in Callers, HandleEvent(c)  PROVE  Told'
  BY <1>17 DEF HandleEvent, Admit
<1>18. ASSUME NEW c \in Callers, NestedStop(c)  PROVE  Told'
  BY <1>18 DEF NestedStop, RequestStop, AfterNestedStop
<1>19. ASSUME NEW c \in Callers, AppendRefused(c)  PROVE  Told'
  BY <1>19 DEF AppendRefused
<1>20. ASSUME NEW c \in Callers, EngineCall(c)  PROVE  Told'
  BY <1>20 DEF EngineCall
<1>21. ASSUME NEW c \in Callers, EngineReturns(c)  PROVE  Told'
  BY <1>21 DEF EngineReturns
<1>22. ASSUME NEW c \in Callers, Release(c)  PROVE  Told'
  BY <1>22 DEF Release
<1>23. CASE CallbackStop
  BY <1>23 DEF CallbackStop, RequestStop
<1>24. CASE EngineEmits
  BY <1>24 DEF EngineEmits, Admit
<1> QED
  BY <1>1, <1>2, <1>3, <1>4, <1>5, <1>6, <1>7, <1>8, <1>9, <1>10, <1>11,
         <1>12, <1>13, <1>14, <1>15, <1>16, <1>17, <1>18, <1>19, <1>20,
         <1>21, <1>22, <1>23, <1>24
     DEF Next, Worker, Works

-----------------------------------------------------------------------------
(* The timeline.                                                           *)

LEMMA Appended ==
  ASSUME NEW S, NEW q \in Seq(S), NEW e \in S
  PROVE  /\ Append(q, e) \in Seq(S) /\ Append(q, e) # <<>>
         /\ Len(q) \in Nat /\ Len(Append(q, e)) = Len(q) + 1
         /\ \A i \in 1..Len(q) : Append(q, e)[i] = q[i]
         /\ Append(q, e)[Len(q) + 1] = e
  OBVIOUS

\* An observation or an emission before the worker reports the end.
LEMMA AdmitStep ==
  ASSUME TypeOK, Timeline, NEW e \in {"observed", "emitted"}, Admit(e),
         worker \notin {"close", "end", "exited"},
         UNCHANGED <<worker, closed, unrecorded, local_failure>>
  PROVE  Timeline'
<1>1. journal' = Append(journal, e)
  BY DEF Timeline, Admit
<1> QED
  BY <1>1, Appended DEF TypeOK, WorldType, Timeline, IsEnd, EndEvent

LEMMA TimelineStep ==
  ASSUME IInv, Next
  PROVE  Timeline'
<1> USE DEF IInv, Timeline, IsEnd, EndEvent, core, loop, world, clients
<1>1. CASE WorkerWakes
  BY <1>1 DEF WorkerWakes
<1>2. CASE EngineStarts
  BY <1>2 DEF EngineStarts
<1>3. CASE EngineStartThrows
  BY <1>3 DEF EngineStartThrows, StateAfterThrow
<1>4. CASE AnnounceStarted
  <2>1. ~closed
    BY <1>4 DEF AnnounceStarted, IInv, Timeline
  <2>2. CASE journal' = journal
    BY <1>4, <2>2 DEF AnnounceStarted, IInv, Timeline, IsEnd, EndEvent
  <2>3. CASE journal' = Append(journal, "Started")
    BY <1>4, <2>3, Appended
       DEF AnnounceStarted, IInv, TypeOK, WorldType, Timeline, IsEnd, EndEvent
  <2> QED
    BY <1>4, <2>1, <2>2, <2>3 DEF AnnounceStarted, PublishLifecycle, Admit
<1>5. CASE OpenAdmission
  BY <1>5 DEF OpenAdmission, Opened
<1>6. CASE StopsEngine
  BY <1>6 DEF StopsEngine, Drained, MustClean
<1>7. CASE EngineStopped
  BY <1>7 DEF EngineStopped
<1>8. CASE ReportEnd
  <2>1. ~closed
    BY <1>8 DEF ReportEnd, IInv, Timeline
  <2>2. CASE journal' = journal /\ unrecorded' = unrecorded \union {EndEvent}
    BY <1>8, <2>2 DEF ReportEnd, IInv, Timeline, IsEnd, EndEvent
  <2>3. CASE journal' = Append(journal, EndEvent)
    BY <1>8, <2>3, Appended
       DEF ReportEnd, IInv, TypeOK, WorldType, Timeline, IsEnd, EndEvent
  <2> QED
    BY <1>8, <2>1, <2>2, <2>3 DEF ReportEnd, PublishLifecycle, Admit, EndEvent
<1>9. CASE CloseTimeline
  BY <1>9 DEF CloseTimeline
<1>10. CASE EndSession
  BY <1>10 DEF EndSession
<1>11. ASSUME NEW c \in Starters, Start(c)  PROVE  Timeline'
  BY <1>11 DEF Start
<1>12. ASSUME NEW c \in Starters, StartReturns(c)  PROVE  Timeline'
  BY <1>12 DEF StartReturns
<1>13. ASSUME NEW c \in Stoppers, Stop(c)  PROVE  Timeline'
  BY <1>13 DEF Stop, RequestStop
<1>14. ASSUME NEW c \in Stoppers, StopReturns(c)  PROVE  Timeline'
  BY <1>14 DEF StopReturns
<1>15. ASSUME NEW c \in Callers, Acquire(c)  PROVE  Timeline'
  BY <1>15 DEF Acquire, Admissible
<1>16. ASSUME NEW c \in Callers, Observe(c)  PROVE  Timeline'
  <2>1. worker = "drain"
    BY <1>16 DEF Observe, IInv, Leases, Inside
  <2> QED
    BY <1>16, <2>1, AdmitStep DEF Observe, IInv, loop
<1>17. ASSUME NEW c \in Callers, HandleEvent(c)  PROVE  Timeline'
  <2>1. worker = "drain"
    BY <1>17 DEF HandleEvent, IInv, Leases, Inside
  <2> QED
    BY <1>17, <2>1, AdmitStep DEF HandleEvent, IInv, loop
<1>18. ASSUME NEW c \in Callers, NestedStop(c)  PROVE  Timeline'
  BY <1>18 DEF NestedStop, RequestStop, AfterNestedStop
<1>19. ASSUME NEW c \in Callers, AppendRefused(c)  PROVE  Timeline'
  BY <1>19 DEF AppendRefused
<1>20. ASSUME NEW c \in Callers, EngineCall(c)  PROVE  Timeline'
  BY <1>20 DEF EngineCall
<1>21. ASSUME NEW c \in Callers, EngineReturns(c)  PROVE  Timeline'
  BY <1>21 DEF EngineReturns
<1>22. ASSUME NEW c \in Callers, Release(c)  PROVE  Timeline'
  BY <1>22 DEF Release
<1>23. CASE CallbackStop
  BY <1>23 DEF CallbackStop, RequestStop
<1>24. CASE EngineEmits
  <2>1. worker \notin {"close", "end", "exited"}
    BY <1>24 DEF EngineEmits, IInv, EnginePosition
  <2> QED
    BY <1>24, <2>1, AdmitStep DEF EngineEmits, IInv, loop
<1> QED
  BY <1>1, <1>2, <1>3, <1>4, <1>5, <1>6, <1>7, <1>8, <1>9, <1>10, <1>11,
         <1>12, <1>13, <1>14, <1>15, <1>16, <1>17, <1>18, <1>19, <1>20,
         <1>21, <1>22, <1>23, <1>24
     DEF Next, Worker, Works

-----------------------------------------------------------------------------
(* The theorems.                                                           *)

LEMMA InvInit == Init => IInv
<1> SUFFICES ASSUME Init  PROVE  IInv
  OBVIOUS
<1>1. Inside = {}
  BY DEF Init, Inside
<1>2. Leases
  BY <1>1, FS_EmptySet DEF Init, Leases, Late
<1>3. CoreType
  <2>1. active_operations \in 0..Cardinality(Callers)
    BY ThreadsAssumption, FS_CardinalityType DEF Init
  <2> QED
    BY <2>1 DEF Init, CoreType
<1>4. LoopType /\ WorldType /\ ClientType
  <2>1. LoopType
    BY DEF Init, LoopType
  <2>2. WorldType
    <3>1. journal \in Seq({"observed", "emitted", "Started", "Stopped", "Failed"})
      BY DEF Init
    <3> QED
      BY <3>1 DEF Init, WorldType
  <2>3. ClientType
    BY DEF Init, ClientType
  <2> QED
    BY <2>1, <2>2, <2>3
<1>5. EnginePosition /\ PhasePosition
  BY DEF Init, EnginePosition, PhasePosition, Early, Late, Terminal
<1>6. Timeline /\ Told
  BY DEF Init, Timeline, Told
<1> QED
  BY <1>2, <1>3, <1>4, <1>5, <1>6 DEF IInv, TypeOK

LEMMA InvStep == IInv /\ [Next]_vars => IInv'
<1> SUFFICES ASSUME IInv, [Next]_vars  PROVE  IInv'
  OBVIOUS
<1>1. CASE Next
  BY <1>1, TypeStep, EngineStep, PhaseStep, LeasesStep, TimelineStep, ToldStep
     DEF IInv
<1>2. CASE UNCHANGED vars
  <2> USE <1>2 DEF vars, core, loop, world, clients
  <2>1. TypeOK'
    <3>1. CoreType' /\ LoopType'
      BY DEF IInv, TypeOK, CoreType, LoopType
    <3>2. WorldType'
      BY DEF IInv, TypeOK, WorldType
    <3>3. ClientType'
      BY DEF IInv, TypeOK, ClientType
    <3> QED
      BY <3>1, <3>2, <3>3 DEF TypeOK
  <2>2. EnginePosition' /\ PhasePosition'
    BY DEF IInv, EnginePosition, PhasePosition, EndEvent
  <2>3. Leases' /\ Timeline' /\ Told'
    BY DEF IInv, Leases, Inside, Timeline, Told, EndEvent
  <2> QED
    BY <2>1, <2>2, <2>3 DEF IInv
<1> QED
  BY <1>1, <1>2

LEMMA InvSafe == IInv => SessionSafe
<1> SUFFICES ASSUME IInv  PROVE  SessionSafe
  OBVIOUS
<1>1. EngineFenced
  BY DEF IInv, Leases, Inside, EngineFenced
<1>2. StopOnce
  BY DEF IInv, EnginePosition, PhasePosition, Late, StopOnce
<1>3. JournalEnds
  BY DEF IInv, PhasePosition, Timeline, JournalEnds
<1>4. StartTellsTheTruth
  BY DEF IInv, TypeOK, CoreType, LoopType, EnginePosition, PhasePosition, EndEvent,
         Told, StartTellsTheTruth
<1> QED
  BY <1>1, <1>2, <1>3, <1>4 DEF IInv, SessionSafe

\* Every reachable state satisfies the inductive invariant: the position of the
\* lifecycle worker in lifecycle_loop determines engine, stop calls and timeline.
THEOREM Invariance == Spec => []IInv
<1> QED
  BY InvInit, InvStep, PTL DEF Spec

\* However many threads call start(), stop() and the operations: no admitted
\* call meets an engine that is not up, engine_->stop() runs exactly once after an
\* attempted start, the journal ends with the one terminal event, and start()
\* tells each caller the truth.
THEOREM SessionIsSafe == Spec => []SessionSafe
<1> QED
  BY Invariance, InvSafe, PTL

-----------------------------------------------------------------------------
(***************************************************************************)
(* The refinement of SessionLifecycle, one action at a time.  Every action *)
(* is one of its steps or leaves phase, leases and cleanliness alone.      *)
(***************************************************************************)

\* The engine has to be cleaned up.
Unclean == engine \in {"starting", "up", "broken", "stopping"}
ContractMove == [Contract!Next]_<<lifecycle, active_operations, Unclean>>

LEMMA ContractStep ==
  ASSUME IInv, Next
  PROVE  ContractMove
<1> USE DEF ContractMove, Unclean, IInv, TypeOK, CoreType, LoopType,
            EnginePosition, PhasePosition, Leases, Inside, Early, Late,
            Terminal, core, loop, world, clients
<1>1. CASE WorkerWakes
  BY <1>1 DEF WorkerWakes, Contract!Next, Contract!Dirty
<1>2. CASE EngineStarts
  BY <1>2 DEF EngineStarts
<1>3. CASE EngineStartThrows
  BY <1>3 DEF EngineStartThrows, StateAfterThrow, Contract!Next,
         Contract!Close
<1>4. CASE AnnounceStarted
  BY <1>4 DEF AnnounceStarted, PublishLifecycle, Admit
<1>5. CASE OpenAdmission
  BY <1>5 DEF OpenAdmission, Opened, Contract!Next, Contract!Open
<1>6. CASE StopsEngine
  BY <1>6 DEF StopsEngine, Drained, MustClean
<1>7. CASE EngineStopped
  BY <1>7 DEF EngineStopped, Contract!Next, Contract!Clean
<1>8. CASE ReportEnd
  BY <1>8 DEF ReportEnd, PublishLifecycle, Admit
<1>9. CASE CloseTimeline
  BY <1>9 DEF CloseTimeline
<1>10. CASE EndSession
  BY <1>10 DEF EndSession, Contract!Next, Contract!End
<1>11. ASSUME NEW c \in Starters, Start(c)  PROVE  ContractMove
  BY <1>11 DEF Start, Contract!Next, Contract!Begin
<1>12. ASSUME NEW c \in Starters, StartReturns(c)  PROVE  ContractMove
  BY <1>12 DEF StartReturns
<1>13. ASSUME NEW c \in Stoppers, Stop(c)  PROVE  ContractMove
  BY <1>13 DEF Stop, RequestStop, Contract!Next, Contract!Close
<1>14. ASSUME NEW c \in Stoppers, StopReturns(c)  PROVE  ContractMove
  BY <1>14 DEF StopReturns
<1>15. ASSUME NEW c \in Callers, Acquire(c)  PROVE  ContractMove
  BY <1>15 DEF Acquire, Admissible, Contract!Next, Contract!Enter
<1>16. ASSUME NEW c \in Callers, Observe(c)  PROVE  ContractMove
  BY <1>16 DEF Observe, Admit
<1>17. ASSUME NEW c \in Callers, HandleEvent(c)  PROVE  ContractMove
  BY <1>17 DEF HandleEvent, Admit
<1>18. ASSUME NEW c \in Callers, NestedStop(c)  PROVE  ContractMove
  BY <1>18 DEF NestedStop, RequestStop, AfterNestedStop, Contract!Next,
         Contract!Close
<1>19. ASSUME NEW c \in Callers, AppendRefused(c)  PROVE  ContractMove
  BY <1>19 DEF AppendRefused
<1>20. ASSUME NEW c \in Callers, EngineCall(c)  PROVE  ContractMove
  BY <1>20 DEF EngineCall
<1>21. ASSUME NEW c \in Callers, EngineReturns(c)  PROVE  ContractMove
  BY <1>21 DEF EngineReturns
<1>22. ASSUME NEW c \in Callers, Release(c)  PROVE  ContractMove
  <2>1. c \in Inside
    BY <1>22 DEF Release
  <2>2. active_operations > 0
    BY <2>1, NoneInside 
  <2> QED
    BY <1>22, <2>2 DEF Release, loop, world, Contract!Next, Contract!Leave
<1>23. CASE CallbackStop
  BY <1>23 DEF CallbackStop, RequestStop, Contract!Next, Contract!Close
<1>24. CASE EngineEmits
  BY <1>24 DEF EngineEmits, Admit
<1> QED
  BY <1>1, <1>2, <1>3, <1>4, <1>5, <1>6, <1>7, <1>8, <1>9, <1>10, <1>11,
         <1>12, <1>13, <1>14, <1>15, <1>16, <1>17, <1>18, <1>19, <1>20,
         <1>21, <1>22, <1>23, <1>24
     DEF Next, Worker, Works

\* The session implements the forward-only lifetime it promises its owner: the
\* engine is entered only while Running, a stop request closes the door for good,
\* and the session is over only when the calls have left and the engine was stopped.
THEOREM Refinement == Spec => ImplementsLifecycle
<1>1. Init => Contract!Init
  BY DEF Init, Contract!Init
<1>2. IInv /\ [Next]_vars => ContractMove
  <2>1. ASSUME UNCHANGED vars
        PROVE  UNCHANGED <<lifecycle, active_operations, Unclean>>
    BY <2>1 DEF vars, core, world, Unclean
  <2> QED
    BY <2>1, ContractStep DEF ContractMove
<1> QED
  BY <1>1, <1>2, Invariance, PTL
     DEF Spec, ImplementsLifecycle, Contract!Spec, ContractMove, Unclean

=============================================================================
