---------------------- MODULE VoiceChatConnectionProofs ----------------------
(***************************************************************************)
(* Theorems about VoiceChatConnection, for any output limit, any liveness  *)
(* timeout and any number of incarnations, outputs and ticks.              *)
(***************************************************************************)
EXTENDS VoiceChatConnection, TLAPS

-----------------------------------------------------------------------------
(***************************************************************************)
(* The inductive invariant.  The connection looks at the manager and at    *)
(* the route at different moments; what makes its view safe is what can no *)
(* longer change once it was seen.                                         *)
(***************************************************************************)

\* A client's operation runs on a live connection, and refresh() looks at an
\* admission that exists.
OpPlaced ==
    /\ op.name \notin {"none", "tick"} => connected
    /\ op.at \notin {"idle", "finish"} => admission # 0
    /\ op.name = "acknowledge" => admission # 0

\* The tickets of the current incarnation agree with what find() says.
TicketsAgree ==
    /\ admission = 0 <=> session = "None"
    /\ retired <=> session = "Erased"
    /\ started = "NotStarted" => session \in Manager!Stopping

\* The player's acknowledgement is for this incarnation.
AckCurrent == player_stopped => admission \in acked

\* The queue ends with what the session produced last; a closed route is empty.
RouteCurrent ==
    /\ ~open => queue = <<>>
    /\ open => IF queue = <<>> THEN taken = produced ELSE queue[Len(queue)] = produced

IInv == /\ TypeOK /\ OpPlaced /\ TicketsAgree /\ AckCurrent /\ RouteCurrent
        /\ PhaseHonest /\ FlushFinal /\ GaplessOutput

-----------------------------------------------------------------------------
(* Types.                                                                  *)

LEMMA LastElement ==
  ASSUME NEW S, NEW q \in Seq(S), q # <<>>
  PROVE  q[Len(q)] \in S
<1>1. Len(q) \in 1..Len(q)
  OBVIOUS
<1> QED
  BY <1>1

LEMMA BindingTypeStep ==
  ASSUME TypeOK, Next
  PROVE  BindingType'
<1> USE DEF TypeOK, BindingType, ChatPhases, Codes, Steps, Idle, binding, route,
            manager, history
<1>1. ASSUME NEW fits \in BOOLEAN, RouteAppend(fits)  PROVE  BindingType'
  BY <1>1, BoundAssumption DEF RouteAppend, Wired, StaysOpen
<1>2. CASE ManagerRuns
  BY <1>2, BoundAssumption DEF ManagerRuns, Manager!Begin, Manager!Open,
     Manager!Refuse, Manager!TakeDown, Manager!Erase, Manager!Stop
<1>3. CASE RefreshOverflow
  BY <1>3, BoundAssumption DEF RefreshOverflow, close_route, StopSession,
     Manager!Stop, Goes
<1>4. CASE RefreshRetired
  BY <1>4, BoundAssumption DEF RefreshRetired, close_route, Goes
<1>5. CASE RefreshFind
  BY <1>5, BoundAssumption DEF RefreshFind, close_route, Goes
<1>6. CASE RefreshStarted
  BY <1>6, BoundAssumption DEF RefreshStarted, Goes
<1>7. ASSUME NEW name \in Codes, Calls(name)  PROVE  BindingType'
  BY <1>7, BoundAssumption DEF Calls, Enter, Free
<1>8. CASE Returns
  BY <1>8, BoundAssumption DEF Returns, Declined, Finish
<1>9. CASE StartAccepted
  <2>1. admission' \in 0..MaxIncarnations
    BY <1>9, BoundAssumption DEF StartAccepted
  <2>2. op' \in [name : Codes, at : Steps]
    BY <1>9 DEF StartAccepted
  <2> QED
    BY <1>9, <2>1, <2>2 DEF StartAccepted, PlayerState
<1>10. CASE StartRejected
  BY <1>10, BoundAssumption DEF StartRejected, Finish
<1>11. CASE PushAudio
  BY <1>11, BoundAssumption DEF PushAudio, Finish, Manager!Stop
<1>12. CASE InvalidAudio
  BY <1>12, BoundAssumption DEF InvalidAudio, Finish
<1>13. CASE TakeOutput
  BY <1>13, BoundAssumption DEF TakeOutput, Finish
<1>14. CASE AcknowledgePlayerStop
  BY <1>14, BoundAssumption DEF AcknowledgePlayerStop, Finish
<1>15. CASE StopCall
  BY <1>15, BoundAssumption DEF StopCall, Enter, Free, stop_locked, close_route,
     Removes, StopSession, Manager!Stop
<1>16. CASE Disconnect
  BY <1>16, BoundAssumption DEF Disconnect, Free, stop_locked, close_route,
     Removes, StopSession, Manager!Stop
<1>17. ASSUME NEW now \in 0..clock, Heartbeat(now)  PROVE  BindingType'
  BY <1>17, BoundAssumption DEF Heartbeat, Free, Expired, stop_locked,
     close_route, Removes, StopSession, Manager!Stop
<1>18. CASE Tick
  BY <1>18, BoundAssumption DEF Tick, Free, Expired, stop_locked, close_route,
     Removes, StopSession, Manager!Stop
<1>19. CASE TimePasses
  BY <1>19, BoundAssumption DEF TimePasses
<1> QED
  BY <1>1, <1>2, <1>3, <1>4, <1>5, <1>6, <1>7, <1>8, <1>9, <1>10, <1>11, <1>12,
     <1>13, <1>14, <1>15, <1>16, <1>17, <1>18, <1>19 DEF
     Next, Client, Host, Continues, Codes

LEMMA RouteTypeStep ==
  ASSUME TypeOK, Next
  PROVE  RouteType'
<1> USE DEF TypeOK, RouteType, binding, route, manager, history
<1>0. /\ <<>> \in Seq(1..MaxOutputs) /\ Len(<<>>) <= MaxOutputMessages
      /\ 0 \in 0..MaxOutputs
  BY BoundAssumption, LimitsAssumption
<1>1. ASSUME NEW fits \in BOOLEAN, RouteAppend(fits)  PROVE  RouteType'
  <2>1. produced' \in 1..MaxOutputs /\ produced' = produced + 1 /\ taken' = taken
    BY <1>1, BoundAssumption DEF RouteAppend
  <2>2. open' \in BOOLEAN /\ overflow' \in BOOLEAN
    BY <1>1 DEF RouteAppend, StaysOpen
  <2>3. queue' \in Seq(1..MaxOutputs) /\ Len(queue') <= MaxOutputMessages
    <3>1. CASE queue' = queue \/ queue' = <<>>
      BY <3>1, <1>0
    <3>2. CASE queue' = Append(queue, produced + 1) /\ Len(queue) < MaxOutputMessages
      BY <3>2, <2>1, LimitsAssumption
    <3> QED
      BY <1>1, <3>1, <3>2 DEF RouteAppend
  <2> QED
    BY <2>1, <2>2, <2>3
<1>2. CASE ManagerRuns
  BY <1>2, <1>0 DEF ManagerRuns, Manager!Begin, Manager!Open, Manager!Refuse,
     Manager!TakeDown, Manager!Erase, Manager!Stop
<1>3. CASE RefreshOverflow
  BY <1>3, <1>0 DEF RefreshOverflow, close_route, StopSession, Manager!Stop, Goes
<1>4. CASE RefreshRetired
  BY <1>4, <1>0 DEF RefreshRetired, close_route, Goes
<1>5. CASE RefreshFind
  BY <1>5, <1>0 DEF RefreshFind, close_route, Goes
<1>6. CASE RefreshStarted
  BY <1>6, <1>0 DEF RefreshStarted, Goes
<1>7. ASSUME NEW name \in Codes, Calls(name)  PROVE  RouteType'
  BY <1>7, <1>0 DEF Calls, Enter, Free
<1>8. CASE Returns
  BY <1>8, <1>0 DEF Returns, Declined, Finish
<1>9. CASE StartAccepted
  BY <1>9, <1>0 DEF StartAccepted, Finish, Restartable, PlayerState
<1>10. CASE StartRejected
  BY <1>10, <1>0 DEF StartRejected, Finish
<1>11. CASE PushAudio
  BY <1>11, <1>0 DEF PushAudio, Finish, Manager!Stop
<1>12. CASE InvalidAudio
  BY <1>12, <1>0 DEF InvalidAudio, Finish
<1>13. CASE TakeOutput
  <2>1. queue # <<>> => queue[Len(queue)] \in 1..MaxOutputs
    BY LastElement
  <2>2. taken' \in 0..MaxOutputs
    BY <1>13, <2>1 DEF TakeOutput
  <2> QED
    BY <1>13, <1>0, <2>2 DEF TakeOutput
<1>14. CASE AcknowledgePlayerStop
  BY <1>14, <1>0 DEF AcknowledgePlayerStop, Finish
<1>15. CASE StopCall
  BY <1>15, <1>0 DEF StopCall, Enter, Free, stop_locked, close_route, Removes,
     StopSession, Manager!Stop
<1>16. CASE Disconnect
  BY <1>16, <1>0 DEF Disconnect, Free, stop_locked, close_route, Removes,
     StopSession, Manager!Stop
<1>17. ASSUME NEW now \in 0..clock, Heartbeat(now)  PROVE  RouteType'
  BY <1>17, <1>0 DEF Heartbeat, Free, Expired, stop_locked, close_route, Removes,
     StopSession, Manager!Stop
<1>18. CASE Tick
  BY <1>18, <1>0 DEF Tick, Free, Expired, stop_locked, close_route, Removes,
     StopSession, Manager!Stop
<1>19. CASE TimePasses
  BY <1>19, <1>0 DEF TimePasses
<1> QED
  BY <1>1, <1>2, <1>3, <1>4, <1>5, <1>6, <1>7, <1>8, <1>9, <1>10, <1>11, <1>12,
     <1>13, <1>14, <1>15, <1>16, <1>17, <1>18, <1>19 DEF
     Next, Client, Host, Continues, Codes

LEMMA ManagerTypeStep ==
  ASSUME TypeOK, OpPlaced, Next
  PROVE  ManagerType'
<1> USE DEF TypeOK, BindingType, ManagerType, Manager!Live, Manager!Stopping,
            binding, route, manager, history
<1>1. ASSUME NEW fits \in BOOLEAN, RouteAppend(fits)  PROVE  ManagerType'
  BY <1>1 DEF RouteAppend, Wired, StaysOpen
<1>2. CASE ManagerRuns
  BY <1>2 DEF ManagerRuns, Manager!Begin, Manager!Open, Manager!Refuse,
     Manager!TakeDown, Manager!Erase, Manager!Stop
<1>3. CASE RefreshOverflow
  BY <1>3 DEF RefreshOverflow, close_route, StopSession, Manager!Stop, Goes
<1>4. CASE RefreshRetired
  BY <1>4 DEF RefreshRetired, close_route, Goes
<1>5. CASE RefreshFind
  BY <1>5 DEF RefreshFind, close_route, Goes
<1>6. CASE RefreshStarted
  BY <1>6 DEF RefreshStarted, Goes
<1>7. ASSUME NEW name \in Codes, Calls(name)  PROVE  ManagerType'
  BY <1>7 DEF Calls, Enter, Free
<1>8. CASE Returns
  BY <1>8 DEF Returns, Declined, Finish
<1>9. CASE StartAccepted
  BY <1>9 DEF StartAccepted, Finish, Restartable, PlayerState
<1>10. CASE StartRejected
  BY <1>10 DEF StartRejected, Finish
<1>11. CASE PushAudio
  BY <1>11 DEF PushAudio, Finish, Manager!Stop
<1>12. CASE InvalidAudio
  BY <1>12 DEF InvalidAudio, Finish
<1>13. CASE TakeOutput
  BY <1>13 DEF TakeOutput, Finish
<1>14. CASE AcknowledgePlayerStop
  BY <1>14 DEF AcknowledgePlayerStop, Finish, OpPlaced
<1>15. CASE StopCall
  BY <1>15 DEF StopCall, Enter, Free, stop_locked, close_route, Removes,
     StopSession, Manager!Stop
<1>16. CASE Disconnect
  BY <1>16 DEF Disconnect, Free, stop_locked, close_route, Removes, StopSession,
     Manager!Stop
<1>17. ASSUME NEW now \in 0..clock, Heartbeat(now)  PROVE  ManagerType'
  BY <1>17 DEF Heartbeat, Free, Expired, stop_locked, close_route, Removes,
     StopSession, Manager!Stop
<1>18. CASE Tick
  BY <1>18 DEF Tick, Free, Expired, stop_locked, close_route, Removes,
     StopSession, Manager!Stop
<1>19. CASE TimePasses
  BY <1>19 DEF TimePasses
<1> QED
  BY <1>1, <1>2, <1>3, <1>4, <1>5, <1>6, <1>7, <1>8, <1>9, <1>10, <1>11, <1>12,
     <1>13, <1>14, <1>15, <1>16, <1>17, <1>18, <1>19 DEF
     Next, Client, Host, Continues, Codes

-----------------------------------------------------------------------------
(* What the connection saw stays true.                                     *)
LEMMA OpStep ==
  ASSUME IInv, Next
  PROVE  OpPlaced'
<1> USE DEF IInv, TypeOK, BindingType, OpPlaced, Codes, Steps, Idle, Free,
            binding, route, manager, history
<1>1. ASSUME NEW fits \in BOOLEAN, RouteAppend(fits)  PROVE  OpPlaced'
  BY <1>1 DEF RouteAppend, Wired, StaysOpen
<1>2. CASE ManagerRuns
  BY <1>2 DEF ManagerRuns, Manager!Begin, Manager!Open, Manager!Refuse,
     Manager!TakeDown, Manager!Erase, Manager!Stop
<1>3. CASE RefreshOverflow
  BY <1>3 DEF RefreshOverflow, close_route, StopSession, Manager!Stop, Goes
<1>4. CASE RefreshRetired
  BY <1>4 DEF RefreshRetired, close_route, Goes
<1>5. CASE RefreshFind
  BY <1>5 DEF RefreshFind, close_route, Goes
<1>6. CASE RefreshStarted
  BY <1>6 DEF RefreshStarted, Goes
<1>7. ASSUME NEW name \in Codes, Calls(name)  PROVE  OpPlaced'
  BY <1>7 DEF Calls, Enter
<1>8. CASE Returns
  BY <1>8 DEF Returns, Declined, Finish
<1>9. CASE StartAccepted
  BY <1>9 DEF StartAccepted, Finish, Restartable, PlayerState
<1>10. CASE StartRejected
  BY <1>10 DEF StartRejected, Finish
<1>11. CASE PushAudio
  BY <1>11 DEF PushAudio, Finish, Manager!Stop, PhaseHonest
<1>12. CASE InvalidAudio
  BY <1>12 DEF InvalidAudio, Finish
<1>13. CASE TakeOutput
  BY <1>13 DEF TakeOutput, Finish
<1>14. CASE AcknowledgePlayerStop
  BY <1>14 DEF AcknowledgePlayerStop, Finish
<1>15. CASE StopCall
  BY <1>15 DEF StopCall, Enter, stop_locked, close_route, Removes, StopSession,
     Manager!Stop
<1>16. CASE Disconnect
  BY <1>16 DEF Disconnect, stop_locked, close_route, Removes, StopSession,
     Manager!Stop
<1>17. ASSUME NEW now \in 0..clock, Heartbeat(now)  PROVE  OpPlaced'
  BY <1>17 DEF Heartbeat, Expired, stop_locked, close_route, Removes, StopSession,
     Manager!Stop
<1>18. CASE Tick
  BY <1>18 DEF Tick, Expired, stop_locked, close_route, Removes, StopSession,
     Manager!Stop
<1>19. CASE TimePasses
  BY <1>19 DEF TimePasses
<1> QED
  BY <1>1, <1>2, <1>3, <1>4, <1>5, <1>6, <1>7, <1>8, <1>9, <1>10, <1>11, <1>12,
     <1>13, <1>14, <1>15, <1>16, <1>17, <1>18, <1>19 DEF
     Next, Client, Host, Continues, Codes

LEMMA TicketStep ==
  ASSUME IInv, Next
  PROVE  TicketsAgree'
<1> USE DEF IInv, TypeOK, BindingType, ManagerType, TicketsAgree, Manager!Live,
            Manager!Stopping, binding, route, manager, history
<1>1. ASSUME NEW fits \in BOOLEAN, RouteAppend(fits)  PROVE  TicketsAgree'
  BY <1>1 DEF RouteAppend, Wired, StaysOpen
<1>2. CASE ManagerRuns
  BY <1>2 DEF ManagerRuns, Manager!Begin, Manager!Open, Manager!Refuse,
     Manager!TakeDown, Manager!Erase, Manager!Stop
<1>3. CASE RefreshOverflow
  BY <1>3 DEF RefreshOverflow, close_route, StopSession, Manager!Stop, Goes
<1>4. CASE RefreshRetired
  BY <1>4 DEF RefreshRetired, close_route, Goes
<1>5. CASE RefreshFind
  BY <1>5 DEF RefreshFind, close_route, Goes
<1>6. CASE RefreshStarted
  BY <1>6 DEF RefreshStarted, Goes
<1>7. ASSUME NEW name \in Codes, Calls(name)  PROVE  TicketsAgree'
  BY <1>7 DEF Calls, Enter, Free
<1>8. CASE Returns
  BY <1>8 DEF Returns, Declined, Finish
<1>9. CASE StartAccepted
  BY <1>9 DEF StartAccepted, Finish, Restartable, PlayerState
<1>10. CASE StartRejected
  BY <1>10 DEF StartRejected, Finish
<1>11. CASE PushAudio
  BY <1>11 DEF PushAudio, Finish, Manager!Stop
<1>12. CASE InvalidAudio
  BY <1>12 DEF InvalidAudio, Finish
<1>13. CASE TakeOutput
  BY <1>13 DEF TakeOutput, Finish
<1>14. CASE AcknowledgePlayerStop
  BY <1>14 DEF AcknowledgePlayerStop, Finish
<1>15. CASE StopCall
  BY <1>15 DEF StopCall, Enter, Free, stop_locked, close_route, Removes,
     StopSession, Manager!Stop
<1>16. CASE Disconnect
  BY <1>16 DEF Disconnect, Free, stop_locked, close_route, Removes, StopSession,
     Manager!Stop
<1>17. ASSUME NEW now \in 0..clock, Heartbeat(now)  PROVE  TicketsAgree'
  BY <1>17 DEF Heartbeat, Free, Expired, stop_locked, close_route, Removes,
     StopSession, Manager!Stop
<1>18. CASE Tick
  BY <1>18 DEF Tick, Free, Expired, stop_locked, close_route, Removes,
     StopSession, Manager!Stop
<1>19. CASE TimePasses
  BY <1>19 DEF TimePasses
<1> QED
  BY <1>1, <1>2, <1>3, <1>4, <1>5, <1>6, <1>7, <1>8, <1>9, <1>10, <1>11, <1>12,
     <1>13, <1>14, <1>15, <1>16, <1>17, <1>18, <1>19 DEF
     Next, Client, Host, Continues, Codes

LEMMA AckStep ==
  ASSUME IInv, Next
  PROVE  AckCurrent'
<1> USE DEF IInv, TypeOK, BindingType, AckCurrent, binding, route, manager,
            history
<1>1. ASSUME NEW fits \in BOOLEAN, RouteAppend(fits)  PROVE  AckCurrent'
  BY <1>1 DEF RouteAppend, Wired, StaysOpen
<1>2. CASE ManagerRuns
  BY <1>2 DEF ManagerRuns, Manager!Begin, Manager!Open, Manager!Refuse,
     Manager!TakeDown, Manager!Erase, Manager!Stop
<1>3. CASE RefreshOverflow
  BY <1>3 DEF RefreshOverflow, close_route, StopSession, Manager!Stop, Goes
<1>4. CASE RefreshRetired
  BY <1>4 DEF RefreshRetired, close_route, Goes
<1>5. CASE RefreshFind
  BY <1>5 DEF RefreshFind, close_route, Goes
<1>6. CASE RefreshStarted
  BY <1>6 DEF RefreshStarted, Goes
<1>7. ASSUME NEW name \in Codes, Calls(name)  PROVE  AckCurrent'
  BY <1>7 DEF Calls, Enter, Free
<1>8. CASE Returns
  BY <1>8 DEF Returns, Declined, Finish
<1>9. CASE StartAccepted
  BY <1>9 DEF StartAccepted, Finish, Restartable, PlayerState
<1>10. CASE StartRejected
  BY <1>10 DEF StartRejected, Finish
<1>11. CASE PushAudio
  BY <1>11 DEF PushAudio, Finish, Manager!Stop
<1>12. CASE InvalidAudio
  BY <1>12 DEF InvalidAudio, Finish
<1>13. CASE TakeOutput
  BY <1>13 DEF TakeOutput, Finish
<1>14. CASE AcknowledgePlayerStop
  BY <1>14 DEF AcknowledgePlayerStop, Finish
<1>15. CASE StopCall
  BY <1>15 DEF StopCall, Enter, Free, stop_locked, close_route, Removes,
     StopSession, Manager!Stop
<1>16. CASE Disconnect
  BY <1>16 DEF Disconnect, Free, stop_locked, close_route, Removes, StopSession,
     Manager!Stop
<1>17. ASSUME NEW now \in 0..clock, Heartbeat(now)  PROVE  AckCurrent'
  BY <1>17 DEF Heartbeat, Free, Expired, stop_locked, close_route, Removes,
     StopSession, Manager!Stop
<1>18. CASE Tick
  BY <1>18 DEF Tick, Free, Expired, stop_locked, close_route, Removes,
     StopSession, Manager!Stop
<1>19. CASE TimePasses
  BY <1>19 DEF TimePasses
<1> QED
  BY <1>1, <1>2, <1>3, <1>4, <1>5, <1>6, <1>7, <1>8, <1>9, <1>10, <1>11, <1>12,
     <1>13, <1>14, <1>15, <1>16, <1>17, <1>18, <1>19 DEF
     Next, Client, Host, Continues, Codes

LEMMA PhaseStep ==
  ASSUME IInv, Next
  PROVE  PhaseHonest'
<1> USE DEF IInv, TypeOK, BindingType, ManagerType, OpPlaced, TicketsAgree,
            PhaseHonest, ChatPhases, Manager!Live, Manager!Stopping, binding,
            route, manager, history
<1>1. ASSUME NEW fits \in BOOLEAN, RouteAppend(fits)  PROVE  PhaseHonest'
  BY <1>1 DEF RouteAppend, Wired, StaysOpen
<1>2. CASE ManagerRuns
  BY <1>2 DEF ManagerRuns, Manager!Begin, Manager!Open, Manager!Refuse,
     Manager!TakeDown, Manager!Erase, Manager!Stop
<1>3. CASE RefreshOverflow
  BY <1>3 DEF RefreshOverflow, close_route, StopSession, Manager!Stop, Goes
<1>4. CASE RefreshRetired
  BY <1>4 DEF RefreshRetired, close_route, Goes
<1>5. CASE RefreshFind
  BY <1>5 DEF RefreshFind, close_route, Goes
<1>6. CASE RefreshStarted
  BY <1>6 DEF RefreshStarted, Goes
<1>7. ASSUME NEW name \in Codes, Calls(name)  PROVE  PhaseHonest'
  BY <1>7 DEF Calls, Enter, Free
<1>8. CASE Returns
  BY <1>8 DEF Returns, Declined, Finish
<1>9. CASE StartAccepted
  BY <1>9 DEF StartAccepted, Finish, Restartable, PlayerState
<1>10. CASE StartRejected
  BY <1>10 DEF StartRejected, Finish
<1>11. CASE PushAudio
  BY <1>11 DEF PushAudio, Finish, Manager!Stop
<1>12. CASE InvalidAudio
  BY <1>12 DEF InvalidAudio, Finish
<1>13. CASE TakeOutput
  BY <1>13 DEF TakeOutput, Finish
<1>14. CASE AcknowledgePlayerStop
  BY <1>14 DEF AcknowledgePlayerStop, Finish
<1>15. CASE StopCall
  BY <1>15 DEF StopCall, Enter, Free, stop_locked, close_route, Removes,
     StopSession, Manager!Stop
<1>16. CASE Disconnect
  BY <1>16 DEF Disconnect, Free, stop_locked, close_route, Removes, StopSession,
     Manager!Stop
<1>17. ASSUME NEW now \in 0..clock, Heartbeat(now)  PROVE  PhaseHonest'
  BY <1>17 DEF Heartbeat, Free, Expired, stop_locked, close_route, Removes,
     StopSession, Manager!Stop
<1>18. CASE Tick
  BY <1>18 DEF Tick, Free, Expired, stop_locked, close_route, Removes,
     StopSession, Manager!Stop
<1>19. CASE TimePasses
  BY <1>19 DEF TimePasses
<1> QED
  BY <1>1, <1>2, <1>3, <1>4, <1>5, <1>6, <1>7, <1>8, <1>9, <1>10, <1>11, <1>12,
     <1>13, <1>14, <1>15, <1>16, <1>17, <1>18, <1>19 DEF
     Next, Client, Host, Continues, Codes

LEMMA FlushStep ==
  ASSUME IInv, Next
  PROVE  FlushFinal'
<1> USE DEF IInv, TypeOK, BindingType, RouteType, RouteCurrent, PhaseHonest,
            FlushFinal, ChatPhases, binding, route, manager, history
<1>1. ASSUME NEW fits \in BOOLEAN, RouteAppend(fits)  PROVE  FlushFinal'
  BY <1>1 DEF RouteAppend, Wired, StaysOpen
<1>2. CASE ManagerRuns
  BY <1>2 DEF ManagerRuns, Manager!Begin, Manager!Open, Manager!Refuse,
     Manager!TakeDown, Manager!Erase, Manager!Stop
<1>3. CASE RefreshOverflow
  BY <1>3 DEF RefreshOverflow, close_route, StopSession, Manager!Stop, Goes
<1>4. CASE RefreshRetired
  BY <1>4 DEF RefreshRetired, close_route, Goes
<1>5. CASE RefreshFind
  BY <1>5 DEF RefreshFind, close_route, Goes
<1>6. CASE RefreshStarted
  BY <1>6 DEF RefreshStarted, Goes
<1>7. ASSUME NEW name \in Codes, Calls(name)  PROVE  FlushFinal'
  BY <1>7 DEF Calls, Enter, Free
<1>8. CASE Returns
  BY <1>8 DEF Returns, Declined, Finish
<1>9. CASE StartAccepted
  BY <1>9 DEF StartAccepted, Finish, Restartable, PlayerState
<1>10. CASE StartRejected
  BY <1>10 DEF StartRejected, Finish
<1>11. CASE PushAudio
  BY <1>11 DEF PushAudio, Finish, Manager!Stop
<1>12. CASE InvalidAudio
  BY <1>12 DEF InvalidAudio, Finish
<1>13. CASE TakeOutput
  BY <1>13 DEF TakeOutput, Finish
<1>14. CASE AcknowledgePlayerStop
  BY <1>14 DEF AcknowledgePlayerStop, Finish
<1>15. CASE StopCall
  BY <1>15 DEF StopCall, Enter, Free, stop_locked, close_route, Removes,
     StopSession, Manager!Stop
<1>16. CASE Disconnect
  BY <1>16 DEF Disconnect, Free, stop_locked, close_route, Removes, StopSession,
     Manager!Stop
<1>17. ASSUME NEW now \in 0..clock, Heartbeat(now)  PROVE  FlushFinal'
  BY <1>17 DEF Heartbeat, Free, Expired, stop_locked, close_route, Removes,
     StopSession, Manager!Stop
<1>18. CASE Tick
  BY <1>18 DEF Tick, Free, Expired, stop_locked, close_route, Removes,
     StopSession, Manager!Stop
<1>19. CASE TimePasses
  BY <1>19 DEF TimePasses
<1> QED
  BY <1>1, <1>2, <1>3, <1>4, <1>5, <1>6, <1>7, <1>8, <1>9, <1>10, <1>11, <1>12,
     <1>13, <1>14, <1>15, <1>16, <1>17, <1>18, <1>19 DEF
     Next, Client, Host, Continues, Codes

LEMMA RouteStep ==
  ASSUME IInv, Next
  PROVE  RouteCurrent' /\ GaplessOutput'
<1> USE DEF IInv, TypeOK, RouteType, RouteCurrent, GaplessOutput, binding, route,
            manager, history
<1>1. ASSUME NEW fits \in BOOLEAN, RouteAppend(fits)
      PROVE  RouteCurrent' /\ GaplessOutput'
  <2>1. CASE ~open /\ UNCHANGED route
    BY <1>1, <2>1 DEF RouteAppend
  <2>2. CASE open' = FALSE /\ queue' = <<>>
    BY <1>1, <2>2 DEF RouteAppend
  <2>3. CASE open /\ queue' = Append(queue, produced + 1) /\ UNCHANGED open
    <3>1. /\ Len(queue) \in Nat /\ Len(queue') = Len(queue) + 1 /\ queue' # <<>>
          /\ \A i \in 1..Len(queue) : queue'[i] = queue[i]
          /\ queue'[Len(queue) + 1] = produced + 1
          /\ queue = <<>> <=> Len(queue) = 0
      BY <2>3
    <3>2. produced' = produced + 1 /\ taken' = taken
      BY <1>1 DEF RouteAppend
    <3>3. RouteCurrent'
      BY <2>3, <3>1, <3>2
    <3>4. queue'[1] = taken' + 1
      BY <2>3, <3>1, <3>2
    <3>5. \A i \in 2..Len(queue') : queue'[i] = queue'[i - 1] + 1
      <4> SUFFICES ASSUME NEW i \in 2..Len(queue')
                   PROVE  queue'[i] = queue'[i - 1] + 1
        OBVIOUS
      <4>1. CASE i \in 1..Len(queue)
        BY <4>1, <3>1
      <4>2. CASE i = Len(queue) + 1
        BY <4>2, <3>1, <2>3
      <4> QED
        BY <4>1, <4>2, <3>1
    <3> QED
      BY <3>3, <3>4, <3>5
  <2> QED
    BY <1>1, <2>1, <2>2, <2>3 DEF RouteAppend, StaysOpen
<1>2. CASE ManagerRuns
  BY <1>2 DEF ManagerRuns, Manager!Begin, Manager!Open, Manager!Refuse,
     Manager!TakeDown, Manager!Erase, Manager!Stop
<1>3. CASE RefreshOverflow
  BY <1>3 DEF RefreshOverflow, close_route, StopSession, Manager!Stop, Goes
<1>4. CASE RefreshRetired
  BY <1>4 DEF RefreshRetired, close_route, Goes
<1>5. CASE RefreshFind
  BY <1>5 DEF RefreshFind, close_route, Goes
<1>6. CASE RefreshStarted
  BY <1>6 DEF RefreshStarted, Goes
<1>7. ASSUME NEW name \in Codes, Calls(name)  PROVE  RouteCurrent' /\ GaplessOutput'
  BY <1>7 DEF Calls, Enter, Free
<1>8. CASE Returns
  BY <1>8 DEF Returns, Declined, Finish
<1>9. CASE StartAccepted
  BY <1>9 DEF StartAccepted, Finish, Restartable, PlayerState
<1>10. CASE StartRejected
  BY <1>10 DEF StartRejected, Finish
<1>11. CASE PushAudio
  BY <1>11 DEF PushAudio, Finish, Manager!Stop
<1>12. CASE InvalidAudio
  BY <1>12 DEF InvalidAudio, Finish
<1>13. CASE TakeOutput
  BY <1>13 DEF TakeOutput, Finish
<1>14. CASE AcknowledgePlayerStop
  BY <1>14 DEF AcknowledgePlayerStop, Finish
<1>15. CASE StopCall
  BY <1>15 DEF StopCall, Enter, Free, stop_locked, close_route, Removes,
     StopSession, Manager!Stop
<1>16. CASE Disconnect
  BY <1>16 DEF Disconnect, Free, stop_locked, close_route, Removes, StopSession,
     Manager!Stop
<1>17. ASSUME NEW now \in 0..clock, Heartbeat(now)
      PROVE  RouteCurrent' /\ GaplessOutput'
  BY <1>17 DEF Heartbeat, Free, Expired, stop_locked, close_route, Removes,
     StopSession, Manager!Stop
<1>18. CASE Tick
  BY <1>18 DEF Tick, Free, Expired, stop_locked, close_route, Removes,
     StopSession, Manager!Stop
<1>19. CASE TimePasses
  BY <1>19 DEF TimePasses
<1> QED
  BY <1>1, <1>2, <1>3, <1>4, <1>5, <1>6, <1>7, <1>8, <1>9, <1>10, <1>11, <1>12,
     <1>13, <1>14, <1>15, <1>16, <1>17, <1>18, <1>19 DEF
     Next, Client, Host, Continues, Codes

-----------------------------------------------------------------------------
(* The theorems.                                                           *)

LEMMA InvInit == Init => IInv
<1> SUFFICES ASSUME Init  PROVE  IInv
  OBVIOUS
<1> USE DEF Init, Manager!Init, Idle
<1>1. BindingType
  <2>1. clock \in 0..MaxClock /\ last_seen \in 0..clock /\ admission \in 0..MaxIncarnations
    BY BoundAssumption
  <2>2. op \in [name : Codes, at : Steps] /\ phase \in ChatPhases
    BY DEF Codes, Steps, ChatPhases
  <2> QED
    BY <2>1, <2>2 DEF BindingType
<1>2. RouteType
  <2>1. produced \in 0..MaxOutputs /\ taken \in 0..MaxOutputs
    BY BoundAssumption
  <2>2. queue \in Seq(1..MaxOutputs) /\ Len(queue) <= MaxOutputMessages
    BY LimitsAssumption
  <2> QED
    BY <2>1, <2>2 DEF RouteType
<1>3. ManagerType
  BY DEF ManagerType
<1>4. OpPlaced /\ TicketsAgree /\ AckCurrent /\ RouteCurrent
  BY DEF OpPlaced, TicketsAgree, AckCurrent, RouteCurrent
<1>5. PhaseHonest /\ FlushFinal /\ GaplessOutput
  BY DEF PhaseHonest, FlushFinal, GaplessOutput
<1> QED
  BY <1>1, <1>2, <1>3, <1>4, <1>5 DEF IInv, TypeOK

LEMMA InvStep == IInv /\ [Next]_vars => IInv'
<1> SUFFICES ASSUME IInv, [Next]_vars  PROVE  IInv'
  OBVIOUS
<1>1. CASE Next
  <2>1. TypeOK'
    BY <1>1, BindingTypeStep, RouteTypeStep, ManagerTypeStep DEF IInv, TypeOK
  <2> QED
    BY <1>1, <2>1, OpStep, TicketStep, AckStep, PhaseStep, FlushStep, RouteStep DEF IInv
<1>2. CASE UNCHANGED vars
  <2> USE <1>2 DEF IInv, vars, binding, route, manager, history
  <2>1. BindingType'
    BY DEF TypeOK, BindingType
  <2>2. RouteType' /\ ManagerType'
    BY DEF TypeOK, RouteType, ManagerType
  <2>3. OpPlaced' /\ TicketsAgree' /\ AckCurrent' /\ RouteCurrent'
    BY DEF OpPlaced, TicketsAgree, AckCurrent, RouteCurrent
  <2>4. PhaseHonest' /\ FlushFinal' /\ GaplessOutput'
    BY DEF PhaseHonest, FlushFinal, GaplessOutput
  <2> QED
    BY <2>1, <2>2, <2>3, <2>4 DEF TypeOK
<1> QED
  BY <1>1, <1>2

\* Every reachable state of a connection satisfies the inductive invariant.
THEOREM Invariance == Spec => []IInv
<1> QED
  BY InvInit, InvStep, PTL DEF Spec

\* However refresh(), the manager and the session's output interleave: the phase
\* the connection reports is never ahead of the manager, a flush request is final,
\* and the client sees a gapless prefix of what the session produced.
THEOREM VoiceIsSafe == Spec => []VoiceSafe
<1>1. IInv => VoiceSafe
  BY DEF IInv, VoiceSafe
<1> QED
  BY <1>1, Invariance, PTL

\* start() admits a replacement only on a live connection, after the previous
\* incarnation was retired and its own flush acknowledged.
THEOREM ReplacementIsFresh == Spec => FreshIncarnation
<1>1. IInv /\ [Next]_vars =>
        [admission' # admission =>
            connected /\ (admission # 0 => retired /\ admission \in acked)]_vars
  <2> SUFFICES ASSUME IInv, Next, admission' # admission
               PROVE  connected /\ (admission # 0 => retired /\ admission \in acked)
    OBVIOUS
  <2>1. StartAccepted
    BY DEF Next, Client, Host, Continues, RouteAppend, ManagerRuns,
       RefreshOverflow, RefreshRetired, RefreshFind, RefreshStarted, Calls,
       Returns, StartRejected, PushAudio, InvalidAudio, TakeOutput,
       AcknowledgePlayerStop, StopCall, Disconnect, Heartbeat, Tick, TimePasses,
       binding
  <2>2. connected
    BY <2>1 DEF StartAccepted, Finish, IInv, OpPlaced
  <2>3. admission # 0 => phase = "Retired" /\ player_stopped
    BY <2>1 DEF StartAccepted, Restartable, IInv, PhaseHonest
  <2>4. phase = "Retired" => retired
    BY DEF IInv, PhaseHonest, TicketsAgree
  <2> QED
    BY <2>2, <2>3, <2>4 DEF IInv, AckCurrent
<1> QED
  BY <1>1, Invariance, PTL DEF Spec, FreshIncarnation

=============================================================================
