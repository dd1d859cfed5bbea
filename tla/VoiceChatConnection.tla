------------------------- MODULE VoiceChatConnection -------------------------
(***************************************************************************)
(* One authenticated connection of the voice chat application              *)
(* (src/apps/voice_chat_adapter.cpp): the incarnation it asked the runtime *)
(* manager for, the route that carries the session's output to the client, *)
(* and the liveness of the client.                                         *)
(*                                                                         *)
(* The operations of a connection exclude each other (mutex_), so at most  *)
(* one is under way: op.  Between two of its steps the session puts output *)
(* on the route and the manager moves the session: refresh() is split at   *)
(* every read of a ticket, of find() and of the route.  The manager is its *)
(* contract, ManagedSession, for the current incarnation; a rejected call  *)
(* (Forbidden, StaleSession, Disconnected) changes nothing and is left out.*)
(***************************************************************************)
EXTENDS Naturals, Sequences

CONSTANTS MaxOutputMessages,   \* config_.max_output_messages
          LivenessTimeout,     \* config_.liveness_timeout
          MaxIncarnations,     \* bound: sessions admitted
          MaxOutputs,          \* bound: outputs a session produces
          MaxClock             \* bound: time

ASSUME LimitsAssumption == MaxOutputMessages \in Nat \ {0} /\ LivenessTimeout \in Nat \ {0}
ASSUME BoundAssumption  == {MaxIncarnations, MaxOutputs, MaxClock} \subseteq Nat

VARIABLES
    \* guarded by mutex_
    connected, last_seen, phase, flush_requested, player_stopped,
    admission,       \* number of the current incarnation, 0: none yet
    op,              \* the operation that holds mutex_ and where it is
    \* guarded by the route's own mutex
    open, overflow, queue,
    \* the manager's side of the current incarnation
    session, started, retired,
    \* the host's clock; history
    clock,
    produced,        \* outputs the session put out, counting refused ones
    taken,           \* the last output handed to the transport
    acked            \* incarnations whose flush the player acknowledged

binding == <<connected, last_seen, phase, flush_requested, player_stopped, admission>>
route   == <<open, overflow, queue>>
manager == <<session, started, retired>>
history == <<produced, taken, acked>>
vars    == <<binding, op, route, manager, clock, history>>

Manager == INSTANCE ManagedSession WITH phase <- session

Codes      == {"none", "start", "stop", "push_audio", "pushed", "status",
               "take_output", "acknowledge", "tick"}
Steps      == {"idle", "overflow", "retired", "find", "started", "finish"}
ChatPhases == {"Idle", "Starting", "Running", "Stopping", "Retired"}

Idle == [name |-> "none", at |-> "idle"]
Free == op = Idle

Init ==
    /\ connected = TRUE /\ last_seen = 0 /\ phase = "Idle"
    /\ flush_requested = FALSE /\ player_stopped = FALSE /\ admission = 0
    /\ op = Idle
    /\ open = FALSE /\ overflow = FALSE /\ queue = <<>>
    /\ Manager!Init
    /\ clock = 0 /\ produced = 0 /\ taken = 0 /\ acked = {}

-----------------------------------------------------------------------------
(* The route: MediaSinks and the observation handler call append from the  *)
(* session's threads, late callbacks after retirement included.            *)

\* Loss is never silent: what does not fit closes the route and clears it.
StaysOpenMutant == open
StaysOpen == FALSE

\* The factory hands out the sinks and RoutedEngine subscribes before the engine
\* starts: output flows from startup on.
Wired == session \notin {"None", "Reserved"}

RouteAppend(fits) ==
    /\ Wired
    /\ produced < MaxOutputs
    /\ produced' = produced + 1
    /\ IF ~open THEN UNCHANGED route
       ELSE IF fits /\ Len(queue) < MaxOutputMessages
       THEN queue' = Append(queue, produced + 1) /\ UNCHANGED <<open, overflow>>
       ELSE open' = StaysOpen /\ overflow' = TRUE /\ queue' = <<>>
    /\ UNCHANGED <<binding, op, manager, clock, taken, acked>>

close_route == open' = FALSE /\ queue' = <<>> /\ flush_requested' = TRUE

-----------------------------------------------------------------------------
(* What the manager does with the session.                                 *)

\* remove() and fail() on a session that is already stopping change nothing.
StopSession == IF session \in Manager!Live THEN Manager!Stop ELSE UNCHANGED manager

\* The manager's own threads; Stop covers a drain and a session that fails.
ManagerRuns ==
    /\ \/ Manager!Begin \/ Manager!Open \/ Manager!Refuse
       \/ Manager!TakeDown \/ Manager!Erase \/ Manager!Stop
    /\ UNCHANGED <<binding, op, route, clock, history>>

-----------------------------------------------------------------------------
(* refresh(), then what the operation does with it.                        *)

Goes(step) == op' = [op EXCEPT !.at = step]

RefreshOverflow ==
    /\ op.at = "overflow"
    /\ IF overflow /\ phase \notin {"Stopping", "Retired"}
       THEN /\ close_route
            /\ phase' = "Stopping"
            /\ StopSession
       ELSE UNCHANGED <<open, queue, flush_requested, phase, manager>>
    /\ Goes("retired")
    /\ UNCHANGED <<connected, last_seen, player_stopped, admission, overflow, clock, history>>

RefreshRetired ==
    /\ op.at = "retired"
    /\ IF retired
       THEN close_route /\ phase' = "Retired" /\ Goes("finish")
       ELSE UNCHANGED <<open, queue, flush_requested, phase>> /\ Goes("find")
    /\ UNCHANGED <<connected, last_seen, player_stopped, admission, overflow, manager,
                   clock, history>>

\* find() and the first look at the started ticket.
RefreshFind ==
    /\ op.at = "find"
    /\ IF session \in Manager!Stopping \/ started = "NotStarted"
       THEN close_route /\ phase' = "Stopping" /\ Goes("finish")
       ELSE UNCHANGED <<open, queue, flush_requested, phase>> /\ Goes("started")
    /\ UNCHANGED <<connected, last_seen, player_stopped, admission, overflow, manager,
                   clock, history>>

\* The second look: the ticket may have become ready with another outcome.
RefreshStarted ==
    /\ op.at = "started"
    /\ phase' = IF phase = "Starting" /\ started # "unset" THEN "Running" ELSE phase
    /\ Goes("finish")
    /\ UNCHANGED <<connected, last_seen, flush_requested, player_stopped, admission,
                   route, manager, clock, history>>

\* validate() passed, or for start() the client is authorized and connected.
Enter(name) ==
    /\ Free /\ connected
    /\ name = "start" \/ admission # 0
    /\ op' = [name |-> name, at |-> IF admission = 0 THEN "finish" ELSE "overflow"]

\* status() and the calls that do nothing before refresh().
Calls(name) ==
    /\ Enter(name)
    /\ UNCHANGED <<binding, route, manager, clock, history>>

Finish(name) == op.name = name /\ op.at = "finish"

\* A call whose outcome leaves the connection as refresh() left it.
Restartable == phase = "Idle" \/ (phase = "Retired" /\ player_stopped)
Declined ==
    \/ Finish("start") /\ ~Restartable
    \/ Finish("push_audio") /\ phase # "Running"
    \/ Finish("take_output") /\ phase # "Running"
    \/ Finish("acknowledge") /\ ~flush_requested

Returns ==
    /\ Declined \/ Finish("stop") \/ Finish("status") \/ Finish("pushed") \/ Finish("tick")
    /\ op' = Idle
    /\ UNCHANGED <<binding, route, manager, clock, history>>

-----------------------------------------------------------------------------
(* start()                                                                 *)

PlayerStateMutant == flush_requested' = FALSE /\ UNCHANGED player_stopped
PlayerState == flush_requested' = FALSE /\ player_stopped' = FALSE

\* The manager admits: the id is free once the last incarnation is erased.
StartAccepted ==
    /\ Finish("start") /\ Restartable
    /\ admission < MaxIncarnations
    /\ session \in {"None", "Erased"}
    /\ session' = "Reserved" /\ started' = "unset" /\ retired' = FALSE
    /\ admission' = admission + 1
    /\ open' = TRUE /\ overflow' = FALSE /\ queue' = <<>>
    /\ phase' = "Starting"
    /\ PlayerState
    /\ produced' = 0 /\ taken' = 0
    /\ op' = Idle
    /\ UNCHANGED <<connected, last_seen, clock, acked>>

\* The manager is full or draining.
StartRejected ==
    /\ Finish("start") /\ Restartable
    /\ op' = Idle
    /\ UNCHANGED <<binding, route, manager, clock, history>>

-----------------------------------------------------------------------------
(* The other operations, after their refresh().                            *)

\* RuntimeManager::push_audio may end in an engine failure; refresh() again.
PushAudio ==
    /\ Finish("push_audio") /\ phase = "Running"
    /\ Manager!Stop \/ UNCHANGED manager
    /\ op' = [name |-> "pushed", at |-> "overflow"]
    /\ UNCHANGED <<binding, route, clock, history>>

\* A frame with a bad layout or size returns before it.
InvalidAudio ==
    /\ Finish("push_audio") /\ phase = "Running"
    /\ op' = Idle
    /\ UNCHANGED <<binding, route, manager, clock, history>>

TakeOutput ==
    /\ Finish("take_output") /\ phase = "Running"
    /\ taken' = IF queue = <<>> THEN taken ELSE queue[Len(queue)]
    /\ queue' = <<>>
    /\ op' = Idle
    /\ UNCHANGED <<binding, open, overflow, manager, clock, produced, acked>>

AcknowledgePlayerStop ==
    /\ Finish("acknowledge") /\ flush_requested
    /\ player_stopped' = TRUE
    /\ acked' = acked \union {admission}
    /\ op' = Idle
    /\ UNCHANGED <<connected, last_seen, phase, flush_requested, admission, route, manager,
                   clock, produced, taken>>

-----------------------------------------------------------------------------
(* stop(), disconnect(), heartbeat() and tick()                            *)

RemovesMutant == UNCHANGED manager
Removes == StopSession

stop_locked ==
    IF admission = 0 THEN UNCHANGED <<open, queue, flush_requested, phase, manager>>
    ELSE /\ close_route
         /\ IF phase = "Retired" THEN UNCHANGED <<phase, manager>>
            ELSE phase' = "Stopping" /\ Removes

StopCall ==
    /\ Enter("stop")
    /\ stop_locked
    /\ UNCHANGED <<connected, last_seen, player_stopped, admission, overflow, clock, history>>

\* The transport's hook and the destructor.
Disconnect ==
    /\ Free
    /\ connected' = FALSE
    /\ stop_locked
    /\ UNCHANGED <<op, last_seen, player_stopped, admission, overflow, clock, history>>

Expired(now) == now >= last_seen + LivenessTimeout

\* now was read before the lock was taken and may be behind other callers'.
Heartbeat(now) ==
    /\ Free
    /\ IF Expired(now) THEN connected' = FALSE /\ stop_locked
       ELSE UNCHANGED <<connected, open, queue, flush_requested, phase, manager>>
    /\ last_seen' = IF connected' /\ now > last_seen THEN now ELSE last_seen
    /\ UNCHANGED <<op, player_stopped, admission, overflow, clock, history>>

Tick ==
    /\ Free
    /\ IF Expired(clock) THEN connected' = FALSE /\ stop_locked
       ELSE UNCHANGED <<connected, open, queue, flush_requested, phase, manager>>
    /\ op' = [name |-> "tick", at |-> IF admission = 0 THEN "finish" ELSE "overflow"]
    /\ UNCHANGED <<last_seen, player_stopped, admission, overflow, clock, history>>

TimePasses ==
    /\ clock < MaxClock
    /\ clock' = clock + 1
    /\ UNCHANGED <<binding, op, route, manager, history>>

-----------------------------------------------------------------------------
Client == \/ \E name \in {"start", "push_audio", "status", "take_output", "acknowledge"} :
                Calls(name)
          \/ StopCall
          \/ \E now \in 0..clock : Heartbeat(now)

Host == Disconnect \/ TimePasses

Continues == \/ RefreshOverflow \/ RefreshRetired \/ RefreshFind \/ RefreshStarted
             \/ Returns \/ StartAccepted \/ StartRejected \/ PushAudio \/ InvalidAudio
             \/ TakeOutput \/ AcknowledgePlayerStop

Next == \/ Client \/ Host \/ Tick \/ Continues \/ ManagerRuns
        \/ RouteAppend(TRUE) \/ RouteAppend(FALSE)

Spec == Init /\ [][Next]_vars

\* An operation runs to its end, the host loop ticks, and the manager retires what
\* was asked to stop (its own StopRetires).
Retires == (Manager!Refuse \/ Manager!TakeDown \/ Manager!Erase)
           /\ UNCHANGED <<binding, op, route, clock, history>>
FairSpec == Spec /\ WF_vars(Continues) /\ SF_vars(Tick) /\ WF_vars(Retires)

-----------------------------------------------------------------------------
(* Properties                                                              *)

BindingType ==
    /\ connected \in BOOLEAN /\ flush_requested \in BOOLEAN /\ player_stopped \in BOOLEAN
    /\ phase \in ChatPhases
    /\ admission \in 0..MaxIncarnations
    /\ op \in [name : Codes, at : Steps]
    /\ clock \in 0..MaxClock /\ last_seen \in 0..clock
RouteType ==
    /\ open \in BOOLEAN /\ overflow \in BOOLEAN
    /\ queue \in Seq(1..MaxOutputs) /\ Len(queue) <= MaxOutputMessages
    /\ produced \in 0..MaxOutputs /\ taken \in 0..MaxOutputs
ManagerType ==
    /\ session \in {"None"} \union Manager!Live \union Manager!Stopping
    /\ started \in {"unset", "Started", "NotStarted"}
    /\ retired \in BOOLEAN
    /\ acked \subseteq 1..MaxIncarnations
TypeOK == BindingType /\ RouteType /\ ManagerType

\* What the connection reports is never ahead of the manager: Stopping only when the
\* session really was told to stop, Retired only when it is gone, Running only once
\* startup was answered.
PhaseHonest ==
    /\ phase = "Idle" <=> admission = 0
    /\ phase = "Running" => started # "unset"
    /\ phase = "Stopping" => session \in Manager!Stopping
    /\ phase = "Retired" => session = "Erased"

\* The flush request is sticky and final: while it stands the route is closed and
\* empty and no path leads back to Running, so nothing of this incarnation is handed
\* out after the client may have been told to flush.
FlushFinal ==
    /\ flush_requested => ~open /\ queue = <<>>
    /\ flush_requested <=> phase \in {"Stopping", "Retired"}

\* The client never sees a gap: what is handed out of an incarnation is a prefix of
\* what its session produced, even around an overflow.
GaplessOutput ==
    /\ queue # <<>> => queue[1] = taken + 1
    /\ \A i \in 2..Len(queue) : queue[i] = queue[i - 1] + 1

\* The connection's view is honest, a flush is final, and output has no gaps.
VoiceSafe == TypeOK /\ PhaseHonest /\ FlushFinal /\ GaplessOutput

\* A replacement is admitted only after the previous incarnation is retired AND the
\* player has acknowledged the flush of that very incarnation, and never on a
\* connection that was lost.
FreshIncarnation ==
    [][admission' # admission =>
          /\ connected
          /\ admission # 0 => retired /\ admission \in acked]_vars

\* A lost connection leaves no session behind: whatever was admitted is retired.
LossRetires == ~connected /\ admission # 0 ~> retired

\* Silence is noticed by the host's tick alone.
SilenceNoticed == clock >= last_seen + LivenessTimeout
                     ~> (~connected \/ clock < last_seen + LivenessTimeout)

\* Lost output is reported: the session of a route that overflowed is stopped.
OverflowStops == overflow ~> (session \in Manager!Stopping \/ ~overflow)

\* A connection that says Stopping comes to say Retired.
StoppingEnds == phase = "Stopping" ~> phase = "Retired"

\* Loss, silence and overflow each end in the retirement of the session.
Progress == LossRetires /\ SilenceNoticed /\ OverflowStops /\ StoppingEnds

=============================================================================
