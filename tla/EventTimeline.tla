---------------------------- MODULE EventTimeline ----------------------------
(***************************************************************************)
(* The bounded journal of a session and its one observer delivery lane     *)
(* (src/src/event_timeline.cpp).  Any thread, an observer inside a delivery*)
(* included, may append; one dispatcher thread hands admitted events to the*)
(* subscribers in order.  The journal evicts its oldest event, the         *)
(* notification queue drops its newest.                                    *)
(*                                                                         *)
(* An event is its sequence number: what a subscriber reads in it is not   *)
(* looked at here, only whether its identity and size pass admission.      *)
(***************************************************************************)
EXTENDS Naturals, Sequences, FiniteSets

CONSTANTS MaxEvents,               \* config.max_events
          MaxPendingNotifications, \* config.max_pending_notifications
          Flushers,                \* threads that call flush()
          MaxAppends               \* bound: appends explored

ASSUME CapacityAssumption ==       \* checked by the constructor
          /\ MaxEvents \in Nat \ {0}
          /\ MaxPendingNotifications \in Nat \ {0}
ASSUME BoundAssumption == MaxAppends \in Nat

Statuses == {"Closed", "WrongSession", "StaleGeneration", "EventTooLarge"}

VARIABLES
    events,                \* the journal, oldest first
    pending,               \* notifications waiting for the dispatcher
    accepted, evicted, rejected, dropped_notifications,
    first_dropped_sequence, last_dropped_sequence,
    notification_allocation_failures, observer_failures,
    notification_high_watermark,
    enqueued, completed,
    closed,
    dispatcher,            \* wait, deliver, count or gone
    inflight,              \* the event being delivered, 0 for none
    delivered,             \* history: sequence numbers handed to the bus
    flusher, target,       \* threads in flush() and their local target
    outstanding,           \* history: what was undelivered when flush() began
    owner                  \* the owning thread: out of, in or past shutdown()

journal  == <<events, evicted>>
lane     == <<pending, inflight, enqueued, completed, delivered, dispatcher>>
drops    == <<dropped_notifications, first_dropped_sequence, last_dropped_sequence,
              notification_allocation_failures, notification_high_watermark>>
waiters  == <<flusher, target, outstanding>>
vars == <<journal, lane, drops, accepted, rejected, observer_failures, closed,
          waiters, owner>>

Elements(seq) == {seq[i] : i \in 1..Len(seq)}
Larger(m, n) == IF m > n THEN m ELSE n

Init ==
    /\ events = <<>> /\ pending = <<>>
    /\ accepted = 0 /\ evicted = 0 /\ rejected = 0 /\ dropped_notifications = 0
    /\ first_dropped_sequence = 0 /\ last_dropped_sequence = 0
    /\ notification_allocation_failures = 0 /\ observer_failures = 0
    /\ notification_high_watermark = 0
    /\ enqueued = 0 /\ completed = 0
    /\ closed = FALSE
    /\ dispatcher = "wait" /\ inflight = 0 /\ delivered = <<>>
    /\ flusher = [f \in Flushers |-> "idle"]
    /\ target = [f \in Flushers |-> 0]
    /\ outstanding = [f \in Flushers |-> {}]
    /\ owner = "out"

-----------------------------------------------------------------------------
(* admit()                                                                 *)

\* A closed timeline refuses first, then session, generation and size.
Reject(status) ==
    /\ accepted + rejected < MaxAppends
    /\ IF closed THEN status = "Closed" ELSE status # "Closed"
    /\ rejected' = rejected + 1
    /\ UNCHANGED <<journal, lane, drops, accepted, observer_failures, closed,
                   waiters, owner>>

\* push_back, then pop_front when over the limit.
Retained(n) == LET longer == Append(events, n) IN
               IF Len(longer) > MaxEvents THEN Tail(longer) ELSE longer

\* The journal has the event; its notification is queued, or becomes a gap
\* because the queue is full or cannot grow.
Notify(n) ==
    /\ pending' = Append(pending, n)
    /\ enqueued' = enqueued + 1
    /\ notification_high_watermark' =
          Larger(notification_high_watermark, Len(pending) + 1)
    /\ UNCHANGED <<dropped_notifications, first_dropped_sequence,
                   last_dropped_sequence, notification_allocation_failures>>

FirstGapMutant(n) == n                       \* overwritten by every drop
FirstGap(n) == IF first_dropped_sequence = 0 THEN n ELSE first_dropped_sequence

Drop(n, allocation) ==
    /\ dropped_notifications' = dropped_notifications + 1
    /\ first_dropped_sequence' = FirstGap(n)
    /\ last_dropped_sequence' = n
    /\ notification_allocation_failures' =
          notification_allocation_failures + (IF allocation THEN 1 ELSE 0)
    /\ UNCHANGED <<pending, enqueued, notification_high_watermark>>

HasRoom == Len(pending) < MaxPendingNotifications

Accept ==
    /\ accepted + rejected < MaxAppends
    /\ ~closed
    /\ LET n == accepted + 1 IN
          /\ events' = Retained(n)
          /\ evicted' = evicted + (IF Len(events) = MaxEvents THEN 1 ELSE 0)
          /\ \/ HasRoom /\ Notify(n)
             \/ HasRoom /\ Drop(n, TRUE)
             \/ ~HasRoom /\ Drop(n, FALSE)
    /\ accepted' = accepted + 1
    /\ UNCHANGED <<inflight, completed, delivered, dispatcher, rejected,
                   observer_failures, closed, waiters, owner>>

-----------------------------------------------------------------------------
(* dispatch_loop()                                                         *)

NextUpMutant == pending[Len(pending)]        \* takes the newest
NextUp == Head(pending)

\* A closed timeline still delivers what was accepted.
LeavesMutant == closed                       \* leaves the rest undelivered
Leaves == closed /\ pending = <<>>

Take ==
    /\ dispatcher = "wait"
    /\ pending # <<>> /\ ~Leaves
    /\ inflight' = NextUp
    /\ pending' = Tail(pending)
    /\ dispatcher' = "deliver"
    /\ UNCHANGED <<journal, enqueued, completed, delivered, drops, accepted,
                   rejected, observer_failures, closed, waiters, owner>>

\* bus->deliver, outside the lock.
Deliver ==
    /\ dispatcher = "deliver"
    /\ delivered' = Append(delivered, inflight)
    /\ inflight' = 0
    /\ dispatcher' = "count"
    /\ UNCHANGED <<journal, pending, enqueued, completed, drops, accepted,
                   rejected, observer_failures, closed, waiters, owner>>

\* Exceptions of observers are counted, not passed on.
Count(failures) ==
    /\ dispatcher = "count"
    /\ observer_failures' = observer_failures + failures
    /\ completed' = completed + 1
    /\ dispatcher' = "wait"
    /\ UNCHANGED <<journal, pending, inflight, enqueued, delivered, drops,
                   accepted, rejected, closed, waiters, owner>>

DispatcherLeaves ==
    /\ dispatcher = "wait"
    /\ Leaves
    /\ dispatcher' = "gone"
    /\ UNCHANGED <<journal, pending, inflight, enqueued, completed, delivered,
                   drops, accepted, rejected, observer_failures, closed, waiters,
                   owner>>

-----------------------------------------------------------------------------
(* flush(), close(), shutdown()                                            *)

FlushTarget == enqueued

Flush(f) ==
    /\ flusher[f] = "idle"
    /\ flusher' = [flusher EXCEPT ![f] = "waiting"]
    /\ target' = [target EXCEPT ![f] = FlushTarget]
    /\ outstanding' = [outstanding EXCEPT ![f] = (Elements(pending) \union {inflight}) \ {0}]
    /\ UNCHANGED <<journal, lane, drops, accepted, rejected, observer_failures,
                   closed, owner>>

FlushReturns(f) ==
    /\ flusher[f] = "waiting"
    /\ completed >= target[f]
    /\ flusher' = [flusher EXCEPT ![f] = "flushed"]
    /\ UNCHANGED <<journal, lane, drops, accepted, rejected, observer_failures,
                   closed, target, outstanding, owner>>

FlushTimesOut(f) ==
    /\ flusher[f] = "waiting"
    /\ completed < target[f]
    /\ flusher' = [flusher EXCEPT ![f] = "timed out"]
    /\ UNCHANGED <<journal, lane, drops, accepted, rejected, observer_failures,
                   closed, target, outstanding, owner>>

Close ==
    /\ ~closed
    /\ closed' = TRUE
    /\ UNCHANGED <<journal, lane, drops, accepted, rejected, observer_failures,
                   waiters, owner>>

\* shutdown() closes, then joins the dispatcher.
ShutdownBegins ==
    /\ owner = "out"
    /\ closed' = TRUE
    /\ owner' = "joining"
    /\ UNCHANGED <<journal, lane, drops, accepted, rejected, observer_failures,
                   waiters>>

ShutdownReturns ==
    /\ owner = "joining"
    /\ dispatcher = "gone"
    /\ owner' = "joined"
    /\ UNCHANGED <<journal, lane, drops, accepted, rejected, observer_failures,
                   closed, waiters>>

-----------------------------------------------------------------------------
Dispatcher == \/ Take \/ Deliver \/ DispatcherLeaves
              \/ \E failures \in {0, 1} : Count(failures)

Next == \/ \E status \in Statuses : Reject(status)
        \/ Accept
        \/ Dispatcher
        \/ \E f \in Flushers : Flush(f) \/ FlushReturns(f) \/ FlushTimesOut(f)
        \/ Close \/ ShutdownBegins \/ ShutdownReturns

Spec == Init /\ [][Next]_vars

\* The dispatcher is scheduled and observers return
\* ("must eventually return", docs/runtime-foundation.md).
Fairness == WF_vars(Dispatcher) /\ WF_vars(ShutdownReturns)
FairSpec == Spec /\ Fairness

-----------------------------------------------------------------------------
(* Properties.                                                             *)

JournalType ==
    /\ events \in Seq(1..MaxAppends) /\ evicted \in Nat
    /\ accepted \in 0..MaxAppends /\ rejected \in 0..MaxAppends
    /\ closed \in BOOLEAN
    /\ owner \in {"out", "joining", "joined"}
LaneType ==
    /\ pending \in Seq(1..MaxAppends) /\ delivered \in Seq(1..MaxAppends)
    /\ inflight \in 0..MaxAppends
    /\ enqueued \in Nat /\ completed \in Nat /\ observer_failures \in Nat
    /\ dispatcher \in {"wait", "deliver", "count", "gone"}
DropsType ==
    /\ dropped_notifications \in Nat /\ notification_allocation_failures \in Nat
    /\ first_dropped_sequence \in 0..MaxAppends
    /\ last_dropped_sequence \in 0..MaxAppends
    /\ notification_high_watermark \in 0..MaxPendingNotifications
WaitersType ==
    /\ flusher \in [Flushers -> {"idle", "waiting", "flushed", "timed out"}]
    /\ target \in [Flushers -> Nat]
    /\ outstanding \in [Flushers -> SUBSET (1..MaxAppends)]
TypeOK == JournalType /\ LaneType /\ DropsType /\ WaitersType

\* Everything that went, or will go, to the observers, in delivery order.
Stream == delivered \o (IF inflight = 0 THEN <<>> ELSE <<inflight>>) \o pending
Missing == (1..accepted) \ Elements(Stream)

\* Observers see admitted events in sequence order and none twice, whatever is
\* appended, dropped or closed while the dispatcher is in a callback.
DeliveryOrdered == \A i, j \in 1..Len(Stream) : i < j => Stream[i] < Stream[j]

\* The statistics describe the gaps exactly: as many as counted, from the first
\* to the last lost sequence number, and nothing else was lost.
GapsReported ==
    /\ dropped_notifications = Cardinality(Missing)
    /\ (Missing = {}) = (first_dropped_sequence = 0)
    /\ Missing # {} => /\ first_dropped_sequence \in Missing
                       /\ last_dropped_sequence \in Missing
                       /\ \A n \in Missing : /\ first_dropped_sequence <= n
                                             /\ n <= last_dropped_sequence

\* The journal is the window of the newest admitted events, complete and within
\* its bound, and the queue of notifications keeps within its own.
JournalWindow ==
    /\ Len(events) <= MaxEvents
    /\ evicted + Len(events) = accepted
    /\ \A i \in 1..Len(events) : events[i] = evicted + i
    /\ Len(pending) <= MaxPendingNotifications

\* A flush that returned true has seen everything delivered that was waiting or
\* in a callback when it was called.
FlushSound ==
    \A f \in Flushers :
        flusher[f] = "flushed" => outstanding[f] \subseteq Elements(delivered)

\* After shutdown() no notification is lost: all that were enqueued have been
\* delivered, and the gaps are only those reported.
ShutdownDrains ==
    owner = "joined" => /\ pending = <<>> /\ inflight = 0
                        /\ Len(delivered) + dropped_notifications = accepted

\* Every queued notification reaches the observers, also after close().
EveryNotificationDelivered ==
    \A n \in 1..MaxAppends :
        n \in Elements(pending) ~> n \in Elements(delivered)

\* shutdown() returns.
ShutdownEnds == owner = "joining" ~> owner = "joined"

\* Observers see one ordered stream, the journal is its newest window, flush() has
\* waited for what it promises, and shutdown() leaves nothing undelivered.
TimelineSafe == TypeOK /\ DeliveryOrdered /\ JournalWindow /\ FlushSound /\ ShutdownDrains

\* Every queued notification is delivered and shutdown() returns.
Progress == EveryNotificationDelivered /\ ShutdownEnds

=============================================================================
