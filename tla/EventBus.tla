------------------------------- MODULE EventBus -------------------------------
(***************************************************************************)
(* The observer bus (src/src/event.cpp).  publish() stamps an event,       *)
(* snapshots the subscribers and calls them one by one; a subscriber may   *)
(* itself publish, subscribe or unsubscribe, so a thread carries a stack of*)
(* deliveries.  unsubscribe() waits until no other thread is inside the    *)
(* handler it removed.                                                     *)
(***************************************************************************)
EXTENDS Naturals, Sequences, FiniteSets

CONSTANTS Threads,
          MaxSubscriptions,  \* bound: subscriptions made
          MaxPublished,      \* bound: events published
          MaxDepth           \* bound: nested publications on one thread

ASSUME DepthAssumption == /\ MaxSubscriptions \in Nat /\ MaxPublished \in Nat
                          /\ MaxDepth \in Nat \ {0}
\* A process has finitely many threads.
ASSUME ThreadsAssumption == IsFiniteSet(Threads)

Subscriptions == 1..MaxSubscriptions
None == 0

VARIABLES
    handlers,            \* the ids in handlers_
    next_subscription, next_sequence,
    enabled, active_calls,   \* the HandlerEntry of each subscription
    stack,               \* thread -> deliveries, innermost last: [event, todo, at, in]
    removing,            \* thread -> the subscription its unsubscribe() waits for
    remover              \* history: who took a subscription out of handlers_

busVars == <<handlers, next_subscription, next_sequence, enabled, active_calls, stack,
             removing, remover>>

BusInit ==
    /\ handlers = {} /\ next_subscription = 1 /\ next_sequence = 1
    /\ enabled = [s \in Subscriptions |-> TRUE]
    /\ active_calls = [s \in Subscriptions |-> 0]
    /\ stack = [t \in Threads |-> <<>>]
    /\ removing = [t \in Threads |-> None]
    /\ remover = [s \in Subscriptions |-> {}]

-----------------------------------------------------------------------------
Depth(t) == Len(stack[t])
Top(t) == stack[t][Depth(t)]
SetTop(t, frame) == stack' = [stack EXCEPT ![t][Depth(t)] = frame]

\* A thread runs its own code outside any delivery or inside a handler.
Free(t) == removing[t] = None /\ (Depth(t) > 0 => Top(t).in # None)

\* calls_on_this_thread: the handlers this thread's callback stack is inside of.
CallsOnThisThreadMutant(t, s) == 0
CallsOnThisThread(t, s) == Cardinality({d \in 1..Depth(t) : stack[t][d].in = s})

Subscribe(t) ==
    /\ Free(t) /\ next_subscription \in Subscriptions
    /\ handlers' = handlers \union {next_subscription}
    /\ next_subscription' = next_subscription + 1
    /\ UNCHANGED <<next_sequence, enabled, active_calls, stack, removing, remover>>

\* The subscribers' obligation: callbacks do not wait for each other's removal.
Mutual(t, s) ==
    \E u \in Threads \ {t} : /\ removing[u] # None
                             /\ CallsOnThisThread(u, s) > 0
                             /\ CallsOnThisThread(t, removing[u]) > 0

\* The entry leaves the map first; its lock is another one.
Unsubscribe(t, s) ==
    /\ Free(t) /\ s \in handlers
    /\ ~Mutual(t, s)
    /\ handlers' = handlers \ {s}
    /\ removing' = [removing EXCEPT ![t] = s]
    /\ remover' = [remover EXCEPT ![s] = {t}]
    /\ UNCHANGED <<next_subscription, next_sequence, enabled, active_calls, stack>>

Disable(t) ==
    /\ removing[t] # None /\ enabled[removing[t]]
    /\ enabled' = [enabled EXCEPT ![removing[t]] = FALSE]
    /\ UNCHANGED <<handlers, next_subscription, next_sequence, active_calls, stack,
                   removing, remover>>

QuiescedMutant(t, s) == active_calls[s] <= CallsOnThisThread(t, s) + 1
Quiesced(t, s) == active_calls[s] <= CallsOnThisThread(t, s)

UnsubscribeReturns(t) ==
    LET s == removing[t]
    IN  /\ s # None /\ ~enabled[s] /\ Quiesced(t, s)
        /\ removing' = [removing EXCEPT ![t] = None]
        /\ UNCHANGED <<handlers, next_subscription, next_sequence, enabled, active_calls,
                       stack, remover>>

-----------------------------------------------------------------------------
Publish(t) ==
    /\ Free(t) /\ Depth(t) < MaxDepth /\ next_sequence <= MaxPublished
    /\ stack' = [stack EXCEPT ![t] = Append(@, [event |-> next_sequence, todo |-> {},
                                                at |-> "snapshot", in |-> None])]
    /\ next_sequence' = next_sequence + 1
    /\ UNCHANGED <<handlers, next_subscription, enabled, active_calls, removing, remover>>

Snapshot(t) ==
    /\ Depth(t) > 0 /\ Top(t).at = "snapshot"
    /\ SetTop(t, [Top(t) EXCEPT !.at = "deliver", !.todo = handlers])
    /\ UNCHANGED <<handlers, next_subscription, next_sequence, enabled, active_calls,
                   removing, remover>>

\* The next subscriber of the snapshot (a hash map has no order): entered only if
\* it is still enabled, under its lock.
MayEnter(s) == enabled[s]

EnterHandler(t, s) ==
    /\ Depth(t) > 0 /\ Top(t).at = "deliver" /\ Top(t).in = None /\ s \in Top(t).todo
    /\ SetTop(t, [Top(t) EXCEPT !.todo = @ \ {s}, !.in = IF MayEnter(s) THEN s ELSE None])
    /\ active_calls' = IF MayEnter(s) THEN [active_calls EXCEPT ![s] = @ + 1]
                       ELSE active_calls
    /\ UNCHANGED <<handlers, next_subscription, next_sequence, enabled, removing, remover>>

\* The handler returned or threw; a failure is only counted.
LeaveHandler(t) ==
    /\ Depth(t) > 0 /\ Top(t).in # None /\ removing[t] = None
    /\ active_calls' = [active_calls EXCEPT ![Top(t).in] = @ - 1]
    /\ SetTop(t, [Top(t) EXCEPT !.in = None])
    /\ UNCHANGED <<handlers, next_subscription, next_sequence, enabled, removing, remover>>

PublishReturns(t) ==
    /\ Depth(t) > 0 /\ Top(t).at = "deliver" /\ Top(t).in = None /\ Top(t).todo = {}
    /\ stack' = [stack EXCEPT ![t] = SubSeq(@, 1, Depth(t) - 1)]
    /\ UNCHANGED <<handlers, next_subscription, next_sequence, enabled, active_calls,
                   removing, remover>>

-----------------------------------------------------------------------------
Bus(t) == \/ Disable(t) \/ UnsubscribeReturns(t) \/ Snapshot(t)
          \/ \E s \in Subscriptions : EnterHandler(t, s)
          \/ PublishReturns(t)

BusNext == \E t \in Threads : \/ Subscribe(t) \/ Publish(t) \/ LeaveHandler(t) \/ Bus(t)
                            \/ \E s \in Subscriptions : Unsubscribe(t, s)

BusSpec == BusInit /\ [][BusNext]_busVars

\* Threads are scheduled and handlers return.
BusFairSpec == BusSpec /\ \A t \in Threads : WF_busVars(Bus(t) \/ LeaveHandler(t))

-----------------------------------------------------------------------------
(* Properties                                                              *)

Frame == [event : Nat, todo : SUBSET Subscriptions, at : {"snapshot", "deliver"},
          in : Subscriptions \union {None}]
MapType ==
    /\ handlers \subseteq Subscriptions
    /\ next_subscription \in 1..(MaxSubscriptions + 1) /\ next_sequence \in Nat
    /\ enabled \in [Subscriptions -> BOOLEAN]
    /\ removing \in [Threads -> Subscriptions \union {None}]
    /\ remover \in [Subscriptions -> SUBSET Threads]
StackType ==
    /\ stack \in [Threads -> Seq(Frame)]
    /\ \A t \in Threads : Depth(t) <= MaxDepth
BusTypeOK ==
    /\ MapType /\ StackType
    /\ active_calls \in [Subscriptions -> 0..(Cardinality(Threads) * MaxDepth)]

\* unsubscribe() quiesces: once it returned, no thread is inside the removed handler
\* but the removing thread itself, further up its own callback stack.
RemovedIsQuiet ==
    \A s \in Subscriptions :
       (~enabled[s] /\ \A t \in Threads : removing[t] # s)
          => \A t \in Threads \ remover[s] : CallsOnThisThread(t, s) = 0

\* The callback frames of all threads that are inside s, as <<thread, depth>>.
Calls(s) == {p \in Threads \X (1..MaxDepth) :
                p[2] <= Depth(p[1]) /\ stack[p[1]][p[2]].in = s}

\* active_calls counts the callback frames of all threads, nested ones too.
CallsAccounted == \A s \in Subscriptions : active_calls[s] = Cardinality(Calls(s))

\* Unless callbacks wait for each other across threads, unsubscribe() returns, also
\* for a subscriber that removes itself or one it was called from.
RemovalEnds == \A t \in Threads : removing[t] # None ~> removing[t] = None

\* publish() returns: handlers that throw, unsubscribe or are removed do not stop it.
PublishEnds == \A t \in Threads : Depth(t) > 0 ~> Depth(t) = 0

\* Calls are counted exactly and removal quiesces.
BusSafe == BusTypeOK /\ CallsAccounted /\ RemovedIsQuiet

\* unsubscribe() and publish() return.
BusProgress == RemovalEnds /\ PublishEnds

=============================================================================
