# A TLA+ verification of the RealFlow / ByteTurn voice runtime

RealFlow (namespace `byteturn`) is a C++ runtime for real-time voice conversations. It is almost
entirely concurrency: worker pools, per-session lanes, lifecycle threads, bounded queues with
back-pressure, callbacks from providers, barge-in, cancellation and cooperative shutdown. This
directory models those parts in TLA+, checks them with TLC on small instances, and proves the safety
of nearly all of them with TLAPS for every instance. Paths below are relative to the repository
(`src/...` in `PROJECT.json` is the repository's root).

## 1. Inventory

| Part | State | Operations | What makes it correct |
|---|---|---|---|
| `SessionExecutor` (`src/executor.cpp`) | lanes (queue, running, scheduled), `ready_sessions_`, `pending_total_`, one `Work` per turn, worker threads | `submit_turn`, `cancel_session`, `shutdown`, `worker_loop` | FIFO per session, one turn at a time, each promise settled exactly once, exact limits, nothing waits for ever |
| `ConversationSession` (`src/conversation_session.cpp`) | `lifecycle_`, stop and start requests, `active_operations_`, the engine, its timeline | `start`, `stop`, `request_stop`, `push_audio`/`cancel_response`, `observe`, `handle_event`, `lifecycle_loop` | the engine is stopped exactly once and under nobody; `start()` tells the truth; waiters return |
| `EventTimeline` (`src/event_timeline.cpp`) | journal, notification queue, drop statistics, dispatcher | `admit`, `flush`, `close`, `shutdown`, `dispatch_loop` | order, gaps always reported, `flush` means delivered, drain at shutdown |
| `EventBus` (`src/event.cpp`) | handlers, per-handler `enabled` and `active_calls`, per-thread callback stack | `subscribe`, `unsubscribe`, `publish` | a removed handler is quiet when `unsubscribe` returns; removal from inside a handler returns |
| `RuntimeManager` (`src/runtime_manager.cpp`) | registry of entries, startup queue, notifications, lifecycle | `add`, `remove`, `fail`, leased calls, startup workers, supervisor, dispatcher, `request_shutdown` | both tickets answered once and consistently; no teardown under a lease; exact capacity; draining ends |
| `VoiceChatConnection` (`apps/voice_chat_adapter.cpp`) | admission, phase, flush and player flags, output route, last heartbeat | `start`, `stop`, `push_audio`, `status`, `take_output`, `acknowledge_player_stop`, `heartbeat`, `tick`, `disconnect` | never two incarnations at a player, no gaps, a flush is final, loss retires the session |
| `Conversation`, `AsyncSession` (`src/conversation.cpp`, `src/session.cpp`) | `state_`, `turn_id_`, `generation_`, audio queue, turns on the lane | `push_audio`, `audio_loop`, `on_transcript`, `interrupt`, destructor | interrupts hit exactly the earlier turns; one speaker; the state comes to rest |
| `IncrementalTtsPipeline` (`src/incremental_tts.cpp`) | sentence queue, flags, worker | `push`, `finish`, `cancel`, `worker_loop` | spoken in order and completely, errors surface, blocked producers are released |
| `FullDuplexConversation` (`src/full_duplex_conversation.cpp`) | current response and its sample offsets, input queue, input worker | speech and playback calls, provider events, `close` | one cancel per response at an offset that was heard; activity follows playback; no lost wakeup |
| `Agent`, `ToolRegistry` (`src/agent.cpp`) | `history_`, the step and the tool call of the turn | `run_streaming`, `invoke` | a turn enters the history whole or not at all; a cancelled turn starts nothing new |
| `CurlHttpTransport` (`src/curl_transport.cpp`) | attempt, bytes received, back-off | `perform` with `write_body` and `progress` | nothing that reached the sink is requested again; cancellation stops the retries |
| `OpenAiCompatibleLlm`, SSE parser (`src/openai_compatible.cpp`) | line buffer, event data, text and tool calls so far, `done` | `stream`, `feed`, `finish` | chunking does not matter; `[DONE]` closes the answer and only a closed answer counts |
| `SentenceSegmenter` (`src/sentence_segmenter.cpp`) | `buffer_` | `push`, `flush` | no text lost, doubled or cut inside a code point |
| `RuntimeObserver` (`src/observability.cpp`) | pending spans, counters | `observe` | bounded; a finished turn leaves no span; only what completed is measured |
| `PipelineConversationEngine` (`src/pipeline_conversation_engine.cpp`) | the conversation it owns | adapts the engine interface to `Conversation` | its state is the conversation's |
| mocks, WebSocket mocks, demos, command line | | | not modelled, see section 8 |

How they interact. A `VoiceChatConnection` asks the `RuntimeManager` for a session and watches its
tickets. The manager's startup workers build and start a `ConversationSession`; its supervisor tears
it down. The session owns an `EventTimeline` (whose dispatcher delivers over an `EventBus`) and an
engine. The cascaded engine is a `Conversation`, which submits turns to a `SessionExecutor` lane. The
turn's task runs the `Agent`, whose model is read over HTTP as an event stream; each text delta goes, on
the thread that reads the socket, through the `SentenceSegmenter` into an `IncrementalTtsPipeline`. The
native engine is a `FullDuplexConversation`. A `RuntimeObserver` listens to the events of all of them. The
hard behaviour is at those seams: stops that overtake starts, leases against teardown, checks that
are stale when the call they guard is made, bounded queues at their limit, destructors that wait.
The full list of hazards, each at its line and with its properties, is in `PROJECT.json`.

## 2. Modules

| Module | Models | Uses |
|---|---|---|
| `SessionExecutor` | the executor | implements `TurnLanes` |
| `TurnLanes` | contract: per-session FIFO lanes of turns | |
| `ConversationSession` | one session and its lifecycle thread | implements `SessionLifecycle` |
| `SessionLifecycle` | contract: forward-only lifetime, calls only while Running, one cleanup | |
| `EventTimeline`, `EventBus` | journal and delivery lane; subscriptions | |
| `RuntimeManager` | the manager, its sessions reduced to `SessionLifecycle` | respects `SessionLifecycle`, implements `ManagedSession` |
| `ManagedSession` | contract: what `find()` and the two tickets of an admission show | |
| `VoiceChatConnection` | a connection over the manager | composed with `ManagedSession` |
| `Conversation` | the cascade of one conversation, the executor reduced to one lane | |
| `IncrementalTts`, `FullDuplexConversation` | speech queue; native duplex conversation | |
| `SentenceSegmenter`, `SseStream`, `RuntimeObserver` | three reducers, as functions of their state and an input | |
| `Agent` | a turn of the agent with its HTTP requests and its tools | extends `SseStream`, `RuntimeObserver` |
| `Response` | one response end to end | composes `Agent`, `SentenceSegmenter`, `IncrementalTts` |
| `<component>Proofs` | the theorems about a component: executor, session, manager, cascade, duplex conversation, connection, response | extends the component and `TLAPS` |
| `EventDeliveryProofs` | the theorems about the two modules that deliver events | extends `EventTimeline`, `EventBus` and `TLAPS` |
| `MC*` | the instance TLC checks | |

Components are composed through contracts: a module that uses another one contains the other's
contract, and a run shows that the other one implements it. `ConversationSession` implements
`SessionLifecycle` (`ImplementsLifecycle`) and `RuntimeManager` drives its sessions only by steps of
it (`SessionsKeepContract`); `RuntimeManager` implements `ManagedSession` (`ImplementsAdmissions`)
and `VoiceChatConnection` contains that; `SessionExecutor` implements `TurnLanes`
(`ImplementsTurnLanes`) and `Conversation` contains one lane that behaves so. `Response` is the inside of
one such turn, composed of the detailed modules themselves: `Conversation` sees of it only that it speaks
and ends, `Response` sees of the conversation only the interrupt (the generation, then the lane's token).

In `Agent` the program counter `agent.at` is the place in `run_streaming`, `perform` or `invoke`; an
exception is `Unwind`, which drops what the blocks on the stack held. The token is only looked at where
the code looks. A delta reaches `on_text_delta` at place `consumer` (`last` when `parser.finish()`
dispatches it), where the actions `Speak`, `Pushed` and `Rejected` of `Response` work until
`DeltaSpoken` or `DeltaRefused` returns; so back-pressure of the speech queue stalls the transfer, as it
does in the code. Text is a sequence of bytes, one byte per class the segmenter tells apart; multi-byte
code points have two bytes, a lead and a continuation, where UTF-8 has up to four. An event of several
`data:` lines parses when its first line is the first part of a JSON text and its second the rest
(`Joined`).

In `Conversation` a sentence behind the first goes through `Push`, which may have to wait for room. The wait
ends when the synthesizer's thread takes a sentence or fails (`PushReturns`), and a thread that sees the
cancellation leaves (`SynthesizerLeaves`) without ending it: a turn in `push()` whose synthesizer has left is
`Stuck`, and with it the lane and the destructor (finding 1). Whether the queue is full is a choice there; it is
counted in `IncrementalTts`. `SubmitOverloaded` is open with room in the lane as well, since other sessions count
towards the executor's total.

Conventions. A critical section is one action; a thread outside a lock is a program counter with a
step per store or call another thread can see. A condition variable wait is the guard of the next
step where every change of the predicate notifies under the lock; where it does not
(`FullDuplexConversation`), sleeping and waking are steps of their own. A check and a call out that it
guards with no lock over both are two steps: the look at the token and the request or the tool
(`BeginAttempt`, `SendRequest`; `CallTool`, `EnterHandler`), the look of the sink and the frame, the decision of a
barge-in and the cancel at the provider. A check that only decides where its own thread goes on, or
what it tells the observers, is one step with that: a cancellation changes nothing but what
the next check sees. Variables keep the source's names without the trailing
underscore; history variables are marked as such. In `FullDuplexConversation` the look at `stopping_`
at the head of a public call and the locked section after it are one step. The manager's startup deque is the set
of its generations, which `add` appends in ascending order. Payloads are numbers or
not represented; wording of events is left out. Operators whose name ends in `Mutant` are variants
with a plausible fault that show that a property can fail; no specification uses them.

`VoiceChatConnection` splits `refresh()` into four reads (overflow, `retired`, `find()` with the
first look at `started`, the second look at `started`), because the manager moves in between. Calls
refused for a wrong client, a stale handle or a lost connection change nothing and are not actions.

## 3. Runs

| Run | Instance | Checks | Shows |
|---|---|---|---|
| `executor` | 2 sessions, 2 workers, 3 turns, limits 2/2, one turn with a deadline, one thread that shuts down twice | `TypeOK`, `PromiseOnce`, `LaneOrder`, `PendingAccounting`, `StopReachesEveryTurn`, `ImplementsTurnLanes`, `Progress` | lanes stay FIFO and exclusive under cancels and shutdown, every future becomes ready |
| `session` | 2 starters, 1 stopper, 2 callers, journal of 2 | `SessionSafe`, `ImplementsLifecycle`, `Progress` | stops during startup, nested stops, partial starts, an honest `start()` |
| `timeline` | journal 2, queue 2, 4 appends, 1 flusher | `TimelineSafe`, `GapsReported`, `Progress` | eviction, drops, flush, drain |
| `response` | 2 steps, 2 attempts, 2 tool calls, 6 bytes of text, speech queue 1, 7 spans | `ResponseSafe`, `HistoryAtomic`, `TextIntact`, `CompletedMeansSpoken`, `SpansSettled`, `DoneFences`, `CancelStops`, `Progress` | a response against any server, with an interrupt and a deadline at every moment |
| `speech_interrupt` | queue 1, 3 sentences | `InterruptUnblocks` (violated) | finding 1 |
| `manager` | 1 id, 2 startup workers, 1 caller, 1 generation, 2 notifications | `ManagerSafe`, `StopReachesSession`, `StoryForward`, `SessionsKeepContract`, `ImplementsAdmissions`, `Progress` | stops at every moment of startup, leases and teardown |
| `manager_reuse` | 2 ids, 1 worker, capacity 2, 2 generations | `Membership`, `CancelledReservationRetires` | an id that would be free too early, a reservation behind a worker that hangs in another's factory |
| `conversation` | 3 transcripts, lane limit 1, 1 interrupt | `PipelineSafe`, `InterruptExact`, `Progress` | interrupts, overload, a turn that waits in `push()`, destruction |
| `conversation_overload` | the same | `NotSpeakingAtRest` (violated) | finding 2 |
| `full_duplex` | 1 application thread and the provider's, 2 responses of 2 samples, input queue 1 | `DuplexSafe`, `CancelExact`, `Progress` | concurrent barge-ins, late audio, close |
| `event_bus` | 2 threads, 2 subscriptions, 3 events, nesting 2 | `BusSafe`, `BusProgress` | removal against running deliveries |
| `voice_chat` | 3 incarnations, queue 2 of 3 outputs, time 2 with timeout 2 | `VoiceSafe`, `FreshIncarnation`, `Progress` | restart, overflow, silence, disconnect |

`Progress` (`BusProgress` for the bus) names the liveness property of each component and is the conjunction of its named parts.

Why the bounds are enough. Every limit of the code but one is reached and exceeded inside the bound: three
submissions against a limit of two, four appends against a journal and a queue of two, three outputs
against a route of two. The exception is the manager's capacity: `manager_reuse` has two places for two admissions, because
only then can a reservation wait while the one worker hangs in the factory of the other, and an id given
free too early meet its replacement; that more admissions than places stay within the capacity is
`RegistryIsExact`. The races need two parties and two generations of the thing they confuse: two
workers on one lane, two starters, two responses, two generations of an id; three incarnations for a
player flag carried over from the last but one. In `response` the deltas are a sentence, a soft pause
that ends inside a code point, and the rest of that code point; six bytes are two of them, so that text is
spoken in two steps, across a tool call and across a full speech queue. Seven spans are one less than a
turn with another session's span can need, so the limit is hit. Besides, the module of that run assumes
`SegmenterKeepsText`, which TLC evaluates: every UTF-8 text of at most five bytes, cut into two deltas
anywhere, comes out of the segmenter complete, in order and in whole code points. Between them the passing runs fire every
action, and each property has a mutant of the code that the run catches.
`CHECK_DEADLOCK FALSE` stands where every party may simply stop calling.

## 4. Fairness

Only steps that the code's own threads must take are fair: a worker, dispatcher, supervisor or
lifecycle thread that has something to do is scheduled, and a thread inside a call goes on. Calls out
(tasks, engines, providers, observers, sinks) are assumed to return, which the documentation demands of
them ("bounded", "must eventually return", "cooperative"); `manager_reuse` drops that assumption and
keeps only the supervisor. Nobody is obliged to call the API. In `voice_chat` the host's `tick` is
strongly fair, because "call tick from the host loop" is the transport's duty and the connection's
mutex is free between operations; and the manager retires what was asked to stop, which the `manager`
run shows of it. In `response` the lane's thread and the synthesizer's are scheduled, tools and the speech
provider return, libcurl's total timeout fires (`CURLOPT_TIMEOUT_MS` is always set), and an interrupt that
has raised the generation goes on to cancel the lane; the server is promised nothing. In `conversation` a
`push()` that waits returns only while the synthesizer has not left. `Progress` of both
excepts `Stuck`, the one state of finding 1. Weak fairness is used elsewhere, but in `Conversation` for two things
that may be interrupted again and again and yet are finite: the join of the synthesizer, whose utterance has
finitely many frames, and the end of the model's answer, which has finitely many sentences.

## 5. Proofs

What the runs show on small instances, the theorems show for every value of the constants: any
number of sessions, workers, threads, turns, responses, events and any limits. Every theorem rests on
an inductive invariant of its module, found with TLC first: `IInv` (`BusInv` for the bus), of which
`Invariance` (`BusInvariance`; `Inductive` for the manager) proves `Spec => []IInv`, and for a response three
in layers, `AgentInv`, `SpokenInv` and `SpansInv`. The listed theorems follow from them.

| Module | Theorem | Statement |
|---|---|---|
| `SessionExecutorProofs` | `TypeCorrect`, `SettledOnce`, `SessionFifo`, `StopReaches`, `PendingCounted` | `Spec => []` `TypeOK`, `PromiseOnce`, `LaneOrder`, `StopReachesEveryTurn`, `PendingAccounting` |
| | `LanesIndexed`, `ShutdownQuiet` | `Spec => []LaneIndexed`, `Spec => []JoinedMeansQuiet` |
| | `Refinement` | `Spec => ImplementsTurnLanes` |
| `ConversationSessionProofs` | `SessionIsSafe` | `Spec => []SessionSafe` |
| | `Refinement` | `Spec => ImplementsLifecycle` |
| `EventDeliveryProofs` | `TimelineIsSafe`, `GapsAreReported` | `Spec => []TimelineSafe`, `Spec => []GapsReported` |
| | `BusIsSafe` | `BusSpec => []BusSafe` |
| `ConversationProofs` | `InterruptIsExact`, `PipelineIsSafe` | `Spec => []InterruptExact`, `Spec => []PipelineSafe` |
| `FullDuplexConversationProofs` | `CancelIsExact`, `DuplexIsSafe` | `Spec => []CancelExact`, `Spec => []DuplexSafe` |
| `VoiceChatConnectionProofs` | `VoiceIsSafe` | `Spec => []VoiceSafe` |
| | `ReplacementIsFresh` | `Spec => FreshIncarnation` |
| `RuntimeManagerProofs` | `RegistryIsExact`, `StopIsNotLost`, `ManagerIsSafe` | `Spec => []` `Membership`, `StopReachesSession`, `ManagerSafe` |
| | `Refinement` | `Spec => ImplementsAdmissions` |
| | `SessionsAreDrivenByContract` | `Spec => SessionsKeepContract` |
| | `StoryMovesForward` | `Spec => StoryForward` |
| `ResponseProofs` | `ResponseIsSafe`, `HistoryIsAtomic`, `SpansAreSettled` | `Spec => []` `ResponseSafe`, `HistoryAtomic`, `SpansSettled` |
| | `AnswersAreFenced`, `CancellationStops` | `Spec => DoneFences`, `Spec => CancelStops` |
| | `CompletedIsSpoken` | `Spec => []SpokenWhole` |

Assumptions. Those of the component modules only: limits that the constructors check are positive,
bounds of the exploration are natural numbers, `NoSession` is no session, and the sets of threads that
are counted (`Callers` of a session, `Threads` of a bus, `Workers` and `Callers` of the manager) are finite,
as the threads of a process are. The executor's sessions and workers, the manager's ids, and the stoppers,
starters, flushers and applications of the others may be infinitely many. Of the server nothing is assumed but that
the texts it sends (`Deltas`, any set of them) are made of the bytes that the segmenter tells apart. Two calls of
shutdown from different threads, which the executor's run leaves out for its size, are covered.
The contracts by which the modules are composed are discharged: `VoiceChatConnectionProofs` assumes of the
manager `ManagedSession`, which `RuntimeManagerProofs` shows of every admission; the manager contains
`SessionLifecycle`, to whose steps it is proved to keep and which `ConversationSessionProofs` shows of a
session. The cascade's lane is a simplification of `TurnLanes` written by hand; only the executor's side of
it is proved.

*Executor.* `LaneOrder` and `PromiseOnce` are not inductive: that a worker settles a promise that is
still pending depends on who owns the turn. `IInv` adds ownership. `WorkerOwns` and `RunningOwned`: a
worker's turn is exactly the running turn of its lane, so it is not in a queue. `WorkerSettles`: the
promise of a turn is pending until the worker's own settling step. `QueueFresh`, `QueueSorted`: what waits
is pending, untouched, held by no worker and in ascending order. `PendingPlaced`: a pending turn is queued
in its lane or held by a worker. `Unborn`: numbers not handed out are unused. `LaneIndexed`: the three
views of which lanes have work agree. `StopFinal`: once stopping, queues are empty and stay so, and a
worker that left left nothing ready. The step is split per action, and cancel and shutdown share
`DropCore`, as they share code. `PendingCounted` is a counting argument on top of it: the waiting turns
are a finite set that each action changes by what it does to `pending_total_`. `Refinement` maps each
action to a step of `TurnLanes` or to none.

*Session.* Nearly everything hangs on where the lifecycle thread is: `EnginePosition` and
`PhasePosition` say what engine, failure and public state are possible at each place, `Leases` that
`active_operations_` counts the callers inside and is zero before the engine is stopped, `Timeline` that
the journal gets its terminal event once and last, `Told` what each `start()` was answered. The
refinement to `SessionLifecycle` uses the same invariant.

*Timeline.* The stream of the observers is what was delivered, what is in flight and what is pending,
in this order. Every step leaves it, appends the newest event, or loses that event (`Stays`, `Grows`,
`Loses`); order, gaps and `flush()` targets are facts about such a stream. `LanePlaced` ties the counters
that `flush()` compares to its length, `FlushWaits` says that what was undelivered when a flush began lies
before its target.

*Bus.* `Calls(s)` is the set of callback frames of all threads inside handler `s`; every step leaves it,
adds a frame while the entry is enabled, or removes one, and `active_calls` follows (`CallsMove`).
`unsubscribe()` compares a number with a number, and what it means is a set: if all calls are at most as many
as the thread's own, which are among them, then all calls are its own (`QuiescedMeansOwn`). `RemovedOnce`
(an entry leaves the map once, so it has one remover) and `OnlyRemover` carry this beyond the return.

*Cascade.* `Fenced`: who holds `submission_mutex_` and how far the destructor is. `Announced`, `Queued`:
the turn being submitted is the newest, the queue is in order behind the one that runs. `Cut`: on the lane a
turn is cancelled exactly when its generation is over, but for the moment between the two steps of an
interrupt. `Voiced`, `Shown`: audio and state belong to a turn that is still to end.

*Duplex conversation.* `CancelPlan`: a response is ended by one thread that decided and has not yet
called, or by one call, at an offset acknowledged for that response, although the next response may have
started in between. `Offsets`, `ActiveExactly`, `FrameFresh`, `ClosePlaced` bound the rest.

*Connection.* `refresh()` looks at four things at four moments. What makes its view safe is what cannot
change back once it was seen: `TicketsAgree` (the tickets against what `find()` says), `AckCurrent`,
`RouteCurrent` and `OpPlaced`.

*Manager.* An entry is shared by callers, a startup worker, its session's thread, the supervisor and whoever
stops it, and no one of the checked properties is inductive. `EntryOK` is what holds of one entry by itself:
a stop is told to its session and has a reason (`StopToldTo`), only a broken session ends unasked
(`EndsForCause`), how far startup is (`StartupOf`), what the tickets were answered (`TicketsOf`), what teardown
meets (`QuietOf`). The rest says who may act. `Queued`, `Held`: a reservation waits, or one worker holds it
while its startup is not done. `Leased`: leases are counted where they were taken. `Supervised`: what the
supervisor saw of the entry it is at is still so when it acts. `Members`, `Drained`, `Ending`, `Lane` are the
registry, a drain, the order in which threads leave, and the bounded queue. Most steps are `Steady`: a stop,
a session or a lease changes an entry only `Onward`, taking back nothing that somebody relies on; a worker
changes entries whose startup is not done and the supervisor takes away entries that nobody leases, so the
two never meet. The same case split shows that what the application sees only `Advances` (`Refinement`) and
that a session is only driven (`Drives`) as its contract allows. `StoryMovesForward` has an invariant of its
own on top: `Story` says that what is queued or in flight about an entry is news, in order, and not ahead of
the `Level` that the entry has reached, which only rises.

*Response.* Three layers, as the code has three. `AgentInv` is the agent with its request and is inductive by
itself, because speech and observer never write what it is about; `ResponseIsSafe` takes from it that nothing of
an answer was seen at any place from which a request can still be sent (`Fresh`). The history is only appended
to, so `HistoryAtomic` has to know where its messages are: `Kept` says that the first two are those that were there
before the turn, which makes the check-point a fact, and `Matched` that the calls of every message
have their results but those at work, whose message is `Asked`. `SpokenInv` is the pipeline under the lane:
`OrderInv` and `ControlInv` are the pipeline by itself (what was accepted is what was taken and what waits; how
`finishing`, `error` and the two threads stand to each other), `LaneInv` says at which place of the lane the
pipeline is made, pushed to, finished or cancelled, and `Handed` that every sentence given to `push()` was accepted,
but the one at work or refused. Neither half of that is inductive without the other: that nobody pushes after
`finish()` is the lane's doing, that `finish()` returning without an exception means an empty queue is the
pipeline's. `CompletedIsSpoken` is their sum: `ConversationTurnCompleted` is told only when all that was
handed over has been synthesized.
`SpansInv` holds of the observer after any number of events. What an event does to the pending spans is
`Change` (which keys come, which go, what is measured), the limit is finite-set arithmetic on it, and from then on
no proof looks into the reducer. Once a span was rejected at the limit little is known of the
others, so `AgentSpans` and `SpeechSpans`, which say of each place in the code which spans are open, are
asserted until the first rejection, while the limit, the foreign span and the clean end of a turn are asserted
always; `Parked` says that the agent has left its turn by the time the lane ends it, so that no span is opened
after the last event has discarded them. The two action properties are read off the steps (`Fenced`,
`StopsWhenCancelled`) under `AgentInv`. `CancelStops` does not say that nothing begins after a cancel, which the code
does not promise: the history variable `excused` notes that the agent stood between a check and its act when it
was cancelled, and at most that one act, which uses it up, may still begin. `Excusal`: a cancelled turn stands there only
if it is excused.

## 6. Only model-checked

Liveness (all `Progress` properties, `BusProgress` and `CancelledReservationRetires`) rests on fairness and is
outside the prover. `TextIntact`, and of `CompletedMeansSpoken` the part that the sentences handed to speech are all the
words of the answer, are about what the recursive `Extract` and the flattening of a sequence of sequences compute, which
needs induction over data; the rest of `CompletedMeansSpoken` is `CompletedIsSpoken`.

## 7. Findings

1. `speech_interrupt`: a producer blocked in `IncrementalTtsPipeline::push` on the full queue is not
   released by the external cancellation that `Conversation::interrupt()` raises. The wait at
   `src/incremental_tts.cpp:25-28` does not look at `cancelled_()`, and the worker that sees it leaves
   without a notification. The turn, its lane and `~Conversation` then wait for ever although the
   provider has returned. `docs/testing.md:87` and `docs/interaction-controls.md:67-68` say otherwise.
2. `conversation_overload`: a transcript refused for overload takes `turn_id_` from the response
   before it (`src/conversation.cpp:167-169`) and then clears it (289), so the end of that response
   does not reset `state_`, and `state()` says Speaking at rest, for good: in the trace the refusal is over
   (286-290) before the earlier response begins to speak.

Also met, and recorded as a hazard: `VoiceChatConnection::refresh` looks at the started ticket twice
(`apps/voice_chat_adapter.cpp:140` and `143`); a startup that fails in between is reported as Running
until the next call. Input is still refused by the manager's lease; `PhaseHonest` states what holds.

Noted while modelling, and not counted as findings. A turn that reaches its step limit emits `TurnFailed`
but returns normally, keeps its messages and is reported completed by the conversation
(`src/agent.cpp:125-129`); `HistoryAtomic` and `CompletedMeansSpoken` say what holds of it. The
"hard maximum chunk size" of `README.md:203-204` is a threshold: punctuation further on in the same
buffer wins over it (`src/sentence_segmenter.cpp:95`), so one long delta can give a longer chunk. An
utterance whose turn never runs (refused for overload, cancelled while it waits, an empty transcript, an
ASR error) has no terminal event, so the two spans that `AsrEndOfUtterance` opened stay in the observer
until the session ends; `SpansSettled` is about turns that run.

## 8. Not modelled, and the plan

Left out of modelled parts: in `RuntimeManager` the rejection counters, `flush_notifications`,
exhaustion of identities and aborted construction; in `FullDuplexConversation` callbacks before
`connect()` has returned and a second closer; in `EventBus` two handlers that wait for each other's
removal, which subscribers must not do; in `RuntimeObserver` the events of the native conversation,
whole-session discards, the histogram arithmetic and the JSON log; in `OpenAiCompatibleLlm` the JSON
parser and writer (text in, text out) and `complete()`, which no conversation calls; in
`CurlHttpTransport` the length of a back-off and the options handed to libcurl. An error answer is
modelled with a body that holds no `data:` lines. Of `PipelineConversationEngine` only `state()` has
a definition; its other calls are those of `Conversation`, and that they happen only between start and stop is
the lease of `ConversationSession`. Mocks, demos and the command line are test doubles and I/O.

The order of work, most important first:

1. done: all the modules above, and the proofs of section 5;
2. `RuntimeObserver` for the native conversation, and `flush_notifications` of the manager.
