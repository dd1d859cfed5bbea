------------------------------- MODULE Response -------------------------------
(***************************************************************************)
(* A response from end to end: the agent's text goes through the sentence  *)
(* segmenter into the speech pipeline, on the executor lane that runs the  *)
(* turn (src/src/conversation.cpp, src/src/session.cpp), while the         *)
(* synthesizer's thread speaks and an interrupt or a deadline may cut it   *)
(* short.  Composes Agent, SentenceSegmenter, IncrementalTts and           *)
(* RuntimeObserver.                                                        *)
(***************************************************************************)
EXTENDS Agent, SentenceSegmenter

CONSTANTS Capacity, MaxChunks, MaxFrames     \* of the speech pipeline

ASSUME SpeechAssumption ==
    /\ Capacity \in Nat \ {0}                 \* checked by its constructor
    /\ MaxChunks \in Nat /\ MaxFrames \in Nat
    /\ Deltas \subseteq Seq(Bytes)            \* texts the segmenter can read

VARIABLES
    lane,          \* agent, flush, finish, fail or over: the turn's task
    buffer,        \* buffer_ of the turn's segmenter
    todo,          \* sentences extracted and not yet pushed
    segments,      \* history: the sentences passed to push(), by number
    started,       \* speech_started: the pipeline exists
    first_audio,
    told,          \* the terminal event of the conversation's turn
    \* IncrementalTts
    queue, finishing, cancelled_locally, error, joined, external,
    producer, next_chunk, accepted, worker, taken, frames, ended, late

Tts == INSTANCE IncrementalTts

speechVars == <<queue, finishing, cancelled_locally, error, joined, external,
                producer, next_chunk, accepted, worker, taken, frames, ended, late>>
laneVars == <<lane, buffer, todo, segments, started, first_audio, told>>
vars == <<agentVars, laneVars, speechVars>>

Init ==
    /\ AgentInit /\ Tts!Init
    /\ lane = "agent" /\ buffer = <<>> /\ todo = <<>> /\ segments = <<>>
    /\ started = FALSE /\ first_audio = FALSE /\ told = "nothing"

-----------------------------------------------------------------------------
(* The agent's thread inside run_streaming()                               *)

\* The task finds its token set before it asks the agent.
NotRun ==
    /\ lane = "agent" /\ At("begin") /\ token
    /\ lane' = "fail"
    /\ UNCHANGED <<agentVars, buffer, todo, segments, started, first_audio, told, speechVars>>

AgentRuns ==
    /\ lane = "agent" /\ AgentThread
    /\ UNCHANGED <<laneVars, speechVars>>

\* push() of the segmenter.
PushMutant(delta) == Extract[delta, FALSE]          \* forgets what it holds
Push(delta) == Extract[buffer \o delta, FALSE]
\* flush() of it.
Flush == Extract[buffer, TRUE]

\* The server's data; a delta is pushed into the segmenter at once.
ServerSends ==
    /\ lane = "agent" /\ Server
    /\ IF stream'.delta # <<>>
       THEN LET cut == Push(stream'.delta) IN
               buffer' = cut.rest /\ todo' = cut.sentences
       ELSE UNCHANGED <<buffer, todo>>
    /\ UNCHANGED <<lane, segments, started, first_audio, told, speechVars>>

Consumes == At("consumer") \/ At("last")

DeltaSpoken ==
    /\ lane = "agent" /\ Consumes /\ todo = <<>> /\ producer = "idle"
    /\ ConsumerReturns(TRUE)
    /\ UNCHANGED <<laneVars, speechVars>>

\* speak() answered false: the rest of the delta is forgotten.
DeltaRefused ==
    /\ lane = "agent" /\ Consumes
    /\ producer = "rejected" \/ (todo # <<>> /\ producer = "idle" /\ external)
    /\ ConsumerReturns(FALSE)
    /\ todo' = <<>>
    /\ UNCHANGED <<lane, buffer, segments, started, first_audio, told, speechVars>>

-----------------------------------------------------------------------------
(* speak()                                                                 *)

Speaks == lane = "flush" \/ (lane = "agent" /\ Consumes)

\* The pipeline is made with the first sentence.
Speak ==
    /\ Speaks /\ todo # <<>> /\ ~external
    /\ Tts!PushCalled
    /\ started' = TRUE
    /\ segments' = Append(segments, Head(todo))
    /\ Emits("TtsChunkStarted", 0)
    /\ UNCHANGED <<history, agent, token, excused, http, stream,
                   lane, buffer, todo, first_audio, told>>

Pushed ==
    /\ Tts!PushAccepted
    /\ todo' = Tail(todo)
    /\ UNCHANGED <<agentVars, lane, buffer, segments, started, first_audio, told>>

Rejected ==
    /\ Tts!PushRejected
    /\ UNCHANGED <<agentVars, laneVars>>

-----------------------------------------------------------------------------
(* The task after run_streaming(): on_completed and on_failed              *)

Returned == At("returned") \/ At("limit")

\* A stop that came too late for the agent still fails the response; what is left
\* in the segmenter is flushed, unless it ends inside a code point.
Completing ==
    /\ lane = "agent" /\ Returned
    /\ LET cut == Flush IN
       IF token \/ cut.threw THEN lane' = "fail" /\ buffer' = <<>> /\ UNCHANGED todo
       ELSE lane' = "flush" /\ buffer' = cut.rest /\ todo' = cut.sentences
    /\ UNCHANGED <<agentVars, segments, started, first_audio, told, speechVars>>

AgentFailed ==
    /\ lane = "agent" /\ At("failed")
    /\ lane' = "fail" /\ buffer' = <<>>       \* nobody asks for it any more
    /\ UNCHANGED <<agentVars, todo, segments, started, first_audio, told, speechVars>>

\* Everything was pushed, or a sentence was refused.
Flushed ==
    /\ lane = "flush"
    /\ \/ todo = <<>> /\ producer = "idle"
       \/ producer = "rejected"
       \/ todo # <<>> /\ producer = "idle" /\ external
    /\ lane' = "finish" /\ todo' = <<>>
    /\ UNCHANGED <<agentVars, buffer, segments, started, first_audio, told, speechVars>>

\* speech->finish() of a response that ran to its end, also after a refusal.
FinishSpeech ==
    /\ lane = "finish" /\ started
    /\ Tts!FinishCalled
    /\ UNCHANGED <<agentVars, laneVars>>

SpeechJoined ==
    /\ Tts!FinishReturns
    /\ lane' = IF lane = "finish" /\ producer' = "threw" THEN "fail" ELSE lane
    /\ UNCHANGED <<agentVars, buffer, todo, segments, started, first_audio, told>>

SpeechOver == ~started \/ joined

\* The last look at the token and the generation, then the terminal events.
StandsMutant == TRUE
Stands == ~token /\ ~external

CompleteTurn ==
    /\ lane = "finish" /\ SpeechOver
    /\ IF Stands
       THEN /\ lane' = "over" /\ told' = "completed"
            /\ observer' = LET spoken == IF started THEN Observe(observer, Event("SpeechCompleted", Turn, 0))
                                                    ELSE observer
                           IN Observe(spoken, Event("ConversationTurnCompleted", Turn, 0))
       ELSE lane' = "fail" /\ UNCHANGED <<told, observer>>
    /\ UNCHANGED <<history, agent, token, excused, http, stream, buffer, todo,
                   segments, started, first_audio, speechVars>>

\* on_failed: cancel() and finish(), then the terminal event.
CancelSpeech ==
    /\ lane = "fail" /\ ~SpeechOver
    /\ Tts!ProducerCancels
    /\ UNCHANGED <<agentVars, laneVars>>

DrainSpeech ==
    /\ lane = "fail" /\ producer = "cancelled"
    /\ Tts!FinishCalled
    /\ UNCHANGED <<agentVars, laneVars>>

FailTurn ==
    /\ lane = "fail" /\ SpeechOver
    /\ lane' = "over"
    /\ \/ /\ token \/ external
          /\ told' = "cancelled" /\ Emits("ConversationTurnCancelled", 0)
       \/ /\ token \/ ~external             \* expired, or a failure of its own
          /\ told' = "failed" /\ Emits("ConversationTurnFailed", 0)
    /\ UNCHANGED <<history, agent, token, excused, http, stream, buffer, todo,
                   segments, started, first_audio, speechVars>>

-----------------------------------------------------------------------------
(* The synthesizer's thread, interrupts and deadlines                      *)

\* The sink tells the first frame of the response.
FrameSunk ==
    /\ Tts!FrameSunk
    /\ first_audio' = (first_audio \/ ~external)
    /\ IF ~first_audio /\ ~external THEN Emits("FirstAudio", 0) ELSE UNCHANGED observer
    /\ UNCHANGED <<history, agent, token, excused, http, stream,
                   lane, buffer, todo, segments, started, told>>

Synthesizer ==
    \/ FrameSunk
    \/ Tts!WorkerLoop /\ UNCHANGED <<agentVars, laneVars>>

\* interrupt(): the generation first, then the lane's token.
Interrupt ==
    /\ lane # "over"
    /\ Tts!Interrupt
    /\ UNCHANGED <<agentVars, laneVars>>

Cancel ==
    /\ lane # "over"
    /\ CancelTurn
    /\ UNCHANGED <<laneVars, speechVars>>

Lane == \/ NotRun \/ AgentRuns \/ DeltaSpoken \/ DeltaRefused
        \/ Speak \/ Pushed \/ Rejected
        \/ Completing \/ AgentFailed \/ Flushed \/ FinishSpeech \/ SpeechJoined
        \/ CompleteTurn \/ CancelSpeech \/ DrainSpeech \/ FailTurn

\* The one place where a response can hang: push() waits for room in a queue whose
\* worker has left because of an interrupt, which the wait does not look at.
Stuck == producer = "pushing" /\ external /\ worker = "exited"
         /\ ~Tts!HasRoom /\ ~Tts!GivesUp

Over == (lane = "over" \/ (Stuck /\ token)) /\ UNCHANGED vars

Next == \/ Lane \/ ServerSends
        \/ started /\ Synthesizer
        \/ Interrupt \/ Cancel \/ Over

Spec == Init /\ [][Next]_vars

\* The lane's thread and the synthesizer's are scheduled, tools and the provider
\* return, libcurl's timeout fires; the server is promised nothing.  interrupt()
\* goes on to cancel the lane.
FairSpec == /\ Spec /\ WF_vars(Lane) /\ WF_vars(started /\ Synthesizer)
            /\ WF_vars(external /\ Cancel)

-----------------------------------------------------------------------------
(* Properties.                                                             *)

TypeOK ==
    /\ lane \in {"agent", "flush", "finish", "fail", "over"}
    /\ told \in {"nothing", "completed", "cancelled", "failed"}
    /\ agent.at \in {"begin", "step", "attempt", "sending", "transfer", "consumer", "last",
                     "backoff", "answer", "tool", "invoking", "handler", "result", "throw",
                     "returned", "limit", "failed"}
    /\ token \in BOOLEAN /\ excused \in BOOLEAN /\ started \in BOOLEAN /\ first_audio \in BOOLEAN

\* The bytes of some texts, all but the spaces.
Inked(texts) == SelectSeq(SeqOps!FlattenSeq(texts), LAMBDA c : c # " ")

\* Driven by the conversation, the speech pipeline keeps what it promises: sentences in
\* order, errors rethrown by finish(), at most one frame heard after a cancellation; a
\* response is over only when the shared synthesizer is free for the next one; and a
\* request is made again only while its sink has seen nothing of the answer, so that no
\* word is said twice (src/docs/architecture.md, src/src/curl_transport.cpp, retry).
ResponseSafe ==
    /\ TypeOK
    /\ agent.at \in {"backoff", "attempt", "sending"} => stream = EmptyStream /\ ~http.received
    /\ Tts!TypeOK /\ Tts!SpokenInOrder /\ Tts!ErrorSurfaces /\ Tts!LateAudioBounded
    /\ lane = "over" /\ started => worker = "exited" /\ joined

\* The agent's history is all or nothing (src/src/agent.cpp, the catch of
\* run_streaming): a failed turn leaves none of its messages behind, and whenever a
\* request is made, or the turn has returned, every tool call is followed by its results.
Answered(k) ==
    history[k].role = "assistant" =>
       \A i \in 1..Len(history[k].calls) : k + i <= Len(history) /\ history[k + i].role = "tool"

HistoryAtomic ==
    /\ SubSeq(history, 1, Checkpoint) = Past
    /\ At("failed") => history = Past
    /\ agent.at \in {"attempt", "sending", "transfer", "backoff", "returned", "limit"} =>
          \A k \in 1..Len(history) : Answered(k)

Whole(text) == text[1] # "T" /\ Width(text[Len(text)]) = 1

\* Everything the model said has been passed on, waits, or is in the segmenter, once
\* and in order, whatever the deltas and the chunks were, and no sentence begins or ends
\* inside a code point.
TextIntact ==
    /\ lane \in {"agent", "flush"} /\ ~At("throw") /\ ~At("failed") /\ producer # "rejected" =>
          LET waiting == IF producer = "pushing" THEN Tail(todo) ELSE todo
          IN Inked(segments \o waiting \o <<buffer>>) = Inked(<<Said>>)
    /\ \A i \in DOMAIN segments : Whole(segments[i])

\* ConversationTurnCompleted is the truth: the agent returned, every word it said was
\* synthesized in order and the utterance was ended.
Spoken == [i \in 1..Len(taken) |-> segments[taken[i]]]

CompletedMeansSpoken ==
    told = "completed" => /\ Returned /\ Inked(Spoken) = Inked(<<Said>>)
                          /\ started => ended

\* The observer never keeps more than its limit nor touches another session's span, a
\* turn that is over leaves no span behind, only what completed is measured, and unless
\* the limit was hit every endpoint matched its start.
SpansSettled ==
    /\ Cardinality(Pending(observer)) <= MaxSpans /\ Foreign \in Pending(observer)
    /\ lane = "over" => Pending(observer) = {Foreign}
    /\ At("failed") \/ Returned =>
          \A k \in Pending(observer) : k.turn = Turn => k.phase \notin AgentPhases
    /\ Key(Turn, "turn", 0) \in observer.measured => At("returned")
    /\ Key(Turn, "conversation_turn", 0) \in observer.measured => told = "completed"
    /\ "span_limit_rejections" \notin observer.counted => observer.counted = {}

\* The server's marker [DONE] closes an answer: what comes behind it changes neither the
\* text nor the tool calls, and only a closed answer enters the history.
DoneFences ==
    [][/\ stream.done /\ stream'.done => stream'.text = stream.text /\ stream'.calls = stream.calls
       /\ Len(history') > Len(history) /\ history'[Len(history')].role = "assistant" =>
             stream.done \/ At("step")]_vars

\* A cancelled turn sends no further request, the one behind a back-off included, and
\* starts no further tool: what still begins is at most the one request or tool whose
\* check it had passed when it was cancelled (src/src/curl_transport.cpp:167 and 218,
\* src/src/agent.cpp:30 and 33).
SendsRequest == At("sending") /\ agent'.at = "transfer"
StartsTool   == At("invoking") /\ agent'.at = "handler"

CancelStops ==
    [][token /\ (SendsRequest \/ StartsTool) => excused /\ ~excused']_vars

\* Every response ends, whatever the server does and whenever it is cancelled, unless
\* it hangs where the speech pipeline is known to.
Progress == <>(lane = "over" \/ Stuck)

=============================================================================
