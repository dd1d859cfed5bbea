------------------------ MODULE FullDuplexConversation ------------------------
(***************************************************************************)
(* A native audio-in/audio-out conversation                                *)
(* (src/src/full_duplex_conversation.cpp): application threads report      *)
(* speech and playback, an input worker uploads microphone frames, the     *)
(* provider's callback thread delivers responses, and an owner closes.     *)
(* state_mutex_ and input_mutex_ are never held over a call out, so every  *)
(* decision and the call it leads to are two steps.                        *)
(*                                                                         *)
(* The provider is external (src/include/byteturn/providers.h): it may     *)
(* start a response (with an id of its own) at any time, send audio and    *)
(* completions late, and its close() waits for the callback in flight.     *)
(* A frame has one sample.                                                 *)
(***************************************************************************)
EXTENDS Naturals, Sequences, FiniteSets

CONSTANTS Apps,            \* application threads
          ServerVad,       \* config.server_vad
          MaxInputFrames,  \* config.max_input_frames
          MaxResponses,    \* bound: responses the provider starts
          MaxSamples,      \* bound: samples it sends for one response
          MaxSpeech        \* bound: input_speech_started() calls that change something

ASSUME ConfigAssumption == ServerVad \in BOOLEAN /\ MaxInputFrames \in Nat \ {0}
ASSUME ResponseBounds == MaxResponses \in Nat /\ MaxSamples \in Nat /\ MaxSpeech \in Nat

Responses == 1..MaxResponses
None == 0

VARIABLES
    response_id, delivered_samples, played_samples,
    response_active, response_generation_done, playback_started,
    input_speech_active,
    stopping,
    input_queue,         \* frames waiting for the input worker
    input_mutex,         \* who holds input_mutex_
    worker,              \* input worker: where it is in input_loop
    closer,              \* the thread in close()
    thread,              \* callers -> [at, id, played]
    provider,            \* external: the last response it started
    cancelled,           \* external: the offsets of the cancel_response calls, per response
    acked, late, spoken  \* histories

response == <<response_id, delivered_samples, played_samples, response_active,
              response_generation_done, playback_started>>
input    == <<stopping, input_queue, input_mutex, worker, closer>>
history  == <<cancelled, acked, late>>
vars     == <<response, input_speech_active, spoken, input, thread, provider, history>>

Callers == Apps \union {"provider"}
Idle == [at |-> "idle", id |-> None, played |-> 0]

Init ==
    /\ response_id = None /\ delivered_samples = 0 /\ played_samples = 0
    /\ response_active = FALSE /\ response_generation_done = FALSE
    /\ playback_started = FALSE /\ input_speech_active = FALSE
    /\ stopping = FALSE /\ input_queue = 0 /\ input_mutex = "free"
    /\ worker = "loop" /\ closer = "out"
    /\ thread = [c \in Callers |-> Idle]
    /\ provider = None
    /\ cancelled = [r \in Responses |-> <<>>]
    /\ acked = [r \in Responses |-> 0]
    /\ late = [r \in Responses |-> 0]
    /\ spoken = 0

Goes(c, at) == thread' = [thread EXCEPT ![c].at = at]

-----------------------------------------------------------------------------
(* Barge-in                                                                *)

\* input_speech_started(), from the application or from the provider's VAD.
InputSpeechStarted(c) ==
    /\ thread[c].at = "idle" /\ ~stopping
    /\ ~input_speech_active /\ spoken < MaxSpeech
    /\ input_speech_active' = TRUE /\ spoken' = spoken + 1
    /\ Goes(c, "barge_in")
    /\ UNCHANGED <<response, input, provider, history>>

\* begin_barge_in(): the locked section ends the response and keeps its offset.
ResponseEnded == FALSE

BeginBargeIn(c) ==
    /\ thread[c].at = "barge_in"
    /\ thread' = [thread EXCEPT ![c] =
                    IF response_active
                    THEN [at |-> "cancel", id |-> response_id, played |-> played_samples]
                    ELSE Idle]
    /\ response_active' = ResponseEnded
    /\ UNCHANGED <<response_id, delivered_samples, played_samples,
                   response_generation_done, playback_started, input_speech_active,
                   spoken, input, provider, history>>

\* provider_session_->cancel_response(id, played), with no lock held.
CancelResponse(c) ==
    /\ thread[c].at = "cancel"
    /\ cancelled' = [cancelled EXCEPT ![thread[c].id] = Append(@, thread[c].played)]
    /\ thread' = [thread EXCEPT ![c] = Idle]
    /\ UNCHANGED <<response, input_speech_active, spoken, input, provider, acked,
                   late>>

-----------------------------------------------------------------------------
(* Application calls                                                       *)

InputSpeechEnded(a) ==
    /\ thread[a].at = "idle" /\ ~stopping
    /\ input_speech_active' = FALSE
    /\ Goes(a, "commit")
    /\ UNCHANGED <<response, spoken, input, provider, history>>

CommitInput(a) ==
    /\ thread[a].at = "commit"
    /\ Goes(a, "idle")
    /\ UNCHANGED <<response, input_speech_active, spoken, input, provider, history>>

PlaybackStarted(a, r) ==
    /\ thread[a].at = "idle"
    /\ response_active /\ r = response_id /\ ~playback_started
    /\ playback_started' = TRUE
    /\ UNCHANGED <<response_id, delivered_samples, played_samples, response_active,
                   response_generation_done, input_speech_active, spoken, input, thread,
                   provider, history>>

AcceptedMutant(n) == n
Accepted(n) == IF n <= delivered_samples THEN n ELSE delivered_samples

\* The acknowledgement that catches up with a finished generation retires it.
AcknowledgePlayback(a, r, n) ==
    /\ thread[a].at = "idle"
    /\ response_active /\ r = response_id /\ Accepted(n) > played_samples
    /\ played_samples' = Accepted(n)
    /\ response_active' = ~(response_generation_done /\ Accepted(n) = delivered_samples)
    /\ acked' = [acked EXCEPT ![r] = IF n > @ THEN n ELSE @]
    /\ UNCHANGED <<response_id, delivered_samples, response_generation_done,
                   playback_started, input_speech_active, spoken, input, thread, provider,
                   cancelled, late>>

HasRoom == input_queue < MaxInputFrames

\* push_audio(): the frame is queued under the lock, the notification follows.
PushAudio(a) ==
    /\ thread[a].at = "idle" /\ ~stopping /\ input_mutex = "free" /\ HasRoom
    /\ input_queue' = input_queue + 1
    /\ Goes(a, "notify")
    /\ UNCHANGED <<response, input_speech_active, spoken, stopping, input_mutex, worker,
                   closer, provider, history>>

Woken == IF worker = "asleep" THEN "loop" ELSE worker

NotifyOne(a) ==
    /\ thread[a].at = "notify"
    /\ worker' = Woken
    /\ Goes(a, "idle")
    /\ UNCHANGED <<response, input_speech_active, spoken, stopping, input_queue,
                   input_mutex, closer, provider, history>>

-----------------------------------------------------------------------------
(* input_loop()                                                            *)

WorkerLocks ==
    /\ worker = "loop" /\ input_mutex = "free"
    /\ input_mutex' = "worker" /\ worker' = "check"
    /\ UNCHANGED <<response, input_speech_active, spoken, stopping, input_queue, closer,
                   thread, provider, history>>

\* The wait predicate is false: give up the lock and sleep are one step, but
\* the check before is another.
WorkerMustWait ==
    /\ worker = "check" /\ ~stopping /\ input_queue = 0
    /\ worker' = "dozing"
    /\ UNCHANGED <<response, input_speech_active, spoken, stopping, input_queue,
                   input_mutex, closer, thread, provider, history>>

WorkerSleeps ==
    /\ worker = "dozing"
    /\ input_mutex' = "free" /\ worker' = "asleep"
    /\ UNCHANGED <<response, input_speech_active, spoken, stopping, input_queue, closer,
                   thread, provider, history>>

WorkerExits ==
    /\ worker = "check" /\ stopping
    /\ input_queue' = 0 /\ input_mutex' = "free" /\ worker' = "exited"
    /\ UNCHANGED <<response, input_speech_active, spoken, stopping, closer, thread,
                   provider, history>>

WorkerTakes ==
    /\ worker = "check" /\ ~stopping /\ input_queue > 0
    /\ input_queue' = input_queue - 1 /\ input_mutex' = "free" /\ worker' = "upload"
    /\ UNCHANGED <<response, input_speech_active, spoken, stopping, closer, thread,
                   provider, history>>

\* provider_session_->push_audio; a last frame without server VAD ends the speech.
Upload ==
    /\ worker = "upload"
    /\ \/ worker' = "loop"
       \/ ~ServerVad /\ worker' = "ended"
    /\ UNCHANGED <<response, input_speech_active, spoken, stopping, input_queue,
                   input_mutex, closer, thread, provider, history>>

WorkerEndsSpeech ==
    /\ worker = "ended"
    /\ worker' = IF stopping THEN "loop" ELSE "commit"
    /\ input_speech_active' = IF stopping THEN input_speech_active ELSE FALSE
    /\ UNCHANGED <<response, spoken, stopping, input_queue, input_mutex, closer, thread,
                   provider, history>>

WorkerCommits ==
    /\ worker = "commit"
    /\ worker' = "loop"
    /\ UNCHANGED <<response, input_speech_active, spoken, stopping, input_queue,
                   input_mutex, closer, thread, provider, history>>

-----------------------------------------------------------------------------
(* on_provider_event(): one callback thread                                *)

ProviderReady == thread["provider"].at = "idle" /\ ~stopping

ProviderSpeechEnded ==
    /\ ProviderReady /\ input_speech_active
    /\ input_speech_active' = FALSE
    /\ UNCHANGED <<response, spoken, input, thread, provider, history>>

FreshOffsetMutant == played_samples
FreshOffset == 0

ResponseStarted ==
    /\ ProviderReady /\ provider < MaxResponses
    /\ provider' = provider + 1
    /\ response_id' = provider' /\ delivered_samples' = 0 /\ played_samples' = FreshOffset
    /\ response_active' = TRUE /\ response_generation_done' = FALSE
    /\ playback_started' = FALSE
    /\ UNCHANGED <<input_speech_active, spoken, input, thread, history>>

\* Audio for an ended, finished or older response is dropped.
Wanted(r) == response_active /\ ~response_generation_done /\ r = response_id

AudioDelta(r) ==
    /\ ProviderReady /\ r <= provider /\ Wanted(r) /\ delivered_samples < MaxSamples
    /\ delivered_samples' = delivered_samples + 1
    /\ thread' = [thread EXCEPT !["provider"] = [Idle EXCEPT !.at = "frame", !.id = r]]
    /\ UNCHANGED <<response_id, played_samples, response_active,
                   response_generation_done, playback_started, input_speech_active,
                   spoken, input, provider, history>>

\* The barge-in on r has been decided.
Deciding(r) == {c \in Callers : thread[c].at = "cancel" /\ thread[c].id = r}
Ended(r) == Deciding(r) # {} \/ cancelled[r] # <<>>

\* audio_sink_, outside the lock; a sink that refuses ends the response.
AudioSink ==
    LET r == thread["provider"].id
    IN  /\ thread["provider"].at = "frame"
        /\ \/ /\ thread' = [thread EXCEPT !["provider"] = Idle]
              /\ late' = [late EXCEPT ![r] = IF Ended(r) THEN @ + 1 ELSE @]
           \/ /\ thread' = [thread EXCEPT !["provider"] = [Idle EXCEPT !.at = "barge_in"]]
              /\ UNCHANGED late
        /\ UNCHANGED <<response, input_speech_active, spoken, input, provider, cancelled,
                       acked>>

Completes(r) == response_active /\ ~response_generation_done /\ r = response_id

StillPlaying == played_samples < delivered_samples

ResponseCompleted(r) ==
    /\ ProviderReady /\ r <= provider /\ Completes(r)
    /\ response_generation_done' = TRUE
    /\ response_active' = StillPlaying
    /\ UNCHANGED <<response_id, delivered_samples, played_samples, playback_started,
                   input_speech_active, spoken, input, thread, provider, history>>

-----------------------------------------------------------------------------
(* close()                                                                 *)

\* The flag is set under input_mutex_, so never between a check and a sleep.
MaySetStoppingMutant == TRUE
MaySetStopping == input_mutex = "free"

Close ==
    /\ closer = "out" /\ MaySetStopping
    /\ stopping' = TRUE /\ closer' = "notify"
    /\ UNCHANGED <<response, input_speech_active, spoken, input_queue, input_mutex,
                   worker, thread, provider, history>>

NotifyAll ==
    /\ closer = "notify"
    /\ worker' = Woken /\ closer' = "join"
    /\ UNCHANGED <<response, input_speech_active, spoken, stopping, input_queue,
                   input_mutex, thread, provider, history>>

WorkerGone == worker = "exited"

Join ==
    /\ closer = "join" /\ WorkerGone
    /\ closer' = "provider"
    /\ UNCHANGED <<response, input_speech_active, spoken, stopping, input_queue,
                   input_mutex, worker, thread, provider, history>>

\* provider_session_->close() stops delivery before it returns.
CloseProvider ==
    /\ closer = "provider" /\ thread["provider"].at = "idle"
    /\ closer' = "closed"
    /\ UNCHANGED <<response, input_speech_active, spoken, stopping, input_queue,
                   input_mutex, worker, thread, provider, history>>

-----------------------------------------------------------------------------
AppReturns(c) == \/ BeginBargeIn(c) \/ CancelResponse(c)
                 \/ c \in Apps /\ (CommitInput(c) \/ NotifyOne(c))

AppCalls(a) ==
    \/ InputSpeechEnded(a) \/ PushAudio(a)
    \/ \E r \in Responses : \/ PlaybackStarted(a, r)
                            \/ \E n \in 1..MaxSamples : AcknowledgePlayback(a, r, n)

Worker == \/ WorkerLocks \/ WorkerMustWait \/ WorkerSleeps \/ WorkerExits \/ WorkerTakes
          \/ Upload \/ WorkerEndsSpeech \/ WorkerCommits

Provider == \/ ProviderSpeechEnded \/ ResponseStarted
            \/ \E r \in Responses : AudioDelta(r) \/ ResponseCompleted(r)

Closing == NotifyAll \/ Join \/ CloseProvider

Next == \/ \E c \in Callers : InputSpeechStarted(c) \/ AppReturns(c)
        \/ \E a \in Apps : AppCalls(a)
        \/ Worker \/ Provider \/ AudioSink \/ Close \/ Closing

Spec == Init /\ [][Next]_vars

\* Threads that are inside a call are scheduled, and the calls out return.
FairSpec ==
    /\ Spec /\ WF_vars(Worker) /\ WF_vars(AudioSink) /\ WF_vars(Closing)
    /\ \A c \in Callers : WF_vars(AppReturns(c))

-----------------------------------------------------------------------------
(* Properties                                                              *)

ResponseType ==
    /\ response_id \in Responses \union {None}
    /\ delivered_samples \in 0..MaxSamples /\ played_samples \in 0..MaxSamples
    /\ response_active \in BOOLEAN /\ response_generation_done \in BOOLEAN
    /\ playback_started \in BOOLEAN /\ input_speech_active \in BOOLEAN
InputType ==
    /\ stopping \in BOOLEAN
    /\ input_queue \in 0..MaxInputFrames
    /\ input_mutex \in {"free", "worker"}
    /\ worker \in {"loop", "check", "dozing", "asleep", "upload", "ended", "commit", "exited"}
    /\ closer \in {"out", "notify", "join", "provider", "closed"}
ThreadRecord ==
    [at : {"idle", "barge_in", "cancel", "commit", "notify", "frame"},
     id : Responses \union {None}, played : 0..MaxSamples]
HistoryType ==
    /\ provider \in Responses \union {None} /\ spoken \in Nat
    /\ cancelled \in [Responses -> Seq(0..MaxSamples)]
    /\ acked \in [Responses -> 0..MaxSamples] /\ late \in [Responses -> Nat]
TypeOK ==
    /\ ResponseType /\ InputType /\ HistoryType
    /\ thread \in [Callers -> ThreadRecord]

\* However many threads detect the same barge-in (user speech, the provider's VAD,
\* a refusing sink), the provider is told to cancel a response at most once.
CancelOnce == \A r \in Responses : Len(cancelled[r]) + Cardinality(Deciding(r)) <= 1

\* cancel_response truncates to what the user heard: the offset never exceeds what
\* the player acknowledged for this very response, even when the next response
\* starts between the decision and the call.
TruncatesToHeard ==
    \A r \in Responses : /\ \A i \in 1..Len(cancelled[r]) : cancelled[r][i] <= acked[r]
                         /\ \A c \in Deciding(r) : thread[c].played <= acked[r]

\* Playback never passes what was delivered, whatever the player claims.
PlayedWasDelivered == played_samples <= delivered_samples

\* A response is active until it is cancelled, or generation and acknowledged
\* playback have both finished, and no longer.
ActiveExactly ==
    response_id # None =>
       (response_active <=>
           /\ ~Ended(response_id)
           /\ ~(response_generation_done /\ played_samples = delivered_samples))

\* After a response was cancelled at most the one frame that had already passed the
\* check reaches the sink.
LateAudioBounded == \A r \in Responses : late[r] <= 1

\* When the provider session is closed the input worker is gone and no callback
\* runs: nothing more is uploaded or heard.
ClosedMeansQuiet ==
    closer = "closed" => worker = "exited" /\ thread["provider"].at = "idle"

\* close() returns: its wakeup of the input worker is never lost.
CloseEnds == closer = "notify" ~> closer = "closed"

\* A frame that was queued is uploaded unless the conversation is closed.
QueuedIsUploaded == input_queue > 0 ~> (input_queue = 0 \/ stopping)

\* A response is cancelled at the provider at most once and cut no later than what
\* was heard of it.
CancelExact == CancelOnce /\ TruncatesToHeard

\* Offsets and queues keep their bounds, a response is active exactly until it was
\* played or cut, a cut one is heard for at most one more frame, and a closed
\* conversation is quiet.
DuplexSafe == TypeOK /\ PlayedWasDelivered /\ ActiveExactly /\ LateAudioBounded /\ ClosedMeansQuiet

\* close() returns and queued input is uploaded.
Progress == CloseEnds /\ QueuedIsUploaded

=============================================================================
