----------------------------- MODULE Conversation -----------------------------
(***************************************************************************)
(* The cascaded pipeline of one conversation (src/src/conversation.cpp):   *)
(* an audio worker feeds the recognizer, a final transcript submits a turn *)
(* to the session's lane, the lane's turn thinks and speaks, and an        *)
(* interrupt or the destructor fences and cancels what was submitted       *)
(* before.  Four kinds of threads meet at state_, turn_id_ and generation_.*)
(*                                                                         *)
(* The executor is its contract TurnLanes for one session: turns run one at*)
(* a time in submission order, a cancelled session drops what waits.  What *)
(* the language model and the synthesizer say is not looked at; of the     *)
(* bounded queue between them, the subject of IncrementalTts, only that a  *)
(* turn may have to wait for room in it, and that the synthesizer's thread *)
(* may leave meanwhile.                                                    *)
(***************************************************************************)
EXTENDS Naturals, Sequences, FiniteSets

CONSTANTS MaxAudioFrames,  \* config.max_audio_frames
          MaxPending,      \* the executor's max_pending_per_session
          MaxTurns,        \* bound: final transcripts explored
          MaxInterrupts    \* bound: interrupt() calls explored

ASSUME LimitAssumption == MaxAudioFrames \in Nat \ {0} /\ MaxPending \in Nat \ {0}
ASSUME BoundAssumption == MaxTurns \in Nat /\ MaxInterrupts \in Nat

Turns == 1..MaxTurns
NoTurn == 0

VARIABLES
    state, turn_id,       \* guarded by turn_mutex_, but for one write
    generation, alive,
    submission,           \* who holds submission_mutex_
    audio_queue,          \* frames waiting for the audio worker
    stopping,
    audio,                \* audio worker: [at, turn]
    next_turn_id,
    turn,                 \* turn -> [at, gen, cancelled, speech, told]
    queue,                \* turns waiting on the lane
    interrupter,          \* the thread in interrupt(): out or cancelling
    owner,                \* the destroying thread
    interrupts, overloaded   \* history: a submission was refused

control == <<state, turn_id, generation, alive, submission>>
input   == <<audio_queue, stopping, audio, next_turn_id>>
lane    == <<turn, queue>>
others  == <<interrupter, owner, interrupts>>
vars    == <<control, input, lane, others, overloaded>>

Active == {"thinking", "speak", "pushing", "finishing", "verdict", "failing", "report", "clearing"}
Running == {t \in Turns : turn[t].at \in Active}

Init ==
    /\ state = "Listening" /\ turn_id = NoTurn /\ generation = 0 /\ alive = TRUE
    /\ submission = "free"
    /\ audio_queue = 0 /\ stopping = FALSE
    /\ audio = [at |-> "wait", turn |-> NoTurn] /\ next_turn_id = 1
    /\ turn = [t \in Turns |-> [at |-> "none", gen |-> 0, cancelled |-> FALSE,
                                speech |-> "none", told |-> "nothing"]]
    /\ queue = <<>>
    /\ interrupter = "out" /\ owner = "out" /\ interrupts = 0
    /\ overloaded = FALSE

-----------------------------------------------------------------------------
(* push_audio() and audio_loop()                                           *)

HasRoom == audio_queue < MaxAudioFrames

PushAudio ==
    /\ alive /\ ~stopping /\ HasRoom
    /\ audio_queue' = audio_queue + 1
    /\ UNCHANGED <<control, stopping, audio, next_turn_id, lane, others, overloaded>>

TakeFrame ==
    /\ audio.at = "wait" /\ ~stopping /\ audio_queue > 0
    /\ audio_queue' = audio_queue - 1
    /\ audio' = [audio EXCEPT !.at = "asr"]
    /\ UNCHANGED <<control, stopping, next_turn_id, lane, others, overloaded>>

AudioLeavesMutant == stopping /\ audio_queue > 0
AudioLeaves == stopping

AudioExits ==
    /\ audio.at = "wait" /\ AudioLeaves
    /\ audio' = [audio EXCEPT !.at = "exited"]
    /\ UNCHANGED <<control, audio_queue, stopping, next_turn_id, lane, others, overloaded>>

\* asr_.push returns or throws; partial and empty transcripts submit nothing.
RecognizerReturns ==
    /\ audio.at = "asr"
    /\ audio' = [audio EXCEPT !.at = "wait"]
    /\ UNCHANGED <<control, audio_queue, stopping, next_turn_id, lane, others, overloaded>>

-----------------------------------------------------------------------------
(* on_transcript() with a final text, under submission_mutex_              *)

\* submission_mutex_ is held until the executor has the turn.
HolderMutant == "free"
Holder == "audio"

\* The turn takes the current generation and becomes the one state() is about.
Announce ==
    /\ audio.at = "asr" /\ submission = "free" /\ alive
    /\ next_turn_id \in Turns
    /\ submission' = Holder
    /\ state' = "Thinking" /\ turn_id' = next_turn_id
    /\ turn' = [turn EXCEPT ![next_turn_id].gen = generation]
    /\ audio' = [at |-> "submit", turn |-> next_turn_id]
    /\ next_turn_id' = next_turn_id + 1
    /\ UNCHANGED <<generation, alive, audio_queue, stopping, queue, others, overloaded>>

Full == Len(queue) >= MaxPending

Submit ==
    /\ audio.at = "submit" /\ ~Full
    /\ turn' = [turn EXCEPT ![audio.turn].at = "queued"]
    /\ queue' = Append(queue, audio.turn)
    /\ audio' = [at |-> "asr", turn |-> NoTurn]
    /\ submission' = "free"
    /\ UNCHANGED <<state, turn_id, generation, alive, audio_queue, stopping, next_turn_id,
                   others, overloaded>>

\* ExecutorOverloaded, also when other sessions have filled the executor as a whole: the
\* lock is given up first.
SubmitOverloaded ==
    /\ audio.at = "submit"
    /\ submission' = "free"
    /\ turn' = [turn EXCEPT ![audio.turn].at = "refused"]
    /\ audio' = [audio EXCEPT !.at = "overloaded"]
    /\ overloaded' = TRUE
    /\ UNCHANGED <<state, turn_id, generation, alive, audio_queue, stopping, next_turn_id,
                   queue, others>>

OverloadListens ==
    /\ audio.at = "overloaded"
    /\ state' = "Listening"
    /\ audio' = [audio EXCEPT !.at = "forget"]
    /\ UNCHANGED <<turn_id, generation, alive, submission, audio_queue, stopping,
                   next_turn_id, lane, others, overloaded>>

OverloadForgets ==
    /\ audio.at = "forget"
    /\ turn_id' = IF turn_id = audio.turn THEN NoTurn ELSE turn_id
    /\ audio' = [at |-> "asr", turn |-> NoTurn]
    /\ UNCHANGED <<state, generation, alive, submission, audio_queue, stopping,
                   next_turn_id, lane, others, overloaded>>

-----------------------------------------------------------------------------
(* The lane: one turn at a time (submit_streaming's task)                  *)

Turn(t, at) == turn' = [turn EXCEPT ![t].at = at]
Current(t) == turn[t].gen = generation

LaneTakes ==
    /\ queue # <<>> /\ Running = {}
    /\ Turn(Head(queue), "thinking")
    /\ queue' = Tail(queue)
    /\ UNCHANGED <<control, input, others, overloaded>>

\* speak(), of every sentence: an unlocked check; for the first one the generation again
\* under turn_mutex_ and a new pipeline, whose queue has room; for the others push().
SpeakAsked(t) ==
    /\ turn[t].at = "thinking"
    /\ Turn(t, IF alive /\ Current(t) THEN "speak" ELSE "failing")
    /\ UNCHANGED <<control, input, queue, others, overloaded>>

Speaks(t) == Current(t)

SpeakStarts(t) ==
    /\ turn[t].at = "speak" /\ turn[t].speech = "none"
    /\ turn' = [turn EXCEPT ![t].at = IF Speaks(t) THEN "thinking" ELSE "failing",
                            ![t].speech = IF Speaks(t) THEN "on" ELSE @]
    /\ state' = IF Speaks(t) THEN "Speaking" ELSE state
    /\ UNCHANGED <<turn_id, generation, alive, submission, input, queue, others,
                   overloaded>>

\* push() finds room or is refused, or the queue is full and it waits.
Push(t) ==
    /\ turn[t].at = "speak" /\ turn[t].speech # "none"
    /\ \E next \in {"thinking", "pushing"} : Turn(t, next)
    /\ UNCHANGED <<control, input, queue, others, overloaded>>

\* The wait ends when the synthesizer's thread takes a sentence or fails; it does not
\* look at the cancellation.
PushReturns(t) ==
    /\ turn[t].at = "pushing" /\ turn[t].speech # "left"
    /\ Turn(t, "thinking")
    /\ UNCHANGED <<control, input, queue, others, overloaded>>

\* The synthesizer's thread: the sink checks, then hands the frame out.
FrameAllowed(t) == alive /\ Current(t)

FrameChecked(t) ==
    /\ turn[t].speech = "on" /\ FrameAllowed(t)
    /\ turn' = [turn EXCEPT ![t].speech = "frame"]
    /\ UNCHANGED <<control, input, queue, others, overloaded>>

FrameSunk(t) ==
    /\ turn[t].speech = "frame"
    /\ turn' = [turn EXCEPT ![t].speech = "on"]
    /\ UNCHANGED <<control, input, queue, others, overloaded>>

\* The thread sees the cancellation and leaves, without a word to push().
SynthesizerLeaves(t) ==
    /\ turn[t].speech = "on" /\ ~FrameAllowed(t)
    /\ turn' = [turn EXCEPT ![t].speech = "left"]
    /\ UNCHANGED <<control, input, queue, others, overloaded>>

\* The model or a tool throws, the token or the deadline stops the turn.
Throws(t) ==
    /\ turn[t].at = "thinking"
    /\ Turn(t, "failing")
    /\ UNCHANGED <<control, input, queue, others, overloaded>>

ReplyDone(t) ==
    /\ turn[t].at = "thinking" /\ ~turn[t].cancelled
    /\ Turn(t, "finishing")
    /\ UNCHANGED <<control, input, queue, others, overloaded>>

\* speech->finish() joins the synthesizer's thread; it may rethrow.
Quiet(t) == turn[t].speech # "frame"

FinishSpeech(t) ==
    /\ turn[t].at = "finishing" /\ Quiet(t)
    /\ \E next \in {"verdict", "failing"} :
          turn' = [turn EXCEPT ![t].at = next, ![t].speech = "off"]
    /\ UNCHANGED <<control, input, queue, others, overloaded>>

\* A response cancelled or out of time until here ends as a failure.
Stands(t) == ~turn[t].cancelled /\ alive /\ Current(t)

Verdict(t) ==
    /\ turn[t].at = "verdict"
    /\ \E expired \in BOOLEAN :
          turn' = IF Stands(t) /\ ~expired
                  THEN [turn EXCEPT ![t].at = "clearing", ![t].told = "completed"]
                  ELSE [turn EXCEPT ![t].at = "failing"]
    /\ UNCHANGED <<control, input, queue, others, overloaded>>

\* on_failed: the synthesizer is drained before the lane goes on.
DrainedMutant(t) == turn[t].speech
Drained(t) == IF turn[t].speech = "none" THEN "none" ELSE "off"

DrainSpeech(t) ==
    /\ turn[t].at = "failing" /\ Quiet(t)
    /\ turn' = [turn EXCEPT ![t].at = "report", ![t].speech = Drained(t)]
    /\ UNCHANGED <<control, input, queue, others, overloaded>>

ReportFailure(t) ==
    /\ turn[t].at = "report"
    /\ \E expired \in BOOLEAN :
          turn' = [turn EXCEPT
                     ![t].told = IF ~expired /\ (turn[t].cancelled \/ ~Current(t))
                                 THEN "cancelled" ELSE "failed",
                     ![t].at = IF alive THEN "clearing" ELSE "over"]
    /\ UNCHANGED <<control, input, queue, others, overloaded>>

\* Under turn_mutex_: only the newest turn of this generation resets the state.
Clears(t) == Current(t) /\ turn_id = t

ClearState(t) ==
    /\ turn[t].at = "clearing"
    /\ state' = IF Clears(t) THEN "Listening" ELSE state
    /\ turn_id' = IF Clears(t) THEN NoTurn ELSE turn_id
    /\ Turn(t, "over")
    /\ UNCHANGED <<generation, alive, submission, input, queue, others, overloaded>>

-----------------------------------------------------------------------------
(* interrupt() and the destructor                                          *)

Elements(seq) == {seq[i] : i \in 1..Len(seq)}

\* session_.cancel(): flag what runs, drop what waits.
CancelLane ==
    /\ turn' = [t \in Turns |->
                  IF t \in Elements(queue) THEN [turn[t] EXCEPT !.at = "dropped", !.cancelled = TRUE]
                  ELSE IF t \in Running THEN [turn[t] EXCEPT !.cancelled = TRUE]
                  ELSE turn[t]]
    /\ queue' = <<>>

Interrupt ==
    /\ interrupter = "out" /\ owner = "out" /\ submission = "free"
    /\ interrupts < MaxInterrupts
    /\ interrupts' = interrupts + 1
    /\ submission' = "interrupt" /\ interrupter' = "cancelling"
    /\ generation' = generation + 1
    /\ state' = "Listening" /\ turn_id' = NoTurn
    /\ UNCHANGED <<alive, input, lane, owner, overloaded>>

InterruptCancels ==
    /\ interrupter = "cancelling"
    /\ CancelLane
    /\ submission' = "free" /\ interrupter' = "out"
    /\ UNCHANGED <<state, turn_id, generation, alive, input, owner, interrupts,
                   overloaded>>

\* Callers are gone before the owner destroys the conversation.
DestroyBegins ==
    /\ owner = "out" /\ interrupter = "out" /\ submission = "free"
    /\ submission' = "owner" /\ owner' = "fencing"
    /\ alive' = FALSE
    /\ UNCHANGED <<state, turn_id, generation, input, lane, interrupter, interrupts,
                   overloaded>>

DestroyCancels ==
    /\ owner = "fencing"
    /\ generation' = generation + 1
    /\ CancelLane
    /\ submission' = "free" /\ owner' = "stopping"
    /\ UNCHANGED <<state, turn_id, alive, input, interrupter, interrupts, overloaded>>

DestroyStops ==
    /\ owner = "stopping"
    /\ stopping' = TRUE /\ audio_queue' = 0
    /\ owner' = "joining"
    /\ UNCHANGED <<control, audio, next_turn_id, lane, interrupter, interrupts,
                   overloaded>>

\* Join the audio worker, then wait for every turn handed to the executor.
DestroyJoins ==
    /\ owner = "joining" /\ audio.at = "exited"
    /\ owner' = "waiting"
    /\ UNCHANGED <<control, input, lane, interrupter, interrupts, overloaded>>

TurnsEnded == queue = <<>> /\ Running = {}

DestroyReturns ==
    /\ owner = "waiting" /\ TurnsEnded
    /\ owner' = "gone"
    /\ UNCHANGED <<control, input, lane, interrupter, interrupts, overloaded>>

\* What PipelineConversationEngine::state() makes of it.
Snapshot == [agent_speaking |-> state = "Speaking", reasoning |-> state = "Thinking"]

-----------------------------------------------------------------------------
AudioWorker == \/ TakeFrame \/ AudioExits \/ RecognizerReturns
               \/ Submit \/ SubmitOverloaded \/ OverloadListens \/ OverloadForgets

LaneWorker(t) == \/ SpeakAsked(t) \/ SpeakStarts(t) \/ Push(t) \/ PushReturns(t)
                 \/ Throws(t) \/ ReplyDone(t)
                 \/ FinishSpeech(t) \/ Verdict(t) \/ DrainSpeech(t)
                 \/ ReportFailure(t) \/ ClearState(t)

Synthesizer(t) == FrameChecked(t) \/ FrameSunk(t) \/ SynthesizerLeaves(t)

Owner == DestroyCancels \/ DestroyStops \/ DestroyJoins \/ DestroyReturns

\* The one place where a turn can hang, and with it the lane and the destructor: push()
\* waits for room that only the thread could make that has left.
Stuck == \E t \in Turns : turn[t].at = "pushing" /\ turn[t].speech = "left"

Gone == (owner = "gone" \/ (owner = "waiting" /\ Stuck)) /\ UNCHANGED vars

Next == \/ PushAudio \/ AudioWorker \/ Announce
        \/ LaneTakes \/ \E t \in Turns : LaneWorker(t) \/ Synthesizer(t)
        \/ Interrupt \/ InterruptCancels
        \/ DestroyBegins \/ Owner \/ Gone

Spec == Init /\ [][Next]_vars

\* Threads are scheduled, the lane's being one for all turns; recognizer, model and sink
\* return; an utterance has finitely many frames, so the join of a synthesizer that keeps
\* finding a moment without one does happen; and as long as its thread has not left, it
\* makes room for the push() that waits.  An answer has finitely many sentences, so a
\* turn that comes back to the model again and again ends there.
FairSpec ==
    /\ Spec /\ WF_vars(AudioWorker) /\ WF_vars(LaneTakes)
    /\ WF_vars(\E t \in Turns : LaneWorker(t))
    /\ WF_vars(\E t \in Turns : FrameSunk(t))
    /\ SF_vars(\E t \in Turns : FinishSpeech(t) \/ DrainSpeech(t))
    /\ SF_vars(\E t \in Turns : Throws(t) \/ ReplyDone(t))
    /\ WF_vars(InterruptCancels) /\ WF_vars(Owner)

-----------------------------------------------------------------------------
(* Properties                                                              *)

ControlType ==
    /\ state \in {"Listening", "Thinking", "Speaking"}
    /\ turn_id \in Turns \union {NoTurn}
    /\ generation \in Nat
    /\ alive \in BOOLEAN /\ overloaded \in BOOLEAN
    /\ submission \in {"free", "audio", "interrupt", "owner"}
InputType ==
    /\ audio_queue \in 0..MaxAudioFrames /\ stopping \in BOOLEAN
    /\ audio \in [at : {"wait", "asr", "submit", "overloaded", "forget", "exited"},
                  turn : Turns \union {NoTurn}]
    /\ next_turn_id \in 1..(MaxTurns + 1)
TurnRecord ==
    [at : Active \union {"none", "queued", "dropped", "refused", "over"},
     gen : Nat, cancelled : BOOLEAN, speech : {"none", "on", "frame", "left", "off"},
     told : {"nothing", "completed", "cancelled", "failed"}]
LaneType ==
    /\ turn \in [Turns -> TurnRecord]
    /\ queue \in Seq(Turns) /\ Len(queue) <= MaxPending
OthersType ==
    /\ interrupter \in {"out", "cancelling"} /\ interrupts \in Nat
    /\ owner \in {"out", "fencing", "stopping", "joining", "waiting", "gone"}
TypeOK == ControlType /\ InputType /\ LaneType /\ OthersType

\* An interrupt cancels exactly the responses submitted before it: while nobody is
\* inside submission_mutex_, a turn on the lane is cancelled if and only if its
\* generation is over.  A correction submitted after the interrupt survives it.
InterruptExact ==
    submission = "free" =>
       \A t \in Running \union Elements(queue) : turn[t].cancelled <=> ~Current(t)

\* Two responses never share the synthesizer: only the turn that runs on the lane
\* may still produce audio.
OneSpeaker == \A t \in Turns : turn[t].speech \in {"on", "frame"} => t \in Running

\* Apart from overload, a conversation at rest says Listening: a late completion or
\* failure neither clears a newer response's state nor leaves its own behind.
RestsListening ==
    ~overloaded /\ alive /\ submission = "free" /\ queue = <<>> /\ Running = {}
       => ~Snapshot.agent_speaking /\ ~Snapshot.reasoning /\ turn_id = NoTurn

\* When the destructor returns no thread will touch the conversation again.
DestroyedMeansQuiet ==
    owner = "gone" => audio.at = "exited" /\ queue = <<>> /\ Running = {}

\* Every submitted turn leaves the lane, unless the lane hangs in push().
TurnsEnd == \A t \in Turns : turn[t].at = "queued" ~> turn[t].at \in {"over", "dropped"} \/ Stuck

\* The destructor returns, unless it waits for a turn that hangs there.
DestroyEnds == owner = "fencing" ~> owner = "gone" \/ Stuck

\* state() is a generation flag: with no response generated or waiting, and a refused one
\* dealt with, the engine does not say that the agent is speaking.
NotSpeakingAtRest ==
    alive /\ submission = "free" /\ audio.at \in {"wait", "asr"} /\ queue = <<>> /\ Running = {}
       => ~Snapshot.agent_speaking

\* Queues keep their bounds, one response speaks at a time, a conversation at rest says
\* so, and a destroyed one is quiet.
PipelineSafe == TypeOK /\ OneSpeaker /\ RestsListening /\ DestroyedMeansQuiet

\* Every submitted turn leaves the lane and the destructor returns, but for the one hang
\* that the speech pipeline is known to have (src/src/incremental_tts.cpp:25-28).
Progress == TurnsEnd /\ DestroyEnds

=============================================================================
