---------------------------- MODULE IncrementalTts ----------------------------
(***************************************************************************)
(* The incremental speech pipeline of one response                         *)
(* (src/src/incremental_tts.cpp): a producer, the executor lane that runs  *)
(* the response, pushes sentences into a bounded queue; a worker thread    *)
(* synthesizes them in order and passes audio frames to a sink.  Three     *)
(* things end it: finish(), cancel(), and the external predicate           *)
(* cancelled_(), which an interrupt of the conversation makes true without *)
(* telling the pipeline.                                                   *)
(***************************************************************************)
EXTENDS Naturals, Sequences

CONSTANTS Capacity,     \* max_queued_chunks_
          MaxChunks,    \* bound: sentences of the response
          MaxFrames     \* bound: audio frames of a sentence

VARIABLES
    queue, finishing, cancelled_locally, error, joined,
    external,      \* what cancelled_() answers
    \* the producer: position and the sentences it pushed
    producer, next_chunk, accepted,
    \* the worker: position, sentences taken, frames of the current one
    worker, taken, frames,
    ended,         \* tts_.end_utterance() was called
    late           \* history: frames given to the sink after a cancellation

shared == <<queue, finishing, cancelled_locally, error, joined>>
prod   == <<producer, next_chunk, accepted>>
work   == <<worker, taken, frames, ended, late>>
vars   == <<shared, external, prod, work>>

Cancelled == cancelled_locally \/ external

Init ==
    /\ queue = <<>> /\ finishing = FALSE /\ cancelled_locally = FALSE
    /\ error = FALSE /\ joined = FALSE /\ external = FALSE
    /\ producer = "idle" /\ next_chunk = 1 /\ accepted = <<>>
    /\ worker = "begin" /\ taken = <<>> /\ frames = 0
    /\ ended = FALSE /\ late = 0

-----------------------------------------------------------------------------
(* push()                                                                  *)

PushCalled ==
    /\ producer = "idle"
    /\ next_chunk <= MaxChunks
    /\ producer' = "pushing"
    /\ UNCHANGED <<shared, external, next_chunk, accepted, work>>

HasRoom == Len(queue) < Capacity

\* What wakes a blocked push: note that cancelled_() is not part of it.
GivesUp == finishing \/ cancelled_locally \/ error

PushAccepted ==
    /\ producer = "pushing"
    /\ HasRoom
    /\ ~GivesUp /\ ~external
    /\ queue' = Append(queue, next_chunk)
    /\ accepted' = Append(accepted, next_chunk)
    /\ next_chunk' = next_chunk + 1
    /\ producer' = "idle"
    /\ UNCHANGED <<finishing, cancelled_locally, error, joined, external, work>>

PushRejected ==
    /\ producer = "pushing"
    /\ GivesUp \/ HasRoom
    /\ GivesUp \/ external
    /\ producer' = "rejected"
    /\ UNCHANGED <<shared, external, next_chunk, accepted, work>>

-----------------------------------------------------------------------------
(* cancel() and finish(), as the conversation calls them: a response that  *)
(* ran to its end finishes, also when its last sentence was rejected; a    *)
(* failed one cancels first.                                               *)

Cancel == IF cancelled_locally \/ joined
             THEN UNCHANGED <<cancelled_locally, queue>>
             ELSE cancelled_locally' = TRUE /\ queue' = <<>>

ProducerCancels ==
    /\ producer \in {"idle", "rejected"}
    /\ Cancel
    /\ producer' = "cancelled"
    /\ UNCHANGED <<finishing, error, joined, external, next_chunk, accepted, work>>

\* cancel() from another thread.
CancelElsewhere ==
    /\ ~cancelled_locally /\ ~joined
    /\ Cancel
    /\ UNCHANGED <<finishing, error, joined, external, prod, work>>

\* The conversation is interrupted or destroyed: cancelled_() becomes true.
Interrupt ==
    /\ ~external
    /\ external' = TRUE
    /\ UNCHANGED <<shared, prod, work>>

FinishCalled ==
    /\ producer \in {"idle", "rejected", "cancelled"}
    /\ finishing' = TRUE
    /\ producer' = "joining"
    /\ UNCHANGED <<queue, cancelled_locally, error, joined, external, next_chunk,
                   accepted, work>>

\* The join, then the worker's exception if there is one.
Outcome == IF error THEN "threw" ELSE "finished"

FinishReturns ==
    /\ producer = "joining"
    /\ worker = "exited"
    /\ joined' = TRUE
    /\ producer' = Outcome
    /\ UNCHANGED <<queue, finishing, cancelled_locally, error, external,
                   next_chunk, accepted, work>>

-----------------------------------------------------------------------------
(* worker_loop()                                                           *)

BeginUtterance ==
    /\ worker = "begin"
    /\ worker' = "wait"
    /\ UNCHANGED <<shared, external, prod, taken, frames, ended, late>>

\* The wait ends; the loop is left when cancelled, or empty and finishing.
Awake == cancelled_locally \/ queue # <<>> \/ finishing

Leave == Cancelled \/ (queue = <<>> /\ finishing)

LeaveLoop ==
    /\ worker = "wait"
    /\ Awake /\ Leave
    /\ worker' = "ending"
    /\ UNCHANGED <<shared, external, prod, taken, frames, ended, late>>

TakeChunk ==
    /\ worker = "wait"
    /\ queue # <<>> /\ ~Leave
    /\ queue' = Tail(queue)
    /\ taken' = Append(taken, Head(queue))
    /\ worker' = "synth"
    /\ UNCHANGED <<finishing, cancelled_locally, error, joined, external, prod,
                   frames, ended, late>>

\* synthesize_chunk hands out frames: the callback checks, then calls the sink.
FrameFenced == Cancelled

FrameChecked ==
    /\ worker = "synth"
    /\ frames < MaxFrames
    /\ frames' = frames + 1
    /\ worker' = IF FrameFenced THEN "synth" ELSE "sink"
    /\ UNCHANGED <<shared, external, prod, taken, ended, late>>

FrameSunk ==
    /\ worker = "sink"
    /\ late' = IF Cancelled THEN late + 1 ELSE late
    /\ worker' = "synth"
    /\ UNCHANGED <<shared, external, prod, taken, frames, ended>>

\* synthesize_chunk returns; an external cancellation leaves the loop here.
ChunkDone ==
    /\ worker = "synth"
    /\ worker' = IF external THEN "ending" ELSE "wait"
    /\ frames' = 0
    /\ UNCHANGED <<shared, external, prod, taken, ended, late>>

EndUtterance ==
    /\ worker = "ending"
    /\ ended' = ~Cancelled
    /\ worker' = "exited"
    /\ UNCHANGED <<shared, external, prod, taken, frames, late>>

\* begin_utterance, synthesize_chunk, the sink or end_utterance throws.
WorkerThrows ==
    /\ worker \in {"begin", "synth", "sink"} \/ (worker = "ending" /\ ~Cancelled)
    /\ error' = TRUE
    /\ cancelled_locally' = TRUE
    /\ queue' = <<>>
    /\ worker' = "exited" /\ frames' = 0
    /\ UNCHANGED <<finishing, joined, external, prod, taken, ended, late>>

-----------------------------------------------------------------------------
Producer == PushAccepted \/ PushRejected \/ FinishReturns
WorkerLoop == \/ BeginUtterance \/ LeaveLoop \/ TakeChunk \/ FrameChecked
              \/ ChunkDone \/ EndUtterance \/ WorkerThrows
Worker == WorkerLoop \/ FrameSunk

Next == \/ Producer \/ Worker
        \/ PushCalled \/ ProducerCancels \/ FinishCalled
        \/ CancelElsewhere \/ Interrupt

Spec == Init /\ [][Next]_vars

\* Both threads are scheduled and the provider's calls return.
Fairness == WF_vars(Producer) /\ WF_vars(Worker)
FairSpec == Spec /\ Fairness

-----------------------------------------------------------------------------
(* Properties.                                                             *)

TypeOK ==
    /\ queue \in Seq(1..MaxChunks) /\ Len(queue) <= Capacity
    /\ accepted \in Seq(1..MaxChunks) /\ taken \in Seq(1..MaxChunks)
    /\ finishing \in BOOLEAN /\ cancelled_locally \in BOOLEAN /\ error \in BOOLEAN
    /\ joined \in BOOLEAN /\ external \in BOOLEAN /\ ended \in BOOLEAN
    /\ producer \in {"idle", "pushing", "rejected", "cancelled", "joining",
                     "finished", "threw"}
    /\ worker \in {"begin", "wait", "synth", "sink", "ending", "exited"}
    /\ next_chunk \in 1..(MaxChunks + 1)
    /\ frames \in 0..MaxFrames /\ late \in Nat

\* Sentences are spoken in the order pushed and none is skipped: what has been
\* taken is a prefix of what was accepted, and the rest is queued or was dropped
\* by a cancellation.
SpokenInOrder ==
    /\ Len(taken) <= Len(accepted)
    /\ \A i \in 1..Len(taken) : taken[i] = accepted[i]
    /\ ~cancelled_locally => taken \o queue = accepted

\* An exception of the worker is never lost: finish() rethrows it.
ErrorSurfaces == error /\ joined => producer = "threw"

\* After a cancellation, local or external, at most the one frame that had
\* already passed the check still reaches the sink.
LateAudioBounded == late <= 1

\* An interrupt releases a producer blocked on the full queue: the lane of
\* the cancelled response is free for the next one once the provider returns.
InterruptUnblocks == external /\ producer = "pushing" ~> producer # "pushing"

=============================================================================
