--------------------- MODULE FullDuplexConversationProofs ---------------------
(***************************************************************************)
(* Theorems about FullDuplexConversation, for any set of application       *)
(* threads, any input queue bound and any number of responses and samples. *)
(***************************************************************************)
EXTENDS FullDuplexConversation, FiniteSetTheorems, SequenceTheorems, TLAPS

-----------------------------------------------------------------------------
(***************************************************************************)
(* The inductive invariant.  Whoever detects a barge-in first takes the    *)
(* active flag; only that thread may cancel the response it names.         *)
(***************************************************************************)

\* A response ends once: by one thread that has decided to cancel it and not yet
\* called, or by one call.  What the provider has not started is untouched.
CancelPlan ==
    /\ \A c, d \in Callers :
          thread[c].at = "cancel" /\ thread[d].at = "cancel" /\ thread[c].id = thread[d].id
             => c = d
    /\ \A c \in Callers : thread[c].at = "cancel" =>
          /\ thread[c].id \in Responses /\ thread[c].id <= provider
          /\ cancelled[thread[c].id] = <<>>
          /\ thread[c].played <= acked[thread[c].id]
    /\ \A r \in Responses : /\ Len(cancelled[r]) <= 1
                            /\ cancelled[r] # <<>> => r <= provider
                            /\ \A i \in 1..Len(cancelled[r]) : cancelled[r][i] <= acked[r]

\* The offsets of the current response.
Offsets ==
    /\ response_id = provider
    /\ played_samples <= delivered_samples
    /\ response_id # None => played_samples <= acked[response_id]
    /\ response_active => response_id # None

\* The frame on its way to the sink was for a response not yet over.
FrameFresh ==
    /\ thread["provider"].at = "frame" => /\ thread["provider"].id \in Responses
                                          /\ late[thread["provider"].id] = 0
    /\ \A r \in Responses : late[r] <= 1 /\ (late[r] # 0 => Ended(r))

\* How far close() has come.
ClosePlaced ==
    /\ closer # "out" => stopping
    /\ closer \in {"provider", "closed"} => worker = "exited"
    /\ closer = "closed" => thread["provider"].at = "idle"

IInv == TypeOK /\ CancelPlan /\ Offsets /\ ActiveExactly /\ FrameFresh /\ ClosePlaced

-----------------------------------------------------------------------------
(***************************************************************************)
(* The steps.  Aside is what leaves responses and cancellations alone.     *)
(***************************************************************************)

Aside ==
    /\ UNCHANGED <<response, provider, history>>
    /\ \A c \in Callers :
          \/ thread'[c] = thread[c]
          \/ thread[c].at \notin {"cancel", "frame"} /\ thread'[c].at \notin {"cancel", "frame"}

Moves ==
    \/ Aside
    \/ \E c \in Callers : BeginBargeIn(c) \/ CancelResponse(c)
    \/ \E a \in Apps, r \in Responses : \E n \in 1..MaxSamples : AcknowledgePlayback(a, r, n)
    \/ \E a \in Apps, r \in Responses : PlaybackStarted(a, r)
    \/ ResponseStarted \/ \E r \in Responses : AudioDelta(r) \/ ResponseCompleted(r)
    \/ AudioSink

LEMMA NextMoves ==
  ASSUME IInv, Next
  PROVE  Moves
<1> USE DEF Moves
<1>0. thread \in [Callers -> ThreadRecord]
  BY DEF IInv, TypeOK
<1>1. ASSUME NEW c \in Callers, InputSpeechStarted(c)  PROVE  Aside
  BY <1>0, <1>1 DEF InputSpeechStarted, Goes, Aside, ThreadRecord
<1>2. ASSUME NEW a \in Apps, InputSpeechEnded(a) \/ CommitInput(a) \/ PushAudio(a) \/ NotifyOne(a)
      PROVE  Aside
  <2>1. a \in Callers
    BY DEF Callers
  <2>2. PICK p \in {"commit", "idle", "notify"} : thread' = [thread EXCEPT ![a].at = p]
    BY <1>2 DEF InputSpeechEnded, CommitInput, PushAudio, NotifyOne, Goes
  <2>3. thread[a].at \notin {"cancel", "frame"} /\ UNCHANGED <<response, provider, history>>
    BY <1>2 DEF InputSpeechEnded, CommitInput, PushAudio, NotifyOne
  <2> QED
    BY <1>0, <2>1, <2>2, <2>3 DEF Aside, ThreadRecord
<1>3. CASE Worker \/ ProviderSpeechEnded \/ Close \/ Closing
  <2>1. UNCHANGED <<response, provider, history, thread>>
    BY <1>3 DEF Worker, WorkerLocks, WorkerMustWait, WorkerSleeps, WorkerExits, WorkerTakes,
                Upload, WorkerEndsSpeech, WorkerCommits, ProviderSpeechEnded, Close, Closing,
                NotifyAll, Join, CloseProvider
  <2> QED
    BY <2>1 DEF Aside
<1> QED
  BY <1>1, <1>2, <1>3 DEF Next, AppReturns, AppCalls, Provider

-----------------------------------------------------------------------------
(* Types.                                                                  *)

LEMMA ResponseTypeStep ==
  ASSUME IInv, Next
  PROVE  ResponseType'
<1> USE DEF ResponseType, response
<1>0. ResponseType
  BY DEF IInv, TypeOK
<1>1. ASSUME NEW c \in Callers, InputSpeechStarted(c)
      PROVE  ResponseType'
  BY <1>1, <1>0 DEF InputSpeechStarted
<1>2. ASSUME NEW c \in Callers, BeginBargeIn(c)
      PROVE  ResponseType'
  BY <1>2, <1>0 DEF BeginBargeIn, ResponseEnded
<1>3. ASSUME NEW c \in Callers, CancelResponse(c)
      PROVE  ResponseType'
  BY <1>3, <1>0 DEF CancelResponse
<1>4. ASSUME NEW a \in Apps, InputSpeechEnded(a) \/ CommitInput(a) \/ PushAudio(a) \/ NotifyOne(a)
      PROVE  ResponseType'
  BY <1>4, <1>0 DEF InputSpeechEnded, CommitInput, PushAudio, NotifyOne
<1>5. ASSUME NEW a \in Apps, NEW r \in Responses, PlaybackStarted(a, r)
      PROVE  ResponseType'
  BY <1>5, <1>0 DEF PlaybackStarted
<1>6. ASSUME NEW a \in Apps, NEW r \in Responses, NEW n \in 1..MaxSamples,
             AcknowledgePlayback(a, r, n)
      PROVE  ResponseType'
  <2>1. Accepted(n) \in 0..MaxSamples /\ Accepted(n) <= delivered_samples
    BY <1>0, ResponseBounds DEF ResponseType, Accepted
  <2>2. played_samples' \in 0..MaxSamples /\ response_active' \in BOOLEAN
    BY <1>0, <1>6, <2>1 DEF AcknowledgePlayback
  <2> QED
    BY <1>0, <1>6, <2>2 DEF AcknowledgePlayback
<1>7. CASE Worker \/ ProviderSpeechEnded \/ Close \/ Closing
  <2>1. UNCHANGED response /\ input_speech_active' \in BOOLEAN
    BY <1>0, <1>7 DEF Worker, WorkerLocks, WorkerMustWait, WorkerSleeps, WorkerExits,
        WorkerTakes, Upload, WorkerEndsSpeech, WorkerCommits, ProviderSpeechEnded, Close,
        Closing, NotifyAll, Join, CloseProvider
  <2> QED
    BY <1>0, <2>1
<1>8. CASE ResponseStarted
  <2>1. provider + 1 \in Responses /\ 0 \in 0..MaxSamples
    BY <1>8, ResponseBounds DEF ResponseStarted, IInv, TypeOK, HistoryType, Responses, None
  <2> QED
    BY <1>0, <1>8, <2>1 DEF ResponseStarted, FreshOffset
<1>9. ASSUME NEW r \in Responses, AudioDelta(r)
      PROVE  ResponseType'
  <2>1. delivered_samples' \in 0..MaxSamples
    BY <1>0, <1>9, ResponseBounds DEF AudioDelta
  <2> QED
    BY <1>0, <1>9, <2>1 DEF AudioDelta
<1>10. ASSUME NEW r \in Responses, ResponseCompleted(r)
      PROVE  ResponseType'
  BY <1>10, <1>0 DEF ResponseCompleted, StillPlaying
<1>11. CASE AudioSink
  BY <1>11, <1>0 DEF AudioSink
<1> QED
  BY <1>1, <1>2, <1>3, <1>4, <1>5, <1>6, <1>7, <1>8, <1>9, <1>10, <1>11 DEF Next,
     AppReturns, AppCalls, Worker, Provider, Closing

LEMMA InputTypeStep ==
  ASSUME IInv, Next
  PROVE  InputType'
<1> USE DEF InputType, input
<1>0. InputType
  BY DEF IInv, TypeOK
<1>1. ASSUME NEW c \in Callers, InputSpeechStarted(c) \/ BeginBargeIn(c) \/ CancelResponse(c)
      PROVE  InputType'
  BY <1>1, <1>0 DEF InputSpeechStarted, BeginBargeIn, CancelResponse
<1>2. ASSUME NEW a \in Apps, InputSpeechEnded(a) \/ CommitInput(a)
      PROVE  InputType'
  BY <1>2, <1>0 DEF InputSpeechEnded, CommitInput
<1>3. ASSUME NEW a \in Apps, PushAudio(a)
      PROVE  InputType'
  BY <1>3, <1>0, ConfigAssumption DEF PushAudio, HasRoom
<1>4. ASSUME NEW a \in Apps, NotifyOne(a)
      PROVE  InputType'
  BY <1>4, <1>0 DEF NotifyOne, Woken
<1>5. ASSUME NEW a \in Apps, NEW r \in Responses, PlaybackStarted(a, r)
      PROVE  InputType'
  BY <1>5, <1>0 DEF PlaybackStarted
<1>6. ASSUME NEW a \in Apps, NEW r \in Responses, NEW n \in 1..MaxSamples,
             AcknowledgePlayback(a, r, n)
      PROVE  InputType'
  BY <1>6, <1>0 DEF AcknowledgePlayback
<1>7. CASE WorkerLocks \/ WorkerMustWait \/ WorkerSleeps \/ Upload
  BY <1>7, <1>0 DEF WorkerLocks, WorkerMustWait, WorkerSleeps, Upload
<1>8. CASE WorkerExits \/ WorkerTakes
  <2>1. input_queue' \in 0..MaxInputFrames
    BY <1>0, <1>8, ConfigAssumption DEF WorkerExits, WorkerTakes
  <2> QED
    BY <1>0, <1>8, <2>1 DEF WorkerExits, WorkerTakes
<1>9. CASE WorkerEndsSpeech \/ WorkerCommits
  BY <1>9, <1>0 DEF WorkerEndsSpeech, WorkerCommits
<1>10. CASE Provider
  BY <1>10, <1>0 DEF Provider, ProviderSpeechEnded, ResponseStarted, AudioDelta,
     ResponseCompleted
<1>11. CASE AudioSink
  BY <1>11, <1>0 DEF AudioSink
<1>12. CASE Close \/ Closing
  BY <1>12, <1>0 DEF Close, Closing, NotifyAll, Join, CloseProvider, Woken
<1> QED
  BY <1>1, <1>2, <1>3, <1>4, <1>5, <1>6, <1>7, <1>8, <1>9, <1>10, <1>11, <1>12 DEF
     Next, AppReturns, AppCalls, Worker, Provider, Closing

LEMMA ThreadTypeStep ==
  ASSUME IInv, Next
  PROVE  thread' \in [Callers -> ThreadRecord]
<1>0. thread \in [Callers -> ThreadRecord]
  BY DEF IInv, TypeOK
<1>a. Idle \in ThreadRecord
  BY ResponseBounds DEF Idle, ThreadRecord
<1>1. ASSUME NEW c \in Callers, InputSpeechStarted(c)
      PROVE  thread' \in [Callers -> ThreadRecord]
  BY <1>1, <1>0 DEF InputSpeechStarted, Goes, ThreadRecord
<1>2. ASSUME NEW c \in Callers, BeginBargeIn(c)
      PROVE  thread' \in [Callers -> ThreadRecord]
  <2>1. [at |-> "cancel", id |-> response_id, played |-> played_samples] \in ThreadRecord
    BY DEF IInv, TypeOK, ResponseType, ThreadRecord
  <2> QED
    BY <1>0, <1>a, <1>2, <2>1 DEF BeginBargeIn
<1>3. ASSUME NEW c \in Callers, CancelResponse(c)
      PROVE  thread' \in [Callers -> ThreadRecord]
  BY <1>3, <1>0, <1>a DEF CancelResponse
<1>4. ASSUME NEW a \in Apps, InputSpeechEnded(a) \/ CommitInput(a) \/ PushAudio(a) \/ NotifyOne(a)
      PROVE  thread' \in [Callers -> ThreadRecord]
  <2>1. a \in Callers
    BY DEF Callers
  <2>2. PICK p \in {"commit", "idle", "notify"} : thread' = [thread EXCEPT ![a].at = p]
    BY <1>4 DEF InputSpeechEnded, CommitInput, PushAudio, NotifyOne, Goes
  <2> QED
    BY <1>0, <2>1, <2>2 DEF ThreadRecord
<1>5. ASSUME NEW a \in Apps, NEW r \in Responses, PlaybackStarted(a, r)
      PROVE  thread' \in [Callers -> ThreadRecord]
  BY <1>5, <1>0 DEF PlaybackStarted
<1>6. ASSUME NEW a \in Apps, NEW r \in Responses, NEW n \in 1..MaxSamples,
             AcknowledgePlayback(a, r, n)
      PROVE  thread' \in [Callers -> ThreadRecord]
  BY <1>6, <1>0 DEF AcknowledgePlayback
<1>7. CASE Worker \/ ProviderSpeechEnded \/ ResponseStarted \/ Close \/ Closing
  <2>1. thread' = thread
    BY <1>7 DEF Worker, WorkerLocks, WorkerMustWait, WorkerSleeps, WorkerExits,
        WorkerTakes, Upload, WorkerEndsSpeech, WorkerCommits, ProviderSpeechEnded,
        ResponseStarted, Close, Closing, NotifyAll, Join, CloseProvider
  <2> QED
    BY <1>0, <2>1
<1>8. ASSUME NEW r \in Responses, AudioDelta(r)
      PROVE  thread' \in [Callers -> ThreadRecord]
  <2>1. [Idle EXCEPT !.at = "frame", !.id = r] \in ThreadRecord
    BY <1>a DEF ThreadRecord
  <2> QED
    BY <1>0, <1>8, <2>1 DEF AudioDelta, Callers
<1>9. ASSUME NEW r \in Responses, ResponseCompleted(r)
      PROVE  thread' \in [Callers -> ThreadRecord]
  BY <1>9, <1>0 DEF ResponseCompleted
<1>10. CASE AudioSink
  <2>1. [Idle EXCEPT !.at = "barge_in"] \in ThreadRecord
    BY ResponseBounds DEF Idle, ThreadRecord
  <2> QED
    BY <1>0, <1>a, <1>10, <2>1 DEF AudioSink, Callers
<1> QED
  BY <1>1, <1>2, <1>3, <1>4, <1>5, <1>6, <1>7, <1>8, <1>9, <1>10 DEF Next,
     AppReturns, AppCalls, Worker, Provider, Closing

LEMMA HistoryTypeStep ==
  ASSUME IInv, Next
  PROVE  HistoryType'
<1> USE DEF HistoryType
<1>0. HistoryType
  BY DEF IInv, TypeOK
<1>a. spoken' \in Nat
  <2>1. ASSUME NEW c \in Callers, InputSpeechStarted(c)  PROVE  spoken' \in Nat
    BY <1>0, <2>1 DEF InputSpeechStarted
  <2>2. ASSUME NEW c \in Callers, AppReturns(c)  PROVE  spoken' = spoken
    BY <2>2 DEF AppReturns, BeginBargeIn, CancelResponse, CommitInput, NotifyOne
  <2>3. ASSUME NEW a \in Apps, AppCalls(a)  PROVE  spoken' = spoken
    BY <2>3 DEF AppCalls, InputSpeechEnded, PushAudio, PlaybackStarted, AcknowledgePlayback
  <2>4. CASE Worker \/ Closing
    BY <1>0, <2>4 DEF Worker, WorkerLocks, WorkerMustWait, WorkerSleeps, WorkerExits, WorkerTakes,
        Upload, WorkerEndsSpeech, WorkerCommits, Closing, NotifyAll, Join, CloseProvider
  <2>5. CASE Provider \/ AudioSink \/ Close
    BY <1>0, <2>5 DEF Provider, ProviderSpeechEnded, ResponseStarted, AudioDelta,
        ResponseCompleted, AudioSink, Close
  <2> QED
    BY <1>0, <2>1, <2>2, <2>3, <2>4, <2>5 DEF Next
<1>b. Moves
  BY NextMoves
<1>1. CASE Aside
  <2>1. UNCHANGED <<provider, cancelled, acked, late>>
    BY <1>1 DEF Aside, history
  <2> QED
    BY <1>0, <1>a, <2>1
<1>2. ASSUME NEW c \in Callers, BeginBargeIn(c)
      PROVE  HistoryType'
  BY <1>2, <1>0 DEF BeginBargeIn, history
<1>3. ASSUME NEW c \in Callers, CancelResponse(c)
      PROVE  HistoryType'
  <2> DEFINE x == thread[c].id
             S == 0..MaxSamples
  <2>1. x \in Responses /\ thread[c].played \in S
    BY <1>3 DEF CancelResponse, IInv, TypeOK, CancelPlan, ThreadRecord
  <2>2. Append(cancelled[x], thread[c].played) \in Seq(S)
    <3>1. cancelled[x] \in Seq(S)
      BY <1>0, <2>1
    <3> HIDE DEF S, x
    <3> QED
      BY <2>1, <3>1, AppendProperties
  <2>3. cancelled' = [cancelled EXCEPT ![x] = Append(cancelled[x], thread[c].played)]
    BY <1>3 DEF CancelResponse
  <2>4. cancelled' \in [Responses -> Seq(S)]
    <3> HIDE DEF S, x
    <3>1. cancelled \in [Responses -> Seq(S)]
      BY <1>0 DEF S
    <3> QED
      BY <2>1, <2>2, <2>3, <3>1
  <2> QED
    BY <1>0, <1>3, <2>4 DEF CancelResponse
<1>4. ASSUME NEW a \in Apps, NEW r \in Responses, NEW n \in 1..MaxSamples,
             AcknowledgePlayback(a, r, n)
      PROVE  HistoryType'
  BY <1>4, <1>0, ResponseBounds DEF AcknowledgePlayback
<1>5. ASSUME NEW a \in Apps, NEW r \in Responses, PlaybackStarted(a, r)
      PROVE  HistoryType'
  BY <1>5, <1>0 DEF PlaybackStarted, history
<1>6. CASE ResponseStarted
  <2>1. provider + 1 \in Responses
    BY <1>0, <1>6, ResponseBounds DEF ResponseStarted, Responses, None
  <2> QED
    BY <1>0, <1>6, <2>1 DEF ResponseStarted, history
<1>7. ASSUME NEW r \in Responses, AudioDelta(r) \/ ResponseCompleted(r)
      PROVE  HistoryType'
  BY <1>7, <1>0 DEF AudioDelta, ResponseCompleted, history
<1>8. CASE AudioSink
  BY <1>8, <1>0 DEF AudioSink
<1> QED
  BY <1>b, <1>1, <1>2, <1>3, <1>4, <1>5, <1>6, <1>7, <1>8 DEF Moves

-----------------------------------------------------------------------------
(* Responses and their cancellation.                                       *)

LEMMA CancelPlanStep ==
  ASSUME IInv, Moves
  PROVE  CancelPlan'
<1> USE DEF CancelPlan
<1>0. CancelPlan /\ Offsets /\ ActiveExactly /\ ResponseType /\ HistoryType
  BY DEF IInv, TypeOK
<1>a. thread \in [Callers -> ThreadRecord]
  BY DEF IInv, TypeOK
<1>b. /\ \A r \in Responses : r \in Nat /\ r # None
      /\ response_id \in Nat /\ provider \in Nat /\ played_samples \in Nat
      /\ \A r \in Responses : acked[r] \in Nat /\ cancelled[r] \in Seq(0..MaxSamples)
  BY <1>0, ResponseBounds DEF Responses, None, ResponseType, HistoryType
<1>1. CASE Aside
  <2>1. /\ UNCHANGED <<cancelled, acked, provider>>
        /\ \A c \in Callers : thread'[c].at = "cancel" => thread'[c] = thread[c]
    BY <1>1 DEF Aside, history
  <2> QED
    BY <1>0, <2>1
<1>2. ASSUME NEW c \in Callers, BeginBargeIn(c)
      PROVE  CancelPlan'
  <2>1. UNCHANGED <<cancelled, acked, provider>>
    BY <1>2 DEF BeginBargeIn, history
  <2>2. CASE ~response_active
    <3>1. thread' = [thread EXCEPT ![c] = Idle]
      BY <1>2, <2>2 DEF BeginBargeIn
    <3>2. \A d \in Callers : thread'[d].at = "cancel" => thread'[d] = thread[d]
      BY <1>a, <3>1 DEF Idle
    <3> QED
      BY <1>0, <2>1, <3>2
  <2>3. CASE response_active
    <3> DEFINE z == [at |-> "cancel", id |-> response_id, played |-> played_samples]
    <3>1. thread' = [thread EXCEPT ![c] = z]
      BY <1>2, <2>3 DEF BeginBargeIn
    <3>2. /\ response_id \in Responses /\ response_id <= provider
          /\ ~Ended(response_id) /\ played_samples <= acked[response_id]
      BY <1>0, <1>b, <2>3 DEF Offsets, ActiveExactly, ResponseType
    <3>3. /\ cancelled[response_id] = <<>>
          /\ \A d \in Callers : ~(thread[d].at = "cancel" /\ thread[d].id = response_id)
      BY <3>2 DEF Ended, Deciding
    <3>4. \A d \in Callers : thread'[d] = IF d = c THEN z ELSE thread[d]
      BY <1>a, <3>1
    <3>5. z.at = "cancel" /\ z.id = response_id /\ z.played = played_samples
      OBVIOUS
    <3> HIDE DEF z
    <3> QED
      BY <1>0, <2>1, <3>2, <3>3, <3>4, <3>5
  <2> QED
    BY <2>2, <2>3
<1>3. ASSUME NEW c \in Callers, CancelResponse(c)
      PROVE  CancelPlan'
  <2> DEFINE x == thread[c].id
             p == thread[c].played
  <2>1. /\ thread[c].at = "cancel" /\ x \in Responses /\ x <= provider
        /\ cancelled[x] = <<>> /\ p <= acked[x] /\ UNCHANGED <<acked, provider>>
        /\ cancelled' = [cancelled EXCEPT ![x] = Append(cancelled[x], p)]
        /\ thread' = [thread EXCEPT ![c] = Idle]
    BY <1>0, <1>3 DEF CancelResponse
  <2>2. \A d \in Callers : thread'[d].at = "cancel" => d # c /\ thread'[d] = thread[d]
    BY <1>a, <2>1 DEF Idle
  <2>3. Append(cancelled[x], p) = <<p>> /\ Len(<<p>>) = 1 /\ <<p>>[1] = p /\ <<p>> # <<>>
    BY <2>1
  <2>4. \A r \in Responses : cancelled'[r] = IF r = x THEN <<p>> ELSE cancelled[r]
    BY <1>0, <2>1, <2>3 DEF HistoryType
  <2>5. \A d \in Callers : thread'[d].at = "cancel" => thread'[d].id # x
    BY <1>0, <2>1, <2>2
  <2> HIDE DEF x, p
  <2>6. \A d \in Callers : thread'[d].at = "cancel" =>
           /\ thread'[d].id \in Responses /\ thread'[d].id <= provider'
           /\ cancelled'[thread'[d].id] = <<>>
           /\ thread'[d].played <= acked'[thread'[d].id]
    BY <1>0, <2>1, <2>2, <2>4, <2>5
  <2>7. \A r \in Responses : /\ Len(cancelled'[r]) <= 1
                             /\ cancelled'[r] # <<>> => r <= provider'
                             /\ \A i \in 1..Len(cancelled'[r]) : cancelled'[r][i] <= acked'[r]
    BY <1>0, <2>1, <2>3, <2>4
  <2>8. \A d, e \in Callers :
           thread'[d].at = "cancel" /\ thread'[e].at = "cancel" /\ thread'[d].id = thread'[e].id
              => d = e
    BY <1>0, <2>2
  <2> QED
    BY <2>6, <2>7, <2>8
<1>4. ASSUME NEW a \in Apps, NEW r \in Responses, NEW n \in 1..MaxSamples,
             AcknowledgePlayback(a, r, n)
      PROVE  CancelPlan'
  <2>1. /\ UNCHANGED <<cancelled, thread, provider>>
        /\ \A x \in Responses : acked[x] <= acked'[x]
        /\ \A x \in Responses : acked'[x] \in Nat
    BY <1>0, <1>b, <1>4 DEF AcknowledgePlayback, HistoryType
  <2>2. \A c \in Callers : thread[c].played \in Nat
    BY <1>a, ResponseBounds DEF ThreadRecord
  <2>3. \A x \in Responses : \A i \in 1..Len(cancelled[x]) : cancelled[x][i] \in Nat
    <3> SUFFICES ASSUME NEW x \in Responses, NEW i \in 1..Len(cancelled[x])
                 PROVE  cancelled[x][i] \in Nat
      OBVIOUS
    <3> DEFINE S == 0..MaxSamples
    <3>1. cancelled[x] \in Seq(S) /\ S \subseteq Nat
      BY <1>b
    <3> HIDE DEF S
    <3> QED
      BY <3>1, ElementOfSeq
  <2>4. \A x \in Responses : \A i \in 1..Len(cancelled[x]) : cancelled[x][i] <= acked'[x]
    <3> SUFFICES ASSUME NEW x \in Responses, NEW i \in 1..Len(cancelled[x])
                 PROVE  cancelled[x][i] <= acked'[x]
      OBVIOUS
    <3>1. cancelled[x][i] <= acked[x] /\ cancelled[x][i] \in Nat
      BY <1>0, <2>3
    <3> QED
      BY <1>b, <2>1, <3>1
  <2>5. \A c \in Callers : thread[c].at = "cancel" => thread[c].played <= acked'[thread[c].id]
    <3> SUFFICES ASSUME NEW c \in Callers, thread[c].at = "cancel"
                 PROVE  thread[c].played <= acked'[thread[c].id]
      OBVIOUS
    <3>1. thread[c].id \in Responses /\ thread[c].played <= acked[thread[c].id]
      BY <1>0
    <3> QED
      BY <1>b, <2>1, <2>2, <3>1
  <2> QED
    BY <1>0, <2>1, <2>4, <2>5
<1>5. ASSUME NEW a \in Apps, NEW r \in Responses, PlaybackStarted(a, r)
      PROVE  CancelPlan'
  <2>1. UNCHANGED <<cancelled, thread, provider, acked>>
    BY <1>5 DEF PlaybackStarted, history
  <2> QED
    BY <1>0, <2>1
<1>6. CASE ResponseStarted
  <2>1. UNCHANGED <<cancelled, thread, acked>> /\ provider' = provider + 1
    BY <1>6 DEF ResponseStarted, history
  <2> QED
    BY <1>0, <1>b, <2>1
<1>7. ASSUME NEW r \in Responses, AudioDelta(r)
      PROVE  CancelPlan'
  <2>1. UNCHANGED <<cancelled, acked, provider>>
        /\ thread' = [thread EXCEPT !["provider"] = [Idle EXCEPT !.at = "frame", !.id = r]]
    BY <1>7 DEF AudioDelta, history
  <2>2. \A d \in Callers : thread'[d].at = "cancel" => thread'[d] = thread[d]
    BY <1>a, <2>1 DEF Idle
  <2> QED
    BY <1>0, <2>1, <2>2
<1>8. ASSUME NEW r \in Responses, ResponseCompleted(r)
      PROVE  CancelPlan'
  <2>1. UNCHANGED <<cancelled, thread, provider, acked>>
    BY <1>8 DEF ResponseCompleted, history
  <2> QED
    BY <1>0, <2>1
<1>9. CASE AudioSink
  <2>1. UNCHANGED <<cancelled, acked, provider>>
        /\ \E z \in {Idle, [Idle EXCEPT !.at = "barge_in"]} :
              thread' = [thread EXCEPT !["provider"] = z]
    BY <1>9 DEF AudioSink
  <2>2. \A d \in Callers : thread'[d].at = "cancel" => thread'[d] = thread[d]
    BY <1>a, <2>1 DEF Idle
  <2> QED
    BY <1>0, <2>1, <2>2
<1> QED
  BY <1>1, <1>2, <1>3, <1>4, <1>5, <1>6, <1>7, <1>8, <1>9 DEF Moves

LEMMA OffsetsStep ==
  ASSUME IInv, Moves
  PROVE  Offsets'
<1> USE DEF Offsets
<1>0. CancelPlan /\ Offsets /\ ActiveExactly /\ ResponseType /\ HistoryType
  BY DEF IInv, TypeOK
<1>a. thread \in [Callers -> ThreadRecord]
  BY DEF IInv, TypeOK
<1>b. /\ \A r \in Responses : r \in Nat /\ r # None
      /\ response_id \in Nat /\ provider \in Nat /\ played_samples \in Nat
      /\ \A r \in Responses : acked[r] \in Nat /\ cancelled[r] \in Seq(0..MaxSamples)
  BY <1>0, ResponseBounds DEF Responses, None, ResponseType, HistoryType
<1>1. CASE Aside
  <2>1. UNCHANGED <<acked, provider, response_id, played_samples, delivered_samples,
                     response_active>>
    BY <1>1 DEF Aside, history, response
  <2> QED
    BY <1>0, <2>1
<1>2. ASSUME NEW c \in Callers, BeginBargeIn(c)
      PROVE  Offsets'
  BY <1>2, <1>0 DEF BeginBargeIn, ResponseEnded, history
<1>3. ASSUME NEW c \in Callers, CancelResponse(c)
      PROVE  Offsets'
  BY <1>3, <1>0 DEF CancelResponse, response
<1>4. ASSUME NEW a \in Apps, NEW r \in Responses, NEW n \in 1..MaxSamples,
             AcknowledgePlayback(a, r, n)
      PROVE  Offsets'
  <2>1. Accepted(n) \in Nat /\ Accepted(n) <= delivered_samples /\ Accepted(n) <= n
    BY <1>0, ResponseBounds DEF ResponseType, Accepted
  <2>2. /\ r = response_id /\ played_samples' = Accepted(n)
        /\ acked' = [acked EXCEPT ![r] = IF n > acked[r] THEN n ELSE acked[r]]
        /\ UNCHANGED <<response_id, provider, delivered_samples>>
        /\ r # None
    BY <1>b, <1>4 DEF AcknowledgePlayback
  <2>3. acked'[r] \in Nat /\ n <= acked'[r]
    BY <1>0, <1>b, <2>2 DEF HistoryType
  <2> QED
    BY <1>0, <2>1, <2>2, <2>3
<1>5. ASSUME NEW a \in Apps, NEW r \in Responses, PlaybackStarted(a, r)
      PROVE  Offsets'
  BY <1>5, <1>0 DEF PlaybackStarted, history
<1>6. CASE ResponseStarted
  <2>1. /\ response_id' = provider' /\ provider' = provider + 1 /\ acked' = acked
        /\ delivered_samples' = 0 /\ played_samples' = 0 /\ provider + 1 \in Responses
    BY <1>b, <1>6, ResponseBounds DEF ResponseStarted, FreshOffset, history, Responses
  <2> QED
    BY <1>b, <2>1
<1>7. ASSUME NEW r \in Responses, AudioDelta(r)
      PROVE  Offsets'
  <2>1. /\ delivered_samples' = delivered_samples + 1
        /\ UNCHANGED <<acked, provider, response_id, played_samples, response_active>>
    BY <1>7 DEF AudioDelta, history
  <2> QED
    BY <1>0, <1>b, <2>1 DEF ResponseType
<1>8. ASSUME NEW r \in Responses, ResponseCompleted(r)
      PROVE  Offsets'
  <2>1. UNCHANGED <<acked, provider, response_id, played_samples, delivered_samples>>
        /\ response_active
    BY <1>8 DEF ResponseCompleted, Completes, history
  <2> QED
    BY <1>0, <2>1
<1>9. CASE AudioSink
  BY <1>9, <1>0 DEF AudioSink, response
<1> QED
  BY <1>1, <1>2, <1>3, <1>4, <1>5, <1>6, <1>7, <1>8, <1>9 DEF Moves

\* A response once over stays over; the one step that ends it is the barge-in that
\* takes the active flag.
LEMMA EndedMoves ==
  ASSUME IInv, Moves, NEW x \in Responses
  PROVE  \/ Ended(x)' <=> Ended(x)
         \/ /\ x = response_id /\ response_active /\ Ended(x)'
            /\ ~response_active' /\ response_id' = response_id
<1>a. thread \in [Callers -> ThreadRecord] /\ cancelled \in [Responses -> Seq(0..MaxSamples)]
  BY DEF IInv, TypeOK, HistoryType
<1>0. ASSUME cancelled' = cancelled,
             \A c \in Callers : \/ thread'[c] = thread[c]
                                \/ thread'[c].at # "cancel" /\ thread[c].at # "cancel"
      PROVE  Ended(x)' <=> Ended(x)
  BY <1>0 DEF Ended, Deciding
<1>1. CASE Aside
  BY <1>0, <1>1 DEF Aside, history
<1>2. ASSUME NEW c \in Callers, BeginBargeIn(c)
      PROVE  \/ Ended(x)' <=> Ended(x)
             \/ /\ x = response_id /\ response_active /\ Ended(x)'
                /\ ~response_active' /\ response_id' = response_id
  <2>1. /\ thread[c].at = "barge_in" /\ cancelled' = cancelled /\ ~response_active'
        /\ response_id' = response_id
    BY <1>2 DEF BeginBargeIn, ResponseEnded, history
  <2>2. CASE ~response_active
    <3>1. thread' = [thread EXCEPT ![c] = Idle]
      BY <1>2, <2>2 DEF BeginBargeIn
    <3> QED
      BY <1>a, <1>0, <2>1, <3>1 DEF Idle
  <2>3. CASE response_active
    <3> DEFINE z == [at |-> "cancel", id |-> response_id, played |-> played_samples]
    <3>1. thread' = [thread EXCEPT ![c] = z] /\ z.at = "cancel" /\ z.id = response_id
      BY <1>2, <2>3 DEF BeginBargeIn
    <3> HIDE DEF z
    <3>2. \A d \in Callers : thread'[d] = IF d = c THEN z ELSE thread[d]
      BY <1>a, <3>1
    <3>3. CASE x = response_id
      <4>1. Ended(x)'
        BY <3>1, <3>2, <3>3 DEF Ended, Deciding
      <4> QED
        BY <2>1, <2>3, <3>3, <4>1
    <3>4. CASE x # response_id
      BY <2>1, <3>1, <3>2, <3>4 DEF Ended, Deciding
    <3> QED
      BY <3>3, <3>4
  <2> QED
    BY <2>2, <2>3
<1>3. ASSUME NEW c \in Callers, CancelResponse(c)  PROVE  Ended(x)' <=> Ended(x)
  <2> DEFINE k == thread[c].id
             q == Append(cancelled[k], thread[c].played)
  <2>1. /\ thread[c].at = "cancel" /\ k \in Responses /\ thread' = [thread EXCEPT ![c] = Idle]
        /\ cancelled' = [cancelled EXCEPT ![k] = q]
    BY <1>3 DEF CancelResponse, IInv, CancelPlan
  <2>2. q # <<>>
    <3>1. cancelled[k] = <<>>
      BY <2>1 DEF IInv, CancelPlan
    <3> QED
      BY <3>1
  <2> HIDE DEF q, k
  <2>3. \A d \in Callers : thread'[d] = IF d = c THEN Idle ELSE thread[d]
    BY <1>a, <2>1
  <2>4. \A y \in Responses : cancelled'[y] = IF y = k THEN q ELSE cancelled[y]
    BY <1>a, <2>1
  <2>5. CASE x = k
    BY <2>1, <2>2, <2>4, <2>5 DEF Ended, Deciding, k
  <2>6. CASE x # k
    BY <2>1, <2>3, <2>4, <2>6 DEF Ended, Deciding, Idle, k
  <2> QED
    BY <2>5, <2>6
<1>4. CASE \/ \E a \in Apps, r \in Responses : \E n \in 1..MaxSamples : AcknowledgePlayback(a, r, n)
           \/ \E a \in Apps, r \in Responses : PlaybackStarted(a, r)
           \/ ResponseStarted \/ \E r \in Responses : ResponseCompleted(r)
  <2>1. UNCHANGED <<thread, cancelled>>
    BY <1>4 DEF AcknowledgePlayback, PlaybackStarted, ResponseStarted, ResponseCompleted, history
  <2> QED
    BY <1>0, <2>1
<1>5. ASSUME NEW r \in Responses, AudioDelta(r)  PROVE  Ended(x)' <=> Ended(x)
  <2>1. /\ thread' = [thread EXCEPT !["provider"] = [Idle EXCEPT !.at = "frame", !.id = r]]
        /\ thread["provider"].at = "idle" /\ cancelled' = cancelled
    BY <1>5 DEF AudioDelta, ProviderReady, history
  <2> QED
    BY <1>a, <1>0, <2>1 DEF Idle
<1>6. CASE AudioSink
  <2>1. /\ \E z \in {Idle, [Idle EXCEPT !.at = "barge_in"]} :
              thread' = [thread EXCEPT !["provider"] = z]
        /\ thread["provider"].at = "frame" /\ cancelled' = cancelled
    BY <1>6 DEF AudioSink
  <2> QED
    BY <1>a, <1>0, <2>1 DEF Idle
<1> QED
  BY <1>1, <1>2, <1>3, <1>4, <1>5, <1>6 DEF Moves

\* With the current response kept, its end and the flag move together.
LEMMA ActiveKept ==
  ASSUME IInv, Moves, response_id' = response_id, response_active' = response_active,
         /\ response_generation_done' /\ played_samples' = delivered_samples'
            <=> response_generation_done /\ played_samples = delivered_samples
  PROVE  ActiveExactly'
<1> SUFFICES ASSUME response_id # None
             PROVE  response_active' <=>
                       /\ ~Ended(response_id)'
                       /\ ~(response_generation_done' /\ played_samples' = delivered_samples')
  BY DEF ActiveExactly
<1>1. response_id \in Responses /\ response_active \in BOOLEAN
  BY DEF IInv, TypeOK, ResponseType
<1>2. PICK x \in Responses : x = response_id
  BY <1>1
<1>3. Ended(x)' <=> Ended(x)
  BY EndedMoves, <1>2
<1>4. /\ Ended(response_id)' <=> Ended(x)'
      /\ Ended(response_id) <=> Ended(x)
  BY <1>2 DEF Ended, Deciding
<1> QED
  BY <1>1, <1>3, <1>4 DEF IInv, ActiveExactly

LEMMA ActiveStep ==
  ASSUME IInv, Moves
  PROVE  ActiveExactly'
<1>0. CancelPlan /\ Offsets /\ ActiveExactly /\ ResponseType /\ HistoryType
  BY DEF IInv, TypeOK
<1>a. thread \in [Callers -> ThreadRecord]
  BY DEF IInv, TypeOK
<1>b. /\ \A r \in Responses : r \in Nat /\ r # None
      /\ response_id \in Nat /\ provider \in Nat /\ played_samples \in Nat
      /\ \A r \in Responses : acked[r] \in Nat /\ cancelled[r] \in Seq(0..MaxSamples)
  BY <1>0, ResponseBounds DEF Responses, None, ResponseType, HistoryType
<1>c. response_active \in BOOLEAN
  BY <1>0 DEF ResponseType
<1>1. CASE Aside
  <2>1. UNCHANGED response
    BY <1>1 DEF Aside
  <2> QED
    BY <2>1, ActiveKept DEF response
<1>2. ASSUME NEW c \in Callers, CancelResponse(c)
      PROVE  ActiveExactly'
  <2>1. UNCHANGED response
    BY <1>2 DEF CancelResponse
  <2> QED
    BY <2>1, ActiveKept DEF response
<1>3. ASSUME NEW c \in Callers, BeginBargeIn(c)
      PROVE  ActiveExactly'
  <2>1. UNCHANGED <<response_id, delivered_samples, played_samples, response_generation_done>>
        /\ response_active' = FALSE
    BY <1>3 DEF BeginBargeIn, ResponseEnded
  <2>2. CASE response_active = FALSE
    BY <2>1, <2>2, ActiveKept
  <2>3. CASE response_active
    <3> DEFINE z == [at |-> "cancel", id |-> response_id, played |-> played_samples]
    <3>1. thread' = [thread EXCEPT ![c] = z] /\ z.at = "cancel" /\ z.id = response_id
      BY <1>3, <2>3 DEF BeginBargeIn
    <3> HIDE DEF z
    <3>2. thread'[c].at = "cancel" /\ thread'[c].id = response_id'
      BY <1>a, <2>1, <3>1
    <3>3. Ended(response_id)'
      BY <3>2 DEF Ended, Deciding
    <3> QED
      BY <2>1, <3>3 DEF ActiveExactly
  <2> QED
    BY <2>2, <2>3, <1>c
<1>4. ASSUME NEW a \in Apps, NEW r \in Responses, NEW n \in 1..MaxSamples,
             AcknowledgePlayback(a, r, n)
      PROVE  ActiveExactly'
  <2>1. /\ r = response_id /\ response_active
        /\ UNCHANGED <<response_id, delivered_samples, response_generation_done, thread, cancelled>>
        /\ played_samples' = Accepted(n)
        /\ response_active' = ~(response_generation_done /\ Accepted(n) = delivered_samples)
    BY <1>4 DEF AcknowledgePlayback
  <2>2. ~Ended(response_id)'
    <3>1. ~Ended(response_id)
      BY <1>0, <1>b, <2>1 DEF ActiveExactly
    <3> QED
      BY <2>1, <3>1 DEF Ended, Deciding
  <2> QED
    BY <2>1, <2>2 DEF ActiveExactly
<1>5. ASSUME NEW a \in Apps, NEW r \in Responses, PlaybackStarted(a, r)
      PROVE  ActiveExactly'
  <2>1. UNCHANGED <<response_id, delivered_samples, played_samples, response_active,
                     response_generation_done>>
    BY <1>5 DEF PlaybackStarted
  <2> QED
    BY <2>1, ActiveKept
<1>6. CASE ResponseStarted
  <2>1. /\ response_id' = provider + 1 /\ response_active' = TRUE
        /\ response_generation_done' = FALSE /\ UNCHANGED <<thread, cancelled>>
        /\ provider + 1 \in Responses
    BY <1>b, <1>6, ResponseBounds DEF ResponseStarted, history, Responses
  <2>2. ~(provider + 1 <= provider)
    BY <1>b
  <2>3. /\ cancelled[provider + 1] = <<>>
        /\ \A c \in Callers : ~(thread[c].at = "cancel" /\ thread[c].id = provider + 1)
    BY <1>0, <2>1, <2>2 DEF CancelPlan
  <2>4. ~Ended(response_id)'
    BY <2>1, <2>3 DEF Ended, Deciding
  <2> QED
    BY <2>1, <2>4 DEF ActiveExactly
<1>7. ASSUME NEW r \in Responses, AudioDelta(r)
      PROVE  ActiveExactly'
  <2>1. ~response_generation_done
        /\ UNCHANGED <<response_id, response_active, response_generation_done>>
    BY <1>7 DEF AudioDelta, Wanted
  <2> QED
    BY <2>1, ActiveKept
<1>8. ASSUME NEW r \in Responses, ResponseCompleted(r)
      PROVE  ActiveExactly'
  <2>1. /\ response_active /\ response_id = r /\ response_generation_done' = TRUE
        /\ response_active' = (played_samples < delivered_samples)
        /\ UNCHANGED <<response_id, delivered_samples, played_samples, thread, cancelled>>
    BY <1>8 DEF ResponseCompleted, Completes, StillPlaying, history
  <2>2. ~Ended(response_id)'
    <3>1. ~Ended(response_id)
      BY <1>0, <1>b, <2>1 DEF ActiveExactly
    <3> QED
      BY <2>1, <3>1 DEF Ended, Deciding
  <2>3. played_samples < delivered_samples <=> played_samples # delivered_samples
    BY <1>0 DEF Offsets, ResponseType
  <2> QED
    BY <2>1, <2>2, <2>3 DEF ActiveExactly
<1>9. CASE AudioSink
  <2>1. UNCHANGED response
    BY <1>9 DEF AudioSink
  <2> QED
    BY <2>1, ActiveKept DEF response
<1> QED
  BY <1>1, <1>2, <1>3, <1>4, <1>5, <1>6, <1>7, <1>8, <1>9 DEF Moves

LEMMA FrameFreshStep ==
  ASSUME IInv, Moves
  PROVE  FrameFresh'
<1> USE DEF FrameFresh
<1>0. FrameFresh
  BY DEF IInv
<1>a. thread \in [Callers -> ThreadRecord]
  BY DEF IInv, TypeOK
<1>b. \A r \in Responses : r \in Nat /\ r # None
  BY ResponseBounds DEF Responses, None
<1>c. "provider" \in Callers
  BY DEF Callers
<1>d. \A x \in Responses : Ended(x) => Ended(x)'
  BY EndedMoves
<1>e. late \in [Responses -> Nat]
  BY DEF IInv, TypeOK, HistoryType
<1>1. CASE Aside
  <2>1. late' = late
    BY <1>1 DEF Aside, history
  <2>2. thread'["provider"].at = "frame" => thread'["provider"] = thread["provider"]
    BY <1>c, <1>1 DEF Aside
  <2> QED
    BY <1>0, <1>d, <2>1, <2>2
<1>2. ASSUME NEW c \in Callers, BeginBargeIn(c)
      PROVE  FrameFresh'
  <2>1. late' = late
    BY <1>2 DEF BeginBargeIn, history
  <2>2. thread'["provider"].at = "frame" => thread'["provider"] = thread["provider"]
    BY <1>a, <1>c, <1>2 DEF BeginBargeIn, Idle
  <2> QED
    BY <1>0, <1>d, <2>1, <2>2
<1>3. ASSUME NEW c \in Callers, CancelResponse(c)
      PROVE  FrameFresh'
  <2>1. late' = late
    BY <1>3 DEF CancelResponse
  <2>2. thread'["provider"].at = "frame" => thread'["provider"] = thread["provider"]
    BY <1>a, <1>c, <1>3 DEF CancelResponse, Idle
  <2> QED
    BY <1>0, <1>d, <2>1, <2>2
<1>4. ASSUME NEW a \in Apps, NEW r \in Responses, NEW n \in 1..MaxSamples,
             AcknowledgePlayback(a, r, n)
      PROVE  FrameFresh'
  <2>1. UNCHANGED <<late, thread>>
    BY <1>4 DEF AcknowledgePlayback
  <2> QED
    BY <1>0, <1>d, <2>1
<1>5. ASSUME NEW a \in Apps, NEW r \in Responses, PlaybackStarted(a, r)
      PROVE  FrameFresh'
  <2>1. UNCHANGED <<late, thread>>
    BY <1>5 DEF PlaybackStarted, history
  <2> QED
    BY <1>0, <1>d, <2>1
<1>6. CASE ResponseStarted
  <2>1. UNCHANGED <<late, thread>>
    BY <1>6 DEF ResponseStarted, history
  <2> QED
    BY <1>0, <1>d, <2>1
<1>7. ASSUME NEW r \in Responses, AudioDelta(r)
      PROVE  FrameFresh'
  <2>1. /\ late' = late /\ r = response_id /\ response_active
        /\ thread' = [thread EXCEPT !["provider"] = [Idle EXCEPT !.at = "frame", !.id = r]]
    BY <1>7 DEF AudioDelta, Wanted, history
  <2>2. thread'["provider"].id = r
    BY <1>a, <1>c, <2>1 DEF Idle
  <2>3. ~Ended(r)
    <3>1. ~Ended(response_id)
      BY <1>b, <2>1 DEF IInv, ActiveExactly
    <3> QED
      BY <2>1, <3>1
  <2>4. late[r] = 0
    BY <1>0, <2>3
  <2> QED
    BY <1>0, <1>d, <2>1, <2>2, <2>4
<1>8. ASSUME NEW r \in Responses, ResponseCompleted(r)
      PROVE  FrameFresh'
  <2>1. UNCHANGED <<late, thread>>
    BY <1>8 DEF ResponseCompleted, history
  <2> QED
    BY <1>0, <1>d, <2>1
<1>9. CASE AudioSink
  <2> DEFINE k == thread["provider"].id
  <2>1. /\ k \in Responses /\ late[k] = 0
        /\ late' = [late EXCEPT ![k] = IF Ended(k) THEN late[k] + 1 ELSE late[k]] \/ late' = late
    BY <1>0, <1>9 DEF AudioSink
  <2>2. thread'["provider"].at # "frame"
    BY <1>a, <1>c, <1>9 DEF AudioSink, Idle
  <2> HIDE DEF k
  <2>3. \A x \in Responses : \/ late'[x] = late[x]
                             \/ x = k /\ late'[x] = 1 /\ Ended(x)
    BY <1>e, <2>1
  <2> QED
    BY <1>0, <1>d, <2>2, <2>3
<1> QED
  BY <1>1, <1>2, <1>3, <1>4, <1>5, <1>6, <1>7, <1>8, <1>9 DEF Moves

LEMMA ClosePlacedStep ==
  ASSUME IInv, Next
  PROVE  ClosePlaced'
<1> USE DEF ClosePlaced, input
<1>0. ClosePlaced
  BY DEF IInv
<1>a. thread \in [Callers -> ThreadRecord]
  BY DEF IInv, TypeOK
<1>c. "provider" \in Callers
  BY DEF Callers
<1>1. ASSUME NEW c \in Callers, InputSpeechStarted(c)
      PROVE  ClosePlaced'
  <2>1. closer = "out" /\ UNCHANGED <<closer, worker, stopping>>
    BY <1>0, <1>1 DEF InputSpeechStarted
  <2> QED
    BY <2>1
<1>2. ASSUME NEW c \in Callers, BeginBargeIn(c) \/ CancelResponse(c)
      PROVE  ClosePlaced'
  <2>1. UNCHANGED <<closer, worker, stopping>> /\ thread[c].at # "idle"
        /\ \A d \in Callers : d # c => thread'[d] = thread[d]
    BY <1>a, <1>2 DEF BeginBargeIn, CancelResponse
  <2> QED
    BY <1>0, <1>c, <2>1
<1>3. ASSUME NEW a \in Apps, InputSpeechEnded(a) \/ PushAudio(a)
      PROVE  ClosePlaced'
  <2>1. closer = "out" /\ UNCHANGED <<closer, worker, stopping>>
    BY <1>0, <1>3 DEF InputSpeechEnded, PushAudio
  <2> QED
    BY <2>1
<1>4. ASSUME NEW a \in Apps, CommitInput(a) \/ NotifyOne(a)
      PROVE  ClosePlaced'
  <2>1. UNCHANGED <<closer, stopping>> /\ (worker = "exited" => worker' = "exited")
    BY <1>4 DEF CommitInput, NotifyOne, Woken
  <2>2. a \in Callers /\ thread[a].at # "idle" /\ thread' = [thread EXCEPT ![a].at = "idle"]
    BY <1>4 DEF CommitInput, NotifyOne, Goes, Callers
  <2>3. thread["provider"].at = "idle" => thread'["provider"].at = "idle"
    BY <1>a, <1>c, <2>2
  <2> QED
    BY <1>0, <2>1, <2>3
<1>5. ASSUME NEW a \in Apps, NEW r \in Responses, PlaybackStarted(a, r)
      PROVE  ClosePlaced'
  BY <1>5, <1>0 DEF PlaybackStarted
<1>6. ASSUME NEW a \in Apps, NEW r \in Responses, NEW n \in 1..MaxSamples,
             AcknowledgePlayback(a, r, n)
      PROVE  ClosePlaced'
  BY <1>6, <1>0 DEF AcknowledgePlayback
<1>7. CASE Worker
  <2>1. UNCHANGED <<closer, stopping, thread>> /\ worker # "exited"
    BY <1>7 DEF Worker, WorkerLocks, WorkerMustWait, WorkerSleeps, WorkerExits, WorkerTakes,
        Upload, WorkerEndsSpeech, WorkerCommits
  <2> QED
    BY <1>0, <2>1
<1>8. CASE Provider
  <2>1. closer = "out" /\ closer' = closer
    BY <1>0, <1>8 DEF Provider, ProviderSpeechEnded, ResponseStarted, AudioDelta,
        ResponseCompleted, ProviderReady
  <2> QED
    BY <2>1
<1>9. CASE AudioSink
  <2>1. UNCHANGED <<closer, worker, stopping>> /\ closer # "closed"
    BY <1>0, <1>9 DEF AudioSink
  <2> QED
    BY <1>0, <2>1
<1>10. CASE Close \/ Closing
  BY <1>10, <1>0 DEF Close, Closing, NotifyAll, Join, CloseProvider, Woken,
     WorkerGone
<1> QED
  BY <1>1, <1>2, <1>3, <1>4, <1>5, <1>6, <1>7, <1>8, <1>9, <1>10 DEF Next,
     AppReturns, AppCalls, Worker, Provider, Closing

-----------------------------------------------------------------------------
(* The theorems.                                                           *)

LEMMA InvInit == Init => IInv
<1> SUFFICES ASSUME Init PROVE IInv
  OBVIOUS
<1>1. 0 \in 0..MaxSamples /\ 0 \in 0..MaxInputFrames /\ <<>> \in Seq(0..MaxSamples)
  BY ResponseBounds, ConfigAssumption
<1>2. ResponseType /\ InputType
  BY <1>1 DEF Init, ResponseType, InputType
<1>3. HistoryType
  BY <1>1 DEF Init, HistoryType
<1>4. thread \in [Callers -> ThreadRecord]
  BY <1>1 DEF Init, Idle, ThreadRecord
<1>5. /\ \A c \in Callers : thread[c].at = "idle"
      /\ \A r \in Responses : cancelled[r] = <<>> /\ late[r] = 0
  BY DEF Init, Idle
<1>6. CancelPlan
  BY <1>5 DEF CancelPlan
<1>7. Offsets /\ ActiveExactly
  BY DEF Init, Offsets, ActiveExactly
<1>8. FrameFresh /\ ClosePlaced
  BY <1>5 DEF Init, FrameFresh, ClosePlaced, Callers
<1> QED
  BY <1>2, <1>3, <1>4, <1>6, <1>7, <1>8 DEF IInv, TypeOK

LEMMA InvStep ==
  ASSUME IInv, Next
  PROVE  IInv'
<1>1. Moves
  BY NextMoves
<1>2. TypeOK'
  BY ResponseTypeStep, InputTypeStep, HistoryTypeStep, ThreadTypeStep DEF TypeOK
<1>3. CancelPlan' /\ Offsets'
  BY <1>1, CancelPlanStep, OffsetsStep
<1>4. ActiveExactly' /\ FrameFresh'
  BY <1>1, ActiveStep, FrameFreshStep
<1>5. ClosePlaced'
  BY ClosePlacedStep
<1> QED
  BY <1>2, <1>3, <1>4, <1>5 DEF IInv

LEMMA InvStutter ==
  ASSUME IInv, UNCHANGED vars
  PROVE  IInv'
<1> USE DEF IInv, vars, response, input, history
<1>1. TypeOK'
  BY DEF TypeOK, ResponseType, InputType, HistoryType
<1>2. CancelPlan' /\ Offsets'
  BY DEF CancelPlan, Offsets
<1>3. ActiveExactly' /\ FrameFresh' /\ ClosePlaced'
  BY DEF ActiveExactly, FrameFresh, ClosePlaced, Ended, Deciding
<1> QED
  BY <1>1, <1>2, <1>3

\* The inductive invariant holds in every reachable state.
THEOREM Invariance == Spec => []IInv
<1>1. IInv /\ [Next]_vars => IInv'
  BY InvStep, InvStutter
<1> QED
  BY <1>1, InvInit, PTL DEF Spec

\* However many threads run begin_barge_in at once, cancel_response is called at most
\* once for a response, with an offset the player has acknowledged for that response.
THEOREM CancelIsExact == Spec => []CancelExact
<1>1. ASSUME IInv PROVE CancelExact
  <2>1. CancelOnce
    <3> SUFFICES ASSUME NEW r \in Responses
                 PROVE  Len(cancelled[r]) + Cardinality(Deciding(r)) <= 1
      BY DEF CancelOnce
    <3>1. Len(cancelled[r]) \in Nat /\ Len(cancelled[r]) <= 1
      BY <1>1, LenProperties DEF IInv, TypeOK, HistoryType, CancelPlan
    <3>2. CASE Deciding(r) = {}
      BY <3>1, <3>2, FS_EmptySet
    <3>3. ASSUME NEW c \in Deciding(r)
          PROVE  Len(cancelled[r]) + Cardinality(Deciding(r)) <= 1
      <4>1. cancelled[r] = <<>>
        BY <1>1, <3>3 DEF IInv, CancelPlan, Deciding
      <4>2. Deciding(r) = {c}
        BY <1>1, <3>3 DEF IInv, CancelPlan, Deciding
      <4>3. Cardinality(Deciding(r)) = 1
        BY <4>2, FS_Singleton
      <4> QED
        BY <4>1, <4>3
    <3> QED
      BY <3>2, <3>3
  <2>2. TruncatesToHeard
    BY <1>1 DEF IInv, CancelPlan, TruncatesToHeard, Deciding
  <2> QED
    BY <2>1, <2>2 DEF CancelExact
<1> QED
  BY <1>1, Invariance, PTL

\* The response flags, the offsets, the one late frame and close() are as the run
\* DuplexSafe checks them, for any number of threads, responses and samples.
THEOREM DuplexIsSafe == Spec => []DuplexSafe
<1>1. ASSUME IInv PROVE DuplexSafe
  <2>1. TypeOK /\ ActiveExactly
    BY <1>1 DEF IInv
  <2>2. PlayedWasDelivered /\ LateAudioBounded
    BY <1>1 DEF IInv, Offsets, FrameFresh, PlayedWasDelivered, LateAudioBounded
  <2>3. ClosedMeansQuiet
    BY <1>1 DEF IInv, ClosePlaced, ClosedMeansQuiet
  <2> QED
    BY <2>1, <2>2, <2>3 DEF DuplexSafe
<1> QED
  BY <1>1, Invariance, PTL

=============================================================================
