---------------------------- MODULE ResponseProofs ----------------------------
(***************************************************************************)
(* Proofs about Response: the agent's history and its streamed answer, the *)
(* speech pipeline under the conversation's lane, and the observer's spans.*)
(***************************************************************************)
EXTENDS Response, FiniteSetTheorems, SequenceTheorems, TLAPS

-----------------------------------------------------------------------------
(* The types of the agent's records                                        *)

Payloads == [kind : {"done", "bad", "other", "text", "call"}, delta : Seq(Bytes), index : Nat]

Streams == [buffer : Seq(Payloads), data : Seq(Payloads), text : Seq(Bytes),
            calls : Seq(BOOLEAN), done : BOOLEAN, delta : Seq(Bytes), threw : BOOLEAN]

Places == {"begin", "step", "attempt", "sending", "transfer", "consumer", "last", "backoff",
           "answer", "tool", "invoking", "handler", "result", "throw", "returned", "limit", "failed"}

Messages == [role : {"user", "assistant", "tool"}, text : Seq(Bytes), calls : Seq(BOOLEAN)]

AgentTypes ==
    /\ history \in Seq(Messages)
    /\ agent \in [at : Places, step : Nat, call : Nat]
    /\ token \in BOOLEAN
    /\ http \in [attempt : Nat, received : BOOLEAN, status : Nat]
    /\ stream \in Streams

-----------------------------------------------------------------------------
(* The inductive invariant                                                 *)

\* Nothing of the answer has been seen before a request is made.
Fresh ==
    /\ agent.at \in {"backoff", "attempt", "sending"} => stream = EmptyStream /\ ~http.received
    /\ At("transfer") /\ ~http.received => stream = EmptyStream
    /\ At("consumer") => http.received

InTools == agent.at \in {"tool", "invoking", "handler", "result"}

\* Where the message of the calls at work is.
Asked == Len(history) + 1 - agent.call

Kept ==
    /\ Len(history) >= 2 /\ history[1] = User /\ history[2] = Assistant(<<>>, <<>>)
    /\ At("failed") => history = Past

\* The calls of every message have their results, but those at work.
Matched ==
    /\ ~InTools /\ ~At("throw") => \A k \in 1..Len(history) : Answered(k)
    /\ InTools =>
          /\ agent.call \in 1..Len(stream.calls) /\ agent.call <= Len(history)
          /\ history[Asked].role = "assistant" /\ history[Asked].calls = stream.calls
          /\ \A k \in 1..(Asked - 1) : Answered(k)
          /\ \A k \in (Asked + 1)..Len(history) : history[k].role = "tool"

AgentInv == AgentTypes /\ Fresh /\ Kept /\ Matched

\* The pipeline by itself: what it was given and took,
OrderInv ==
    /\ Tts!SpokenInOrder
    /\ next_chunk = Len(accepted) + 1
    /\ \A i \in 1..Len(accepted) : accepted[i] = i
    /\ producer = "pushing" => next_chunk <= MaxChunks

\* and how its two threads stand to each other.
ControlInv ==
    /\ finishing => producer \in {"joining", "finished", "threw"}
    /\ joined => /\ worker = "exited" /\ producer \in {"finished", "threw"}
                 /\ error => producer = "threw"
    /\ error => cancelled_locally /\ worker = "exited"
    /\ producer = "rejected" => Tts!Cancelled
    /\ late <= 1 /\ (worker = "sink" \/ ~Tts!Cancelled => late = 0)
    /\ worker \in {"ending", "exited"} /\ ~Tts!Cancelled => queue = <<>> /\ finishing
    /\ worker = "exited" /\ ~Tts!Cancelled => ended

SpeechInv == Tts!TypeOK /\ OrderInv /\ ControlInv

\* The pipeline that does not exist yet.
Unmade == /\ producer = "idle" /\ worker = "begin" /\ accepted = <<>> /\ segments = <<>>
          /\ ~cancelled_locally /\ ~joined /\ ~first_audio

\* The lane and the pipeline it drives.
LaneInv ==
    /\ lane \in {"agent", "flush", "finish", "fail", "over"}
    /\ told \in {"nothing", "completed", "cancelled", "failed"}
    /\ started \in BOOLEAN /\ first_audio \in BOOLEAN
    /\ lane # "over" => told = "nothing"
    /\ lane \in {"flush", "finish"} => Returned
    /\ producer = "pushing" => Speaks
    /\ lane \in {"agent", "flush"} => producer \in {"idle", "pushing", "rejected"}
    /\ lane = "finish" => producer # "cancelled" /\ (joined => ~error)
    /\ lane = "over" => SpeechOver
    /\ ~started => Unmade
    /\ cancelled_locally => error \/ lane \in {"fail", "over"}

\* Every sentence passed to push() was accepted, but the one at work or refused.
Handed ==
    /\ segments \in Seq({segments[i] : i \in 1..Len(segments)})
    /\ producer = "idle" => Len(segments) = Len(accepted)
    /\ producer = "pushing" => Len(segments) = Len(accepted) + 1
    /\ producer # "pushing" => Len(segments) = Len(accepted) \/ Tts!Cancelled
    /\ told = "completed" => /\ Returned /\ ~Tts!Cancelled /\ lane = "over"

SpokenInv == SpeechInv /\ LaneInv /\ Handed

\* The spans that must be pending, and those that must not, unless one was rejected.
InModel == agent.at \in {"attempt", "sending", "transfer", "consumer", "last", "backoff", "answer"}
Ours(phase) == Key(Turn, phase, 0)
OfModel(k) == k.turn = Turn /\ k.phase \in {"model", "first_token"}

Phases == AgentPhases \union {"asr_final", "s2s_first_audio", "conversation_turn",
                              "tts_first_audio", "tts_total"}
Keys == [turn : {Turn}, phase : Phases, name : Nat]

\* What every event of the turn preserves.
Kind(o) ==
    /\ o = [starts |-> o.starts, measured |-> o.measured, counted |-> o.counted]
    /\ o.starts \in [Pending(o) -> BOOLEAN]
    /\ Pending(o) \subseteq Keys \union {Foreign} /\ Foreign \in Pending(o)
    /\ IsFiniteSet(Pending(o)) /\ Cardinality(Pending(o)) <= MaxSpans

Rejections(o) == "span_limit_rejections" \in o.counted
\* No event was out of place so far.
Clean(o) == o.counted = {} /\ \A k \in Pending(o) : o.starts[k]

AgentSpans ==
    /\ agent.at \notin {"begin", "failed", "returned", "limit"} => Ours("turn") \in Pending(observer)
    /\ At("begin") => Ours("turn") \notin Pending(observer)
    /\ InModel => /\ Key(Turn, "model", agent.step) \in Pending(observer)
                  /\ stream.text = <<>> => Key(Turn, "first_token", agent.step) \in Pending(observer)
                  /\ \A k \in Pending(observer) : OfModel(k) => k.name = agent.step
    /\ ~InModel /\ ~At("throw") => \A k \in Pending(observer) : ~OfModel(k)
    /\ agent.at \in {"invoking", "handler", "result"} => Ours("tool") \in Pending(observer)
    /\ agent.at \notin {"invoking", "handler", "result", "throw"} => Ours("tool") \notin Pending(observer)

SpeechSpans ==
    lane # "over" => /\ Ours("tts_total") \in Pending(observer) <=> started
                     /\ Ours("tts_first_audio") \in Pending(observer) <=> started /\ ~first_audio

SpansInv ==
    /\ Kind(observer)
    /\ lane = "over" => Pending(observer) = {Foreign}
    /\ At("failed") \/ Returned =>
          \A k \in Pending(observer) : k.turn = Turn => k.phase \notin AgentPhases
    /\ Ours("turn") \in observer.measured => At("returned")
    /\ Ours("conversation_turn") \in observer.measured => told = "completed"
    /\ ~Rejections(observer) => Clean(observer) /\ AgentSpans /\ SpeechSpans

-----------------------------------------------------------------------------
(* The parser and the sink of the answer                                   *)

\* The empty sequence is one of anything.
LEMMA NoneSeq ==
    /\ <<>> \in Seq(Payloads) /\ <<>> \in Seq(Bytes) /\ <<>> \in Seq(BOOLEAN)
OBVIOUS

\* The records the model makes have their types.
LEMMA EmptyTyped ==
    /\ EmptyStream \in Streams
    /\ NoRequest \in [attempt : Nat, received : BOOLEAN, status : Nat]
    /\ User \in Messages /\ Tool \in Messages
    /\ Assistant(<<>>, <<>>) \in Messages
BY DEF EmptyStream, Streams, NoRequest, User, Tool, Assistant, Messages

\* A call fragment leaves a list of calls.
LEMMA AssembledTyped ==
    ASSUME NEW calls \in Seq(BOOLEAN), NEW i \in Nat
    PROVE  Assembled(calls, i) \in Seq(BOOLEAN)
<1> DEFINE n == IF Len(calls) > i THEN Len(calls) ELSE i + 1
<1>1. Len(calls) \in Nat
  BY LenProperties
<1>2. n \in Nat
  BY <1>1
<1>3. ASSUME NEW k \in 1..n PROVE (k = i + 1 \/ (k <= Len(calls) /\ calls[k])) \in BOOLEAN
  OBVIOUS
<1>4. Assembled(calls, i) = [k \in 1..n |-> k = i + 1 \/ (k <= Len(calls) /\ calls[k])]
  BY DEF Assembled
<1> HIDE DEF n
<1>5. [k \in 1..n |-> k = i + 1 \/ (k <= Len(calls) /\ calls[k])] \in [1..n -> BOOLEAN]
  BY <1>3
<1> QED
  BY <1>2, <1>4, <1>5, IsASeq

\* What an event may do to the answer that is being assembled: nothing once the marker
\* was seen, and else text comes only with a delta.
Assembles(s, n) ==
    /\ n \in Streams
    /\ s.done => n.done /\ n.text = s.text /\ n.calls = s.calls /\ n.delta = <<>>
    /\ n.delta = <<>> => n.text = s.text
    /\ n.delta # <<>> => n.text # <<>>

LEMMA OnEventAssembles ==
    ASSUME NEW s \in Streams, s.delta = <<>>, NEW p \in Payloads
    PROVE  Assembles(s, OnEvent(s, p))
<1> DEFINE n == OnEvent(s, p)
<1>t. /\ s.text \in Seq(Bytes) /\ s.calls \in Seq(BOOLEAN) /\ s.done \in BOOLEAN
      /\ p.delta \in Seq(Bytes) /\ p.index \in Nat
      /\ p.kind \in {"done", "bad", "other", "text", "call"}
  BY DEF Streams, Payloads
<1>1. CASE s.done
  <2>1. n = s
    BY <1>1 DEF OnEvent
  <2> QED
    BY <2>1 DEF Assembles
<1>2. CASE ~s.done /\ p.kind = "done"
  <2>1. n = [s EXCEPT !.done = TRUE]
    BY <1>2 DEF OnEvent
  <2> QED
    BY <2>1, <1>2 DEF Assembles, Streams
<1>3. CASE ~s.done /\ p.kind = "bad"
  <2>1. n = [s EXCEPT !.threw = TRUE]
    BY <1>3 DEF OnEvent
  <2> QED
    BY <2>1, <1>3 DEF Assembles, Streams
<1>4. CASE ~s.done /\ p.kind = "text"
  <2>1. n = [s EXCEPT !.text = s.text \o p.delta, !.delta = p.delta]
    BY <1>4 DEF OnEvent, Streams
  <2>2. s.text \o p.delta \in Seq(Bytes)
    BY <1>t, ConcatProperties
  <2>3. p.delta = <<>> => s.text \o p.delta = s.text
    BY <1>t, ConcatEmptySeq
  <2>4. p.delta # <<>> => s.text \o p.delta # <<>>
    <3>1. Len(s.text \o p.delta) = Len(s.text) + Len(p.delta)
      BY <1>t, ConcatProperties
    <3>2. Len(s.text) \in Nat /\ Len(p.delta) \in Nat
      BY <1>t, LenProperties
    <3>3. p.delta # <<>> => Len(p.delta) # 0
      BY <1>t, EmptySeq
    <3>4. Len(<<>>) = 0
      OBVIOUS
    <3> QED
      BY <3>1, <3>2, <3>3, <3>4
  <2>5. /\ n \in Streams /\ n.text = s.text \o p.delta /\ n.delta = p.delta
    BY <2>1, <2>2, <1>t DEF Streams
  <2> QED
    BY <2>3, <2>4, <2>5, <1>4 DEF Assembles
<1>5. CASE ~s.done /\ p.kind = "call"
  <2>1. n = [s EXCEPT !.calls = Assembled(s.calls, p.index)]
    BY <1>5 DEF OnEvent, Streams
  <2>2. Assembled(s.calls, p.index) \in Seq(BOOLEAN)
    BY <1>t, AssembledTyped
  <2> QED
    BY <2>1, <2>2, <1>5 DEF Assembles, Streams
<1>6. CASE ~s.done /\ p.kind = "other"
  <2>1. n = s
    BY <1>6 DEF OnEvent
  <2> QED
    BY <2>1 DEF Assembles
<1> QED
  BY <1>1, <1>2, <1>3, <1>4, <1>5, <1>6, <1>t

LEMMA DispatchAssembles ==
    ASSUME NEW s \in Streams, s.delta = <<>>
    PROVE  Assembles(s, Dispatch(s))
<1>1. CASE s.data = <<>>
  BY <1>1 DEF Dispatch, Assembles
<1>2. CASE s.data # <<>>
  <2> DEFINE q == [s EXCEPT !.data = <<>>]
  <2>1. q \in Streams /\ q.delta = <<>> /\ q.done = s.done /\ q.text = s.text /\ q.calls = s.calls
    BY NoneSeq DEF Streams
  <2>2. s.data[1] \in Payloads
    <3>1. s.data \in Seq(Payloads)
      BY DEF Streams
    <3>2. Len(s.data) \in Nat /\ Len(s.data) # 0
      BY <3>1, <1>2, EmptySeq, LenProperties
    <3>3. 1 \in 1..Len(s.data)
      BY <3>2
    <3> QED
      BY <3>1, <3>3, ElementOfSeq
  <2>3. Dispatch(s) = OnEvent(q, s.data[1])
    BY <1>2 DEF Dispatch
  <2> HIDE DEF q
  <2>4. Assembles(q, OnEvent(q, s.data[1]))
    BY <2>1, <2>2, OnEventAssembles
  <2> QED
    BY <2>1, <2>3, <2>4 DEF Assembles
<1> QED
  BY <1>1, <1>2

LEMMA ProcessLineTyped ==
    ASSUME NEW s \in Streams, NEW p \in Payloads
    PROVE  /\ ProcessLine(s, p) \in Streams
           /\ ProcessLine(s, p).done = s.done /\ ProcessLine(s, p).text = s.text
           /\ ProcessLine(s, p).calls = s.calls /\ ProcessLine(s, p).delta = s.delta
<1>1. Bad \in Payloads
  BY NoneSeq DEF Bad, Payload, Payloads
<1>2. <<p>> \in Seq(Payloads) /\ <<Bad>> \in Seq(Payloads)
  BY <1>1
<1> DEFINE d == IF s.data = <<>> THEN <<p>> ELSE <<Joined(s.data[1], p)>>
<1>3. d \in Seq(Payloads)
  BY <1>2 DEF Joined
<1>4. ProcessLine(s, p) = [s EXCEPT !.data = d]
  BY DEF ProcessLine, Streams
<1> HIDE DEF d
<1> QED
  BY <1>3, <1>4 DEF Streams

\* A chunk of the body.
IsChunk(c) == c = [ends |-> c.ends, line |-> c.line] /\ c.ends \in BOOLEAN /\ c.line \in Seq(Payloads)

LEMMA FeedAssembles ==
    ASSUME NEW s \in Streams, NEW c, IsChunk(c)
    PROVE  Assembles(s, Feed(s, c))
<1> DEFINE quiet == [s EXCEPT !.delta = <<>>]
           line  == s.buffer \o c.line
<1>1. quiet \in Streams /\ quiet.delta = <<>> /\ quiet.done = s.done
      /\ quiet.text = s.text /\ quiet.calls = s.calls /\ quiet.buffer = s.buffer
  BY NoneSeq DEF Streams
<1>2. s.buffer \in Seq(Payloads) /\ c.line \in Seq(Payloads)
  BY DEF Streams, IsChunk
<1>3. line \in Seq(Payloads)
  BY <1>2, ConcatProperties
<1>4. CASE ~c.ends
  <2>1. Feed(s, c) = [quiet EXCEPT !.buffer = line]
    BY <1>4 DEF Feed
  <2> HIDE DEF quiet, line
  <2> QED
    BY <2>1, <1>1, <1>3 DEF Streams, Assembles
<1>5. CASE c.ends /\ line = <<>>
  <2>1. Feed(s, c) = Dispatch(quiet)
    BY <1>5 DEF Feed
  <2> HIDE DEF quiet, line
  <2>2. Assembles(quiet, Dispatch(quiet))
    BY <1>1, DispatchAssembles
  <2> QED
    BY <2>1, <2>2, <1>1 DEF Assembles
<1>6. CASE c.ends /\ line # <<>>
  <2> DEFINE q == [quiet EXCEPT !.buffer = <<>>]
  <2>1. Feed(s, c) = ProcessLine(q, line[1])
    BY <1>6 DEF Feed
  <2>2. q \in Streams /\ q.delta = <<>> /\ q.done = s.done /\ q.text = s.text /\ q.calls = s.calls
    BY <1>1, NoneSeq DEF Streams
  <2> HIDE DEF quiet, line, q
  <2>3. Len(line) \in Nat /\ Len(line) # 0
    BY <1>3, <1>6, EmptySeq, LenProperties
  <2>4. 1 \in 1..Len(line)
    BY <2>3
  <2>5. line[1] \in Payloads
    BY <1>3, <2>4, ElementOfSeq
  <2> QED
    BY <2>1, <2>2, <2>5, ProcessLineTyped DEF Assembles
<1> QED
  BY <1>4, <1>5, <1>6 DEF IsChunk

LEMMA FinishAssembles ==
    ASSUME NEW s \in Streams
    PROVE  Assembles(s, Finish(s))
<1> DEFINE quiet == [s EXCEPT !.delta = <<>>, !.buffer = <<>>]
           q     == IF s.buffer = <<>> THEN quiet ELSE ProcessLine(quiet, s.buffer[1])
<1>1. quiet \in Streams /\ quiet.delta = <<>> /\ quiet.done = s.done
      /\ quiet.text = s.text /\ quiet.calls = s.calls
  BY NoneSeq DEF Streams
<1>2. Finish(s) = Dispatch(q)
  BY DEF Finish
<1> HIDE DEF quiet
<1>3. /\ q \in Streams /\ q.delta = <<>> /\ q.done = s.done
      /\ q.text = s.text /\ q.calls = s.calls
  <2>1. CASE s.buffer = <<>>
    BY <2>1, <1>1
  <2>2. CASE s.buffer # <<>>
    <3>1. s.buffer \in Seq(Payloads)
      BY DEF Streams
    <3>2. Len(s.buffer) \in Nat /\ Len(s.buffer) # 0
      BY <3>1, <2>2, EmptySeq, LenProperties
    <3>3. 1 \in 1..Len(s.buffer)
      BY <3>2
    <3>4. s.buffer[1] \in Payloads
      BY <3>1, <3>3, ElementOfSeq
    <3> QED
      BY <2>2, <3>4, <1>1, ProcessLineTyped
  <2> QED
    BY <2>1, <2>2
<1> HIDE DEF q
<1>4. Assembles(q, Dispatch(q))
  BY <1>3, DispatchAssembles
<1> QED
  BY <1>2, <1>3, <1>4 DEF Assembles

\* What the server may send is a chunk.
LEMMA ChunksTyped ==
    ASSUME NEW c \in Chunks
    PROVE  IsChunk(c)
<1>1. ASSUME NEW p \in {Done, Other, Opening} \union Texts \union Calls
      PROVE  p \in Payloads
  <2>1. Done \in Payloads /\ Other \in Payloads /\ Opening \in Payloads
    BY DEF Done, Other, Opening, Payload, Payloads
  <2>2. ASSUME NEW d \in Deltas PROVE Payload("text", d, 0) \in Payloads
    BY SpeechAssumption DEF Payload, Payloads
  <2>3. \A x \in Texts : \E d \in Deltas : x = Payload("text", d, 0)
    BY DEF Texts
  <2>4. \A x \in Calls : \E i \in 0..(MaxCalls - 1) : x = Payload("call", <<>>, i)
    BY DEF Calls
  <2>5. ASSUME NEW i \in 0..(MaxCalls - 1) PROVE Payload("call", <<>>, i) \in Payloads
    BY AgentAssumption DEF Payload, Payloads
  <2> QED
    BY <2>1, <2>2, <2>3, <2>4, <2>5
<1>2. \/ c = Newline
      \/ \E p \in {Done, Other, Opening} \union Texts \union Calls : c = Line(p) \/ c = Part(p)
  BY DEF Chunks
<1>3. CASE c = Newline
  BY <1>3 DEF Newline, IsChunk
<1>4. CASE \E p \in {Done, Other, Opening} \union Texts \union Calls : c = Line(p) \/ c = Part(p)
  <2>1. PICK p \in {Done, Other, Opening} \union Texts \union Calls : c = Line(p) \/ c = Part(p)
    BY <1>4
  <2>2. <<p>> \in Seq(Payloads)
    BY <1>1
  <2>3. ASSUME NEW b \in BOOLEAN, c = [ends |-> b, line |-> <<p>>] PROVE IsChunk(c)
    <3>1. c.ends = b /\ c.line = <<p>>
      BY <2>3
    <3> QED
      BY <2>2, <2>3, <3>1 DEF IsChunk
  <2> QED
    BY <2>1, <2>3 DEF Line, Part
<1> QED
  BY <1>2, <1>3, <1>4

-----------------------------------------------------------------------------
(* The steps of the agent                                                  *)

AgentStep ==
    \/ BeginTurn \/ BeginStep \/ StepLimit \/ Throw
    \/ BeginAttempt \/ SendRequest \/ BackoffOver \/ Abort \/ TooLarge
    \/ \E code \in {"ok", "fatal", "transient"} : EndTransfer(code)
    \/ At("transfer") /\ \E chunk \in Chunks : ReceiveChunk(chunk)
    \/ \E more \in BOOLEAN : ConsumerReturns(more)
    \/ TakeAnswer \/ CallTool \/ EnterHandler \/ ToolReturns \/ ToolResult

AgentIdle == UNCHANGED <<history, agent, http, stream>> /\ (UNCHANGED <<token, excused>> \/ CancelTurn)

\* Every step is one of the agent's, or leaves its records alone.
LEMMA AgentSteps ==
    ASSUME [Next]_vars
    PROVE  AgentStep \/ AgentIdle
<1>1. CASE NotRun \/ Pushed \/ Rejected \/ Completing \/ AgentFailed \/ Flushed \/ FinishSpeech
           \/ SpeechJoined \/ CancelSpeech \/ DrainSpeech \/ (started /\ Synthesizer) \/ Interrupt
           \/ Over \/ UNCHANGED vars
  BY <1>1 DEF NotRun, Pushed, Rejected, Completing, AgentFailed, Flushed, FinishSpeech,
              SpeechJoined, CancelSpeech, DrainSpeech, Synthesizer, FrameSunk, Interrupt, Over,
              vars, agentVars, AgentIdle
<1>2. CASE Speak \/ CompleteTurn \/ FailTurn
  BY <1>2 DEF Speak, CompleteTurn, FailTurn, AgentIdle
<1>3. CASE Cancel
  BY <1>3 DEF Cancel, CancelTurn, AgentIdle
<1>4. CASE AgentRuns
  BY <1>4 DEF AgentRuns, AgentThread, Transport, AgentStep
<1>5. CASE DeltaSpoken \/ DeltaRefused
  BY <1>5 DEF DeltaSpoken, DeltaRefused, AgentStep
<1>6. CASE ServerSends
  BY <1>6 DEF ServerSends, Server, AgentStep
<1> QED
  BY <1>1, <1>2, <1>3, <1>4, <1>5, <1>6 DEF Next, Lane

\* Appending a message keeps the others.
LEMMA Appended ==
    ASSUME history \in Seq(Messages), NEW m \in Messages, history' = Append(history, m)
    PROVE  /\ history' \in Seq(Messages)
           /\ Len(history) \in Nat /\ Len(history') = Len(history) + 1
           /\ history'[Len(history) + 1] = m
           /\ \A k \in 1..Len(history) : history'[k] = history[k]
BY AppendProperties, LenProperties

\* An answered call stays answered.
LEMMA AnsweredStays ==
    ASSUME history \in Seq(Messages), NEW m \in Messages, history' = Append(history, m),
           NEW k \in 1..Len(history), Answered(k)
    PROVE  Answered(k)'
<1>1. /\ Len(history) \in Nat /\ Len(history') = Len(history) + 1
      /\ \A j \in 1..Len(history) : history'[j] = history[j]
  BY Appended
<1>2. history'[k] = history[k]
  BY <1>1
<1>3. ASSUME history[k].role = "assistant", NEW i \in 1..Len(history[k].calls)
      PROVE  k + i <= Len(history') /\ history'[k + i].role = "tool"
  <2>1. k + i <= Len(history) /\ history[k + i].role = "tool"
    BY <1>3 DEF Answered
  <2>2. history[k] \in Messages
    BY ElementOfSeq
  <2>3. Len(history[k].calls) \in Nat
    BY <2>2, LenProperties DEF Messages
  <2>4. k + i \in 1..Len(history)
    BY <2>1, <2>3, <1>1
  <2> QED
    BY <1>1, <2>1, <2>4
<1> QED
  BY <1>2, <1>3 DEF Answered

\* The messages of earlier turns stay.
LEMMA KeptStays ==
    ASSUME history \in Seq(Messages), Kept, NEW m \in Messages, history' = Append(history, m),
           ~At("failed")'
    PROVE  Kept'
<1>1. /\ Len(history) \in Nat /\ Len(history') = Len(history) + 1
      /\ \A j \in 1..Len(history) : history'[j] = history[j]
  BY Appended
<1>2. 1 \in 1..Len(history) /\ 2 \in 1..Len(history)
  BY <1>1 DEF Kept
<1> QED
  BY <1>1, <1>2 DEF Kept

\* A message without calls, behind messages that are answered.
LEMMA MatchedGrows ==
    ASSUME history \in Seq(Messages), NEW m \in Messages, history' = Append(history, m),
           \A k \in 1..Len(history) : Answered(k),
           m.role # "assistant" \/ m.calls = <<>>, ~InTools'
    PROVE  Matched'
<1>1. /\ Len(history) \in Nat /\ Len(history') = Len(history) + 1
      /\ history'[Len(history) + 1] = m
  BY Appended
<1>2. ASSUME NEW k \in 1..Len(history') PROVE Answered(k)'
  <2>1. CASE k \in 1..Len(history)
    BY <2>1, AnsweredStays
  <2>2. CASE k = Len(history) + 1
    <3>1. m.calls = <<>> => Len(m.calls) = 0
      OBVIOUS
    <3> QED
      BY <2>2, <1>1, <3>1 DEF Answered
  <2> QED
    BY <2>1, <2>2, <1>1
<1> QED
  BY <1>2 DEF Matched

\* An exception keeps the history for the catch.
LEMMA UnwindInv ==
    ASSUME AgentInv, Unwind, UNCHANGED <<history, token>>
    PROVE  AgentInv'
<1>1. /\ agent' = [at |-> "throw", step |-> 0, call |-> 0]
      /\ http' = NoRequest /\ stream' = EmptyStream
  BY DEF Unwind
<1>2. agent'.at = "throw"
  BY <1>1
<1>3. AgentTypes'
  BY <1>1, EmptyTyped DEF AgentInv, AgentTypes, Places
<1>4. Fresh'
  BY <1>2 DEF Fresh, At
<1>5. Kept'
  BY <1>2 DEF Kept, AgentInv, At
<1>6. Matched'
  BY <1>2 DEF Matched, InTools, At
<1> QED
  BY <1>3, <1>4, <1>5, <1>6 DEF AgentInv

\* A step outside the tools that keeps the history and goes on outside them.
LEMMA QuietInv ==
    ASSUME AgentInv, AgentTypes', Fresh', history' = history,
           ~InTools, ~At("throw"), ~InTools', ~At("failed")'
    PROVE  AgentInv'
<1>1. Kept'
  BY DEF AgentInv, Kept
<1>2. Matched'
  BY DEF AgentInv, Matched, Answered
<1> QED
  BY <1>1, <1>2 DEF AgentInv

LEMMA IdleInv ==
    ASSUME AgentInv, AgentIdle
    PROVE  AgentInv'
<1>1. history' = history /\ agent' = agent /\ http' = http /\ stream' = stream /\ token' \in BOOLEAN
  BY DEF AgentIdle, CancelTurn, AgentInv, AgentTypes
<1>2. AgentTypes' /\ Fresh' /\ Kept'
  BY <1>1 DEF AgentInv, AgentTypes, Fresh, Kept, At
<1>3. Matched'
  BY <1>1 DEF AgentInv, Matched, InTools, At, Asked, Answered
<1> QED
  BY <1>2, <1>3 DEF AgentInv

\* The place the agent is at, and what a step writes.
LEMMA GoTyped ==
    ASSUME AgentTypes, NEW place \in Places, Go(place)
    PROVE  /\ agent' \in [at : Places, step : Nat, call : Nat] /\ agent'.at = place
           /\ agent'.step = agent.step /\ agent'.call = agent.call
BY DEF AgentTypes, Go

LEMMA BeginTurnInv ==
    ASSUME AgentInv, BeginTurn
    PROVE  AgentInv'
<1>1. CASE token /\ Unwind /\ UNCHANGED history
  BY <1>1, UnwindInv DEF BeginTurn
<1>2. CASE ~token /\ Go("step") /\ history' = Append(history, User) /\ UNCHANGED <<http, stream>>
  <2>1. agent' \in [at : Places, step : Nat, call : Nat] /\ agent'.at = "step"
    BY <1>2, GoTyped DEF AgentInv, Places
  <2>2. history' \in Seq(Messages)
    BY <1>2, Appended, EmptyTyped DEF AgentInv, AgentTypes
  <2>3. AgentTypes' /\ Fresh'
    BY <1>2, <2>1, <2>2 DEF BeginTurn, AgentInv, AgentTypes, Fresh, At
  <2>4. ~At("failed")' /\ ~InTools'
    BY <2>1 DEF At, InTools
  <2>5. Kept'
    BY <1>2, <2>4, KeptStays, EmptyTyped DEF AgentInv, AgentTypes
  <2>6. \A k \in 1..Len(history) : Answered(k)
    BY DEF BeginTurn, At, AgentInv, Matched, InTools
  <2>7. User.role # "assistant"
    BY DEF User
  <2>8. Matched'
    BY <1>2, <2>4, <2>6, <2>7, MatchedGrows, EmptyTyped DEF AgentInv, AgentTypes
  <2> QED
    BY <2>3, <2>5, <2>8 DEF AgentInv
<1> QED
  BY <1>1, <1>2 DEF BeginTurn

LEMMA BeginStepInv ==
    ASSUME AgentInv, BeginStep
    PROVE  AgentInv'
<1>1. CASE token /\ Unwind /\ UNCHANGED observer
  BY <1>1, UnwindInv DEF BeginStep
<1>2. CASE /\ http' = [NoRequest EXCEPT !.attempt = 1]
           /\ stream' = EmptyStream
           /\ Go("attempt")
  <2>1. agent' \in [at : Places, step : Nat, call : Nat] /\ agent'.at = "attempt"
    BY <1>2, GoTyped DEF AgentInv, Places
  <2>2. http' \in [attempt : Nat, received : BOOLEAN, status : Nat] /\ ~http'.received
    BY <1>2 DEF NoRequest
  <2>3. AgentTypes'
    BY <1>2, <2>1, <2>2, EmptyTyped DEF BeginStep, AgentInv, AgentTypes
  <2>4. Fresh'
    BY <1>2, <2>1, <2>2 DEF Fresh, At
  <2>5. history' = history /\ ~InTools /\ ~At("throw") /\ ~InTools' /\ ~At("failed")'
    BY <2>1 DEF BeginStep, InTools, At
  <2> QED
    BY <2>3, <2>4, <2>5, QuietInv
<1> QED
  BY <1>1, <1>2 DEF BeginStep

LEMMA StepLimitInv ==
    ASSUME AgentInv, StepLimit
    PROVE  AgentInv'
<1> DEFINE m == Assistant(<<>>, <<>>)
<1>0. m \in Messages /\ m.calls = <<>>
  BY EmptyTyped DEF Assistant
<1>1. history' = Append(history, m) /\ Go("limit") /\ At("step") /\ UNCHANGED <<token, http, stream>>
  BY DEF StepLimit
<1> HIDE DEF m
<1>2. agent' \in [at : Places, step : Nat, call : Nat] /\ agent'.at = "limit"
  BY <1>1, GoTyped DEF AgentInv, Places
<1>3. history' \in Seq(Messages)
  BY <1>0, <1>1, Appended DEF AgentInv, AgentTypes
<1>4. AgentTypes' /\ Fresh'
  BY <1>1, <1>2, <1>3 DEF AgentInv, AgentTypes, Fresh, At
<1>5. ~At("failed")' /\ ~InTools'
  BY <1>2 DEF At, InTools
<1>6. Kept'
  BY <1>0, <1>1, <1>5, KeptStays DEF AgentInv, AgentTypes
<1>7. \A k \in 1..Len(history) : Answered(k)
  BY <1>1 DEF At, AgentInv, Matched, InTools
<1>8. Matched'
  BY <1>0, <1>1, <1>5, <1>7, MatchedGrows DEF AgentInv, AgentTypes
<1> QED
  BY <1>4, <1>6, <1>8 DEF AgentInv

\* The history before the turn has no call without a result.
LEMMA RolledBackIsPast ==
    ASSUME AgentTypes, Kept
    PROVE  RolledBack = Past
<1>0. history \in Seq(Messages) /\ Len(history) \in Nat /\ Len(history) >= 2
  BY LenProperties DEF AgentTypes, Kept
<1>1. Checkpoint = 2
  BY DEF Checkpoint, Past
<1>2. SubSeq(history, 1, 2) = [i \in 1..2 |-> history[i]]
  BY <1>0, SubSeqProperties
<1>3. Past = [i \in 1..2 |-> Past[i]] /\ Past[1] = User /\ Past[2] = Assistant(<<>>, <<>>)
  BY DEF Past
<1>4. \A i \in 1..2 : history[i] = Past[i]
  BY <1>3 DEF Kept
<1> QED
  BY <1>1, <1>2, <1>3, <1>4 DEF RolledBack

LEMMA PastAnswered ==
    /\ Past \in Seq(Messages) /\ Len(Past) = 2
    /\ Past[1] = User /\ Past[2] = Assistant(<<>>, <<>>)
    /\ User.role = "user"
    /\ Assistant(<<>>, <<>>).calls = <<>>
BY EmptyTyped DEF Past, User, Assistant

LEMMA ThrowInv ==
    ASSUME AgentInv, Throw
    PROVE  AgentInv'
<1>1. history' = Past
  BY RolledBackIsPast DEF Throw, AgentInv
<1>2. agent' \in [at : Places, step : Nat, call : Nat] /\ agent'.at = "failed"
  BY GoTyped DEF Throw, AgentInv, Places
<1>3. AgentTypes' /\ Fresh'
  BY <1>1, <1>2, PastAnswered DEF Throw, AgentInv, AgentTypes, Fresh, At
<1>4. Kept'
  BY <1>1, PastAnswered DEF Kept
<1>5. ASSUME NEW k \in 1..Len(history') PROVE Answered(k)'
  <2>1. k = 1 \/ k = 2
    BY <1>1, <1>5, PastAnswered
  <2>2. CASE k = 1
    BY <2>2, <1>1, PastAnswered DEF Answered
  <2>3. CASE k = 2
    <3>1. Len(history'[2].calls) = 0
      BY <1>1, PastAnswered
    <3> QED
      BY <2>3, <3>1 DEF Answered
  <2> QED
    BY <2>1, <2>2, <2>3
<1>6. Matched'
  BY <1>2, <1>5 DEF Matched, InTools
<1> QED
  BY <1>3, <1>4, <1>6 DEF AgentInv

LEMMA BeginAttemptInv ==
    ASSUME AgentInv, BeginAttempt
    PROVE  AgentInv'
<1>1. CASE Unwind
  BY <1>1, UnwindInv DEF BeginAttempt
<1>2. CASE Go("sending") /\ UNCHANGED <<http, stream>>
  <2>0. At("attempt") /\ history' = history /\ token' = token
    BY DEF BeginAttempt
  <2>1. agent' \in [at : Places, step : Nat, call : Nat] /\ agent'.at = "sending"
    BY <1>2, GoTyped DEF AgentInv, Places
  <2>2. AgentTypes'
    BY <1>2, <2>0, <2>1 DEF AgentInv, AgentTypes
  <2>3. Fresh'
    BY <1>2, <2>0, <2>1 DEF AgentInv, Fresh, At
  <2>4. ~InTools /\ ~At("throw") /\ ~InTools' /\ ~At("failed")'
    BY <2>0, <2>1 DEF InTools, At
  <2> QED
    BY <2>0, <2>2, <2>3, <2>4, QuietInv
<1> QED
  BY <1>1, <1>2 DEF BeginAttempt

LEMMA SendRequestInv ==
    ASSUME AgentInv, SendRequest
    PROVE  AgentInv'
<1>0. /\ At("sending") /\ Go("transfer") /\ UNCHANGED <<history, token, stream>>
      /\ \E status \in Statuses : http' = [http EXCEPT !.received = FALSE, !.status = status]
  BY DEF SendRequest
<1>1. agent' \in [at : Places, step : Nat, call : Nat] /\ agent'.at = "transfer"
  BY <1>0, GoTyped DEF AgentInv, Places
<1>2. http' \in [attempt : Nat, received : BOOLEAN, status : Nat]
  <2>1. PICK status \in Statuses : http' = [http EXCEPT !.received = FALSE, !.status = status]
    BY <1>0
  <2>2. status \in Nat
    BY DEF Statuses
  <2> QED
    BY <2>1, <2>2 DEF AgentInv, AgentTypes
<1>3. AgentTypes'
  BY <1>0, <1>1, <1>2 DEF AgentInv, AgentTypes
<1>4. stream' = EmptyStream
  BY <1>0 DEF AgentInv, Fresh, At
<1>5. Fresh'
  BY <1>1, <1>4 DEF Fresh, At
<1>6. ~InTools /\ ~At("throw") /\ ~InTools' /\ ~At("failed")'
  BY <1>0, <1>1 DEF InTools, At
<1> QED
  BY <1>0, <1>3, <1>5, <1>6, QuietInv

LEMMA BackoffOverInv ==
    ASSUME AgentInv, BackoffOver
    PROVE  AgentInv'
<1>0. /\ At("backoff") /\ history' = history /\ token' = token /\ stream' = stream /\ Go("attempt")
      /\ http' = [NoRequest EXCEPT !.attempt = http.attempt + 1]
  BY DEF BackoffOver, NextAttempt
<1>1. agent' \in [at : Places, step : Nat, call : Nat] /\ agent'.at = "attempt"
  BY <1>0, GoTyped DEF AgentInv, Places
<1>2. http.attempt + 1 \in Nat
  BY DEF AgentInv, AgentTypes
<1>3. http' \in [attempt : Nat, received : BOOLEAN, status : Nat] /\ ~http'.received
  BY <1>0, <1>2 DEF NoRequest
<1>4. AgentTypes'
  BY <1>0, <1>1, <1>3 DEF AgentInv, AgentTypes
<1>5. Fresh'
  BY <1>0, <1>1, <1>3 DEF AgentInv, Fresh, At
<1>6. ~InTools /\ ~At("throw") /\ ~InTools' /\ ~At("failed")'
  BY <1>0, <1>1 DEF InTools, At
<1> QED
  BY <1>0, <1>4, <1>5, <1>6, QuietInv

LEMMA DeliverInv ==
    ASSUME AgentInv, At("transfer"), NEW n, Assembles(stream, n),
           NEW consumer, NEW otherwise,
           <<consumer, otherwise>> \in {<<"consumer", "transfer">>, <<"last", "answer">>},
           Deliver(n, consumer, otherwise), UNCHANGED <<history, token>>
    PROVE  AgentInv'
<1>1. CASE n.threw \/ (n.delta # <<>> /\ token)
  BY <1>1, UnwindInv DEF Deliver
<1>2. CASE ~(n.threw \/ (n.delta # <<>> /\ token))
  <2> DEFINE place == IF n.delta # <<>> THEN consumer ELSE otherwise
  <2>1. /\ stream' = n /\ Go(place)
        /\ http' = IF otherwise = "answer" THEN NoRequest ELSE [http EXCEPT !.received = TRUE]
    BY <1>2 DEF Deliver
  <2>2. \/ place \in {"consumer", "transfer"} /\ otherwise = "transfer"
        \/ place \in {"last", "answer"} /\ otherwise = "answer"
    OBVIOUS
  <2> HIDE DEF place
  <2>3. place \in Places
    BY <2>2 DEF Places
  <2>4. agent' \in [at : Places, step : Nat, call : Nat] /\ agent'.at = place
    BY <2>1, <2>3, GoTyped DEF AgentInv
  <2>5. /\ http' \in [attempt : Nat, received : BOOLEAN, status : Nat]
        /\ otherwise = "transfer" => http'.received
    BY <2>1, <2>2, EmptyTyped DEF AgentInv, AgentTypes
  <2>6. AgentTypes'
    BY <2>1, <2>4, <2>5 DEF AgentInv, AgentTypes, Assembles
  <2>7. Fresh'
    BY <2>2, <2>4, <2>5 DEF Fresh, At
  <2>8. ~InTools /\ ~At("throw") /\ ~InTools' /\ ~At("failed")'
    BY <2>2, <2>4 DEF InTools, At
  <2> QED
    BY <2>6, <2>7, <2>8, QuietInv
<1> QED
  BY <1>1, <1>2

LEMMA ReceiveChunkInv ==
    ASSUME AgentInv, NEW chunk \in Chunks, ReceiveChunk(chunk)
    PROVE  AgentInv'
<1>1. Assembles(stream, Feed(stream, chunk))
  BY ChunksTyped, FeedAssembles DEF AgentInv, AgentTypes
<1>2. At("transfer") /\ Deliver(Feed(stream, chunk), "consumer", "transfer") /\ UNCHANGED <<history, token>>
  BY DEF ReceiveChunk
<1> QED
  BY <1>1, <1>2, DeliverInv

LEMMA EndTransferInv ==
    ASSUME AgentInv, NEW code, EndTransfer(code)
    PROVE  AgentInv'
<1>0. At("transfer") /\ UNCHANGED <<history, token>>
  BY DEF EndTransfer
<1>1. CASE Retries(code) /\ Go("backoff") /\ UNCHANGED <<http, stream, observer>>
  <2>1. agent' \in [at : Places, step : Nat, call : Nat] /\ agent'.at = "backoff"
    BY <1>1, GoTyped DEF AgentInv, Places
  <2>2. ~http.received
    BY <1>1 DEF Retries
  <2>3. AgentTypes'
    BY <1>0, <1>1, <2>1 DEF AgentInv, AgentTypes
  <2>4. Fresh'
    BY <1>0, <1>1, <2>1, <2>2 DEF AgentInv, Fresh, At
  <2>5. ~InTools /\ ~At("throw") /\ ~InTools' /\ ~At("failed")'
    BY <1>0, <2>1 DEF InTools, At
  <2> QED
    BY <1>0, <2>3, <2>4, <2>5, QuietInv
<1>2. CASE Unwind
  BY <1>0, <1>2, UnwindInv
<1>3. CASE Deliver(Finish(stream), "last", "answer")
  <2>1. Assembles(stream, Finish(stream))
    BY FinishAssembles DEF AgentInv, AgentTypes
  <2> QED
    BY <1>0, <1>3, <2>1, DeliverInv
<1> QED
  BY <1>1, <1>2, <1>3 DEF EndTransfer

LEMMA ConsumerReturnsInv ==
    ASSUME AgentInv, NEW more \in BOOLEAN, ConsumerReturns(more)
    PROVE  AgentInv'
<1>0. (At("consumer") \/ At("last")) /\ UNCHANGED <<history, token>>
  BY DEF ConsumerReturns
<1>1. CASE Unwind
  BY <1>0, <1>1, UnwindInv
<1>2. CASE /\ Go(IF At("last") THEN "answer" ELSE "transfer")
           /\ stream' = [stream EXCEPT !.delta = <<>>] /\ UNCHANGED http
  <2>1. /\ agent' \in [at : Places, step : Nat, call : Nat]
        /\ agent'.at = IF At("last") THEN "answer" ELSE "transfer"
    BY <1>2, GoTyped DEF AgentInv, Places
  <2>2. stream' \in Streams
    BY <1>2, NoneSeq DEF AgentInv, AgentTypes, Streams
  <2>3. AgentTypes'
    BY <1>0, <1>2, <2>1, <2>2 DEF AgentInv, AgentTypes
  <2>4. Fresh'
    BY <1>0, <1>2, <2>1 DEF AgentInv, Fresh, At
  <2>5. ~InTools /\ ~At("throw") /\ ~InTools' /\ ~At("failed")'
    BY <1>0, <2>1 DEF InTools, At
  <2> QED
    BY <1>0, <2>3, <2>4, <2>5, QuietInv
<1> QED
  BY <1>1, <1>2 DEF ConsumerReturns

LEMMA TakeAnswerInv ==
    ASSUME AgentInv, TakeAnswer
    PROVE  AgentInv'
<1>0. At("answer") /\ token' = token
  BY DEF TakeAnswer
<1>1. CASE Unwind /\ UNCHANGED <<history, observer>>
  BY <1>0, <1>1, UnwindInv
<1>2. CASE /\ history' = Append(history, Assistant(stream.text, stream.calls))
           /\ \/ stream.calls = <<>> /\ Go("returned")
              \/ stream.calls # <<>> /\ agent' = [agent EXCEPT !.at = "tool", !.call = 1]
           /\ stream' = [EmptyStream EXCEPT !.calls = stream.calls]
           /\ UNCHANGED http
  <2> DEFINE m == Assistant(stream.text, stream.calls)
  <2>t. stream \in Streams /\ stream.calls \in Seq(BOOLEAN) /\ history \in Seq(Messages)
    BY DEF AgentInv, AgentTypes, Streams
  <2>m. m \in Messages /\ m.role = "assistant" /\ m.calls = stream.calls
    BY <2>t DEF Assistant, Messages, Streams
  <2>s. stream' \in Streams /\ stream'.calls = stream.calls
    BY <1>2, <2>t, EmptyTyped DEF EmptyStream, Streams
  <2>h. history' = Append(history, m)
    BY <1>2
  <2>a. \A k \in 1..Len(history) : Answered(k)
    BY <1>0 DEF At, AgentInv, Matched, InTools
  <2> HIDE DEF m
  <2>p. /\ history' \in Seq(Messages) /\ Len(history) \in Nat /\ Len(history') = Len(history) + 1
        /\ history'[Len(history) + 1] = m
    BY <2>t, <2>m, <2>h, Appended
  <2>1. CASE stream.calls = <<>> /\ Go("returned")
    <3>1. agent' \in [at : Places, step : Nat, call : Nat] /\ agent'.at = "returned"
      BY <2>1, GoTyped DEF AgentInv, Places
    <3>2. AgentTypes' /\ Fresh'
      BY <1>0, <1>2, <2>s, <2>p, <3>1 DEF AgentInv, AgentTypes, Fresh, At
    <3>3. ~At("failed")' /\ ~InTools'
      BY <3>1 DEF At, InTools
    <3>4. Kept'
      BY <2>t, <2>m, <2>h, <3>3, KeptStays DEF AgentInv
    <3>5. Matched'
      BY <2>t, <2>m, <2>h, <2>a, <2>1, <3>3, MatchedGrows
    <3> QED
      BY <3>2, <3>4, <3>5 DEF AgentInv
  <2>2. CASE stream.calls # <<>> /\ agent' = [agent EXCEPT !.at = "tool", !.call = 1]
    <3>1. /\ agent' \in [at : Places, step : Nat, call : Nat] /\ agent'.at = "tool"
          /\ agent'.call = 1
      BY <2>2 DEF AgentInv, AgentTypes, Places
    <3>2. AgentTypes' /\ Fresh'
      BY <1>0, <1>2, <2>s, <2>p, <3>1 DEF AgentInv, AgentTypes, Fresh, At
    <3>3. ~At("failed")'
      BY <3>1 DEF At
    <3>4. Kept'
      BY <2>t, <2>m, <2>h, <3>3, KeptStays DEF AgentInv
    <3>5. Len(stream.calls) \in Nat /\ Len(stream.calls) # 0
      BY <2>t, <2>2, EmptySeq, LenProperties
    <3>6. Asked' = Len(history) + 1
      BY <2>p, <3>1 DEF Asked
    <3>7. InTools' /\ ~At("throw")'
      BY <3>1 DEF InTools, At
    <3>8. ASSUME NEW k \in 1..Len(history) PROVE Answered(k)'
      BY <2>t, <2>m, <2>h, <2>a, AnsweredStays
    <3>9. Matched'
      <4>1. agent'.call \in 1..Len(stream'.calls) /\ agent'.call <= Len(history')
        BY <3>1, <2>s, <3>5, <2>p
      <4>2. history'[Asked'].role = "assistant" /\ history'[Asked'].calls = stream'.calls
        BY <3>6, <2>p, <2>m, <2>s
      <4>3. \A k \in 1..(Asked' - 1) : Answered(k)'
        BY <3>6, <3>8, <2>p
      <4>4. \A k \in (Asked' + 1)..Len(history') : history'[k].role = "tool"
        BY <3>6, <2>p
      <4> QED
        BY <3>7, <4>1, <4>2, <4>3, <4>4 DEF Matched
    <3> QED
      BY <3>2, <3>4, <3>9 DEF AgentInv
  <2> QED
    BY <1>2, <2>1, <2>2
<1> QED
  BY <1>1, <1>2 DEF TakeAnswer

\* Among the tools, with the history and the calls as they are.
LEMMA InToolsInv ==
    ASSUME AgentInv, InTools, NEW place \in {"invoking", "handler", "result"}, Go(place),
           UNCHANGED <<history, token, http, stream>>
    PROVE  AgentInv'
<1>1. /\ agent' \in [at : Places, step : Nat, call : Nat] /\ agent'.at = place
      /\ agent'.call = agent.call
  BY GoTyped DEF AgentInv, Places
<1>2. AgentTypes' /\ Fresh' /\ Kept'
  BY <1>1 DEF AgentInv, AgentTypes, Fresh, Kept, At
<1>3. Matched'
  BY <1>1 DEF AgentInv, Matched, InTools, At, Asked, Answered
<1> QED
  BY <1>2, <1>3 DEF AgentInv

LEMMA CallToolInv ==
    ASSUME AgentInv, CallTool
    PROVE  AgentInv'
<1>0. At("tool") /\ InTools /\ UNCHANGED <<history, token>>
  BY DEF CallTool, InTools, At
<1>1. CASE Unwind
  BY <1>0, <1>1, UnwindInv
<1>2. CASE Go("invoking") /\ UNCHANGED <<http, stream>>
  BY <1>0, <1>2, InToolsInv
<1>3. CASE Go("result") /\ UNCHANGED <<http, stream>>
  BY <1>0, <1>3, InToolsInv
<1> QED
  BY <1>1, <1>2, <1>3 DEF CallTool

LEMMA EnterHandlerInv ==
    ASSUME AgentInv, EnterHandler
    PROVE  AgentInv'
<1>1. InTools /\ Go("handler") /\ UNCHANGED <<history, token, http, stream>>
  BY DEF EnterHandler, InTools, At
<1> QED
  BY <1>1, InToolsInv

LEMMA ToolReturnsInv ==
    ASSUME AgentInv, ToolReturns
    PROVE  AgentInv'
<1>0. At("handler") /\ InTools /\ UNCHANGED <<history, token>>
  BY DEF ToolReturns, InTools, At
<1>1. CASE Unwind
  BY <1>0, <1>1, UnwindInv
<1>2. CASE Go("result") /\ UNCHANGED <<http, stream>>
  BY <1>0, <1>2, InToolsInv
<1> QED
  BY <1>1, <1>2 DEF ToolReturns

LEMMA ToolResultInv ==
    ASSUME AgentInv, ToolResult
    PROVE  AgentInv'
<1>0. At("result") /\ InTools /\ history' = Append(history, Tool) /\ UNCHANGED <<token, http>>
  BY DEF ToolResult, InTools, At
<1>t. history \in Seq(Messages) /\ Tool \in Messages /\ Tool.role = "tool" /\ agent.call \in Nat
  BY EmptyTyped DEF AgentInv, AgentTypes, Tool
<1>p. /\ history' \in Seq(Messages) /\ Len(history) \in Nat /\ Len(history') = Len(history) + 1
      /\ history'[Len(history) + 1] = Tool
      /\ \A k \in 1..Len(history) : history'[k] = history[k]
  BY <1>0, <1>t, Appended
<1>m. /\ agent.call \in 1..Len(stream.calls) /\ agent.call <= Len(history)
      /\ history[Asked].role = "assistant" /\ history[Asked].calls = stream.calls
      /\ \A k \in 1..(Asked - 1) : Answered(k)
      /\ \A k \in (Asked + 1)..Len(history) : history[k].role = "tool"
  BY <1>0 DEF AgentInv, Matched
<1>q. Asked \in 1..Len(history) /\ Asked = Len(history) + 1 - agent.call
  BY <1>m, <1>p, <1>t DEF Asked
<1>c. Len(stream.calls) \in Nat
  BY LenProperties DEF AgentInv, AgentTypes, Streams
<1>a. ASSUME NEW k \in 1..(Asked - 1) PROVE Answered(k)'
  <2>1. k \in 1..Len(history) /\ Answered(k)
    BY <1>m, <1>q, <1>p
  <2> QED
    BY <2>1, <1>0, <1>t, AnsweredStays
<1>r. ASSUME NEW k \in (Asked + 1)..Len(history') PROVE history'[k].role = "tool"
  <2>1. CASE k = Len(history) + 1
    BY <2>1, <1>p, <1>t
  <2>2. CASE k \in (Asked + 1)..Len(history)
    <3>1. k \in 1..Len(history)
      BY <2>2, <1>q, <1>p
    <3>2. history[k].role = "tool"
      BY <2>2, <1>m
    <3> QED
      BY <3>1, <3>2, <1>p
  <2> QED
    BY <2>1, <2>2, <1>p, <1>q
<1>1. CASE agent.call < Len(stream.calls)
  <2>1. agent' = [agent EXCEPT !.at = "tool", !.call = @ + 1] /\ stream' = stream
    BY <1>1 DEF ToolResult
  <2>2. /\ agent' \in [at : Places, step : Nat, call : Nat] /\ agent'.at = "tool"
        /\ agent'.call = agent.call + 1
    <3>1. agent.call + 1 \in Nat /\ "tool" \in Places
      BY <1>t DEF Places
    <3>2. agent \in [at : Places, step : Nat, call : Nat]
      BY DEF AgentInv, AgentTypes
    <3> QED
      BY <2>1, <3>1, <3>2
  <2>3. AgentTypes' /\ Fresh'
    BY <1>0, <1>p, <2>1, <2>2 DEF AgentInv, AgentTypes, Fresh, At
  <2>4. Kept'
    BY <1>0, <1>t, <2>2, KeptStays DEF AgentInv, At
  <2>5. Asked' = Asked
    BY <1>p, <2>2, <1>t DEF Asked
  <2>6. Matched'
    <3>1. agent'.call \in 1..Len(stream'.calls) /\ agent'.call <= Len(history')
      BY <1>1, <1>c, <1>t, <1>m, <1>p, <2>1, <2>2
    <3>2. history'[Asked'].role = "assistant" /\ history'[Asked'].calls = stream'.calls
      BY <1>m, <1>p, <1>q, <2>1, <2>5
    <3>3. \A k \in 1..(Asked' - 1) : Answered(k)'
      BY <2>5, <1>a
    <3>4. \A k \in (Asked' + 1)..Len(history') : history'[k].role = "tool"
      BY <2>5, <1>r
    <3>5. InTools' /\ ~At("throw")'
      BY <2>2 DEF InTools, At
    <3> QED
      BY <3>1, <3>2, <3>3, <3>4, <3>5 DEF Matched
  <2> QED
    BY <2>3, <2>4, <2>6 DEF AgentInv
<1>2. CASE ~(agent.call < Len(stream.calls))
  <2>1. agent' = [at |-> "step", step |-> agent.step + 1, call |-> 0] /\ stream' = EmptyStream
    BY <1>2 DEF ToolResult
  <2>2. agent.step + 1 \in Nat
    BY DEF AgentInv, AgentTypes
  <2>3. agent' \in [at : Places, step : Nat, call : Nat] /\ agent'.at = "step"
    BY <2>1, <2>2 DEF Places
  <2>4. AgentTypes' /\ Fresh'
    BY <1>0, <1>p, <2>1, <2>3, EmptyTyped DEF AgentInv, AgentTypes, Fresh, At
  <2>5. Kept'
    BY <1>0, <1>t, <2>3, KeptStays DEF AgentInv, At
  <2>6. agent.call = Len(stream.calls)
    BY <1>2, <1>m, <1>c, <1>t
  <2>7. ASSUME NEW k \in 1..Len(history') PROVE Answered(k)'
    <3>1. CASE k < Asked
      <4>1. k \in 1..(Asked - 1)
        BY <3>1, <1>q
      <4> QED
        BY <4>1, <1>a
    <3>2. CASE k > Asked
      <4>1. k \in (Asked + 1)..Len(history')
        BY <3>2, <1>q
      <4> QED
        BY <4>1, <1>r DEF Answered
    <3>3. CASE k = Asked
      <4>1. history'[k].calls = stream.calls
        BY <3>3, <1>m, <1>p, <1>q
      <4>2. ASSUME NEW i \in 1..Len(stream.calls)
            PROVE  k + i <= Len(history') /\ history'[k + i].role = "tool"
        <5>1. k + i \in (Asked + 1)..Len(history')
          BY <3>3, <2>6, <1>q, <1>p, <1>c
        <5> QED
          BY <5>1, <1>r
      <4> QED
        BY <4>1, <4>2 DEF Answered
    <3> QED
      BY <3>1, <3>2, <3>3, <1>q, <1>p
  <2>8. Matched'
    BY <2>3, <2>7 DEF Matched, InTools
  <2> QED
    BY <2>4, <2>5, <2>8 DEF AgentInv
<1> QED
  BY <1>1, <1>2

LEMMA AgentInit_Inv ==
    ASSUME AgentInit
    PROVE  AgentInv
<1>1. AgentTypes
  BY EmptyTyped, PastAnswered DEF AgentInit, AgentTypes, Places
<1>2. Fresh
  BY DEF AgentInit, Fresh, At
<1>3. Kept
  BY PastAnswered DEF AgentInit, Kept
<1>4. ASSUME NEW k \in 1..Len(history) PROVE Answered(k)
  <2>1. k = 1 \/ k = 2
    BY <1>4, PastAnswered DEF AgentInit
  <2>2. CASE k = 1
    BY <2>2, PastAnswered DEF Answered, AgentInit
  <2>3. CASE k = 2
    <3>1. Len(history[2].calls) = 0
      BY PastAnswered DEF AgentInit
    <3> QED
      BY <2>3, <3>1 DEF Answered
  <2> QED
    BY <2>1, <2>2, <2>3
<1>5. Matched
  BY <1>4 DEF AgentInit, Matched, InTools
<1> QED
  BY <1>1, <1>2, <1>3, <1>5 DEF AgentInv

LEMMA AgentStepInv ==
    ASSUME AgentInv, [Next]_vars
    PROVE  AgentInv'
<1>1. CASE AgentIdle
  BY <1>1, IdleInv
<1>2. CASE Abort \/ TooLarge
  BY <1>2, UnwindInv DEF Abort, TooLarge
<1> QED
  BY <1>1, <1>2, AgentSteps, BeginTurnInv, BeginStepInv, StepLimitInv, ThrowInv, BeginAttemptInv,
     SendRequestInv, EnterHandlerInv,
     BackoffOverInv, EndTransferInv, ReceiveChunkInv, ConsumerReturnsInv, TakeAnswerInv,
     CallToolInv, ToolReturnsInv, ToolResultInv DEF AgentStep

\* The agent's part of the inductive invariant holds always.
LEMMA AgentAlways == Spec => []AgentInv
<1>1. Init => AgentInv
  BY AgentInit_Inv DEF Init
<1>2. AgentInv /\ [Next]_vars => AgentInv'
  BY AgentStepInv
<1> QED
  BY <1>1, <1>2, PTL DEF Spec

\* The agent's history is all or nothing, whatever the server sends, the tools return
\* and whenever the turn is cancelled, for any number of steps, attempts and calls
\* (src/src/agent.cpp, run_streaming).
THEOREM HistoryIsAtomic == Spec => []HistoryAtomic
<1>1. ASSUME AgentInv PROVE HistoryAtomic
  <2>1. SubSeq(history, 1, Checkpoint) = Past
    BY <1>1, RolledBackIsPast DEF AgentInv, RolledBack
  <2>2. At("failed") => history = Past
    BY <1>1 DEF AgentInv, Kept
  <2>3. agent.at \in {"attempt", "sending", "transfer", "backoff", "returned", "limit"} =>
           \A k \in 1..Len(history) : Answered(k)
    BY <1>1 DEF AgentInv, Matched, InTools, At
  <2> QED
    BY <2>1, <2>2, <2>3 DEF HistoryAtomic
<1> QED
  BY <1>1, AgentAlways, PTL

\* What DoneFences says of a step.
Fenced ==
    /\ stream.done /\ stream'.done => stream'.text = stream.text /\ stream'.calls = stream.calls
    /\ Len(history') > Len(history) /\ history'[Len(history')].role = "assistant" =>
          stream.done \/ At("step")

LEMMA UnwindFenced ==
    ASSUME AgentInv, Unwind, UNCHANGED history
    PROVE  Fenced
<1>1. ~stream'.done
  BY DEF Unwind, EmptyStream
<1>2. Len(history) \in Nat /\ history' = history
  BY LenProperties DEF AgentInv, AgentTypes
<1> QED
  BY <1>1, <1>2 DEF Fenced

\* The history grows by one message, and what that is.
LEMMA GrowsBy ==
    ASSUME AgentInv, NEW m \in Messages, history' = Append(history, m)
    PROVE  history'[Len(history')] = m
BY Appended DEF AgentInv, AgentTypes

LEMMA DeliverFenced ==
    ASSUME AgentInv, NEW n, Assembles(stream, n), NEW consumer, NEW otherwise,
           Deliver(n, consumer, otherwise), history' = history
    PROVE  Fenced
<1>1. CASE Unwind
  BY <1>1, UnwindFenced
<1>2. CASE stream' = n
  <2>1. stream.done => stream'.text = stream.text /\ stream'.calls = stream.calls
    BY <1>2 DEF Assembles
  <2>2. ~(Len(history') > Len(history))
    BY LenProperties DEF AgentInv, AgentTypes
  <2> QED
    BY <2>1, <2>2 DEF Fenced
<1> QED
  BY <1>1, <1>2 DEF Deliver

LEMMA StepFenced ==
    ASSUME AgentInv, [Next]_vars
    PROVE  Fenced
<1>s. stream \in Streams /\ Len(history) \in Nat
  BY LenProperties DEF AgentInv, AgentTypes
<1>k. ASSUME history' = history, stream'.text = stream.text, stream'.calls = stream.calls
      PROVE  Fenced
  BY <1>k, <1>s DEF Fenced
<1>e. ASSUME history' = history, ~stream'.done PROVE Fenced
  BY <1>e, <1>s DEF Fenced
<1>1. CASE AgentIdle
  BY <1>1, <1>k DEF AgentIdle
<1>2. CASE BeginTurn
  <2>1. CASE Unwind /\ UNCHANGED history
    BY <2>1, UnwindFenced
  <2>2. CASE history' = Append(history, User) /\ UNCHANGED <<http, stream>>
    <3>1. history'[Len(history')] = User /\ User.role # "assistant"
      BY <2>2, GrowsBy, EmptyTyped DEF User
    <3> QED
      BY <2>2, <3>1 DEF Fenced
  <2> QED
    BY <1>2, <2>1, <2>2 DEF BeginTurn
<1>3. CASE BeginStep
  <2>1. history' = history /\ (Unwind \/ stream' = EmptyStream)
    BY <1>3 DEF BeginStep
  <2> QED
    BY <2>1, <1>e, UnwindFenced DEF EmptyStream
<1>4. CASE StepLimit
  BY <1>4 DEF StepLimit, Fenced
<1>5. CASE Throw
  <2>1. history' = Past /\ stream' = stream
    BY <1>5, RolledBackIsPast DEF Throw, AgentInv
  <2>2. ~(Len(history') > Len(history))
    BY <2>1, <1>s, PastAnswered DEF AgentInv, Kept
  <2> QED
    BY <2>1, <2>2 DEF Fenced
<1>6. CASE BeginAttempt
  BY <1>6, <1>k, UnwindFenced DEF BeginAttempt
<1>7. CASE SendRequest \/ BackoffOver \/ EnterHandler
  BY <1>7, <1>k DEF SendRequest, BackoffOver, EnterHandler
<1>8. CASE Abort \/ TooLarge
  BY <1>8, UnwindFenced DEF Abort, TooLarge
<1>9. CASE \E code \in {"ok", "fatal", "transient"} : EndTransfer(code)
  <2>1. PICK code \in {"ok", "fatal", "transient"} : EndTransfer(code)
    BY <1>9
  <2>2. Assembles(stream, Finish(stream))
    BY <1>s, FinishAssembles
  <2> QED
    BY <2>1, <2>2, <1>k, UnwindFenced, DeliverFenced DEF EndTransfer
<1>10. CASE At("transfer") /\ \E chunk \in Chunks : ReceiveChunk(chunk)
  <2>1. PICK chunk \in Chunks : ReceiveChunk(chunk)
    BY <1>10
  <2>2. Assembles(stream, Feed(stream, chunk))
    BY <1>s, ChunksTyped, FeedAssembles
  <2> QED
    BY <2>1, <2>2, DeliverFenced DEF ReceiveChunk
<1>11. CASE \E more \in BOOLEAN : ConsumerReturns(more)
  <2>1. PICK more \in BOOLEAN : ConsumerReturns(more)
    BY <1>11
  <2>2. CASE Unwind
    BY <2>1, <2>2, UnwindFenced DEF ConsumerReturns
  <2>3. CASE stream' = [stream EXCEPT !.delta = <<>>]
    <3>1. stream'.text = stream.text /\ stream'.calls = stream.calls
      BY <2>3, <1>s DEF Streams
    <3> QED
      BY <2>1, <3>1, <1>k DEF ConsumerReturns
  <2> QED
    BY <2>1, <2>2, <2>3 DEF ConsumerReturns
<1>12. CASE TakeAnswer
  <2>1. CASE Unwind /\ history' = history
    BY <2>1, UnwindFenced
  <2>2. CASE Complete /\ stream' = [EmptyStream EXCEPT !.calls = stream.calls]
    <3>1. ~stream'.done /\ stream.done
      BY <2>2 DEF EmptyStream, Complete
    <3> QED
      BY <3>1 DEF Fenced
  <2> QED
    BY <1>12, <2>1, <2>2 DEF TakeAnswer
<1>13. CASE CallTool \/ ToolReturns
  BY <1>13, <1>k, UnwindFenced DEF CallTool, ToolReturns
<1>14. CASE ToolResult
  <2>1. history'[Len(history')] = Tool /\ Tool.role # "assistant"
    BY <1>14, GrowsBy, EmptyTyped DEF Tool, ToolResult
  <2>2. stream' = stream \/ ~stream'.done
    BY <1>14 DEF ToolResult, EmptyStream
  <2> QED
    BY <2>1, <2>2 DEF Fenced
<1> QED
  BY AgentSteps, <1>1, <1>2, <1>3, <1>4, <1>5, <1>6, <1>7, <1>8, <1>9, <1>10, <1>11, <1>12,
     <1>13, <1>14 DEF AgentStep

\* The marker [DONE] closes an answer for every stream of chunks, and only a closed
\* answer is remembered (src/src/openai_compatible.cpp, stream; src/src/agent.cpp).
THEOREM AnswersAreFenced == Spec => DoneFences
<1>1. AgentInv /\ [Next]_vars => Fenced
  BY StepFenced
<1>2. Spec => [][Fenced]_vars
  BY <1>1, AgentAlways, PTL DEF Spec
<1>3. [][Fenced]_vars => DoneFences
  BY DEF DoneFences, Fenced
<1> QED
  BY <1>2, <1>3

\* A cancelled turn that is about to begin a request or a tool had passed the check of it
\* before.
Excusal == /\ excused \in BOOLEAN
           /\ token /\ agent.at \in {"sending", "invoking"} => excused

\* What CancelStops says of a step.
StopsWhenCancelled == token /\ (SendsRequest \/ StartsTool) => excused /\ ~excused'

\* The two checks see the token, and nothing but they leads to a request or a tool.
LEMMA StepStops ==
    ASSUME AgentInv, Excusal, [Next]_vars
    PROVE  Excusal' /\ StopsWhenCancelled
<1> DEFINE Acts == {"sending", "invoking"}
           Checked == /\ UNCHANGED <<token, excused>> /\ agent.at \notin Acts
                      /\ agent'.at \in Acts => ~token
<1>c. Checked => Excusal' /\ StopsWhenCancelled
  BY DEF Excusal, StopsWhenCancelled, SendsRequest, StartsTool, At
<1>u. Unwind => agent'.at \notin Acts
  BY DEF Unwind
<1>g. ASSUME NEW place \in Places, Go(place) PROVE agent'.at = place
  BY <1>g, GoTyped DEF AgentInv
<1>p. {"step", "attempt", "sending", "limit", "failed", "transfer", "backoff", "consumer", "last",
       "answer", "returned", "invoking", "handler", "result"} \subseteq Places
  BY DEF Places
<1>1. CASE AgentIdle
  <2>1. agent' = agent /\ ~SendsRequest /\ ~StartsTool
    BY <1>1 DEF AgentIdle, SendsRequest, StartsTool, At
  <2>2. CASE UNCHANGED <<token, excused>>
    BY <2>1, <2>2 DEF Excusal, StopsWhenCancelled
  <2>3. CASE CancelTurn
    <3>1. excused' = (agent.at \in Acts)
      BY <2>3 DEF CancelTurn
    <3>2. excused' \in BOOLEAN
      BY <3>1
    <3>3. agent'.at \in Acts => excused'
      BY <2>1, <3>1
    <3> QED
      BY <2>1, <3>2, <3>3 DEF Excusal, StopsWhenCancelled
  <2> QED
    BY <1>1, <2>2, <2>3 DEF AgentIdle
<1>2. CASE SendRequest \/ EnterHandler
  <2>1. agent.at \in Acts /\ agent'.at \notin Acts /\ ~excused' /\ excused' \in BOOLEAN
    BY <1>2, <1>g, <1>p DEF SendRequest, EnterHandler, At
  <2> QED
    BY <2>1 DEF Excusal, StopsWhenCancelled
<1>3. CASE BeginTurn \/ BeginStep \/ StepLimit \/ Throw \/ BackoffOver \/ Abort \/ TooLarge \/ ToolReturns
  <2>1. Checked
    BY <1>3, <1>u, <1>g, <1>p
       DEF BeginTurn, BeginStep, StepLimit, Throw, BackoffOver, Abort, TooLarge, ToolReturns, At
  <2> QED
    BY <2>1, <1>c
<1>4. CASE BeginAttempt \/ CallTool
  <2>1. Checked
    BY <1>4, <1>u, <1>g, <1>p DEF BeginAttempt, MayTry, CallTool, At
  <2> QED
    BY <2>1, <1>c
<1>5. ASSUME NEW n, At("transfer"), UNCHANGED <<token, excused>>,
             \/ Deliver(n, "consumer", "transfer")
             \/ Deliver(n, "last", "answer")
      PROVE  Checked
  BY <1>5, <1>u, <1>g, <1>p DEF Deliver, At
<1>6. CASE \E code \in {"ok", "fatal", "transient"} : EndTransfer(code)
  <2>1. Checked
    BY <1>6, <1>u, <1>g, <1>p, <1>5 DEF EndTransfer, At
  <2> QED
    BY <2>1, <1>c
<1>7. CASE At("transfer") /\ \E chunk \in Chunks : ReceiveChunk(chunk)
  <2>1. Checked
    BY <1>7, <1>5 DEF ReceiveChunk
  <2> QED
    BY <2>1, <1>c
<1>8. CASE \E more \in BOOLEAN : ConsumerReturns(more)
  <2>1. Checked
    BY <1>8, <1>u, <1>g, <1>p DEF ConsumerReturns, At
  <2> QED
    BY <2>1, <1>c
<1>9. CASE TakeAnswer \/ ToolResult
  <2>1. agent \in [at : Places, step : Nat, call : Nat]
    BY DEF AgentInv, AgentTypes
  <2>2. agent' = [agent EXCEPT !.at = "tool", !.call = 1] => agent'.at = "tool"
    BY <2>1
  <2>3. agent' = [agent EXCEPT !.at = "tool", !.call = @ + 1] => agent'.at = "tool"
    BY <2>1
  <2>4. agent' = [at |-> "step", step |-> agent.step + 1, call |-> 0] => agent'.at = "step"
    OBVIOUS
  <2>5. agent'.at = "tool" \/ agent'.at = "step" \/ agent'.at = "returned" \/ Unwind
    BY <1>9, <1>g, <1>p, <2>2, <2>3, <2>4 DEF TakeAnswer, ToolResult
  <2>6. Checked
    BY <1>9, <2>5, <1>u DEF TakeAnswer, ToolResult, At
  <2> QED
    BY <2>6, <1>c
<1> QED
  BY AgentSteps, <1>1, <1>2, <1>3, <1>4, <1>6, <1>7, <1>8, <1>9 DEF AgentStep

LEMMA ExcusalAlways == Spec => []Excusal
<1>1. Init => Excusal
  BY DEF Init, AgentInit, Excusal
<1>2. AgentInv /\ Excusal /\ [Next]_vars => Excusal'
  BY StepStops
<1> QED
  BY <1>1, <1>2, AgentAlways, PTL DEF Spec

\* A cancelled turn makes no further request and starts no further tool, but the one whose
\* check it had passed when it was cancelled, however many attempts and steps it has left
\* (src/src/curl_transport.cpp, perform; src/src/agent.cpp, invoke).
THEOREM CancellationStops == Spec => CancelStops
<1>1. AgentInv /\ Excusal /\ [Next]_vars => StopsWhenCancelled
  BY StepStops
<1>2. Spec => [][StopsWhenCancelled]_vars
  BY <1>1, AgentAlways, ExcusalAlways, PTL DEF Spec
<1>3. [][StopsWhenCancelled]_vars => CancelStops
  BY DEF CancelStops, StopsWhenCancelled
<1> QED
  BY <1>2, <1>3

-----------------------------------------------------------------------------
(* The speech pipeline                                                     *)

Sentences == 1..MaxChunks

\* The chunk taken from the front of the queue goes to the end of what was taken.
LEMMA TakenInOrder ==
    ASSUME NEW S, NEW s \in Seq(S), NEW t \in Seq(S), t # <<>>
    PROVE  /\ Append(s, Head(t)) \in Seq(S) /\ Tail(t) \in Seq(S)
           /\ Append(s, Head(t)) \o Tail(t) = s \o t
           /\ Len(Append(s, Head(t))) = Len(s) + 1 /\ Len(s) \in Nat /\ Len(t) \in Nat
           /\ Len(Tail(t)) = Len(t) - 1 /\ Len(t) >= 1
           /\ Append(s, Head(t))[Len(s) + 1] = (s \o t)[Len(s) + 1]
           /\ \A i \in 1..Len(s) : Append(s, Head(t))[i] = s[i]
           /\ Len(s \o t) = Len(s) + Len(t)
<1> DEFINE a == Append(s, Head(t))
<1>1. /\ Head(t) \in S /\ Tail(t) \in Seq(S) /\ Len(Tail(t)) = Len(t) - 1
      /\ \A i \in 1..Len(Tail(t)) : Tail(t)[i] = t[i + 1]
  BY HeadTailProperties
<1>2. Len(s) \in Nat /\ Len(t) \in Nat /\ Len(t) >= 1 /\ Head(t) = t[1]
  BY EmptySeq, LenProperties
<1>3. /\ a \in Seq(S) /\ Len(a) = Len(s) + 1
      /\ \A i \in 1..Len(s) : a[i] = s[i]
      /\ a[Len(s) + 1] = t[1]
  BY <1>1, <1>2, AppendProperties
<1> HIDE DEF a
<1>4. /\ s \o t \in Seq(S) /\ Len(s \o t) = Len(s) + Len(t)
      /\ \A i \in 1..(Len(s) + Len(t)) :
            (s \o t)[i] = IF i <= Len(s) THEN s[i] ELSE t[i - Len(s)]
  BY ConcatProperties
<1>5. /\ a \o Tail(t) \in Seq(S) /\ Len(a \o Tail(t)) = Len(a) + Len(Tail(t))
      /\ \A i \in 1..(Len(a) + Len(Tail(t))) :
            (a \o Tail(t))[i] = IF i <= Len(a) THEN a[i] ELSE Tail(t)[i - Len(a)]
  BY <1>1, <1>3, ConcatProperties
<1>6. Len(a \o Tail(t)) = Len(s \o t)
  BY <1>1, <1>2, <1>3, <1>4, <1>5
<1>7. ASSUME NEW i \in 1..Len(a \o Tail(t)) PROVE (a \o Tail(t))[i] = (s \o t)[i]
  <2>0. i \in 1..(Len(s) + Len(t)) /\ i \in 1..(Len(a) + Len(Tail(t)))
    BY <1>4, <1>5, <1>6
  <2>1. CASE i <= Len(s)
    BY <2>0, <2>1, <1>2, <1>3, <1>4, <1>5
  <2>2. CASE i = Len(s) + 1
    BY <2>0, <2>2, <1>2, <1>3, <1>4, <1>5
  <2>3. CASE i > Len(s) + 1
    <3>1. (a \o Tail(t))[i] = Tail(t)[i - Len(a)]
      BY <2>0, <2>3, <1>2, <1>3, <1>5
    <3>2. i - Len(a) \in 1..Len(Tail(t)) /\ (i - Len(a)) + 1 = i - Len(s)
      BY <2>0, <2>3, <1>1, <1>2, <1>3
    <3>3. Tail(t)[i - Len(a)] = t[i - Len(s)]
      BY <3>2, <1>1
    <3>4. (s \o t)[i] = t[i - Len(s)]
      BY <2>0, <2>3, <1>2, <1>4
    <3> QED
      BY <3>1, <3>3, <3>4
  <2> QED
    BY <2>0, <2>1, <2>2, <2>3, <1>2
<1>8. a \o Tail(t) = s \o t
  BY <1>4, <1>5, <1>6, <1>7, SeqEqual
<1>9. (s \o t)[Len(s) + 1] = t[1]
  BY <1>2, <1>4
<1> QED
  BY <1>1, <1>2, <1>3, <1>4, <1>8, <1>9 DEF a

\* A sentence pushed to the queue.
LEMMA PushedInOrder ==
    ASSUME NEW S, NEW s \in Seq(S), NEW t \in Seq(S), NEW e \in S
    PROVE  s \o Append(t, e) = Append(s \o t, e)
<1>1. Append(t, e) = t \o <<e>> /\ Append(s \o t, e) = (s \o t) \o <<e>>
  <2>1. s \o t \in Seq(S)
    BY ConcatProperties
  <2> QED
    BY <2>1, AppendIsConcat
<1>2. <<e>> \in Seq(S)
  OBVIOUS
<1> QED
  BY <1>1, <1>2, ConcatAssociative

\* A step that leaves the sentences where they are.
LEMMA SameOrder ==
    ASSUME OrderInv, UNCHANGED <<taken, accepted, next_chunk>>,
           queue' = queue \/ cancelled_locally',
           cancelled_locally => cancelled_locally',
           producer' = "pushing" => next_chunk <= MaxChunks
    PROVE  OrderInv'
BY DEF OrderInv, Tts!SpokenInOrder

LEMMA PushCalledInv ==
    ASSUME SpeechInv, Tts!PushCalled
    PROVE  SpeechInv'
<1>1. Tts!TypeOK'
  BY DEF SpeechInv, Tts!TypeOK, Tts!PushCalled, Tts!shared, Tts!work
<1>2. OrderInv'
  BY SameOrder DEF SpeechInv, Tts!PushCalled, Tts!shared, Tts!work
<1>3. ControlInv'
  BY DEF SpeechInv, ControlInv, Tts!Cancelled, Tts!PushCalled, Tts!shared, Tts!work
<1> QED
  BY <1>1, <1>2, <1>3 DEF SpeechInv

LEMMA PushAcceptedInv ==
    ASSUME SpeechInv, Tts!PushAccepted
    PROVE  SpeechInv'
<1>0. /\ producer = "pushing" /\ producer' = "idle"
      /\ Len(queue) < Capacity /\ ~finishing /\ ~cancelled_locally /\ ~error /\ ~external
      /\ queue' = Append(queue, next_chunk) /\ accepted' = Append(accepted, next_chunk)
      /\ next_chunk' = next_chunk + 1
      /\ UNCHANGED <<finishing, cancelled_locally, error, joined, external,
                     worker, taken, frames, ended, late>>
  BY DEF Tts!PushAccepted, Tts!HasRoom, Tts!GivesUp, Tts!work
<1>1. /\ queue \in Seq(Sentences) /\ accepted \in Seq(Sentences) /\ taken \in Seq(Sentences)
      /\ next_chunk \in Sentences /\ MaxChunks \in Nat /\ Capacity \in Nat
  BY <1>0, SpeechAssumption DEF SpeechInv, Tts!TypeOK, OrderInv, Sentences
<1>2. /\ queue' \in Seq(Sentences) /\ Len(queue') = Len(queue) + 1 /\ Len(queue) \in Nat
  BY <1>0, <1>1, AppendProperties, LenProperties
<1>3. /\ accepted' \in Seq(Sentences) /\ Len(accepted') = Len(accepted) + 1 /\ Len(accepted) \in Nat
      /\ \A i \in 1..Len(accepted) : accepted'[i] = accepted[i]
      /\ accepted'[Len(accepted) + 1] = next_chunk
  BY <1>0, <1>1, AppendProperties, LenProperties
<1>4. Tts!TypeOK'
  <2>1. Len(queue') <= Capacity
    BY <1>0, <1>1, <1>2
  <2>2. next_chunk' \in 1..(MaxChunks + 1)
    BY <1>0, <1>1 DEF Sentences
  <2> QED
    BY <1>0, <1>2, <1>3, <2>1, <2>2 DEF SpeechInv, Tts!TypeOK, Sentences
<1>5. OrderInv'
  <2>1. taken \o queue' = accepted'
    <3>1. taken \o queue = accepted
      BY <1>0 DEF SpeechInv, OrderInv, Tts!SpokenInOrder
    <3> QED
      BY <3>1, <1>0, <1>1, PushedInOrder
  <2>2. Len(taken) <= Len(accepted) /\ Len(taken) \in Nat /\ next_chunk = Len(accepted) + 1
    BY <1>1, LenProperties DEF SpeechInv, OrderInv, Tts!SpokenInOrder
  <2>3. \A i \in 1..Len(taken) : taken[i] = accepted'[i]
    BY <1>3, <2>2 DEF SpeechInv, OrderInv, Tts!SpokenInOrder
  <2>4. \A i \in 1..Len(accepted') : accepted'[i] = i
    BY <1>3, <2>2 DEF SpeechInv, OrderInv
  <2> QED
    BY <1>0, <1>3, <2>1, <2>2, <2>3, <2>4 DEF OrderInv, Tts!SpokenInOrder
<1>6. ControlInv'
  BY <1>0 DEF SpeechInv, ControlInv, Tts!Cancelled
<1> QED
  BY <1>4, <1>5, <1>6 DEF SpeechInv

LEMMA PushRejectedInv ==
    ASSUME SpeechInv, Tts!PushRejected
    PROVE  SpeechInv'
<1>1. Tts!TypeOK'
  BY DEF SpeechInv, Tts!TypeOK, Tts!PushRejected, Tts!shared, Tts!work
<1>2. OrderInv'
  BY SameOrder DEF SpeechInv, Tts!PushRejected, Tts!shared, Tts!work
<1>3. ControlInv'
  BY DEF SpeechInv, ControlInv, Tts!Cancelled, Tts!GivesUp, Tts!PushRejected, Tts!shared, Tts!work
<1> QED
  BY <1>1, <1>2, <1>3 DEF SpeechInv

LEMMA ProducerCancelsInv ==
    ASSUME SpeechInv, Tts!ProducerCancels
    PROVE  SpeechInv'
<1>0. Len(<<>>) = 0 /\ <<>> \in Seq(1..MaxChunks) /\ Capacity \in Nat
  BY SpeechAssumption
<1>q. /\ queue' \in Seq(1..MaxChunks) /\ Len(queue') <= Capacity
      /\ cancelled_locally' \in BOOLEAN
  <2>1. CASE cancelled_locally \/ joined
    BY <2>1 DEF SpeechInv, Tts!TypeOK, Tts!ProducerCancels, Tts!Cancel
  <2>2. CASE ~(cancelled_locally \/ joined)
    <3>1. queue' = <<>> /\ cancelled_locally' = TRUE
      BY <2>2 DEF Tts!ProducerCancels, Tts!Cancel
    <3> QED
      BY <3>1, <1>0
  <2> QED
    BY <2>1, <2>2
<1>1. Tts!TypeOK'
  BY <1>q DEF SpeechInv, Tts!TypeOK, Tts!ProducerCancels, Tts!work
<1>2. OrderInv'
  BY SameOrder DEF SpeechInv, Tts!ProducerCancels, Tts!Cancel, Tts!work
<1>3. ControlInv'
  BY DEF SpeechInv, ControlInv, Tts!TypeOK, Tts!Cancelled, Tts!ProducerCancels, Tts!Cancel, Tts!work
<1> QED
  BY <1>1, <1>2, <1>3 DEF SpeechInv

LEMMA InterruptInv ==
    ASSUME SpeechInv, Tts!Interrupt
    PROVE  SpeechInv'
<1>1. Tts!TypeOK'
  BY DEF SpeechInv, Tts!TypeOK, Tts!Interrupt, Tts!shared, Tts!prod, Tts!work
<1>2. OrderInv'
  BY SameOrder DEF SpeechInv, OrderInv, Tts!Interrupt, Tts!shared, Tts!prod, Tts!work
<1>3. ControlInv'
  BY DEF SpeechInv, ControlInv, Tts!Cancelled, Tts!Interrupt, Tts!shared, Tts!prod, Tts!work
<1> QED
  BY <1>1, <1>2, <1>3 DEF SpeechInv

LEMMA FinishCalledInv ==
    ASSUME SpeechInv, Tts!FinishCalled
    PROVE  SpeechInv'
<1>1. Tts!TypeOK'
  BY DEF SpeechInv, Tts!TypeOK, Tts!FinishCalled, Tts!work
<1>2. OrderInv'
  BY SameOrder DEF SpeechInv, Tts!FinishCalled, Tts!work
<1>3. ControlInv'
  BY DEF SpeechInv, ControlInv, Tts!Cancelled, Tts!FinishCalled, Tts!work
<1> QED
  BY <1>1, <1>2, <1>3 DEF SpeechInv

LEMMA FinishReturnsInv ==
    ASSUME SpeechInv, Tts!FinishReturns
    PROVE  SpeechInv'
<1>1. Tts!TypeOK'
  BY DEF SpeechInv, Tts!TypeOK, Tts!FinishReturns, Tts!Outcome, Tts!work
<1>2. OrderInv'
  BY SameOrder DEF SpeechInv, Tts!FinishReturns, Tts!Outcome, Tts!work
<1>3. ControlInv'
  BY DEF SpeechInv, ControlInv, Tts!Cancelled, Tts!FinishReturns, Tts!Outcome, Tts!work
<1> QED
  BY <1>1, <1>2, <1>3 DEF SpeechInv

\* The worker's steps that touch neither the queue nor the shared flags.
LEMMA WorkerMovesInv ==
    ASSUME SpeechInv, \/ Tts!BeginUtterance \/ Tts!LeaveLoop \/ Tts!FrameChecked
                      \/ Tts!FrameSunk \/ Tts!ChunkDone \/ Tts!EndUtterance
    PROVE  SpeechInv'
<1>0. UNCHANGED <<queue, finishing, cancelled_locally, error, joined, external,
                  producer, next_chunk, accepted, taken>>
  BY DEF Tts!BeginUtterance, Tts!LeaveLoop, Tts!FrameChecked, Tts!FrameSunk, Tts!ChunkDone,
         Tts!EndUtterance, Tts!shared, Tts!prod
<1>2. OrderInv'
  BY <1>0, SameOrder DEF SpeechInv, OrderInv
<1>t. /\ frames \in 0..MaxFrames /\ late \in Nat /\ MaxFrames \in Nat /\ ended \in BOOLEAN
      /\ late <= 1
  BY SpeechAssumption DEF SpeechInv, Tts!TypeOK, ControlInv
<1>3. CASE Tts!BeginUtterance
  <2>1. Tts!TypeOK'
    BY <1>0, <1>3 DEF SpeechInv, Tts!TypeOK, Tts!BeginUtterance
  <2>2. ControlInv'
    BY <1>0, <1>3 DEF SpeechInv, ControlInv, Tts!Cancelled, Tts!BeginUtterance
  <2> QED
    BY <1>2, <2>1, <2>2 DEF SpeechInv
<1>4. CASE Tts!LeaveLoop
  <2>1. Tts!TypeOK'
    BY <1>0, <1>4 DEF SpeechInv, Tts!TypeOK, Tts!LeaveLoop
  <2>2. ControlInv'
    BY <1>0, <1>4 DEF SpeechInv, ControlInv, Tts!Cancelled, Tts!LeaveLoop, Tts!Leave
  <2> QED
    BY <1>2, <2>1, <2>2 DEF SpeechInv
<1>5. CASE Tts!FrameChecked
  <2>0. frames' \in 0..MaxFrames /\ worker' \in {"synth", "sink"} /\ ended' = ended /\ late' = late
    BY <1>5, <1>t DEF Tts!FrameChecked
  <2>1. Tts!TypeOK'
    BY <1>0, <2>0 DEF SpeechInv, Tts!TypeOK
  <2>2. ControlInv'
    BY <1>0, <1>5, <2>0 DEF SpeechInv, ControlInv, Tts!Cancelled, Tts!FrameChecked, Tts!FrameFenced
  <2> QED
    BY <1>2, <2>1, <2>2 DEF SpeechInv
<1>6. CASE Tts!FrameSunk
  <2>0. /\ worker' = "synth" /\ ended' = ended /\ frames' = frames /\ worker = "sink"
        /\ late = 0
    BY <1>6 DEF Tts!FrameSunk, SpeechInv, ControlInv
  <2>l. late' = IF Tts!Cancelled THEN 1 ELSE 0
    BY <1>6, <2>0 DEF Tts!FrameSunk
  <2>1. Tts!TypeOK'
    BY <1>0, <2>0, <2>l DEF SpeechInv, Tts!TypeOK
  <2>2. ControlInv'
    BY <1>0, <2>0, <2>l DEF SpeechInv, ControlInv, Tts!Cancelled
  <2> QED
    BY <1>2, <2>1, <2>2 DEF SpeechInv
<1>7. CASE Tts!ChunkDone
  <2>0. /\ worker = "synth" /\ worker' = (IF external THEN "ending" ELSE "wait")
        /\ frames' = 0 /\ ended' = ended /\ late' = late
    BY <1>7 DEF Tts!ChunkDone
  <2>1. Tts!TypeOK'
    <3>1. 0 \in 0..MaxFrames
      BY <1>t
    <3> QED
      BY <1>0, <2>0, <3>1 DEF SpeechInv, Tts!TypeOK
  <2>2. ControlInv'
    BY <1>0, <2>0 DEF SpeechInv, ControlInv, Tts!Cancelled
  <2> QED
    BY <1>2, <2>1, <2>2 DEF SpeechInv
<1>8. CASE Tts!EndUtterance
  <2>0. /\ worker = "ending" /\ worker' = "exited" /\ ended' = ~Tts!Cancelled
        /\ frames' = frames /\ late' = late
    BY <1>8 DEF Tts!EndUtterance
  <2>1. Tts!TypeOK'
    BY <1>0, <2>0 DEF SpeechInv, Tts!TypeOK
  <2>2. ControlInv'
    BY <1>0, <2>0 DEF SpeechInv, ControlInv, Tts!Cancelled
  <2> QED
    BY <1>2, <2>1, <2>2 DEF SpeechInv
<1> QED
  BY <1>3, <1>4, <1>5, <1>6, <1>7, <1>8

LEMMA TakeChunkInv ==
    ASSUME SpeechInv, Tts!TakeChunk
    PROVE  SpeechInv'
<1>0. /\ worker = "wait" /\ worker' = "synth" /\ queue # <<>> /\ ~cancelled_locally /\ ~external
      /\ queue' = Tail(queue) /\ taken' = Append(taken, Head(queue))
      /\ UNCHANGED <<finishing, cancelled_locally, error, joined, external,
                     producer, next_chunk, accepted, frames, ended, late>>
  BY DEF Tts!TakeChunk, Tts!Leave, Tts!Cancelled, Tts!prod
<1>1. /\ queue \in Seq(Sentences) /\ accepted \in Seq(Sentences) /\ taken \in Seq(Sentences)
      /\ Capacity \in Nat /\ Len(queue) <= Capacity
  BY SpeechAssumption DEF SpeechInv, Tts!TypeOK, Sentences
<1>2. taken \o queue = accepted
  BY <1>0 DEF SpeechInv, OrderInv, Tts!SpokenInOrder
<1>3. /\ taken' \in Seq(Sentences) /\ queue' \in Seq(Sentences) /\ taken' \o queue' = accepted
      /\ Len(taken') = Len(taken) + 1 /\ Len(taken) \in Nat /\ Len(queue) \in Nat
      /\ Len(queue') = Len(queue) - 1 /\ Len(queue) >= 1
      /\ taken'[Len(taken) + 1] = accepted[Len(taken) + 1]
      /\ \A i \in 1..Len(taken) : taken'[i] = taken[i]
      /\ Len(accepted) = Len(taken) + Len(queue)
  <2>1. /\ Append(taken, Head(queue)) \in Seq(Sentences) /\ Tail(queue) \in Seq(Sentences)
        /\ Append(taken, Head(queue)) \o Tail(queue) = taken \o queue
        /\ Len(Append(taken, Head(queue))) = Len(taken) + 1
        /\ Len(taken) \in Nat /\ Len(queue) \in Nat
        /\ Len(Tail(queue)) = Len(queue) - 1 /\ Len(queue) >= 1
        /\ Append(taken, Head(queue))[Len(taken) + 1] = (taken \o queue)[Len(taken) + 1]
        /\ \A i \in 1..Len(taken) : Append(taken, Head(queue))[i] = taken[i]
        /\ Len(taken \o queue) = Len(taken) + Len(queue)
    <3>1. queue # <<>> /\ queue \in Seq(Sentences) /\ taken \in Seq(Sentences)
      BY <1>0, <1>1
    <3> HIDE DEF Sentences
    <3> QED
      BY <3>1, TakenInOrder
  <2> QED
    BY <1>0, <1>2, <2>1, Zenon
<1>4. Tts!TypeOK'
  <2>1. Len(queue') <= Capacity
    BY <1>1, <1>3
  <2> QED
    BY <1>0, <1>3, <2>1 DEF SpeechInv, Tts!TypeOK, Sentences
<1>5. OrderInv'
  <2>1. Len(taken') <= Len(accepted)
    BY <1>3
  <2>2. \A i \in 1..Len(taken') : taken'[i] = accepted[i]
    BY <1>3 DEF SpeechInv, OrderInv, Tts!SpokenInOrder
  <2> QED
    BY <1>0, <1>3, <2>1, <2>2 DEF SpeechInv, OrderInv, Tts!SpokenInOrder
<1>6. ControlInv'
  BY <1>0 DEF SpeechInv, ControlInv, Tts!Cancelled
<1> QED
  BY <1>4, <1>5, <1>6 DEF SpeechInv

LEMMA WorkerThrowsInv ==
    ASSUME SpeechInv, Tts!WorkerThrows
    PROVE  SpeechInv'
<1>0. Len(<<>>) = 0 /\ <<>> \in Seq(1..MaxChunks) /\ Capacity \in Nat /\ 0 \in 0..MaxFrames
  BY SpeechAssumption
<1>t. late \in Nat
  BY DEF SpeechInv, Tts!TypeOK
<1>1. Tts!TypeOK'
  BY <1>0 DEF SpeechInv, Tts!TypeOK, Tts!WorkerThrows, Tts!prod
<1>2. OrderInv'
  BY SameOrder DEF SpeechInv, OrderInv, Tts!WorkerThrows, Tts!prod
<1>3. ControlInv'
  BY <1>t DEF SpeechInv, ControlInv, Tts!Cancelled, Tts!WorkerThrows, Tts!prod
<1> QED
  BY <1>1, <1>2, <1>3 DEF SpeechInv

LEMMA SpeechSameInv ==
    ASSUME SpeechInv, UNCHANGED speechVars
    PROVE  SpeechInv'
<1>1. Tts!TypeOK'
  BY DEF SpeechInv, Tts!TypeOK, speechVars
<1>2. OrderInv'
  BY DEF SpeechInv, OrderInv, Tts!SpokenInOrder, speechVars
<1>3. ControlInv'
  BY DEF SpeechInv, ControlInv, Tts!Cancelled, speechVars
<1> QED
  BY <1>1, <1>2, <1>3 DEF SpeechInv

SpeechStep ==
    \/ Tts!PushCalled \/ Tts!PushAccepted \/ Tts!PushRejected
    \/ Tts!ProducerCancels \/ Tts!FinishCalled \/ Tts!FinishReturns
    \/ Tts!Interrupt \/ Tts!WorkerLoop \/ Tts!FrameSunk
    \/ UNCHANGED speechVars

LEMMA SpeechStepInv ==
    ASSUME SpeechInv, SpeechStep
    PROVE  SpeechInv'
BY PushCalledInv, PushAcceptedInv, PushRejectedInv, ProducerCancelsInv, FinishCalledInv,
   FinishReturnsInv, InterruptInv, WorkerMovesInv, TakeChunkInv, WorkerThrowsInv, SpeechSameInv
   DEF SpeechStep, Tts!WorkerLoop

\* Every step of the response is a step of the pipeline, or leaves it alone.
LEMMA SpeechSteps ==
    ASSUME [Next]_vars
    PROVE  SpeechStep
<1>1. CASE \/ NotRun \/ AgentRuns \/ DeltaSpoken \/ DeltaRefused \/ Completing \/ AgentFailed
           \/ Flushed \/ CompleteTurn \/ FailTurn \/ ServerSends \/ Cancel \/ Over \/ UNCHANGED vars
  BY <1>1 DEF NotRun, AgentRuns, DeltaSpoken, DeltaRefused, Completing, AgentFailed, Flushed,
              CompleteTurn, FailTurn, ServerSends, Cancel, Over, vars, SpeechStep
<1>2. CASE Speak \/ Pushed \/ Rejected \/ FinishSpeech \/ SpeechJoined \/ CancelSpeech \/ DrainSpeech
           \/ Synthesizer \/ Interrupt
  BY <1>2 DEF Speak, Pushed, Rejected, FinishSpeech, SpeechJoined, CancelSpeech, DrainSpeech,
              Synthesizer, FrameSunk, Interrupt, SpeechStep
<1> QED
  BY <1>1, <1>2 DEF Next, Lane

LEMMA SpeechInitInv ==
    ASSUME Tts!Init
    PROVE  SpeechInv
<1>0. /\ Len(<<>>) = 0 /\ <<>> \in Seq(1..MaxChunks) /\ Capacity \in Nat
      /\ 0 \in 0..MaxFrames /\ 1 \in 1..(MaxChunks + 1) /\ <<>> \o <<>> = <<>>
  <2>1. <<>> \in Seq({}) /\ <<>> \o <<>> = <<>>
    BY ConcatEmptySeq, EmptySeq
  <2> QED
    BY <2>1, SpeechAssumption
<1>q. Len(<<>>) <= Capacity
  BY <1>0
<1>1. Tts!TypeOK
  <2>1. /\ queue \in Seq(1..MaxChunks) /\ Len(queue) <= Capacity
        /\ accepted \in Seq(1..MaxChunks) /\ taken \in Seq(1..MaxChunks)
    BY <1>0, <1>q, Zenon DEF Tts!Init
  <2> QED
    BY <1>0, <2>1 DEF Tts!Init, Tts!TypeOK
<1>2. OrderInv
  BY <1>0 DEF Tts!Init, OrderInv, Tts!SpokenInOrder
<1>3. ControlInv
  BY DEF Tts!Init, ControlInv, Tts!Cancelled
<1> QED
  BY <1>1, <1>2, <1>3 DEF SpeechInv

-----------------------------------------------------------------------------
(* The lane that drives the pipeline                                       *)

\* The agent does not move while the lane speaks for it, nor once it is done.
LEMMA AgentMovesFrom ==
    ASSUME AgentThread \/ Server
    PROVE  ~Consumes /\ ~Returned /\ ~At("failed")
BY DEF AgentThread, Server, BeginTurn, BeginStep, StepLimit, Throw, Transport, BeginAttempt,
       SendRequest, BackoffOver, Abort, EndTransfer, TakeAnswer, CallTool, EnterHandler, ToolReturns, ToolResult, TooLarge,
       ReceiveChunk, Consumes, Returned, At

\* What a step of the lane alone, outside the pipeline, may change.
LaneMoves == UNCHANGED <<queue, finishing, cancelled_locally, error, joined, external,
                         producer, worker, ended, accepted>>

LEMMA AgentMovesLane ==
    ASSUME SpeechInv, LaneInv, \/ NotRun \/ AgentRuns \/ DeltaSpoken \/ DeltaRefused
                               \/ ServerSends \/ Completing \/ AgentFailed
    PROVE  LaneInv'
<1>1. /\ lane = "agent" /\ LaneMoves /\ UNCHANGED <<started, first_audio, told, segments>>
      /\ lane' \in {"agent", "flush", "fail"}
      /\ lane' = "flush" => Returned'
      /\ producer # "pushing"
  <2>1. CASE NotRun
    BY <2>1 DEF LaneInv, Speaks, Consumes, NotRun, LaneMoves, speechVars, At
  <2>2. CASE AgentRuns
    BY <2>2, AgentMovesFrom DEF LaneInv, Speaks, AgentRuns, LaneMoves, speechVars, laneVars
  <2>3. CASE DeltaSpoken \/ DeltaRefused
    BY <2>3 DEF DeltaSpoken, DeltaRefused, LaneMoves, speechVars, laneVars
  <2>4. CASE ServerSends
    BY <2>4, AgentMovesFrom DEF LaneInv, Speaks, ServerSends, LaneMoves, speechVars
  <2>5. CASE Completing
    <3>1. producer # "pushing"
      BY <2>5 DEF Completing, LaneInv, Speaks, Consumes, Returned, At
    <3>2. agent' = agent /\ Returned
      BY <2>5 DEF Completing, agentVars
    <3>3. Returned'
      BY <3>2 DEF Returned, At
    <3>4. lane = "agent" /\ LaneMoves /\ UNCHANGED <<started, first_audio, told, segments>>
          /\ lane' \in {"flush", "fail"}
      BY <2>5 DEF Completing, LaneMoves, speechVars
    <3> QED
      BY <3>1, <3>3, <3>4
  <2>6. CASE AgentFailed
    BY <2>6 DEF LaneInv, Speaks, Consumes, AgentFailed, LaneMoves, speechVars, At
  <2> QED
    BY <2>1, <2>2, <2>3, <2>4, <2>5, <2>6
<1> QED
  BY <1>1 DEF LaneInv, LaneMoves, Unmade

LEMMA SpeakLane ==
    ASSUME SpeechInv, LaneInv, Speak
    PROVE  LaneInv'
<1>1. /\ Speaks /\ producer' = "pushing" /\ started' = TRUE
      /\ UNCHANGED <<queue, finishing, cancelled_locally, error, joined, external, worker, agent,
                     lane, first_audio, told>>
  BY DEF Speak, Tts!PushCalled, Tts!shared, Tts!work
<1>2. Speaks' /\ (Returned' <=> Returned)
  BY <1>1 DEF Speaks, Consumes, Returned, At
<1> QED
  BY <1>1, <1>2 DEF LaneInv, Speaks

LEMMA PushedLane ==
    ASSUME SpeechInv, LaneInv, Pushed \/ Rejected
    PROVE  LaneInv'
<1>1. /\ producer = "pushing" /\ producer' \in {"idle", "rejected"}
      /\ UNCHANGED <<cancelled_locally, error, joined, external, agent, lane, first_audio, told, started>>
  BY DEF Pushed, Rejected, Tts!PushAccepted, Tts!PushRejected, Tts!shared, Tts!work, agentVars, laneVars
<1>2. Returned' <=> Returned
  BY <1>1 DEF Returned, At
<1>3. started /\ lane \in {"agent", "flush"}
  BY <1>1 DEF LaneInv, Unmade, Speaks
<1> QED
  BY <1>1, <1>2, <1>3 DEF LaneInv

LEMMA FlushedLane ==
    ASSUME SpeechInv, LaneInv, Flushed
    PROVE  LaneInv'
<1>1. /\ lane = "flush" /\ lane' = "finish" /\ LaneMoves /\ producer \in {"idle", "rejected"}
      /\ UNCHANGED <<agent, segments, started, first_audio, told>>
  BY DEF Flushed, LaneMoves, speechVars, agentVars
<1>2. Returned' <=> Returned
  BY <1>1 DEF Returned, At
<1>3. ~joined
  BY <1>1 DEF SpeechInv, ControlInv
<1> QED
  BY <1>1, <1>2, <1>3 DEF LaneInv, LaneMoves, Unmade

LEMMA FinishLane ==
    ASSUME SpeechInv, LaneInv, FinishSpeech \/ DrainSpeech
    PROVE  LaneInv'
<1>1. /\ lane \in {"finish", "fail"} /\ producer' = "joining"
      /\ (lane = "finish" /\ started) \/ producer = "cancelled"
      /\ UNCHANGED <<cancelled_locally, error, joined, external, agent, lane, first_audio, told, started>>
  BY DEF FinishSpeech, DrainSpeech, Tts!FinishCalled, agentVars, laneVars
<1>2. Returned' <=> Returned
  BY <1>1 DEF Returned, At
<1>3. started
  BY <1>1 DEF LaneInv, Unmade
<1> QED
  BY <1>1, <1>2, <1>3 DEF LaneInv

LEMMA JoinedLane ==
    ASSUME SpeechInv, LaneInv, SpeechJoined
    PROVE  LaneInv'
<1>1. /\ producer = "joining" /\ producer' = (IF error THEN "threw" ELSE "finished") /\ joined' = TRUE
      /\ lane' = IF lane = "finish" /\ producer' = "threw" THEN "fail" ELSE lane
      /\ UNCHANGED <<cancelled_locally, error, external, agent, first_audio, told, started>>
  BY DEF SpeechJoined, Tts!FinishReturns, Tts!Outcome, agentVars
<1>2. Returned' <=> Returned
  BY <1>1 DEF Returned, At
<1>3. started /\ lane \in {"finish", "fail", "over"}
  BY <1>1 DEF LaneInv, Unmade
<1>4. SpeechOver'
  BY <1>1 DEF SpeechOver
<1> QED
  BY <1>1, <1>2, <1>3, <1>4 DEF LaneInv

LEMMA TerminalLane ==
    ASSUME SpeechInv, LaneInv, CompleteTurn \/ FailTurn
    PROVE  LaneInv'
<1>1. /\ lane \in {"finish", "fail"} /\ SpeechOver /\ LaneMoves
      /\ lane' \in {"over", "fail"}
      /\ lane' # "over" => told' = told
      /\ told' \in {told, "completed", "cancelled", "failed"}
      /\ UNCHANGED <<agent, segments, started, first_audio>>
  BY DEF CompleteTurn, FailTurn, LaneMoves, speechVars
<1>2. SpeechOver'
  BY <1>1 DEF SpeechOver, LaneMoves
<1>3. producer # "pushing"
  BY <1>1 DEF LaneInv, Speaks
<1> QED
  BY <1>1, <1>2, <1>3 DEF LaneInv, LaneMoves, Unmade

LEMMA CancelSpeechLane ==
    ASSUME SpeechInv, LaneInv, CancelSpeech
    PROVE  LaneInv'
<1>1. /\ lane = "fail" /\ started /\ producer' = "cancelled"
      /\ UNCHANGED <<error, joined, external, agent, lane, first_audio, told, started>>
  BY DEF CancelSpeech, SpeechOver, LaneInv, Tts!ProducerCancels, agentVars, laneVars
<1>2. lane' = "fail" /\ started' = TRUE
  BY <1>1 DEF LaneInv
<1> QED
  BY <1>1, <1>2 DEF LaneInv

LEMMA SynthesizerLane ==
    ASSUME SpeechInv, LaneInv, started, Synthesizer
    PROVE  LaneInv'
<1>1. /\ UNCHANGED <<producer, joined, external, agent, lane, told, started>>
      /\ first_audio' \in BOOLEAN
      /\ worker # "exited"
      /\ \/ UNCHANGED <<cancelled_locally, error>>
         \/ cancelled_locally' = TRUE /\ error' = TRUE
  <2>1. CASE FrameSunk
    BY <2>1 DEF FrameSunk, Tts!FrameSunk, Tts!shared, Tts!prod, LaneInv, SpeechInv, Tts!TypeOK
  <2>2. CASE Tts!WorkerLoop /\ UNCHANGED <<agentVars, laneVars>>
    BY <2>2 DEF Tts!WorkerLoop, Tts!BeginUtterance, Tts!LeaveLoop, Tts!TakeChunk, Tts!FrameChecked,
                Tts!ChunkDone, Tts!EndUtterance, Tts!WorkerThrows, Tts!shared, Tts!prod,
                agentVars, laneVars, LaneInv
  <2> QED
    BY <2>1, <2>2 DEF Synthesizer
<1>2. /\ Returned' <=> Returned
      /\ Speaks' <=> Speaks
      /\ SpeechOver' <=> SpeechOver
  BY <1>1 DEF Returned, Speaks, Consumes, SpeechOver, At
<1>3. ~joined
  BY <1>1 DEF SpeechInv, ControlInv
<1> QED
  BY <1>1, <1>2, <1>3 DEF LaneInv

LEMMA OthersLane ==
    ASSUME SpeechInv, LaneInv, Interrupt \/ Cancel \/ Over \/ UNCHANGED vars
    PROVE  LaneInv'
<1>1. UNCHANGED <<producer, joined, agent, lane, told, started, first_audio, cancelled_locally, error,
                  worker, accepted, segments>>
  BY DEF Interrupt, Cancel, Over, CancelTurn, Tts!Interrupt, Tts!shared, Tts!prod, Tts!work,
         vars, agentVars, laneVars, speechVars
<1>2. /\ Returned' <=> Returned
      /\ Speaks' <=> Speaks
      /\ SpeechOver' <=> SpeechOver
      /\ Unmade' <=> Unmade
  BY <1>1 DEF Returned, Speaks, Consumes, SpeechOver, Unmade, At
<1> QED
  BY <1>1, <1>2 DEF LaneInv

LEMMA LaneStepInv ==
    ASSUME SpeechInv, LaneInv, [Next]_vars
    PROVE  LaneInv'
BY AgentMovesLane, SpeakLane, PushedLane, FlushedLane, FinishLane, JoinedLane, TerminalLane,
   CancelSpeechLane, SynthesizerLane, OthersLane DEF Next, Lane

-----------------------------------------------------------------------------
(* What was handed to the pipeline                                         *)

\* A sequence of anything, longer by one.
LEMMA AppendAny ==
    ASSUME NEW s, s \in Seq({s[i] : i \in 1..Len(s)}), NEW e
    PROVE  LET t == Append(s, e) IN
           t \in Seq({t[i] : i \in 1..Len(t)}) /\ Len(t) = Len(s) + 1 /\ Len(s) \in Nat
<1> DEFINE S == {s[i] : i \in 1..Len(s)} \union {e}
           t == Append(s, e)
           T == {t[i] : i \in 1..Len(t)}
<1>1. s \in Seq(S)
  <2>1. {s[i] : i \in 1..Len(s)} \subseteq S
    OBVIOUS
  <2> QED
    BY <2>1, SeqMonotonic
<1>2. e \in S
  OBVIOUS
<1> HIDE DEF S
<1>3. t \in Seq(S) /\ Len(t) = Len(s) + 1 /\ Len(s) \in Nat
  BY <1>1, <1>2, AppendProperties, LenProperties
<1> HIDE DEF t
<1>4. t \in [1..Len(t) -> S] /\ Len(t) \in Nat
  BY <1>3, LenProperties
<1>5. \A i \in 1..Len(t) : t[i] \in T
  OBVIOUS
<1>6. t = [i \in 1..Len(t) |-> t[i]]
  BY <1>4
<1> HIDE DEF T
<1>7. [i \in 1..Len(t) |-> t[i]] \in Seq(T)
  BY <1>4, <1>5, IsASeq
<1> QED
  BY <1>3, <1>6, <1>7 DEF T, t

\* A step that neither speaks nor completes the turn.
LEMMA SameHanded ==
    ASSUME SpeechInv, Handed, UNCHANGED <<segments, accepted>>,
           Tts!Cancelled => Tts!Cancelled', producer' \in {producer, "cancelled", "joining", "finished",
                                                            "threw", "rejected"},
           producer = "pushing" /\ producer' # "pushing" => Tts!Cancelled',
           told' = "completed" => told = "completed" /\ Returned' /\ ~Tts!Cancelled' /\ lane' = "over"
    PROVE  Handed'
BY DEF Handed

LEMMA HandedStep ==
    ASSUME SpeechInv, SpeechInv', LaneInv, Handed, [Next]_vars
    PROVE  Handed'
<1>c. ASSUME told = "completed", UNCHANGED <<told, lane, agent, external, cancelled_locally>>
      PROVE  Returned' /\ ~Tts!Cancelled' /\ lane' = "over"
  BY <1>c DEF Handed, Returned, At, Tts!Cancelled
<1>n. lane # "over" => told # "completed"
  BY DEF LaneInv
<1>1. CASE \/ NotRun \/ AgentRuns \/ DeltaSpoken \/ DeltaRefused
           \/ ServerSends \/ Completing \/ AgentFailed \/ Flushed
  <2>1. lane # "over" /\ UNCHANGED <<segments, told, speechVars>>
    BY <1>1 DEF NotRun, AgentRuns, DeltaSpoken, DeltaRefused, ServerSends, Completing, AgentFailed,
                Flushed, laneVars
  <2>2. UNCHANGED <<segments, accepted, producer, told>> /\ (Tts!Cancelled' <=> Tts!Cancelled)
    BY <2>1 DEF speechVars, Tts!Cancelled
  <2> QED
    BY <2>1, <2>2, <1>n, SameHanded
<1>2. CASE Speak
  <2>1. /\ producer = "idle" /\ producer' = "pushing" /\ segments' = Append(segments, Head(todo))
        /\ UNCHANGED <<told, lane, agent, external, cancelled_locally, accepted>>
    BY <1>2 DEF Speak, Tts!PushCalled, Tts!shared, Tts!work
  <2>2. lane # "over"
    BY <1>2 DEF Speak, Speaks
  <2>3. /\ segments' \in Seq({segments'[i] : i \in 1..Len(segments')})
        /\ Len(segments') = Len(segments) + 1
    BY <2>1, AppendAny DEF Handed
  <2>4. Len(segments) = Len(accepted)
    BY <2>1 DEF Handed
  <2> QED
    BY <2>1, <2>2, <2>3, <2>4, <1>n DEF Handed
<1>3. CASE Pushed
  <2>1. /\ producer = "pushing" /\ producer' = "idle" /\ accepted' = Append(accepted, next_chunk)
        /\ next_chunk <= MaxChunks /\ lane # "over"
        /\ UNCHANGED <<told, lane, agent, external, cancelled_locally, segments>>
    BY <1>3 DEF Pushed, Tts!PushAccepted, agentVars, LaneInv, Speaks, SpeechInv, OrderInv
  <2>2. Len(accepted') = Len(accepted) + 1
    <3>1. accepted \in Seq(Sentences) /\ next_chunk \in Sentences
      BY <2>1, SpeechAssumption DEF SpeechInv, Tts!TypeOK, Sentences
    <3> QED
      BY <2>1, <3>1, AppendProperties
  <2> QED
    BY <2>1, <2>2, <1>n DEF Handed
<1>4. CASE Rejected
  <2>1. /\ producer = "pushing" /\ producer' = "rejected" /\ lane # "over"
        /\ UNCHANGED <<told, lane, agent, external, cancelled_locally, accepted, segments>>
    BY <1>4 DEF Rejected, Tts!PushRejected, Tts!shared, Tts!work, agentVars, laneVars, LaneInv, Speaks
  <2>2. Tts!Cancelled' /\ (Tts!Cancelled => Tts!Cancelled')
    BY <2>1 DEF SpeechInv, ControlInv
  <2> QED
    BY <2>1, <2>2, <1>n, SameHanded
<1>5. CASE FinishSpeech \/ DrainSpeech \/ CancelSpeech \/ SpeechJoined
  <2>1. /\ producer # "pushing" /\ producer' \in {"joining", "finished", "threw", "cancelled"}
        /\ UNCHANGED <<told, agent, external, accepted, segments>>
        /\ cancelled_locally => cancelled_locally'
    BY <1>5 DEF FinishSpeech, DrainSpeech, CancelSpeech, SpeechJoined, Tts!FinishCalled, Tts!Cancel,
                Tts!ProducerCancels, Tts!FinishReturns, Tts!Outcome, agentVars, laneVars
  <2>2. Tts!Cancelled => Tts!Cancelled'
    BY <2>1 DEF Tts!Cancelled
  <2>3. lane # "over" \/ UNCHANGED <<lane, cancelled_locally>>
    BY <1>5 DEF FinishSpeech, DrainSpeech, CancelSpeech, SpeechJoined, Tts!FinishReturns
  <2> QED
    BY <2>1, <2>2, <2>3, <1>n, <1>c, SameHanded
<1>6. CASE CompleteTurn
  <2>1. /\ lane = "finish" /\ SpeechOver
        /\ UNCHANGED <<agent, segments, accepted, producer, external, cancelled_locally>>
        /\ \/ Stands /\ lane' = "over"
           \/ told' = told
    BY <1>6 DEF CompleteTurn, speechVars
  <2>2. (~external /\ ~cancelled_locally) \/ told' = told
    BY <2>1 DEF Stands, SpeechOver, LaneInv, Unmade
  <2>3. Returned'
    BY <2>1 DEF LaneInv, Returned, At
  <2>4. told' = "completed" => Returned' /\ ~Tts!Cancelled' /\ lane' = "over"
    BY <2>1, <2>2, <2>3, <1>n DEF Tts!Cancelled
  <2> QED
    BY <2>1, <2>4 DEF Handed, Tts!Cancelled
<1>7. CASE FailTurn
  <2>1. told' # "completed" /\ UNCHANGED <<segments, speechVars>>
    BY <1>7 DEF FailTurn
  <2>2. UNCHANGED <<segments, accepted, producer>> /\ (Tts!Cancelled' <=> Tts!Cancelled)
    BY <2>1 DEF speechVars, Tts!Cancelled
  <2> QED
    BY <2>1, <2>2, SameHanded
<1>8. CASE started /\ Synthesizer
  <2>1. /\ UNCHANGED <<producer, external, agent, lane, told, accepted, segments>>
        /\ worker # "exited"
        /\ cancelled_locally => cancelled_locally'
    <3>1. CASE FrameSunk
      BY <3>1 DEF FrameSunk, Tts!FrameSunk, Tts!shared, Tts!prod
    <3>2. CASE Tts!WorkerLoop /\ UNCHANGED <<agentVars, laneVars>>
      BY <3>2 DEF Tts!WorkerLoop, Tts!BeginUtterance, Tts!LeaveLoop, Tts!TakeChunk, Tts!FrameChecked,
                  Tts!ChunkDone, Tts!EndUtterance, Tts!WorkerThrows, Tts!shared, Tts!prod,
                  agentVars, laneVars
    <3> QED
      BY <1>8, <3>1, <3>2 DEF Synthesizer
  <2>2. told # "completed"
    BY <1>8, <2>1, <1>n DEF LaneInv, SpeechOver, SpeechInv, ControlInv
  <2>3. Tts!Cancelled => Tts!Cancelled'
    BY <2>1 DEF Tts!Cancelled
  <2> QED
    BY <2>1, <2>2, <2>3, SameHanded
<1>9. CASE Interrupt
  <2>1. /\ lane # "over" /\ external' = TRUE
        /\ UNCHANGED <<producer, told, accepted, segments>>
    BY <1>9 DEF Interrupt, Tts!Interrupt, Tts!shared, Tts!prod, laneVars
  <2>2. Tts!Cancelled'
    BY <2>1 DEF Tts!Cancelled
  <2> QED
    BY <2>1, <2>2, <1>n, SameHanded
<1>10. CASE Cancel \/ Over \/ UNCHANGED vars
  <2>1. /\ UNCHANGED <<producer, told, accepted, segments, external, cancelled_locally, lane>>
        /\ agent' = agent
    BY <1>10 DEF Cancel, CancelTurn, Over, vars, agentVars, laneVars, speechVars
  <2>2. Tts!Cancelled => Tts!Cancelled'
    BY <2>1 DEF Tts!Cancelled
  <2> QED
    BY <2>1, <2>2, <1>c, SameHanded
<1> QED
  BY <1>1, <1>2, <1>3, <1>4, <1>5, <1>6, <1>7, <1>8, <1>9, <1>10 DEF Next, Lane

LEMMA SpokenInitInv ==
    ASSUME Init
    PROVE  SpokenInv
<1>1. SpeechInv
  BY SpeechInitInv DEF Init
<1>2. LaneInv
  BY DEF Init, Tts!Init, LaneInv, Unmade, Speaks
<1>3. <<>> \in Seq({segments[i] : i \in 1..Len(segments)})
  BY EmptySeq
<1>4. Handed
  BY <1>3 DEF Init, Tts!Init, Handed
<1> QED
  BY <1>1, <1>2, <1>4 DEF SpokenInv

\* The pipeline under the lane holds always.
LEMMA SpokenAlways == Spec => []SpokenInv
<1>1. Init => SpokenInv
  BY SpokenInitInv
<1>2. SpokenInv /\ [Next]_vars => SpokenInv'
  BY SpeechSteps, SpeechStepInv, LaneStepInv, HandedStep DEF SpokenInv
<1> QED
  BY <1>1, <1>2, PTL DEF Spec

\* Under the conversation's lane the speech pipeline keeps its promises, a response is
\* over only when the synthesizer is free, and a request is repeated only if nothing of
\* its answer was seen; for any capacity, number of attempts and length of the answer.
THEOREM ResponseIsSafe == Spec => []ResponseSafe
<1>1. ASSUME AgentInv, Excusal, SpokenInv PROVE ResponseSafe
  <2>1. TypeOK
    BY <1>1 DEF AgentInv, AgentTypes, Excusal, Places, SpokenInv, LaneInv, TypeOK
  <2>2. agent.at \in {"backoff", "attempt", "sending"} => stream = EmptyStream /\ ~http.received
    BY <1>1 DEF AgentInv, Fresh
  <2>3. Tts!TypeOK /\ Tts!SpokenInOrder /\ Tts!ErrorSurfaces /\ Tts!LateAudioBounded
    BY <1>1 DEF SpokenInv, SpeechInv, OrderInv, ControlInv, Tts!ErrorSurfaces, Tts!LateAudioBounded
  <2>4. lane = "over" /\ started => worker = "exited" /\ joined
    BY <1>1 DEF SpokenInv, LaneInv, SpeechOver, SpeechInv, ControlInv
  <2> QED
    BY <2>1, <2>2, <2>3, <2>4 DEF ResponseSafe
<1> QED
  BY <1>1, AgentAlways, ExcusalAlways, SpokenAlways, PTL

\* ConversationTurnCompleted is told only when the agent has returned, every sentence
\* that was passed to push() has been synthesized, in order, and the utterance was ended
\* (src/src/session.cpp, on_completed).  That these sentences are all the agent said is
\* CompletedMeansSpoken.
SpokenWhole ==
    told = "completed" => Returned /\ Spoken = segments /\ (started => ended)

\* Nothing that was queued for speech is unsaid when a turn is told completed, for any
\* capacity of the queue and wherever an interrupt or an error falls.
THEOREM CompletedIsSpoken == Spec => []SpokenWhole
<1>1. ASSUME SpokenInv PROVE SpokenWhole
  <2> SUFFICES ASSUME told = "completed" PROVE Returned /\ Spoken = segments /\ (started => ended)
    BY DEF SpokenWhole
  <2>1. Returned /\ ~Tts!Cancelled /\ lane = "over" /\ SpeechOver
    BY <1>1 DEF SpokenInv, Handed, LaneInv
  <2>2. /\ started => worker = "exited" /\ ended /\ queue = <<>> /\ producer # "pushing"
        /\ ~started => accepted = <<>> /\ segments = <<>>
    BY <1>1, <2>1 DEF SpokenInv, SpeechOver, SpeechInv, ControlInv, LaneInv, Unmade
  <2>3. /\ accepted \in Seq(Sentences) /\ taken \in Seq(Sentences) /\ queue \in Seq(Sentences)
        /\ Len(accepted) \in Nat /\ Len(taken) \in Nat
    BY <1>1, LenProperties DEF SpokenInv, SpeechInv, Tts!TypeOK, Sentences
  <2>4. taken \o queue = accepted /\ Len(taken) <= Len(accepted)
    BY <1>1, <2>1 DEF SpokenInv, SpeechInv, OrderInv, Tts!SpokenInOrder, Tts!Cancelled
  <2>5. Len(segments) = Len(accepted)
    <3>1. CASE started
      BY <1>1, <2>1, <2>2, <3>1 DEF SpokenInv, Handed
    <3>2. CASE ~started
      BY <2>2, <3>2
    <3> QED
      BY <3>1, <3>2
  <2>6. taken = accepted
    <3>1. CASE started
      BY <2>2, <2>3, <2>4, <3>1, ConcatEmptySeq
    <3>2. CASE ~started
      <4>1. Len(accepted) = 0
        BY <2>2, <3>2
      <4>2. Len(taken) = 0
        BY <4>1, <2>3, <2>4
      <4>3. \A s \in Seq(Sentences) : s # <<>> => Len(s) \in Nat \ {0}
        BY EmptySeq
      <4>4. taken = <<>>
        BY <4>2, <4>3, <2>3
      <4> QED
        BY <4>4, <2>2, <3>2
    <3> QED
      BY <3>1, <3>2
  <2>7. \A i \in 1..Len(taken) : taken[i] = i
    BY <1>1, <2>6 DEF SpokenInv, SpeechInv, OrderInv
  <2>8. segments = [i \in 1..Len(segments) |-> segments[i]]
    <3>1. segments \in Seq({segments[i] : i \in 1..Len(segments)})
      BY <1>1 DEF SpokenInv, Handed
    <3> DEFINE S == {segments[i] : i \in 1..Len(segments)}
    <3>2. segments \in Seq(S)
      BY <3>1
    <3> HIDE DEF S
    <3>3. segments \in [1..Len(segments) -> S]
      BY <3>2, LenProperties
    <3> QED
      BY <3>3
  <2>9. Spoken = [i \in 1..Len(segments) |-> segments[i]]
    BY <2>5, <2>6, <2>7 DEF Spoken
  <2> QED
    BY <2>1, <2>2, <2>8, <2>9
<1> QED
  BY <1>1, SpokenAlways, PTL

-----------------------------------------------------------------------------
(* The observer                                                            *)

AgentKeys == {k \in Keys : k.phase \in AgentPhases}

\* The keys of the turn, and that another session's is none of them.
LEMMA KeyFacts ==
    ASSUME NEW phase \in Phases, NEW name \in Nat
    PROVE  /\ Key(Turn, phase, name) \in Keys
           /\ Key(Turn, phase, name).turn = Turn
           /\ Key(Turn, phase, name).phase = phase /\ Key(Turn, phase, name).name = name
           /\ Key(Turn, phase, name) \in AgentKeys <=> phase \in AgentPhases
BY DEF Key, Keys, AgentKeys

LEMMA ForeignIsNone ==
    /\ Foreign \notin Keys /\ Foreign.turn # Turn
    /\ \A k \in Keys : k.turn = Turn
BY DEF Foreign, Key, Keys, Turn

\* From o to n keys of A may be added and those of R are gone, samples are taken of M
\* only; if P holds and no span was rejected, exactly that happens and nothing is counted.
Change(o, n, A, R, M, P) ==
    /\ Kind(n)
    /\ n.measured \subseteq o.measured \union M
    /\ o.counted \subseteq n.counted
    /\ Pending(n) \subseteq (Pending(o) \union A) \ R
    /\ P /\ Clean(o) /\ ~Rejections(n) =>
          Clean(n) /\ Pending(n) = (Pending(o) \union A) \ R

LEMMA NoChange ==
    ASSUME NEW o, Kind(o)
    PROVE  Change(o, o, {}, {}, {}, TRUE)
BY DEF Change

LEMMA BeginSpan ==
    ASSUME NEW o, Kind(o), NEW k \in Keys
    PROVE  Change(o, Begin(o, k), {k}, {}, {}, k \notin Pending(o))
<1> DEFINE n == Begin(o, k)
<1>k. /\ o = [starts |-> o.starts, measured |-> o.measured, counted |-> o.counted]
      /\ o.starts \in [Pending(o) -> BOOLEAN]
      /\ Pending(o) \subseteq Keys \union {Foreign} /\ Foreign \in Pending(o)
      /\ IsFiniteSet(Pending(o)) /\ Cardinality(Pending(o)) <= MaxSpans
      /\ Cardinality(Pending(o)) \in Nat /\ MaxSpans \in Nat
  BY SpanLimitAssumption, FS_CardinalityType DEF Kind
<1>1. CASE k \in Pending(o)
  <2> DEFINE f == [o.starts EXCEPT ![k] = FALSE]
             c == o.counted \union {"duplicate_starts"}
  <2>1. n = [starts |-> f, measured |-> o.measured, counted |-> c]
    <3>1. n = [o EXCEPT !.starts[k] = FALSE, !.counted = @ \union {"duplicate_starts"}]
      BY <1>1 DEF Begin
    <3> QED
      BY <3>1, <1>k
  <2>2. f \in [Pending(o) -> BOOLEAN]
    BY <1>k
  <2> HIDE DEF f, n
  <2>3. n.starts = f /\ n.measured = o.measured /\ n.counted = c
    BY <2>1
  <2>4. Pending(n) = Pending(o)
    BY <2>2, <2>3 DEF Pending
  <2>5. Kind(n)
    BY <2>1, <2>2, <2>3, <2>4, <1>k DEF Kind
  <2> QED
    BY <2>3, <2>4, <2>5, <1>1 DEF Change, n
<1>2. CASE k \notin Pending(o) /\ Full(o)
  <2> DEFINE c == o.counted \union {"span_limit_rejections"}
  <2>1. n = [starts |-> o.starts, measured |-> o.measured, counted |-> c]
    <3>1. n = [o EXCEPT !.counted = @ \union {"span_limit_rejections"}]
      BY <1>2 DEF Begin
    <3> QED
      BY <3>1, <1>k
  <2> HIDE DEF n
  <2>3. n.starts = o.starts /\ n.measured = o.measured /\ n.counted = c
    BY <2>1
  <2>4. Pending(n) = Pending(o)
    BY <2>3 DEF Pending
  <2>5. Kind(n)
    BY <2>1, <2>3, <2>4, <1>k DEF Kind
  <2>6. Rejections(n)
    BY <2>3 DEF Rejections
  <2> QED
    BY <2>3, <2>4, <2>5, <2>6 DEF Change, n
<1>3. CASE k \notin Pending(o) /\ ~Full(o)
  <2> DEFINE f == [x \in Pending(o) \union {k} |-> x = k \/ o.starts[x]]
  <2>1. n = [starts |-> f, measured |-> o.measured, counted |-> o.counted]
    <3>1. n = [o EXCEPT !.starts = f]
      BY <1>3 DEF Begin
    <3> QED
      BY <3>1, <1>k
  <2>2. /\ f \in [Pending(o) \union {k} -> BOOLEAN]
        /\ \A x \in Pending(o) \union {k} : f[x] = (x = k \/ o.starts[x])
        /\ DOMAIN f = Pending(o) \union {k}
    BY <1>k
  <2> HIDE DEF f, n
  <2>3. n.starts = f /\ n.measured = o.measured /\ n.counted = o.counted
    BY <2>1
  <2>4. Pending(n) = Pending(o) \union {k}
    BY <2>2, <2>3 DEF Pending
  <2>5. IsFiniteSet(Pending(n)) /\ Cardinality(Pending(n)) = Cardinality(Pending(o)) + 1
    BY <2>4, <1>3, <1>k, FS_AddElement
  <2>6. Cardinality(Pending(n)) <= MaxSpans
    <3> DEFINE c == Cardinality(Pending(o))
    <3>1. c \in Nat /\ MaxSpans \in Nat
      BY <1>k
    <3>2. ~(c >= MaxSpans)
      <4>1. ~Full(o)
        BY <1>3
      <4> QED
        BY <4>1, Zenon DEF Full
    <3>3. Cardinality(Pending(n)) = c + 1
      BY <2>5
    <3> HIDE DEF c
    <3> QED
      BY <3>1, <3>2, <3>3
  <2>7. Kind(n)
    BY <2>1, <2>2, <2>3, <2>4, <2>5, <2>6, <1>k DEF Kind
  <2>8. Clean(o) => Clean(n)
    BY <2>2, <2>3, <2>4 DEF Clean
  <2> QED
    BY <2>3, <2>4, <2>7, <2>8 DEF Change, n
<1> QED
  BY <1>1, <1>2, <1>3

\* Removing spans of the turn.
LEMMA WithoutSpan ==
    ASSUME NEW o, Kind(o), NEW keys, Foreign \notin keys
    PROVE  /\ Kind(Without(o, keys)) /\ Pending(Without(o, keys)) = Pending(o) \ keys
           /\ Without(o, keys).measured = o.measured /\ Without(o, keys).counted = o.counted
           /\ Clean(o) => Clean(Without(o, keys))
<1> DEFINE n == Without(o, keys)
           f == [k \in Pending(o) \ keys |-> o.starts[k]]
<1>k. /\ o = [starts |-> o.starts, measured |-> o.measured, counted |-> o.counted]
      /\ o.starts \in [Pending(o) -> BOOLEAN]
      /\ Pending(o) \subseteq Keys \union {Foreign} /\ Foreign \in Pending(o)
      /\ IsFiniteSet(Pending(o)) /\ Cardinality(Pending(o)) <= MaxSpans
      /\ Cardinality(Pending(o)) \in Nat /\ MaxSpans \in Nat
  BY SpanLimitAssumption, FS_CardinalityType DEF Kind
<1>1. n = [starts |-> f, measured |-> o.measured, counted |-> o.counted]
  <2>1. n = [o EXCEPT !.starts = f]
    BY DEF Without
  <2> QED
    BY <2>1, <1>k
<1>2. /\ f \in [Pending(o) \ keys -> BOOLEAN]
      /\ \A x \in Pending(o) \ keys : f[x] = o.starts[x]
      /\ DOMAIN f = Pending(o) \ keys
  BY <1>k
<1> HIDE DEF f, n
<1>3. n.starts = f /\ n.measured = o.measured /\ n.counted = o.counted
  BY <1>1
<1>4. Pending(n) = Pending(o) \ keys
  BY <1>2, <1>3 DEF Pending
<1>5. /\ IsFiniteSet(Pending(n)) /\ Cardinality(Pending(n)) <= Cardinality(Pending(o))
      /\ Cardinality(Pending(n)) \in Nat
  <2>1. Pending(n) \subseteq Pending(o)
    BY <1>4
  <2> QED
    BY <2>1, <1>k, FS_Subset, FS_CardinalityType
<1>6. Cardinality(Pending(n)) <= MaxSpans
  BY <1>5, <1>k
<1>7. Kind(n)
  BY <1>1, <1>2, <1>3, <1>4, <1>5, <1>6, <1>k DEF Kind
<1>8. Clean(o) => Clean(n)
  BY <1>2, <1>3, <1>4 DEF Clean
<1> QED
  BY <1>3, <1>4, <1>7, <1>8 DEF n

LEMMA EndSpan ==
    ASSUME NEW o, Kind(o), NEW k \in Keys, NEW required \in BOOLEAN
    PROVE  Change(o, End(o, k, required), {}, {k}, {k}, required => k \in Pending(o))
<1> DEFINE n == End(o, k, required)
<1>k. /\ o = [starts |-> o.starts, measured |-> o.measured, counted |-> o.counted]
      /\ o.starts \in [Pending(o) -> BOOLEAN]
      /\ Pending(o) \subseteq Keys \union {Foreign} /\ Foreign \in Pending(o)
      /\ IsFiniteSet(Pending(o)) /\ Cardinality(Pending(o)) <= MaxSpans
  BY DEF Kind
<1>1. CASE k \notin Pending(o) /\ required
  <2> DEFINE c == o.counted \union {"unmatched_endpoints"}
  <2>1. n = [starts |-> o.starts, measured |-> o.measured, counted |-> c]
    <3>1. n = [o EXCEPT !.counted = @ \union {"unmatched_endpoints"}]
      BY <1>1 DEF End
    <3> QED
      BY <3>1, <1>k
  <2> HIDE DEF n
  <2>3. n.starts = o.starts /\ n.measured = o.measured /\ n.counted = c
    BY <2>1
  <2>4. Pending(n) = Pending(o)
    BY <2>3 DEF Pending
  <2>5. Kind(n)
    BY <2>1, <2>3, <2>4, <1>k DEF Kind
  <2> QED
    BY <2>3, <2>4, <2>5, <1>1 DEF Change, n
<1>2. CASE k \notin Pending(o) /\ ~required
  <2>1. n = o
    BY <1>2 DEF End
  <2> QED
    BY <2>1, <1>2 DEF Change
<1>w. Foreign \notin {k}
  BY ForeignIsNone
<1> DEFINE w == Without(o, {k})
<1>v. /\ Kind(w) /\ Pending(w) = Pending(o) \ {k}
      /\ w.measured = o.measured /\ w.counted = o.counted
      /\ Clean(o) => Clean(w)
  BY <1>w, WithoutSpan
<1>3. CASE k \in Pending(o) /\ o.starts[k]
  <2>1. n = [w EXCEPT !.measured = @ \union {k}]
    BY <1>3 DEF End
  <2> HIDE DEF w, n
  <2>2. n = [starts |-> w.starts, measured |-> o.measured \union {k}, counted |-> o.counted]
    BY <2>1, <1>v DEF Kind
  <2>3. n.starts = w.starts /\ n.measured = o.measured \union {k} /\ n.counted = o.counted
    BY <2>2
  <2>4. Pending(n) = Pending(o) \ {k}
    BY <2>3, <1>v DEF Pending
  <2>5. Kind(n) /\ (Clean(o) => Clean(n))
    BY <2>2, <2>3, <2>4, <1>v DEF Kind, Clean
  <2> QED
    BY <2>3, <2>4, <2>5 DEF Change, n
<1>4. CASE k \in Pending(o) /\ ~o.starts[k]
  <2>1. n = [w EXCEPT !.counted = @ \union {"invalid_intervals"}]
    BY <1>4 DEF End
  <2> HIDE DEF w, n
  <2>2. n = [starts |-> w.starts, measured |-> o.measured,
             counted |-> o.counted \union {"invalid_intervals"}]
    BY <2>1, <1>v DEF Kind
  <2>3. /\ n.starts = w.starts /\ n.measured = o.measured
        /\ n.counted = o.counted \union {"invalid_intervals"}
    BY <2>2
  <2>4. Pending(n) = Pending(o) \ {k}
    BY <2>3, <1>v DEF Pending
  <2>5. Kind(n)
    BY <2>2, <2>3, <2>4, <1>v DEF Kind
  <2>6. ~Clean(o)
    BY <1>4 DEF Clean
  <2> QED
    BY <2>3, <2>4, <2>5, <2>6 DEF Change, n
<1> QED
  BY <1>1, <1>2, <1>3, <1>4

LEMMA DiscardSpan ==
    ASSUME NEW o, Kind(o)
    PROVE  /\ Change(o, Discard(o, Turn, TRUE), {}, AgentKeys, {}, TRUE)
           /\ Change(o, Discard(o, Turn, FALSE), {}, Keys, {}, TRUE)
<1> DEFINE a == {k \in Pending(o) : k.turn = Turn /\ (TRUE => k.phase \in AgentPhases)}
           b == {k \in Pending(o) : k.turn = Turn /\ (FALSE => k.phase \in AgentPhases)}
<1>1. Discard(o, Turn, TRUE) = Without(o, a) /\ Discard(o, Turn, FALSE) = Without(o, b)
  BY DEF Discard
<1>2. Pending(o) \subseteq Keys \union {Foreign}
  BY DEF Kind
<1>3. Foreign \notin a /\ Foreign \notin b
  BY ForeignIsNone
<1>4. Pending(o) \ a = Pending(o) \ AgentKeys /\ Pending(o) \ b = Pending(o) \ Keys
  BY <1>2, ForeignIsNone DEF AgentKeys
<1> HIDE DEF a, b
<1>5. /\ Kind(Without(o, a)) /\ Pending(Without(o, a)) = Pending(o) \ a
      /\ Without(o, a).measured = o.measured /\ Without(o, a).counted = o.counted
      /\ Clean(o) => Clean(Without(o, a))
  BY <1>3, WithoutSpan
<1>6. /\ Kind(Without(o, b)) /\ Pending(Without(o, b)) = Pending(o) \ b
      /\ Without(o, b).measured = o.measured /\ Without(o, b).counted = o.counted
      /\ Clean(o) => Clean(Without(o, b))
  BY <1>3, WithoutSpan
<1> QED
  BY <1>1, <1>4, <1>5, <1>6 DEF Change

\* The events of the agent.
LEMMA AgentEvents ==
    ASSUME NEW o, Kind(o), NEW s \in Nat
    PROVE  /\ Change(o, Observe(o, Event("TurnStarted", Turn, 0)), {Ours("turn")}, {}, {},
                     Ours("turn") \notin Pending(o))
           /\ Change(o, Observe(o, Event("ToolStarted", Turn, 0)), {Ours("tool")}, {}, {},
                     Ours("tool") \notin Pending(o))
           /\ Change(o, Observe(o, Event("ToolCompleted", Turn, 0)), {}, {Ours("tool")}, {Ours("tool")},
                     Ours("tool") \in Pending(o))
           /\ Change(o, Observe(o, Event("FirstToken", Turn, s)), {}, {Key(Turn, "first_token", s)},
                     {Key(Turn, "first_token", s)}, Key(Turn, "first_token", s) \in Pending(o))
           /\ Change(o, Observe(o, Event("TurnCancelled", Turn, 0)), {}, AgentKeys, {}, TRUE)
           /\ Change(o, Observe(o, Event("TurnFailed", Turn, 0)), {}, AgentKeys, {}, TRUE)
<1>k. /\ Ours("turn") \in Keys /\ Ours("tool") \in Keys /\ Key(Turn, "first_token", s) \in Keys
  BY KeyFacts DEF Ours, Phases, AgentPhases
<1>1. Observe(o, Event("TurnStarted", Turn, 0)) = Begin(o, Ours("turn"))
  BY DEF Observe, Event, Ours
<1>2. Observe(o, Event("ToolStarted", Turn, 0)) = Begin(o, Ours("tool"))
  BY DEF Observe, Event, Ours
<1>3. Observe(o, Event("ToolCompleted", Turn, 0)) = End(o, Ours("tool"), TRUE)
  BY DEF Observe, Event, Ours
<1>4. Observe(o, Event("FirstToken", Turn, s)) = End(o, Key(Turn, "first_token", s), TRUE)
  BY DEF Observe, Event
<1>5. Observe(o, Event("TurnCancelled", Turn, 0)) = Discard(o, Turn, TRUE)
  BY DEF Observe, Event
<1>6. Observe(o, Event("TurnFailed", Turn, 0)) = Discard(o, Turn, TRUE)
  BY DEF Observe, Event
<1>7. /\ Change(o, Begin(o, Ours("turn")), {Ours("turn")}, {}, {}, Ours("turn") \notin Pending(o))
      /\ Change(o, Begin(o, Ours("tool")), {Ours("tool")}, {}, {}, Ours("tool") \notin Pending(o))
  BY <1>k, BeginSpan
<1>8. ASSUME NEW k \in Keys PROVE Change(o, End(o, k, TRUE), {}, {k}, {k}, k \in Pending(o))
  <2>1. Change(o, End(o, k, TRUE), {}, {k}, {k}, TRUE => k \in Pending(o))
    BY EndSpan
  <2> QED
    BY <2>1 DEF Change
<1> QED
  BY <1>k, <1>1, <1>2, <1>3, <1>4, <1>5, <1>6, <1>7, <1>8, DiscardSpan

LEMMA ModelStartedSpans ==
    ASSUME NEW o, Kind(o), NEW s \in Nat
    PROVE  Change(o, Observe(o, Event("ModelStarted", Turn, s)),
                  {Key(Turn, "model", s), Key(Turn, "first_token", s)}, {}, {},
                  \A k \in Pending(o) : ~OfModel(k))
<1> DEFINE a == Key(Turn, "model", s)
           b == Key(Turn, "first_token", s)
           m == Begin(o, a)
           n == Begin(m, b)
<1>1. Observe(o, Event("ModelStarted", Turn, s)) = n
  BY DEF Observe, Event
<1>2. /\ a \in Keys /\ b \in Keys /\ a # b /\ OfModel(a) /\ OfModel(b)
  BY KeyFacts DEF OfModel, Phases, AgentPhases
<1> HIDE DEF a, b
<1>3. Change(o, m, {a}, {}, {}, a \notin Pending(o))
  BY <1>2, BeginSpan
<1> HIDE DEF m
<1>4. Kind(m)
  BY <1>3 DEF Change
<1>5. Change(m, n, {b}, {}, {}, b \notin Pending(m))
  BY <1>2, <1>4, BeginSpan
<1> HIDE DEF n
<1>7. ASSUME \A k \in Pending(o) : ~OfModel(k) PROVE a \notin Pending(o) /\ b \notin Pending(o)
  BY <1>7, <1>2
<1>8. Change(o, n, {a, b}, {}, {}, \A k \in Pending(o) : ~OfModel(k))
  BY <1>2, <1>3, <1>5, <1>7 DEF Change, Rejections
<1> QED
  BY <1>1, <1>8 DEF a, b

LEMMA ModelCompletedSpans ==
    ASSUME NEW o, Kind(o), NEW s \in Nat
    PROVE  Change(o, Observe(o, Event("ModelCompleted", Turn, s)), {},
                  {Key(Turn, "model", s), Key(Turn, "first_token", s)}, {Key(Turn, "model", s)},
                  Key(Turn, "model", s) \in Pending(o))
<1> DEFINE a == Key(Turn, "model", s)
           b == Key(Turn, "first_token", s)
           m == End(o, a, TRUE)
           n == Without(m, {b})
<1>1. Observe(o, Event("ModelCompleted", Turn, s)) = n
  BY DEF Observe, Event
<1>2. /\ a \in Keys /\ b \in Keys /\ Foreign \notin {b}
  BY KeyFacts, ForeignIsNone DEF Phases, AgentPhases
<1> HIDE DEF a, b
<1>3. Change(o, m, {}, {a}, {a}, TRUE => a \in Pending(o))
  BY <1>2, EndSpan
<1> HIDE DEF m
<1>4. /\ Kind(n) /\ Pending(n) = Pending(m) \ {b}
      /\ n.measured = m.measured /\ n.counted = m.counted
      /\ Clean(m) => Clean(n)
  BY <1>2, <1>3, WithoutSpan DEF Change
<1> HIDE DEF n
<1>5. Change(o, n, {}, {a, b}, {a}, a \in Pending(o))
  BY <1>3, <1>4 DEF Change, Rejections
<1> QED
  BY <1>1, <1>5 DEF a, b

LEMMA TurnCompletedSpans ==
    ASSUME NEW o, Kind(o)
    PROVE  Change(o, Observe(o, Event("TurnCompleted", Turn, 0)), {}, AgentKeys, {Ours("turn")},
                  Ours("turn") \in Pending(o))
<1> DEFINE a == Ours("turn")
           m == End(o, a, TRUE)
           n == Discard(m, Turn, TRUE)
<1>1. Observe(o, Event("TurnCompleted", Turn, 0)) = n
  BY DEF Observe, Event, Ours
<1>2. a \in Keys /\ a \in AgentKeys
  BY KeyFacts DEF Ours, Phases, AgentPhases
<1> HIDE DEF a
<1>3. Change(o, m, {}, {a}, {a}, TRUE => a \in Pending(o))
  BY <1>2, EndSpan
<1> HIDE DEF m
<1>4. Kind(m)
  BY <1>3 DEF Change
<1>5. Change(m, n, {}, AgentKeys, {}, TRUE)
  BY <1>4, DiscardSpan
<1> HIDE DEF n
<1>6. Change(o, n, {}, AgentKeys, {a}, a \in Pending(o))
  BY <1>2, <1>3, <1>5 DEF Change, Rejections
<1> QED
  BY <1>1, <1>6 DEF a

\* The events of the speech and of the conversation's turn.
LEMMA TtsChunkStartedSpans ==
    ASSUME NEW o, Kind(o)
    PROVE  LET n == Observe(o, Event("TtsChunkStarted", Turn, 0))
               A == {Ours("tts_first_audio"), Ours("tts_total")}
           IN IF Ours("tts_total") \in Pending(o) THEN n = o
              ELSE Change(o, n, A, {}, {}, Ours("tts_first_audio") \notin Pending(o))
<1> DEFINE a == Ours("tts_first_audio")
           b == Ours("tts_total")
           m == Begin(o, a)
           n == Begin(m, b)
           e == Observe(o, Event("TtsChunkStarted", Turn, 0))
<1>1. e = IF b \in Pending(o) THEN o ELSE n
  BY DEF Observe, Event, Ours
<1>2. /\ a \in Keys /\ b \in Keys /\ a # b
  BY KeyFacts DEF Ours, Phases, AgentPhases
<1> HIDE DEF a, b, e
<1>3. Change(o, m, {a}, {}, {}, a \notin Pending(o))
  BY <1>2, BeginSpan
<1> HIDE DEF m
<1>4. Kind(m)
  BY <1>3 DEF Change
<1>5. Change(m, n, {b}, {}, {}, b \notin Pending(m))
  BY <1>2, <1>4, BeginSpan
<1> HIDE DEF n
<1>7. b \notin Pending(o) => Change(o, n, {a, b}, {}, {}, a \notin Pending(o))
  BY <1>2, <1>3, <1>5 DEF Change, Rejections
<1> QED
  BY <1>1, <1>7 DEF a, b, e

LEMMA FirstAudioSpans ==
    ASSUME NEW o, Kind(o)
    PROVE  Change(o, Observe(o, Event("FirstAudio", Turn, 0)), {},
                  {Ours("tts_first_audio"), Ours("s2s_first_audio")},
                  {Ours("tts_first_audio"), Ours("s2s_first_audio")},
                  Ours("tts_first_audio") \in Pending(o))
<1> DEFINE a == Ours("tts_first_audio")
           b == Ours("s2s_first_audio")
           m == End(o, a, TRUE)
           n == End(m, b, FALSE)
<1>1. Observe(o, Event("FirstAudio", Turn, 0)) = n
  BY DEF Observe, Event, Ours
<1>2. a \in Keys /\ b \in Keys
  BY KeyFacts DEF Ours, Phases, AgentPhases
<1> HIDE DEF a, b
<1>3. Change(o, m, {}, {a}, {a}, TRUE => a \in Pending(o))
  BY <1>2, EndSpan
<1> HIDE DEF m
<1>4. Kind(m)
  BY <1>3 DEF Change
<1>5. Change(m, n, {}, {b}, {b}, FALSE => b \in Pending(m))
  BY <1>2, <1>4, EndSpan
<1> HIDE DEF n
<1>6. Change(o, n, {}, {a, b}, {a, b}, a \in Pending(o))
  BY <1>3, <1>5 DEF Change, Rejections
<1> QED
  BY <1>1, <1>6 DEF a, b

LEMMA TurnOverSpans ==
    ASSUME NEW o, Kind(o)
    PROVE  /\ Change(o, Observe(o, Event("SpeechCompleted", Turn, 0)), {}, {Ours("tts_total")},
                     {Ours("tts_total")}, TRUE)
           /\ Change(o, Observe(o, Event("ConversationTurnCompleted", Turn, 0)), {}, Keys,
                     {Ours("conversation_turn")}, TRUE)
           /\ Change(o, Observe(o, Event("ConversationTurnCancelled", Turn, 0)), {}, Keys, {}, TRUE)
           /\ Change(o, Observe(o, Event("ConversationTurnFailed", Turn, 0)), {}, Keys, {}, TRUE)
<1> DEFINE a == Ours("conversation_turn")
           m == End(o, a, FALSE)
           n == Discard(m, Turn, FALSE)
<1>k. a \in Keys /\ Ours("tts_total") \in Keys
  BY KeyFacts DEF Ours, Phases, AgentPhases
<1>1. Observe(o, Event("SpeechCompleted", Turn, 0)) = End(o, Ours("tts_total"), FALSE)
  BY DEF Observe, Event, Ours
<1>2. Observe(o, Event("ConversationTurnCompleted", Turn, 0)) = n
  BY DEF Observe, Event, Ours
<1>3. Observe(o, Event("ConversationTurnCancelled", Turn, 0)) = Discard(o, Turn, FALSE)
  BY DEF Observe, Event
<1>4. Observe(o, Event("ConversationTurnFailed", Turn, 0)) = Discard(o, Turn, FALSE)
  BY DEF Observe, Event
<1>5. Change(o, End(o, Ours("tts_total"), FALSE), {}, {Ours("tts_total")}, {Ours("tts_total")}, TRUE)
  <2>1. Change(o, End(o, Ours("tts_total"), FALSE), {}, {Ours("tts_total")}, {Ours("tts_total")},
               FALSE => Ours("tts_total") \in Pending(o))
    BY <1>k, EndSpan
  <2> QED
    BY <2>1 DEF Change
<1> HIDE DEF a
<1>6. Change(o, m, {}, {a}, {a}, FALSE => a \in Pending(o))
  BY <1>k, EndSpan
<1> HIDE DEF m
<1>7. Kind(m)
  BY <1>6 DEF Change
<1>8. Change(m, n, {}, Keys, {}, TRUE)
  BY <1>7, DiscardSpan
<1> HIDE DEF n
<1>9. Change(o, n, {}, Keys, {a}, TRUE)
  BY <1>k, <1>6, <1>8 DEF Change, Rejections
<1> QED
  BY <1>1, <1>2, <1>3, <1>4, <1>5, <1>9, DiscardSpan DEF a

-----------------------------------------------------------------------------
(* The spans of a turn                                                     *)

\* The keys of the agent and of the speech are never the same.
LEMMA KeysDiffer ==
    /\ {Ours("turn"), Ours("tool")} \subseteq AgentKeys
    /\ \A n \in Nat : Key(Turn, "model", n) \in AgentKeys /\ Key(Turn, "first_token", n) \in AgentKeys
    /\ {Ours("tts_first_audio"), Ours("tts_total"), Ours("s2s_first_audio"),
        Ours("conversation_turn")} \subseteq Keys \ AgentKeys
    /\ Ours("turn") # Ours("tool")
    /\ Ours("tts_first_audio") # Ours("tts_total") /\ Ours("s2s_first_audio") # Ours("tts_total")
    /\ Ours("conversation_turn") \notin
          {Ours("tts_total"), Ours("tts_first_audio"), Ours("s2s_first_audio")}
    /\ \A n \in Nat : /\ Key(Turn, "model", n) \notin {Ours("turn"), Ours("tool")}
                      /\ Key(Turn, "first_token", n) \notin {Ours("turn"), Ours("tool")}
BY DEF Ours, AgentKeys, Keys, Phases, AgentPhases, Key

\* Which of the turn's keys belong to a model call.
LEMMA ModelKeys ==
    /\ ~OfModel(Ours("turn")) /\ ~OfModel(Ours("tool"))
    /\ ~OfModel(Ours("tts_first_audio")) /\ ~OfModel(Ours("tts_total"))
    /\ ~OfModel(Ours("s2s_first_audio")) /\ ~OfModel(Foreign)
    /\ \A k \in Keys : OfModel(k) => k \in AgentKeys
    /\ \A n \in Nat : \A p \in {"model", "first_token"} :
          OfModel(Key(Turn, p, n)) /\ Key(Turn, p, n).name = n
    /\ \A k \in Keys : OfModel(k) => k = Key(Turn, "model", k.name) \/ k = Key(Turn, "first_token", k.name)
BY DEF Ours, OfModel, Foreign, Turn, Key, Keys, AgentKeys, AgentPhases

\* What a step of the agent does to the spans: keys of A are added, those of R removed
\* and samples taken of M, which its place and its spans allow and account for.
AgentChange(A, R, M) ==
    /\ Change(observer, observer', A, R, M, AgentSpans)
    /\ A \subseteq AgentKeys /\ R \subseteq AgentKeys /\ M \subseteq AgentKeys
    /\ AgentSpans /\ Pending(observer') = (Pending(observer) \union A) \ R => AgentSpans'
    /\ (At("failed") \/ Returned)' => R = AgentKeys
    /\ Ours("turn") \in M => At("returned")'

LEMMA AgentChangeInv ==
    ASSUME AgentInv, SpansInv, NEW A, NEW R, NEW M, AgentChange(A, R, M),
           lane = "agent", UNCHANGED <<lane, told, started, first_audio>>, ~Returned
    PROVE  SpansInv'
<1>c. /\ Kind(observer') /\ observer'.measured \subseteq observer.measured \union M
      /\ observer.counted \subseteq observer'.counted
      /\ Pending(observer') \subseteq (Pending(observer) \union A) \ R
      /\ AgentSpans /\ Clean(observer) /\ ~Rejections(observer') =>
            Clean(observer') /\ Pending(observer') = (Pending(observer) \union A) \ R
      /\ A \subseteq AgentKeys /\ R \subseteq AgentKeys /\ M \subseteq AgentKeys
      /\ AgentSpans /\ Pending(observer') = (Pending(observer) \union A) \ R => AgentSpans'
      /\ (At("failed") \/ Returned)' => R = AgentKeys
      /\ Ours("turn") \in M => At("returned")'
  BY DEF Change, AgentChange
<1>1. (At("failed") \/ Returned)' =>
         \A k \in Pending(observer') : k.turn = Turn => k.phase \notin AgentPhases
  <2> SUFFICES ASSUME (At("failed") \/ Returned)', NEW k \in Pending(observer'), k.turn = Turn
               PROVE  k.phase \notin AgentPhases
    OBVIOUS
  <2>1. k \notin AgentKeys
    BY <1>c
  <2>2. k \in Keys
    BY <1>c, ForeignIsNone DEF Kind
  <2> QED
    BY <2>1, <2>2 DEF AgentKeys
<1>2. Ours("turn") \in observer'.measured => At("returned")'
  BY <1>c DEF SpansInv, Returned
<1>3. Ours("conversation_turn") \in observer'.measured => told' = "completed"
  BY <1>c, KeysDiffer DEF SpansInv
<1>4. ASSUME ~Rejections(observer') PROVE Clean(observer') /\ AgentSpans' /\ SpeechSpans'
  <2>1. ~Rejections(observer)
    BY <1>4, <1>c DEF Rejections
  <2>2. Clean(observer) /\ AgentSpans /\ SpeechSpans
    BY <2>1 DEF SpansInv
  <2>3. Clean(observer') /\ Pending(observer') = (Pending(observer) \union A) \ R
    BY <1>4, <2>2, <1>c
  <2>4. AgentSpans'
    BY <2>2, <2>3, <1>c
  <2>5. SpeechSpans'
    BY <1>c, <2>2, <2>3, KeysDiffer DEF SpeechSpans
  <2> QED
    BY <2>3, <2>4, <2>5
<1>5. lane' = "over" => Pending(observer') = {Foreign}
  OBVIOUS
<1> QED
  BY <1>c, <1>1, <1>2, <1>3, <1>4, <1>5 DEF SpansInv

\* An exception without an event.
LEMMA UnwindSpans ==
    ASSUME AgentInv, SpansInv, lane = "agent", UNCHANGED <<lane, told, started, first_audio>>,
           ~Returned, ~At("failed"), ~At("begin"), Unwind, observer' = observer
    PROVE  SpansInv'
<1>1. agent'.at = "throw"
  BY DEF Unwind
<1>2. Change(observer, observer', {}, {}, {}, TRUE)
  BY NoChange DEF SpansInv
<1>3. AgentSpans /\ Pending(observer') = (Pending(observer) \union {}) \ {} => AgentSpans'
  BY <1>1 DEF AgentSpans, At, Returned, InModel
<1>4. ~(At("failed") \/ Returned)'
  BY <1>1 DEF At, Returned
<1>z. AgentChange({}, {}, {})
  BY <1>2, <1>3, <1>4, KeysDiffer DEF AgentChange, Change
<1> QED
  BY <1>2, <1>3, <1>4, <1>z, AgentChangeInv

\* A step within a model call that tells nothing.
LEMMA InModelSpans ==
    ASSUME AgentInv, SpansInv, lane = "agent", UNCHANGED <<lane, told, started, first_audio>>,
           InModel, InModel', agent'.step = agent.step, observer' = observer,
           stream'.text = <<>> => stream.text = <<>>
    PROVE  SpansInv'
<1>1. agent.at \in {"attempt", "sending", "transfer", "consumer", "last", "backoff", "answer"}
      /\ agent'.at \in {"attempt", "sending", "transfer", "consumer", "last", "backoff", "answer"}
  BY DEF InModel
<1>2. Change(observer, observer', {}, {}, {}, TRUE)
  BY NoChange DEF SpansInv
<1>3. AgentSpans /\ Pending(observer') = (Pending(observer) \union {}) \ {} => AgentSpans'
  BY <1>1 DEF AgentSpans, At, InModel
<1>4. ~(At("failed") \/ Returned)' /\ ~Returned
  BY <1>1 DEF At, Returned
<1>z. AgentChange({}, {}, {})
  BY <1>2, <1>3, <1>4, KeysDiffer DEF AgentChange, Change
<1> QED
  BY <1>2, <1>3, <1>4, <1>z, AgentChangeInv

LEMMA BeginTurnSpans ==
    ASSUME AgentInv, SpansInv, lane = "agent", UNCHANGED <<lane, told, started, first_audio>>,
           BeginTurn
    PROVE  SpansInv'
<1>1. agent.at = "begin" /\ (agent'.at = "throw" \/ agent'.at = "step")
  BY GoTyped DEF BeginTurn, Unwind, At, AgentInv, Places
<1>2. Change(observer, observer', {Ours("turn")}, {}, {}, Ours("turn") \notin Pending(observer))
  BY AgentEvents DEF SpansInv, BeginTurn, Emits
<1>3. AgentSpans => Ours("turn") \notin Pending(observer)
  BY <1>1 DEF AgentSpans, At
<1>4. AgentSpans /\ Pending(observer') = (Pending(observer) \union {Ours("turn")}) \ {} => AgentSpans'
  BY <1>1, KeysDiffer, ModelKeys DEF AgentSpans, At, InModel
<1>5. ~(At("failed") \/ Returned)' /\ ~Returned
  BY <1>1 DEF At, Returned
<1>z. AgentChange({Ours("turn")}, {}, {})
  BY <1>2, <1>3, <1>4, <1>5, KeysDiffer DEF AgentChange, Change
<1> QED
  BY <1>2, <1>3, <1>4, <1>5, <1>z, AgentChangeInv

LEMMA BeginStepSpans ==
    ASSUME AgentInv, SpansInv, lane = "agent", UNCHANGED <<lane, told, started, first_audio>>,
           BeginStep
    PROVE  SpansInv'
<1>0. agent.at = "step" /\ ~Returned /\ ~At("failed") /\ ~At("begin") /\ agent.step \in Nat
  BY DEF BeginStep, At, Returned, AgentInv, AgentTypes
<1>1. CASE Unwind /\ UNCHANGED observer
  BY <1>0, <1>1, UnwindSpans
<1>2. CASE Emits("ModelStarted", agent.step) /\ Go("attempt")
  <2> DEFINE a == Key(Turn, "model", agent.step)
             b == Key(Turn, "first_token", agent.step)
  <2>1. agent'.at = "attempt" /\ agent'.step = agent.step
    BY <1>2, GoTyped DEF AgentInv, Places
  <2>2. Change(observer, observer', {a, b}, {}, {}, \A k \in Pending(observer) : ~OfModel(k))
    BY <1>0, <1>2, ModelStartedSpans DEF SpansInv, Emits
  <2>3. AgentSpans => \A k \in Pending(observer) : ~OfModel(k)
    BY <1>0 DEF AgentSpans, At, InModel
  <2>4. a \in AgentKeys /\ b \in AgentKeys /\ a.name = agent.step /\ b.name = agent.step
        /\ a # Ours("tool") /\ b # Ours("tool")
    BY <1>0, KeysDiffer, ModelKeys
  <2>5. AgentSpans /\ Pending(observer') = (Pending(observer) \union {a, b}) \ {} => AgentSpans'
    <3> SUFFICES ASSUME AgentSpans, Pending(observer') = (Pending(observer) \union {a, b}) \ {}
                 PROVE  AgentSpans'
      OBVIOUS
    <3> HIDE DEF a, b
    <3>1. /\ Ours("turn") \in Pending(observer) /\ Ours("tool") \notin Pending(observer)
          /\ \A k \in Pending(observer) : ~OfModel(k)
      BY <1>0 DEF AgentSpans, At, InModel
    <3>2. Key(Turn, "model", agent'.step) \in Pending(observer')
          /\ Key(Turn, "first_token", agent'.step) \in Pending(observer')
      BY <2>1 DEF a, b
    <3> QED
      BY <3>1, <3>2, <2>1, <2>4 DEF AgentSpans, At, InModel
  <2>6. ~(At("failed") \/ Returned)'
    BY <2>1 DEF At, Returned
  <2> HIDE DEF a, b
  <2>z. AgentChange({a, b}, {}, {})
    BY <1>0, <2>2, <2>3, <2>4, <2>5, <2>6, KeysDiffer DEF AgentChange, Change
  <2> QED
    BY <1>0, <2>2, <2>3, <2>4, <2>5, <2>6, <2>z, AgentChangeInv
<1> QED
  BY <1>1, <1>2 DEF BeginStep

\* The end of the agent's turn, good or bad, leaves none of its spans.
LEMMA OutSpans ==
    ASSUME AgentInv, SpansInv, lane = "agent", UNCHANGED <<lane, told, started, first_audio>>,
           StepLimit \/ Throw
    PROVE  SpansInv'
<1>1. agent.at \in {"step", "throw"} /\ agent'.at \in {"limit", "failed"}
  BY GoTyped DEF StepLimit, Throw, At, AgentInv, Places
<1>2. Change(observer, observer', {}, AgentKeys, {}, TRUE)
  BY AgentEvents DEF SpansInv, StepLimit, Throw, Emits
<1>3. AgentSpans /\ Pending(observer') = (Pending(observer) \union {}) \ AgentKeys => AgentSpans'
  <2> SUFFICES ASSUME Pending(observer') = (Pending(observer) \union {}) \ AgentKeys
               PROVE  AgentSpans'
    OBVIOUS
  <2>1. \A k \in Pending(observer') : ~OfModel(k)
    BY <1>2, ModelKeys DEF Change, Kind
  <2>2. Ours("tool") \notin Pending(observer')
    BY KeysDiffer
  <2> QED
    BY <1>1, <2>1, <2>2 DEF AgentSpans, At, InModel
<1>4. ~Returned
  BY <1>1 DEF At, Returned
<1>z. AgentChange({}, AgentKeys, {})
  BY <1>2, <1>3, <1>4, KeysDiffer DEF AgentChange, Change
<1> QED
  BY <1>2, <1>3, <1>4, <1>z, AgentChangeInv

LEMMA DeliverSpans ==
    ASSUME AgentInv, SpansInv, lane = "agent", UNCHANGED <<lane, told, started, first_audio>>,
           At("transfer"), NEW n, Assembles(stream, n), NEW consumer, NEW otherwise,
           <<consumer, otherwise>> \in {<<"consumer", "transfer">>, <<"last", "answer">>},
           Deliver(n, consumer, otherwise)
    PROVE  SpansInv'
<1>0. /\ agent.at = "transfer" /\ InModel /\ ~Returned /\ ~At("failed") /\ ~At("begin")
      /\ agent.step \in Nat
  BY DEF At, InModel, Returned, AgentInv, AgentTypes
<1>1. CASE Unwind /\ UNCHANGED observer
  BY <1>0, <1>1, UnwindSpans
<1>2. CASE /\ stream' = n
           /\ Go(IF n.delta # <<>> THEN consumer ELSE otherwise)
           /\ IF n.delta # <<>> /\ stream.text = <<>>
              THEN Emits("FirstToken", agent.step) ELSE UNCHANGED observer
  <2>1. (IF n.delta # <<>> THEN consumer ELSE otherwise) \in {"consumer", "transfer", "last", "answer"}
    OBVIOUS
  <2>2. agent'.at \in {"consumer", "transfer", "last", "answer"} /\ agent'.step = agent.step
    BY <1>2, <2>1, GoTyped DEF AgentInv, Places
  <2>3. InModel'
    BY <2>2 DEF InModel
  <2>4. CASE n.delta # <<>> /\ stream.text = <<>>
    <3> DEFINE b == Key(Turn, "first_token", agent.step)
    <3>1. Change(observer, observer', {}, {b}, {b}, b \in Pending(observer))
      BY <1>0, <1>2, <2>4, AgentEvents DEF SpansInv, Emits
    <3>2. AgentSpans => b \in Pending(observer)
      BY <1>0, <2>4 DEF AgentSpans
    <3>3. stream'.text # <<>>
      BY <1>2, <2>4 DEF Assembles
    <3>4. /\ b \in AgentKeys /\ b # Ours("turn") /\ b # Ours("tool")
          /\ b # Key(Turn, "model", agent.step)
      BY <1>0, KeysDiffer DEF Key
    <3>5. AgentSpans /\ Pending(observer') = (Pending(observer) \union {}) \ {b} => AgentSpans'
      <4> HIDE DEF b
      <4> QED
        BY <1>0, <2>2, <2>3, <3>3, <3>4 DEF AgentSpans, At, InModel
    <3>6. ~(At("failed") \/ Returned)'
      BY <2>2 DEF At, Returned
    <3> HIDE DEF b
    <3>z. AgentChange({}, {b}, {b})
      BY <1>0, <3>1, <3>2, <3>4, <3>5, <3>6, KeysDiffer DEF AgentChange, Change
    <3> QED
      BY <1>0, <3>1, <3>2, <3>4, <3>5, <3>6, <3>z, AgentChangeInv
  <2>5. CASE ~(n.delta # <<>> /\ stream.text = <<>>)
    <3>1. observer' = observer
      BY <1>2, <2>5
    <3>2. stream'.text = <<>> => stream.text = <<>>
      BY <1>2, <2>5 DEF Assembles
    <3> QED
      BY <1>0, <2>2, <2>3, <3>1, <3>2, InModelSpans
  <2> QED
    BY <2>4, <2>5
<1> QED
  BY <1>1, <1>2 DEF Deliver

LEMMA TransportSpans ==
    ASSUME AgentInv, SpansInv, lane = "agent", UNCHANGED <<lane, told, started, first_audio>>,
           \/ BeginAttempt \/ SendRequest \/ BackoffOver \/ Abort \/ TooLarge
           \/ \E code \in {"ok", "fatal", "transient"} : EndTransfer(code)
           \/ \E chunk \in Chunks : ReceiveChunk(chunk)
           \/ \E more \in BOOLEAN : ConsumerReturns(more)
    PROVE  SpansInv'
<1>s. stream \in Streams
  BY DEF AgentInv, AgentTypes
<1>u. ASSUME InModel, Unwind, observer' = observer PROVE SpansInv'
  <2>1. ~Returned /\ ~At("failed") /\ ~At("begin")
    BY <1>u DEF InModel, Returned, At
  <2> QED
    BY <1>u, <2>1, UnwindSpans
<1>g. ASSUME InModel, NEW place \in {"attempt", "sending", "transfer", "backoff", "answer"}, Go(place),
             observer' = observer, stream'.text = <<>> => stream.text = <<>>
      PROVE  SpansInv'
  <2>1. agent'.at = place /\ agent'.step = agent.step
    BY <1>g, GoTyped DEF AgentInv, Places
  <2>2. InModel'
    BY <2>1 DEF InModel
  <2> QED
    BY <1>g, <2>1, <2>2, InModelSpans
<1>1. CASE BeginAttempt \/ SendRequest \/ BackoffOver
  BY <1>1, <1>u, <1>g DEF BeginAttempt, SendRequest, BackoffOver, InModel, At
<1>2. CASE Abort \/ TooLarge
  BY <1>2, <1>u DEF Abort, TooLarge, InModel, At
<1>3. CASE \E code \in {"ok", "fatal", "transient"} : EndTransfer(code)
  <2>1. PICK code \in {"ok", "fatal", "transient"} : EndTransfer(code)
    BY <1>3
  <2>2. At("transfer") /\ InModel
    BY <2>1 DEF EndTransfer, InModel, At
  <2>3. CASE Go("backoff") /\ UNCHANGED <<http, stream, observer>>
    BY <2>2, <2>3, <1>g
  <2>4. CASE Unwind /\ UNCHANGED observer
    BY <2>2, <2>4, <1>u
  <2>5. CASE Deliver(Finish(stream), "last", "answer")
    <3>1. Assembles(stream, Finish(stream))
      BY <1>s, FinishAssembles
    <3> QED
      BY <2>2, <2>5, <3>1, DeliverSpans
  <2> QED
    BY <2>1, <2>3, <2>4, <2>5 DEF EndTransfer
<1>4. CASE \E chunk \in Chunks : ReceiveChunk(chunk)
  <2>1. PICK chunk \in Chunks : ReceiveChunk(chunk)
    BY <1>4
  <2>2. Assembles(stream, Feed(stream, chunk))
    BY <1>s, ChunksTyped, FeedAssembles
  <2>3. At("transfer") /\ Deliver(Feed(stream, chunk), "consumer", "transfer")
    BY <2>1 DEF ReceiveChunk
  <2> QED
    BY <2>2, <2>3, DeliverSpans
<1>5. CASE \E more \in BOOLEAN : ConsumerReturns(more)
  <2>1. InModel /\ observer' = observer
    BY <1>5 DEF ConsumerReturns, InModel, At
  <2>2. CASE Unwind
    BY <2>1, <2>2, <1>u
  <2>3. CASE /\ Go(IF At("last") THEN "answer" ELSE "transfer")
             /\ stream' = [stream EXCEPT !.delta = <<>>]
    <3>1. stream'.text = stream.text
      BY <2>3, <1>s DEF Streams
    <3> QED
      BY <2>1, <2>3, <3>1, <1>g
  <2> QED
    BY <1>5, <2>2, <2>3 DEF ConsumerReturns
<1> QED
  BY <1>1, <1>2, <1>3, <1>4, <1>5

LEMMA TakeAnswerSpans ==
    ASSUME AgentInv, SpansInv, lane = "agent", UNCHANGED <<lane, told, started, first_audio>>,
           TakeAnswer
    PROVE  SpansInv'
<1>0. /\ agent.at = "answer" /\ InModel /\ ~Returned /\ ~At("failed") /\ ~At("begin")
      /\ agent.step \in Nat
  BY DEF TakeAnswer, At, InModel, Returned, AgentInv, AgentTypes
<1> DEFINE a == Key(Turn, "model", agent.step)
           b == Key(Turn, "first_token", agent.step)
           completed == Observe(observer, Event("ModelCompleted", Turn, agent.step))
<1>k. /\ a \in AgentKeys /\ b \in AgentKeys /\ a # Ours("turn") /\ b # Ours("turn")
      /\ a # Ours("tool") /\ b # Ours("tool")
  BY <1>0, KeysDiffer
<1>c. Change(observer, completed, {}, {a, b}, {a}, a \in Pending(observer))
  BY <1>0, ModelCompletedSpans DEF SpansInv
<1>p. AgentSpans => /\ a \in Pending(observer) /\ Ours("turn") \in Pending(observer)
                    /\ Ours("tool") \notin Pending(observer)
  BY <1>0 DEF AgentSpans, At
<1>m. ASSUME AgentSpans, NEW k \in (Pending(observer) \union {}) \ {a, b} PROVE ~OfModel(k)
  <2>1. OfModel(k) => k.name = agent.step
    BY <1>0, <1>m DEF AgentSpans
  <2>2. k \in Keys \/ k = Foreign
    BY <1>m DEF SpansInv, Kind
  <2> QED
    BY <2>1, <2>2, <1>m, ModelKeys
<1> HIDE DEF a, b, completed
<1>1. CASE Unwind /\ UNCHANGED <<history, observer>>
  BY <1>0, <1>1, UnwindSpans
<1>2. CASE observer' = completed /\ agent' = [agent EXCEPT !.at = "tool", !.call = 1]
  <2>1. agent'.at = "tool"
    BY <1>2 DEF AgentInv, AgentTypes
  <2>2. AgentSpans /\ Pending(observer') = (Pending(observer) \union {}) \ {a, b} => AgentSpans'
    BY <1>k, <1>p, <1>m, <2>1 DEF AgentSpans, At, InModel
  <2>3. ~(At("failed") \/ Returned)'
    BY <2>1 DEF At, Returned
  <2>z. AgentChange({}, {a, b}, {a})
    BY <1>0, <1>2, <1>c, <1>k, <1>p, <2>2, <2>3, KeysDiffer DEF AgentChange, Change
  <2> QED
    BY <1>0, <1>2, <1>c, <1>k, <1>p, <2>2, <2>3, <2>z, AgentChangeInv
<1>3. CASE Go("returned") /\ observer' = Observe(completed, Event("TurnCompleted", Turn, 0))
  <2>1. agent'.at = "returned"
    BY <1>3, GoTyped DEF AgentInv, Places
  <2>2. Kind(completed)
    BY <1>c DEF Change
  <2>3. Change(completed, observer', {}, AgentKeys, {Ours("turn")}, Ours("turn") \in Pending(completed))
    BY <1>3, <2>2, TurnCompletedSpans
  <2>4. Change(observer, observer', {}, AgentKeys, {a, Ours("turn")},
               a \in Pending(observer) /\ Ours("turn") \in Pending(observer))
    BY <1>c, <1>k, <2>3 DEF Change, Rejections
  <2>5. AgentSpans /\ Pending(observer') = (Pending(observer) \union {}) \ AgentKeys => AgentSpans'
    <3> SUFFICES ASSUME Pending(observer') = (Pending(observer) \union {}) \ AgentKeys
                 PROVE  AgentSpans'
      OBVIOUS
    <3>1. \A k \in Pending(observer') : ~OfModel(k)
      BY <2>4, ModelKeys DEF Change, Kind
    <3>2. Ours("tool") \notin Pending(observer')
      BY KeysDiffer
    <3> QED
      BY <2>1, <3>1, <3>2 DEF AgentSpans, At, InModel
  <2>6. At("returned")'
    BY <2>1 DEF At
  <2>7. {a, Ours("turn")} \subseteq AgentKeys
    BY <1>k, KeysDiffer
  <2>z. AgentChange({}, AgentKeys, {a, Ours("turn")})
    BY <1>0, <1>p, <2>4, <2>5, <2>6, <2>7, KeysDiffer DEF AgentChange, Change
  <2> QED
    BY <1>0, <1>p, <2>4, <2>5, <2>6, <2>7, <2>z, AgentChangeInv
<1> QED
  BY <1>1, <1>2, <1>3 DEF TakeAnswer, completed

LEMMA ToolSpans ==
    ASSUME AgentInv, SpansInv, lane = "agent", UNCHANGED <<lane, told, started, first_audio>>,
           CallTool \/ EnterHandler \/ ToolReturns \/ ToolResult
    PROVE  SpansInv'
<1>t. Ours("tool") \in AgentKeys /\ Ours("turn") # Ours("tool") /\ ~OfModel(Ours("tool"))
  BY KeysDiffer, ModelKeys
<1>1. CASE CallTool
  <2>1. agent.at = "tool" /\ agent'.at \in {"throw", "invoking", "result"}
    BY <1>1, GoTyped DEF CallTool, Unwind, At, AgentInv, Places
  <2>2. Change(observer, observer', {Ours("tool")}, {}, {}, Ours("tool") \notin Pending(observer))
    BY <1>1, AgentEvents DEF SpansInv, CallTool, Emits
  <2>3. AgentSpans => Ours("tool") \notin Pending(observer)
    BY <2>1 DEF AgentSpans
  <2>4. AgentSpans /\ Pending(observer') = (Pending(observer) \union {Ours("tool")}) \ {} => AgentSpans'
    BY <2>1, <1>t DEF AgentSpans, At, InModel
  <2>5. ~(At("failed") \/ Returned)' /\ ~Returned
    BY <2>1 DEF At, Returned
  <2>z. AgentChange({Ours("tool")}, {}, {})
    BY <1>t, <2>2, <2>3, <2>4, <2>5, KeysDiffer DEF AgentChange, Change
  <2> QED
    BY <1>t, <2>2, <2>3, <2>4, <2>5, <2>z, AgentChangeInv
<1>2. CASE EnterHandler \/ ToolReturns
  <2>1. /\ agent.at \in {"invoking", "handler"} /\ agent'.at \in {"throw", "handler", "result"}
        /\ observer' = observer
    BY <1>2, GoTyped DEF EnterHandler, ToolReturns, Unwind, At, AgentInv, Places
  <2>2. Change(observer, observer', {}, {}, {}, TRUE)
    BY <2>1, NoChange DEF SpansInv
  <2>4. AgentSpans /\ Pending(observer') = (Pending(observer) \union {}) \ {} => AgentSpans'
    BY <2>1 DEF AgentSpans, At, InModel
  <2>5. ~(At("failed") \/ Returned)' /\ ~Returned
    BY <2>1 DEF At, Returned
  <2>z. AgentChange({}, {}, {})
    BY <2>2, <2>4, <2>5, KeysDiffer DEF AgentChange, Change
  <2> QED
    BY <2>2, <2>4, <2>5, <2>z, AgentChangeInv
<1>3. CASE ToolResult
  <2>1. agent.at = "result" /\ agent'.at \in {"tool", "step"}
    <3>1. agent \in [at : Places, step : Nat, call : Nat]
      BY DEF AgentInv, AgentTypes
    <3>2. CASE agent' = [agent EXCEPT !.at = "tool", !.call = @ + 1]
      BY <3>1, <3>2, <1>3 DEF ToolResult, At
    <3>3. CASE agent' = [at |-> "step", step |-> agent.step + 1, call |-> 0]
      BY <3>3, <1>3 DEF ToolResult, At
    <3> QED
      BY <1>3, <3>2, <3>3 DEF ToolResult
  <2>2. Change(observer, observer', {}, {Ours("tool")}, {Ours("tool")}, Ours("tool") \in Pending(observer))
    BY <1>3, AgentEvents DEF SpansInv, ToolResult, Emits
  <2>3. AgentSpans => Ours("tool") \in Pending(observer)
    BY <2>1 DEF AgentSpans
  <2>4. AgentSpans /\ Pending(observer') = (Pending(observer) \union {}) \ {Ours("tool")} => AgentSpans'
    BY <2>1, <1>t DEF AgentSpans, At, InModel
  <2>5. ~(At("failed") \/ Returned)' /\ ~Returned
    BY <2>1 DEF At, Returned
  <2>z. AgentChange({}, {Ours("tool")}, {Ours("tool")})
    BY <1>t, <2>2, <2>3, <2>4, <2>5, KeysDiffer DEF AgentChange, Change
  <2> QED
    BY <1>t, <2>2, <2>3, <2>4, <2>5, <2>z, AgentChangeInv
<1> QED
  BY <1>1, <1>2, <1>3

\* Every step of the agent, on the lane that runs it.
LEMMA AgentSpansStep ==
    ASSUME AgentInv, SpansInv, AgentRuns \/ ServerSends \/ DeltaSpoken \/ DeltaRefused
    PROVE  SpansInv'
<1>1. lane = "agent" /\ UNCHANGED <<lane, told, started, first_audio>>
  BY DEF AgentRuns, ServerSends, DeltaSpoken, DeltaRefused, laneVars
<1>2. AgentStep
  BY DEF AgentRuns, AgentThread, Transport, ServerSends, Server, DeltaSpoken, DeltaRefused, AgentStep
<1> QED
  BY <1>1, <1>2, BeginTurnSpans, BeginStepSpans, OutSpans, TransportSpans, TakeAnswerSpans, ToolSpans
     DEF AgentStep

\* Once the lane has left the agent, the agent stays where it ended.
Ended == {"begin", "failed", "returned", "limit"}
Parked == lane # "agent" => agent.at \in Ended

LEMMA ParkedStep ==
    ASSUME LaneInv, Parked, [Next]_vars
    PROVE  Parked'
<1>1. CASE \/ AgentRuns \/ ServerSends \/ DeltaSpoken \/ DeltaRefused
  <2>1. lane' = "agent"
    BY <1>1 DEF AgentRuns, ServerSends, DeltaSpoken, DeltaRefused, laneVars
  <2> QED
    BY <2>1 DEF Parked
<1>2. CASE NotRun \/ Completing \/ AgentFailed
  <2>1. agent' = agent /\ agent.at \in Ended
    BY <1>2 DEF NotRun, Completing, AgentFailed, agentVars, Returned, At, Ended
  <2> QED
    BY <2>1 DEF Parked
<1>3. CASE SpeechJoined
  <2>1. agent' = agent /\ (lane' = lane \/ (lane = "finish" /\ lane' = "fail"))
    BY <1>3 DEF SpeechJoined, agentVars
  <2> QED
    BY <2>1 DEF Parked
<1>4. CASE \/ Speak \/ Pushed \/ Rejected \/ FinishSpeech \/ CancelSpeech \/ DrainSpeech
           \/ Synthesizer \/ Interrupt \/ Cancel \/ Over \/ UNCHANGED vars
  <2>1. agent' = agent /\ lane' = lane
    BY <1>4 DEF Speak, Pushed, Rejected, FinishSpeech, CancelSpeech, DrainSpeech, Synthesizer,
                FrameSunk, Interrupt, Cancel, CancelTurn, Over, vars, agentVars, laneVars
  <2> QED
    BY <2>1 DEF Parked
<1>5. CASE Flushed \/ CompleteTurn \/ FailTurn
  <2>1. agent' = agent /\ lane # "agent"
    BY <1>5 DEF Flushed, CompleteTurn, FailTurn, agentVars
  <2> QED
    BY <2>1 DEF Parked
<1> QED
  BY <1>1, <1>2, <1>3, <1>4, <1>5 DEF Next, Lane

\* A step that tells nothing and leaves the agent where it is.
LEMMA SameSpans ==
    ASSUME SpansInv, UNCHANGED <<observer, agent, stream, told, started, first_audio>>,
           lane' = "over" <=> lane = "over"
    PROVE  SpansInv'
<1>1. AgentSpans => AgentSpans'
  BY DEF AgentSpans, At, InModel
<1>2. SpeechSpans => SpeechSpans'
  BY DEF SpeechSpans
<1> QED
  BY <1>1, <1>2 DEF SpansInv, At, Returned

\* A step of the speech: keys that are none of the agent's, and where they are then.
SpeechChange(A, R, M) ==
    /\ Change(observer, observer', A, R, M, SpeechSpans)
    /\ A \subseteq Keys \ AgentKeys /\ R \subseteq Keys \ AgentKeys /\ M \subseteq Keys \ AgentKeys
    /\ Ours("conversation_turn") \notin M
    /\ SpeechSpans /\ Pending(observer') = (Pending(observer) \union A) \ R => SpeechSpans'

LEMMA SpeechChangeInv ==
    ASSUME AgentInv, SpansInv, NEW A, NEW R, NEW M, SpeechChange(A, R, M),
           lane # "over", UNCHANGED <<lane, told, agent, stream>>
    PROVE  SpansInv'
<1>c. /\ Kind(observer') /\ observer'.measured \subseteq observer.measured \union M
      /\ observer.counted \subseteq observer'.counted
      /\ Pending(observer') \subseteq (Pending(observer) \union A) \ R
      /\ SpeechSpans /\ Clean(observer) /\ ~Rejections(observer') =>
            Clean(observer') /\ Pending(observer') = (Pending(observer) \union A) \ R
      /\ A \subseteq Keys \ AgentKeys /\ R \subseteq Keys \ AgentKeys /\ M \subseteq Keys \ AgentKeys
      /\ Ours("conversation_turn") \notin M
      /\ SpeechSpans /\ Pending(observer') = (Pending(observer) \union A) \ R => SpeechSpans'
  BY DEF Change, SpeechChange
<1>1. ASSUME (At("failed") \/ Returned)', NEW k \in Pending(observer'), k.turn = Turn
      PROVE  k.phase \notin AgentPhases
  <2>1. At("failed") \/ Returned
    BY <1>1 DEF At, Returned
  <2>2. CASE k \in Pending(observer)
    BY <2>1, <2>2, <1>1 DEF SpansInv
  <2>3. CASE k \in A
    BY <2>3, <1>c DEF AgentKeys
  <2> QED
    BY <2>2, <2>3, <1>c
<1>2. Ours("turn") \in observer'.measured => At("returned")'
  <2>1. Ours("turn") \notin M
    BY <1>c, KeysDiffer
  <2> QED
    BY <2>1, <1>c DEF SpansInv, At
<1>3. Ours("conversation_turn") \in observer'.measured => told' = "completed"
  BY <1>c DEF SpansInv
<1>4. ASSUME ~Rejections(observer') PROVE Clean(observer') /\ AgentSpans' /\ SpeechSpans'
  <2>1. ~Rejections(observer)
    BY <1>4, <1>c DEF Rejections
  <2>2. Clean(observer) /\ AgentSpans /\ SpeechSpans
    BY <2>1 DEF SpansInv
  <2>3. /\ Clean(observer') /\ SpeechSpans'
        /\ Pending(observer') = (Pending(observer) \union A) \ R
    BY <1>4, <2>2, <1>c
  <2>4. /\ \A k \in AgentKeys : k \in Pending(observer') <=> k \in Pending(observer)
        /\ \A k \in Pending(observer') : OfModel(k) => k \in Pending(observer)
    BY <2>3, <1>c, ModelKeys
  <2>5. agent.step \in Nat
    BY DEF AgentInv, AgentTypes
  <2>6. AgentSpans'
    BY <2>2, <2>4, <2>5, KeysDiffer DEF AgentSpans, At, InModel
  <2> QED
    BY <2>3, <2>6
<1> QED
  BY <1>c, <1>1, <1>2, <1>3, <1>4 DEF SpansInv

LEMMA SpeakSpans ==
    ASSUME AgentInv, LaneInv, SpansInv, Speak
    PROVE  SpansInv'
<1> DEFINE a == Ours("tts_first_audio")
           b == Ours("tts_total")
<1>1. /\ lane # "over" /\ started' = TRUE /\ UNCHANGED <<lane, told, agent, stream, first_audio>>
      /\ observer' = Observe(observer, Event("TtsChunkStarted", Turn, 0))
  BY DEF Speak, Speaks, Emits
<1>2. ~started => ~first_audio
  BY DEF LaneInv, Unmade
<1>k. a \in Keys \ AgentKeys /\ b \in Keys \ AgentKeys
  BY KeysDiffer
<1>3. CASE b \in Pending(observer)
  <2>1. observer' = observer
    BY <1>1, <1>3, TtsChunkStartedSpans DEF SpansInv
  <2>2. Change(observer, observer', {}, {}, {}, TRUE)
    BY <2>1, NoChange DEF SpansInv
  <2>3. SpeechSpans => SpeechSpans'
    BY <1>1, <1>3, <2>1 DEF SpeechSpans
  <2>4. SpeechChange({}, {}, {})
    BY <2>2, <2>3 DEF SpeechChange, Change
  <2> QED
    BY <1>1, <2>4, SpeechChangeInv
<1>4. CASE b \notin Pending(observer)
  <2>1. Change(observer, observer', {a, b}, {}, {}, a \notin Pending(observer))
    BY <1>1, <1>4, TtsChunkStartedSpans DEF SpansInv
  <2>2. SpeechSpans => a \notin Pending(observer) /\ ~started
    BY <1>1, <1>4 DEF SpeechSpans
  <2>3. SpeechSpans /\ Pending(observer') = (Pending(observer) \union {a, b}) \ {} => SpeechSpans'
    BY <1>1, <1>2, <2>2 DEF SpeechSpans
  <2> HIDE DEF a, b
  <2>4. SpeechChange({a, b}, {}, {})
    BY <1>k, <2>1, <2>2, <2>3 DEF SpeechChange, Change
  <2> QED
    BY <1>1, <2>4, SpeechChangeInv
<1> QED
  BY <1>3, <1>4

LEMMA FrameSunkSpans ==
    ASSUME AgentInv, SpeechInv, LaneInv, SpansInv, started, FrameSunk
    PROVE  SpansInv'
<1>1. /\ worker = "sink" /\ UNCHANGED <<lane, told, agent, stream, started>>
      /\ first_audio' = (first_audio \/ ~external)
  BY DEF FrameSunk, Tts!FrameSunk
<1>2. lane # "over"
  BY <1>1 DEF LaneInv, SpeechOver, SpeechInv, ControlInv
<1>3. CASE ~first_audio /\ ~external
  <2> DEFINE a == Ours("tts_first_audio")
             b == Ours("s2s_first_audio")
  <2>1. observer' = Observe(observer, Event("FirstAudio", Turn, 0))
    BY <1>3 DEF FrameSunk, Emits
  <2>2. Change(observer, observer', {}, {a, b}, {a, b}, a \in Pending(observer))
    BY <2>1, FirstAudioSpans DEF SpansInv
  <2>3. SpeechSpans => a \in Pending(observer)
    BY <1>2, <1>3 DEF SpeechSpans
  <2>4. /\ a \in Keys \ AgentKeys /\ b \in Keys \ AgentKeys
        /\ Ours("conversation_turn") \notin {a, b} /\ Ours("tts_total") \notin {a, b}
    BY KeysDiffer
  <2>5. SpeechSpans /\ Pending(observer') = (Pending(observer) \union {}) \ {a, b} => SpeechSpans'
    BY <1>1, <1>2, <1>3, <2>4 DEF SpeechSpans
  <2> HIDE DEF a, b
  <2>6. SpeechChange({}, {a, b}, {a, b})
    BY <2>2, <2>3, <2>4, <2>5 DEF SpeechChange, Change
  <2> QED
    BY <1>1, <1>2, <2>6, SpeechChangeInv
<1>4. CASE ~(~first_audio /\ ~external)
  <2>1. observer' = observer
    BY <1>4 DEF FrameSunk
  <2>2. first_audio' = first_audio
    BY <1>1, <1>4 DEF LaneInv
  <2> QED
    BY <1>1, <1>2, <2>1, <2>2, SameSpans
<1> QED
  BY <1>3, <1>4

\* The terminal event leaves no span of the turn behind.
LEMMA OverSpans ==
    ASSUME LaneInv, Parked, SpansInv, lane # "agent", lane # "over", agent' = agent, lane' = "over",
           Kind(observer'), Pending(observer') \subseteq Pending(observer) \ Keys,
           Clean(observer) /\ ~Rejections(observer') => Clean(observer'),
           observer.counted \subseteq observer'.counted,
           Ours("turn") \in observer'.measured => Ours("turn") \in observer.measured,
           Ours("conversation_turn") \in observer'.measured =>
              Ours("conversation_turn") \in observer.measured \/ told' = "completed"
    PROVE  SpansInv'
<1>1. Pending(observer') = {Foreign}
  BY DEF Kind, SpansInv
<1>2. agent'.at \in Ended
  BY DEF Parked
<1>3. Ours("conversation_turn") \notin observer.measured
  BY DEF SpansInv, LaneInv
<1>4. Foreign # Ours("turn") /\ Foreign # Ours("tool") /\ ~OfModel(Foreign) /\ Foreign.turn # Turn
  BY ForeignIsNone, KeysDiffer, ModelKeys DEF AgentKeys
<1>5. AgentSpans' /\ SpeechSpans'
  BY <1>1, <1>2, <1>4 DEF AgentSpans, SpeechSpans, At, InModel, Ended
<1>6. Ours("turn") \in observer'.measured => At("returned")'
  BY DEF SpansInv, At
<1>7. \A k \in Pending(observer') : k.turn # Turn
  BY <1>1, <1>4
<1>8. ~Rejections(observer') => Clean(observer')
  BY DEF SpansInv, Rejections
<1> QED
  BY <1>1, <1>3, <1>5, <1>6, <1>7, <1>8 DEF SpansInv

LEMMA TerminalSpans ==
    ASSUME LaneInv, Parked, SpansInv, CompleteTurn \/ FailTurn
    PROVE  SpansInv'
<1>0. Ours("turn") \notin {Ours("tts_total"), Ours("conversation_turn")}
  BY KeysDiffer
<1>1. CASE CompleteTurn /\ Stands
  <2> DEFINE spoken == IF started THEN Observe(observer, Event("SpeechCompleted", Turn, 0)) ELSE observer
  <2>1. /\ lane = "finish" /\ lane' = "over" /\ told' = "completed" /\ agent' = agent
        /\ observer' = Observe(spoken, Event("ConversationTurnCompleted", Turn, 0))
    BY <1>1 DEF CompleteTurn
  <2>2. Change(observer, spoken, {}, {Ours("tts_total")}, {Ours("tts_total")}, TRUE) \/ spoken = observer
    BY TurnOverSpans DEF SpansInv
  <2>3. Kind(spoken)
    BY <2>2 DEF Change, SpansInv
  <2> HIDE DEF spoken
  <2>4. Change(spoken, observer', {}, Keys, {Ours("conversation_turn")}, TRUE)
    BY <2>1, <2>3, TurnOverSpans
  <2>5. /\ Kind(observer') /\ Pending(observer') \subseteq Pending(observer) \ Keys
        /\ Clean(observer) /\ ~Rejections(observer') => Clean(observer')
        /\ observer.counted \subseteq observer'.counted
        /\ Ours("turn") \in observer'.measured => Ours("turn") \in observer.measured
    BY <1>0, <2>2, <2>4 DEF Change, Rejections
  <2> QED
    BY <2>1, <2>5, OverSpans
<1>2. CASE CompleteTurn /\ ~Stands
  <2>1. lane = "finish" /\ lane' = "fail" /\ UNCHANGED <<observer, agent, stream, told, started, first_audio>>
    BY <1>2 DEF CompleteTurn
  <2> QED
    BY <2>1, SameSpans
<1>3. CASE FailTurn
  <2>1. lane = "fail" /\ lane' = "over" /\ agent' = agent
    BY <1>3 DEF FailTurn
  <2>2. Change(observer, observer', {}, Keys, {}, TRUE)
    BY <1>3, TurnOverSpans DEF FailTurn, Emits, SpansInv
  <2>3. /\ Kind(observer') /\ Pending(observer') \subseteq Pending(observer) \ Keys
        /\ Clean(observer) /\ ~Rejections(observer') => Clean(observer')
        /\ observer.counted \subseteq observer'.counted
        /\ observer'.measured \subseteq observer.measured
    BY <2>2 DEF Change
  <2> QED
    BY <2>1, <2>3, OverSpans
<1> QED
  BY <1>1, <1>2, <1>3

LEMMA SpansStep ==
    ASSUME AgentInv, SpeechInv, LaneInv, Parked, SpansInv, [Next]_vars
    PROVE  SpansInv'
<1>1. CASE \/ NotRun \/ Completing \/ AgentFailed \/ Flushed \/ FinishSpeech \/ SpeechJoined
           \/ Pushed \/ Rejected \/ CancelSpeech \/ DrainSpeech \/ Interrupt \/ Cancel \/ Over
           \/ UNCHANGED vars \/ (Tts!WorkerLoop /\ UNCHANGED <<agentVars, laneVars>>)
  <2>1. UNCHANGED <<observer, agent, stream, told, started, first_audio>>
    BY <1>1 DEF NotRun, Completing, AgentFailed, Flushed, FinishSpeech, SpeechJoined, Pushed, Rejected,
                CancelSpeech, DrainSpeech, Interrupt, Cancel, CancelTurn, Over, vars, agentVars, laneVars
  <2>2. lane' = "over" <=> lane = "over"
    BY <1>1 DEF NotRun, Completing, AgentFailed, Flushed, FinishSpeech, SpeechJoined, Pushed, Rejected,
                CancelSpeech, DrainSpeech, Interrupt, Cancel, CancelTurn, Over, vars, laneVars
  <2> QED
    BY <2>1, <2>2, SameSpans
<1> QED
  BY <1>1, AgentSpansStep, SpeakSpans, FrameSunkSpans, TerminalSpans DEF Next, Lane, Synthesizer

\* The spans the conversation has begun before it asks the agent.
LEMMA SpansInit ==
    ASSUME Init
    PROVE  SpansInv /\ Parked
<1> DEFINE o0 == [NoSpans EXCEPT !.starts = [k \in {Foreign} |-> TRUE]]
           a == Ours("asr_final")
           b == Ours("s2s_first_audio")
           c == Ours("conversation_turn")
           o1 == Begin(o0, a)
           o2 == Begin(o1, b)
           o3 == Begin(o2, c)
           f  == [k \in {Foreign} |-> TRUE]
<1>1. observer = End(o3, a, FALSE)
  BY DEF Init, AgentInit, Observe, Event, Ours
<1>2. o0 = [starts |-> f, measured |-> {}, counted |-> {}]
  <2> DEFINE n == NoSpans.starts
  <2>1. NoSpans = [starts |-> n, measured |-> {}, counted |-> {}]
    BY DEF NoSpans
  <2>2. o0 = [NoSpans EXCEPT !.starts = f]
    OBVIOUS
  <2> HIDE DEF f, o0, n
  <2>3. QED  BY <2>1, <2>2
<1>3. f \in [{Foreign} -> BOOLEAN] /\ DOMAIN f = {Foreign} /\ f[Foreign] = TRUE
  OBVIOUS
<1>k. /\ a \in Keys /\ b \in Keys /\ c \in Keys
      /\ {a, b, c} \intersect AgentKeys = {} /\ a # b /\ a # c /\ b # c
      /\ Ours("tts_total") \notin {a, b, c} /\ Ours("tts_first_audio") \notin {a, b, c}
  BY DEF Ours, Key, Keys, AgentKeys, Phases, AgentPhases
<1> HIDE DEF f, o0
<1>4. Pending(o0) = {Foreign} /\ o0.starts = f /\ o0.measured = {} /\ o0.counted = {}
  BY <1>2, <1>3 DEF Pending
<1>5. IsFiniteSet({Foreign}) /\ Cardinality({Foreign}) = 1
  BY FS_Singleton
<1>6. MaxSpans \in Nat /\ 1 <= MaxSpans
  BY SpanLimitAssumption
<1>7. Kind(o0) /\ Clean(o0)
  BY <1>2, <1>3, <1>4, <1>5, <1>6 DEF Kind, Clean
<1> HIDE DEF a, b, c
<1>8. Change(o0, o1, {a}, {}, {}, a \notin Pending(o0))
  BY <1>k, <1>7, BeginSpan
<1> HIDE DEF o1
<1>9. Change(o1, o2, {b}, {}, {}, b \notin Pending(o1))
  BY <1>k, <1>8, BeginSpan DEF Change
<1> HIDE DEF o2
<1>10. Change(o2, o3, {c}, {}, {}, c \notin Pending(o2))
  BY <1>k, <1>9, BeginSpan DEF Change
<1> HIDE DEF o3
<1>11. Change(o3, observer, {}, {a}, {a}, FALSE => a \in Pending(o3))
  BY <1>1, <1>k, <1>10, EndSpan DEF Change
<1>12. /\ Kind(observer) /\ observer.measured \subseteq {a}
       /\ Pending(observer) \subseteq {Foreign, b, c}
       /\ ~Rejections(observer) => Clean(observer)
  <2>1. ~Rejections(observer) => ~Rejections(o3) /\ ~Rejections(o2) /\ ~Rejections(o1)
    BY <1>8, <1>9, <1>10, <1>11 DEF Change, Rejections
  <2>2. a \notin Pending(o0) /\ b \notin Pending(o1) /\ c \notin Pending(o2)
    BY <1>4, <1>k, <1>8, <1>9, ForeignIsNone DEF Change
  <2>3. ~Rejections(observer) => Clean(observer)
    BY <2>1, <2>2, <1>7, <1>8, <1>9, <1>10, <1>11 DEF Change
  <2>4. observer.measured \subseteq {a} /\ Pending(observer) \subseteq {Foreign, b, c}
    BY <1>4, <1>k, <1>8, <1>9, <1>10, <1>11, ForeignIsNone DEF Change
  <2> QED
    BY <2>3, <2>4, <1>11 DEF Change
<1>13. /\ lane = "agent" /\ agent.at = "begin" /\ ~started
  BY DEF Init, AgentInit
<1>14. \A k \in Pending(observer) : k \notin AgentKeys /\ ~OfModel(k)
  BY <1>12, <1>k, ForeignIsNone, ModelKeys DEF AgentKeys
<1>15. AgentSpans
  BY <1>13, <1>14, KeysDiffer DEF AgentSpans, At, InModel
<1>16. SpeechSpans
  <2>1. Ours("tts_total") \notin Pending(observer) /\ Ours("tts_first_audio") \notin Pending(observer)
    BY <1>12, <1>k, KeysDiffer, ForeignIsNone
  <2> QED
    BY <2>1, <1>13 DEF SpeechSpans
<1>17. Ours("turn") \notin observer.measured /\ Ours("conversation_turn") \notin observer.measured
  BY <1>12, <1>k, KeysDiffer DEF c
<1>18. ~At("failed") /\ ~Returned
  BY <1>13 DEF At, Returned
<1> QED
  BY <1>12, <1>13, <1>15, <1>16, <1>17, <1>18 DEF SpansInv, Parked

LEMMA SpansAlways == Spec => [](SpansInv /\ Parked)
<1>1. Init => SpansInv /\ Parked
  BY SpansInit
<1>2. AgentInv /\ SpokenInv /\ SpansInv /\ Parked /\ [Next]_vars => (SpansInv /\ Parked)'
  BY SpansStep, ParkedStep DEF SpokenInv
<1> QED
  BY <1>1, <1>2, AgentAlways, SpokenAlways, PTL DEF Spec

\* The observer keeps at most its limit, never loses another session's span, has none
\* left of a turn that is over, measures only what completed, and meets every endpoint
\* with its start unless it had to reject one; for any limit and any order of the events
\* the turn's threads emit (src/src/observability.cpp, observe).
THEOREM SpansAreSettled == Spec => []SpansSettled
<1>1. ASSUME SpansInv PROVE SpansSettled
  <2>1. Cardinality(Pending(observer)) <= MaxSpans /\ Foreign \in Pending(observer)
    BY <1>1 DEF SpansInv, Kind
  <2>2. lane = "over" => Pending(observer) = {Foreign}
    BY <1>1 DEF SpansInv
  <2>3. At("failed") \/ Returned =>
           \A k \in Pending(observer) : k.turn = Turn => k.phase \notin AgentPhases
    BY <1>1 DEF SpansInv
  <2>4. /\ Key(Turn, "turn", 0) \in observer.measured => At("returned")
        /\ Key(Turn, "conversation_turn", 0) \in observer.measured => told = "completed"
    BY <1>1 DEF SpansInv, Ours
  <2>5. "span_limit_rejections" \notin observer.counted => observer.counted = {}
    BY <1>1 DEF SpansInv, Rejections, Clean
  <2> QED
    BY <2>1, <2>2, <2>3, <2>4, <2>5 DEF SpansSettled
<1> QED
  BY <1>1, SpansAlways, PTL

=============================================================================
