-------------------------------- MODULE Agent --------------------------------
(***************************************************************************)
(* One turn of the agent (src/src/agent.cpp): the loop of model calls and  *)
(* tool calls, over a model that is reached by HTTP                        *)
(* (src/src/openai_compatible.cpp, src/src/curl_transport.cpp) and observed*)
(* through its events (src/src/observability.cpp).  The turn runs on one   *)
(* thread of the executor; the token that cancels it is set by others at   *)
(* any time and is only looked at where the code looks.                    *)
(*                                                                         *)
(* The server is free: any status, any chunks, an early end, silence.      *)
(* on_text_delta is a call that another module answers.  Of the bytes      *)
(* received only whether there were any is kept, and how long the transport*)
(* sleeps between attempts is not looked at.                               *)
(***************************************************************************)
EXTENDS Naturals, Sequences, SseStream, RuntimeObserver
SeqOps == INSTANCE SequencesExt

CONSTANTS MaxSteps,      \* max_steps_
          MaxAttempts,   \* config_.max_attempts
          RetryHttp,     \* config_.retry_http_errors
          Deltas,        \* texts a payload may carry
          MaxText,       \* bound: bytes of text of the turn
          MaxCalls       \* bound: tool calls of the turn

ASSUME AgentAssumption ==
    /\ MaxSteps \in Nat /\ MaxAttempts \in Nat \ {0}
    /\ RetryHttp \in BOOLEAN /\ MaxText \in Nat /\ MaxCalls \in Nat

VARIABLES
    history,       \* history_, without the system message
    agent,         \* [at, step, call]: where the turn is
    token,         \* cancelled(): a cancellation or a deadline
    excused,       \* history: when the token was set, the turn was past the check
                   \* of a request or a tool it had not yet begun
    http,          \* [attempt, received, status] of perform()
    stream,        \* parser and result of OpenAiCompatibleLlm::stream
    observer

agentVars == <<history, agent, token, excused, http, stream, observer>>

Turn == "t"        \* the turn; every other value of a key is somebody else's

\* What earlier turns left: a question and its answer.
User == [role |-> "user", text |-> <<>>, calls |-> <<>>]
Assistant(text, calls) == [role |-> "assistant", text |-> text, calls |-> calls]
Tool == [role |-> "tool", text |-> <<>>, calls |-> <<>>]
Past == <<User, Assistant(<<>>, <<>>)>>
Checkpoint == Len(Past)

\* A span another session has pending in the observer.
Foreign == Key("other", "turn", 0)

NoRequest == [attempt |-> 0, received |-> FALSE, status |-> 0]

AgentInit ==
    /\ history = Past
    /\ agent = [at |-> "begin", step |-> 0, call |-> 0]
    /\ token = FALSE /\ excused = FALSE
    /\ http = NoRequest /\ stream = EmptyStream
    /\ observer = Observe(Observe([NoSpans EXCEPT !.starts = [k \in {Foreign} |-> TRUE]],
                                  Event("AsrEndOfUtterance", Turn, 0)),
                          Event("TranscriptFinal", Turn, 0))

At(place) == agent.at = place
Go(place) == agent' = [agent EXCEPT !.at = place]

\* An exception leaves every block up to the catch of run_streaming().
Unwind == /\ agent' = [at |-> "throw", step |-> 0, call |-> 0]
          /\ http' = NoRequest /\ stream' = EmptyStream

Emits(type, name) == observer' = Observe(observer, Event(type, Turn, name))

-----------------------------------------------------------------------------
(* run_streaming(): the loop                                               *)

BeginTurn ==
    /\ At("begin")
    /\ Emits("TurnStarted", 0)
    /\ \/ token /\ Unwind /\ UNCHANGED history
       \/ ~token /\ Go("step") /\ history' = Append(history, User) /\ UNCHANGED <<http, stream>>
    /\ UNCHANGED <<token, excused>>

BeginStep ==
    /\ At("step") /\ agent.step < MaxSteps
    /\ \/ token /\ Unwind /\ UNCHANGED observer
       \/ /\ ~token
          /\ Emits("ModelStarted", agent.step)
          /\ http' = [NoRequest EXCEPT !.attempt = 1]
          /\ stream' = EmptyStream
          /\ Go("attempt")
    /\ UNCHANGED <<history, token, excused>>

\* A normal return, although the event says that the turn failed.
StepLimit ==
    /\ At("step") /\ agent.step >= MaxSteps
    /\ history' = Append(history, Assistant(<<>>, <<>>))
    /\ Emits("TurnFailed", 0)
    /\ Go("limit")
    /\ UNCHANGED <<token, excused, http, stream>>

\* catch (...): the history is what it was, the event is chosen by the token.
RolledBackMutant == history
RolledBack == SubSeq(history, 1, Checkpoint)

Throw ==
    /\ At("throw")
    /\ history' = RolledBack
    /\ Emits(IF token THEN "TurnCancelled" ELSE "TurnFailed", 0)
    /\ Go("failed")
    /\ UNCHANGED <<token, excused, http, stream>>

-----------------------------------------------------------------------------
(* CurlHttpTransport::perform()                                            *)

Statuses == {200, 400, 503}
RetryableStatus(status) == status = 503

\* Looked at before every attempt.
MayTryMutant == token => http.attempt > 1    \* only before the first
MayTry == ~token

BeginAttempt ==
    /\ At("attempt")
    /\ \/ ~MayTry /\ Unwind
       \/ MayTry /\ Go("sending") /\ UNCHANGED <<http, stream>>
    /\ UNCHANGED <<history, token, excused, observer>>

\* curl_easy_perform is called, without another look; the server will answer something.
SendRequest ==
    /\ At("sending")
    /\ \E status \in Statuses :
          http' = [http EXCEPT !.received = FALSE, !.status = status]
    /\ Go("transfer") /\ excused' = FALSE
    /\ UNCHANGED <<history, token, stream, observer>>

\* What the model has said in this turn.
Said == SeqOps!FlattenSeq([i \in 1..Len(history) |-> history[i].text]) \o stream.text

\* The model's text is whole, but a delta may end inside a code point.
Texts ==
    LET said == Said
        cut  == said # <<>> /\ said[Len(said)] = "L"
    IN {Payload("text", d, 0) :
           d \in {x \in Deltas : Len(said) + Len(x) <= MaxText /\ cut = (x[1] = "T")}}
Called == Len(SelectSeq(history, LAMBDA m : m.role = "tool"))
Calls == {Payload("call", <<>>, i) : i \in {j \in 0..(MaxCalls - 1) : Called + j < MaxCalls}}

\* What may come next on the wire: lines that are not data for an error; a first data
\* line of an event, whole or with its newline still to come; a second one, which
\* matters only behind the first part of a JSON text.
Chunks ==
    IF http.status # 200 \/ stream.buffer # <<>> THEN {Newline}
    ELSE IF stream.data \notin {<<>>, <<Opening>>} THEN {Newline, Line(Other)}
    ELSE {Newline} \union {Line(p) : p \in {Done, Other, Opening} \union Texts \union Calls}
         \union {Part(p) : p \in {Done} \union Texts}

\* write_body() within the limit, with the delta callback of run_streaming(): a
\* cancelled turn takes no more text.  An exception of the sink ends the transfer.
Deliver(next, consumer, otherwise) ==
    IF next.threw \/ (next.delta # <<>> /\ token) THEN Unwind /\ UNCHANGED observer
    ELSE /\ stream' = next
         /\ Go(IF next.delta # <<>> THEN consumer ELSE otherwise)
         /\ IF next.delta # <<>> /\ stream.text = <<>>     \* ! received_first_token
            THEN Emits("FirstToken", agent.step) ELSE UNCHANGED observer
         /\ http' = IF otherwise = "answer" THEN NoRequest ELSE [http EXCEPT !.received = TRUE]

ReceiveChunk(chunk) ==
    /\ At("transfer")
    /\ Deliver(Feed(stream, chunk), "consumer", "transfer")
    /\ UNCHANGED <<history, token, excused>>

\* The chunk that goes over max_response_bytes, whatever that is.
TooLarge ==
    /\ At("transfer")
    /\ Unwind
    /\ UNCHANGED <<history, token, excused, observer>>

\* on_text_delta returns; false is an exception in the parser's sink.
ConsumerReturns(more) ==
    /\ At("consumer") \/ At("last")
    /\ \/ ~more /\ Unwind
       \/ /\ more /\ Go(IF At("last") THEN "answer" ELSE "transfer")
          /\ stream' = [stream EXCEPT !.delta = <<>>] /\ UNCHANGED http
    /\ UNCHANGED <<history, token, excused, observer>>

\* progress(): asked by libcurl also while nothing arrives.
Abort ==
    /\ At("transfer") /\ token
    /\ Unwind
    /\ UNCHANGED <<history, token, excused, observer>>

\* Nothing that reached the sink may be sent again.
RetriesMutant(code) ==
    /\ http.attempt < MaxAttempts
    /\ code = "transient" \/ (code = "ok" /\ RetryHttp /\ RetryableStatus(http.status))
Retries(code) ==
    /\ http.attempt < MaxAttempts
    /\ ~http.received
    /\ code = "transient" \/ (code = "ok" /\ RetryHttp /\ RetryableStatus(http.status))

\* curl_easy_perform returns: the end of the body, a transient failure (a timeout
\* among them), or a failure for good.  A good answer goes through parser.finish(),
\* which may dispatch a last event.
EndTransfer(code) ==
    /\ At("transfer")
    /\ LET good == code = "ok" /\ http.status = 200 IN
       \/ Retries(code) /\ Go("backoff") /\ UNCHANGED <<http, stream, observer>>
       \/ ~Retries(code) /\ ~good /\ Unwind /\ UNCHANGED observer
       \/ ~Retries(code) /\ good /\ Deliver(Finish(stream), "last", "answer")
    /\ UNCHANGED <<history, token, excused>>

NextAttemptMutant == http.attempt            \* a retry that is not counted
NextAttempt == http.attempt + 1

\* config_.sleep does not look at the token; the next attempt does.
BackoffOver ==
    /\ At("backoff")
    /\ http' = [NoRequest EXCEPT !.attempt = NextAttempt]
    /\ Go("attempt")
    /\ UNCHANGED <<history, token, excused, stream, observer>>

-----------------------------------------------------------------------------
(* run_streaming(): the answer and its tool calls                          *)

\* result.complete = done
Complete == stream.done

TakeAnswer ==
    /\ At("answer")
    /\ \/ /\ token \/ ~Complete
          /\ Unwind /\ UNCHANGED <<history, observer>>
       \/ /\ ~token /\ Complete
          /\ history' = Append(history, Assistant(stream.text, stream.calls))
          /\ LET completed == Observe(observer, Event("ModelCompleted", Turn, agent.step)) IN
             IF stream.calls = <<>>
             THEN /\ observer' = Observe(completed, Event("TurnCompleted", Turn, 0))
                  /\ Go("returned")
             ELSE observer' = completed /\ agent' = [agent EXCEPT !.at = "tool", !.call = 1]
          /\ stream' = [EmptyStream EXCEPT !.calls = stream.calls]
          /\ UNCHANGED http
    /\ UNCHANGED <<token, excused>>

\* invoke(): an unknown name is a result, also for a cancelled turn; a known one is
\* called after a look at the token.
CallTool ==
    /\ At("tool")
    /\ Emits("ToolStarted", 0)
    /\ \/ stream.calls[agent.call] /\ token /\ Unwind
       \/ stream.calls[agent.call] /\ ~token /\ Go("invoking") /\ UNCHANGED <<http, stream>>
       \/ Go("result") /\ UNCHANGED <<http, stream>>
    /\ UNCHANGED <<history, token, excused>>

\* it->second(arguments, stop_requested)
EnterHandler ==
    /\ At("invoking")
    /\ Go("handler") /\ excused' = FALSE
    /\ UNCHANGED <<history, token, http, stream, observer>>

\* The handler returns or throws; without a cancellation both are results.
ToolReturns ==
    /\ At("handler")
    /\ \/ token /\ Unwind
       \/ ~token /\ Go("result") /\ UNCHANGED <<http, stream>>
    /\ UNCHANGED <<history, token, excused, observer>>

\* Then the next call, or the next step after the last one.
ToolResult ==
    /\ At("result")
    /\ Emits("ToolCompleted", 0)
    /\ history' = Append(history, Tool)
    /\ IF agent.call < Len(stream.calls)
       THEN agent' = [agent EXCEPT !.at = "tool", !.call = @ + 1] /\ UNCHANGED stream
       ELSE agent' = [at |-> "step", step |-> agent.step + 1, call |-> 0] /\ stream' = EmptyStream
    /\ UNCHANGED <<token, excused, http>>

-----------------------------------------------------------------------------
\* Another thread cancels the turn, or its deadline passes.
CancelTurn ==
    /\ ~token /\ token' = TRUE
    /\ excused' = (agent.at \in {"sending", "invoking"})
    /\ UNCHANGED <<history, agent, http, stream, observer>>

Transport == \/ BeginAttempt \/ SendRequest \/ BackoffOver \/ Abort
             \/ EndTransfer("transient")           \* libcurl's own timeout

AgentThread == \/ BeginTurn \/ BeginStep \/ StepLimit \/ Throw \/ Transport
               \/ TakeAnswer \/ CallTool \/ EnterHandler \/ ToolReturns \/ ToolResult

Server == \/ At("transfer") /\ \E chunk \in Chunks : ReceiveChunk(chunk)
          \/ TooLarge \/ EndTransfer("ok") \/ EndTransfer("fatal")

=============================================================================
