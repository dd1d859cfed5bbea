------------------------------ MODULE SseStream ------------------------------
(***************************************************************************)
(* The streamed answer of the language model                               *)
(* (src/src/openai_compatible.cpp): SseParser cuts the body into events    *)
(* whatever the chunks are, and the sink of OpenAiCompatibleLlm::stream    *)
(* assembles text and tool calls from them up to the marker [DONE].        *)
(*                                                                         *)
(* The body is made of lines; a chunk is a line with its newline, a line   *)
(* whose newline is still to come, or a newline.  A payload is what JSON   *)
(* parsing makes of the data of an event, which may be spread over several *)
(* lines: behind the first part of a JSON text a line completes it to the  *)
(* payload it names; anything else joined does not parse.  Lines that are  *)
(* not data change nothing and are left out.                               *)
(***************************************************************************)
EXTENDS Naturals, Sequences

Payload(kind, delta, index) == [kind |-> kind, delta |-> delta, index |-> index]
Done    == Payload("done", <<>>, 0)
Bad     == Payload("bad", <<>>, 0)      \* not JSON
Opening == Payload("bad", <<>>, 1)      \* the first part of a JSON text: not JSON alone
Other   == Payload("other", <<>>, 0)    \* JSON without a choice or a delta

\* buffer_ and data_ of the parser; text, tool_calls and done of the result; and
\* what the event just dispatched asks for: a call of on_text_delta, or an exception.
EmptyStream == [buffer |-> <<>>, data |-> <<>>, text |-> <<>>, calls |-> <<>>,
                done |-> FALSE, delta |-> <<>>, threw |-> FALSE]

\* tool_calls.resize(i + 1) leaves nameless calls below a fragment.
Assembled(calls, i) ==
    [k \in 1..(IF Len(calls) > i THEN Len(calls) ELSE i + 1) |->
        k = i + 1 \/ (k <= Len(calls) /\ calls[k])]

OnEventMutant(s, p) ==
    CASE p.kind = "done" -> [s EXCEPT !.done = TRUE]
      [] p.kind = "bad"  -> [s EXCEPT !.threw = TRUE]
      [] p.kind = "text" -> [s EXCEPT !.text = @ \o p.delta, !.delta = p.delta]
      [] p.kind = "call" -> [s EXCEPT !.calls = Assembled(@, p.index)]
      [] OTHER -> s
\* The terminal marker fences every later payload.
OnEvent(s, p) ==
    IF s.done THEN s
    ELSE CASE p.kind = "done" -> [s EXCEPT !.done = TRUE]
           [] p.kind = "bad"  -> [s EXCEPT !.threw = TRUE]
           [] p.kind = "text" -> [s EXCEPT !.text = @ \o p.delta, !.delta = p.delta]
           [] p.kind = "call" -> [s EXCEPT !.calls = Assembled(@, p.index)]
           [] OTHER -> s

Dispatch(s) == IF s.data = <<>> THEN s ELSE OnEvent([s EXCEPT !.data = <<>>], s.data[1])

\* The lines of one event, with a newline between them.
Joined(first, p) == IF first = Opening /\ p # Done THEN p ELSE Bad

ProcessLine(s, p) == [s EXCEPT !.data = IF @ = <<>> THEN <<p>> ELSE <<Joined(@[1], p)>>]

Newline == [ends |-> TRUE, line |-> <<>>]
Line(p) == [ends |-> TRUE, line |-> <<p>>]
Part(p) == [ends |-> FALSE, line |-> <<p>>]

\* feed(): lines that are complete are processed, the rest waits.
Feed(s, chunk) ==
    LET quiet == [s EXCEPT !.delta = <<>>]
        line  == s.buffer \o chunk.line IN
    IF ~chunk.ends THEN [quiet EXCEPT !.buffer = line]
    ELSE IF line = <<>> THEN Dispatch(quiet)
    ELSE ProcessLine([quiet EXCEPT !.buffer = <<>>], line[1])

\* finish(): a last line without newline, then a last event without empty line.
Finish(s) ==
    LET quiet == [s EXCEPT !.delta = <<>>, !.buffer = <<>>]
    IN Dispatch(IF s.buffer = <<>> THEN quiet ELSE ProcessLine(quiet, s.buffer[1]))

=============================================================================
