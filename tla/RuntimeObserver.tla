--------------------------- MODULE RuntimeObserver ---------------------------
(***************************************************************************)
(* The reducer that turns events into latency samples                      *)
(* (src/src/observability.cpp), as a function of its state and an event.   *)
(* observe() holds the observer's mutex from begin to end, so one event is *)
(* one step.                                                               *)
(*                                                                         *)
(* A span key is the turn (of whatever session), the phase and, for an     *)
(* operation, its name.  Event times are monotonic along a span; a zeroed  *)
(* start marks a span whose start was ambiguous.                           *)
(***************************************************************************)
EXTENDS Naturals, FiniteSets

CONSTANT MaxSpans                  \* max_pending_spans_

ASSUME SpanLimitAssumption == MaxSpans \in Nat \ {0}    \* checked by the constructor

Key(turn, phase, name) == [turn |-> turn, phase |-> phase, name |-> name]
Event(type, turn, name) == [type |-> type, turn |-> turn, name |-> name]

\* starts maps a pending key to "its start time is known"; measured are the keys
\* a sample was recorded for; counted are the counters that are no longer zero.
NoSpans == [starts |-> [k \in {} |-> TRUE], measured |-> {}, counted |-> {}]

Pending(o) == DOMAIN o.starts
Without(o, keys) == [o EXCEPT !.starts = [k \in Pending(o) \ keys |-> o.starts[k]]]

Full(o) == Cardinality(Pending(o)) >= MaxSpans

Begin(o, k) ==
    IF k \in Pending(o) THEN [o EXCEPT !.starts[k] = FALSE, !.counted = @ \union {"duplicate_starts"}]
    ELSE IF Full(o) THEN [o EXCEPT !.counted = @ \union {"span_limit_rejections"}]
    ELSE [o EXCEPT !.starts = [x \in Pending(o) \union {k} |-> x = k \/ o.starts[x]]]

End(o, k, required) ==
    IF k \notin Pending(o)
    THEN IF required THEN [o EXCEPT !.counted = @ \union {"unmatched_endpoints"}] ELSE o
    ELSE IF o.starts[k] THEN [Without(o, {k}) EXCEPT !.measured = @ \union {k}]
    ELSE [Without(o, {k}) EXCEPT !.counted = @ \union {"invalid_intervals"}]

AgentPhases == {"turn", "model", "first_token", "tool"}

DiscardMutant(o, turn, agent_only) == o       \* waits for an end that never comes
\* discard() of one turn: of the agent's spans, or of all.
Discard(o, turn, agent_only) ==
    LET gone == {k \in Pending(o) : k.turn = turn /\ (agent_only => k.phase \in AgentPhases)}
    IN Without(o, gone)

\* observe(), for the events of a cascaded turn.
Observe(o, e) ==
    LET key(phase) == Key(e.turn, phase, 0)
        operation(phase) == Key(e.turn, phase, e.name) IN
    CASE e.type = "TurnStarted"    -> Begin(o, key("turn"))
      [] e.type = "ModelStarted"   ->
            Begin(Begin(o, operation("model")), operation("first_token"))
      [] e.type = "ToolStarted"    -> Begin(o, operation("tool"))
      [] e.type = "AsrEndOfUtterance" ->
            Begin(Begin(Begin(o, key("asr_final")), key("s2s_first_audio")),
                  key("conversation_turn"))
      [] e.type = "TranscriptFinal" -> End(o, key("asr_final"), FALSE)
      [] e.type = "FirstToken"     -> End(o, operation("first_token"), TRUE)
      [] e.type = "ModelCompleted" ->
            Without(End(o, operation("model"), TRUE), {operation("first_token")})
      [] e.type = "ToolCompleted"  -> End(o, operation("tool"), TRUE)
      [] e.type = "TurnCompleted"  -> Discard(End(o, key("turn"), TRUE), e.turn, TRUE)
      [] e.type \in {"TurnCancelled", "TurnFailed"} -> Discard(o, e.turn, TRUE)
      [] e.type = "TtsChunkStarted" ->
            IF key("tts_total") \in Pending(o) THEN o
            ELSE Begin(Begin(o, key("tts_first_audio")), key("tts_total"))
      [] e.type = "FirstAudio"     ->
            End(End(o, key("tts_first_audio"), TRUE), key("s2s_first_audio"), FALSE)
      [] e.type = "SpeechCompleted" -> End(o, key("tts_total"), FALSE)
      [] e.type = "ConversationTurnCompleted" ->
            Discard(End(o, key("conversation_turn"), FALSE), e.turn, FALSE)
      [] e.type \in {"ConversationTurnCancelled", "ConversationTurnFailed"} ->
            Discard(o, e.turn, FALSE)
      [] OTHER -> o                \* counted by type only

=============================================================================
