-------------------------- MODULE MCEventTimeline ---------------------------
(***************************************************************************)
(* EventTimeline for TLC: more appends than the journal and the queue hold. *)
(***************************************************************************)
EXTENDS EventTimeline
=============================================================================
