-------------------------- MODULE MCIncrementalTts --------------------------
(***************************************************************************)
(* IncrementalTts for TLC: more sentences than the queue holds.            *)
(***************************************************************************)
EXTENDS IncrementalTts
=============================================================================
