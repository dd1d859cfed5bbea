-------------------------- MODULE MCSessionExecutor --------------------------
(***************************************************************************)
(* SessionExecutor for TLC: two lanes share two workers, and the thread    *)
(* that shuts the executor down calls shutdown() again.  The sessions,     *)
(* workers and stoppers are model values; liveness rules out symmetry.     *)
(***************************************************************************)
EXTENDS SessionExecutor

=============================================================================
