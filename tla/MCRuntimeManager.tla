-------------------------- MODULE MCRuntimeManager --------------------------
(***************************************************************************)
(* RuntimeManager for TLC: one id with every kind of thread around it, and *)
(* two ids, two places and one startup worker, which may hang.             *)
(***************************************************************************)
EXTENDS RuntimeManager
=============================================================================
