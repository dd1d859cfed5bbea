----------------------------- MODULE MCEventBus -----------------------------
(***************************************************************************)
(* EventBus for TLC: two threads publish, subscribe and unsubscribe on one *)
(* bus, from inside handlers too.                                          *)
(***************************************************************************)
EXTENDS EventBus
=============================================================================
