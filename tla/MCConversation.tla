--------------------------- MODULE MCConversation ---------------------------
(***************************************************************************)
(* Conversation for TLC: three turns compete for a lane with one waiting   *)
(* place, so that turns are interrupted, dropped and refused.              *)
(***************************************************************************)
EXTENDS Conversation
=============================================================================
