---------------------- MODULE MCFullDuplexConversation ----------------------
(***************************************************************************)
(* FullDuplexConversation for TLC: one application thread, the provider's  *)
(* callback thread, the input worker and the closer.                       *)
(***************************************************************************)
EXTENDS FullDuplexConversation
=============================================================================
