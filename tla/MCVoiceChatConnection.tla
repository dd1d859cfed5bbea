------------------------ MODULE MCVoiceChatConnection ------------------------
(***************************************************************************)
(* VoiceChatConnection for TLC: three incarnations on one connection, so   *)
(* that an acknowledgement could be carried over to the next but one.      *)
(***************************************************************************)
EXTENDS VoiceChatConnection
=============================================================================
