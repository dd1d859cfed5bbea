----------------------- MODULE MCConversationSession ------------------------
(***************************************************************************)
(* ConversationSession for TLC: two callers of start(), one of stop(), two *)
(* operations under a lease.                                               *)
(***************************************************************************)
EXTENDS ConversationSession
=============================================================================
