--------------------------- MODULE SessionLifecycle ---------------------------
(***************************************************************************)
(* What a conversation session promises whoever owns it: one forward-only  *)
(* interaction lifetime.  Calls enter the engine only while Running, a stop*)
(* request closes the door, and the session is over only after the calls   *)
(* inside have left and the engine was cleaned up.                         *)
(* ConversationSession implements this specification.                      *)
(***************************************************************************)
EXTENDS Naturals

VARIABLES phase,     \* SessionLifecycle as lifecycle() reports it
          inside,    \* admitted operations
          dirty      \* the engine was started and not yet stopped

Init == phase = "Created" /\ inside = 0 /\ dirty = FALSE

Begin == /\ phase = "Created"
         /\ phase' = "Starting"
         /\ UNCHANGED <<inside, dirty>>

Dirty == /\ ~dirty
         /\ phase = "Starting"
         /\ dirty' = TRUE
         /\ UNCHANGED <<phase, inside>>

Open == /\ phase = "Starting" /\ dirty
        /\ phase' = "Running"
        /\ UNCHANGED <<inside, dirty>>

Close == /\ phase \in {"Created", "Starting", "Running"}
         /\ phase' = "Stopping"
         /\ UNCHANGED <<inside, dirty>>

Enter == /\ phase = "Running"
         /\ inside' = inside + 1
         /\ UNCHANGED <<phase, dirty>>

Leave == /\ inside > 0
         /\ inside' = inside - 1
         /\ UNCHANGED <<phase, dirty>>

Clean == /\ phase = "Stopping" /\ inside = 0 /\ dirty
         /\ dirty' = FALSE
         /\ UNCHANGED <<phase, inside>>

End == /\ phase = "Stopping" /\ inside = 0 /\ ~dirty
       /\ phase' \in {"Stopped", "Failed"}
       /\ UNCHANGED <<inside, dirty>>

Next == Begin \/ Dirty \/ Open \/ Close \/ Enter \/ Leave \/ Clean \/ End

Spec == Init /\ [][Next]_<<phase, inside, dirty>>

=============================================================================
