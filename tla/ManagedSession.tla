--------------------------- MODULE ManagedSession ---------------------------
(***************************************************************************)
(* What the runtime manager promises the holder of one SessionAdmission:   *)
(* the phase that find() reports and the two tickets.  started is answered *)
(* once, with Started exactly when the session begins to run; retired is   *)
(* answered once, together with the erase, and never before started.       *)
(* RuntimeManager implements this specification for each admission.        *)
(***************************************************************************)

VARIABLES phase,      \* SessionPhase by find(); None before admission, Erased after
          started,    \* the started ticket
          retired     \* the retired ticket is ready

Live     == {"Reserved", "Starting", "Running"}
Stopping == {"StopRequested", "Retiring", "Erased"}

Init == phase = "None" /\ started = "unset" /\ retired = FALSE

Reserve == /\ phase = "None"
           /\ phase' = "Reserved"
           /\ UNCHANGED <<started, retired>>

Begin == /\ phase = "Reserved"
         /\ phase' = "Starting"
         /\ UNCHANGED <<started, retired>>

Open == /\ phase = "Starting"
        /\ phase' = "Running" /\ started' = "Started"
        /\ UNCHANGED retired

\* remove(), fail(), a drain, a session that failed or ended by itself.
Stop == /\ phase \in Live
        /\ phase' = "StopRequested"
        /\ UNCHANGED <<started, retired>>

\* Startup failed, or ended after a stop request.
Refuse == /\ phase \in {"Starting", "StopRequested"} /\ started = "unset"
          /\ phase' = "StopRequested" /\ started' = "NotStarted"
          /\ UNCHANGED retired

TakeDown == /\ phase = "StopRequested"
            /\ phase' = "Retiring"
            /\ UNCHANGED <<started, retired>>

\* A reservation cancelled before any worker took it learns of both at once.
Erase == /\ phase = "Retiring"
         /\ phase' = "Erased" /\ retired' = TRUE
         /\ started' = IF started = "unset" THEN "NotStarted" ELSE started

Next == Reserve \/ Begin \/ Open \/ Stop \/ Refuse \/ TakeDown \/ Erase

Spec == Init /\ [][Next]_<<phase, started, retired>>

=============================================================================
