------------------------------ MODULE TurnLanes ------------------------------
(***************************************************************************)
(* What the session executor promises its callers, with no worker, queue   *)
(* or lock in sight: turns of one session are FIFO and never overlap, each *)
(* future is settled once, and a turn dropped before it started never runs.*)
(* SessionExecutor implements this specification.                          *)
(***************************************************************************)
EXTENDS Naturals

CONSTANTS Sessions, NoSession, MaxTurns

Turns == 1..MaxTurns

VARIABLES owner,   \* the session of each turn
          phase    \* unused, waiting, active, settled (future ready, lane
                   \* still held), over

Phases == {"unused", "waiting", "active", "settled", "over"}

Init == /\ owner = [t \in Turns |-> NoSession]
        /\ phase = [t \in Turns |-> "unused"]

\* Turns are numbered in the order in which they are accepted.
Admit(t, s) ==
    /\ \A u \in Turns : t <= u => phase[u] = "unused"
    /\ owner' = [owner EXCEPT ![t] = s]
    /\ phase' = [phase EXCEPT ![t] = "waiting"]

\* A turn starts only when all earlier turns of its session are over.
Start(t) ==
    /\ phase[t] = "waiting"
    /\ \A u \in Turns : u < t /\ owner[u] = owner[t] => phase[u] = "over"
    /\ phase' = [phase EXCEPT ![t] = "active"]
    /\ UNCHANGED owner

Resolve(t) ==
    /\ phase[t] = "active"
    /\ phase' = [phase EXCEPT ![t] = "settled"]
    /\ UNCHANGED owner

Release(t) ==
    /\ phase[t] = "settled"
    /\ phase' = [phase EXCEPT ![t] = "over"]
    /\ UNCHANGED owner

\* Waiting turns fail together: one session's, or everybody's.
Drop(T) ==
    /\ \A t \in T : phase[t] = "waiting"
    /\ phase' = [t \in Turns |-> IF t \in T THEN "over" ELSE phase[t]]
    /\ UNCHANGED owner

Next == \/ \E t \in Turns :
              \/ \E s \in Sessions : Admit(t, s)
              \/ Start(t) \/ Resolve(t) \/ Release(t)
        \/ \E T \in SUBSET Turns : Drop(T)

Spec == Init /\ [][Next]_<<owner, phase>>

=============================================================================
