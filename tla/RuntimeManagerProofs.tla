------------------------- MODULE RuntimeManagerProofs -------------------------
(***************************************************************************)
(* Theorems about RuntimeManager, for any ids, any finite sets of startup  *)
(* workers and calling threads, any limits and any number of admissions.   *)
(***************************************************************************)
EXTENDS RuntimeManager, FiniteSetTheorems, SequenceTheorems, TLAPS

-----------------------------------------------------------------------------
(***************************************************************************)
(* The inductive invariant.  Part of it is about one entry by itself: what *)
(* its stop, its startup, its tickets and its session have to do with each *)
(* other.  The rest says who may act on which entry: a reservation waits,  *)
(* or one worker holds it, or its startup is over; a lease is counted; and *)
(* what the supervisor has seen of an entry stays true until it acts.      *)
(***************************************************************************)

Answers == {"unset", "Started", "twice"} \union Outcomes

EntryRecord ==
    [id : Ids, phase : Phases, outcome : Outcomes, operations : Nat,
     stop_requested : BOOLEAN, startup_done : BOOLEAN, cancelled_before_start : BOOLEAN,
     started : Answers, retired : Answers, life : Lives,
     dirty : BOOLEAN, broken : BOOLEAN, observing : BOOLEAN]

\* A stop is told to the session at once, and every stop has a reason.
StopToldTo(e) ==
    /\ e.stop_requested <=> e.phase \in {"StopRequested", "Retiring", "Released"}
    /\ e.stop_requested <=> e.outcome # "None"
    /\ e.stop_requested => e.life \in {"None", "Stopping"} \union Terminal

\* A session that ends unasked has failed.
EndsForCause(e) ==
    /\ e.outcome # "UnexpectedStop"
    /\ ~e.stop_requested => e.life # "Stopped" /\ (e.life = "Stopping" => e.broken)

\* How far startup is.
StartupOf(e) ==
    /\ e.phase \in {"Reserved", "Starting"} => ~e.startup_done
    /\ e.phase = "Reserved" => e.life = "None"
    /\ e.phase \in {"Running", "Retiring", "Released"} => e.startup_done
    /\ e.startup_done /\ e.life = "None" => e.stop_requested
    /\ e.cancelled_before_start => e.startup_done /\ e.stop_requested /\ e.life = "None"

\* What the two tickets were answered.
TicketsOf(e) ==
    /\ e.started # "twice" /\ e.started # "None" /\ e.retired # "twice"
    /\ e.retired # "unset" => e.phase = "Released" /\ e.retired = e.outcome
    /\ ~e.startup_done => e.started = "unset"
    /\ e.startup_done =>
          (e.started = "unset" <=> e.cancelled_before_start /\ e.retired = "unset")
    /\ e.started \in Fatal => e.outcome = e.started

\* Engine and timeline of the session; teardown meets them quiet.
QuietOf(e) ==
    /\ e.life \in Terminal \union {"None", "Created"} => ~e.dirty
    /\ e.observing => e.life \in Terminal
    /\ e.phase \in {"Retiring", "Released"} =>
          e.life \in Terminal \union {"None"} /\ ~e.observing

EntryOK(e) == StopToldTo(e) /\ EndsForCause(e) /\ StartupOf(e) /\ TicketsOf(e) /\ QuietOf(e)

Admitted == 1..(generation - 1)

Entries == /\ generation \in 1..(MaxGenerations + 1)
           /\ entry \in [Admitted -> EntryRecord]
           /\ \A g \in Admitted : EntryOK(entry[g])

Members == /\ registry = {g \in Admitted : entry[g].retired = "unset"}
           /\ \A g, h \in registry : entry[g].id = entry[h].id => g = h
           /\ Cardinality(registry) <= MaxSessions

Queued == /\ pending \subseteq Admitted
          /\ \A g \in pending : entry[g].phase = "Reserved"
          /\ Cardinality(pending) <= MaxPendingStarts

\* Drained: a drain is on every entry.
Drained == /\ lifecycle \in {"Running", "Draining", "Stopped"}
           /\ lifecycle # "Running" => \A g \in registry : entry[g].stop_requested

Busy == {"factory", "start", "waiting", "catch", "report"}

\* The entry a worker holds is nobody else's.
Held ==
    /\ worker \in [Workers -> [at : Busy \union {"idle", "done"},
                               gen : Generations \union {NoSession}, failed : BOOLEAN]]
    /\ \A w \in Workers : worker[w].at \in Busy =>
          LET e == entry[worker[w].gen] IN
          /\ worker[w].gen \in Admitted
          /\ ~e.startup_done /\ e.phase \in {"Starting", "StopRequested"}
          /\ worker[w].at = "factory" => e.life = "None"
          /\ worker[w].at = "start" => e.life # "None"
          /\ worker[w].at = "report" /\ ~worker[w].failed /\ ~e.stop_requested =>
                e.life # "None"
    /\ \A v, w \in Workers :
          worker[v].at \in Busy /\ worker[w].at \in Busy /\ worker[v].gen = worker[w].gen
             => v = w

Leases(g) == {c \in Callers : caller[c].at # "out" /\ caller[c].gen = g}

\* A lease is counted on the entry it was taken on.
Leased ==
    /\ caller \in [Callers -> [at : {"out", "leased", "inside", "threw", "ending"},
                               gen : Generations \union {NoSession}]]
    /\ \A c \in Callers : caller[c].at # "out" =>
          LET e == entry[caller[c].gen] IN
          /\ caller[c].gen \in Admitted
          /\ e.phase \in {"Running", "StopRequested"} /\ e.life # "None" /\ e.startup_done
    /\ \A g \in Admitted : entry[g].operations = Cardinality(Leases(g))

OnEntry == {"judge", "flush", "claim", "destroy", "erase"}

\* What the supervisor knows of the entry it is at.
Supervised ==
    /\ supervisor \in [at : OnEntry \union {"scan", "each", "done"},
                       gen : Generations \union {NoSession}, left : SUBSET Generations]
    /\ supervisor.left \subseteq registry
    /\ supervisor.at \in OnEntry =>
          LET e == entry[supervisor.gen] IN
          /\ supervisor.gen \in registry \ supervisor.left
          /\ e.startup_done
          /\ supervisor.at = "judge" => e.life # "None"
          /\ supervisor.at = "flush" => e.stop_requested /\ e.life \in Terminal
          /\ supervisor.at = "claim" => /\ e.stop_requested /\ ~e.observing
                                        /\ e.life \in Terminal \union {"None"}
          /\ supervisor.at = "destroy" => e.phase = "Retiring"
          /\ supervisor.at = "erase" => e.phase = "Released"
    /\ \A g \in registry : entry[g].phase \in {"Retiring", "Released"} =>
          supervisor.at \in {"destroy", "erase"} /\ supervisor.gen = g

\* The order in which the threads leave.
Ending ==
    /\ DOMAIN dispatcher = {"at", "note"} /\ dispatcher.at \in {"wait", "notify", "done"}
    /\ workers_done = Cardinality({w \in Workers : worker[w].at = "done"})
    /\ supervisor.at = "done" => /\ registry = {} /\ lifecycle # "Running"
                                 /\ \A w \in Workers : worker[w].at = "done"
    /\ dispatcher.at = "done" => notifications = <<>> /\ supervisor.at = "done"
    /\ lifecycle = "Stopped" => dispatcher.at = "done"

Notes == [type : {"Reserved", "Started", "StopRequested", "Retired"}, gen : Generations]

Lane == /\ notifications \in Seq(Notes)
        /\ Len(notifications) <= MaxPendingNotifications

IInv == /\ Entries /\ Members /\ Queued /\ Drained /\ Held /\ Leased /\ Supervised
        /\ Ending /\ Lane

-----------------------------------------------------------------------------
(***************************************************************************)
(* Entries by themselves                                                   *)
(***************************************************************************)

\* What a stop, a session or a lease may change of an entry: it takes nothing back
\* that a worker, a caller or the supervisor relies on.
Onward(e, f) ==
    /\ f.id = e.id /\ f.started = e.started /\ f.retired = e.retired
    /\ e.stop_requested => f.stop_requested
    /\ e.phase # "Reserved" => f.startup_done = e.startup_done
    /\ \/ f.phase = e.phase
       \/ f.phase = "StopRequested" /\ e.phase \notin {"Retiring", "Released"}
    /\ e.life = "None" <=> f.life = "None"
    /\ e.life \in Terminal => f.life = e.life /\ (f.observing => e.observing)
    /\ f.observing /\ ~e.observing => e.life = "Stopping"

Outer(e, f) == f \in EntryRecord /\ EntryOK(f) /\ Onward(e, f)

\* The engine is started.
LEMMA BeginsKeeps ==
    ASSUME NEW e \in EntryRecord,
           EntryOK(e), e.life = "Starting"
    PROVE  Outer(e, [e EXCEPT !.dirty = TRUE])
<1> DEFINE f == [e EXCEPT !.dirty = TRUE]
<1>1. /\ f.id = e.id /\ f.phase = e.phase /\ f.outcome = e.outcome
      /\ f.operations = e.operations /\ f.stop_requested = e.stop_requested
      /\ f.startup_done = e.startup_done
      /\ f.cancelled_before_start = e.cancelled_before_start /\ f.started = e.started
      /\ f.retired = e.retired
      /\ f.life = e.life /\ f.dirty = TRUE /\ f.broken = e.broken
      /\ f.observing = e.observing
  BY DEF EntryRecord
<1>2. f \in EntryRecord
  BY DEF EntryRecord, Phases, Lives, Terminal, Outcomes, Answers
<1>3. e.outcome \in Outcomes
  BY DEF EntryRecord
<1> HIDE DEF f
<1>4. StopToldTo(f) /\ EndsForCause(f) /\ StartupOf(f)
  BY <1>1, <1>2, <1>3 DEF EntryOK, StopToldTo, EndsForCause, StartupOf, TicketsOf,
     QuietOf, Terminal, Fatal, Outcomes
<1>5. TicketsOf(f) /\ QuietOf(f)
  BY <1>1, <1>2, <1>3 DEF EntryOK, StopToldTo, EndsForCause, StartupOf, TicketsOf,
     QuietOf, Terminal, Fatal, Outcomes
<1>6. Onward(e, f)
  BY <1>1 DEF Onward, EntryOK, StopToldTo, StartupOf, QuietOf, Terminal
<1> QED
  BY <1>2, <1>4, <1>5, <1>6 DEF EntryOK, Outer, f

\* The engine is up.
LEMMA OpensKeeps ==
    ASSUME NEW e \in EntryRecord,
           EntryOK(e), e.life = "Starting", e.dirty
    PROVE  Outer(e, [e EXCEPT !.life = "Running"])
<1> DEFINE f == [e EXCEPT !.life = "Running"]
<1>1. /\ f.id = e.id /\ f.phase = e.phase /\ f.outcome = e.outcome
      /\ f.operations = e.operations /\ f.stop_requested = e.stop_requested
      /\ f.startup_done = e.startup_done
      /\ f.cancelled_before_start = e.cancelled_before_start /\ f.started = e.started
      /\ f.retired = e.retired
      /\ f.life = "Running" /\ f.dirty = e.dirty /\ f.broken = e.broken
      /\ f.observing = e.observing
  BY DEF EntryRecord
<1>2. f \in EntryRecord
  BY DEF EntryRecord, Phases, Lives, Terminal, Outcomes, Answers
<1>3. e.outcome \in Outcomes
  BY DEF EntryRecord
<1> HIDE DEF f
<1>4. StopToldTo(f) /\ EndsForCause(f) /\ StartupOf(f)
  BY <1>1, <1>2, <1>3 DEF EntryOK, StopToldTo, EndsForCause, StartupOf, TicketsOf,
     QuietOf, Terminal, Fatal, Outcomes
<1>5. TicketsOf(f) /\ QuietOf(f)
  BY <1>1, <1>2, <1>3 DEF EntryOK, StopToldTo, EndsForCause, StartupOf, TicketsOf,
     QuietOf, Terminal, Fatal, Outcomes
<1>6. Onward(e, f)
  BY <1>1 DEF Onward, EntryOK, StopToldTo, StartupOf, QuietOf, Terminal
<1> QED
  BY <1>2, <1>4, <1>5, <1>6 DEF EntryOK, Outer, f

\* The engine threw while it started.
LEMMA ThrowsKeeps ==
    ASSUME NEW e \in EntryRecord,
           EntryOK(e), e.life = "Starting"
    PROVE  Outer(e, [e EXCEPT !.life = "Stopping", !.broken = TRUE])
<1> DEFINE f == [e EXCEPT !.life = "Stopping", !.broken = TRUE]
<1>1. /\ f.id = e.id /\ f.phase = e.phase /\ f.outcome = e.outcome
      /\ f.operations = e.operations /\ f.stop_requested = e.stop_requested
      /\ f.startup_done = e.startup_done
      /\ f.cancelled_before_start = e.cancelled_before_start /\ f.started = e.started
      /\ f.retired = e.retired
      /\ f.life = "Stopping" /\ f.dirty = e.dirty /\ f.broken = TRUE
      /\ f.observing = e.observing
  BY DEF EntryRecord
<1>2. f \in EntryRecord
  BY DEF EntryRecord, Phases, Lives, Terminal, Outcomes, Answers
<1>3. e.outcome \in Outcomes
  BY DEF EntryRecord
<1> HIDE DEF f
<1>4. StopToldTo(f) /\ EndsForCause(f) /\ StartupOf(f)
  BY <1>1, <1>2, <1>3 DEF EntryOK, StopToldTo, EndsForCause, StartupOf, TicketsOf,
     QuietOf, Terminal, Fatal, Outcomes
<1>5. TicketsOf(f) /\ QuietOf(f)
  BY <1>1, <1>2, <1>3 DEF EntryOK, StopToldTo, EndsForCause, StartupOf, TicketsOf,
     QuietOf, Terminal, Fatal, Outcomes
<1>6. Onward(e, f)
  BY <1>1 DEF Onward, EntryOK, StopToldTo, StartupOf, QuietOf, Terminal
<1> QED
  BY <1>2, <1>4, <1>5, <1>6 DEF EntryOK, Outer, f

\* The engine is stopped.
LEMMA StopsKeeps ==
    ASSUME NEW e \in EntryRecord, NEW b \in BOOLEAN,
           EntryOK(e), e.life = "Stopping", e.broken => b
    PROVE  Outer(e, [e EXCEPT !.dirty = FALSE, !.broken = b])
<1> DEFINE f == [e EXCEPT !.dirty = FALSE, !.broken = b]
<1>1. /\ f.id = e.id /\ f.phase = e.phase /\ f.outcome = e.outcome
      /\ f.operations = e.operations /\ f.stop_requested = e.stop_requested
      /\ f.startup_done = e.startup_done
      /\ f.cancelled_before_start = e.cancelled_before_start /\ f.started = e.started
      /\ f.retired = e.retired
      /\ f.life = e.life /\ f.dirty = FALSE /\ f.broken = b
      /\ f.observing = e.observing
  BY DEF EntryRecord
<1>2. f \in EntryRecord
  BY DEF EntryRecord, Phases, Lives, Terminal, Outcomes, Answers
<1>3. e.outcome \in Outcomes
  BY DEF EntryRecord
<1> HIDE DEF f
<1>4. StopToldTo(f) /\ EndsForCause(f) /\ StartupOf(f)
  BY <1>1, <1>2, <1>3 DEF EntryOK, StopToldTo, EndsForCause, StartupOf, TicketsOf,
     QuietOf, Terminal, Fatal, Outcomes
<1>5. TicketsOf(f) /\ QuietOf(f)
  BY <1>1, <1>2, <1>3 DEF EntryOK, StopToldTo, EndsForCause, StartupOf, TicketsOf,
     QuietOf, Terminal, Fatal, Outcomes
<1>6. Onward(e, f)
  BY <1>1 DEF Onward, EntryOK, StopToldTo, StartupOf, QuietOf, Terminal
<1> QED
  BY <1>2, <1>4, <1>5, <1>6 DEF EntryOK, Outer, f

\* The session is over.
LEMMA EndsKeeps ==
    ASSUME NEW e \in EntryRecord, NEW l,
           EntryOK(e), e.life = "Stopping", ~e.dirty,
           l = IF e.broken THEN "Failed" ELSE "Stopped"
    PROVE  Outer(e, [e EXCEPT !.life = l, !.observing = TRUE])
<1> DEFINE f == [e EXCEPT !.life = l, !.observing = TRUE]
<1>1. /\ f.id = e.id /\ f.phase = e.phase /\ f.outcome = e.outcome
      /\ f.operations = e.operations /\ f.stop_requested = e.stop_requested
      /\ f.startup_done = e.startup_done
      /\ f.cancelled_before_start = e.cancelled_before_start /\ f.started = e.started
      /\ f.retired = e.retired
      /\ f.life = l /\ f.dirty = e.dirty /\ f.broken = e.broken
      /\ f.observing = TRUE
  BY DEF EntryRecord
<1>2. f \in EntryRecord
  BY DEF EntryRecord, Phases, Lives, Terminal, Outcomes, Answers
<1>3. e.outcome \in Outcomes
  BY DEF EntryRecord
<1> HIDE DEF f
<1>4. StopToldTo(f) /\ EndsForCause(f) /\ StartupOf(f)
  BY <1>1, <1>2, <1>3 DEF EntryOK, StopToldTo, EndsForCause, StartupOf, TicketsOf,
     QuietOf, Terminal, Fatal, Outcomes
<1>5. TicketsOf(f) /\ QuietOf(f)
  BY <1>1, <1>2, <1>3 DEF EntryOK, StopToldTo, EndsForCause, StartupOf, TicketsOf,
     QuietOf, Terminal, Fatal, Outcomes
<1>6. Onward(e, f)
  BY <1>1 DEF Onward, EntryOK, StopToldTo, StartupOf, QuietOf, Terminal
<1> QED
  BY <1>2, <1>4, <1>5, <1>6 DEF EntryOK, Outer, f

\* Its observers have seen everything.
LEMMA DrainKeeps ==
    ASSUME NEW e \in EntryRecord,
           EntryOK(e)
    PROVE  Outer(e, [e EXCEPT !.observing = FALSE])
<1> DEFINE f == [e EXCEPT !.observing = FALSE]
<1>1. /\ f.id = e.id /\ f.phase = e.phase /\ f.outcome = e.outcome
      /\ f.operations = e.operations /\ f.stop_requested = e.stop_requested
      /\ f.startup_done = e.startup_done
      /\ f.cancelled_before_start = e.cancelled_before_start /\ f.started = e.started
      /\ f.retired = e.retired
      /\ f.life = e.life /\ f.dirty = e.dirty /\ f.broken = e.broken
      /\ f.observing = FALSE
  BY DEF EntryRecord
<1>2. f \in EntryRecord
  BY DEF EntryRecord, Phases, Lives, Terminal, Outcomes, Answers
<1>3. e.outcome \in Outcomes
  BY DEF EntryRecord
<1> HIDE DEF f
<1>4. StopToldTo(f) /\ EndsForCause(f) /\ StartupOf(f)
  BY <1>1, <1>2, <1>3 DEF EntryOK, StopToldTo, EndsForCause, StartupOf, TicketsOf,
     QuietOf, Terminal, Fatal, Outcomes
<1>5. TicketsOf(f) /\ QuietOf(f)
  BY <1>1, <1>2, <1>3 DEF EntryOK, StopToldTo, EndsForCause, StartupOf, TicketsOf,
     QuietOf, Terminal, Fatal, Outcomes
<1>6. Onward(e, f)
  BY <1>1 DEF Onward, EntryOK, StopToldTo, StartupOf, QuietOf, Terminal
<1> QED
  BY <1>2, <1>4, <1>5, <1>6 DEF EntryOK, Outer, f

\* A lease is taken or given back.
LEMMA CountKeeps ==
    ASSUME NEW e \in EntryRecord, NEW n \in Nat,
           EntryOK(e)
    PROVE  Outer(e, [e EXCEPT !.operations = n])
<1> DEFINE f == [e EXCEPT !.operations = n]
<1>1. /\ f.id = e.id /\ f.phase = e.phase /\ f.outcome = e.outcome
      /\ f.operations = n /\ f.stop_requested = e.stop_requested
      /\ f.startup_done = e.startup_done
      /\ f.cancelled_before_start = e.cancelled_before_start /\ f.started = e.started
      /\ f.retired = e.retired
      /\ f.life = e.life /\ f.dirty = e.dirty /\ f.broken = e.broken
      /\ f.observing = e.observing
  BY DEF EntryRecord
<1>2. f \in EntryRecord
  BY DEF EntryRecord, Phases, Lives, Terminal, Outcomes, Answers
<1>3. e.outcome \in Outcomes
  BY DEF EntryRecord
<1> HIDE DEF f
<1>4. StopToldTo(f) /\ EndsForCause(f) /\ StartupOf(f)
  BY <1>1, <1>2, <1>3 DEF EntryOK, StopToldTo, EndsForCause, StartupOf, TicketsOf,
     QuietOf, Terminal, Fatal, Outcomes
<1>5. TicketsOf(f) /\ QuietOf(f)
  BY <1>1, <1>2, <1>3 DEF EntryOK, StopToldTo, EndsForCause, StartupOf, TicketsOf,
     QuietOf, Terminal, Fatal, Outcomes
<1>6. Onward(e, f)
  BY <1>1 DEF Onward, EntryOK, StopToldTo, StartupOf, QuietOf, Terminal
<1> QED
  BY <1>2, <1>4, <1>5, <1>6 DEF EntryOK, Outer, f

\* A worker takes the reservation.
LEMMA TakeKeeps ==
    ASSUME NEW e \in EntryRecord,
           EntryOK(e), e.phase = "Reserved"
    PROVE  /\ [e EXCEPT !.phase = "Starting"] \in EntryRecord
           /\ EntryOK([e EXCEPT !.phase = "Starting"])
<1> DEFINE f == [e EXCEPT !.phase = "Starting"]
<1>1. /\ f.id = e.id /\ f.phase = "Starting" /\ f.outcome = e.outcome
      /\ f.operations = e.operations /\ f.stop_requested = e.stop_requested
      /\ f.startup_done = e.startup_done
      /\ f.cancelled_before_start = e.cancelled_before_start /\ f.started = e.started
      /\ f.retired = e.retired
      /\ f.life = e.life /\ f.dirty = e.dirty /\ f.broken = e.broken
      /\ f.observing = e.observing
  BY DEF EntryRecord
<1>2. f \in EntryRecord
  BY DEF EntryRecord, Phases, Lives, Terminal, Outcomes, Answers
<1>3. e.outcome \in Outcomes
  BY DEF EntryRecord
<1> HIDE DEF f
<1>4. StopToldTo(f) /\ EndsForCause(f) /\ StartupOf(f)
  BY <1>1, <1>2, <1>3 DEF EntryOK, StopToldTo, EndsForCause, StartupOf, TicketsOf,
     QuietOf, Terminal, Fatal, Outcomes
<1>5. TicketsOf(f) /\ QuietOf(f)
  BY <1>1, <1>2, <1>3 DEF EntryOK, StopToldTo, EndsForCause, StartupOf, TicketsOf,
     QuietOf, Terminal, Fatal, Outcomes
<1> QED
  BY <1>2, <1>4, <1>5 DEF EntryOK, f

\* The session is built.
LEMMA InstallKeeps ==
    ASSUME NEW e \in EntryRecord, NEW l,
           EntryOK(e), ~e.startup_done, e.life = "None",
           l = IF e.stop_requested THEN "Stopping" ELSE "Created", e.phase # "Reserved"
    PROVE  [e EXCEPT !.life = l] \in EntryRecord /\ EntryOK([e EXCEPT !.life = l])
<1> DEFINE f == [e EXCEPT !.life = l]
<1>1. /\ f.id = e.id /\ f.phase = e.phase /\ f.outcome = e.outcome
      /\ f.operations = e.operations /\ f.stop_requested = e.stop_requested
      /\ f.startup_done = e.startup_done
      /\ f.cancelled_before_start = e.cancelled_before_start /\ f.started = e.started
      /\ f.retired = e.retired
      /\ f.life = l /\ f.dirty = e.dirty /\ f.broken = e.broken
      /\ f.observing = e.observing
  BY DEF EntryRecord
<1>2. f \in EntryRecord
  BY DEF EntryRecord, Phases, Lives, Terminal, Outcomes, Answers
<1>3. e.outcome \in Outcomes
  BY DEF EntryRecord
<1> HIDE DEF f
<1>4. StopToldTo(f) /\ EndsForCause(f) /\ StartupOf(f)
  BY <1>1, <1>2, <1>3 DEF EntryOK, StopToldTo, EndsForCause, StartupOf, TicketsOf,
     QuietOf, Terminal, Fatal, Outcomes
<1>5. TicketsOf(f) /\ QuietOf(f)
  BY <1>1, <1>2, <1>3 DEF EntryOK, StopToldTo, EndsForCause, StartupOf, TicketsOf,
     QuietOf, Terminal, Fatal, Outcomes
<1> QED
  BY <1>2, <1>4, <1>5 DEF EntryOK, f

\* The session is started.
LEMMA StartKeeps ==
    ASSUME NEW e \in EntryRecord,
           EntryOK(e), e.life = "Created"
    PROVE  /\ [e EXCEPT !.life = "Starting"] \in EntryRecord
           /\ EntryOK([e EXCEPT !.life = "Starting"])
<1> DEFINE f == [e EXCEPT !.life = "Starting"]
<1>1. /\ f.id = e.id /\ f.phase = e.phase /\ f.outcome = e.outcome
      /\ f.operations = e.operations /\ f.stop_requested = e.stop_requested
      /\ f.startup_done = e.startup_done
      /\ f.cancelled_before_start = e.cancelled_before_start /\ f.started = e.started
      /\ f.retired = e.retired
      /\ f.life = "Starting" /\ f.dirty = e.dirty /\ f.broken = e.broken
      /\ f.observing = e.observing
  BY DEF EntryRecord
<1>2. f \in EntryRecord
  BY DEF EntryRecord, Phases, Lives, Terminal, Outcomes, Answers
<1>3. e.outcome \in Outcomes
  BY DEF EntryRecord
<1> HIDE DEF f
<1>4. StopToldTo(f) /\ EndsForCause(f) /\ StartupOf(f)
  BY <1>1, <1>2, <1>3 DEF EntryOK, StopToldTo, EndsForCause, StartupOf, TicketsOf,
     QuietOf, Terminal, Fatal, Outcomes
<1>5. TicketsOf(f) /\ QuietOf(f)
  BY <1>1, <1>2, <1>3 DEF EntryOK, StopToldTo, EndsForCause, StartupOf, TicketsOf,
     QuietOf, Terminal, Fatal, Outcomes
<1> QED
  BY <1>2, <1>4, <1>5 DEF EntryOK, f

\* The supervisor takes the entry.
LEMMA ClaimKeeps ==
    ASSUME NEW e \in EntryRecord,
           EntryOK(e), e.stop_requested, e.startup_done, ~e.observing,
           e.life \in Terminal \union {"None"}, e.retired = "unset"
    PROVE  /\ [e EXCEPT !.phase = "Retiring"] \in EntryRecord
           /\ EntryOK([e EXCEPT !.phase = "Retiring"])
<1> DEFINE f == [e EXCEPT !.phase = "Retiring"]
<1>1. /\ f.id = e.id /\ f.phase = "Retiring" /\ f.outcome = e.outcome
      /\ f.operations = e.operations /\ f.stop_requested = e.stop_requested
      /\ f.startup_done = e.startup_done
      /\ f.cancelled_before_start = e.cancelled_before_start /\ f.started = e.started
      /\ f.retired = e.retired
      /\ f.life = e.life /\ f.dirty = e.dirty /\ f.broken = e.broken
      /\ f.observing = e.observing
  BY DEF EntryRecord
<1>2. f \in EntryRecord
  BY DEF EntryRecord, Phases, Lives, Terminal, Outcomes, Answers
<1>3. e.outcome \in Outcomes
  BY DEF EntryRecord
<1> HIDE DEF f
<1>4. StopToldTo(f) /\ EndsForCause(f) /\ StartupOf(f)
  BY <1>1, <1>2, <1>3 DEF EntryOK, StopToldTo, EndsForCause, StartupOf, TicketsOf,
     QuietOf, Terminal, Fatal, Outcomes
<1>5. TicketsOf(f) /\ QuietOf(f)
  BY <1>1, <1>2, <1>3 DEF EntryOK, StopToldTo, EndsForCause, StartupOf, TicketsOf,
     QuietOf, Terminal, Fatal, Outcomes
<1> QED
  BY <1>2, <1>4, <1>5 DEF EntryOK, f

\* The session is destroyed.
LEMMA DestroyKeeps ==
    ASSUME NEW e \in EntryRecord,
           EntryOK(e), e.phase = "Retiring"
    PROVE  /\ [e EXCEPT !.phase = "Released"] \in EntryRecord
           /\ EntryOK([e EXCEPT !.phase = "Released"])
<1> DEFINE f == [e EXCEPT !.phase = "Released"]
<1>1. /\ f.id = e.id /\ f.phase = "Released" /\ f.outcome = e.outcome
      /\ f.operations = e.operations /\ f.stop_requested = e.stop_requested
      /\ f.startup_done = e.startup_done
      /\ f.cancelled_before_start = e.cancelled_before_start /\ f.started = e.started
      /\ f.retired = e.retired
      /\ f.life = e.life /\ f.dirty = e.dirty /\ f.broken = e.broken
      /\ f.observing = e.observing
  BY DEF EntryRecord
<1>2. f \in EntryRecord
  BY DEF EntryRecord, Phases, Lives, Terminal, Outcomes, Answers
<1>3. e.outcome \in Outcomes
  BY DEF EntryRecord
<1> HIDE DEF f
<1>4. StopToldTo(f) /\ EndsForCause(f) /\ StartupOf(f)
  BY <1>1, <1>2, <1>3 DEF EntryOK, StopToldTo, EndsForCause, StartupOf, TicketsOf,
     QuietOf, Terminal, Fatal, Outcomes
<1>5. TicketsOf(f) /\ QuietOf(f)
  BY <1>1, <1>2, <1>3 DEF EntryOK, StopToldTo, EndsForCause, StartupOf, TicketsOf,
     QuietOf, Terminal, Fatal, Outcomes
<1> QED
  BY <1>2, <1>4, <1>5 DEF EntryOK, f

\* Startup succeeded.
LEMMA OpenedKeeps ==
    ASSUME NEW e \in EntryRecord,
           EntryOK(e), ~e.startup_done, ~e.stop_requested, e.life # "None",
           e.phase = "Starting"
    PROVE  /\ [e EXCEPT !.startup_done = TRUE, !.phase = "Running", !.started = "Started"] \in EntryRecord
           /\ EntryOK([e EXCEPT !.startup_done = TRUE, !.phase = "Running", !.started = "Started"])
<1> DEFINE f == [e EXCEPT !.startup_done = TRUE, !.phase = "Running", !.started = "Started"]
<1>1. /\ f.id = e.id /\ f.phase = "Running" /\ f.outcome = e.outcome
      /\ f.operations = e.operations /\ f.stop_requested = e.stop_requested
      /\ f.startup_done = TRUE
      /\ f.cancelled_before_start = e.cancelled_before_start /\ f.started = "Started"
      /\ f.retired = e.retired
      /\ f.life = e.life /\ f.dirty = e.dirty /\ f.broken = e.broken
      /\ f.observing = e.observing
  BY DEF EntryRecord
<1>2. f \in EntryRecord
  BY DEF EntryRecord, Phases, Lives, Terminal, Outcomes, Answers
<1>3. e.outcome \in Outcomes
  BY DEF EntryRecord
<1> HIDE DEF f
<1>4. StopToldTo(f) /\ EndsForCause(f) /\ StartupOf(f)
  BY <1>1, <1>2, <1>3 DEF EntryOK, StopToldTo, EndsForCause, StartupOf, TicketsOf,
     QuietOf, Terminal, Fatal, Outcomes
<1>5. TicketsOf(f) /\ QuietOf(f)
  BY <1>1, <1>2, <1>3 DEF EntryOK, StopToldTo, EndsForCause, StartupOf, TicketsOf,
     QuietOf, Terminal, Fatal, Outcomes
<1> QED
  BY <1>2, <1>4, <1>5 DEF EntryOK, f

\* Startup is over and the session was asked to stop.
LEMMA RefusedKeeps ==
    ASSUME NEW e \in EntryRecord, NEW a,
           EntryOK(e), ~e.startup_done, e.stop_requested, a = e.outcome
    PROVE  /\ [e EXCEPT !.startup_done = TRUE, !.started = a] \in EntryRecord
           /\ EntryOK([e EXCEPT !.startup_done = TRUE, !.started = a])
<1> DEFINE f == [e EXCEPT !.startup_done = TRUE, !.started = a]
<1>1. /\ f.id = e.id /\ f.phase = e.phase /\ f.outcome = e.outcome
      /\ f.operations = e.operations /\ f.stop_requested = e.stop_requested
      /\ f.startup_done = TRUE
      /\ f.cancelled_before_start = e.cancelled_before_start /\ f.started = a
      /\ f.retired = e.retired
      /\ f.life = e.life /\ f.dirty = e.dirty /\ f.broken = e.broken
      /\ f.observing = e.observing
  BY DEF EntryRecord
<1>2. f \in EntryRecord
  BY DEF EntryRecord, Phases, Lives, Terminal, Outcomes, Answers
<1>3. e.outcome \in Outcomes
  BY DEF EntryRecord
<1> HIDE DEF f
<1>4. StopToldTo(f) /\ EndsForCause(f) /\ StartupOf(f)
  BY <1>1, <1>2, <1>3 DEF EntryOK, StopToldTo, EndsForCause, StartupOf, TicketsOf,
     QuietOf, Terminal, Fatal, Outcomes
<1>5. TicketsOf(f) /\ QuietOf(f)
  BY <1>1, <1>2, <1>3 DEF EntryOK, StopToldTo, EndsForCause, StartupOf, TicketsOf,
     QuietOf, Terminal, Fatal, Outcomes
<1> QED
  BY <1>2, <1>4, <1>5 DEF EntryOK, f

\* Both tickets are answered.
LEMMA EraseKeeps ==
    ASSUME NEW e \in EntryRecord, NEW a, NEW r,
           EntryOK(e), e.phase = "Released", e.retired = "unset",
           a = IF e.cancelled_before_start THEN e.outcome ELSE e.started, r = e.outcome
    PROVE  /\ [e EXCEPT !.started = a, !.retired = r] \in EntryRecord
           /\ EntryOK([e EXCEPT !.started = a, !.retired = r])
<1> DEFINE f == [e EXCEPT !.started = a, !.retired = r]
<1>1. /\ f.id = e.id /\ f.phase = e.phase /\ f.outcome = e.outcome
      /\ f.operations = e.operations /\ f.stop_requested = e.stop_requested
      /\ f.startup_done = e.startup_done
      /\ f.cancelled_before_start = e.cancelled_before_start /\ f.started = a
      /\ f.retired = r
      /\ f.life = e.life /\ f.dirty = e.dirty /\ f.broken = e.broken
      /\ f.observing = e.observing
  BY DEF EntryRecord
<1>2. f \in EntryRecord
  BY DEF EntryRecord, Phases, Lives, Terminal, Outcomes, Answers
<1>3. e.outcome \in Outcomes
  BY DEF EntryRecord
<1> HIDE DEF f
<1>4. StopToldTo(f) /\ EndsForCause(f) /\ StartupOf(f)
  BY <1>1, <1>2, <1>3 DEF EntryOK, StopToldTo, EndsForCause, StartupOf, TicketsOf,
     QuietOf, Terminal, Fatal, Outcomes
<1>5. TicketsOf(f) /\ QuietOf(f)
  BY <1>1, <1>2, <1>3 DEF EntryOK, StopToldTo, EndsForCause, StartupOf, TicketsOf,
     QuietOf, Terminal, Fatal, Outcomes
<1> QED
  BY <1>2, <1>4, <1>5 DEF EntryOK, f

\* stop_entry() with a reason that takes effect.
LEMMA StopTakesEffect ==
    ASSUME NEW e \in EntryRecord, NEW r \in Outcomes \ {"None", "UnexpectedStop"},
           NEW c \in BOOLEAN, NEW s \in BOOLEAN, NEW l,
           EntryOK(e), e.phase \notin {"Retiring", "Released"},
           ~e.stop_requested \/ (r \in Fatal /\ e.outcome \notin Fatal),
           c <=> (e.cancelled_before_start \/ (~e.stop_requested /\ e.phase = "Reserved")),
           s <=> (e.startup_done \/ (~e.stop_requested /\ e.phase = "Reserved")),
           l = IF e.life \in {"Created", "Starting", "Running"} THEN "Stopping" ELSE e.life
    PROVE  Outer(e, [e EXCEPT !.outcome = r, !.cancelled_before_start = c, !.startup_done = s,
                              !.stop_requested = TRUE, !.phase = "StopRequested", !.life = l])
<1> DEFINE f == [e EXCEPT !.outcome = r, !.cancelled_before_start = c, !.startup_done = s,
                          !.stop_requested = TRUE, !.phase = "StopRequested", !.life = l]
<1>1. /\ f.id = e.id /\ f.phase = "StopRequested" /\ f.outcome = r
      /\ f.operations = e.operations /\ f.stop_requested = TRUE /\ f.startup_done = s
      /\ f.cancelled_before_start = c /\ f.started = e.started /\ f.retired = e.retired
      /\ f.life = l /\ f.dirty = e.dirty /\ f.broken = e.broken
      /\ f.observing = e.observing
  BY DEF EntryRecord
<1>a. e.life \in Lives /\ e.phase \in Phases
  BY DEF EntryRecord
<1>b. l \in Lives
  BY <1>a DEF Lives
<1>2. f \in EntryRecord
  <2>1. "StopRequested" \in Phases
    BY DEF Phases
  <2> DEFINE g == [e EXCEPT !.outcome = r, !.cancelled_before_start = c, !.startup_done = s]
  <2>2. g \in EntryRecord
    BY DEF EntryRecord
  <2>3. f = [g EXCEPT !.stop_requested = TRUE, !.phase = "StopRequested", !.life = l]
    BY DEF EntryRecord
  <2> HIDE DEF f, g
  <2>4. [g EXCEPT !.stop_requested = TRUE, !.phase = "StopRequested", !.life = l]
           \in EntryRecord
    BY <1>b, <2>1, <2>2 DEF EntryRecord
  <2> QED
    BY <2>3, <2>4
<1>3. e.outcome \in Outcomes
  BY DEF EntryRecord
<1> HIDE DEF f
<1>4. StopToldTo(f) /\ EndsForCause(f) /\ StartupOf(f)
  BY <1>1, <1>2, <1>3, <1>a
     DEF Lives, Phases, EntryOK, StopToldTo, EndsForCause, StartupOf, TicketsOf,
     QuietOf, Terminal, Fatal, Outcomes
<1>5. TicketsOf(f) /\ QuietOf(f)
  BY <1>1, <1>2, <1>3, <1>a
     DEF Lives, Phases, EntryOK, StopToldTo, EndsForCause, StartupOf, TicketsOf,
     QuietOf, Terminal, Fatal, Outcomes
<1>c. e.startup_done \in BOOLEAN
  BY DEF EntryRecord
<1>d. e.phase # "Reserved" => s = e.startup_done
  BY <1>c
<1>6. Onward(e, f)
  BY <1>1, <1>a, <1>d
     DEF Lives, Phases, Onward, EntryOK, StopToldTo, StartupOf, QuietOf, Terminal
<1> QED
  BY <1>2, <1>4, <1>5, <1>6 DEF EntryOK, Outer, f

\* stop_entry(): the entry is asked to stop afterwards, whatever it was before.
LEMMA StopKeeps ==
    ASSUME NEW e \in EntryRecord, NEW r \in Outcomes \ {"None", "UnexpectedStop"},
           EntryOK(e)
    PROVE  /\ Outer(e, Stopped(e, r))
           /\ Stopped(e, r).operations = e.operations
           /\ Stopped(e, r).stop_requested
           /\ e.phase = "Reserved" => Stopped(e, r).phase = "StopRequested" /\ Cancels(e)
<1>1. CASE ~Effective(e, r)
  <2>1. Stopped(e, r) = e
    BY <1>1 DEF Stopped
  <2>2. Outer(e, e)
    BY DEF Outer, Onward
  <2>3. e.stop_requested /\ e.phase # "Reserved"
    BY <1>1 DEF Effective, First, EntryOK, StopToldTo
  <2> QED
    BY <2>1, <2>2, <2>3
<1>2. CASE Effective(e, r)
  <2> DEFINE c == e.cancelled_before_start \/ Cancels(e)
             s == StartupOver(e)
             l == Asked(e.life)
             f == [e EXCEPT !.outcome = r, !.cancelled_before_start = c, !.startup_done = s,
                            !.stop_requested = TRUE, !.phase = "StopRequested", !.life = l]
  <2>1. e.phase \notin {"Retiring", "Released"}
    BY <1>2 DEF Effective, First
  <2>2. ~e.stop_requested \/ (r \in Fatal /\ e.outcome \notin Fatal)
    BY <1>2 DEF Effective, First, Escalates
  <2>3. Cancels(e) <=> ~e.stop_requested /\ e.phase = "Reserved"
    BY <2>1 DEF Cancels, First
  <2>4. /\ c \in BOOLEAN /\ s \in BOOLEAN
        /\ c <=> (e.cancelled_before_start \/ (~e.stop_requested /\ e.phase = "Reserved"))
        /\ s <=> (e.startup_done \/ (~e.stop_requested /\ e.phase = "Reserved"))
    BY <2>3 DEF StartupOver, EntryRecord
  <2>5. l = IF e.life \in {"Created", "Starting", "Running"} THEN "Stopping" ELSE e.life
    BY DEF Asked
  <2>6. Stopped(e, r) = f
    BY <1>2 DEF Stopped, EntryRecord
  <2>7. /\ f.operations = e.operations /\ f.stop_requested
        /\ f.phase = "StopRequested"
    BY DEF EntryRecord
  <2>8. e.phase = "Reserved" => Cancels(e)
    BY <2>3 DEF EntryOK, StopToldTo
  <2>9. Outer(e, f)
    <3> HIDE DEF c, s, l
    <3> QED
      BY <2>1, <2>2, <2>4, <2>5, StopTakesEffect
  <2> QED
    BY <2>6, <2>7, <2>8, <2>9
<1> QED
  BY <1>1, <1>2

\* A fresh reservation.
LEMMA NewKeeps ==
    ASSUME NEW i \in Ids
    PROVE  /\ NewEntry(i) \in EntryRecord /\ EntryOK(NewEntry(i))
           /\ NewEntry(i).id = i /\ NewEntry(i).phase = "Reserved"
           /\ NewEntry(i).retired = "unset" /\ NewEntry(i).operations = 0
BY DEF NewEntry, EntryRecord, Phases, Lives, Terminal, Outcomes, Answers, Fatal, EntryOK,
       StopToldTo, EndsForCause, StartupOf, TicketsOf, QuietOf

-----------------------------------------------------------------------------
(***************************************************************************)
(* What the holder of an admission sees                                    *)
(***************************************************************************)

Answered == {"unset", "Started", "twice"}
Shown(e)  == IF e.phase = "Released" THEN "Retiring" ELSE e.phase
Ticket(e) == IF e.started \in Answered THEN e.started ELSE "NotStarted"

\* What a step that erases nothing may do to an entry: one of the moves of ManagedSession.
Advances(e, f) ==
    /\ f.retired = e.retired
    /\ \/ f.started = e.started /\ f.phase = e.phase
       \/ /\ f.started = e.started
          /\ e.phase \in {"Reserved", "Starting", "Running"} /\ f.phase = "StopRequested"
       \/ f.started = e.started /\ e.phase = "Reserved" /\ f.phase = "Starting"
       \/ f.started = e.started /\ e.phase = "StopRequested" /\ f.phase = "Retiring"
       \/ f.started = e.started /\ e.phase = "Retiring" /\ f.phase = "Released"
       \/ e.phase = "Starting" /\ f.phase = "Running" /\ f.started = "Started"
       \/ /\ e.phase \in {"Starting", "StopRequested"} /\ f.phase = "StopRequested"
          /\ e.started = "unset" /\ f.started \in Outcomes

Sees(g) == \/ Admission(g)!Next
           \/ UNCHANGED <<AdmissionPhase(g), StartedTicket(g), IsRetired(g)>>

Seen == \A g \in Generations : Sees(g)

\* The same, in the words of ImplementsAdmissions.
AllSeen == \A g \in Generations :
              Admission(g)!Next
              \/ UNCHANGED <<AdmissionPhase(g), StartedTicket(g), IsRetired(g)>>

\* The three things an application sees of an admission, read off its entry.
LEMMA ViewOf ==
    ASSUME NEW g \in DOMAIN entry, registry \subseteq DOMAIN entry
    PROVE  /\ AdmissionPhase(g) = IF g \in registry THEN Shown(entry[g]) ELSE "Erased"
           /\ StartedTicket(g) = Ticket(entry[g])
           /\ IsRetired(g) = (entry[g].retired # "unset")
BY DEF AdmissionPhase, StartedTicket, IsRetired, Resolved, Shown, Ticket, Answered

LEMMA ViewAfter ==
    ASSUME NEW g, g \in DOMAIN entry', registry' \subseteq DOMAIN entry'
    PROVE  /\ AdmissionPhase(g)' = IF g \in registry' THEN Shown(entry'[g]) ELSE "Erased"
           /\ StartedTicket(g)' = Ticket(entry'[g])
           /\ IsRetired(g)' = (entry'[g].retired # "unset")
BY DEF AdmissionPhase, StartedTicket, IsRetired, Resolved, Shown, Ticket, Answered

\* An entry not yet handed out is seen as nothing.
LEMMA ViewBefore ==
    ASSUME NEW g, g \notin DOMAIN entry, registry \subseteq DOMAIN entry
    PROVE  /\ AdmissionPhase(g) = "None" /\ StartedTicket(g) = "unset" /\ IsRetired(g) = FALSE
BY DEF AdmissionPhase, StartedTicket, IsRetired

LEMMA StillBefore ==
    ASSUME NEW g, g \notin DOMAIN entry', registry' \subseteq DOMAIN entry'
    PROVE  /\ AdmissionPhase(g)' = "None" /\ StartedTicket(g)' = "unset"
           /\ IsRetired(g)' = FALSE
BY DEF AdmissionPhase, StartedTicket, IsRetired

\* Steps that neither admit nor erase.
LEMMA AdvancesAreSeen ==
    ASSUME Entries, Members, UNCHANGED <<registry, generation>>,
           entry' \in [Admitted -> EntryRecord],
           \A g \in Admitted : Advances(entry[g], entry'[g])
    PROVE  Seen
<1> SUFFICES ASSUME NEW g \in Generations PROVE Sees(g)
  BY DEF Seen
<1>1. /\ DOMAIN entry = Admitted /\ DOMAIN entry' = Admitted /\ registry \subseteq Admitted
      /\ registry' = registry
  BY DEF Entries, Members
<1>2. CASE g \notin Admitted
  BY <1>1, <1>2, ViewBefore, StillBefore DEF Sees
<1>3. CASE g \in Admitted
  <2> DEFINE e == entry[g]
             f == entry'[g]
  <2>1. /\ AdmissionPhase(g) = IF g \in registry THEN Shown(e) ELSE "Erased"
        /\ StartedTicket(g) = Ticket(e) /\ IsRetired(g) = (e.retired # "unset")
        /\ AdmissionPhase(g)' = IF g \in registry THEN Shown(f) ELSE "Erased"
        /\ StartedTicket(g)' = Ticket(f) /\ IsRetired(g)' = (f.retired # "unset")
    BY <1>1, <1>3, ViewOf, ViewAfter
  <2>2. EntryOK(e) /\ Advances(e, f) /\ (g \in registry <=> e.retired = "unset")
    BY <1>3 DEF Entries, Members
  <2> HIDE DEF e, f
  <2>3. IsRetired(g)' = IsRetired(g)
    BY <2>1, <2>2 DEF Advances
  <2>4. CASE g \notin registry
    <3>1. e.phase = "Released"
      BY <2>2, <2>4 DEF EntryOK, TicketsOf
    <3>2. f.started = e.started
      BY <2>2, <3>1 DEF Advances
    <3> QED
      BY <2>1, <2>3, <2>4, <3>2 DEF Sees, Ticket
  <2>5. CASE g \in registry
    <3>1. CASE f.started = e.started /\ f.phase = e.phase
      BY <2>1, <2>3, <3>1 DEF Sees, Ticket, Shown
    <3>2. CASE /\ f.started = e.started
               /\ e.phase \in {"Reserved", "Starting", "Running"} /\ f.phase = "StopRequested"
      BY <2>1, <2>3, <2>5, <3>2
         DEF Sees, Ticket, Shown, Admission!Next, Admission!Stop, Admission!Live
    <3>3. CASE f.started = e.started /\ e.phase = "Reserved" /\ f.phase = "Starting"
      BY <2>1, <2>3, <2>5, <3>3 DEF Sees, Ticket, Shown, Admission!Next, Admission!Begin
    <3>4. CASE f.started = e.started /\ e.phase = "StopRequested" /\ f.phase = "Retiring"
      BY <2>1, <2>3, <2>5, <3>4 DEF Sees, Ticket, Shown, Admission!Next, Admission!TakeDown
    <3>5. CASE f.started = e.started /\ e.phase = "Retiring" /\ f.phase = "Released"
      BY <2>1, <2>3, <2>5, <3>5 DEF Sees, Ticket, Shown
    <3>6. CASE e.phase = "Starting" /\ f.phase = "Running" /\ f.started = "Started"
      BY <2>1, <2>3, <2>5, <3>6
         DEF Sees, Ticket, Answered, Shown, Admission!Next, Admission!Open
    <3>7. CASE /\ e.phase \in {"Starting", "StopRequested"} /\ f.phase = "StopRequested"
               /\ e.started = "unset" /\ f.started \in Outcomes
      <4>1. Ticket(e) = "unset" /\ Ticket(f) = "NotStarted"
        BY <3>7 DEF Ticket, Answered, Outcomes, Fatal
      <4> QED
        BY <2>1, <2>3, <2>5, <3>7, <4>1 DEF Sees, Shown, Admission!Next, Admission!Refuse
    <3> QED
      BY <2>2, <3>1, <3>2, <3>3, <3>4, <3>5, <3>6, <3>7 DEF Advances
  <2> QED
    BY <2>4, <2>5
<1> QED
  BY <1>2, <1>3

\* A step on one entry.
LEMMA OneIsSeen ==
    ASSUME Entries, Members, UNCHANGED <<registry, generation>>, NEW g \in Admitted,
           NEW f \in EntryRecord, entry' = [entry EXCEPT ![g] = f], Advances(entry[g], f)
    PROVE  Seen
<1>1. /\ entry' \in [Admitted -> EntryRecord]
      /\ \A h \in Admitted : entry'[h] = IF h = g THEN f ELSE entry[h]
  BY DEF Entries
<1>2. \A h \in Admitted : Advances(entry[h], entry'[h])
  BY <1>1 DEF Advances
<1> QED
  BY <1>1, <1>2, AdvancesAreSeen

-----------------------------------------------------------------------------
(***************************************************************************)
(* Publishing and stopping                                                 *)
(***************************************************************************)

\* The generations handed out are finitely many; the registered ones are among them.
LEMMA Registered ==
    ASSUME Entries, Members, Queued
    PROVE  /\ generation \in Nat \ {0} /\ Admitted \subseteq Generations
           /\ DOMAIN entry = Admitted /\ registry \subseteq Admitted
           /\ IsFiniteSet(registry) /\ IsFiniteSet(pending)
           /\ \A g \in Admitted : entry[g] \in EntryRecord
<1>1. generation \in Nat \ {0} /\ generation <= MaxGenerations + 1
  BY BoundAssumption DEF Entries
<1>2. IsFiniteSet(Admitted)
  BY <1>1, FS_Interval DEF Admitted
<1>3. registry \subseteq Admitted /\ pending \subseteq Admitted
  BY DEF Members, Queued
<1>4. IsFiniteSet(registry) /\ IsFiniteSet(pending)
  BY <1>2, <1>3, FS_Subset
<1>5. Admitted \subseteq Generations
  BY <1>1, BoundAssumption DEF Admitted, Generations
<1> QED
  BY <1>1, <1>3, <1>4, <1>5 DEF Entries

\* publish(): the queue stays within its limit, whatever is dropped.
LEMMA PublishKeeps ==
    ASSUME Lane, NEW notes \in Seq(Notes), Publish(notes)
    PROVE  Lane' /\ (notes = <<>> => notifications' = notifications)
<1>1. CASE UNCHANGED notifications
  BY <1>1 DEF Lane
<1>2. ASSUME NEW n \in 0..Len(notes), n <= Room,
             notifications' = notifications \o SubSeq(notes, 1, n)
      PROVE  Lane' /\ (notes = <<>> => notifications' = notifications)
  <2>1. n \in Nat /\ \A i \in 1..n : notes[i] \in Notes
    BY <1>2
  <2>2. /\ SubSeq(notes, 1, n) \in Seq(Notes)
        /\ Len(SubSeq(notes, 1, n)) = n
    BY <2>1, SubSeqProperties
  <2>3. /\ notifications' \in Seq(Notes)
        /\ Len(notifications') = Len(notifications) + n
    BY <1>2, <2>2, ConcatProperties DEF Lane
  <2>4. Len(notifications) \in Nat /\ MaxPendingNotifications \in Nat
    BY LimitAssumption, LenProperties DEF Lane
  <2>5. Lane'
    BY <1>2, <2>1, <2>3, <2>4 DEF Lane, Room
  <2>6. ASSUME notes = <<>>
        PROVE  notifications' = notifications
    <3>1. n = 0
      BY <1>2, <2>6
    <3>2. SubSeq(notes, 1, n) = <<>>
      BY <3>1, SubSeqEmpty
    <3> QED
      BY <1>2, <3>2, ConcatEmptySeq DEF Lane
  <2> QED
    BY <2>5, <2>6
<1> QED
  BY <1>1, <1>2 DEF Publish

\* What every step but an admission and a retirement does with the registry: it leaves
\* the members alone and only moves their entries onward.
Steady == /\ UNCHANGED <<registry, generation>>
          /\ entry' \in [Admitted -> EntryRecord]
          /\ \A g \in Admitted : Outer(entry[g], entry'[g])
          /\ pending' \subseteq pending
          /\ \A g \in pending' : entry'[g].phase = "Reserved"

\* No lease is taken or given back.
Counted == \A g \in Admitted : entry'[g].operations = entry[g].operations

\* stop_entry() on registered entries.
LEMMA StopsAreSteady ==
    ASSUME Entries, Members, Queued, Lane, UNCHANGED <<registry, generation>>,
           NEW gs \in SUBSET registry, NEW reason \in Outcomes \ {"None", "UnexpectedStop"},
           StopEntries(gs, reason)
    PROVE  /\ Steady /\ Counted /\ Lane'
           /\ \A g \in gs : entry'[g].stop_requested
           /\ gs = {} => notifications' = notifications
<1> USE Registered
<1>1. \A g \in Admitted : entry[g] \in EntryRecord /\ EntryOK(entry[g])
  BY DEF Entries
<1>2. \A g \in Admitted : entry'[g] = IF g \in gs THEN Stopped(entry[g], reason) ELSE entry[g]
  BY DEF StopEntries
<1>3. \A g \in Admitted :
        /\ Outer(entry[g], entry'[g]) /\ entry'[g].operations = entry[g].operations
        /\ g \in gs => /\ entry'[g].stop_requested
                       /\ entry[g].phase = "Reserved" => Cancels(entry[g])
  <2> SUFFICES ASSUME NEW g \in Admitted
               PROVE  /\ Outer(entry[g], entry'[g])
                      /\ entry'[g].operations = entry[g].operations
                      /\ g \in gs => /\ entry'[g].stop_requested
                                     /\ entry[g].phase = "Reserved" => Cancels(entry[g])
    OBVIOUS
  <2>1. CASE g \in gs
    BY <1>1, <1>2, <2>1, StopKeeps
  <2>2. CASE g \notin gs
    <3>1. entry'[g] = entry[g]
      BY <1>2, <2>2
    <3> QED
      BY <1>1, <2>2, <3>1 DEF Outer, Onward
  <2> QED
    BY <2>1, <2>2
<1>4. entry' \in [Admitted -> EntryRecord]
  BY <1>2, <1>3 DEF StopEntries, Outer
<1>5. pending' \subseteq pending /\ \A g \in pending' : entry'[g].phase = "Reserved"
  <2> SUFFICES ASSUME NEW g \in pending'
               PROVE  g \in pending /\ entry'[g].phase = "Reserved"
    OBVIOUS
  <2>1. g \in pending /\ ~(g \in gs /\ Cancels(entry[g]))
    BY DEF StopEntries, StillQueued
  <2>2. g \in Admitted /\ entry[g].phase = "Reserved"
    BY <2>1 DEF Queued
  <2>3. entry'[g] = entry[g]
    BY <1>2, <1>3, <2>1, <2>2
  <2> QED
    BY <2>1, <2>2, <2>3
<1>6. PICK order \in SeqOps!SetToSeqs({g \in gs : First(entry[g])}) :
         Publish([i \in 1..Len(order) |-> Note("StopRequested", order[i])])
  BY DEF StopEntries
<1> DEFINE S == {g \in gs : First(entry[g])}
           notes == [i \in 1..Len(order) |-> Note("StopRequested", order[i])]
<1>7. IsFiniteSet(S) /\ S \subseteq Generations
  BY FS_Subset
<1>8. Cardinality(S) \in Nat
  BY <1>7, FS_CardinalityType
<1>9. order \in [1..Cardinality(S) -> S]
  <2>1. SeqOps!Cardinality(S) = Cardinality(S)
    BY DEF SeqOps!Cardinality, Cardinality
  <2> QED
    BY <1>6, <2>1 DEF SeqOps!SetToSeqs
<1>10. Len(order) = Cardinality(S)
  BY <1>8, <1>9
<1>11. notes \in Seq(Notes) /\ Len(notes) = Cardinality(S)
  <2>1. \A i \in 1..Cardinality(S) : Note("StopRequested", order[i]) \in Notes
    BY <1>7, <1>9 DEF Note, Notes
  <2> QED
    BY <1>8, <1>10, <2>1
<1>12. gs = {} => notes = <<>>
  <2> SUFFICES ASSUME gs = {}
               PROVE  notes = <<>>
    OBVIOUS
  <2>1. Cardinality(S) = 0
    BY FS_EmptySet
  <2> HIDE DEF notes
  <2> QED
    BY <1>11, <2>1, EmptySeq
<1>13. Lane' /\ (notes = <<>> => notifications' = notifications)
  <2> HIDE DEF notes
  <2>1. Publish(notes)
    BY <1>6 DEF notes
  <2> QED
    BY <1>11, <2>1, PublishKeeps
<1> QED
  BY <1>3, <1>4, <1>5, <1>12, <1>13 DEF Steady, Counted

\* A steady step keeps the entries and the membership,
LEMMA SteadyMembers ==
    ASSUME Entries, Members, Queued, Steady
    PROVE  Entries' /\ Members' /\ Queued'
<1> USE Registered
<1>1. Admitted' = Admitted
  BY DEF Steady, Admitted
<1>2. Entries'
  BY <1>1 DEF Entries, Steady, Outer
<1>3. \A g \in Admitted : entry'[g].id = entry[g].id /\ entry'[g].retired = entry[g].retired
  BY DEF Steady, Outer, Onward
<1>4. Members'
  BY <1>1, <1>3 DEF Members, Steady
<1>5. Cardinality(pending') <= Cardinality(pending)
  BY FS_Subset DEF Steady
<1>6. Cardinality(pending) \in Nat /\ Cardinality(pending') \in Nat
  BY FS_Subset, FS_CardinalityType DEF Steady
<1>7. Queued'
  BY <1>1, <1>5, <1>6, LimitAssumption DEF Queued, Steady
<1> QED
  BY <1>2, <1>4, <1>7

\* a drain, when the runtime was draining before,
LEMMA SteadyDrained ==
    ASSUME Entries, Members, Queued, Drained, Steady, UNCHANGED lifecycle
    PROVE  Drained'
BY Registered DEF Drained, Steady, Outer, Onward

\* what a worker relies on,
LEMMA SteadyHeld ==
    ASSUME Entries, Held, Steady, UNCHANGED worker
    PROVE  Held'
<1>1. Admitted' = Admitted
  BY DEF Steady, Admitted
<1>2. ASSUME NEW w \in Workers, worker[w].at \in Busy
      PROVE  LET e == entry'[worker[w].gen] IN
          /\ worker[w].gen \in Admitted
          /\ ~e.startup_done /\ e.phase \in {"Starting", "StopRequested"}
          /\ worker[w].at = "factory" => e.life = "None"
          /\ worker[w].at = "start" => e.life # "None"
          /\ worker[w].at = "report" /\ ~worker[w].failed /\ ~e.stop_requested =>
                e.life # "None"
  <2> DEFINE g == worker[w].gen
  <2>1. /\ g \in Admitted
        /\ ~entry[g].startup_done /\ entry[g].phase \in {"Starting", "StopRequested"}
        /\ worker[w].at = "factory" => entry[g].life = "None"
        /\ worker[w].at = "start" => entry[g].life # "None"
        /\ worker[w].at = "report" /\ ~worker[w].failed /\ ~entry[g].stop_requested =>
              entry[g].life # "None"
    BY <1>2 DEF Held
  <2>2. Onward(entry[g], entry'[g])
    BY <2>1 DEF Steady, Outer
  <2> QED
    BY <2>1, <2>2 DEF Onward
<1> QED
  BY <1>1, <1>2 DEF Held

Calls == [at : {"out", "leased", "inside", "threw", "ending"},
          gen : Generations \union {NoSession}]

\* The leases of every entry are as before.
SameLeases == /\ caller' \in [Callers -> Calls]
              /\ \A c \in Callers : /\ caller'[c].at = "out" <=> caller[c].at = "out"
                                    /\ caller'[c].gen = caller[c].gen

\* what a caller relies on,
LEMMA SteadyLeased ==
    ASSUME Entries, Leased, Steady, Counted, SameLeases
    PROVE  Leased'
<1>1. Admitted' = Admitted
  BY DEF Steady, Admitted
<1>2. ASSUME NEW c \in Callers, caller'[c].at # "out"
      PROVE  LET e == entry'[caller'[c].gen] IN
          /\ caller'[c].gen \in Admitted
          /\ e.phase \in {"Running", "StopRequested"} /\ e.life # "None" /\ e.startup_done
  <2> DEFINE g == caller[c].gen
  <2>1. g = caller'[c].gen /\ caller[c].at # "out"
    BY <1>2 DEF SameLeases
  <2>2. /\ g \in Admitted /\ entry[g].phase \in {"Running", "StopRequested"}
        /\ entry[g].life # "None" /\ entry[g].startup_done
    BY <2>1 DEF Leased
  <2>3. Onward(entry[g], entry'[g])
    BY <2>2 DEF Steady, Outer
  <2> HIDE DEF g
  <2> QED
    BY <2>1, <2>2, <2>3 DEF Onward
<1>3. \A g \in Admitted : Leases(g)' = Leases(g)
  BY DEF Leases, SameLeases
<1>4. \A g \in Admitted : entry'[g].operations = Cardinality(Leases(g)')
  BY <1>3 DEF Leased, Counted
<1> QED
  BY <1>1, <1>2, <1>4 DEF Leased, SameLeases, Calls

\* and what the supervisor knows.
LEMMA SteadySupervised ==
    ASSUME Entries, Members, Queued, Supervised, Steady, UNCHANGED supervisor
    PROVE  Supervised'
<1> USE Registered
<1>1. \A g \in registry : Onward(entry[g], entry'[g]) /\ EntryOK(entry[g])
  BY DEF Steady, Outer, Entries
<1>2. ASSUME supervisor.at \in OnEntry
      PROVE  LET e == entry'[supervisor.gen] IN
          /\ supervisor.gen \in registry \ supervisor.left
          /\ e.startup_done
          /\ supervisor.at = "judge" => e.life # "None"
          /\ supervisor.at = "flush" => e.stop_requested /\ e.life \in Terminal
          /\ supervisor.at = "claim" => /\ e.stop_requested /\ ~e.observing
                                        /\ e.life \in Terminal \union {"None"}
          /\ supervisor.at = "destroy" => e.phase = "Retiring"
          /\ supervisor.at = "erase" => e.phase = "Released"
  <2> DEFINE g == supervisor.gen
             e == entry[g]
             f == entry'[g]
  <2>1. /\ g \in registry \ supervisor.left /\ e.startup_done
        /\ supervisor.at = "judge" => e.life # "None"
        /\ supervisor.at = "flush" => e.stop_requested /\ e.life \in Terminal
        /\ supervisor.at = "claim" => /\ e.stop_requested /\ ~e.observing
                                      /\ e.life \in Terminal \union {"None"}
        /\ supervisor.at = "destroy" => e.phase = "Retiring"
        /\ supervisor.at = "erase" => e.phase = "Released"
    BY <1>2 DEF Supervised
  <2>2. Onward(e, f) /\ EntryOK(e)
    BY <1>1, <2>1
  <2> HIDE DEF e, f
  <2>3. f.startup_done
    BY <2>1, <2>2 DEF Onward, EntryOK, StartupOf
  <2>4. (supervisor.at = "judge" => f.life # "None")
    BY <2>1, <2>2 DEF Onward
  <2>5. supervisor.at = "flush" => f.stop_requested /\ f.life \in Terminal
    BY <2>1, <2>2 DEF Onward
  <2>6. supervisor.at = "claim" => /\ f.stop_requested /\ ~f.observing
                                   /\ f.life \in Terminal \union {"None"}
    BY <2>1, <2>2 DEF Onward, Terminal
  <2>7. /\ supervisor.at = "destroy" => f.phase = "Retiring"
        /\ supervisor.at = "erase" => f.phase = "Released"
    BY <2>1, <2>2 DEF Onward
  <2> QED
    BY <2>1, <2>3, <2>4, <2>5, <2>6, <2>7 DEF f
<1>3. \A g \in registry : entry'[g].phase \in {"Retiring", "Released"} =>
         entry'[g].phase = entry[g].phase
  BY <1>1 DEF Onward
<1>4. registry' = registry
  BY DEF Steady
<1> QED
  BY <1>2, <1>3, <1>4 DEF Supervised

\* An application sees at most that its session was asked to stop.
LEMMA SteadySeen ==
    ASSUME Entries, Members, Steady
    PROVE  Seen
<1>1. \A g \in Admitted : Advances(entry[g], entry'[g])
  <2> SUFFICES ASSUME NEW g \in Admitted PROVE Advances(entry[g], entry'[g])
    OBVIOUS
  <2>1. Onward(entry[g], entry'[g]) /\ entry[g].phase \in Phases
    BY DEF Steady, Outer, Entries, EntryRecord
  <2> QED
    BY <2>1 DEF Onward, Advances, Phases
<1> QED
  BY <1>1, AdvancesAreSeen DEF Steady

\* A step that does not touch the registry is steady.
LEMMA StillSteady ==
    ASSUME Entries, Members, Queued, UNCHANGED <<entry, registry, generation, pending>>
    PROVE  Steady /\ Counted
<1>1. \A g \in Admitted : Outer(entry[g], entry[g])
  BY Registered DEF Entries, Outer, Onward
<1> QED
  BY <1>1 DEF Steady, Counted, Entries, Queued

\* So is one that moves a single entry onward and leaves its phase.
LEMMA OneSteady ==
    ASSUME Entries, Members, Queued, UNCHANGED <<registry, generation, pending>>,
           NEW g \in Admitted, NEW f, entry' = [entry EXCEPT ![g] = f],
           Outer(entry[g], f), f.phase = entry[g].phase
    PROVE  Steady /\ (f.operations = entry[g].operations => Counted)
<1>1. \A h \in Admitted : Outer(entry[h], entry[h])
  BY Registered DEF Entries, Outer, Onward
<1>2. \A h \in Admitted : entry'[h] = IF h = g THEN f ELSE entry[h]
  BY DEF Entries
<1>3. entry' \in [Admitted -> EntryRecord]
  BY DEF Entries, Outer
<1>4. \A h \in Admitted : /\ Outer(entry[h], entry'[h])
                          /\ entry'[h].phase = entry[h].phase
  BY <1>1, <1>2
<1> QED
  BY <1>2, <1>3, <1>4 DEF Steady, Counted, Queued

LEMMA CallersStay ==
    ASSUME Entries, Leased, Steady, Counted, UNCHANGED caller
    PROVE  Leased'
<1>1. SameLeases
  BY DEF Leased, SameLeases, Calls
<1> QED
  BY <1>1, SteadyLeased

\* Nothing that the threads wait for when they leave has changed.
LEMMA EndingStays ==
    ASSUME Ending,
           UNCHANGED <<worker, workers_done, supervisor, registry, lifecycle, dispatcher>>,
           dispatcher.at = "done" => notifications' = notifications
    PROVE  Ending'
BY DEF Ending

LEMMA SteadyKeeps ==
    ASSUME IInv, Steady, Leased', Lane', Ending', UNCHANGED <<lifecycle, worker, supervisor>>
    PROVE  IInv' /\ Seen
<1>1. Entries' /\ Members' /\ Queued'
  BY SteadyMembers DEF IInv
<1>2. Drained' /\ Held'
  BY SteadyDrained, SteadyHeld DEF IInv
<1>3. Supervised'
  BY SteadySupervised DEF IInv
<1>4. Seen
  BY SteadySeen DEF IInv
<1> QED
  BY <1>1, <1>2, <1>3, <1>4 DEF IInv

-----------------------------------------------------------------------------
(***************************************************************************)
(* Sessions, applications and the dispatcher                               *)
(***************************************************************************)

\* A session moves by itself.
LEMMA SessionKeeps ==
    ASSUME IInv, NEW g \in Admitted, NEW f, Session(g, f),
           Outer(entry[g], f), f.operations = entry[g].operations, f.phase = entry[g].phase
    PROVE  IInv' /\ Seen
<1>1. Steady /\ Counted
  BY OneSteady DEF IInv, Session
<1>2. Leased'
  BY <1>1, CallersStay DEF IInv, Session
<1>3. Lane' /\ Ending'
  BY EndingStays DEF IInv, Session, Lane
<1> QED
  BY <1>1, <1>2, <1>3, SteadyKeeps DEF Session

LEMMA SessionsKeep ==
    ASSUME IInv, NEW g \in DOMAIN entry, Sessions(g)
    PROVE  IInv' /\ Seen
<1> DEFINE e == entry[g]
<1>1. g \in Admitted /\ e \in EntryRecord /\ EntryOK(e)
  BY Registered DEF IInv, Entries
<1>2. CASE EngineBegins(g)
  <2>1. e.life = "Starting" /\ Session(g, [e EXCEPT !.dirty = TRUE])
    BY <1>2 DEF EngineBegins
  <2> HIDE DEF e
  <2> DEFINE f == [e EXCEPT !.dirty = TRUE]
  <2>2. Outer(e, f)
    BY <1>1, <2>1, BeginsKeeps
  <2>3. f.operations = e.operations /\ f.phase = e.phase
    BY <1>1 DEF EntryRecord
  <2> HIDE DEF f
  <2> QED
    BY <1>1, <2>1, <2>2, <2>3, SessionKeeps DEF e, f
<1>3. CASE EngineOpens(g)
  <2>1. e.life = "Starting" /\ e.dirty /\ Session(g, [e EXCEPT !.life = "Running"])
    BY <1>3 DEF EngineOpens
  <2> HIDE DEF e
  <2> DEFINE f == [e EXCEPT !.life = "Running"]
  <2>2. Outer(e, f)
    BY <1>1, <2>1, OpensKeeps
  <2>3. f.operations = e.operations /\ f.phase = e.phase
    BY <1>1 DEF EntryRecord
  <2> HIDE DEF f
  <2> QED
    BY <1>1, <2>1, <2>2, <2>3, SessionKeeps DEF e, f
<1>4. CASE EngineThrows(g)
  <2>1. e.life = "Starting" /\ Session(g, [e EXCEPT !.life = "Stopping", !.broken = TRUE])
    BY <1>4 DEF EngineThrows
  <2> HIDE DEF e
  <2> DEFINE f == [e EXCEPT !.life = "Stopping", !.broken = TRUE]
  <2>2. Outer(e, f)
    BY <1>1, <2>1, ThrowsKeeps
  <2>3. f.operations = e.operations /\ f.phase = e.phase
    BY <1>1 DEF EntryRecord
  <2> HIDE DEF f
  <2> QED
    BY <1>1, <2>1, <2>2, <2>3, SessionKeeps DEF e, f
<1>5. CASE EngineStops(g)
  <2>1. PICK throws \in BOOLEAN :
           Session(g, [e EXCEPT !.dirty = FALSE, !.broken = @ \/ throws])
    BY <1>5 DEF EngineStops
  <2>2. e.life = "Stopping"
    BY <1>5 DEF EngineStops
  <2> HIDE DEF e
  <2> DEFINE b == e.broken \/ throws
             f == [e EXCEPT !.dirty = FALSE, !.broken = b]
  <2>3. Session(g, f)
    BY <2>1
  <2>4. b \in BOOLEAN /\ (e.broken => b)
    BY <1>1 DEF EntryRecord
  <2>5. Outer(e, f)
    <3> HIDE DEF b
    <3> QED
      BY <1>1, <2>2, <2>4, StopsKeeps
  <2>6. f.operations = e.operations /\ f.phase = e.phase
    BY <1>1 DEF EntryRecord
  <2> HIDE DEF f
  <2> QED
    BY <1>1, <2>3, <2>5, <2>6, SessionKeeps DEF e
<1>6. CASE SessionEnds(g)
  <2> DEFINE l == IF e.broken THEN "Failed" ELSE "Stopped"
  <2>1. /\ e.life = "Stopping" /\ ~e.dirty
        /\ Session(g, [e EXCEPT !.life = l, !.observing = TRUE])
    BY <1>6 DEF SessionEnds
  <2> DEFINE f == [e EXCEPT !.life = l, !.observing = TRUE]
  <2> HIDE DEF e
  <2>2. Outer(e, f)
    <3>1. l = IF e.broken THEN "Failed" ELSE "Stopped"
      OBVIOUS
    <3> HIDE DEF l
    <3> QED
      BY <1>1, <2>1, <3>1, EndsKeeps
  <2>3. f.operations = e.operations /\ f.phase = e.phase
    BY <1>1 DEF EntryRecord
  <2> HIDE DEF f
  <2> QED
    BY <1>1, <2>1, <2>2, <2>3, SessionKeeps DEF e, f
<1>7. CASE ObserversDrain(g)
  <2>1. Session(g, [e EXCEPT !.observing = FALSE])
    BY <1>7 DEF ObserversDrain
  <2> HIDE DEF e
  <2> DEFINE f == [e EXCEPT !.observing = FALSE]
  <2>2. Outer(e, f)
    BY <1>1, <2>1, DrainKeeps
  <2>3. f.operations = e.operations /\ f.phase = e.phase
    BY <1>1 DEF EntryRecord
  <2> HIDE DEF f
  <2> QED
    BY <1>1, <2>1, <2>2, <2>3, SessionKeeps DEF e, f
<1> QED
  BY <1>2, <1>3, <1>4, <1>5, <1>6, <1>7 DEF Sessions

\* remove() and fail().
LEMMA RemoveKeeps ==
    ASSUME IInv, NEW g \in registry,
           NEW reason \in Outcomes \ {"None", "UnexpectedStop"}, Remove(g, reason)
    PROVE  IInv' /\ Seen
<1>1. Steady /\ Counted /\ Lane'
  BY StopsAreSteady DEF IInv, Remove
<1>2. Leased'
  BY <1>1, CallersStay DEF IInv, Remove
<1>3. dispatcher.at # "done"
  BY DEF IInv, Ending
<1>4. Ending'
  BY <1>3, EndingStays DEF IInv, Remove
<1> QED
  BY <1>1, <1>2, <1>4, SteadyKeeps DEF Remove

\* request_shutdown(): the stop is on every member before the drain is seen.
LEMMA ShutdownKeeps ==
    ASSUME IInv, RequestShutdown
    PROVE  IInv' /\ Seen
<1>1. "RuntimeShutdown" \in Outcomes \ {"None", "UnexpectedStop"}
  BY DEF Outcomes
<1>2. /\ Steady /\ Counted /\ Lane'
      /\ \A g \in registry : entry'[g].stop_requested
  BY <1>1, StopsAreSteady DEF IInv, RequestShutdown
<1>3. Leased'
  BY <1>2, CallersStay DEF IInv, RequestShutdown
<1>4. Entries' /\ Members' /\ Queued'
  BY <1>2, SteadyMembers DEF IInv
<1>5. Drained'
  BY <1>2 DEF Drained, RequestShutdown, Steady
<1>6. Held' /\ Supervised'
  BY <1>2, SteadyHeld, SteadySupervised DEF IInv, RequestShutdown
<1>7. supervisor.at # "done" /\ dispatcher.at # "done"
  BY DEF IInv, Ending, RequestShutdown
<1>8. Ending'
  BY <1>7 DEF IInv, Ending, RequestShutdown
<1> QED
  BY <1>2, <1>3, <1>4, <1>5, <1>6, <1>8, SteadySeen DEF IInv

\* dispatch().
LEMMA DispatchingKeeps ==
    ASSUME IInv, Dispatching
    PROVE  IInv' /\ Seen
<1>1. Steady /\ Counted
  BY StillSteady DEF IInv, Dispatching, Dispatch, Notified, DispatchEnds
<1>2. Leased'
  BY <1>1, CallersStay DEF IInv, Dispatching, Dispatch, Notified, DispatchEnds
<1>3. Entries' /\ Members' /\ Queued'
  BY <1>1, SteadyMembers DEF IInv
<1>4. Held' /\ Leased' /\ Supervised'
  BY <1>1, <1>2, SteadyHeld, SteadySupervised
     DEF IInv, Dispatching, Dispatch, Notified, DispatchEnds
<1>5. CASE Dispatch
  <2>1. Drained'
    BY <1>1, <1>5, SteadyDrained DEF IInv, Dispatch
  <2>2. Lane'
    BY <1>5, HeadTailProperties, LimitAssumption, LenProperties DEF IInv, Lane, Dispatch
  <2>3. Ending'
    BY <1>5 DEF IInv, Ending, Dispatch
  <2> QED
    BY <1>1, <1>3, <1>4, <2>1, <2>2, <2>3, SteadySeen DEF IInv
<1>6. CASE Notified
  <2>1. Drained'
    BY <1>1, <1>6, SteadyDrained DEF IInv, Notified
  <2>2. Lane' /\ Ending'
    BY <1>6 DEF IInv, Ending, Lane, Notified
  <2> QED
    BY <1>1, <1>3, <1>4, <2>1, <2>2, SteadySeen DEF IInv
<1>7. CASE DispatchEnds
  <2>1. Drained'
    BY <1>7 DEF IInv, Ending, Drained, DispatchEnds
  <2>2. dispatcher'.at = "done" /\ DOMAIN dispatcher' = {"at", "note"}
    BY <1>7 DEF IInv, Ending, DispatchEnds
  <2>3. Lane' /\ Ending'
    BY <1>7, <2>2 DEF IInv, Ending, Lane, DispatchEnds
  <2> QED
    BY <1>1, <1>3, <1>4, <2>1, <2>3, SteadySeen DEF IInv
<1> QED
  BY <1>5, <1>6, <1>7 DEF Dispatching

-----------------------------------------------------------------------------
(***************************************************************************)
(* Callers                                                                 *)
(***************************************************************************)

\* A caller that keeps its lease.
LEMMA CallerStays ==
    ASSUME Leased, NEW c \in Callers, caller[c].at # "out",
           NEW at \in {"leased", "inside", "threw", "ending"}, Moves(c, at, caller[c].gen)
    PROVE  SameLeases
<1>1. caller \in [Callers -> Calls]
  BY DEF Leased, Calls
<1>2. [at |-> at, gen |-> caller[c].gen] \in Calls
  BY <1>1 DEF Calls
<1>3. caller' \in [Callers -> Calls]
  BY <1>1, <1>2 DEF Moves
<1>4. \A d \in Callers : /\ caller'[d].at = "out" <=> caller[d].at = "out"
                         /\ caller'[d].gen = caller[d].gen
  BY <1>1 DEF Moves
<1> QED
  BY <1>3, <1>4 DEF SameLeases

LEMMA EnterKeeps ==
    ASSUME IInv, NEW c \in Callers,
           Enter(c) \/ Bypass(c) \/ EngineReturns(c, "ending") \/ EngineReturns(c, "threw")
    PROVE  IInv' /\ Seen
<1>1. /\ UNCHANGED <<entry, registry, generation, pending, lifecycle, worker, workers_done,
                     supervisor, notifications, dispatcher>>
      /\ caller[c].at # "out"
      /\ \E at \in {"inside", "threw", "ending"} : Moves(c, at, caller[c].gen)
  BY DEF Enter, Bypass, EngineReturns
<1>2. Steady /\ Counted
  BY <1>1, StillSteady DEF IInv
<1>3. SameLeases
  BY <1>1, CallerStays DEF IInv
<1>4. Leased'
  BY <1>2, <1>3, SteadyLeased DEF IInv
<1>5. Lane' /\ Ending'
  BY <1>1, EndingStays DEF IInv, Lane
<1> QED
  BY <1>1, <1>2, <1>4, <1>5, SteadyKeeps

\* remove(handle, EngineFailure) with the lease still held.
LEMMA ReportEngineFailureKeeps ==
    ASSUME IInv, NEW c \in Callers, ReportEngineFailure(c)
    PROVE  IInv' /\ Seen
<1> DEFINE gs == {caller[c].gen} \intersect registry
<1>1. "EngineFailure" \in Outcomes \ {"None", "UnexpectedStop"}
  BY DEF Outcomes, Fatal
<1>2. StopEntries(gs, "EngineFailure") /\ gs \in SUBSET registry
  BY DEF ReportEngineFailure
<1>3. /\ Steady /\ Counted /\ Lane'
      /\ gs = {} => notifications' = notifications
  <2> HIDE DEF gs
  <2> QED
    BY <1>1, <1>2, StopsAreSteady DEF IInv, ReportEngineFailure
<1>4. SameLeases
  BY CallerStays DEF IInv, ReportEngineFailure
<1>5. Leased'
  BY <1>3, <1>4, SteadyLeased DEF IInv
<1>6. dispatcher.at = "done" => notifications' = notifications
  BY <1>3 DEF IInv, Ending
<1>7. Ending'
  BY <1>6, EndingStays DEF IInv, ReportEngineFailure
<1> QED
  BY <1>3, <1>5, <1>7, SteadyKeeps DEF ReportEngineFailure

LEMMA LeasesFinite ==
    ASSUME NEW g
    PROVE  IsFiniteSet(Leases(g)) /\ Cardinality(Leases(g)) \in Nat
<1>1. Leases(g) \in SUBSET Callers
  BY DEF Leases
<1>2. IsFiniteSet(Leases(g))
  BY <1>1, FS_Subset, ThreadsAssumption
<1> QED
  BY <1>2, FS_CardinalityType

\* acquire: the entry is counted by one more.
LEMMA LeaseKeeps ==
    ASSUME IInv, NEW c \in Callers, NEW g \in registry, Lease(c, g)
    PROVE  IInv' /\ Seen
<1> DEFINE e == entry[g]
           f == [e EXCEPT !.operations = e.operations + 1]
<1>1. g \in Admitted /\ e \in EntryRecord /\ EntryOK(e) /\ Admitted \subseteq Generations
  BY Registered DEF IInv, Entries
<1>2. entry' = [entry EXCEPT ![g] = f]
  BY DEF Lease
<1>3. Outer(e, f) /\ f.phase = e.phase /\ f.operations = e.operations + 1
  <2>1. e.operations + 1 \in Nat
    BY <1>1 DEF EntryRecord
  <2>2. Outer(e, f)
    BY <1>1, <2>1, CountKeeps
  <2> QED
    BY <1>1, <2>2 DEF EntryRecord
<1> HIDE DEF e, f
<1>4. Steady
  BY <1>1, <1>2, <1>3, OneSteady DEF IInv, Lease, e
<1>5. Admitted' = Admitted
  BY DEF Lease, Admitted
<1>6. \A h \in Admitted : entry'[h] = IF h = g THEN f ELSE entry[h]
  BY <1>2 DEF IInv, Entries
<1>7. caller \in [Callers -> Calls] /\ caller[c].at = "out"
  BY DEF IInv, Leased, Calls, Lease
<1>8. caller' = [caller EXCEPT ![c] = [at |-> "leased", gen |-> g]]
  BY DEF Lease, Moves
<1>9. caller' \in [Callers -> Calls]
  BY <1>1, <1>7, <1>8 DEF Calls
<1>10. \A d \in Callers : caller'[d] = IF d = c THEN [at |-> "leased", gen |-> g] ELSE caller[d]
  BY <1>7, <1>8
<1>11. /\ Leases(g)' = Leases(g) \union {c} /\ c \notin Leases(g)
       /\ \A h \in Admitted : h # g => Leases(h)' = Leases(h)
  BY <1>7, <1>10 DEF Leases
<1>12. Cardinality(Leases(g)') = Cardinality(Leases(g)) + 1
  BY <1>11, LeasesFinite, FS_AddElement
<1>13. \A h \in Admitted : entry'[h].operations = Cardinality(Leases(h)')
  BY <1>3, <1>6, <1>11, <1>12 DEF IInv, Leased, e
<1>14. ASSUME NEW d \in Callers, caller'[d].at # "out"
       PROVE  LET x == entry'[caller'[d].gen] IN
              /\ caller'[d].gen \in Admitted
              /\ x.phase \in {"Running", "StopRequested"} /\ x.life # "None" /\ x.startup_done
  <2>1. CASE d = c
    <3>1. caller'[d].gen = g /\ entry'[g] = f
      BY <1>1, <1>6, <1>10, <2>1
    <3>2. e.phase = "Running"
      BY DEF Lease, Leasable, e
    <3>3. e.startup_done /\ e.life # "None"
      BY <1>1, <3>2 DEF EntryOK, StartupOf, StopToldTo
    <3>4. f.startup_done /\ f.life # "None" /\ f.phase = "Running"
      BY <1>3, <3>2, <3>3 DEF Outer, Onward
    <3> QED
      BY <1>1, <3>1, <3>4
  <2>2. CASE d # c
    <3> DEFINE h == caller[d].gen
    <3>1. caller'[d] = caller[d]
      BY <1>10, <2>2
    <3>2. /\ h \in Admitted /\ entry[h].phase \in {"Running", "StopRequested"}
          /\ entry[h].life # "None" /\ entry[h].startup_done
      BY <1>14, <3>1 DEF IInv, Leased
    <3>3. Onward(entry[h], entry'[h])
      BY <1>4, <3>2 DEF Steady, Outer
    <3> HIDE DEF h
    <3>4. /\ entry'[h].phase \in {"Running", "StopRequested"}
          /\ entry'[h].life # "None" /\ entry'[h].startup_done
      BY <3>2, <3>3 DEF Onward
    <3> QED
      BY <3>1, <3>2, <3>4 DEF h
  <2> QED
    BY <2>1, <2>2
<1>15. Leased'
  BY <1>5, <1>9, <1>13, <1>14 DEF Leased, Calls
<1>16. Lane' /\ Ending'
  BY EndingStays DEF IInv, Lane, Lease
<1> QED
  BY <1>4, <1>15, <1>16, SteadyKeeps DEF Lease

\* The lease is given back.
LEMMA EndLeaseKeeps ==
    ASSUME IInv, NEW c \in Callers, EndLease(c)
    PROVE  IInv' /\ Seen
<1>1. caller \in [Callers -> Calls] /\ caller[c].at = "ending"
  BY DEF IInv, Leased, Calls, EndLease
<1>2. PICK g \in Admitted : g = caller[c].gen
  BY <1>1 DEF IInv, Leased
<1> DEFINE e == entry[g]
           f == [e EXCEPT !.operations = e.operations - 1]
<1>3. e \in EntryRecord /\ EntryOK(e)
  BY <1>2, Registered DEF IInv, Entries
<1>4. c \in Leases(g) /\ e.operations = Cardinality(Leases(g))
  BY <1>1, <1>2 DEF IInv, Leased, Leases
<1>5. /\ Cardinality(Leases(g) \ {c}) = e.operations - 1
      /\ Cardinality(Leases(g) \ {c}) \in Nat
  BY <1>4, LeasesFinite, FS_RemoveElement, FS_CardinalityType
<1>6. entry' = [entry EXCEPT ![g] = f]
  BY <1>2 DEF EndLease
<1>7. Outer(e, f) /\ f.phase = e.phase /\ f.operations = e.operations - 1
  <2>1. e.operations - 1 \in Nat
    BY <1>5
  <2>2. Outer(e, f)
    BY <1>3, <2>1, CountKeeps
  <2> QED
    BY <1>3, <2>2 DEF EntryRecord
<1> HIDE DEF f
<1>8. Steady
  BY <1>2, <1>6, <1>7, OneSteady DEF IInv, EndLease
<1>9. Admitted' = Admitted
  BY DEF EndLease, Admitted
<1>10. \A h \in Admitted : entry'[h] = IF h = g THEN f ELSE entry[h]
  BY <1>6 DEF IInv, Entries
<1>11. caller' = [caller EXCEPT ![c] = [at |-> "out", gen |-> NoSession]]
  BY DEF EndLease, Moves
<1>12. caller' \in [Callers -> Calls]
  BY <1>1, <1>11 DEF Calls
<1>13. \A d \in Callers :
          caller'[d] = IF d = c THEN [at |-> "out", gen |-> NoSession] ELSE caller[d]
  BY <1>1, <1>11
<1>14. /\ Leases(g)' = Leases(g) \ {c}
       /\ \A h \in Admitted : h # g => Leases(h)' = Leases(h)
  BY <1>1, <1>2, <1>13 DEF Leases
<1>15. \A h \in Admitted : entry'[h].operations = Cardinality(Leases(h)')
  <2> SUFFICES ASSUME NEW h \in Admitted
               PROVE  entry'[h].operations = Cardinality(Leases(h)')
    OBVIOUS
  <2>1. CASE h = g
    BY <1>5, <1>7, <1>10, <1>14, <2>1
  <2>2. CASE h # g
    BY <1>10, <1>14, <2>2 DEF IInv, Leased
  <2> QED
    BY <2>1, <2>2
<1>16. ASSUME NEW d \in Callers, caller'[d].at # "out"
       PROVE  LET x == entry'[caller'[d].gen] IN
              /\ caller'[d].gen \in Admitted
              /\ x.phase \in {"Running", "StopRequested"} /\ x.life # "None" /\ x.startup_done
  <2> DEFINE h == caller[d].gen
  <2>1. d # c /\ caller'[d] = caller[d]
    BY <1>13, <1>16
  <2>2. /\ h \in Admitted /\ entry[h].phase \in {"Running", "StopRequested"}
        /\ entry[h].life # "None" /\ entry[h].startup_done
    BY <1>16, <2>1 DEF IInv, Leased
  <2>3. Onward(entry[h], entry'[h])
    BY <1>8, <2>2 DEF Steady, Outer
  <2> HIDE DEF h
  <2>4. /\ entry'[h].phase \in {"Running", "StopRequested"}
        /\ entry'[h].life # "None" /\ entry'[h].startup_done
    BY <2>2, <2>3 DEF Onward
  <2> QED
    BY <2>1, <2>2, <2>4 DEF h
<1>17. Leased'
  BY <1>9, <1>12, <1>15, <1>16 DEF Leased, Calls
<1>18. Lane' /\ Ending'
  BY EndingStays DEF IInv, Lane, EndLease
<1> QED
  BY <1>8, <1>17, <1>18, SteadyKeeps DEF EndLease

-----------------------------------------------------------------------------
(***************************************************************************)
(* Startup workers                                                         *)
(***************************************************************************)

Hands == [at : Busy \union {"idle", "done"},
          gen : Generations \union {NoSession}, failed : BOOLEAN]

\* The last lock of startup_loop(): one answer, and the first fatal reason kept.
LEMMA ReportedKeeps ==
    ASSUME NEW e \in EntryRecord, EntryOK(e), ~e.startup_done,
           e.phase \in {"Starting", "StopRequested"}, NEW failure \in BOOLEAN,
           ~failure /\ ~e.stop_requested => e.life # "None"
    PROVE  LET f == Reported(e, failure) IN
           /\ f \in EntryRecord /\ EntryOK(f)
           /\ f.id = e.id /\ f.retired = e.retired /\ f.operations = e.operations
           /\ e.stop_requested => f.stop_requested
           /\ f.phase \notin {"Retiring", "Released"}
           /\ Advances(e, f)
<1> DEFINE x == IF failure THEN Stopped(e, "StartupFailed") ELSE e
<1>1. "StartupFailed" \in Outcomes \ {"None", "UnexpectedStop"}
  BY DEF Outcomes, Fatal
<1>2. /\ Outer(e, x) /\ x.operations = e.operations
      /\ failure => x.stop_requested
  <2>1. CASE failure
    BY <1>1, <2>1, StopKeeps
  <2>2. CASE ~failure
    BY <2>2 DEF Outer, Onward
  <2> QED
    BY <2>1, <2>2
<1>3. Reported(e, failure) =
        LET settled == [x EXCEPT !.startup_done = TRUE] IN
        IF Opens(settled)
        THEN [settled EXCEPT !.phase = "Running", !.started = Kept(@, "Started")]
        ELSE [settled EXCEPT !.started = Kept(@, settled.outcome)]
  BY DEF Reported
<1>4. failure \/ x = e
  OBVIOUS
<1> HIDE DEF x
<1>5. /\ x \in EntryRecord /\ EntryOK(x) /\ ~x.startup_done
      /\ x.id = e.id /\ x.retired = e.retired
      /\ e.stop_requested => x.stop_requested
      /\ x.phase \notin {"Retiring", "Released"}
  BY <1>2 DEF Outer, Onward
<1>6. x.started = "unset"
  BY <1>5 DEF EntryOK, TicketsOf
<1>7. CASE x.stop_requested
  <2> DEFINE f == [x EXCEPT !.startup_done = TRUE, !.started = x.outcome]
  <2>1. Reported(e, failure) = f
    BY <1>3, <1>5, <1>6, <1>7 DEF Opens, Kept, EntryRecord
  <2>2. f \in EntryRecord /\ EntryOK(f)
    BY <1>5, <1>7, RefusedKeeps
  <2>3. /\ f.id = x.id /\ f.retired = x.retired /\ f.operations = x.operations
        /\ f.stop_requested = x.stop_requested /\ f.phase = x.phase
    BY <1>5 DEF EntryRecord
  <2>4. f.started = x.outcome /\ x.outcome \in Outcomes
    BY <1>5 DEF EntryRecord
  <2> HIDE DEF f
  <2>5. x.phase = "StopRequested" /\ e.started = "unset"
    BY <1>2, <1>5, <1>6, <1>7 DEF EntryOK, StopToldTo, Outer, Onward
  <2>6. Advances(e, f)
    BY <1>5, <2>3, <2>4, <2>5 DEF Advances
  <2> QED
    BY <1>2, <1>5, <2>1, <2>2, <2>3, <2>6
<1>8. CASE ~x.stop_requested
  <2> DEFINE f == [x EXCEPT !.startup_done = TRUE, !.phase = "Running", !.started = "Started"]
  <2>1. Reported(e, failure) = f
    BY <1>3, <1>5, <1>6, <1>8 DEF Opens, Kept, EntryRecord
  <2>2. ~failure /\ x = e
    BY <1>2, <1>4, <1>8
  <2>3. x.life # "None" /\ x.phase = "Starting"
    BY <1>8, <2>2 DEF EntryOK, StopToldTo
  <2>4. f \in EntryRecord /\ EntryOK(f)
    BY <1>5, <1>8, <2>3, OpenedKeeps
  <2>5. /\ f.id = x.id /\ f.retired = x.retired /\ f.operations = x.operations
        /\ f.stop_requested = x.stop_requested /\ f.phase = "Running"
        /\ f.started = "Started"
    BY <1>5 DEF EntryRecord
  <2> HIDE DEF f
  <2>6. Advances(e, f)
    BY <2>2, <2>3, <2>5 DEF Advances
  <2> QED
    BY <1>2, <1>5, <2>1, <2>4, <2>5, <2>6
<1> QED
  BY <1>7, <1>8

\* A step on an entry still starting: callers and the supervisor are not on it.
LEMMA StartupStep ==
    ASSUME IInv, UNCHANGED <<registry, generation, lifecycle, supervisor, caller>>,
           NEW g \in Admitted, ~entry[g].startup_done, NEW f \in EntryRecord, EntryOK(f),
           f.id = entry[g].id, f.retired = entry[g].retired,
           f.operations = entry[g].operations, entry[g].stop_requested => f.stop_requested,
           f.phase \notin {"Retiring", "Released"}, entry' = [entry EXCEPT ![g] = f],
           pending' \in SUBSET (pending \ {g})
    PROVE  Entries' /\ Members' /\ Queued' /\ Drained' /\ Leased' /\ Supervised'
<1>1. Admitted' = Admitted
  BY DEF Admitted
<1>2. /\ entry' \in [Admitted -> EntryRecord]
      /\ \A h \in Admitted : entry'[h] = IF h = g THEN f ELSE entry[h]
  BY DEF IInv, Entries
<1>3. /\ registry \subseteq Admitted /\ IsFiniteSet(pending)
  BY Registered DEF IInv
<1>4. Entries'
  BY <1>1, <1>2 DEF IInv, Entries
<1>5. Members'
  <2>1. \A h \in Admitted : entry'[h].id = entry[h].id /\ entry'[h].retired = entry[h].retired
    BY <1>2
  <2> QED
    BY <1>1, <1>3, <2>1 DEF IInv, Members
<1>6. Queued'
  <2>1. Cardinality(pending') <= Cardinality(pending)
    BY <1>3, FS_Subset
  <2>2. Cardinality(pending) \in Nat /\ Cardinality(pending') \in Nat
    BY <1>3, FS_Subset, FS_CardinalityType
  <2>3. \A h \in pending' : h \in Admitted /\ entry'[h].phase = "Reserved"
    BY <1>2 DEF IInv, Queued
  <2> QED
    BY <1>1, <2>1, <2>2, <2>3, LimitAssumption DEF IInv, Queued
<1>7. Drained'
  BY <1>2, <1>3 DEF IInv, Drained
<1>8. Leased'
  <2>1. \A c \in Callers : caller[c].at # "out" => caller[c].gen # g
    BY DEF IInv, Leased
  <2>2. \A h \in Admitted : Leases(h)' = Leases(h)
    BY DEF Leases
  <2>3. \A h \in Admitted : entry'[h].operations = Cardinality(Leases(h)')
    BY <1>2, <2>2 DEF IInv, Leased
  <2> QED
    BY <1>1, <1>2, <2>1, <2>3 DEF IInv, Leased
<1>9. Supervised'
  <2>1. supervisor.at \in OnEntry => supervisor.gen # g /\ supervisor.gen \in Admitted
    BY <1>3 DEF IInv, Supervised
  <2>2. \A h \in registry : entry'[h].phase \in {"Retiring", "Released"} => entry'[h] = entry[h]
    BY <1>2, <1>3
  <2> QED
    BY <1>2, <2>1, <2>2 DEF IInv, Supervised
<1> QED
  BY <1>4, <1>5, <1>6, <1>7, <1>8, <1>9

\* What the worker that moves is to know of its entry.
Knows(r, g, f) ==
    /\ r.gen = g /\ ~f.startup_done /\ f.phase \in {"Starting", "StopRequested"}
    /\ r.at = "factory" => f.life = "None"
    /\ r.at = "start" => f.life # "None"
    /\ r.at = "report" /\ ~r.failed /\ ~f.stop_requested => f.life # "None"

\* One worker moves, on an entry that no other worker holds.
LEMMA HeldStep ==
    ASSUME Entries, Held, UNCHANGED generation, NEW w \in Workers, NEW r \in Hands,
           worker' = [worker EXCEPT ![w] = r], NEW g \in Admitted, NEW f,
           entry' = [entry EXCEPT ![g] = f],
           \A v \in Workers \ {w} : worker[v].at \in Busy => worker[v].gen # g,
           r.at \in Busy => Knows(r, g, f)
    PROVE  Held'
<1>1. Admitted' = Admitted
  BY DEF Admitted
<1>2. \A h \in Admitted : entry'[h] = IF h = g THEN f ELSE entry[h]
  BY DEF Entries
<1>3. worker \in [Workers -> Hands]
  BY DEF Held, Hands
<1>4. /\ worker' \in [Workers -> Hands]
      /\ \A v \in Workers : worker'[v] = IF v = w THEN r ELSE worker[v]
  BY <1>3
<1>5. ASSUME NEW v \in Workers, worker'[v].at \in Busy
      PROVE  /\ worker'[v].gen \in Admitted
             /\ Knows(worker'[v], worker'[v].gen, entry'[worker'[v].gen])
  <2>1. CASE v = w
    <3>1. worker'[v] = r /\ r.gen = g /\ Knows(r, g, f)
      BY <1>4, <1>5, <2>1 DEF Knows
    <3> QED
      BY <1>2, <3>1
  <2>2. CASE v # w
    <3>1. worker'[v] = worker[v]
      BY <1>4, <2>2
    <3>2. worker[v].gen # g /\ worker[v].gen \in Admitted
      BY <1>5, <2>2, <3>1 DEF Held
    <3>3. Knows(worker[v], worker[v].gen, entry[worker[v].gen])
      BY <1>5, <3>1 DEF Held, Knows
    <3> QED
      BY <1>2, <3>1, <3>2, <3>3
  <2> QED
    BY <2>1, <2>2
<1>6. ASSUME NEW u \in Workers, NEW v \in Workers, worker'[u].at \in Busy,
             worker'[v].at \in Busy, worker'[u].gen = worker'[v].gen
      PROVE  u = v
  <2>1. r.at \in Busy => r.gen = g
    BY DEF Knows
  <2>2. CASE u = w /\ v # w
    BY <1>4, <1>6, <2>1, <2>2
  <2>3. CASE v = w /\ u # w
    BY <1>4, <1>6, <2>1, <2>3
  <2>4. CASE u # w /\ v # w
    BY <1>4, <1>6, <2>4 DEF Held
  <2> QED
    BY <2>2, <2>3, <2>4
<1> QED
  BY <1>1, <1>4, <1>5, <1>6 DEF Held, Hands, Knows

\* While a worker has not left nobody else does.
LEMMA EndingWaits ==
    ASSUME Ending, UNCHANGED <<workers_done, supervisor, registry, lifecycle, dispatcher>>,
           worker \in [Workers -> Hands], NEW w \in Workers, NEW r, worker[w].at # "done",
           worker' = [worker EXCEPT ![w] = r], r.at # "done"
    PROVE  Ending'
<1>1. supervisor.at # "done" /\ dispatcher.at # "done" /\ lifecycle # "Stopped"
  BY DEF Ending
<1>2. \A v \in Workers : worker'[v].at = "done" <=> worker[v].at = "done"
  OBVIOUS
<1>3. {v \in Workers : worker'[v].at = "done"} = {v \in Workers : worker[v].at = "done"}
  BY <1>2
<1> QED
  BY <1>1, <1>3 DEF Ending

\* The entry a busy worker holds.
LEMMA HeldEntry ==
    ASSUME IInv, NEW w \in Workers, worker[w].at \in Busy, NEW g, g = worker[w].gen
    PROVE  /\ g \in Admitted /\ entry[g] \in EntryRecord /\ EntryOK(entry[g])
           /\ g \notin pending /\ g \in Generations
           /\ Knows(worker[w], g, entry[g])
           /\ \A v \in Workers \ {w} : worker[v].at \in Busy => worker[v].gen # g
<1>1. g \in Admitted /\ Knows(worker[w], g, entry[g])
  BY DEF IInv, Held, Knows
<1>2. entry[g] \in EntryRecord /\ EntryOK(entry[g]) /\ g \in Generations
  BY <1>1, Registered DEF IInv, Entries
<1>3. g \notin pending
  BY <1>1 DEF IInv, Queued, Knows
<1> QED
  BY <1>1, <1>2, <1>3 DEF IInv, Held

\* A worker moves and leaves its entry as it is.
LEMMA HandKeeps ==
    ASSUME IInv, NEW w \in Workers, worker[w].at \in Busy, NEW r \in Hands,
           worker' = [worker EXCEPT ![w] = r], r.at \in Busy,
           Knows(r, worker[w].gen, entry[worker[w].gen]),
           UNCHANGED <<entry, registry, generation, pending, lifecycle, workers_done,
                       supervisor, notifications, dispatcher, caller>>
    PROVE  IInv' /\ Seen
<1>1. PICK g : g = worker[w].gen
  OBVIOUS
<1>2. PICK f : f = entry[g]
  OBVIOUS
<1>a. /\ g \in Admitted
      /\ \A v \in Workers \ {w} : worker[v].at \in Busy => worker[v].gen # g
  BY <1>1, HeldEntry
<1>b. entry' = [entry EXCEPT ![g] = f]
  BY <1>2, <1>a DEF IInv, Entries
<1>c. Knows(r, g, f)
  BY <1>1, <1>2
<1>3. Held'
  BY <1>a, <1>b, <1>c, HeldStep DEF IInv
<1>4. Steady /\ Counted
  BY StillSteady DEF IInv
<1>5. Entries' /\ Members' /\ Queued' /\ Drained' /\ Leased' /\ Supervised'
  BY <1>4, SteadyMembers, SteadyDrained, CallersStay, SteadySupervised DEF IInv
<1>6. worker \in [Workers -> Hands] /\ worker[w].at # "done" /\ r.at # "done"
  BY DEF IInv, Held, Hands, Busy
<1>7. Ending' /\ Lane'
  BY <1>6, EndingWaits DEF IInv, Lane
<1> QED
  BY <1>3, <1>4, <1>5, <1>7, SteadySeen DEF IInv

\* A worker goes on as r and makes the entry it holds, g, into f.
Worked(w, r, g, f) ==
    /\ worker[w].at # "done" /\ worker' = [worker EXCEPT ![w] = r] /\ r.at # "done"
    /\ \A v \in Workers \ {w} : worker[v].at \in Busy => worker[v].gen # g
    /\ r.at \in Busy => Knows(r, g, f)
    /\ EntryOK(f) /\ entry' = [entry EXCEPT ![g] = f] /\ ~entry[g].startup_done
    /\ f.id = entry[g].id /\ f.retired = entry[g].retired
    /\ f.operations = entry[g].operations
    /\ entry[g].stop_requested => f.stop_requested
    /\ f.phase \notin {"Retiring", "Released"} /\ Advances(entry[g], f)
    /\ pending' \in SUBSET (pending \ {g}) /\ Lane'
    /\ UNCHANGED <<registry, generation, lifecycle, workers_done, supervisor,
                   dispatcher, caller>>

LEMMA WorkKeeps ==
    ASSUME IInv, NEW w \in Workers, NEW r \in Hands, NEW g \in Admitted,
           NEW f \in EntryRecord, Worked(w, r, g, f)
    PROVE  IInv' /\ Seen
<1>1. Entries' /\ Members' /\ Queued' /\ Drained' /\ Leased' /\ Supervised'
  BY StartupStep DEF Worked
<1>2. Held'
  <2>1. Entries /\ Held /\ UNCHANGED generation
    BY DEF IInv, Worked
  <2>2. /\ worker' = [worker EXCEPT ![w] = r] /\ entry' = [entry EXCEPT ![g] = f]
        /\ \A v \in Workers \ {w} : worker[v].at \in Busy => worker[v].gen # g
        /\ r.at \in Busy => Knows(r, g, f)
    BY DEF Worked
  <2> QED
    BY <2>1, <2>2, HeldStep
<1>3. worker \in [Workers -> Hands]
  BY DEF IInv, Held, Hands
<1>4. Ending'
  BY <1>3, EndingWaits DEF IInv, Worked
<1>5. Seen
  BY OneIsSeen DEF IInv, Worked
<1> QED
  BY <1>1, <1>2, <1>4, <1>5 DEF IInv, Worked

LEMMA TakeReservationKeeps ==
    ASSUME IInv, NEW w \in Workers, TakeReservation(w)
    PROVE  IInv' /\ Seen
<1>1. PICK g \in pending :
         LET attempt == ~entry[g].stop_requested IN
          /\ pending' = pending \ {g}
          /\ entry' = IF attempt THEN [entry EXCEPT ![g].phase = "Starting"] ELSE entry
          /\ worker' = [worker EXCEPT ![w] =
                          [at |-> IF attempt THEN "factory" ELSE "report",
                           gen |-> g, failed |-> FALSE]]
  BY DEF TakeReservation
<1> DEFINE e == entry[g]
           f == [e EXCEPT !.phase = "Starting"]
           r == [at |-> "factory", gen |-> g, failed |-> FALSE]
<1>2. g \in Admitted /\ g \in Generations /\ e.phase = "Reserved"
  BY Registered DEF IInv, Queued
<1>3. e \in EntryRecord /\ EntryOK(e)
  BY <1>2 DEF IInv, Entries
<1>4. ~e.stop_requested /\ ~e.startup_done /\ e.life = "None"
  BY <1>2, <1>3 DEF EntryOK, StopToldTo, StartupOf
<1>5. entry' = [entry EXCEPT ![g] = f] /\ worker' = [worker EXCEPT ![w] = r]
  BY <1>1, <1>4
<1>6. r \in Hands /\ r.at = "factory" /\ r.gen = g
  BY <1>2 DEF Hands, Busy
<1>7. \A v \in Workers \ {w} : worker[v].at \in Busy => worker[v].gen # g
  BY <1>2 DEF IInv, Held
<1> HIDE DEF e
<1>8. f \in EntryRecord /\ EntryOK(f)
  BY <1>2, <1>3, TakeKeeps
<1>9. /\ f.id = e.id /\ f.retired = e.retired /\ f.operations = e.operations
      /\ f.stop_requested = e.stop_requested /\ f.phase = "Starting"
      /\ f.startup_done = e.startup_done /\ f.life = e.life /\ f.started = e.started
  BY <1>3 DEF EntryRecord
<1> HIDE DEF f, r
<1>10. Knows(r, g, f)
  BY <1>4, <1>6, <1>9 DEF Knows
<1>11. Lane' /\ worker[w].at # "done" /\ r.at # "done"
  BY <1>6 DEF IInv, Lane, TakeReservation
<1>12. f.phase \notin {"Retiring", "Released"}
  BY <1>9
<1>13. pending' \in SUBSET (pending \ {g}) /\ Advances(e, f)
  BY <1>1, <1>2, <1>9 DEF Advances, e
<1>14. Worked(w, r, g, f)
  BY <1>4, <1>5, <1>7, <1>8, <1>9, <1>10, <1>11, <1>12, <1>13
     DEF Worked, TakeReservation, e
<1> QED
  BY <1>2, <1>6, <1>8, <1>14, WorkKeeps

LEMMA WorkerDoneKeeps ==
    ASSUME IInv, NEW w \in Workers, WorkerDone(w)
    PROVE  IInv' /\ Seen
<1>1. worker \in [Workers -> Hands] /\ worker[w].at = "idle"
  BY DEF IInv, Held, Hands, WorkerDone
<1>2. /\ worker' \in [Workers -> Hands] /\ worker'[w].at = "done"
      /\ \A v \in Workers \ {w} : worker'[v] = worker[v]
  BY <1>1 DEF WorkerDone, Goes, Hands
<1>3. Steady /\ Counted
  BY StillSteady DEF IInv, WorkerDone
<1>4. Entries' /\ Members' /\ Queued' /\ Drained' /\ Leased' /\ Supervised'
  BY <1>3, SteadyMembers, SteadyDrained, CallersStay, SteadySupervised DEF IInv, WorkerDone
<1>5. \A v \in Workers : worker'[v].at \in Busy => worker'[v] = worker[v]
  BY <1>2 DEF Busy
<1>6. Admitted' = Admitted /\ entry' = entry
  BY DEF Admitted, WorkerDone
<1>7. Held'
  BY <1>2, <1>5, <1>6 DEF IInv, Held, Hands
<1> DEFINE left == {v \in Workers : worker[v].at = "done"}
<1>8. {v \in Workers : worker'[v].at = "done"} = left \union {w} /\ w \notin left
  BY <1>1, <1>2
<1>9. IsFiniteSet(left)
  BY FS_Subset, ThreadsAssumption
<1>10. Cardinality(left \union {w}) = Cardinality(left) + 1
  BY <1>8, <1>9, FS_AddElement
<1>11. supervisor.at # "done" /\ dispatcher.at # "done" /\ lifecycle # "Stopped"
  BY <1>1 DEF IInv, Ending
<1>12. Ending' /\ Lane'
  BY <1>8, <1>10, <1>11 DEF IInv, Ending, Lane, WorkerDone
<1> QED
  BY <1>3, <1>4, <1>7, <1>12, SteadySeen DEF IInv

LEMMA HandsMove ==
    ASSUME IInv, NEW w \in Workers, FactoryThrows(w) \/ StartReturns(w) \/ Catch(w)
    PROVE  IInv' /\ Seen
<1>1. worker \in [Workers -> Hands] /\ worker[w].at \in {"factory", "waiting", "catch"}
  BY DEF IInv, Held, Hands, FactoryThrows, StartReturns, Catch
<1>2. worker[w].at \in Busy
  BY <1>1 DEF Busy
<1> DEFINE e == entry[worker[w].gen]
<1>3. Knows(worker[w], worker[w].gen, e)
  BY <1>2, HeldEntry
<1>4. PICK at \in {"catch", "report"}, failed \in BOOLEAN :
         /\ worker' = [worker EXCEPT ![w] = [worker[w] EXCEPT !.at = at, !.failed = failed]]
         /\ at = "report" /\ ~failed /\ ~e.stop_requested => e.life # "None"
  <2>a. worker[w].failed \in BOOLEAN /\ StartupFailed(e) \in BOOLEAN
    BY <1>1 DEF Hands, StartupFailed
  <2> USE <2>a
  <2>1. CASE FactoryThrows(w) \/ (StartReturns(w) /\ Goes(w, "catch"))
    <3> WITNESS "catch" \in {"catch", "report"}, worker[w].failed \in BOOLEAN
    <3>1. worker' = [worker EXCEPT ![w].at = "catch"]
      BY <2>1 DEF FactoryThrows, Goes
    <3> QED
      BY <1>1, <3>1 DEF Hands
  <2>2. CASE StartReturns(w) /\ e.life = "Running" /\ Goes(w, "report")
    <3> WITNESS "report" \in {"catch", "report"}, worker[w].failed \in BOOLEAN
    <3>1. worker' = [worker EXCEPT ![w].at = "report"]
      BY <2>2 DEF Goes
    <3> QED
      BY <1>1, <2>2, <3>1 DEF Hands
  <2>3. CASE Catch(w)
    <3> WITNESS "report" \in {"catch", "report"}, StartupFailed(e) \in BOOLEAN
    <3> QED
      BY <1>1, <2>3 DEF Catch, StartupFailed, Hands
  <2> QED
    BY <2>1, <2>2, <2>3 DEF StartReturns
<1> DEFINE r == [worker[w] EXCEPT !.at = at, !.failed = failed]
<1>5. r \in Hands /\ r.at = at /\ r.failed = failed /\ r.gen = worker[w].gen
  BY <1>1 DEF Hands, Busy
<1> HIDE DEF r
<1>6. r.at \in Busy
  BY <1>5 DEF Busy
<1>7. Knows(r, worker[w].gen, e)
  BY <1>3, <1>4, <1>5 DEF Knows
<1> QED
  BY <1>2, <1>4, <1>5, <1>6, <1>7, HandKeeps DEF FactoryThrows, StartReturns, Catch, r

LEMMA InstallStep ==
    ASSUME IInv, NEW w \in Workers, Install(w)
    PROVE  IInv' /\ Seen
<1>1. worker \in [Workers -> Hands] /\ worker[w].at = "factory" /\ worker[w].at \in Busy
  BY DEF IInv, Held, Hands, Install, Busy
<1>2. PICK g : g = worker[w].gen
  OBVIOUS
<1> DEFINE e == entry[g]
           l == IF e.stop_requested THEN "Stopping" ELSE "Created"
           f == [e EXCEPT !.life = l]
           r == [worker[w] EXCEPT !.at = IF Starts(e) THEN "start" ELSE "report"]
<1>3. /\ g \in Admitted /\ e \in EntryRecord /\ EntryOK(e) /\ g \notin pending
      /\ Knows(worker[w], g, e)
      /\ \A v \in Workers \ {w} : worker[v].at \in Busy => worker[v].gen # g
  BY <1>1, <1>2, HeldEntry
<1>4. entry' = [entry EXCEPT ![g] = f] /\ worker' = [worker EXCEPT ![w] = r]
  BY <1>2 DEF Install, Goes, Starts
<1>5. /\ r \in Hands /\ r.gen = g /\ r.at # "done"
      /\ r.at = IF e.stop_requested THEN "report" ELSE "start"
  BY <1>1, <1>2 DEF Hands, Busy, Starts
<1>6. ~e.startup_done /\ e.life = "None" /\ e.phase \in {"Starting", "StopRequested"}
  BY <1>1, <1>3 DEF Knows
<1>7. f \in EntryRecord /\ EntryOK(f)
  <2>1. l = IF e.stop_requested THEN "Stopping" ELSE "Created"
    OBVIOUS
  <2> HIDE DEF l, e
  <2> QED
    BY <1>3, <1>6, <2>1, InstallKeeps
<1>8. /\ f.id = e.id /\ f.retired = e.retired /\ f.operations = e.operations
      /\ f.stop_requested = e.stop_requested /\ f.phase = e.phase
      /\ f.startup_done = e.startup_done /\ f.life # "None" /\ f.started = e.started
  BY <1>3 DEF EntryRecord
<1> HIDE DEF f, r, e
<1>9. Knows(r, g, f)
  BY <1>5, <1>6, <1>8 DEF Knows
<1>10. /\ Lane' /\ worker[w].at # "done"
       /\ pending' \in SUBSET (pending \ {g})
  BY <1>1, <1>3 DEF IInv, Lane, Install
<1>11. f.phase \notin {"Retiring", "Released"} /\ Advances(e, f)
  BY <1>6, <1>8 DEF Advances
<1>12. Worked(w, r, g, f)
  BY <1>3, <1>4, <1>5, <1>6, <1>7, <1>8, <1>9, <1>10, <1>11 DEF Worked, Install, e
<1> QED
  BY <1>3, <1>5, <1>7, <1>12, WorkKeeps

LEMMA StartSessionStep ==
    ASSUME IInv, NEW w \in Workers, StartSession(w)
    PROVE  IInv' /\ Seen
<1>1. worker \in [Workers -> Hands] /\ worker[w].at = "start" /\ worker[w].at \in Busy
  BY DEF IInv, Held, Hands, StartSession, Busy
<1>2. PICK g : g = worker[w].gen
  OBVIOUS
<1> DEFINE e == entry[g]
<1>3. /\ g \in Admitted /\ e \in EntryRecord /\ EntryOK(e) /\ g \notin pending
      /\ Knows(worker[w], g, e)
      /\ \A v \in Workers \ {w} : worker[v].at \in Busy => worker[v].gen # g
  BY <1>1, <1>2, HeldEntry
<1>4. CASE e.life = "Created"
  <2> DEFINE f == [e EXCEPT !.life = "Starting"]
             r == [worker[w] EXCEPT !.at = "waiting"]
  <2>1. entry' = [entry EXCEPT ![g] = f] /\ worker' = [worker EXCEPT ![w] = r]
    BY <1>2, <1>4 DEF StartSession, Goes
  <2>2. r \in Hands /\ r.gen = g /\ r.at = "waiting"
    BY <1>1, <1>2 DEF Hands, Busy
  <2>3. ~e.startup_done /\ e.phase \in {"Starting", "StopRequested"}
    BY <1>3 DEF Knows
  <2> HIDE DEF e
  <2>4. f \in EntryRecord /\ EntryOK(f)
    BY <1>3, <1>4, StartKeeps
  <2>5. /\ f.id = e.id /\ f.retired = e.retired /\ f.operations = e.operations
        /\ f.stop_requested = e.stop_requested /\ f.phase = e.phase
        /\ f.startup_done = e.startup_done /\ f.life # "None" /\ f.started = e.started
    BY <1>3 DEF EntryRecord
  <2> HIDE DEF f, r
  <2>6. Knows(r, g, f)
    BY <2>2, <2>3, <2>5 DEF Knows
  <2>7. /\ Lane' /\ worker[w].at # "done" /\ r.at # "done"
        /\ pending' \in SUBSET (pending \ {g})
    BY <1>1, <1>3, <2>2 DEF IInv, Lane, StartSession
  <2>8. f.phase \notin {"Retiring", "Released"} /\ Advances(e, f)
    BY <2>3, <2>5 DEF Advances
  <2>9. Worked(w, r, g, f)
    BY <1>3, <2>1, <2>3, <2>4, <2>5, <2>6, <2>7, <2>8 DEF Worked, StartSession, e
  <2> QED
    BY <1>3, <2>2, <2>4, <2>9, WorkKeeps
<1>5. CASE e.life # "Created"
  <2> DEFINE r == [worker[w] EXCEPT !.at = "catch"]
  <2>1. UNCHANGED entry /\ worker' = [worker EXCEPT ![w] = r]
    BY <1>2, <1>5 DEF StartSession, Goes
  <2>2. r \in Hands /\ r.gen = worker[w].gen /\ r.at = "catch" /\ r.at \in Busy
    BY <1>1 DEF Hands, Busy
  <2> HIDE DEF r
  <2>3. Knows(r, worker[w].gen, entry[worker[w].gen])
    BY <1>2, <1>3, <2>2 DEF Knows
  <2> QED
    BY <1>1, <2>1, <2>2, <2>3, HandKeeps DEF StartSession
<1> QED
  BY <1>4, <1>5

LEMMA ReportStep ==
    ASSUME IInv, NEW w \in Workers, Report(w)
    PROVE  IInv' /\ Seen
<1>1. worker \in [Workers -> Hands] /\ worker[w].at = "report" /\ worker[w].at \in Busy
  BY DEF IInv, Held, Hands, Report, Busy
<1>2. PICK g : g = worker[w].gen
  OBVIOUS
<1> DEFINE e == entry[g]
           f == Reported(e, worker[w].failed)
           r == [at |-> "idle", gen |-> NoSession, failed |-> FALSE]
           notes == IF f.phase = "Running" THEN <<Note("Started", g)>>
                    ELSE IF First(e) THEN <<Note("StopRequested", g)>>
                    ELSE <<>>
<1>3. /\ g \in Admitted /\ e \in EntryRecord /\ EntryOK(e) /\ g \notin pending
      /\ g \in Generations /\ Knows(worker[w], g, e)
      /\ \A v \in Workers \ {w} : worker[v].at \in Busy => worker[v].gen # g
  BY <1>1, <1>2, HeldEntry
<1>4. /\ entry' = [entry EXCEPT ![g] = f] /\ worker' = [worker EXCEPT ![w] = r]
      /\ Publish(notes)
  BY <1>2 DEF Report
<1>5. r \in Hands /\ r.at = "idle"
  BY DEF Hands
<1>6. worker[w].failed \in BOOLEAN
  BY <1>1 DEF Hands
<1> HIDE DEF e
<1>7. /\ ~e.startup_done /\ e.phase \in {"Starting", "StopRequested"}
      /\ ~worker[w].failed /\ ~e.stop_requested => e.life # "None"
  BY <1>1, <1>3 DEF Knows
<1>8. /\ f \in EntryRecord /\ EntryOK(f)
      /\ f.id = e.id /\ f.retired = e.retired /\ f.operations = e.operations
      /\ e.stop_requested => f.stop_requested
      /\ f.phase \notin {"Retiring", "Released"} /\ Advances(e, f)
  BY <1>3, <1>6, <1>7, ReportedKeeps
<1>9. notes \in Seq(Notes)
  <2>1. Note("Started", g) \in Notes /\ Note("StopRequested", g) \in Notes
    BY <1>3 DEF Note, Notes
  <2> HIDE DEF f
  <2> QED
    BY <2>1
<1>10. Lane'
  <2> HIDE DEF notes
  <2> QED
    BY <1>4, <1>9, PublishKeeps DEF IInv
<1> HIDE DEF f, r
<1>11. /\ worker[w].at # "done" /\ r.at # "done" /\ r.at \notin Busy
       /\ pending' \in SUBSET (pending \ {g})
  BY <1>1, <1>3, <1>5 DEF Report, Busy
<1>12. Worked(w, r, g, f)
  BY <1>3, <1>4, <1>7, <1>8, <1>10, <1>11 DEF Worked, Report, e
<1> QED
  BY <1>3, <1>5, <1>8, <1>12, WorkKeeps

LEMMA StartupKeeps ==
    ASSUME IInv, NEW w \in Workers, Startup(w)
    PROVE  IInv' /\ Seen
BY TakeReservationKeeps, WorkerDoneKeeps, HandsMove, InstallStep, StartSessionStep, ReportStep
   DEF Startup

-----------------------------------------------------------------------------
(***************************************************************************)
(* The supervisor                                                          *)
(***************************************************************************)

\* The supervisor moves without touching an entry.
LEMMA LookingKeeps ==
    ASSUME IInv, Supervised', supervisor'.at # "done",
           UNCHANGED <<entry, registry, generation, pending, lifecycle, worker, workers_done,
                       notifications, dispatcher, caller>>
    PROVE  (IInv' /\ Seen) \/ supervisor.at = "done"
<1>1. Steady /\ Counted
  BY StillSteady DEF IInv
<1>2. Entries' /\ Members' /\ Queued' /\ Drained' /\ Held' /\ Leased'
  BY <1>1, SteadyMembers, SteadyDrained, SteadyHeld, CallersStay DEF IInv
<1>3. supervisor.at # "done" => Lane' /\ Ending'
  BY DEF IInv, Lane, Ending
<1> QED
  BY <1>1, <1>2, <1>3, SteadySeen DEF IInv

Watch == [at : OnEntry \union {"scan", "each", "done"},
          gen : Generations \union {NoSession}, left : SUBSET Generations]

LEMMA ScanKeeps ==
    ASSUME IInv, Scan
    PROVE  IInv' /\ Seen
<1>1. supervisor \in Watch /\ supervisor.at = "scan" /\ registry \in SUBSET Generations
  BY Registered DEF IInv, Supervised, Watch, Scan
<1>2. \A g \in registry : entry[g].phase \notin {"Retiring", "Released"}
  BY <1>1 DEF IInv, Supervised
<1>3. CASE SupervisorLeaves
  <2>1. supervisor' = [supervisor EXCEPT !.at = "done"]
    BY <1>3 DEF Scan
  <2>2. supervisor' \in Watch /\ supervisor'.at = "done" /\ supervisor'.left = supervisor.left
    BY <1>1, <2>1 DEF Watch
  <2>3. Supervised'
    BY <1>2, <2>2 DEF IInv, Supervised, Watch, OnEntry, Scan
  <2>4. Steady /\ Counted
    BY StillSteady DEF IInv, Scan
  <2>5. Entries' /\ Members' /\ Queued' /\ Drained' /\ Held' /\ Leased'
    BY <2>4, SteadyMembers, SteadyDrained, SteadyHeld, CallersStay DEF IInv, Scan
  <2>6. \A w \in Workers : worker[w].at = "done"
    <3> DEFINE left == {w \in Workers : worker[w].at = "done"}
    <3>1. Cardinality(Workers) = Cardinality(left)
      BY <1>3 DEF SupervisorLeaves, IInv, Ending
    <3>2. left = Workers
      BY <3>1, FS_Subset, ThreadsAssumption
    <3> QED
      BY <3>2
  <2>7. dispatcher.at # "done" /\ lifecycle # "Stopped"
    BY <1>1 DEF IInv, Ending
  <2>8. Ending' /\ Lane'
    BY <1>3, <2>2, <2>6, <2>7 DEF IInv, Ending, Lane, Scan, SupervisorLeaves
  <2> QED
    BY <2>3, <2>4, <2>5, <2>8, SteadySeen DEF IInv
<1>4. CASE ~SupervisorLeaves
  <2>1. supervisor' = [supervisor EXCEPT !.at = "each", !.left = registry]
    BY <1>4 DEF Scan
  <2>2. supervisor' \in Watch /\ supervisor'.at = "each" /\ supervisor'.left = registry
    BY <1>1, <2>1 DEF Watch
  <2>3. Supervised'
    BY <1>2, <2>2 DEF IInv, Supervised, Watch, OnEntry, Scan
  <2> QED
    BY <1>1, <2>2, <2>3, LookingKeeps DEF Scan
<1> QED
  BY <1>3, <1>4

LEMMA LookKeeps ==
    ASSUME IInv, ScanEnds \/ \E g \in supervisor.left : Look(g)
    PROVE  IInv' /\ Seen
<1>1. supervisor \in Watch /\ supervisor.at = "each" /\ supervisor.left \subseteq registry
  BY DEF IInv, Supervised, Watch, ScanEnds, Look
<1>2. \A g \in registry : entry[g].phase \notin {"Retiring", "Released"}
  BY <1>1 DEF IInv, Supervised
<1>3. CASE ScanEnds
  <2>1. supervisor' \in Watch /\ supervisor'.at = "scan" /\ supervisor'.left = supervisor.left
    BY <1>1, <1>3 DEF Watch, ScanEnds
  <2>2. Supervised'
    BY <1>1, <1>2, <1>3, <2>1 DEF Supervised, Watch, OnEntry, ScanEnds
  <2> QED
    BY <1>1, <1>3, <2>1, <2>2, LookingKeeps DEF ScanEnds
<1>4. ASSUME NEW g \in supervisor.left, Look(g)
      PROVE  IInv' /\ Seen
  <2> DEFINE e == entry[g]
  <2>1. g \in registry /\ g \in Admitted /\ g \in Generations
    BY <1>1, Registered DEF IInv
  <2>2. EntryOK(e)
    BY <2>1 DEF IInv, Entries
  <2>3. /\ supervisor'.left = supervisor.left \ {g}
        /\ supervisor'.at = IF ~e.startup_done THEN "each"
                            ELSE IF e.life = "None" THEN "claim" ELSE "judge"
        /\ supervisor'.gen = IF e.startup_done THEN g ELSE NoSession
        /\ supervisor' \in Watch
    BY <1>1, <1>4, <2>1 DEF Look, Watch, OnEntry
  <2>4. e.startup_done /\ e.life = "None" => e.stop_requested /\ ~e.observing
    BY <2>2 DEF EntryOK, StartupOf, QuietOf, Terminal
  <2>5. Supervised'
    BY <1>1, <1>2, <1>4, <2>1, <2>3, <2>4 DEF Supervised, Watch, OnEntry, Look
  <2>6. supervisor'.at # "done"
    BY <2>3
  <2> QED
    BY <1>1, <1>4, <2>5, <2>6, LookingKeeps DEF Look
<1> QED
  BY <1>3, <1>4

LEMMA SkipKeeps ==
    ASSUME IInv, supervisor.at \in {"judge", "flush", "claim"}, Skip,
           UNCHANGED <<entry, registry, generation, pending, lifecycle, worker, workers_done,
                       notifications, dispatcher, caller>>
    PROVE  IInv' /\ Seen
<1>1. supervisor \in Watch /\ supervisor.left \subseteq registry
  BY DEF IInv, Supervised, Watch
<1>2. supervisor' \in Watch /\ supervisor'.at = "each" /\ supervisor'.left = supervisor.left
  BY <1>1 DEF Skip, Watch
<1>3. \A g \in registry : entry[g].phase \notin {"Retiring", "Released"}
  BY DEF IInv, Supervised
<1>4. Supervised'
  BY <1>1, <1>2, <1>3 DEF Supervised, Watch, OnEntry
<1> QED
  BY <1>2, <1>4, LookingKeeps

LEMMA JudgeKeeps ==
    ASSUME IInv, Judge
    PROVE  IInv' /\ Seen
<1>1. supervisor \in Watch /\ supervisor.at = "judge" /\ supervisor.at \in OnEntry
  BY DEF IInv, Supervised, Watch, Judge, OnEntry
<1>2. PICK g : g = supervisor.gen
  OBVIOUS
<1> DEFINE e == entry[g]
<1>3. g \in registry \ supervisor.left /\ e.startup_done /\ supervisor.left \subseteq registry
  BY <1>1, <1>2 DEF IInv, Supervised
<1>4. g \in Admitted /\ EntryOK(e)
  BY <1>3, Registered DEF IInv, Entries
<1>5. \A h \in registry : entry[h].phase \notin {"Retiring", "Released"}
  BY <1>1 DEF IInv, Supervised
<1>6. supervisor.at # "done" /\ dispatcher.at # "done" /\ lifecycle # "Stopped"
  BY <1>1 DEF IInv, Ending
<1>7. CASE e.life \notin Terminal
  <2>1. Skip /\ UNCHANGED <<entry, pending, notifications>>
    BY <1>2, <1>7 DEF Judge, Terminal
  <2> QED
    BY <1>1, <2>1, SkipKeeps DEF Judge
<1>8. CASE e.life \in Terminal
  <2>1. supervisor' = [supervisor EXCEPT !.at = "flush"]
    BY <1>2, <1>8 DEF Judge
  <2>2. /\ supervisor' \in Watch /\ supervisor'.at = "flush" /\ supervisor'.gen = g
        /\ supervisor'.left = supervisor.left
    BY <1>1, <1>2, <2>1 DEF Watch, OnEntry
  <2>3. Steady /\ Counted /\ Lane' /\ entry'[g].stop_requested
    <3>1. CASE e.life = "Failed"
      <4>1. StopEntries({g}, "LifecycleFailure")
        BY <1>2, <3>1 DEF Judge, Terminal
      <4>2. "LifecycleFailure" \in Outcomes \ {"None", "UnexpectedStop"}
        BY DEF Outcomes, Fatal
      <4>3. UNCHANGED <<registry, generation>> /\ {g} \in SUBSET registry
        BY <1>3 DEF Judge
      <4> QED
        BY <4>1, <4>2, <4>3, StopsAreSteady DEF IInv
    <3>2. CASE e.life = "Stopped"
      <4>1. e.stop_requested
        BY <1>4, <3>2 DEF EntryOK, EndsForCause
      <4>2. UNCHANGED <<entry, pending, notifications>>
        BY <1>2, <3>2, <4>1 DEF Judge, Terminal
      <4>3. Steady /\ Counted
        BY <4>2, StillSteady DEF IInv, Judge
      <4> QED
        BY <4>1, <4>2, <4>3 DEF IInv, Lane
    <3> QED
      BY <1>8, <3>1, <3>2 DEF Terminal
  <2>4. Entries' /\ Members' /\ Queued' /\ Drained' /\ Held' /\ Leased'
    BY <2>3, SteadyMembers, SteadyDrained, SteadyHeld, CallersStay DEF IInv, Judge
  <2>5. \A h \in registry : Onward(entry[h], entry'[h])
    BY <2>3, Registered DEF IInv, Steady, Outer
  <2>6. entry'[g].life \in Terminal /\ entry'[g].startup_done
    BY <1>3, <1>4, <1>8, <2>5 DEF Onward, EntryOK, StartupOf
  <2>7. \A h \in registry : entry'[h].phase \notin {"Retiring", "Released"}
    BY <1>5, <2>5 DEF Onward
  <2>8. Supervised'
    BY <1>3, <2>2, <2>3, <2>6, <2>7 DEF Supervised, Watch, OnEntry, Judge
  <2>9. Ending'
    BY <1>6, <2>2 DEF IInv, Ending, Judge
  <2> QED
    BY <2>3, <2>4, <2>8, <2>9, SteadySeen DEF IInv
<1> QED
  BY <1>7, <1>8

LEMMA FlushKeeps ==
    ASSUME IInv, Flush
    PROVE  IInv' /\ Seen
<1>1. supervisor \in Watch /\ supervisor.at = "flush" /\ supervisor.at \in OnEntry
  BY DEF IInv, Supervised, Watch, Flush, OnEntry
<1>2. CASE ~Flushed(entry[supervisor.gen])
  BY <1>1, <1>2, SkipKeeps DEF Flush
<1>3. CASE Flushed(entry[supervisor.gen])
  <2>1. supervisor' = [supervisor EXCEPT !.at = "claim"]
    BY <1>3 DEF Flush
  <2>2. /\ supervisor' \in Watch /\ supervisor'.at = "claim"
        /\ supervisor'.gen = supervisor.gen /\ supervisor'.left = supervisor.left
    BY <1>1, <2>1 DEF Watch, OnEntry
  <2>3. /\ supervisor.left \subseteq registry
        /\ supervisor.gen \in registry \ supervisor.left
        /\ entry[supervisor.gen].startup_done /\ entry[supervisor.gen].stop_requested
        /\ entry[supervisor.gen].life \in Terminal /\ ~entry[supervisor.gen].observing
    BY <1>1, <1>3 DEF IInv, Supervised, Flushed
  <2>4. \A h \in registry : entry[h].phase \notin {"Retiring", "Released"}
    BY <1>1 DEF IInv, Supervised
  <2>5. Supervised'
    BY <2>2, <2>3, <2>4 DEF Supervised, Watch, OnEntry, Flush
  <2> QED
    BY <1>1, <2>2, <2>5, LookingKeeps DEF Flush
<1> QED
  BY <1>2, <1>3

\* A step on an entry that is started and not leased: no worker and no caller is on it.
LEMMA OwnStep ==
    ASSUME IInv, UNCHANGED <<generation, pending, worker, caller>>,
           NEW g \in Admitted, entry[g].startup_done,
           \A c \in Callers : caller[c].at # "out" => caller[c].gen # g,
           NEW f \in EntryRecord, EntryOK(f), f.operations = entry[g].operations,
           entry' = [entry EXCEPT ![g] = f]
    PROVE  /\ Entries' /\ Queued' /\ Held' /\ Leased'
           /\ \A h \in Admitted : entry'[h] = IF h = g THEN f ELSE entry[h]
<1>1. Admitted' = Admitted
  BY DEF Admitted
<1>2. /\ entry' \in [Admitted -> EntryRecord]
      /\ \A h \in Admitted : entry'[h] = IF h = g THEN f ELSE entry[h]
  BY DEF IInv, Entries
<1>3. Entries'
  BY <1>1, <1>2 DEF IInv, Entries
<1>4. Queued'
  <2>1. EntryOK(entry[g])
    BY DEF IInv, Entries
  <2>2. g \notin pending
    BY <2>1 DEF IInv, Queued, EntryOK, StartupOf
  <2> QED
    BY <1>1, <1>2, <2>2 DEF IInv, Queued
<1>5. Held'
  <2>1. \A w \in Workers : worker[w].at \in Busy =>
           worker[w].gen # g /\ worker[w].gen \in Admitted
    BY DEF IInv, Held
  <2> QED
    BY <1>1, <1>2, <2>1 DEF IInv, Held
<1>6. Leased'
  <2>1. \A h \in Admitted : Leases(h)' = Leases(h)
    BY DEF Leases
  <2>2. \A h \in Admitted : entry'[h].operations = Cardinality(Leases(h)')
    BY <1>2, <2>1 DEF IInv, Leased
  <2> QED
    BY <1>1, <1>2, <2>2 DEF IInv, Leased
<1> QED
  BY <1>2, <1>3, <1>4, <1>5, <1>6

\* A step on an entry of the registry that stays one: the members are the same.
LEMMA OwnMember ==
    ASSUME IInv, UNCHANGED <<generation, registry, lifecycle>>, NEW g \in Admitted, NEW f,
           \A h \in Admitted : entry'[h] = IF h = g THEN f ELSE entry[h],
           f.id = entry[g].id, f.retired = entry[g].retired,
           f.stop_requested = entry[g].stop_requested
    PROVE  Members' /\ Drained'
<1>1. Admitted' = Admitted
  BY DEF Admitted
<1>2. \A h \in Admitted : /\ entry'[h].id = entry[h].id /\ entry'[h].retired = entry[h].retired
                          /\ entry'[h].stop_requested = entry[h].stop_requested
  OBVIOUS
<1>3. registry \subseteq Admitted
  BY DEF IInv, Members
<1> QED
  BY <1>1, <1>2, <1>3 DEF IInv, Members, Drained

\* Nobody holds a lease on an entry that the supervisor takes.
LEMMA ClaimStep ==
    ASSUME IInv, Claim
    PROVE  IInv' /\ Seen
<1>1. supervisor \in Watch /\ supervisor.at = "claim" /\ supervisor.at \in OnEntry
  BY DEF IInv, Supervised, Watch, Claim, OnEntry
<1>2. PICK g : g = supervisor.gen
  OBVIOUS
<1> DEFINE e == entry[g]
           f == [e EXCEPT !.phase = "Retiring"]
<1>3. /\ g \in registry \ supervisor.left /\ supervisor.left \subseteq registry
      /\ e.startup_done /\ e.stop_requested /\ ~e.observing
      /\ e.life \in Terminal \union {"None"}
  BY <1>1, <1>2 DEF IInv, Supervised
<1>4. g \in Admitted /\ e \in EntryRecord /\ EntryOK(e)
  BY <1>3, Registered DEF IInv, Entries
<1>5. CASE ~Unused(e)
  BY <1>1, <1>2, <1>5, SkipKeeps DEF Claim
<1>6. CASE Unused(e)
  <2>1. /\ entry' = [entry EXCEPT ![g] = f]
        /\ supervisor' = [supervisor EXCEPT !.at = "destroy"]
    BY <1>2, <1>6 DEF Claim
  <2>2. Leases(g) = {}
    <3>1. Cardinality(Leases(g)) = 0
      BY <1>4, <1>6 DEF IInv, Leased, Unused
    <3> QED
      BY <3>1, LeasesFinite, FS_EmptySet
  <2>3. \A c \in Callers : caller[c].at # "out" => caller[c].gen # g
    BY <2>2 DEF Leases
  <2>4. e.retired = "unset"
    BY <1>3 DEF IInv, Members
  <2>5. e.stop_requested /\ e.startup_done
    BY <1>3
  <2>6. \A h \in registry : entry[h].phase \notin {"Retiring", "Released"}
    BY <1>1 DEF IInv, Supervised
  <2> HIDE DEF e
  <2>7. f \in EntryRecord /\ EntryOK(f)
    BY <1>3, <1>4, <2>4, ClaimKeeps
  <2>8. /\ f.operations = e.operations /\ f.id = e.id /\ f.retired = e.retired
        /\ f.stop_requested = e.stop_requested /\ f.startup_done = e.startup_done
        /\ f.phase = "Retiring" /\ f.started = e.started
    BY <1>4 DEF EntryRecord
  <2> HIDE DEF f
  <2>9. /\ Entries' /\ Queued' /\ Held' /\ Leased'
        /\ \A h \in Admitted : entry'[h] = IF h = g THEN f ELSE entry[h]
    BY <1>4, <2>1, <2>3, <2>5, <2>7, <2>8, OwnStep DEF Claim, e
  <2>10. Members' /\ Drained'
    BY <1>4, <2>8, <2>9, OwnMember DEF Claim, e
  <2>11. /\ supervisor' \in Watch /\ supervisor'.at = "destroy"
         /\ supervisor'.gen = g /\ supervisor'.left = supervisor.left
    BY <1>1, <1>2, <2>1 DEF Watch, OnEntry
  <2>12. entry'[g] = f /\ \A h \in registry \ {g} : entry'[h] = entry[h]
    BY <1>4, <2>9, Registered DEF IInv
  <2>13. Supervised'
    BY <1>3, <2>5, <2>6, <2>8, <2>11, <2>12 DEF Supervised, Watch, OnEntry, Claim
  <2>14. dispatcher.at # "done" /\ lifecycle # "Stopped"
    BY <1>1 DEF IInv, Ending
  <2>15. Ending' /\ Lane'
    BY <2>11, <2>14 DEF IInv, Ending, Lane, Claim
  <2>16. e.phase = "StopRequested"
    BY <1>3, <1>4, <2>6 DEF EntryOK, StopToldTo, e
  <2>17. Advances(e, f)
    BY <2>8, <2>16 DEF Advances
  <2>18. Seen
    BY <1>4, <2>1, <2>7, <2>17, OneIsSeen DEF IInv, Claim, e
  <2> QED
    BY <2>9, <2>10, <2>13, <2>15, <2>18 DEF IInv
<1> QED
  BY <1>5, <1>6

LEMMA DestroyStep ==
    ASSUME IInv, Destroy
    PROVE  IInv' /\ Seen
<1>1. supervisor \in Watch /\ supervisor.at = "destroy" /\ supervisor.at \in OnEntry
  BY DEF IInv, Supervised, Watch, Destroy, OnEntry
<1>2. PICK g : g = supervisor.gen
  OBVIOUS
<1> DEFINE e == entry[g]
           f == [e EXCEPT !.phase = "Released"]
<1>3. /\ g \in registry \ supervisor.left /\ supervisor.left \subseteq registry
      /\ e.startup_done /\ e.phase = "Retiring"
  BY <1>1, <1>2 DEF IInv, Supervised
<1>4. g \in Admitted /\ e \in EntryRecord /\ EntryOK(e)
  BY <1>3, Registered DEF IInv, Entries
<1>5. /\ entry' = [entry EXCEPT ![g] = f]
      /\ supervisor' = [supervisor EXCEPT !.at = "erase"]
  BY <1>2 DEF Destroy
<1>6. \A c \in Callers : caller[c].at # "out" => caller[c].gen # g
  BY <1>3 DEF IInv, Leased
<1>7. \A h \in registry : entry[h].phase \in {"Retiring", "Released"} => h = g
  BY <1>2 DEF IInv, Supervised
<1> HIDE DEF e
<1>8. f \in EntryRecord /\ EntryOK(f)
  BY <1>3, <1>4, DestroyKeeps
<1>9. /\ f.operations = e.operations /\ f.id = e.id /\ f.retired = e.retired
      /\ f.stop_requested = e.stop_requested /\ f.startup_done = e.startup_done
      /\ f.phase = "Released" /\ f.started = e.started
  BY <1>4 DEF EntryRecord
<1> HIDE DEF f
<1>10. /\ Entries' /\ Queued' /\ Held' /\ Leased'
       /\ \A h \in Admitted : entry'[h] = IF h = g THEN f ELSE entry[h]
  BY <1>3, <1>4, <1>5, <1>6, <1>8, <1>9, OwnStep DEF Destroy, e
<1>11. Members' /\ Drained'
  BY <1>4, <1>9, <1>10, OwnMember DEF Destroy, e
<1>12. /\ supervisor' \in Watch /\ supervisor'.at = "erase"
       /\ supervisor'.gen = g /\ supervisor'.left = supervisor.left
  BY <1>1, <1>2, <1>5 DEF Watch, OnEntry
<1>13. entry'[g] = f /\ \A h \in registry \ {g} : entry'[h] = entry[h]
  BY <1>4, <1>10, Registered DEF IInv
<1>14. Supervised'
  BY <1>3, <1>7, <1>9, <1>12, <1>13 DEF Supervised, Watch, OnEntry, Destroy
<1>15. dispatcher.at # "done" /\ lifecycle # "Stopped"
  BY <1>1 DEF IInv, Ending
<1>16. Ending' /\ Lane'
  BY <1>12, <1>15 DEF IInv, Ending, Lane, Destroy
<1>17. Advances(e, f)
  BY <1>3, <1>9 DEF Advances
<1>18. Seen
  BY <1>4, <1>5, <1>8, <1>17, OneIsSeen DEF IInv, Destroy, e
<1> QED
  BY <1>10, <1>11, <1>14, <1>16, <1>18 DEF IInv

\* Erasing by id takes this entry out and no other.
LEMMA EraseStep ==
    ASSUME IInv, Erase
    PROVE  IInv' /\ Seen
<1>1. supervisor \in Watch /\ supervisor.at = "erase" /\ supervisor.at \in OnEntry
  BY DEF IInv, Supervised, Watch, Erase, OnEntry
<1>2. PICK g : g = supervisor.gen
  OBVIOUS
<1> DEFINE e == entry[g]
           a == IF e.cancelled_before_start THEN e.outcome ELSE e.started
           f == [e EXCEPT !.started = a, !.retired = e.outcome]
<1>3. /\ g \in registry \ supervisor.left /\ supervisor.left \subseteq registry
      /\ e.startup_done /\ e.phase = "Released"
  BY <1>1, <1>2 DEF IInv, Supervised
<1>4. g \in Admitted /\ g \in Generations /\ e \in EntryRecord /\ EntryOK(e)
  BY <1>3, Registered DEF IInv, Entries
<1>5. e.retired = "unset"
  BY <1>3 DEF IInv, Members
<1>6. e.cancelled_before_start => e.started = "unset"
  BY <1>3, <1>4, <1>5 DEF EntryOK, TicketsOf
<1>7. e.outcome # "None" /\ e.outcome \in Outcomes
  BY <1>3, <1>4 DEF EntryOK, StopToldTo, EntryRecord
<1>8. /\ entry' = [entry EXCEPT ![g].started = IF OwesStarted(e) THEN Kept(@, e.outcome) ELSE @,
                                ![g].retired = Kept(@, e.outcome)]
      /\ registry' = {h \in registry : entry[h].id # e.id}
      /\ Skip /\ Publish(<<Note("Retired", g)>>)
  BY <1>2 DEF Erase
<1>9. entry' = [entry EXCEPT ![g] = f]
  <2>1. entry \in [Admitted -> EntryRecord]
    BY DEF IInv, Entries
  <2>2. Kept(e.retired, e.outcome) = e.outcome
    BY <1>5 DEF Kept
  <2>3. (IF OwesStarted(e) THEN Kept(e.started, e.outcome) ELSE e.started) = a
    BY <1>6 DEF OwesStarted, Kept
  <2> QED
    BY <1>4, <1>8, <2>1, <2>2, <2>3 DEF EntryRecord
<1>10. \A c \in Callers : caller[c].at # "out" => caller[c].gen # g
  BY <1>3 DEF IInv, Leased
<1>11. \A h \in registry : entry[h].phase \in {"Retiring", "Released"} => h = g
  BY <1>2 DEF IInv, Supervised
<1>12. registry' = registry \ {g}
  BY <1>3, <1>8 DEF IInv, Members
<1>13. f \in EntryRecord /\ EntryOK(f)
  <2>1. a = IF e.cancelled_before_start THEN e.outcome ELSE e.started
    OBVIOUS
  <2> HIDE DEF e, a
  <2> QED
    BY <1>3, <1>4, <1>5, <2>1, EraseKeeps
<1>14. f.operations = e.operations /\ f.retired = e.outcome /\ f.started = a
  BY <1>4 DEF EntryRecord
<1> HIDE DEF f, e
<1>15. /\ Entries' /\ Queued' /\ Held' /\ Leased'
       /\ \A h \in Admitted : entry'[h] = IF h = g THEN f ELSE entry[h]
  <2>1. UNCHANGED <<generation, pending, worker, caller>>
    BY DEF Erase
  <2>2. entry[g].startup_done /\ f.operations = entry[g].operations
    BY <1>3, <1>14 DEF e
  <2> QED
    BY <1>4, <1>9, <1>10, <1>13, <2>1, <2>2, OwnStep
<1>16. Admitted' = Admitted
  BY DEF Erase, Admitted
<1>17. f.retired # "unset"
  BY <1>7, <1>14 DEF Outcomes, Fatal
<1>18. registry \subseteq Admitted /\ IsFiniteSet(registry)
  BY Registered DEF IInv
<1>19. Members'
  <2>1. registry' = {h \in Admitted : entry'[h].retired = "unset"}
    BY <1>12, <1>15, <1>17 DEF IInv, Members
  <2>2. \A h \in registry' : entry'[h] = entry[h] /\ h \in registry
    BY <1>12, <1>15, <1>18
  <2>3. \A h, k \in registry' : entry'[h].id = entry'[k].id => h = k
    BY <2>2 DEF IInv, Members
  <2>4. Cardinality(registry') <= Cardinality(registry)
    BY <1>12, <1>18, FS_Subset
  <2>5. Cardinality(registry) \in Nat /\ Cardinality(registry') \in Nat
    BY <1>12, <1>18, FS_RemoveElement, FS_CardinalityType
  <2>6. Cardinality(registry') <= MaxSessions
    BY <2>4, <2>5, LimitAssumption DEF IInv, Members
  <2> QED
    BY <1>16, <2>1, <2>3, <2>6 DEF Members
<1>20. \A h \in registry' : h \in registry /\ h # g /\ entry'[h] = entry[h]
  BY <1>12, <1>15, <1>18
<1>21. Drained'
  BY <1>20 DEF IInv, Drained, Erase
<1>22. /\ supervisor' \in Watch /\ supervisor'.at = "each"
       /\ supervisor'.left = supervisor.left
  BY <1>1, <1>8 DEF Skip, Watch
<1>23. Supervised'
  BY <1>3, <1>11, <1>12, <1>20, <1>22 DEF Supervised, Watch, OnEntry
<1>24. dispatcher.at # "done" /\ lifecycle # "Stopped"
  BY <1>1 DEF IInv, Ending
<1>25. Ending'
  BY <1>22, <1>24 DEF IInv, Ending, Erase
<1>26. Lane'
  <2>1. <<Note("Retired", g)>> \in Seq(Notes)
    BY <1>4 DEF Note, Notes
  <2> QED
    BY <1>8, <2>1, PublishKeeps DEF IInv
<1>27. ASSUME NEW h \in Generations PROVE Sees(h)
  <2>1. /\ DOMAIN entry = Admitted /\ DOMAIN entry' = Admitted
        /\ registry \subseteq DOMAIN entry /\ registry' \subseteq DOMAIN entry'
    BY <1>12, <1>15, <1>16, <1>18 DEF IInv, Entries
  <2>2. CASE h \notin Admitted
    BY <2>1, <2>2, ViewBefore, StillBefore DEF Sees
  <2>3. CASE h \in Admitted /\ h # g
    <3>1. entry'[h] = entry[h] /\ (h \in registry' <=> h \in registry)
      BY <1>12, <1>15, <2>3
    <3> QED
      BY <2>1, <2>3, <3>1, ViewOf, ViewAfter DEF Sees
  <2>4. CASE h = g
    <3>1. entry'[g] = f /\ g \in registry /\ g \notin registry'
      BY <1>3, <1>4, <1>12, <1>15
    <3>2. /\ AdmissionPhase(g) = "Retiring" /\ StartedTicket(g) = Ticket(e)
          /\ AdmissionPhase(g)' = "Erased" /\ StartedTicket(g)' = Ticket(f)
          /\ IsRetired(g)' = TRUE
      BY <1>3, <1>4, <1>17, <2>1, <3>1, ViewOf, ViewAfter DEF Shown, e
    <3>3. Ticket(f) = IF Ticket(e) = "unset" THEN "NotStarted" ELSE Ticket(e)
      <4>1. CASE e.cancelled_before_start
        BY <1>6, <1>7, <1>14, <4>1 DEF Ticket, Answered, Outcomes, Fatal
      <4>2. CASE ~e.cancelled_before_start
        <5>1. e.started # "unset" /\ f.started = e.started
          BY <1>3, <1>4, <1>14, <4>2 DEF EntryOK, TicketsOf
        <5> QED
          BY <5>1 DEF Ticket
      <4> QED
        BY <4>1, <4>2
    <3> QED
      BY <2>4, <3>2, <3>3 DEF Sees, Admission!Next, Admission!Erase
  <2> QED
    BY <2>2, <2>3, <2>4
<1> QED
  BY <1>15, <1>19, <1>21, <1>23, <1>25, <1>26, <1>27 DEF IInv, Seen

LEMMA SuperviseKeeps ==
    ASSUME IInv, Supervise
    PROVE  IInv' /\ Seen
BY ScanKeeps, LookKeeps, JudgeKeeps, FlushKeeps, ClaimStep, DestroyStep, EraseStep
   DEF Supervise

-----------------------------------------------------------------------------
(***************************************************************************)
(* Admission, and the theorems                                             *)
(***************************************************************************)

LEMMA AddKeeps ==
    ASSUME IInv, NEW i \in Ids, Add(i)
    PROVE  IInv' /\ Seen
<1>1. PICK g : g = generation
  OBVIOUS
<1> DEFINE f == NewEntry(i)
<1>2. /\ g \in Generations /\ g \in Nat \ {0} /\ g \notin Admitted
      /\ DOMAIN entry = Admitted /\ registry \subseteq Admitted /\ pending \subseteq Admitted
      /\ IsFiniteSet(registry) /\ IsFiniteSet(pending)
  BY <1>1, Registered DEF IInv, Add, Admitted, Queued
<1>3. Admitted' = Admitted \union {g}
  BY <1>1, <1>2 DEF Add, Admitted
<1>4. /\ f \in EntryRecord /\ EntryOK(f) /\ f.id = i /\ f.phase = "Reserved"
      /\ f.retired = "unset" /\ f.operations = 0
  BY NewKeeps
<1> HIDE DEF f
<1>5. entry' = [h \in Admitted \union {g} |-> IF h = g THEN f ELSE entry[h]]
  BY <1>1, <1>2 DEF Add, f
<1>6. /\ entry'[g] = f /\ \A h \in Admitted : entry'[h] = entry[h]
  BY <1>2, <1>5
<1>7. /\ registry' = registry \union {g} /\ pending' = pending \union {g}
      /\ generation' = g + 1
  BY <1>1 DEF Add
<1>8. lifecycle = "Running" /\ ~Taken(i) /\ Cardinality(registry) < MaxSessions
      /\ Cardinality(pending) < MaxPendingStarts
  BY DEF Add, Admissible, Charged
<1>9. Entries'
  <2>1. entry' \in [Admitted \union {g} -> EntryRecord]
    BY <1>4, <1>5 DEF IInv, Entries
  <2>2. \A h \in Admitted \union {g} : EntryOK(entry'[h])
    BY <1>4, <1>6 DEF IInv, Entries
  <2>3. generation' \in 1..(MaxGenerations + 1)
    BY <1>2, <1>7, BoundAssumption DEF Generations
  <2> QED
    BY <1>3, <2>1, <2>2, <2>3 DEF Entries
<1>10. Members'
  <2>1. registry' = {h \in Admitted \union {g} : entry'[h].retired = "unset"}
    BY <1>2, <1>4, <1>6, <1>7 DEF IInv, Members
  <2>2. \A h \in registry : entry'[h] = entry[h] /\ entry[h].id # i
    BY <1>2, <1>6, <1>8 DEF Taken
  <2>3. \A h, k \in registry' : entry'[h].id = entry'[k].id => h = k
    BY <1>4, <1>6, <1>7, <2>2 DEF IInv, Members
  <2>4. Cardinality(registry') = Cardinality(registry) + 1 /\ Cardinality(registry) \in Nat
    BY <1>2, <1>7, FS_AddElement, FS_CardinalityType
  <2>5. Cardinality(registry') <= MaxSessions
    BY <1>8, <2>4, LimitAssumption
  <2> QED
    BY <1>3, <2>1, <2>3, <2>5 DEF Members
<1>11. Queued'
  <2>1. Cardinality(pending') = Cardinality(pending) + 1 /\ Cardinality(pending) \in Nat
    BY <1>2, <1>7, FS_AddElement, FS_CardinalityType
  <2>2. Cardinality(pending') <= MaxPendingStarts
    BY <1>8, <2>1, LimitAssumption
  <2>3. \A h \in pending' : h \in Admitted \union {g} /\ entry'[h].phase = "Reserved"
    BY <1>2, <1>4, <1>6, <1>7 DEF IInv, Queued
  <2> QED
    BY <1>3, <2>2, <2>3 DEF Queued
<1>12. Drained'
  BY <1>8 DEF Drained, Add
<1>13. Held'
  <2>1. \A w \in Workers : worker[w].at \in Busy => worker[w].gen \in Admitted
    BY DEF IInv, Held
  <2>2. worker' = worker
    BY DEF Add
  <2> QED
    BY <1>3, <1>6, <2>1, <2>2 DEF IInv, Held
<1>14. Leased'
  <2>1. \A c \in Callers : caller[c].at # "out" => caller[c].gen \in Admitted
    BY DEF IInv, Leased
  <2>2. \A h \in Admitted \union {g} : Leases(h)' = Leases(h)
    BY DEF Leases, Add
  <2>3. Leases(g) = {}
    BY <1>2, <2>1 DEF Leases
  <2>4. \A h \in Admitted \union {g} : entry'[h].operations = Cardinality(Leases(h)')
    BY <1>4, <1>6, <2>2, <2>3, FS_EmptySet DEF IInv, Leased
  <2>5. caller' = caller
    BY DEF Add
  <2> QED
    BY <1>3, <1>6, <2>1, <2>4, <2>5 DEF IInv, Leased
<1>15. Supervised'
  <2>1. supervisor' = supervisor
    BY DEF Add
  <2>2. \A h \in registry : entry'[h] = entry[h]
    BY <1>2, <1>6
  <2>3. supervisor.at \in OnEntry => supervisor.gen \in registry
    BY DEF IInv, Supervised
  <2> QED
    BY <1>4, <1>6, <1>7, <2>1, <2>2, <2>3 DEF IInv, Supervised
<1>16. supervisor.at # "done" /\ dispatcher.at # "done"
  BY <1>8 DEF IInv, Ending
<1>17. Ending'
  BY <1>8, <1>16 DEF IInv, Ending, Add
<1>18. Lane'
  <2>1. <<Note("Reserved", g)>> \in Seq(Notes)
    BY <1>2 DEF Note, Notes
  <2>2. Publish(<<Note("Reserved", g)>>)
    BY <1>1 DEF Add
  <2> QED
    BY <2>1, <2>2, PublishKeeps DEF IInv
<1>19. ASSUME NEW h \in Generations PROVE Sees(h)
  <2>1. /\ DOMAIN entry' = Admitted \union {g}
        /\ registry \subseteq DOMAIN entry /\ registry' \subseteq DOMAIN entry'
    BY <1>2, <1>5, <1>7
  <2>2. CASE h \notin Admitted /\ h # g
    BY <1>2, <2>1, <2>2, ViewBefore, StillBefore DEF Sees
  <2>3. CASE h \in Admitted
    <3>1. entry'[h] = entry[h] /\ (h \in registry' <=> h \in registry)
      BY <1>2, <1>6, <1>7, <2>3
    <3> QED
      BY <1>2, <2>1, <2>3, <3>1, ViewOf, ViewAfter DEF Sees
  <2>4. CASE h = g
    <3>1. /\ AdmissionPhase(g) = "None" /\ StartedTicket(g) = "unset"
          /\ IsRetired(g) = FALSE
      BY <1>2, <2>1, ViewBefore
    <3>2. /\ AdmissionPhase(g)' = "Reserved" /\ StartedTicket(g)' = "unset"
          /\ IsRetired(g)' = FALSE
      <4>1. f.started = "unset"
        BY DEF f, NewEntry
      <4>2. Ticket(f) = "unset" /\ Shown(f) = "Reserved"
        BY <1>4, <4>1 DEF Shown, Ticket, Answered
      <4> QED
        BY <1>4, <1>6, <1>7, <2>1, <4>2, ViewAfter
    <3> QED
      BY <2>4, <3>1, <3>2 DEF Sees, Admission!Next, Admission!Reserve
  <2> QED
    BY <2>2, <2>3, <2>4
<1> QED
  BY <1>9, <1>10, <1>11, <1>12, <1>13, <1>14, <1>15, <1>17, <1>18, <1>19 DEF IInv, Seen

LEMMA InitHolds == Init => IInv
<1> SUFFICES ASSUME Init PROVE IInv
  OBVIOUS
<1>1. generation = 1 /\ Admitted = {} /\ DOMAIN entry = {}
  BY DEF Init, Admitted
<1>2. Entries
  BY <1>1, BoundAssumption DEF Init, Entries
<1>3. Members /\ Queued /\ Drained
  BY <1>1, FS_EmptySet, LimitAssumption DEF Init, Members, Queued, Drained
<1>4. Held
  BY DEF Init, Held, Busy
<1>5. Leased
  BY <1>1 DEF Init, Leased
<1>6. Supervised
  BY DEF Init, Supervised, OnEntry
<1>7. Ending
  <2>1. {w \in Workers : worker[w].at = "done"} = {}
    BY DEF Init
  <2>2. DOMAIN dispatcher = {"at", "note"} /\ dispatcher.at = "wait"
    BY DEF Init
  <2> QED
    BY <2>1, <2>2, FS_EmptySet DEF Init, Ending
<1>8. Lane
  BY LimitAssumption DEF Init, Lane
<1> QED
  BY <1>2, <1>3, <1>4, <1>5, <1>6, <1>7, <1>8 DEF IInv

LEMMA StepKeeps == IInv /\ [Next]_vars => IInv' /\ Seen
<1> SUFFICES ASSUME IInv, [Next]_vars PROVE IInv' /\ Seen
  OBVIOUS
<1>1. CASE Application
  <2>1. ASSUME NEW i \in Ids, Add(i) PROVE IInv' /\ Seen
    BY <2>1, AddKeeps
  <2>2. ASSUME NEW g \in registry, Remove(g, "Removed") \/ Remove(g, "ReportedFailure")
        PROVE  IInv' /\ Seen
    <3>1. /\ "Removed" \in Outcomes \ {"None", "UnexpectedStop"}
          /\ "ReportedFailure" \in Outcomes \ {"None", "UnexpectedStop"}
      BY DEF Outcomes, Fatal
    <3> QED
      BY <2>2, <3>1, RemoveKeeps
  <2>3. CASE RequestShutdown
    BY <2>3, ShutdownKeeps
  <2>4. ASSUME NEW c \in Callers, NEW g \in registry, Lease(c, g) PROVE IInv' /\ Seen
    BY <2>4, LeaseKeeps
  <2> QED
    BY <1>1, <2>1, <2>2, <2>3, <2>4 DEF Application
<1>2. ASSUME NEW w \in Workers, Startup(w) PROVE IInv' /\ Seen
  BY <1>2, StartupKeeps
<1>3. ASSUME NEW g \in DOMAIN entry, Sessions(g) PROVE IInv' /\ Seen
  BY <1>3, SessionsKeep
<1>4. CASE Supervise
  BY <1>4, SuperviseKeeps
<1>5. CASE Dispatching
  BY <1>5, DispatchingKeeps
<1>6. ASSUME NEW c \in Callers, Calling(c) PROVE IInv' /\ Seen
  BY <1>6, EnterKeeps, ReportEngineFailureKeeps, EndLeaseKeeps DEF Calling
<1>7. CASE UNCHANGED vars
  <2>1. UNCHANGED <<entry, registry, generation, pending, lifecycle, worker, workers_done,
                    supervisor, notifications, dispatcher, caller>>
    BY <1>7 DEF vars
  <2>2. Steady /\ Counted
    BY <2>1, StillSteady DEF IInv
  <2>3. Leased' /\ Lane' /\ Ending'
    BY <2>1, <2>2, CallersStay, EndingStays DEF IInv, Lane
  <2> QED
    BY <2>1, <2>2, <2>3, SteadyKeeps
<1>8. CASE Over
  BY <1>7, <1>8 DEF Over
<1> QED
  BY <1>1, <1>2, <1>3, <1>4, <1>5, <1>6, <1>7, <1>8 DEF Next

LEMMA Inductive == Spec => []IInv
BY InitHolds, StepKeeps, PTL DEF Spec

\* The registry charges exactly the admissions that are not retired, under distinct ids
\* and within max_sessions, for any number of sessions, workers and callers: erase() by
\* id (runtime_manager.cpp) never takes a replacement out.
THEOREM RegistryIsExact == Spec => []Membership
<1>1. IInv => Membership
  BY Registered DEF IInv, Members, Membership, Resolved
<1> QED
  BY <1>1, Inductive, PTL

\* A stop on an entry has reached its session, and a drain is on every member, whatever
\* startup worker was building the session when the stop came.
THEOREM StopIsNotLost == Spec => []StopReachesSession
<1>1. IInv => StopReachesSession
  BY Registered DEF IInv, Entries, EntryOK, StopToldTo, Drained, StopReachesSession
<1> QED
  BY <1>1, Inductive, PTL

\* Each promise is set at most once and the two agree; no lease meets a session taken
\* away; teardown meets a quiet session; Stopped means that nothing is left.
THEOREM ManagerIsSafe == Spec => []ManagerSafe
<1>1. ASSUME IInv PROVE ManagerSafe
  <2>1. /\ DOMAIN entry = Admitted /\ Admitted \subseteq Generations
        /\ registry \subseteq Admitted
        /\ \A g \in Admitted : entry[g] \in EntryRecord /\ EntryOK(entry[g])
    BY <1>1, Registered DEF IInv, Entries
  <2>2. TypeOK
    BY <1>1, <2>1 DEF IInv, TypeOK, Queued, Lane, Drained, EntryRecord
  <2>3. TicketsOnce
    BY <2>1 DEF TicketsOnce, EntryOK, TicketsOf
  <2>4. TicketsAgree
    <3> SUFFICES ASSUME NEW g \in Admitted, Resolved(entry[g].retired)
                 PROVE  /\ Resolved(entry[g].started)
                        /\ entry[g].retired \in Outcomes \ {"None", "UnexpectedStop"}
                        /\ entry[g].started \in Fatal => entry[g].retired = entry[g].started
      BY <2>1 DEF TicketsAgree
    <3> DEFINE e == entry[g]
    <3>1. e \in EntryRecord /\ EntryOK(e) /\ e.retired # "unset"
      BY <2>1 DEF Resolved
    <3> HIDE DEF e
    <3>2. e.phase = "Released" /\ e.retired = e.outcome /\ e.outcome \in Outcomes
      BY <3>1 DEF EntryOK, TicketsOf, EntryRecord
    <3>3. e.stop_requested /\ e.startup_done /\ e.outcome \notin {"None", "UnexpectedStop"}
      BY <3>1, <3>2 DEF EntryOK, StopToldTo, StartupOf, EndsForCause
    <3>4. e.started # "unset" /\ (e.started \in Fatal => e.outcome = e.started)
      BY <3>1, <3>3 DEF EntryOK, TicketsOf
    <3> QED
      BY <3>2, <3>3, <3>4 DEF Resolved, e
  <2>5. LeaseKeepsSession
    BY <1>1 DEF IInv, Leased, LeaseKeepsSession
  <2>6. QuietTeardown
    <3> SUFFICES ASSUME NEW g \in Admitted, entry[g].phase \in {"Retiring", "Released"}
                 PROVE  /\ entry[g].stop_requested /\ entry[g].startup_done
                        /\ entry[g].life \in Terminal \union {"None"}
                        /\ ~entry[g].dirty /\ ~entry[g].observing
      BY <2>1 DEF QuietTeardown
    <3> QED
      BY <2>1 DEF EntryOK, StopToldTo, StartupOf, QuietOf
  <2>7. StoppedMeansDone
    <3> SUFFICES ASSUME lifecycle = "Stopped"
                 PROVE  /\ registry = {} /\ pending = {} /\ notifications = <<>>
                        /\ \A w \in Workers : worker[w].at = "done"
                        /\ \A g \in DOMAIN entry :
                              Resolved(entry[g].started) /\ Resolved(entry[g].retired)
      BY DEF StoppedMeansDone
    <3>1. /\ registry = {} /\ notifications = <<>>
          /\ \A w \in Workers : worker[w].at = "done"
      BY <1>1 DEF IInv, Ending
    <3>2. \A g \in Admitted : entry[g].retired # "unset"
      BY <1>1, <3>1 DEF IInv, Members
    <3>3. pending = {}
      BY <1>1, <2>1, <3>2 DEF IInv, Queued, EntryOK, TicketsOf
    <3>4. \A g \in Admitted : Resolved(entry[g].started) /\ Resolved(entry[g].retired)
      BY <2>1, <2>4, <3>2 DEF Resolved, TicketsAgree
    <3> QED
      BY <2>1, <3>1, <3>3, <3>4
  <2> QED
    BY <2>2, <2>3, <2>4, <2>5, <2>6, <2>7 DEF ManagerSafe
<1> QED
  BY <1>1, Inductive, PTL

\* What an application can observe of an admission through find() and its two tickets is
\* what ManagedSession allows, whoever stops the session and whenever.
THEOREM Refinement == Spec => ImplementsAdmissions
<1>1. IInv /\ [Next]_vars => AllSeen
  BY StepKeeps DEF Seen, Sees, AllSeen
<1>2. Spec => [][AllSeen]_vars
  BY <1>1, Inductive, PTL DEF Spec
<1>3. [][AllSeen]_vars => ImplementsAdmissions
  BY DEF ImplementsAdmissions, AllSeen
<1> QED
  BY <1>2, <1>3

-----------------------------------------------------------------------------
(***************************************************************************)
(* What a session sees of the manager                                      *)
(***************************************************************************)

KeepsContract(g) == Contract(g)!Next \/ UNCHANGED <<Life(g), Inside(g), Dirty(g)>>

AllContracts == \A g \in Generations :
                   Contract(g)!Next \/ UNCHANGED <<Life(g), Inside(g), Dirty(g)>>

LifeOf(e) == IF e.life # "None" THEN e.life ELSE "Created"

\* What a step may do to the session of an entry when no call enters or leaves it, and
\* quiet says that none is inside.
Drives(e, f, quiet) ==
    \/ LifeOf(f) = LifeOf(e) /\ f.dirty = e.dirty
    \/ e.life = "Created" /\ f.life = "Starting" /\ f.dirty = e.dirty
    \/ e.life = "Starting" /\ ~e.dirty /\ f.life = "Starting" /\ f.dirty
    \/ e.life = "Starting" /\ e.dirty /\ f.life = "Running" /\ f.dirty
    \/ /\ LifeOf(e) \in {"Created", "Starting", "Running"}
       /\ f.life = "Stopping" /\ f.dirty = e.dirty
    \/ e.life = "Stopping" /\ quiet /\ e.dirty /\ f.life = "Stopping" /\ ~f.dirty
    \/ e.life = "Stopping" /\ quiet /\ ~e.dirty /\ f.life \in Terminal /\ ~f.dirty

LEMMA Driven ==
    ASSUME Entries, Entries', NEW g \in Generations, Inside(g)' = Inside(g),
           g \in Admitted <=> g \in Admitted',
           g \in Admitted => Drives(entry[g], entry'[g], Inside(g) = {})
    PROVE  KeepsContract(g)
<1>1. CASE g \notin Admitted
  <2>1. g \notin DOMAIN entry /\ g \notin DOMAIN entry'
    BY <1>1 DEF Entries
  <2> QED
    BY <2>1 DEF KeepsContract, Life, Dirty
<1>2. CASE g \in Admitted
  <2> DEFINE e == entry[g]
             f == entry'[g]
             n == Cardinality(Inside(g))
  <2>1. e \in EntryRecord /\ f \in EntryRecord /\ g \in DOMAIN entry /\ g \in DOMAIN entry'
    BY <1>2 DEF Entries
  <2>2. /\ Life(g) = LifeOf(e) /\ Dirty(g) = e.dirty
        /\ Life(g)' = LifeOf(f) /\ Dirty(g)' = f.dirty
    BY <2>1 DEF Life, Dirty, LifeOf, EntryRecord
  <2>3. n' = n /\ (Inside(g) = {} => n = 0)
    BY FS_EmptySet
  <2>4. Drives(e, f, Inside(g) = {}) /\ e.dirty \in BOOLEAN /\ f.dirty \in BOOLEAN
    BY <1>2, <2>1 DEF EntryRecord
  <2> HIDE DEF e, f, n
  <2> USE DEF KeepsContract, Contract!Next
  <2>5. CASE LifeOf(f) = LifeOf(e) /\ f.dirty = e.dirty
    BY <2>2, <2>5
  <2>6. CASE e.life = "Created" /\ f.life = "Starting" /\ f.dirty = e.dirty
    BY <2>2, <2>3, <2>6 DEF LifeOf, Contract!Begin, n
  <2>7. CASE e.life = "Starting" /\ ~e.dirty /\ f.life = "Starting" /\ f.dirty
    BY <2>2, <2>3, <2>4, <2>7 DEF LifeOf, Contract!Dirty, n
  <2>8. CASE e.life = "Starting" /\ e.dirty /\ f.life = "Running" /\ f.dirty
    BY <2>2, <2>3, <2>4, <2>8 DEF LifeOf, Contract!Open, n
  <2>9. CASE /\ LifeOf(e) \in {"Created", "Starting", "Running"}
             /\ f.life = "Stopping" /\ f.dirty = e.dirty
    BY <2>2, <2>3, <2>9 DEF LifeOf, Contract!Close, n
  <2>10. CASE /\ e.life = "Stopping" /\ Inside(g) = {} /\ e.dirty
              /\ f.life = "Stopping" /\ ~f.dirty
    BY <2>2, <2>3, <2>4, <2>10 DEF LifeOf, Contract!Clean, n
  <2>11. CASE /\ e.life = "Stopping" /\ Inside(g) = {} /\ ~e.dirty
              /\ f.life \in Terminal /\ ~f.dirty
    BY <2>2, <2>3, <2>4, <2>11 DEF LifeOf, Contract!End, n, Terminal
  <2> QED
    BY <2>4, <2>5, <2>6, <2>7, <2>8, <2>9, <2>10, <2>11 DEF Drives
<1> QED
  BY <1>1, <1>2

\* A step on entries alone.
LEMMA EntriesDriven ==
    ASSUME Entries, Entries', UNCHANGED <<generation, caller>>,
           \A g \in Admitted : Drives(entry[g], entry'[g], Inside(g) = {})
    PROVE  AllContracts
<1> SUFFICES ASSUME NEW g \in Generations PROVE KeepsContract(g)
  BY DEF AllContracts, KeepsContract
<1>1. Inside(g)' = Inside(g)
  BY DEF Inside
<1>2. Admitted' = Admitted
  BY DEF Admitted
<1> QED
  BY <1>1, <1>2, Driven

LEMMA OneDriven ==
    ASSUME Entries, Entries', UNCHANGED <<generation, caller>>, NEW g \in Admitted, NEW f,
           entry' = [entry EXCEPT ![g] = f], Drives(entry[g], f, Inside(g) = {})
    PROVE  AllContracts
<1>1. \A h \in Admitted : entry'[h] = IF h = g THEN f ELSE entry[h]
  BY DEF Entries
<1>2. \A h \in Admitted : Drives(entry[h], entry'[h], Inside(h) = {})
  BY <1>1 DEF Drives
<1> QED
  BY <1>2, EntriesDriven

\* A stop is passed on to a live session and leaves one that is over alone.
LEMMA StopDrives ==
    ASSUME NEW e \in EntryRecord, NEW r, NEW quiet
    PROVE  Drives(e, Stopped(e, r), quiet)
<1>1. CASE ~Effective(e, r)
  BY <1>1 DEF Stopped, Drives
<1>2. CASE Effective(e, r)
  <2>1. Stopped(e, r).life = Asked(e.life) /\ Stopped(e, r).dirty = e.dirty
    BY <1>2 DEF Stopped, EntryRecord
  <2> QED
    BY <2>1 DEF Asked, Drives, LifeOf
<1> QED
  BY <1>1, <1>2

LEMMA StopsDrive ==
    ASSUME Entries, NEW gs, NEW r, StopEntries(gs, r), NEW g \in Admitted, NEW quiet
    PROVE  Drives(entry[g], entry'[g], quiet)
<1>1. entry[g] \in EntryRecord /\ DOMAIN entry = Admitted
  BY DEF Entries
<1>2. entry'[g] = IF g \in gs THEN Stopped(entry[g], r) ELSE entry[g]
  BY <1>1 DEF StopEntries
<1>3. Drives(entry[g], entry[g], quiet)
  BY DEF Drives
<1> QED
  BY <1>1, <1>2, <1>3, StopDrives

\* Startup workers.
LEMMA StartupDrives ==
    ASSUME IInv, Entries', NEW w \in Workers, Startup(w)
    PROVE  AllContracts
<1> DEFINE g == worker[w].gen
           e == entry[g]
<1>1. /\ Entries /\ DOMAIN entry = Admitted /\ UNCHANGED <<generation, caller>>
      /\ \A h \in Admitted : entry[h] \in EntryRecord
  BY DEF IInv, Entries, Startup, TakeReservation, WorkerDone, FactoryThrows, Install,
         StartSession, StartReturns, Catch, Report
<1>2. worker[w].at \in Busy => g \in Admitted /\ e \in EntryRecord
  BY <1>1 DEF IInv, Held
<1>3. CASE UNCHANGED entry
  <2>1. \A h \in Admitted : Drives(entry[h], entry'[h], Inside(h) = {})
    BY <1>3 DEF Drives
  <2> QED
    BY <1>1, <2>1, EntriesDriven
<1>4. CASE TakeReservation(w)
  <2>1. PICK h \in pending :
           entry' = IF ~entry[h].stop_requested THEN [entry EXCEPT ![h].phase = "Starting"]
                    ELSE entry
    BY <1>4 DEF TakeReservation
  <2>2. h \in Admitted
    BY <2>1 DEF IInv, Queued
  <2>3. CASE entry' = [entry EXCEPT ![h].phase = "Starting"]
    <3> DEFINE f == [entry[h] EXCEPT !.phase = "Starting"]
    <3>1. entry' = [entry EXCEPT ![h] = f]
      BY <2>3
    <3>2. Drives(entry[h], f, Inside(h) = {})
      BY <1>1, <2>2 DEF Drives, LifeOf, EntryRecord
    <3> QED
      BY <1>1, <2>2, <3>1, <3>2, OneDriven
  <2> QED
    BY <1>3, <2>1, <2>3
<1>5. CASE Install(w)
  <2> DEFINE l == IF Starts(e) THEN "Created" ELSE "Stopping"
             f == [e EXCEPT !.life = l]
  <2>1. worker[w].at = "factory" /\ entry' = [entry EXCEPT ![g] = f]
    BY <1>5 DEF Install
  <2>2. g \in Admitted /\ e \in EntryRecord /\ e.life = "None"
    BY <1>2, <2>1 DEF IInv, Held, Busy
  <2>3. Drives(e, f, Inside(g) = {})
    BY <2>2 DEF Drives, LifeOf, EntryRecord
  <2> QED
    BY <1>1, <2>1, <2>2, <2>3, OneDriven
<1>6. CASE StartSession(w)
  <2> DEFINE f == [e EXCEPT !.life = "Starting"]
  <2>1. CASE e.life = "Created" /\ entry' = [entry EXCEPT ![g].life = "Starting"]
    <3>1. g \in Admitted /\ e \in EntryRecord
      BY <1>2, <1>6 DEF StartSession, Busy
    <3>2. Drives(e, f, Inside(g) = {})
      BY <2>1, <3>1 DEF Drives, EntryRecord
    <3>3. entry' = [entry EXCEPT ![g] = f]
      BY <2>1
    <3> QED
      BY <1>1, <3>1, <3>2, <3>3, OneDriven
  <2> QED
    BY <1>3, <1>6, <2>1 DEF StartSession
<1>7. CASE Report(w)
  <2> DEFINE s == IF worker[w].failed THEN Stopped(e, "StartupFailed") ELSE e
             f == Reported(e, worker[w].failed)
  <2>1. worker[w].at = "report" /\ entry' = [entry EXCEPT ![g] = f]
    BY <1>7 DEF Report
  <2>2. g \in Admitted /\ e \in EntryRecord /\ EntryOK(e)
    BY <1>2, <2>1 DEF Busy, IInv, Entries
  <2>3. Drives(e, s, Inside(g) = {})
    BY <2>2, StopDrives DEF Drives
  <2>4. s \in EntryRecord
    BY <2>2, StopKeeps DEF Outer, Outcomes, Fatal
  <2>5. f.life = s.life /\ f.dirty = s.dirty
    <3> HIDE DEF s
    <3>1. f = LET settled == [s EXCEPT !.startup_done = TRUE] IN
              IF Opens(settled)
              THEN [settled EXCEPT !.phase = "Running", !.started = Kept(@, "Started")]
              ELSE [settled EXCEPT !.started = Kept(@, settled.outcome)]
      BY DEF Reported, s
    <3> QED
      BY <2>4, <3>1 DEF EntryRecord
  <2>6. Drives(e, f, Inside(g) = {})
    <3> HIDE DEF s, f
    <3> QED
      BY <2>3, <2>5 DEF Drives, LifeOf
  <2> QED
    BY <1>1, <2>1, <2>2, <2>6, OneDriven
<1>8. CASE WorkerDone(w) \/ FactoryThrows(w) \/ StartReturns(w) \/ Catch(w)
  BY <1>3, <1>8 DEF WorkerDone, FactoryThrows, StartReturns, Catch
<1> QED
  BY <1>4, <1>5, <1>6, <1>7, <1>8 DEF Startup

\* The sessions' own threads.
LEMMA SessionsDrive ==
    ASSUME IInv, Entries', NEW g \in DOMAIN entry, Sessions(g)
    PROVE  AllContracts
<1> DEFINE e == entry[g]
<1>1. /\ Entries /\ UNCHANGED <<generation, caller>> /\ g \in Admitted
      /\ e \in EntryRecord
  BY DEF IInv, Entries, Sessions, EngineBegins, EngineOpens, EngineThrows, EngineStops,
         SessionEnds, ObserversDrain, Session
<1> USE DEF Drives, LifeOf, EntryRecord, Session
<1>2. CASE EngineBegins(g)
  <2> DEFINE f == [e EXCEPT !.dirty = TRUE]
  <2>1. Drives(e, f, Inside(g) = {})
    BY <1>1, <1>2 DEF EngineBegins
  <2> QED
    BY <1>1, <1>2, <2>1, OneDriven DEF EngineBegins
<1>3. CASE EngineOpens(g)
  <2> DEFINE f == [e EXCEPT !.life = "Running"]
  <2>1. Drives(e, f, Inside(g) = {})
    BY <1>1, <1>3 DEF EngineOpens
  <2> QED
    BY <1>1, <1>3, <2>1, OneDriven DEF EngineOpens
<1>4. CASE EngineThrows(g)
  <2> DEFINE f == [e EXCEPT !.life = "Stopping", !.broken = TRUE]
  <2>1. Drives(e, f, Inside(g) = {})
    BY <1>1, <1>4 DEF EngineThrows
  <2> QED
    BY <1>1, <1>4, <2>1, OneDriven DEF EngineThrows
<1>5. CASE EngineStops(g)
  <2>1. PICK throws \in BOOLEAN :
           Session(g, [e EXCEPT !.dirty = FALSE, !.broken = @ \/ throws])
    BY <1>5 DEF EngineStops
  <2> DEFINE f == [e EXCEPT !.dirty = FALSE, !.broken = @ \/ throws]
  <2>2. Drives(e, f, Inside(g) = {})
    BY <1>1, <1>5 DEF EngineStops
  <2> QED
    BY <1>1, <2>1, <2>2, OneDriven
<1>6. CASE SessionEnds(g)
  <2> DEFINE l == IF e.broken THEN "Failed" ELSE "Stopped"
             f == [e EXCEPT !.life = l, !.observing = TRUE]
  <2>1. Drives(e, f, Inside(g) = {})
    BY <1>1, <1>6 DEF SessionEnds, Terminal
  <2> QED
    BY <1>1, <1>6, <2>1, OneDriven DEF SessionEnds
<1>7. CASE ObserversDrain(g)
  <2> DEFINE f == [e EXCEPT !.observing = FALSE]
  <2>1. Drives(e, f, Inside(g) = {})
    BY <1>1
  <2> QED
    BY <1>1, <1>7, <2>1, OneDriven DEF ObserversDrain
<1> QED
  BY <1>2, <1>3, <1>4, <1>5, <1>6, <1>7 DEF Sessions

\* The supervisor passes stops on and destroys only what is over.
LEMMA SuperviseDrives ==
    ASSUME IInv, Entries', Supervise
    PROVE  AllContracts
<1> DEFINE g == supervisor.gen
           e == entry[g]
<1>1. Entries /\ UNCHANGED <<generation, caller>> /\ registry \subseteq Admitted
  BY DEF IInv, Members, Supervise, Scan, ScanEnds, Look, Judge, Flush, Claim, Destroy, Erase
<1>2. supervisor.at \in OnEntry => g \in Admitted /\ e \in EntryRecord
  BY <1>1 DEF IInv, Supervised, Entries
<1>3. CASE UNCHANGED entry
  <2>1. \A h \in Admitted : Drives(entry[h], entry'[h], Inside(h) = {})
    BY <1>3 DEF Drives
  <2> QED
    BY <1>1, <2>1, EntriesDriven
<1>4. ASSUME NEW r, StopEntries({g}, r) PROVE AllContracts
  <2>1. \A h \in Admitted : Drives(entry[h], entry'[h], Inside(h) = {})
    BY <1>1, <1>4, StopsDrive
  <2> QED
    BY <1>1, <2>1, EntriesDriven
<1>5. CASE Judge
  BY <1>3, <1>4, <1>5 DEF Judge
<1>6. ASSUME NEW p, supervisor.at \in OnEntry, entry' = [entry EXCEPT ![g].phase = p]
      PROVE  AllContracts
  <2> DEFINE f == [e EXCEPT !.phase = p]
  <2>1. entry' = [entry EXCEPT ![g] = f] /\ g \in Admitted
    BY <1>2, <1>6
  <2>2. Drives(e, f, Inside(g) = {})
    BY <1>2, <1>6 DEF Drives, LifeOf, EntryRecord
  <2> QED
    BY <1>1, <2>1, <2>2, OneDriven
<1>7. CASE Claim
  BY <1>3, <1>6, <1>7 DEF Claim, OnEntry
<1>8. CASE Destroy
  <2>1. supervisor.at \in OnEntry /\ entry' = [entry EXCEPT ![g].phase = "Released"]
    BY <1>8 DEF Destroy, OnEntry
  <2> QED
    BY <1>6, <2>1
<1>9. CASE Erase
  <2> DEFINE s == IF OwesStarted(e) THEN Kept(e.started, e.outcome) ELSE e.started
             f == [e EXCEPT !.started = s, !.retired = Kept(e.retired, e.outcome)]
  <2>1. g \in Admitted /\ e \in EntryRecord
    BY <1>2, <1>9 DEF Erase, OnEntry
  <2>2. entry' = [entry EXCEPT ![g] = f]
    BY <1>1, <1>9, <2>1 DEF Erase, Entries
  <2>3. Drives(e, f, Inside(g) = {})
    BY <2>1 DEF Drives, LifeOf, EntryRecord
  <2> QED
    BY <1>1, <2>1, <2>2, <2>3, OneDriven
<1>10. CASE Scan \/ ScanEnds \/ Flush \/ \E h \in supervisor.left : Look(h)
  BY <1>3, <1>10 DEF Scan, ScanEnds, Flush, Look
<1> QED
  BY <1>5, <1>7, <1>8, <1>9, <1>10 DEF Supervise

\* A leased call outside the engine leaves the calls inside as they are.
LEMMA OutsideDrives ==
    ASSUME IInv, Entries', UNCHANGED generation, NEW c \in Callers, NEW at, NEW h,
           caller[c].at # "inside", at # "inside", Moves(c, at, h),
           \A g \in Admitted : Drives(entry[g], entry'[g], Inside(g) = {})
    PROVE  AllContracts
<1> SUFFICES ASSUME NEW g \in Generations PROVE KeepsContract(g)
  BY DEF AllContracts, KeepsContract
<1>1. \A d \in Callers : caller'[d] = IF d = c THEN [at |-> at, gen |-> h] ELSE caller[d]
  BY DEF Moves, IInv, Leased
<1>2. Inside(g)' = Inside(g)
  BY <1>1 DEF Inside
<1>3. Admitted' = Admitted
  BY DEF Admitted
<1> QED
  BY <1>2, <1>3, Driven DEF IInv

\* A call enters only a session that runs; what left it had entered.
LEMMA InsideDrives ==
    ASSUME IInv, UNCHANGED entry, NEW c \in Callers,
           \/ Enter(c)
           \/ EngineReturns(c, "ending") \/ EngineReturns(c, "threw")
    PROVE  AllContracts
<1> SUFFICES ASSUME NEW g \in Generations PROVE KeepsContract(g)
  BY DEF AllContracts, KeepsContract
<1> DEFINE h == caller[c].gen
<1>1. /\ UNCHANGED <<Life(g), Dirty(g)>>
      /\ IsFiniteSet(Inside(g)) /\ Cardinality(Inside(g)) \in Nat
  <2>1. IsFiniteSet(Inside(g))
    BY ThreadsAssumption, FS_Subset DEF Inside
  <2> QED
    BY <2>1, FS_CardinalityType DEF Life, Dirty
<1>2. CASE Enter(c)
  <2>1. \A d \in Callers :
           caller'[d] = IF d = c THEN [at |-> "inside", gen |-> h] ELSE caller[d]
    BY <1>2 DEF Enter, Moves, IInv, Leased
  <2>2. CASE g = h
    <3>1. Inside(g)' = Inside(g) \union {c} /\ c \notin Inside(g)
      BY <1>2, <2>1, <2>2 DEF Inside, Enter
    <3>2. Cardinality(Inside(g)') = Cardinality(Inside(g)) + 1
      BY <1>1, <3>1, FS_AddElement
    <3>3. g \in DOMAIN entry /\ entry[g].life = "Running"
      BY <1>2, <2>2 DEF Enter, Enterable, IInv, Leased, Entries
    <3> QED
      BY <1>1, <3>2, <3>3 DEF KeepsContract, Contract!Next, Contract!Enter, Life
  <2>3. CASE g # h
    <3>1. Inside(g)' = Inside(g)
      BY <1>2, <2>1, <2>3 DEF Inside, Enter
    <3> QED
      BY <1>1, <3>1 DEF KeepsContract
  <2> QED
    BY <2>2, <2>3
<1>3. CASE EngineReturns(c, "ending") \/ EngineReturns(c, "threw")
  <2>1. PICK at \in {"ending", "threw"} : EngineReturns(c, at)
    BY <1>3
  <2>2. \A d \in Callers :
           caller'[d] = IF d = c THEN [at |-> at, gen |-> h] ELSE caller[d]
    BY <2>1 DEF EngineReturns, Moves, IInv, Leased
  <2>3. CASE g = h
    <3>1. Inside(g)' = Inside(g) \ {c} /\ c \in Inside(g)
      BY <2>1, <2>2, <2>3 DEF Inside, EngineReturns
    <3>2. Cardinality(Inside(g)') = Cardinality(Inside(g)) - 1
      BY <1>1, <3>1, FS_RemoveElement
    <3>3. Cardinality(Inside(g)) # 0
      BY <1>1, <3>1, FS_EmptySet
    <3> QED
      BY <1>1, <3>2, <3>3 DEF KeepsContract, Contract!Next, Contract!Leave
  <2>4. CASE g # h
    <3>1. Inside(g)' = Inside(g)
      BY <2>1, <2>2, <2>4 DEF Inside
    <3> QED
      BY <1>1, <3>1 DEF KeepsContract
  <2> QED
    BY <2>3, <2>4
<1> QED
  BY <1>2, <1>3

LEMMA CallingDrives ==
    ASSUME IInv, Entries', NEW c \in Callers, Calling(c)
    PROVE  AllContracts
<1>1. CASE Enter(c) \/ EngineReturns(c, "ending") \/ EngineReturns(c, "threw")
  BY <1>1, InsideDrives DEF Enter, EngineReturns
<1>2. CASE Bypass(c)
  <2>1. \A g \in Admitted : Drives(entry[g], entry'[g], Inside(g) = {})
    BY <1>2 DEF Bypass, Drives
  <2> QED
    BY <1>2, <2>1, OutsideDrives DEF Bypass
<1>3. CASE ReportEngineFailure(c)
  <2>1. \A g \in Admitted : Drives(entry[g], entry'[g], Inside(g) = {})
    BY <1>3, StopsDrive DEF ReportEngineFailure, IInv
  <2> QED
    BY <1>3, <2>1, OutsideDrives DEF ReportEngineFailure
<1>4. CASE EndLease(c)
  <2> DEFINE h == caller[c].gen
             f == [entry[h] EXCEPT !.operations = @ - 1]
  <2>1. h \in Admitted /\ entry[h] \in EntryRecord /\ entry' = [entry EXCEPT ![h] = f]
    BY <1>4 DEF EndLease, IInv, Leased, Entries
  <2>2. \A g \in Admitted : entry'[g] = IF g = h THEN f ELSE entry[g]
    BY <2>1 DEF IInv, Entries
  <2>3. f.life = entry[h].life /\ f.dirty = entry[h].dirty
    BY <2>1 DEF EntryRecord
  <2> HIDE DEF f
  <2>4. \A g \in Admitted : Drives(entry[g], entry'[g], Inside(g) = {})
    BY <2>2, <2>3 DEF Drives, LifeOf
  <2> QED
    BY <1>4, <2>4, OutsideDrives DEF EndLease
<1> QED
  BY <1>1, <1>2, <1>3, <1>4 DEF Calling

LEMMA ApplicationDrives ==
    ASSUME IInv, Entries', Application
    PROVE  AllContracts
<1>1. Entries /\ DOMAIN entry = Admitted /\ DOMAIN entry' = Admitted'
  BY DEF IInv, Entries
<1>2. ASSUME NEW i \in Ids, Add(i) PROVE AllContracts
  <2> SUFFICES ASSUME NEW g \in Generations PROVE KeepsContract(g)
    BY DEF AllContracts, KeepsContract
  <2>1. generation \notin Admitted /\ Inside(g)' = Inside(g)
    BY <1>1, <1>2 DEF Admitted, Entries, Add, Inside
  <2>2. Admitted' = Admitted \union {generation}
    BY <1>1, <1>2 DEF Add
  <2>3. CASE g = generation
    <3>1. entry'[g] = NewEntry(i) /\ g \in DOMAIN entry' /\ g \notin DOMAIN entry
      BY <1>1, <1>2, <2>1, <2>2, <2>3 DEF Add
    <3> QED
      BY <2>1, <3>1 DEF KeepsContract, Life, Dirty, NewEntry
  <2>4. CASE g # generation
    <3>1. g \in Admitted <=> g \in Admitted'
      BY <2>2, <2>4
    <3>2. g \in Admitted => entry'[g] = entry[g]
      BY <1>1, <1>2, <2>4 DEF Add
    <3>3. g \in Admitted => Drives(entry[g], entry'[g], Inside(g) = {})
      BY <3>2 DEF Drives
    <3> QED
      BY <1>1, <2>1, <3>1, <3>3, Driven
  <2> QED
    BY <2>3, <2>4
<1>3. ASSUME NEW gs, NEW r, StopEntries(gs, r), UNCHANGED <<generation, caller>>
      PROVE  AllContracts
  <2>1. \A h \in Admitted : Drives(entry[h], entry'[h], Inside(h) = {})
    BY <1>1, <1>3, StopsDrive
  <2> QED
    BY <1>1, <1>3, <2>1, EntriesDriven
<1>4. ASSUME NEW c \in Callers, NEW h \in registry, Lease(c, h) PROVE AllContracts
  <2> DEFINE f == [entry[h] EXCEPT !.operations = @ + 1]
  <2>1. h \in Admitted /\ entry[h] \in EntryRecord /\ entry' = [entry EXCEPT ![h] = f]
    BY <1>4 DEF Lease, IInv, Members, Entries
  <2>2. \A g \in Admitted : entry'[g] = IF g = h THEN f ELSE entry[g]
    BY <1>1, <2>1
  <2>3. f.life = entry[h].life /\ f.dirty = entry[h].dirty
    BY <2>1 DEF EntryRecord
  <2> HIDE DEF f
  <2>4. \A g \in Admitted : Drives(entry[g], entry'[g], Inside(g) = {})
    BY <2>2, <2>3 DEF Drives, LifeOf
  <2> QED
    BY <1>4, <2>4, OutsideDrives DEF Lease
<1>5. ASSUME NEW g \in registry, Remove(g, "Removed") \/ Remove(g, "ReportedFailure")
      PROVE  AllContracts
  BY <1>3, <1>5 DEF Remove
<1>6. CASE RequestShutdown
  BY <1>3, <1>6 DEF RequestShutdown
<1> QED
  BY <1>2, <1>4, <1>5, <1>6 DEF Application

LEMMA StepDrives == IInv /\ [Next]_vars => AllContracts
<1> SUFFICES ASSUME IInv, [Next]_vars PROVE AllContracts
  OBVIOUS
<1>1. Entries'
  BY StepKeeps DEF IInv
<1>2. CASE UNCHANGED <<entry, generation, caller>>
  <2>1. \A h \in Admitted : Drives(entry[h], entry'[h], Inside(h) = {})
    BY <1>2 DEF Drives
  <2> QED
    BY <1>1, <1>2, <2>1, EntriesDriven DEF IInv
<1>3. CASE Dispatching \/ Over \/ UNCHANGED vars
  BY <1>2, <1>3 DEF Dispatching, Dispatch, Notified, DispatchEnds, Over, vars
<1> QED
  BY <1>1, <1>3, ApplicationDrives, StartupDrives, SessionsDrive, SuperviseDrives,
     CallingDrives DEF Next

\* Whatever workers, callers, supervisor and shutdown do to a session, and in whichever
\* order, it is one of the steps that SessionLifecycle allows: no call enters a session
\* that does not run, no engine is stopped under a call, none restarts.
THEOREM SessionsAreDrivenByContract == Spec => SessionsKeepContract
<1>1. Spec => [][AllContracts]_vars
  BY StepDrives, Inductive, PTL DEF Spec
<1>2. [][AllContracts]_vars => SessionsKeepContract
  BY DEF SessionsKeepContract, AllContracts
<1> QED
  BY <1>1, <1>2

-----------------------------------------------------------------------------
(***************************************************************************)
(* What the observer is told                                               *)
(***************************************************************************)

Rank(n) == CHOOSE k \in 1..4 : Kinds[k] = n.type

\* The newest notification about an entry that can have been published.
Level(e) == IF e.retired # "unset" THEN 4
            ELSE IF e.stop_requested THEN 3
            ELSE IF e.phase = "Running" THEN 2 ELSE 1

\* What is in flight or queued about an entry is news, in order, and not ahead of it.
Story ==
    /\ told \in [Generations -> 0..4]
    /\ \A g \in Generations \ Admitted : told[g] = 0
    /\ \A g \in Admitted : told[g] <= Level(entry[g])
    /\ \A i \in 1..Len(notifications) : LET n == notifications[i] IN
          /\ n.gen \in Admitted
          /\ told[n.gen] < Rank(n) /\ Rank(n) <= Level(entry[n.gen])
          /\ \A j \in 1..Len(notifications) :
                j < i /\ notifications[j].gen = n.gen => Rank(notifications[j]) < Rank(n)
    /\ dispatcher.at = "notify" => LET n == dispatcher.note IN
          /\ n \in Notes /\ n.gen \in Admitted
          /\ told[n.gen] < Rank(n) /\ Rank(n) <= Level(entry[n.gen])
          /\ \A i \in 1..Len(notifications) :
                notifications[i].gen = n.gen => Rank(n) < Rank(notifications[i])

LEMMA Ranks ==
    ASSUME NEW n \in Notes
    PROVE  /\ Rank(n) \in 1..4
           /\ n.type = "Reserved" => Rank(n) = 1
           /\ n.type = "Started" => Rank(n) = 2
           /\ n.type = "StopRequested" => Rank(n) = 3
           /\ n.type = "Retired" => Rank(n) = 4
<1>1. \E k \in 1..4 : Kinds[k] = n.type
  BY DEF Notes, Kinds
<1>2. Rank(n) \in 1..4 /\ Kinds[Rank(n)] = n.type
  BY <1>1 DEF Rank
<1>3. Rank(n) \in {1, 2, 3, 4}
  BY <1>2
<1> HIDE DEF Rank
<1> QED
  BY <1>2, <1>3 DEF Kinds

\* How entries may change while the observer's lane keeps its order.
Rises == \A g \in Admitted : g \in Admitted' /\ Level(entry[g]) <= Level(entry'[g])

\* notes may be published by a step: news of entries, at most one about each.
Due(notes) ==
    /\ notes \in Seq(Notes)
    /\ \A i \in 1..Len(notes) :
          /\ notes[i].gen \in Admitted'
          /\ notes[i].gen \in Admitted => Level(entry[notes[i].gen]) < Rank(notes[i])
          /\ Rank(notes[i]) <= Level(entry'[notes[i].gen])
    /\ \A i, j \in 1..Len(notes) : notes[i].gen = notes[j].gen => i = j

LEMMA LevelType == \A e : Level(e) \in 1..4
BY DEF Level

LEMMA TellsMore ==
    ASSUME Story, Lane, Admitted \subseteq Generations, Admitted' \subseteq Generations,
           Rises, UNCHANGED <<told, dispatcher>>,
           NEW notes, Due(notes), notifications' = notifications \o notes
    PROVE  Story'
<1> DEFINE old == notifications
           new == notifications \o notes
           m == Len(notifications)
           k == Len(notes)
<1>1. /\ m \in Nat /\ k \in Nat /\ Len(new) = m + k
      /\ \A i \in 1..m : new[i] = old[i] /\ old[i] \in Notes
      /\ \A i \in (m + 1)..(m + k) : /\ new[i] = notes[i - m] /\ i - m \in 1..k
                                     /\ notes[i - m] \in Notes
  <2>1. notifications \in Seq(Notes) /\ notes \in Seq(Notes)
    BY DEF Lane, Due
  <2>2. /\ m \in Nat /\ k \in Nat /\ Len(new) = m + k
        /\ \A i \in 1..(m + k) : new[i] = IF i <= m THEN old[i] ELSE notes[i - m]
        /\ \A i \in 1..m : old[i] \in Notes
        /\ \A i \in 1..k : notes[i] \in Notes
    BY <2>1
  <2> HIDE DEF new, m, k
  <2> QED
    BY <2>2
<1>2. \A i \in 1..(m + k) : i \in 1..m \/ i \in (m + 1)..(m + k)
  BY <1>1
<1>3. \A g \in Generations : told[g] \in Nat /\ (g \notin Admitted => told[g] = 0)
  BY DEF Story
<1>4. \A g \in Admitted : /\ told[g] <= Level(entry[g]) /\ told[g] <= Level(entry'[g])
                          /\ Level(entry[g]) \in Nat /\ Level(entry'[g]) \in Nat
  <2> SUFFICES ASSUME NEW g \in Admitted
               PROVE  /\ told[g] <= Level(entry[g]) /\ told[g] <= Level(entry'[g])
                      /\ Level(entry[g]) \in Nat /\ Level(entry'[g]) \in Nat
    OBVIOUS
  <2>1. Level(entry[g]) \in 1..4 /\ Level(entry'[g]) \in 1..4
    BY LevelType
  <2>2. told[g] <= Level(entry[g]) /\ Level(entry[g]) <= Level(entry'[g])
    BY DEF Story, Rises
  <2>3. told[g] \in Nat
    BY <1>3
  <2> QED
    BY <2>1, <2>2, <2>3
<1>5. \A n \in Notes : Rank(n) \in Nat /\ Rank(n) > 0 /\ n.gen \in Generations
  BY Ranks DEF Notes
<1>6. \A i \in 1..m :
         /\ old[i].gen \in Admitted /\ old[i].gen \in Admitted'
         /\ told[old[i].gen] < Rank(old[i])
         /\ Rank(old[i]) <= Level(entry[old[i].gen])
         /\ Rank(old[i]) <= Level(entry'[old[i].gen])
  BY <1>1, <1>4, <1>5, LevelType DEF Story, Rises
<1>7. \A i \in 1..k :
         /\ notes[i].gen \in Admitted' /\ told[notes[i].gen] < Rank(notes[i])
         /\ Rank(notes[i]) <= Level(entry'[notes[i].gen])
         /\ notes[i].gen \in Admitted => Level(entry[notes[i].gen]) < Rank(notes[i])
  <2> SUFFICES ASSUME NEW i \in 1..k PROVE told[notes[i].gen] < Rank(notes[i])
    BY DEF Due
  <2>1. notes[i] \in Notes
    BY <1>1 DEF Due
  <2>2. notes[i].gen \in Generations /\ Rank(notes[i]) \in Nat /\ Rank(notes[i]) > 0
    BY <1>5, <2>1
  <2>3. CASE notes[i].gen \in Admitted
    <3>1. /\ Level(entry[notes[i].gen]) < Rank(notes[i])
          /\ told[notes[i].gen] <= Level(entry[notes[i].gen])
          /\ told[notes[i].gen] \in Nat /\ Level(entry[notes[i].gen]) \in Nat
      BY <1>3, <1>4, <2>2, <2>3 DEF Due
    <3> QED
      BY <2>2, <3>1
  <2>4. CASE notes[i].gen \notin Admitted
    BY <1>3, <2>2, <2>4
  <2> QED
    BY <2>3, <2>4
<1>8. ASSUME NEW i \in 1..(m + k)
      PROVE  /\ new[i] \in Notes /\ new[i].gen \in Admitted'
             /\ told[new[i].gen] < Rank(new[i])
             /\ Rank(new[i]) <= Level(entry'[new[i].gen])
             /\ \A j \in 1..(m + k) :
                   j < i /\ new[j].gen = new[i].gen => Rank(new[j]) < Rank(new[i])
  <2>1. CASE i \in 1..m
    <3>1. \A j \in 1..(m + k) : j < i => j \in 1..m
      BY <1>1, <2>1
    <3> QED
      BY <1>1, <1>6, <2>1, <3>1 DEF Story
  <2>2. CASE i \in (m + 1)..(m + k)
    <3>1. /\ new[i] = notes[i - m] /\ i - m \in 1..k /\ new[i] \in Notes
      BY <1>1, <2>2
    <3>2. ASSUME NEW j \in 1..(m + k), j < i, new[j].gen = new[i].gen
          PROVE  Rank(new[j]) < Rank(new[i])
      <4>1. CASE j \in 1..m
        <5>1. /\ old[j].gen \in Admitted /\ Rank(old[j]) <= Level(entry[old[j].gen])
              /\ new[j] = old[j] /\ old[j] \in Notes
          BY <1>1, <1>6, <4>1
        <5>2. Level(entry[old[j].gen]) < Rank(new[i])
          BY <1>7, <3>1, <3>2, <5>1
        <5> HIDE DEF new, old
        <5>3. /\ Rank(new[j]) \in Nat /\ Rank(new[i]) \in Nat
              /\ Level(entry[old[j].gen]) \in 1..4
          BY <1>5, <3>1, <5>1, LevelType
        <5>4. Rank(new[j]) <= Level(entry[old[j].gen])
          BY <5>1
        <5> QED
          BY <5>2, <5>3, <5>4
      <4>2. CASE j \in (m + 1)..(m + k)
        <5>1. new[j] = notes[j - m] /\ j - m \in 1..k
          BY <1>1, <4>2
        <5>2. j - m = i - m
          BY <3>1, <3>2, <5>1 DEF Due
        <5> QED
          BY <1>1, <3>2, <5>2
      <4> QED
        BY <1>2, <4>1, <4>2
    <3> QED
      BY <1>7, <3>1, <3>2
  <2> QED
    BY <1>2, <2>1, <2>2
<1>9. ASSUME dispatcher.at = "notify"
      PROVE  LET n == dispatcher.note IN
             /\ n \in Notes /\ n.gen \in Admitted'
             /\ told[n.gen] < Rank(n) /\ Rank(n) <= Level(entry'[n.gen])
             /\ \A i \in 1..(m + k) : new[i].gen = n.gen => Rank(n) < Rank(new[i])
  <2> DEFINE n == dispatcher.note
  <2>1. /\ n \in Notes /\ n.gen \in Admitted /\ told[n.gen] < Rank(n)
        /\ Rank(n) <= Level(entry[n.gen])
        /\ \A i \in 1..m : old[i].gen = n.gen => Rank(n) < Rank(old[i])
    BY <1>9 DEF Story
  <2> HIDE DEF n, new, old
  <2>2. n.gen \in Admitted' /\ Rank(n) <= Level(entry'[n.gen])
    BY <1>5, <2>1, LevelType DEF Rises
  <2>3. ASSUME NEW i \in 1..(m + k), new[i].gen = n.gen
        PROVE  Rank(n) < Rank(new[i])
    <3>1. CASE i \in 1..m
      BY <1>1, <2>1, <2>3, <3>1
    <3>2. CASE i \in (m + 1)..(m + k)
      <4>1. new[i] = notes[i - m] /\ i - m \in 1..k /\ notes[i - m] \in Notes
        BY <1>1, <3>2
      <4>2. Level(entry[n.gen]) < Rank(new[i])
        BY <1>7, <2>1, <2>3, <4>1
      <4>3. /\ Rank(n) \in Nat /\ Rank(new[i]) \in Nat /\ Level(entry[n.gen]) \in 1..4
            /\ Rank(n) <= Level(entry[n.gen])
        BY <1>5, <2>1, <4>1, LevelType
      <4> QED
        BY <4>2, <4>3
    <3> QED
      BY <1>2, <3>1, <3>2
  <2> QED
    BY <2>1, <2>2, <2>3 DEF n
<1>10. \A g \in Generations \ Admitted' : told[g] = 0
  BY <1>3 DEF Rises
<1>11. \A g \in Admitted' : told[g] <= Level(entry'[g])
  <2> SUFFICES ASSUME NEW g \in Admitted' PROVE told[g] <= Level(entry'[g])
    OBVIOUS
  <2>1. Level(entry'[g]) \in Nat
    BY LevelType
  <2> QED
    BY <1>3, <1>4, <2>1
<1>12. told' = told /\ dispatcher' = dispatcher /\ notifications' = new /\ Len(new) = m + k
  BY <1>1
<1> HIDE DEF new, m, k
<1>13. told \in [Generations -> 0..4]
  BY DEF Story
<1> QED
  BY <1>8, <1>9, <1>10, <1>11, <1>12, <1>13 DEF Story

\* A step that publishes nothing.
LEMMA TellsNothing ==
    ASSUME Story, Lane, Admitted \subseteq Generations, Admitted' \subseteq Generations,
           Rises, UNCHANGED <<told, dispatcher, notifications>>
    PROVE  Story'
<1>1. Due(<<>>)
  BY DEF Due
<1>2. notifications' = notifications \o <<>>
  BY DEF Lane
<1> QED
  BY <1>1, <1>2, TellsMore

\* publish(): what was dropped leaves a gap, never a turn back.
LEMMA PublishTells ==
    ASSUME Story, Lane, Admitted \subseteq Generations, Admitted' \subseteq Generations,
           Rises, UNCHANGED <<told, dispatcher>>, NEW notes, Due(notes), Publish(notes)
    PROVE  Story'
<1>1. CASE UNCHANGED notifications
  BY <1>1, TellsNothing
<1>2. ASSUME NEW n \in 0..Len(notes), notifications' = notifications \o SubSeq(notes, 1, n)
      PROVE  Story'
  <2>1. notes \in Seq(Notes) /\ n \in Nat /\ Len(notes) \in Nat /\ n <= Len(notes)
    BY <1>2, LenProperties DEF Due
  <2>2. /\ SubSeq(notes, 1, n) \in Seq(Notes) /\ Len(SubSeq(notes, 1, n)) = n
        /\ \A i \in 1..n : SubSeq(notes, 1, n)[i] = notes[i]
    <3>1. \A i \in 1..n : notes[i] \in Notes
      BY <2>1
    <3> QED
      BY <2>1, <3>1, SubSeqProperties
  <2>3. 1..n \subseteq 1..Len(notes)
    BY <2>1
  <2>4. Due(SubSeq(notes, 1, n))
    <3> DEFINE s == SubSeq(notes, 1, n)
    <3> HIDE DEF s
    <3>1. s \in Seq(Notes) /\ Len(s) = n /\ \A i \in 1..n : s[i] = notes[i]
      BY <2>2 DEF s
    <3>2. Due(s)
      BY <2>3, <3>1 DEF Due
    <3> QED
      BY <3>2 DEF s
  <2> QED
    BY <1>2, <2>4, TellsMore
<1> QED
  BY <1>1, <1>2 DEF Publish

\* The entries only ever rise.
LEMMA SameLevel ==
    ASSUME NEW e, NEW f, f.retired = e.retired, f.stop_requested = e.stop_requested,
           f.phase = e.phase \/ (e.phase # "Running" /\ f.phase # "Running")
    PROVE  Level(f) = Level(e)
BY DEF Level

LEMMA StopRises ==
    ASSUME NEW e \in EntryRecord, EntryOK(e), NEW r
    PROVE  /\ Level(e) <= Level(Stopped(e, r))
           /\ First(e) => Level(e) < 3 /\ Level(Stopped(e, r)) = 3
<1>1. CASE ~Effective(e, r)
  <2>1. Stopped(e, r) = e /\ ~First(e)
    BY <1>1 DEF Stopped, Effective
  <2> QED
    BY <2>1 DEF Level
<1>2. CASE Effective(e, r)
  <2> DEFINE f == Stopped(e, r)
  <2>1. f.retired = e.retired /\ f.stop_requested
    BY <1>2 DEF Stopped, EntryRecord
  <2>2. e.retired # "unset" => e.phase = "Released"
    BY DEF EntryOK, TicketsOf
  <2>3. e.phase \notin {"Retiring", "Released"}
    BY <1>2 DEF Effective, First
  <2> HIDE DEF f
  <2>4. Level(f) = 3
    BY <2>1, <2>2, <2>3 DEF Level
  <2>5. Level(e) <= 3 /\ (First(e) => Level(e) < 3)
    BY <2>2, <2>3 DEF Level, First
  <2> QED
    BY <2>4, <2>5 DEF f
<1> QED
  BY <1>1, <1>2

\* stop_entry() on registered entries tells of each one that it is the first to stop.
LEMMA StopsTell ==
    ASSUME IInv, Story, UNCHANGED <<registry, generation, told, dispatcher>>,
           NEW gs \in SUBSET registry, NEW r, StopEntries(gs, r)
    PROVE  Story'
<1>1. /\ Admitted \subseteq Generations /\ Admitted' = Admitted /\ Lane
      /\ DOMAIN entry = Admitted /\ registry \subseteq Admitted /\ IsFiniteSet(registry)
      /\ \A g \in Admitted : entry[g] \in EntryRecord /\ EntryOK(entry[g])
  BY Registered DEF IInv, Entries, Admitted
<1>2. \A g \in Admitted : entry'[g] = IF g \in gs THEN Stopped(entry[g], r) ELSE entry[g]
  BY <1>1 DEF StopEntries
<1>3. Rises
  <2> SUFFICES ASSUME NEW g \in Admitted PROVE Level(entry[g]) <= Level(entry'[g])
    BY <1>1 DEF Rises
  <2>1. Level(entry[g]) <= Level(Stopped(entry[g], r)) /\ Level(entry[g]) <= Level(entry[g])
    BY <1>1, StopRises, LevelType
  <2> QED
    BY <1>2, <2>1
<1>4. PICK order \in SeqOps!SetToSeqs({g \in gs : First(entry[g])}) :
         Publish([i \in 1..Len(order) |-> Note("StopRequested", order[i])])
  BY DEF StopEntries
<1> DEFINE S == {g \in gs : First(entry[g])}
           notes == [i \in 1..Len(order) |-> Note("StopRequested", order[i])]
<1>5. IsFiniteSet(S) /\ S \subseteq Admitted /\ Cardinality(S) \in Nat
  <2>1. IsFiniteSet(S)
    BY <1>1, FS_Subset
  <2> QED
    BY <1>1, <2>1, FS_CardinalityType
<1>6. /\ order \in [1..Cardinality(S) -> S]
      /\ \A i, j \in 1..Cardinality(S) : i # j => order[i] # order[j]
  <2>1. SeqOps!Cardinality(S) = Cardinality(S)
    BY DEF SeqOps!Cardinality, Cardinality
  <2> QED
    BY <1>4, <2>1 DEF SeqOps!SetToSeqs
<1>7. Len(order) = Cardinality(S)
  BY <1>5, <1>6
<1> HIDE DEF S
<1>8. /\ notes \in Seq(Notes) /\ Len(notes) = Cardinality(S)
      /\ \A i \in 1..Cardinality(S) :
            /\ notes[i] \in Notes
            /\ notes[i].gen = order[i] /\ notes[i].type = "StopRequested"
  <2>1. \A i \in 1..Cardinality(S) : Note("StopRequested", order[i]) \in Notes
    BY <1>1, <1>5, <1>6 DEF Note, Notes
  <2>2. notes \in Seq(Notes) /\ Len(notes) = Cardinality(S)
    BY <1>5, <1>7, <2>1
  <2> QED
    BY <1>7, <2>1, <2>2 DEF Note
<1> HIDE DEF notes
<1>9. ASSUME NEW i \in 1..Len(notes)
      PROVE  /\ notes[i].gen \in Admitted
             /\ Level(entry[notes[i].gen]) < Rank(notes[i])
             /\ Rank(notes[i]) <= Level(entry'[notes[i].gen])
  <2>1. order[i] \in gs /\ order[i] \in Admitted /\ First(entry[order[i]])
    BY <1>5, <1>6, <1>8, <1>9 DEF S
  <2>2. /\ Level(entry[order[i]]) < 3
        /\ Level(Stopped(entry[order[i]], r)) = 3
    BY <1>1, <2>1, StopRises
  <2>3. Rank(notes[i]) = 3 /\ notes[i].gen = order[i]
    BY <1>8, <1>9, Ranks
  <2> QED
    BY <1>2, <2>1, <2>2, <2>3
<1>10. Due(notes)
  BY <1>1, <1>6, <1>8, <1>9 DEF Due
<1> QED
  BY <1>1, <1>3, <1>4, <1>10, PublishTells DEF notes

\* A step on one entry that publishes at most one notification about it.
LEMMA OneTells ==
    ASSUME IInv, Story, UNCHANGED <<generation, told, dispatcher>>,
           NEW g \in Admitted, NEW f, entry' = [entry EXCEPT ![g] = f],
           Level(entry[g]) <= Level(f),
           \/ UNCHANGED notifications
           \/ Publish(<<>>)
           \/ \E n \in Notes : /\ n.gen = g /\ Level(entry[g]) < Rank(n) /\ Rank(n) <= Level(f)
                               /\ Publish(<<n>>)
    PROVE  Story'
<1>1. /\ Admitted \subseteq Generations /\ Admitted' = Admitted /\ Lane
      /\ \A h \in Admitted : entry'[h] = IF h = g THEN f ELSE entry[h]
  BY Registered DEF IInv, Entries, Admitted
<1>2. Rises
  <2> SUFFICES ASSUME NEW h \in Admitted PROVE Level(entry[h]) <= Level(entry'[h])
    BY <1>1 DEF Rises
  <2>1. Level(entry[h]) \in 1..4
    BY LevelType
  <2> QED
    BY <1>1, <2>1
<1>3. CASE UNCHANGED notifications
  BY <1>1, <1>2, <1>3, TellsNothing
<1>4. CASE Publish(<<>>)
  <2>1. Due(<<>>)
    BY DEF Due
  <2> QED
    BY <1>1, <1>2, <1>4, <2>1, PublishTells
<1>5. ASSUME NEW n \in Notes, n.gen = g, Level(entry[g]) < Rank(n), Rank(n) <= Level(f),
             Publish(<<n>>)
      PROVE  Story'
  <2>1. /\ <<n>> \in Seq(Notes) /\ Len(<<n>>) = 1 /\ <<n>>[1] = n
        /\ \A i \in 1..1 : i = 1
    BY <1>5
  <2>2. entry'[g] = f
    BY <1>1
  <2>3. Due(<<n>>)
    BY <1>1, <1>5, <2>1, <2>2 DEF Due
  <2> QED
    BY <1>1, <1>2, <1>5, <2>3, PublishTells
<1> QED
  BY <1>3, <1>4, <1>5

\* A step that tells nothing and leaves the level of each entry.
LEMMA QuietStep ==
    ASSUME IInv, Story, UNCHANGED <<generation, told, dispatcher, notifications>>,
           NEW g \in Admitted, NEW f, entry' = [entry EXCEPT ![g] = f],
           f.retired = entry[g].retired, f.stop_requested = entry[g].stop_requested,
           \/ f.phase = entry[g].phase
           \/ entry[g].phase # "Running" /\ f.phase # "Running"
    PROVE  Story'
<1>1. Level(f) = Level(entry[g]) /\ Level(entry[g]) \in 1..4
  BY SameLevel, LevelType
<1>2. Level(entry[g]) <= Level(f)
  BY <1>1
<1> QED
  BY <1>2, OneTells

LEMMA StillTold ==
    ASSUME IInv, Story, UNCHANGED <<entry, generation, told, dispatcher, notifications>>
    PROVE  Story'
<1>1. Admitted \subseteq Generations /\ Admitted' = Admitted /\ Lane
  BY Registered DEF IInv, Admitted
<1>2. Rises
  BY <1>1, LevelType DEF Rises
<1> QED
  BY <1>1, <1>2, TellsNothing

\* The dispatcher takes the oldest and then tells it.
LEMMA DispatchingTells ==
    ASSUME IInv, Story, Dispatching
    PROVE  /\ Story'
           /\ \A g \in Generations : told'[g] # told[g] => told'[g] > told[g]
<1>1. /\ UNCHANGED <<entry, generation>> /\ Admitted' = Admitted
      /\ Admitted \subseteq Generations
      /\ told \in [Generations -> 0..4] /\ notifications \in Seq(Notes)
  BY Registered DEF Dispatching, Dispatch, Notified, DispatchEnds, Admitted, Story, IInv, Lane
<1>2. CASE Dispatch
  <2> DEFINE n == notifications[1]
             m == Len(notifications)
  <2>1. /\ notifications # <<>> /\ told' = told /\ m \in Nat /\ m > 0
        /\ dispatcher' = [at |-> "notify", note |-> n]
    BY <1>1, <1>2 DEF Dispatch
  <2>2. /\ Len(notifications') = m - 1
        /\ \A i \in 1..(m - 1) : notifications'[i] = notifications[i + 1] /\ i + 1 \in 1..m
    <3>1. notifications' = Tail(notifications)
      BY <1>2 DEF Dispatch
    <3> QED
      BY <1>1, <2>1, <3>1
  <2>3. n \in Notes /\ 1 \in 1..m
    BY <1>1, <2>1
  <2>4. /\ n.gen \in Admitted /\ told[n.gen] < Rank(n) /\ Rank(n) <= Level(entry[n.gen])
    BY <2>3 DEF Story
  <2>5. \A i \in 1..m : 1 < i /\ notifications[i].gen = n.gen => Rank(n) < Rank(notifications[i])
    BY <2>3 DEF Story
  <2>6. \A i \in 1..(m - 1) :
          /\ notifications'[i].gen \in Admitted
          /\ told[notifications'[i].gen] < Rank(notifications'[i])
          /\ Rank(notifications'[i]) <= Level(entry[notifications'[i].gen])
          /\ notifications'[i].gen = n.gen => Rank(n) < Rank(notifications'[i])
    BY <2>1, <2>2, <2>5 DEF Story
  <2>7. \A i, j \in 1..(m - 1) :
          j < i /\ notifications'[j].gen = notifications'[i].gen
             => Rank(notifications'[j]) < Rank(notifications'[i])
    BY <2>1, <2>2 DEF Story
  <2> HIDE DEF n, m
  <2>8. Story'
    BY <1>1, <2>1, <2>2, <2>3, <2>4, <2>6, <2>7 DEF Story
  <2> QED
    BY <2>1, <2>8
<1>3. CASE Notified
  <2> DEFINE n == dispatcher.note
  <2>1. /\ dispatcher.at = "notify" /\ told' = [told EXCEPT ![n.gen] = Rank(n)]
        /\ notifications' = notifications /\ dispatcher' = [at |-> "wait", note |-> <<>>]
    BY <1>3 DEF Notified, Rank
  <2>2. /\ n \in Notes /\ n.gen \in Admitted
        /\ told[n.gen] < Rank(n) /\ Rank(n) <= Level(entry[n.gen])
        /\ \A i \in 1..Len(notifications) :
              notifications[i].gen = n.gen => Rank(n) < Rank(notifications[i])
    BY <2>1 DEF Story
  <2> HIDE DEF n
  <2>3. Rank(n) \in 1..4 /\ n.gen \in Generations
    BY <1>1, <2>2, Ranks
  <2>4. \A g \in Generations : told'[g] = IF g = n.gen THEN Rank(n) ELSE told[g]
    BY <1>1, <2>1
  <2>5. told' \in [Generations -> 0..4]
    BY <1>1, <2>1, <2>3
  <2>6. /\ \A g \in Generations \ Admitted : told'[g] = 0
        /\ \A g \in Admitted : told'[g] <= Level(entry[g])
    BY <1>1, <2>2, <2>4 DEF Story
  <2>7. \A i \in 1..Len(notifications) :
          told'[notifications[i].gen] < Rank(notifications[i])
    BY <1>1, <2>2, <2>4 DEF Story
  <2>8. Story'
    BY <1>1, <2>1, <2>5, <2>6, <2>7 DEF Story
  <2>9. told[n.gen] \in Int /\ Rank(n) \in Int
    BY <1>1, <2>3
  <2> QED
    BY <2>2, <2>4, <2>8, <2>9
<1>4. CASE DispatchEnds
  <2>1. /\ dispatcher.at = "wait" /\ dispatcher' = [dispatcher EXCEPT !.at = "done"]
        /\ UNCHANGED <<told, notifications>>
    BY <1>4 DEF DispatchEnds
  <2>2. dispatcher'.at = "done"
    BY <2>1 DEF IInv, Ending
  <2>3. Story'
    BY <1>1, <2>1, <2>2 DEF Story
  <2> QED
    BY <2>1, <2>3
<1> QED
  BY <1>2, <1>3, <1>4 DEF Dispatching

\* Startup workers tell Started only of an entry that nobody stopped.
LEMMA StartupTells ==
    ASSUME IInv, Story, NEW w \in Workers, Startup(w)
    PROVE  Story' /\ UNCHANGED told
<1> DEFINE g == worker[w].gen
           e == entry[g]
<1>1. /\ DOMAIN entry = Admitted /\ Admitted \subseteq Generations
      /\ UNCHANGED <<generation, told, dispatcher>>
      /\ \A h \in Admitted : entry[h] \in EntryRecord
  BY Registered
     DEF IInv, Startup, TakeReservation, WorkerDone, FactoryThrows, Install, StartSession,
         StartReturns, Catch, Report
<1>2. worker[w].at \in Busy =>
         /\ g \in Admitted /\ e \in EntryRecord /\ EntryOK(e)
         /\ e.phase \in {"Starting", "StopRequested"} /\ ~e.startup_done
  BY <1>1 DEF IInv, Held, Entries
<1>3. CASE UNCHANGED <<entry, notifications>>
  BY <1>1, <1>3, StillTold
<1>4. CASE TakeReservation(w)
  <2>1. PICK h \in pending :
           entry' = IF ~entry[h].stop_requested THEN [entry EXCEPT ![h].phase = "Starting"]
                    ELSE entry
    BY <1>4 DEF TakeReservation
  <2>2. h \in Admitted /\ entry[h].phase = "Reserved" /\ UNCHANGED notifications
    BY <1>4, <2>1 DEF IInv, Queued, TakeReservation
  <2>3. CASE entry' = [entry EXCEPT ![h].phase = "Starting"]
    <3> DEFINE f == [entry[h] EXCEPT !.phase = "Starting"]
    <3>1. entry' = [entry EXCEPT ![h] = f]
      BY <2>3
    <3>2. /\ f.phase = "Starting" /\ f.retired = entry[h].retired
          /\ f.stop_requested = entry[h].stop_requested
      BY <1>1, <2>2 DEF EntryRecord
    <3> HIDE DEF f
    <3> QED
      BY <1>1, <2>2, <3>1, <3>2, QuietStep
  <2> QED
    BY <1>3, <2>1, <2>2, <2>3
<1>5. ASSUME NEW l, worker[w].at \in Busy, entry' = [entry EXCEPT ![g].life = l],
             UNCHANGED notifications
      PROVE  Story'
  <2> DEFINE f == [e EXCEPT !.life = l]
  <2>1. entry' = [entry EXCEPT ![g] = f] /\ g \in Admitted
    BY <1>2, <1>5
  <2>2. f.phase = e.phase /\ f.retired = e.retired /\ f.stop_requested = e.stop_requested
    BY <1>2, <1>5 DEF EntryRecord
  <2> HIDE DEF f
  <2> QED
    BY <1>1, <1>5, <2>1, <2>2, QuietStep
<1>6. CASE Install(w)
  <2> DEFINE l == IF Starts(e) THEN "Created" ELSE "Stopping"
  <2>1. /\ worker[w].at \in Busy /\ entry' = [entry EXCEPT ![g].life = l]
        /\ UNCHANGED notifications
    BY <1>6 DEF Install, Busy
  <2> QED
    BY <1>1, <1>5, <2>1
<1>7. CASE StartSession(w)
  <2>1. worker[w].at \in Busy /\ UNCHANGED notifications
    BY <1>7 DEF StartSession, Busy
  <2>2. CASE entry' = [entry EXCEPT ![g].life = "Starting"]
    BY <1>1, <1>5, <2>1, <2>2
  <2> QED
    BY <1>1, <1>3, <1>7, <2>1, <2>2 DEF StartSession
<1>8. CASE Report(w)
  <2> DEFINE s == IF worker[w].failed THEN Stopped(e, "StartupFailed") ELSE e
             f == Reported(e, worker[w].failed)
  <2>1. /\ worker[w].at = "report" /\ entry' = [entry EXCEPT ![g] = f]
        /\ Publish(IF f.phase = "Running" THEN <<Note("Started", g)>>
                   ELSE IF First(e) THEN <<Note("StopRequested", g)>> ELSE <<>>)
    BY <1>8 DEF Report
  <2>2. /\ g \in Admitted /\ e \in EntryRecord /\ EntryOK(e)
        /\ e.phase \in {"Starting", "StopRequested"} /\ ~e.startup_done
    BY <1>2, <2>1 DEF Busy
  <2>3. s \in EntryRecord /\ EntryOK(s) /\ Level(e) <= Level(s) /\ Onward(e, s)
    <3>1. "StartupFailed" \in Outcomes \ {"None", "UnexpectedStop"}
      BY DEF Outcomes, Fatal
    <3>2. Level(e) <= Level(e) /\ Onward(e, e)
      BY LevelType DEF Onward
    <3> QED
      BY <2>2, <3>1, <3>2, StopKeeps, StopRises DEF Outer
  <2>4. /\ e.retired = "unset" /\ s.retired = "unset" /\ ~s.startup_done /\ s.phase # "Running"
    <3>1. e.retired = "unset" /\ s.retired = e.retired /\ s.startup_done = e.startup_done
      BY <2>2, <2>3 DEF Onward, EntryOK, TicketsOf
    <3> QED
      BY <2>2, <2>3, <3>1 DEF EntryOK, StartupOf
  <2>5. First(e) /\ s.stop_requested => Level(e) < 3
    BY <2>4 DEF First, Level
  <2>6. First(e) <=> ~e.stop_requested
    BY <2>2 DEF First
  <2>7. ~s.stop_requested => ~e.stop_requested
    BY <2>3 DEF Onward
  <2>8. /\ f.retired = "unset" /\ f.stop_requested = s.stop_requested
        /\ ~s.stop_requested => f.phase = "Running"
        /\ s.stop_requested => f.phase = s.phase
    <3> HIDE DEF s
    <3> DEFINE t == [s EXCEPT !.startup_done = TRUE]
    <3>1. f = IF Opens(t)
              THEN [t EXCEPT !.phase = "Running", !.started = Kept(@, "Started")]
              ELSE [t EXCEPT !.started = Kept(@, t.outcome)]
      BY DEF Reported, s
    <3>2. Opens(t) <=> ~s.stop_requested
      BY <2>3 DEF Opens, EntryRecord
    <3> QED
      BY <2>3, <2>4, <3>1, <3>2 DEF EntryRecord
  <2>9. Note("Started", g) \in Notes /\ Note("StopRequested", g) \in Notes
    BY <1>1, <2>2 DEF Note, Notes
  <2>10. /\ Rank(Note("Started", g)) = 2 /\ Note("Started", g).gen = g
         /\ Rank(Note("StopRequested", g)) = 3 /\ Note("StopRequested", g).gen = g
    BY <2>9, Ranks DEF Note
  <2> HIDE DEF s, f, e
  <2>11. CASE ~s.stop_requested
    <3>1. Level(e) = 1 /\ Level(f) = 2
      BY <2>2, <2>4, <2>7, <2>8, <2>11 DEF Level
    <3>2. Publish(<<Note("Started", g)>>)
      BY <2>1, <2>8, <2>11
    <3> DEFINE n == Note("Started", g)
    <3>3. n \in Notes /\ n.gen = g /\ Level(e) < Rank(n) /\ Rank(n) <= Level(f)
      BY <2>9, <2>10, <3>1
    <3>4. Level(e) <= Level(f)
      BY <3>1
    <3> HIDE DEF n
    <3>5. \E m \in Notes : /\ m.gen = g /\ Level(e) < Rank(m) /\ Rank(m) <= Level(f)
                           /\ Publish(<<m>>)
      BY <3>2, <3>3 DEF n
    <3> QED
      BY <1>1, <2>1, <2>2, <3>4, <3>5, OneTells DEF e
  <2>12. CASE s.stop_requested
    <3>1. Level(f) = 3 /\ Level(e) <= 3 /\ f.phase # "Running"
      BY <2>4, <2>8, <2>12 DEF Level
    <3>2. CASE First(e)
      <4>1. Publish(<<Note("StopRequested", g)>>) /\ Level(e) < 3
        BY <2>1, <2>5, <2>12, <3>1, <3>2
      <4> DEFINE n == Note("StopRequested", g)
      <4>2. n \in Notes /\ n.gen = g /\ Level(e) < Rank(n) /\ Rank(n) <= Level(f)
        BY <2>9, <2>10, <3>1, <4>1
      <4> HIDE DEF n
      <4>3. \E m \in Notes : /\ m.gen = g /\ Level(e) < Rank(m) /\ Rank(m) <= Level(f)
                             /\ Publish(<<m>>)
        BY <4>1, <4>2 DEF n
      <4>4. Level(e) <= Level(f)
        BY <3>1
      <4> QED
        BY <1>1, <2>1, <2>2, <4>3, <4>4, OneTells DEF e
    <3>3. CASE ~First(e)
      <4>1. Publish(<<>>)
        BY <2>1, <3>1, <3>3
      <4> QED
        BY <1>1, <2>1, <2>2, <3>1, <4>1, OneTells DEF e
    <3> QED
      BY <3>2, <3>3
  <2> QED
    BY <1>1, <2>11, <2>12
<1>9. CASE WorkerDone(w) \/ FactoryThrows(w) \/ StartReturns(w) \/ Catch(w)
  BY <1>1, <1>3, <1>9 DEF WorkerDone, FactoryThrows, StartReturns, Catch
<1> QED
  BY <1>1, <1>4, <1>6, <1>7, <1>8, <1>9 DEF Startup

LEMMA SessionsTell ==
    ASSUME IInv, Story, NEW g \in DOMAIN entry, Sessions(g)
    PROVE  Story' /\ UNCHANGED told
<1> DEFINE e == entry[g]
<1>1. /\ g \in Admitted /\ e \in EntryRecord
      /\ UNCHANGED <<generation, told, dispatcher, notifications>>
  BY DEF IInv, Entries, Sessions, EngineBegins, EngineOpens, EngineThrows, EngineStops,
         SessionEnds, ObserversDrain, Session
<1>2. ASSUME NEW f, Session(g, f), f.phase = e.phase, f.retired = e.retired,
             f.stop_requested = e.stop_requested
      PROVE  Story'
  BY <1>1, <1>2, QuietStep DEF Session
<1>3. CASE EngineBegins(g)
  <2> DEFINE f == [e EXCEPT !.dirty = TRUE]
  <2>1. f.phase = e.phase /\ f.retired = e.retired /\ f.stop_requested = e.stop_requested
    BY <1>1 DEF EntryRecord
  <2> QED
    BY <1>1, <1>2, <1>3, <2>1 DEF EngineBegins
<1>4. CASE EngineOpens(g)
  <2> DEFINE f == [e EXCEPT !.life = "Running"]
  <2>1. f.phase = e.phase /\ f.retired = e.retired /\ f.stop_requested = e.stop_requested
    BY <1>1 DEF EntryRecord
  <2> QED
    BY <1>1, <1>2, <1>4, <2>1 DEF EngineOpens
<1>5. CASE EngineThrows(g)
  <2> DEFINE f == [e EXCEPT !.life = "Stopping", !.broken = TRUE]
  <2>1. f.phase = e.phase /\ f.retired = e.retired /\ f.stop_requested = e.stop_requested
    BY <1>1 DEF EntryRecord
  <2> QED
    BY <1>1, <1>2, <1>5, <2>1 DEF EngineThrows
<1>6. CASE EngineStops(g)
  <2>1. PICK throws \in BOOLEAN :
           Session(g, [e EXCEPT !.dirty = FALSE, !.broken = @ \/ throws])
    BY <1>6 DEF EngineStops
  <2> DEFINE f == [e EXCEPT !.dirty = FALSE, !.broken = @ \/ throws]
  <2>2. f.phase = e.phase /\ f.retired = e.retired /\ f.stop_requested = e.stop_requested
    BY <1>1 DEF EntryRecord
  <2> QED
    BY <1>1, <1>2, <2>1, <2>2
<1>7. CASE SessionEnds(g)
  <2> DEFINE l == IF e.broken THEN "Failed" ELSE "Stopped"
             f == [e EXCEPT !.life = l, !.observing = TRUE]
  <2>1. f.phase = e.phase /\ f.retired = e.retired /\ f.stop_requested = e.stop_requested
    BY <1>1 DEF EntryRecord
  <2> QED
    BY <1>1, <1>2, <1>7, <2>1 DEF SessionEnds
<1>8. CASE ObserversDrain(g)
  <2> DEFINE f == [e EXCEPT !.observing = FALSE]
  <2>1. f.phase = e.phase /\ f.retired = e.retired /\ f.stop_requested = e.stop_requested
    BY <1>1 DEF EntryRecord
  <2> QED
    BY <1>1, <1>2, <1>8, <2>1 DEF ObserversDrain
<1> QED
  BY <1>1, <1>3, <1>4, <1>5, <1>6, <1>7, <1>8 DEF Sessions

\* The supervisor tells Retired last.
LEMMA SuperviseTells ==
    ASSUME IInv, Story, Supervise
    PROVE  Story' /\ UNCHANGED told
<1> DEFINE g == supervisor.gen
           e == entry[g]
<1>1. /\ UNCHANGED <<generation, told, dispatcher>> /\ Admitted \subseteq Generations
      /\ registry \subseteq Admitted
  BY Registered
     DEF IInv, Supervise, Scan, ScanEnds, Look, Judge, Flush, Claim, Destroy, Erase
<1>2. supervisor.at \in OnEntry =>
         /\ g \in registry /\ g \in Admitted /\ e \in EntryRecord /\ EntryOK(e)
         /\ e.retired = "unset"
         /\ supervisor.at \in {"claim", "destroy", "erase"} =>
               e.stop_requested /\ e.phase # "Running"
  <2> SUFFICES ASSUME supervisor.at \in OnEntry
               PROVE  /\ g \in registry /\ g \in Admitted /\ e \in EntryRecord /\ EntryOK(e)
                      /\ e.retired = "unset"
                      /\ supervisor.at \in {"claim", "destroy", "erase"} =>
                            e.stop_requested /\ e.phase # "Running"
    OBVIOUS
  <2>1. /\ g \in registry /\ g \in Admitted /\ e \in EntryRecord /\ EntryOK(e)
        /\ e.retired = "unset"
    BY <1>1 DEF IInv, Supervised, Members, Entries
  <2>2. supervisor.at \in {"claim", "destroy", "erase"} => e.stop_requested
    BY <2>1 DEF IInv, Supervised, EntryOK, StopToldTo
  <2> QED
    BY <2>1, <2>2 DEF EntryOK, StopToldTo
<1>3. CASE UNCHANGED <<entry, notifications>>
  BY <1>1, <1>3, StillTold
<1>4. CASE Judge
  <2>1. UNCHANGED registry /\ {g} \in SUBSET registry
    BY <1>2, <1>4 DEF Judge, OnEntry
  <2>2. ASSUME NEW r, StopEntries({g}, r) PROVE Story'
    BY <1>1, <2>1, <2>2, StopsTell
  <2> QED
    BY <1>1, <1>3, <1>4, <2>2 DEF Judge
<1>5. ASSUME NEW p \in {"Retiring", "Released"}, supervisor.at \in {"claim", "destroy"},
             entry' = [entry EXCEPT ![g].phase = p], UNCHANGED notifications
      PROVE  Story'
  <2> DEFINE f == [e EXCEPT !.phase = p]
  <2>1. entry' = [entry EXCEPT ![g] = f] /\ g \in Admitted /\ e.phase # "Running"
    BY <1>2, <1>5 DEF OnEntry
  <2>2. f.phase = p /\ f.retired = e.retired /\ f.stop_requested = e.stop_requested
    BY <1>2, <1>5 DEF EntryRecord, OnEntry
  <2> HIDE DEF f
  <2> QED
    BY <1>1, <1>5, <2>1, <2>2, QuietStep
<1>6. CASE Claim
  <2>1. supervisor.at = "claim" /\ UNCHANGED notifications
    BY <1>6 DEF Claim
  <2>2. CASE entry' = [entry EXCEPT ![g].phase = "Retiring"]
    BY <1>1, <1>5, <2>1, <2>2
  <2> QED
    BY <1>1, <1>3, <1>6, <2>1, <2>2 DEF Claim
<1>7. CASE Destroy
  <2>1. /\ supervisor.at = "destroy" /\ UNCHANGED notifications
        /\ entry' = [entry EXCEPT ![g].phase = "Released"]
    BY <1>7 DEF Destroy
  <2> QED
    BY <1>1, <1>5, <2>1
<1>8. CASE Erase
  <2> DEFINE s == IF OwesStarted(e) THEN Kept(e.started, e.outcome) ELSE e.started
             f == [e EXCEPT !.started = s, !.retired = Kept(e.retired, e.outcome)]
             n == Note("Retired", g)
  <2>1. /\ g \in Admitted /\ e \in EntryRecord /\ EntryOK(e) /\ e.retired = "unset"
        /\ e.stop_requested /\ Publish(<<n>>)
    BY <1>2, <1>8 DEF Erase, OnEntry
  <2>2. entry' = [entry EXCEPT ![g] = f]
    BY <1>8, <2>1 DEF Erase, IInv, Entries
  <2>3. f.retired = e.outcome /\ e.outcome # "unset"
    BY <2>1 DEF EntryRecord, Kept, Outcomes, Fatal
  <2>4. n \in Notes /\ n.gen = g /\ n.type = "Retired"
    BY <1>1, <2>1 DEF Note, Notes
  <2> HIDE DEF f, n
  <2>5. Level(e) = 3 /\ Level(f) = 4 /\ Rank(n) = 4
    BY <2>1, <2>3, <2>4, Ranks DEF Level
  <2>6. /\ Level(e) <= Level(f)
        /\ \E m \in Notes : /\ m.gen = g /\ Level(e) < Rank(m) /\ Rank(m) <= Level(f)
                            /\ Publish(<<m>>)
    <3>1. Level(e) <= Level(f) /\ Level(e) < Rank(n) /\ Rank(n) <= Level(f)
      BY <2>5
    <3> QED
      BY <2>1, <2>4, <3>1
  <2> QED
    BY <1>1, <2>1, <2>2, <2>6, OneTells
<1>9. CASE Scan \/ ScanEnds \/ Flush \/ \E h \in supervisor.left : Look(h)
  BY <1>1, <1>3, <1>9 DEF Scan, ScanEnds, Flush, Look
<1> QED
  BY <1>1, <1>4, <1>6, <1>7, <1>8, <1>9 DEF Supervise

LEMMA CallingTells ==
    ASSUME IInv, Story, NEW c \in Callers, Calling(c)
    PROVE  Story' /\ UNCHANGED told
<1>1. UNCHANGED <<registry, generation, told, dispatcher>>
  BY DEF Calling, Enter, Bypass, EngineReturns, ReportEngineFailure, EndLease
<1>2. CASE Enter(c) \/ Bypass(c) \/ EngineReturns(c, "ending") \/ EngineReturns(c, "threw")
  BY <1>1, <1>2, StillTold DEF Enter, Bypass, EngineReturns
<1>3. CASE ReportEngineFailure(c)
  <2> DEFINE gs == {caller[c].gen} \intersect registry
  <2>1. StopEntries(gs, "EngineFailure") /\ gs \in SUBSET registry
    BY <1>3 DEF ReportEngineFailure
  <2> HIDE DEF gs
  <2> QED
    BY <1>1, <2>1, StopsTell
<1>4. CASE EndLease(c)
  <2> DEFINE h == caller[c].gen
             f == [entry[h] EXCEPT !.operations = @ - 1]
  <2>1. /\ h \in Admitted /\ entry[h] \in EntryRecord /\ entry' = [entry EXCEPT ![h] = f]
        /\ UNCHANGED notifications
    BY <1>4 DEF EndLease, IInv, Leased, Entries
  <2>2. /\ f.phase = entry[h].phase /\ f.retired = entry[h].retired
        /\ f.stop_requested = entry[h].stop_requested
    BY <2>1 DEF EntryRecord
  <2> HIDE DEF f
  <2> QED
    BY <1>1, <2>1, <2>2, QuietStep
<1> QED
  BY <1>1, <1>2, <1>3, <1>4 DEF Calling

LEMMA ApplicationTells ==
    ASSUME IInv, Story, Application
    PROVE  Story' /\ UNCHANGED told
<1>1. UNCHANGED <<told, dispatcher>>
  BY DEF Application, Add, Remove, RequestShutdown, Lease
<1>2. ASSUME NEW i \in Ids, Add(i) PROVE Story'
  <2> DEFINE g == generation
             n == Note("Reserved", g)
  <2>1. /\ Lane /\ Admitted \subseteq Generations /\ DOMAIN entry = Admitted
        /\ generation \in Nat \ {0} /\ g \in Generations /\ g \notin Admitted
    BY <1>2, Registered DEF IInv, Add, Admitted
  <2>2. Admitted' = Admitted \union {g}
    BY <1>2, <2>1 DEF Add, Admitted
  <2>3. /\ entry'[g] = NewEntry(i) /\ Publish(<<n>>)
        /\ \A h \in Admitted : entry'[h] = entry[h]
    BY <1>2, <2>1 DEF Add
  <2>4. Rises
    <3> SUFFICES ASSUME NEW h \in Admitted PROVE Level(entry[h]) <= Level(entry'[h])
      BY <2>2 DEF Rises
    <3>1. Level(entry[h]) \in 1..4
      BY LevelType
    <3> QED
      BY <2>3, <3>1
  <2>5. n \in Notes /\ n.gen = g /\ n.type = "Reserved"
    BY <2>1 DEF Note, Notes
  <2> HIDE DEF n, g
  <2>6. Level(entry'[g]) = 1 /\ Rank(n) = 1
    BY <2>3, <2>5, Ranks DEF Level, NewEntry
  <2>7. /\ <<n>> \in Seq(Notes) /\ Len(<<n>>) = 1 /\ <<n>>[1] = n
        /\ \A k \in 1..1 : k = 1
    BY <2>5
  <2>8. Due(<<n>>)
    BY <2>1, <2>2, <2>5, <2>6, <2>7 DEF Due
  <2>9. Admitted' \subseteq Generations
    BY <2>1, <2>2
  <2> QED
    BY <1>1, <2>1, <2>3, <2>4, <2>8, <2>9, PublishTells
<1>3. ASSUME NEW g \in registry, Remove(g, "Removed") \/ Remove(g, "ReportedFailure")
      PROVE  Story'
  <2>1. {g} \in SUBSET registry /\ UNCHANGED <<registry, generation>>
    BY <1>3 DEF Remove
  <2>2. StopEntries({g}, "Removed") \/ StopEntries({g}, "ReportedFailure")
    BY <1>3 DEF Remove
  <2> QED
    BY <1>1, <2>1, <2>2, StopsTell
<1>4. CASE RequestShutdown
  <2>1. /\ registry \in SUBSET registry /\ UNCHANGED <<registry, generation>>
        /\ StopEntries(registry, "RuntimeShutdown")
    BY <1>4 DEF RequestShutdown
  <2> QED
    BY <1>1, <2>1, StopsTell
<1>5. ASSUME NEW c \in Callers, NEW h \in registry, Lease(c, h) PROVE Story'
  <2> DEFINE f == [entry[h] EXCEPT !.operations = @ + 1]
  <2>1. /\ h \in Admitted /\ entry[h] \in EntryRecord /\ entry' = [entry EXCEPT ![h] = f]
        /\ UNCHANGED <<generation, notifications>>
    BY <1>5 DEF Lease, IInv, Members, Entries
  <2>2. /\ f.phase = entry[h].phase /\ f.retired = entry[h].retired
        /\ f.stop_requested = entry[h].stop_requested
    BY <2>1 DEF EntryRecord
  <2> HIDE DEF f
  <2> QED
    BY <1>1, <2>1, <2>2, QuietStep
<1> QED
  BY <1>1, <1>2, <1>3, <1>4, <1>5 DEF Application

Forward == \A g \in Generations : told'[g] # told[g] => told'[g] > told[g]

LEMMA StepTells == IInv /\ Story /\ [Next]_vars => Story' /\ Forward
<1> SUFFICES ASSUME IInv, Story, [Next]_vars PROVE Story' /\ Forward
  OBVIOUS
<1>1. told' = told => Forward
  BY DEF Forward
<1>2. CASE Dispatching
  BY <1>2, DispatchingTells DEF Forward
<1>3. CASE Over \/ UNCHANGED vars
  BY <1>1, <1>3, StillTold DEF Over, vars
<1>4. CASE Application
  BY <1>1, <1>4, ApplicationTells
<1>5. ASSUME NEW w \in Workers, Startup(w) PROVE Story' /\ Forward
  BY <1>1, <1>5, StartupTells
<1>6. ASSUME NEW g \in DOMAIN entry, Sessions(g) PROVE Story' /\ Forward
  BY <1>1, <1>6, SessionsTell
<1>7. CASE Supervise
  BY <1>1, <1>7, SuperviseTells
<1>8. ASSUME NEW c \in Callers, Calling(c) PROVE Story' /\ Forward
  BY <1>1, <1>8, CallingTells
<1> QED
  BY <1>2, <1>3, <1>4, <1>5, <1>6, <1>7, <1>8 DEF Next

\* Although publishers, drops at the limit and the dispatcher interleave, the observer
\* hears of each session in the order Reserved, Started, StopRequested, Retired.
THEOREM StoryMovesForward == Spec => StoryForward
<1>1. Init => Story
  <2> SUFFICES ASSUME Init PROVE Story
    OBVIOUS
  <2>1. /\ told \in [Generations -> 0..4] /\ \A g \in Generations : told[g] = 0
        /\ Admitted = {} /\ Len(notifications) = 0 /\ dispatcher.at = "wait"
    BY DEF Init, Admitted
  <2> QED
    BY <2>1 DEF Story
<1>2. Spec => [](IInv /\ Story) /\ [][Forward]_vars
  BY <1>1, InitHolds, StepKeeps, StepTells, PTL DEF Spec
<1>3. [][Forward]_vars => StoryForward
  BY DEF StoryForward, Forward
<1> QED
  BY <1>2, <1>3

=============================================================================
