------------------------- MODULE EventDeliveryProofs -------------------------
(***************************************************************************)
(* Theorems about the two parts that bring an event to its observers: the  *)
(* timeline, for any capacity of the journal and of the notification queue,*)
(* any number of flushing threads and of appends; and the bus on which its *)
(* dispatcher delivers, for any finite set of threads and any number of    *)
(* subscriptions, events and nested publications.                          *)
(***************************************************************************)
EXTENDS EventTimeline, EventBus, FiniteSetTheorems, FunctionTheorems, SequenceTheorems,
        TLAPS

-----------------------------------------------------------------------------
(***************************************************************************)
(* The timeline: the inductive invariant.  The observers' stream           *)
(* (delivered, in flight, pending) only ever grows at its end, by the      *)
(* newest admitted event; what flush() waits for is a prefix of it.        *)
(***************************************************************************)

\* The counters that flush() compares, and the dispatcher, as seen in the stream.
LanePlaced ==
    /\ dispatcher = "deliver" <=> inflight # 0
    /\ dispatcher = "gone" => closed /\ pending = <<>>
    /\ owner = "joined" => dispatcher = "gone"
    /\ completed + (IF dispatcher = "count" THEN 1 ELSE 0) = Len(delivered)
    /\ enqueued = Len(Stream)
    /\ enqueued + dropped_notifications = accepted

StreamBounded == \A i \in 1..Len(Stream) : Stream[i] <= accepted

\* What was undelivered when flush() began lies before its target.
FlushWaits ==
    \A f \in Flushers : flusher[f] # "idle" =>
        /\ target[f] <= Len(Stream)
        /\ \A n \in outstanding[f] : \E i \in 1..target[f] : Stream[i] = n

IInv == /\ TypeOK /\ LanePlaced /\ StreamBounded /\ DeliveryOrdered /\ GapsReported
        /\ JournalWindow /\ FlushWaits /\ FlushSound

-----------------------------------------------------------------------------
(* The stream as a sequence.                                               *)

LEMMA AppendElements ==
  ASSUME NEW S, NEW q \in Seq(S), NEW e \in S
  PROVE  Elements(Append(q, e)) = Elements(q) \union {e}
  BY DEF Elements

LEMMA ConcatShape ==
  ASSUME NEW S, NEW p \in Seq(S), NEW q \in Seq(S)
  PROVE  /\ p \o q \in Seq(S)
         /\ Len(p) \in Nat /\ Len(q) \in Nat /\ Len(p \o q) = Len(p) + Len(q)
         /\ \A i \in 1..Len(p) : (p \o q)[i] = p[i]
         /\ \A i \in 1..Len(q) : (p \o q)[Len(p) + i] = q[i]
  OBVIOUS

LEMMA ConcatElements ==
  ASSUME NEW S, NEW p \in Seq(S), NEW q \in Seq(S)
  PROVE  Elements(p \o q) = Elements(p) \union Elements(q)
<1>1. /\ Len(p) \in Nat /\ Len(q) \in Nat /\ Len(p \o q) = Len(p) + Len(q)
      /\ \A i \in 1..Len(p) : (p \o q)[i] = p[i]
      /\ \A i \in 1..Len(q) : (p \o q)[Len(p) + i] = q[i]
  BY ConcatShape
<1>2. ASSUME NEW i \in 1..Len(p \o q)  PROVE  (p \o q)[i] \in Elements(p) \union Elements(q)
  <2>1. i \in 1..Len(p) \/ i - Len(p) \in 1..Len(q)
    BY <1>1
  <2>2. i - Len(p) \in 1..Len(q) => (p \o q)[i] = q[i - Len(p)]
    OBVIOUS
  <2> QED
    BY <1>1, <2>1, <2>2 DEF Elements
<1>3. ASSUME NEW i \in 1..Len(p)  PROVE  p[i] \in Elements(p \o q)
  BY <1>1 DEF Elements
<1>4. ASSUME NEW i \in 1..Len(q)  PROVE  q[i] \in Elements(p \o q)
  <2>1. Len(p) + i \in 1..Len(p \o q)
    BY <1>1
  <2> QED
    BY <1>1, <2>1 DEF Elements
<1> QED
  BY <1>2, <1>3, <1>4 DEF Elements

Flying(x) == IF x = 0 THEN <<>> ELSE <<x>>
Line(d, x, p) == d \o Flying(x) \o p

LEMMA StreamIsLine == Stream = Line(delivered, inflight, pending)
  BY DEF Stream, Line, Flying

LEMMA FlyingType ==
  ASSUME NEW S, NEW x, x = 0 \/ x \in S
  PROVE  /\ Flying(x) \in Seq(S)
         /\ Len(Flying(x)) = IF x = 0 THEN 0 ELSE 1
         /\ x # 0 => Flying(x)[1] = x
<1>1. CASE x = 0
  BY <1>1 DEF Flying
<1>2. CASE x # 0
  BY <1>2 DEF Flying
<1> QED
  BY <1>1, <1>2

LEMMA LineShape ==
  ASSUME NEW S, NEW d \in Seq(S), NEW x, NEW p \in Seq(S), x = 0 \/ x \in S
  PROVE  /\ Line(d, x, p) \in Seq(S)
         /\ Len(Line(d, x, p)) = Len(d) + (IF x = 0 THEN 0 ELSE 1) + Len(p)
         /\ Len(d) \in Nat /\ Len(p) \in Nat
         /\ \A i \in 1..Len(d) : Line(d, x, p)[i] = d[i]
         /\ Elements(Line(d, x, p)) =
               Elements(d) \union (IF x = 0 THEN {} ELSE {x}) \union Elements(p)
<1> DEFINE b == Flying(x)
           ab == d \o b
<1>1. /\ b \in Seq(S) /\ Len(b) = IF x = 0 THEN 0 ELSE 1
      /\ x # 0 => b[1] = x
  BY FlyingType
<1>2. Len(d) \in Nat /\ Len(p) \in Nat
  OBVIOUS
<1> HIDE DEF b
<1>3. /\ ab \in Seq(S) /\ Len(ab) = Len(d) + Len(b)
      /\ \A i \in 1..Len(d) : ab[i] = d[i]
  BY <1>1, ConcatShape
<1>4. Elements(ab) = Elements(d) \union Elements(b)
  BY <1>1, ConcatElements
<1> HIDE DEF ab
<1>5. /\ ab \o p \in Seq(S) /\ Len(ab \o p) = Len(ab) + Len(p)
      /\ \A i \in 1..Len(ab) : (ab \o p)[i] = ab[i]
  BY <1>3, ConcatShape
<1>6. Elements(ab \o p) = Elements(ab) \union Elements(p)
  BY <1>3, ConcatElements
<1>7. Elements(b) = IF x = 0 THEN {} ELSE {x}
  BY <1>1 DEF Elements
<1>8. Line(d, x, p) = ab \o p
  BY DEF Line, ab, b
<1>9. \A i \in 1..Len(d) : i \in 1..Len(ab)
  BY <1>1, <1>2, <1>3
<1> QED
  BY <1>1, <1>2, <1>3, <1>4, <1>5, <1>6, <1>7, <1>8, <1>9

\* Taking a notification and delivering it move it along: the line stays.
LEMMA LineTake ==
  ASSUME NEW S, NEW d \in Seq(S), NEW p \in Seq(S), p # <<>>, 0 \notin S
  PROVE  Line(d, Head(p), Tail(p)) = Line(d, 0, p)
<1>1. Head(p) \in S /\ Tail(p) \in Seq(S) /\ <<Head(p)>> \in Seq(S)
  BY HeadTailProperties
<1>2. <<Head(p)>> \o Tail(p) = p
  <2>1. Len(<<Head(p)>> \o Tail(p)) = Len(p) /\ <<Head(p)>> \o Tail(p) \in Seq(S)
    BY <1>1, ConcatProperties, HeadTailProperties
  <2>2. \A i \in 1..Len(p) : (<<Head(p)>> \o Tail(p))[i] = p[i]
    BY <1>1
  <2> QED
    BY <2>1, <2>2, SeqEqual
<1>3. Line(d, Head(p), Tail(p)) = d \o <<Head(p)>> \o Tail(p)
  BY <1>1 DEF Line, Flying
<1>4. d \o <<Head(p)>> \o Tail(p) = d \o p
  BY <1>1, <1>2, ConcatAssociative
<1>5. Line(d, 0, p) = d \o p
  BY ConcatEmptySeq DEF Line, Flying
<1> QED
  BY <1>3, <1>4, <1>5

LEMMA LineDeliver ==
  ASSUME NEW S, NEW d \in Seq(S), NEW p \in Seq(S), NEW x \in S, 0 \notin S
  PROVE  Line(Append(d, x), 0, p) = Line(d, x, p)
<1>1. Append(d, x) = d \o <<x>> /\ Append(d, x) \in Seq(S)
  BY AppendIsConcat, AppendProperties
<1>2. Line(Append(d, x), 0, p) = Append(d, x) \o p
  BY <1>1, ConcatEmptySeq DEF Line, Flying
<1>3. Line(d, x, p) = d \o <<x>> \o p
  BY DEF Line, Flying
<1> QED
  BY <1>1, <1>2, <1>3

\* A notification enters at the end.
LEMMA LineNotify ==
  ASSUME NEW S, NEW d \in Seq(S), NEW p \in Seq(S), NEW x, NEW n \in S, x = 0 \/ x \in S
  PROVE  Line(d, x, Append(p, n)) = Append(Line(d, x, p), n)
<1> DEFINE ab == d \o Flying(x)
<1>1. ab \in Seq(S)
  BY FlyingType, ConcatProperties
<1>2. <<n>> \in Seq(S) /\ Append(p, n) = p \o <<n>>
  BY AppendIsConcat
<1> HIDE DEF ab
<1>3. ab \o (p \o <<n>>) = (ab \o p) \o <<n>>
  BY <1>1, <1>2, ConcatAssociative
<1>4. ab \o p \in Seq(S)
  BY <1>1, ConcatProperties
<1>5. Append(ab \o p, n) = (ab \o p) \o <<n>>
  BY <1>4, AppendIsConcat
<1> QED
  BY <1>2, <1>3, <1>5 DEF Line, ab

LEMMA StreamShape ==
  ASSUME LaneType
  PROVE  /\ Stream \in Seq(1..MaxAppends)
         /\ Len(Stream) = Len(delivered) + (IF inflight = 0 THEN 0 ELSE 1) + Len(pending)
         /\ Len(delivered) \in Nat /\ Len(pending) \in Nat
         /\ \A i \in 1..Len(delivered) : Stream[i] = delivered[i]
         /\ Elements(Stream) = Elements(delivered)
               \union (IF inflight = 0 THEN {} ELSE {inflight}) \union Elements(pending)
<1> DEFINE S == 1..MaxAppends
<1>1. delivered \in Seq(S) /\ pending \in Seq(S) /\ (inflight = 0 \/ inflight \in S)
  BY BoundAssumption DEF LaneType
<1> HIDE DEF S
<1>2. PICK d, x, p : /\ d = delivered /\ x = inflight /\ p = pending
  OBVIOUS
<1>3. d \in Seq(S) /\ p \in Seq(S) /\ (x = 0 \/ x \in S)
  BY <1>1, <1>2
<1>4. /\ Line(d, x, p) \in Seq(S)
      /\ Len(Line(d, x, p)) = Len(d) + (IF x = 0 THEN 0 ELSE 1) + Len(p)
      /\ Len(d) \in Nat /\ Len(p) \in Nat
      /\ \A i \in 1..Len(d) : Line(d, x, p)[i] = d[i]
      /\ Elements(Line(d, x, p)) =
            Elements(d) \union (IF x = 0 THEN {} ELSE {x}) \union Elements(p)
  BY <1>3, LineShape
<1>5. Stream = Line(d, x, p)
  BY <1>2, StreamIsLine
<1> QED
  BY <1>2, <1>4, <1>5, Zenon DEF S

-----------------------------------------------------------------------------
(***************************************************************************)
(* Every step leaves the stream alone, or admits one event: into the       *)
(* stream, or as a gap.                                                    *)
(***************************************************************************)

Stays == /\ Stream' = Stream
         /\ UNCHANGED <<accepted, enqueued, dropped_notifications,
                        first_dropped_sequence, last_dropped_sequence>>
Grows == /\ Stream' = Append(Stream, accepted + 1)
         /\ accepted' = accepted + 1 /\ enqueued' = enqueued + 1
         /\ UNCHANGED <<dropped_notifications, first_dropped_sequence, last_dropped_sequence>>
Loses == /\ Stream' = Stream
         /\ accepted' = accepted + 1 /\ enqueued' = enqueued
         /\ dropped_notifications' = dropped_notifications + 1
         /\ first_dropped_sequence' = FirstGap(accepted + 1)
         /\ last_dropped_sequence' = accepted + 1

LEMMA StreamMoves ==
  ASSUME IInv, Next
  PROVE  Stays \/ Grows \/ Loses
<1> USE DEF IInv, TypeOK, journal, lane, drops, waiters
<1>0. /\ delivered \in Seq(1..MaxAppends) /\ pending \in Seq(1..MaxAppends)
      /\ inflight = 0 \/ inflight \in 1..MaxAppends
      /\ Stream' = Line(delivered', inflight', pending')
      /\ 0 \notin 1..MaxAppends
  BY StreamIsLine, BoundAssumption DEF LaneType, Stream, Line, Flying
<1>1. CASE Accept
  <2>1. accepted + 1 \in 1..MaxAppends
    BY <1>1, BoundAssumption DEF Accept, JournalType
  <2>2. CASE Notify(accepted + 1)
    <3>1. /\ pending' = Append(pending, accepted + 1) /\ enqueued' = enqueued + 1
          /\ UNCHANGED <<delivered, inflight, dropped_notifications,
                         first_dropped_sequence, last_dropped_sequence>>
          /\ accepted' = accepted + 1
      BY <1>1, <2>2 DEF Accept, Notify
    <3>2. Stream' = Line(delivered, inflight, Append(pending, accepted + 1))
      BY <1>0, <3>1
    <3>3. Stream' = Append(Line(delivered, inflight, pending), accepted + 1)
      <4> DEFINE S == 1..MaxAppends
      <4>1. /\ delivered \in Seq(S) /\ pending \in Seq(S) /\ accepted + 1 \in S
            /\ inflight = 0 \/ inflight \in S
        BY <1>0, <2>1
      <4> HIDE DEF S
      <4> QED
        BY <3>2, <4>1, LineNotify
    <3> QED
      BY <3>1, <3>3, StreamIsLine DEF Grows
  <2>3. ASSUME NEW a \in BOOLEAN, Drop(accepted + 1, a)  PROVE  Loses
    BY <1>0, <1>1, <2>3, StreamIsLine DEF Accept, Drop, Loses
  <2> QED
    BY <1>1, <2>2, <2>3 DEF Accept
<1>2. CASE Take
  <2>1. inflight = 0
    BY <1>2 DEF Take, LanePlaced
  <2> QED
    BY <1>0, <1>2, <2>1, LineTake, StreamIsLine DEF Take, NextUp, Stays
<1>3. CASE Deliver
  <2>1. inflight \in 1..MaxAppends
    BY <1>0, <1>3 DEF Deliver, LanePlaced
  <2> QED
    BY <1>0, <1>3, <2>1, LineDeliver, StreamIsLine DEF Deliver, Stays
<1>4. CASE UNCHANGED <<delivered, inflight, pending, enqueued, accepted, drops>>
  BY <1>4 DEF Stream, Stays
<1> QED
  BY <1>1, <1>2, <1>3, <1>4
     DEF Next, Dispatcher, Reject, Count, DispatcherLeaves, Flush, FlushReturns,
         FlushTimesOut, Close, ShutdownBegins, ShutdownReturns

\* The stream stays ordered: what enters is newer than everything in it.
LEMMA OrderStep ==
  ASSUME IInv, Stays \/ Grows \/ Loses
  PROVE  StreamBounded' /\ DeliveryOrdered'
<1>1. accepted \in Nat /\ Stream \in Seq(1..MaxAppends) /\ Len(Stream) \in Nat
      /\ \A i \in 1..Len(Stream) : Stream[i] \in Nat
  <2>1. Stream \in Seq(1..MaxAppends)
    BY StreamShape DEF IInv, TypeOK
  <2>2. \A i \in 1..Len(Stream) : Stream[i] \in 1..MaxAppends
    BY <2>1, ElementOfSeq
  <2> QED
    BY <2>1, <2>2, LenProperties DEF IInv, TypeOK, JournalType
<1>2. CASE Stays
  BY <1>1, <1>2 DEF Stays, IInv, StreamBounded, DeliveryOrdered
<1>3. CASE Loses
  BY <1>1, <1>3 DEF Loses, IInv, StreamBounded, DeliveryOrdered
<1>4. CASE Grows
  <2>1. accepted + 1 \in Nat /\ accepted' = accepted + 1 /\ Stream' = Append(Stream, accepted + 1)
    BY <1>1, <1>4 DEF Grows
  <2>2. /\ Len(Stream') = Len(Stream) + 1
        /\ \A i \in 1..Len(Stream) : Stream'[i] = Stream[i]
        /\ Stream'[Len(Stream) + 1] = accepted + 1
    <3>1. Stream \in Seq(Nat)
      BY <1>1, SeqMonotonic
    <3> QED
      BY <2>1, <3>1, AppendProperties
  <2>3. \A i \in 1..Len(Stream) : Stream[i] <= accepted
    BY DEF IInv, StreamBounded
  <2>4. StreamBounded'
    BY <1>1, <2>1, <2>2, <2>3 DEF StreamBounded
  <2>5. ASSUME NEW i \in 1..Len(Stream'), NEW j \in 1..Len(Stream'), i < j
        PROVE  Stream'[i] < Stream'[j]
    <3>1. i \in 1..Len(Stream)
      BY <1>1, <2>2, <2>5
    <3>2. CASE j \in 1..Len(Stream)
      BY <2>2, <2>5, <3>1, <3>2 DEF IInv, DeliveryOrdered
    <3>3. CASE j = Len(Stream) + 1
      BY <1>1, <2>2, <2>3, <3>1, <3>3
    <3> QED
      BY <1>1, <2>2, <3>2, <3>3
  <2> QED
    BY <2>4, <2>5 DEF DeliveryOrdered
<1> QED
  BY <1>2, <1>3, <1>4

LEMMA ElementsBounded ==
  ASSUME IInv
  PROVE  Elements(Stream) \subseteq 1..accepted /\ accepted \in Nat
<1>1. Stream \in Seq(1..MaxAppends)
  BY StreamShape DEF IInv, TypeOK
<1>2. \A i \in 1..Len(Stream) : Stream[i] \in 1..MaxAppends /\ Stream[i] <= accepted
  BY <1>1, ElementOfSeq DEF IInv, StreamBounded
<1>3. accepted \in Nat
  BY DEF IInv, TypeOK, JournalType
<1> QED
  BY <1>2, <1>3 DEF Elements

\* The statistics follow: a gap is counted once, and is the last one so far.
LEMMA GapsStep ==
  ASSUME IInv, Stays \/ Grows \/ Loses
  PROVE  GapsReported'
<1> DEFINE n == accepted + 1
<1>1. Elements(Stream) \subseteq 1..accepted /\ accepted \in Nat
  BY ElementsBounded
<1>2. Missing \subseteq 1..accepted /\ IsFiniteSet(Missing) /\ n \notin Missing
  <2>1. Missing \subseteq 1..accepted
    BY DEF Missing
  <2>2. IsFiniteSet(1..accepted)
    BY <1>1, FS_Interval
  <2>3. n \notin 1..accepted
    BY <1>1
  <2>4. IsFiniteSet(Missing)
    BY <2>1, <2>2, FS_Subset
  <2> QED
    BY <2>1, <2>3, <2>4
<1>3. CASE Stays
  <2>1. Missing' = Missing
    BY <1>3 DEF Stays, Missing
  <2> QED
    BY <1>3, <2>1 DEF Stays, IInv, GapsReported
<1>4. CASE Grows
  <2>1. Elements(Stream') = Elements(Stream) \union {n}
    <3>1. Stream \in Seq(Nat) /\ n \in Nat
      <4> DEFINE S == 1..MaxAppends
      <4>1. Stream \in Seq(S) /\ S \subseteq Nat
        BY StreamShape, BoundAssumption DEF IInv, TypeOK
      <4>2. n \in Nat
        BY <1>1
      <4> HIDE DEF S
      <4> QED
        BY <4>1, <4>2, SeqMonotonic, Zenon
    <3> QED
      BY <1>4, <3>1, AppendElements DEF Grows
  <2>2. 1..n = (1..accepted) \union {n}
    BY <1>1
  <2>3. Missing' = Missing
    BY <1>1, <1>4, <2>1, <2>2 DEF Grows, Missing
  <2> QED
    BY <1>4, <2>3 DEF Grows, IInv, GapsReported
<1>5. CASE Loses
  <2>1. Missing' = Missing \union {n}
    <3>1. 1..n = (1..accepted) \union {n} /\ n \notin 1..accepted
      BY <1>1
    <3> QED
      BY <1>1, <1>5, <3>1 DEF Loses, Missing
  <2>2. Cardinality(Missing') = Cardinality(Missing) + 1
    BY <1>2, <2>1, FS_AddElement
  <2>3. dropped_notifications' = Cardinality(Missing')
    BY <1>5, <2>2 DEF Loses, IInv, GapsReported
  <2>4. /\ last_dropped_sequence' = n
        /\ first_dropped_sequence' = IF Missing = {} THEN n ELSE first_dropped_sequence
    BY <1>5 DEF Loses, FirstGap, IInv, GapsReported
  <2>5. /\ Missing # {} => first_dropped_sequence \in Missing
        /\ \A m \in Missing : first_dropped_sequence <= m
    BY DEF IInv, GapsReported
  <2>6. \A m \in Missing : m \in Nat /\ m < n /\ m # 0
    BY <1>1, <1>2
  <2>7. first_dropped_sequence' \in Missing' /\ first_dropped_sequence' # 0
    BY <1>1, <2>1, <2>4, <2>5, <2>6
  <2>8. \A m \in Missing' : first_dropped_sequence' <= m /\ m <= last_dropped_sequence'
    BY <1>1, <2>1, <2>4, <2>5, <2>6
  <2> QED
    BY <2>1, <2>3, <2>4, <2>7, <2>8 DEF GapsReported
<1> QED
  BY <1>3, <1>4, <1>5

-----------------------------------------------------------------------------
(* Types, one action at a time.                                            *)

LEMMA InflightRange ==
  ASSUME LaneType
  PROVE  inflight = 0 \/ inflight \in 1..MaxAppends
  BY BoundAssumption DEF LaneType

LEMMA RetainedType ==
  ASSUME NEW n \in 1..MaxAppends, events \in Seq(1..MaxAppends)
  PROVE  Retained(n) \in Seq(1..MaxAppends)
<1> DEFINE S == 1..MaxAppends
           longer == Append(events, n)
<1>1. events \in Seq(S) /\ n \in S
  OBVIOUS
<1> HIDE DEF S
<1>2. longer \in Seq(S) /\ longer # <<>>
  BY <1>1, AppendProperties
<1> HIDE DEF longer
<1>3. Tail(longer) \in Seq(S)
  BY <1>2, HeadTailProperties
<1>4. Retained(n) = IF Len(longer) > MaxEvents THEN Tail(longer) ELSE longer
  BY DEF Retained, longer
<1> QED
  BY <1>2, <1>3, <1>4 DEF S

LEMMA JournalTypeStep ==
  ASSUME IInv, Next
  PROVE  JournalType'
<1> USE DEF IInv, TypeOK, JournalType, journal, lane, drops, waiters
<1>1. ASSUME NEW status \in Statuses, Reject(status)  PROVE  JournalType'
  BY <1>1, BoundAssumption DEF Reject
<1>2. CASE Accept
  <2>1. accepted + 1 \in 1..MaxAppends /\ rejected \in Nat /\ evicted \in Nat
    BY <1>2, BoundAssumption DEF Accept
  <2>2. events' = Retained(accepted + 1)
    BY <1>2 DEF Accept
  <2>3. events' \in Seq(1..MaxAppends)
    BY <2>1, <2>2, RetainedType
  <2>4. evicted' \in Nat
    BY <2>1, <1>2 DEF Accept
  <2> QED
    BY <1>2, <2>1, <2>3, <2>4, BoundAssumption DEF Accept
<1>3. CASE Take
  BY <1>3, BoundAssumption DEF Take, NextUp
<1>4. CASE Deliver
  BY <1>4, BoundAssumption DEF Deliver
<1>5. ASSUME NEW failures \in {0, 1}, Count(failures)  PROVE  JournalType'
  BY <1>5, BoundAssumption DEF Count
<1>6. CASE DispatcherLeaves
  BY <1>6, BoundAssumption DEF DispatcherLeaves, Leaves
<1>7. ASSUME NEW f \in Flushers, Flush(f)  PROVE  JournalType'
  BY <1>7, BoundAssumption DEF Flush, FlushTarget
<1>8. ASSUME NEW f \in Flushers, FlushReturns(f)  PROVE  JournalType'
  BY <1>8, BoundAssumption DEF FlushReturns
<1>9. ASSUME NEW f \in Flushers, FlushTimesOut(f)  PROVE  JournalType'
  BY <1>9, BoundAssumption DEF FlushTimesOut
<1>10. CASE Close
  BY <1>10, BoundAssumption DEF Close
<1>11. CASE ShutdownBegins
  BY <1>11, BoundAssumption DEF ShutdownBegins
<1>12. CASE ShutdownReturns
  BY <1>12, BoundAssumption DEF ShutdownReturns
<1> QED
  BY <1>1, <1>2, <1>3, <1>4, <1>5, <1>6, <1>7, <1>8, <1>9, <1>10, <1>11, <1>12 DEF
     Next, Dispatcher

LEMMA LaneTypeStep ==
  ASSUME IInv, Next
  PROVE  LaneType'
<1> USE DEF IInv, TypeOK, LaneType, journal, lane, drops, waiters
<1>1. ASSUME NEW status \in Statuses, Reject(status)  PROVE  LaneType'
  BY <1>1 DEF Reject
<1>2. CASE Accept
  <2> DEFINE S == 1..MaxAppends
             n == accepted + 1
  <2>1. n \in S /\ pending \in Seq(S)
    BY <1>2, BoundAssumption DEF Accept, JournalType
  <2>2. Append(pending, n) \in Seq(S)
    <3> HIDE DEF S, n
    <3> QED
      BY <2>1, AppendProperties
  <2>3. /\ pending' = Append(pending, n) \/ pending' = pending
        /\ enqueued' = enqueued + 1 \/ enqueued' = enqueued
    BY <1>2 DEF Accept, Notify, Drop
  <2>4. pending' \in Seq(S)
    <3> HIDE DEF S, n
    <3> QED
      BY <2>1, <2>2, <2>3
  <2>5. enqueued' \in Nat
    BY <2>3
  <2> QED
    BY <1>2, <2>4, <2>5 DEF Accept
<1>3. CASE Take
  <2> DEFINE S == 1..MaxAppends
  <2>1. pending \in Seq(S) /\ pending # <<>> /\ inflight' = Head(pending)
        /\ pending' = Tail(pending)
    BY <1>3 DEF Take, NextUp
  <2>2. inflight' \in S /\ pending' \in Seq(S)
    <3> HIDE DEF S
    <3> QED
      BY <2>1, HeadTailProperties
  <2>3. inflight' \in 0..MaxAppends
    BY <2>2, BoundAssumption
  <2> QED
    BY <1>3, <2>2, <2>3 DEF Take
<1>4. CASE Deliver
  <2> DEFINE S == 1..MaxAppends
  <2>1. inflight \in S /\ delivered \in Seq(S) /\ delivered' = Append(delivered, inflight)
    BY <1>4, BoundAssumption DEF Deliver, LanePlaced
  <2>2. delivered' \in Seq(S)
    <3> HIDE DEF S
    <3> QED
      BY <2>1, AppendProperties
  <2>3. 0 \in 0..MaxAppends
    BY BoundAssumption
  <2> QED
    BY <1>4, <2>2, <2>3 DEF Deliver
<1>5. ASSUME NEW failures \in {0, 1}, Count(failures)  PROVE  LaneType'
  BY <1>5 DEF Count
<1>6. CASE DispatcherLeaves
  BY <1>6 DEF DispatcherLeaves, Leaves
<1>7. ASSUME NEW f \in Flushers, Flush(f)  PROVE  LaneType'
  BY <1>7 DEF Flush, FlushTarget
<1>8. ASSUME NEW f \in Flushers, FlushReturns(f)  PROVE  LaneType'
  BY <1>8 DEF FlushReturns
<1>9. ASSUME NEW f \in Flushers, FlushTimesOut(f)  PROVE  LaneType'
  BY <1>9 DEF FlushTimesOut
<1>10. CASE Close
  BY <1>10 DEF Close
<1>11. CASE ShutdownBegins
  BY <1>11 DEF ShutdownBegins
<1>12. CASE ShutdownReturns
  BY <1>12 DEF ShutdownReturns
<1> QED
  BY <1>1, <1>2, <1>3, <1>4, <1>5, <1>6, <1>7, <1>8, <1>9, <1>10, <1>11, <1>12 DEF
     Next, Dispatcher

LEMMA DropsTypeStep ==
  ASSUME IInv, Next
  PROVE  DropsType'
<1> USE DEF IInv, TypeOK, DropsType, journal, lane, drops, waiters
<1>1. ASSUME NEW status \in Statuses, Reject(status)  PROVE  DropsType'
  BY <1>1 DEF Reject
<1>2. CASE Accept
  <2>1. accepted + 1 \in 0..MaxAppends /\ Len(pending) \in Nat
    BY <1>2, BoundAssumption, LenProperties DEF Accept, JournalType, LaneType
  <2>2. CASE HasRoom /\ Notify(accepted + 1)
    BY <1>2, <2>1, <2>2, CapacityAssumption DEF Notify, HasRoom, Larger
  <2>3. ASSUME NEW a \in BOOLEAN, Drop(accepted + 1, a)  PROVE  DropsType'
    BY <1>2, <2>1, <2>3 DEF Drop, FirstGap
  <2> QED
    BY <1>2, <2>2, <2>3 DEF Accept
<1>3. CASE Take
  BY <1>3 DEF Take, NextUp
<1>4. CASE Deliver
  BY <1>4 DEF Deliver
<1>5. ASSUME NEW failures \in {0, 1}, Count(failures)  PROVE  DropsType'
  BY <1>5 DEF Count
<1>6. CASE DispatcherLeaves
  BY <1>6 DEF DispatcherLeaves, Leaves
<1>7. ASSUME NEW f \in Flushers, Flush(f)  PROVE  DropsType'
  BY <1>7 DEF Flush, FlushTarget
<1>8. ASSUME NEW f \in Flushers, FlushReturns(f)  PROVE  DropsType'
  BY <1>8 DEF FlushReturns
<1>9. ASSUME NEW f \in Flushers, FlushTimesOut(f)  PROVE  DropsType'
  BY <1>9 DEF FlushTimesOut
<1>10. CASE Close
  BY <1>10 DEF Close
<1>11. CASE ShutdownBegins
  BY <1>11 DEF ShutdownBegins
<1>12. CASE ShutdownReturns
  BY <1>12 DEF ShutdownReturns
<1> QED
  BY <1>1, <1>2, <1>3, <1>4, <1>5, <1>6, <1>7, <1>8, <1>9, <1>10, <1>11, <1>12 DEF
     Next, Dispatcher

LEMMA WaitersTypeStep ==
  ASSUME IInv, Next
  PROVE  WaitersType'
<1> USE DEF IInv, TypeOK, WaitersType, journal, lane, drops, waiters
<1>1. ASSUME NEW status \in Statuses, Reject(status)  PROVE  WaitersType'
  BY <1>1 DEF Reject
<1>2. CASE Accept
  BY <1>2 DEF Accept
<1>3. CASE Take
  BY <1>3 DEF Take, NextUp
<1>4. CASE Deliver
  BY <1>4 DEF Deliver
<1>5. ASSUME NEW failures \in {0, 1}, Count(failures)  PROVE  WaitersType'
  BY <1>5 DEF Count
<1>6. CASE DispatcherLeaves
  BY <1>6 DEF DispatcherLeaves, Leaves
<1>7. ASSUME NEW f \in Flushers, Flush(f)  PROVE  WaitersType'
  <2>1. Elements(pending) \subseteq 1..MaxAppends
    BY ElementOfSeq DEF LaneType, Elements
  <2>2. (Elements(pending) \union {inflight}) \ {0} \subseteq 1..MaxAppends
    <3>1. inflight = 0 \/ inflight \in 1..MaxAppends
      BY InflightRange
    <3> QED
      BY <2>1, <3>1
  <2>3. enqueued \in Nat
    BY DEF LaneType
  <2> QED
    BY <1>7, <2>2, <2>3 DEF Flush, FlushTarget
<1>8. ASSUME NEW f \in Flushers, FlushReturns(f)  PROVE  WaitersType'
  BY <1>8 DEF FlushReturns
<1>9. ASSUME NEW f \in Flushers, FlushTimesOut(f)  PROVE  WaitersType'
  BY <1>9 DEF FlushTimesOut
<1>10. CASE Close
  BY <1>10 DEF Close
<1>11. CASE ShutdownBegins
  BY <1>11 DEF ShutdownBegins
<1>12. CASE ShutdownReturns
  BY <1>12 DEF ShutdownReturns
<1> QED
  BY <1>1, <1>2, <1>3, <1>4, <1>5, <1>6, <1>7, <1>8, <1>9, <1>10, <1>11, <1>12 DEF
     Next, Dispatcher

-----------------------------------------------------------------------------
(* The dispatcher and the owner.                                           *)

DispatcherPlaced ==
    /\ dispatcher = "deliver" <=> inflight # 0
    /\ dispatcher = "gone" => closed /\ pending = <<>>
    /\ owner = "joined" => dispatcher = "gone"
    /\ completed + (IF dispatcher = "count" THEN 1 ELSE 0) = Len(delivered)

LEMMA DispatcherStep ==
  ASSUME DispatcherPlaced, LaneType, JournalType, Next
  PROVE  DispatcherPlaced'
<1> USE DEF DispatcherPlaced, LaneType, journal, lane, drops, waiters
<1>1. ASSUME NEW status \in Statuses, Reject(status)  PROVE  DispatcherPlaced'
  BY <1>1 DEF Reject
<1>2. CASE Accept
  <2>1. ~closed
    BY <1>2 DEF Accept
  <2> QED
    BY <1>2, <2>1 DEF Accept
<1>3. CASE Take
  <2>1. Head(pending) # 0
    <3> DEFINE S == 1..MaxAppends
    <3>1. pending \in Seq(S) /\ pending # <<>> /\ 0 \notin S
      BY <1>3 DEF Take
    <3> HIDE DEF S
    <3> QED
      BY <3>1, HeadTailProperties
  <2> QED
    BY <1>3, <2>1 DEF Take, NextUp
<1>4. CASE Deliver
  <2> DEFINE S == 1..MaxAppends
  <2>1. delivered \in Seq(S) /\ inflight \in S
    BY <1>4, BoundAssumption DEF Deliver
  <2>2. Len(delivered') = Len(delivered) + 1
    <3> HIDE DEF S
    <3> QED
      BY <1>4, <2>1, AppendProperties DEF Deliver
  <2> QED
    BY <1>4, <2>2 DEF Deliver
<1>5. ASSUME NEW failures \in {0, 1}, Count(failures)  PROVE  DispatcherPlaced'
  BY <1>5 DEF Count
<1>6. CASE DispatcherLeaves
  BY <1>6 DEF DispatcherLeaves, Leaves
<1>7. ASSUME NEW f \in Flushers, Flush(f)  PROVE  DispatcherPlaced'
  BY <1>7 DEF Flush, FlushTarget
<1>8. ASSUME NEW f \in Flushers, FlushReturns(f)  PROVE  DispatcherPlaced'
  BY <1>8 DEF FlushReturns
<1>9. ASSUME NEW f \in Flushers, FlushTimesOut(f)  PROVE  DispatcherPlaced'
  BY <1>9 DEF FlushTimesOut
<1>10. CASE Close
  BY <1>10 DEF Close
<1>11. CASE ShutdownBegins
  BY <1>11 DEF ShutdownBegins
<1>12. CASE ShutdownReturns
  BY <1>12 DEF ShutdownReturns
<1> QED
  BY <1>1, <1>2, <1>3, <1>4, <1>5, <1>6, <1>7, <1>8, <1>9, <1>10, <1>11, <1>12 DEF
     Next, Dispatcher

LEMMA LanePlacedStep ==
  ASSUME IInv, Next, Stays \/ Grows \/ Loses
  PROVE  LanePlaced'
<1>1. DispatcherPlaced'
  BY DispatcherStep DEF IInv, TypeOK, LanePlaced, DispatcherPlaced
<1>2. /\ enqueued = Len(Stream) /\ enqueued + dropped_notifications = accepted
      /\ enqueued \in Nat /\ dropped_notifications \in Nat
  BY DEF IInv, TypeOK, LaneType, DropsType, LanePlaced
<1>3. Grows => Len(Stream') = Len(Stream) + 1
  <2> DEFINE S == 1..MaxAppends
  <2>1. Stream \in Seq(S) /\ S \subseteq Nat /\ accepted + 1 \in Nat
    BY StreamShape, BoundAssumption DEF IInv, TypeOK, JournalType
  <2> HIDE DEF S
  <2>2. Stream \in Seq(Nat)
    BY <2>1, SeqMonotonic
  <2> QED
    BY <2>1, <2>2, AppendProperties DEF Grows
<1>4. /\ enqueued' = Len(Stream')
      /\ enqueued' + dropped_notifications' = accepted'
  BY <1>2, <1>3 DEF Stays, Grows, Loses
<1> QED
  BY <1>1, <1>4 DEF DispatcherPlaced, LanePlaced

-----------------------------------------------------------------------------
(* The journal.                                                            *)

\* Pushing an event, and popping the oldest one, keeps a run of consecutive numbers.
LEMMA PushedRun ==
  ASSUME NEW q \in Seq(Nat), NEW e \in Nat, \A i \in 1..Len(q) : q[i] = e + i
  PROVE  LET longer == Append(q, e + Len(q) + 1)
         IN  /\ longer \in Seq(Nat) /\ Len(longer) = Len(q) + 1 /\ Len(q) \in Nat
             /\ \A i \in 1..(Len(q) + 1) : longer[i] = e + i
<1> DEFINE n == e + Len(q) + 1
           longer == Append(q, n)
<1>1. Len(q) \in Nat /\ n \in Nat
  BY LenProperties
<1> HIDE DEF n
<1>2. /\ longer \in Seq(Nat) /\ Len(longer) = Len(q) + 1
      /\ \A i \in 1..Len(q) : longer[i] = q[i]
      /\ longer[Len(q) + 1] = n
  BY <1>1, AppendProperties
<1> HIDE DEF longer
<1>3. ASSUME NEW i \in 1..(Len(q) + 1)  PROVE longer[i] = e + i
  <2>1. CASE i \in 1..Len(q)
    BY <1>2, <2>1
  <2>2. CASE i = Len(q) + 1
    BY <1>1, <1>2, <2>2 DEF n
  <2> QED
    BY <1>1, <2>1, <2>2
<1>4. longer = Append(q, e + Len(q) + 1)
  BY DEF longer, n
<1> QED
  BY <1>1, <1>2, <1>3, <1>4

LEMMA PoppedRun ==
  ASSUME NEW q \in Seq(Nat), NEW e \in Nat, \A i \in 1..Len(q) : q[i] = e + i, Len(q) > 0
  PROVE  Len(Tail(q)) = Len(q) - 1 /\ \A i \in 1..(Len(q) - 1) : Tail(q)[i] = e + 1 + i
<1>1. Len(q) \in Nat /\ q # <<>>
  BY LenProperties
<1>2. Len(Tail(q)) = Len(q) - 1 /\ \A i \in 1..(Len(q) - 1) : Tail(q)[i] = q[i + 1]
  BY <1>1
<1>3. ASSUME NEW i \in 1..(Len(q) - 1)  PROVE Tail(q)[i] = e + 1 + i
  <2>1. i + 1 \in 1..Len(q)
    BY <1>1
  <2>2. q[i + 1] = e + (i + 1)
    BY <2>1
  <2> QED
    BY <1>2, <2>2
<1> QED
  BY <1>2, <1>3

LEMMA JournalWindowStep ==
  ASSUME IInv, Next
  PROVE  JournalWindow'
<1> USE DEF journal, lane, drops, waiters
<1>0. /\ Len(pending) <= MaxPendingNotifications /\ Len(events) <= MaxEvents
      /\ pending \in Seq(1..MaxAppends) /\ events \in Seq(1..MaxAppends)
      /\ evicted + Len(events) = accepted /\ evicted \in Nat /\ accepted \in Nat
      /\ \A i \in 1..Len(events) : events[i] = evicted + i
      /\ Len(pending) \in Nat /\ Len(events) \in Nat
  BY DEF IInv, TypeOK, JournalType, LaneType, JournalWindow
<1>1. CASE Accept
  <2> DEFINE n == accepted + 1
             longer == Append(events, n)
  <2>1. /\ events' = IF Len(longer) > MaxEvents THEN Tail(longer) ELSE longer
        /\ evicted' = evicted + (IF Len(events) = MaxEvents THEN 1 ELSE 0)
        /\ accepted' = n
    BY <1>1 DEF Accept, Retained
  <2>2. events \in Seq(Nat)
    <3> DEFINE S == 1..MaxAppends
    <3>1. events \in Seq(S) /\ S \subseteq Nat
      BY <1>0, BoundAssumption
    <3> HIDE DEF S
    <3> QED
      BY <3>1, SeqMonotonic
  <2>3. n \in Nat /\ evicted + Len(events) + 1 = n
    BY <1>0
  <2>4. /\ Len(events') <= MaxEvents /\ evicted' + Len(events') = n
        /\ \A i \in 1..Len(events') : events'[i] = evicted' + i
    <3>1. /\ longer \in Seq(Nat) /\ Len(longer) = Len(events) + 1
          /\ \A i \in 1..(Len(events) + 1) : longer[i] = evicted + i
      <4>1. longer = Append(events, evicted + Len(events) + 1)
        BY <2>3
      <4> HIDE DEF longer
      <4> QED
        BY <1>0, <2>2, <4>1, PushedRun
    <3> HIDE DEF longer, n
    <3>2. CASE Len(events) = MaxEvents
      <4>1. /\ Len(Tail(longer)) = Len(longer) - 1
            /\ \A i \in 1..(Len(longer) - 1) : Tail(longer)[i] = evicted + 1 + i
        <5>1. Len(longer) > 0 /\ \A i \in 1..Len(longer) : longer[i] = evicted + i
          BY <1>0, <3>1
        <5> QED
          BY <1>0, <3>1, <5>1, PoppedRun
      <4>2. events' = Tail(longer) /\ evicted' = evicted + 1
        BY <1>0, <2>1, <3>1, <3>2, CapacityAssumption
      <4>3. Len(events') = Len(events) /\ \A i \in 1..Len(events) : events'[i] = evicted' + i
        BY <1>0, <3>1, <4>1, <4>2
      <4>4. evicted' + Len(events') = n
        <5>1. evicted \in Nat /\ Len(events) \in Nat /\ Len(events') = Len(events)
          BY <1>0, <4>3
        <5>2. (evicted + 1) + Len(events) = n
          BY <2>3, <5>1
        <5> QED
          BY <4>2, <5>1, <5>2
      <4>5. Len(events') <= MaxEvents
        BY <1>0, <4>3
      <4> QED
        BY <4>3, <4>4, <4>5, Zenon
    <3>3. CASE Len(events) # MaxEvents
      <4>1. events' = longer /\ evicted' = evicted
        BY <1>0, <2>1, <3>1, <3>3, CapacityAssumption
      <4>2. Len(events') = Len(events) + 1 /\ \A i \in 1..Len(events') : events'[i] = evicted' + i
        BY <1>0, <3>1, <4>1
      <4> QED
        BY <1>0, <2>3, <3>3, <4>1, <4>2, CapacityAssumption
    <3> QED
      BY <3>2, <3>3
  <2>5. Len(pending') <= MaxPendingNotifications
    <3>1. CASE HasRoom /\ Notify(n)
      <4> DEFINE S == 1..MaxAppends
      <4>1. pending \in Seq(S) /\ n \in S
        BY <1>0, <1>1, BoundAssumption DEF Accept, IInv, TypeOK, JournalType
      <4>2. Len(pending') = Len(pending) + 1
        <5> HIDE DEF S, n
        <5> QED
          BY <3>1, <4>1, AppendProperties DEF Notify
      <4> QED
        BY <1>0, <3>1, <4>2, CapacityAssumption DEF HasRoom
    <3>2. CASE pending' = pending
      BY <1>0, <3>2
    <3> QED
      BY <1>1, <3>1, <3>2 DEF Accept, Drop
  <2> QED
    BY <2>1, <2>4, <2>5 DEF JournalWindow
<1>2. CASE Take
  <2>1. Len(pending') = Len(pending) - 1
    <3> DEFINE S == 1..MaxAppends
    <3>1. pending \in Seq(S) /\ pending # <<>>
      BY <1>0, <1>2 DEF Take
    <3> HIDE DEF S
    <3> QED
      BY <1>2, <3>1, HeadTailProperties DEF Take
  <2>2. UNCHANGED <<events, evicted, accepted>>
    BY <1>2 DEF Take
  <2> QED
    BY <1>0, <2>1, <2>2, CapacityAssumption DEF JournalWindow
<1>3. CASE UNCHANGED <<events, evicted, accepted, pending>>
  BY <1>0, <1>3 DEF JournalWindow
<1> QED
  BY <1>1, <1>2, <1>3
     DEF Next, Dispatcher, Reject, Deliver, Count, DispatcherLeaves, Flush, FlushReturns,
         FlushTimesOut, Close, ShutdownBegins, ShutdownReturns

-----------------------------------------------------------------------------
(* flush().                                                                *)

LEMMA StreamExtends ==
  ASSUME IInv, Stays \/ Grows \/ Loses
  PROVE  /\ Len(Stream) \in Nat /\ Len(Stream') \in Nat /\ Len(Stream) <= Len(Stream')
         /\ \A i \in 1..Len(Stream) : Stream'[i] = Stream[i]
<1> DEFINE S == 1..MaxAppends
           n == accepted + 1
<1>1. Stream \in Seq(S) /\ S \subseteq Nat /\ n \in Nat
  BY StreamShape, BoundAssumption DEF IInv, TypeOK, JournalType
<1> HIDE DEF S
<1>2. Stream \in Seq(Nat) /\ Len(Stream) \in Nat
  BY <1>1, SeqMonotonic, LenProperties
<1>3. CASE Grows
  <2>1. Stream' = Append(Stream, n)
    BY <1>3 DEF Grows
  <2> HIDE DEF n
  <2>2. /\ Len(Stream') = Len(Stream) + 1
        /\ \A i \in 1..Len(Stream) : Stream'[i] = Stream[i]
    BY <1>1, <1>2, <2>1, AppendProperties
  <2> QED
    BY <1>2, <2>2
<1> QED
  BY <1>2, <1>3 DEF Stays, Loses

LEMMA DeliveredGrows ==
  ASSUME IInv, Next
  PROVE  Elements(delivered) \subseteq Elements(delivered')
<1>1. CASE Deliver
  <2> DEFINE S == 1..MaxAppends
  <2>1. delivered \in Seq(S) /\ inflight \in S
    BY <1>1, BoundAssumption DEF Deliver, IInv, TypeOK, LaneType, LanePlaced
  <2> HIDE DEF S
  <2>2. Elements(delivered') = Elements(delivered) \union {inflight}
    BY <1>1, <2>1, AppendElements DEF Deliver
  <2> QED
    BY <2>2
<1>2. CASE delivered' = delivered
  BY <1>2
<1> QED
  BY <1>1, <1>2
     DEF Next, Dispatcher, Reject, Accept, Take, Count, DispatcherLeaves, Flush, FlushReturns,
         FlushTimesOut, Close, ShutdownBegins, ShutdownReturns, lane

\* What one step does to one flush.
LEMMA FlusherMoves ==
  ASSUME IInv, Next, NEW g \in Flushers
  PROVE  \/ /\ flusher'[g] = flusher[g] /\ target'[g] = target[g]
            /\ outstanding'[g] = outstanding[g]
         \/ /\ flusher'[g] = "waiting" /\ target'[g] = enqueued
            /\ outstanding'[g] = (Elements(pending) \union {inflight}) \ {0}
            /\ UNCHANGED lane
         \/ /\ flusher[g] # "idle" /\ target'[g] = target[g] /\ outstanding'[g] = outstanding[g]
            /\ flusher'[g] = "flushed" => completed >= target[g]
<1> USE DEF IInv, TypeOK, WaitersType
<1>1. CASE UNCHANGED waiters
  BY <1>1 DEF waiters
<1>2. ASSUME NEW f \in Flushers, Flush(f)
      PROVE  \/ /\ flusher'[g] = flusher[g] /\ target'[g] = target[g]
                /\ outstanding'[g] = outstanding[g]
             \/ /\ flusher'[g] = "waiting" /\ target'[g] = enqueued
                /\ outstanding'[g] = (Elements(pending) \union {inflight}) \ {0}
                /\ UNCHANGED lane
  BY <1>2 DEF Flush, FlushTarget
<1>3. ASSUME NEW f \in Flushers, FlushReturns(f) \/ FlushTimesOut(f)
      PROVE  \/ /\ flusher'[g] = flusher[g] /\ target'[g] = target[g]
                /\ outstanding'[g] = outstanding[g]
             \/ /\ flusher[g] # "idle" /\ target'[g] = target[g] /\ outstanding'[g] = outstanding[g]
                /\ flusher'[g] = "flushed" => completed >= target[g]
  BY <1>3 DEF FlushReturns, FlushTimesOut
<1> QED
  BY <1>1, <1>2, <1>3
     DEF Next, Dispatcher, Reject, Accept, Take, Deliver, Count, DispatcherLeaves, Close,
         ShutdownBegins, ShutdownReturns

LEMMA FlushStep ==
  ASSUME IInv, Next, Stays \/ Grows \/ Loses
  PROVE  FlushWaits' /\ FlushSound'
<1>1. /\ Len(Stream) \in Nat /\ Len(Stream') \in Nat /\ Len(Stream) <= Len(Stream')
      /\ \A i \in 1..Len(Stream) : Stream'[i] = Stream[i]
  BY StreamExtends
<1>2. \A g \in Flushers : target[g] \in Nat
  BY DEF IInv, TypeOK, WaitersType
<1>3. ASSUME NEW g \in Flushers, flusher'[g] # "idle"
      PROVE  /\ target'[g] <= Len(Stream')
             /\ \A n \in outstanding'[g] : \E i \in 1..target'[g] : Stream'[i] = n
  <2>1. CASE flusher[g] # "idle" /\ target'[g] = target[g] /\ outstanding'[g] = outstanding[g]
    <3>1. /\ target[g] <= Len(Stream)
          /\ \A n \in outstanding[g] : \E i \in 1..target[g] : Stream[i] = n
      BY <2>1 DEF IInv, FlushWaits
    <3>2. \A i \in 1..target[g] : i \in 1..Len(Stream)
      BY <1>1, <1>2, <3>1
    <3> QED
      BY <1>1, <1>2, <2>1, <3>1, <3>2
  <2>2. CASE /\ target'[g] = enqueued /\ UNCHANGED lane
             /\ outstanding'[g] = (Elements(pending) \union {inflight}) \ {0}
    <3>1. Stream' = Stream /\ enqueued = Len(Stream)
      BY <2>2 DEF lane, Stream, IInv, LanePlaced
    <3>2. outstanding'[g] \subseteq Elements(Stream)
      <4>1. Elements(Stream) = Elements(delivered)
               \union (IF inflight = 0 THEN {} ELSE {inflight}) \union Elements(pending)
        BY StreamShape DEF IInv, TypeOK
      <4> QED
        BY <2>2, <4>1
    <3> QED
      BY <1>1, <2>2, <3>1, <3>2 DEF Elements
  <2> QED
    BY <1>3, <2>1, <2>2, FlusherMoves
<1>4. ASSUME NEW g \in Flushers, flusher'[g] = "flushed"
      PROVE  outstanding'[g] \subseteq Elements(delivered')
  <2>1. Elements(delivered) \subseteq Elements(delivered')
    BY DeliveredGrows
  <2>2. CASE flusher[g] = "flushed" /\ outstanding'[g] = outstanding[g]
    BY <2>1, <2>2 DEF IInv, FlushSound
  <2>3. CASE /\ flusher[g] # "idle" /\ outstanding'[g] = outstanding[g]
             /\ completed >= target[g]
    <3>1. \A n \in outstanding[g] : \E i \in 1..target[g] : Stream[i] = n
      BY <2>3 DEF IInv, FlushWaits
    <3>2. /\ Len(delivered) \in Nat /\ \A i \in 1..Len(delivered) : Stream[i] = delivered[i]
      BY StreamShape DEF IInv, TypeOK
    <3>3. target[g] <= Len(delivered)
      BY <1>2, <2>3, <3>2 DEF IInv, TypeOK, LaneType, LanePlaced
    <3>4. \A i \in 1..target[g] : i \in 1..Len(delivered)
      BY <1>2, <3>2, <3>3
    <3> QED
      BY <2>1, <2>3, <3>1, <3>2, <3>4 DEF Elements
  <2> QED
    BY <1>4, <2>2, <2>3, FlusherMoves
<1>5. FlushWaits'
  BY <1>3 DEF FlushWaits
<1>6. FlushSound'
  BY <1>4 DEF FlushSound
<1> QED
  BY <1>5, <1>6

-----------------------------------------------------------------------------
(* The theorems.                                                           *)

LEMMA InvInit == Init => IInv
<1> SUFFICES ASSUME Init PROVE IInv
  OBVIOUS
<1>1. Stream = <<>> /\ Len(Stream) = 0 /\ Elements(Stream) = {}
  BY DEF Init, Stream, Elements
<1>2. Missing = {}
  BY <1>1 DEF Init, Missing
<1>3. 0 \in 0..MaxAppends /\ 0 \in 0..MaxPendingNotifications
      /\ <<>> \in Seq(1..MaxAppends)
  BY BoundAssumption, CapacityAssumption
<1>4. TypeOK
  BY <1>3 DEF Init, TypeOK, JournalType, LaneType, DropsType, WaitersType
<1>5. LanePlaced
  BY <1>1 DEF Init, LanePlaced
<1>6. StreamBounded /\ DeliveryOrdered
  BY <1>1 DEF StreamBounded, DeliveryOrdered
<1>7. GapsReported
  BY <1>2, FS_EmptySet DEF Init, GapsReported
<1>8. JournalWindow
  BY CapacityAssumption DEF Init, JournalWindow
<1>9. FlushWaits /\ FlushSound
  BY DEF Init, FlushWaits, FlushSound
<1> QED
  BY <1>4, <1>5, <1>6, <1>7, <1>8, <1>9 DEF IInv

LEMMA InvStep ==
  ASSUME IInv, Next
  PROVE  IInv'
<1>1. Stays \/ Grows \/ Loses
  BY StreamMoves
<1>2. TypeOK'
  BY JournalTypeStep, LaneTypeStep, DropsTypeStep, WaitersTypeStep DEF TypeOK
<1>3. LanePlaced'
  BY <1>1, LanePlacedStep
<1>4. StreamBounded' /\ DeliveryOrdered'
  BY <1>1, OrderStep
<1>5. GapsReported'
  BY <1>1, GapsStep
<1>6. JournalWindow'
  BY JournalWindowStep
<1>7. FlushWaits' /\ FlushSound'
  BY <1>1, FlushStep
<1> QED
  BY <1>2, <1>3, <1>4, <1>5, <1>6, <1>7 DEF IInv

LEMMA InvStutter ==
  ASSUME IInv, UNCHANGED vars
  PROVE  IInv'
<1>1. UNCHANGED <<events, evicted, pending, inflight, enqueued, completed, delivered,
                  dispatcher, accepted, rejected, closed, owner, observer_failures>>
  BY DEF vars, journal, lane
<1>2. UNCHANGED <<drops, waiters>>
  BY DEF vars
<1>3. Stream' = Stream /\ Missing' = Missing
  BY <1>1 DEF Stream, Missing, Elements
<1>4. JournalType' /\ LaneType'
  BY <1>1 DEF IInv, TypeOK, JournalType, LaneType
<1>5. DropsType' /\ WaitersType'
  BY <1>2 DEF IInv, TypeOK, DropsType, WaitersType, drops, waiters
<1>6. LanePlaced' /\ GapsReported'
  BY <1>1, <1>2, <1>3 DEF IInv, LanePlaced, GapsReported, drops
<1>7. StreamBounded' /\ DeliveryOrdered' /\ JournalWindow'
  BY <1>1, <1>3 DEF IInv, StreamBounded, DeliveryOrdered, JournalWindow
<1>8. FlushWaits' /\ FlushSound'
  BY <1>1, <1>2, <1>3 DEF IInv, FlushWaits, FlushSound, Elements, waiters
<1> QED
  BY <1>4, <1>5, <1>6, <1>7, <1>8 DEF IInv, TypeOK

\* The inductive invariant holds in every reachable state.
THEOREM Invariance == Spec => []IInv
<1>1. IInv /\ [Next]_vars => IInv'
  BY InvStep, InvStutter
<1> QED
  BY <1>1, InvInit, PTL DEF Spec

\* dispatch_loop hands admitted events over in order and once each, the journal is
\* the newest window of them, a flush() that returned true saw delivered what was
\* outstanding when it began, and shutdown() leaves no enqueued notification behind.
THEOREM TimelineIsSafe == Spec => []TimelineSafe
<1>1. ASSUME IInv PROVE TimelineSafe
  <2>1. ShutdownDrains
    <3> SUFFICES ASSUME owner = "joined"
        PROVE  /\ pending = <<>> /\ inflight = 0
               /\ Len(delivered) + dropped_notifications = accepted
      BY DEF ShutdownDrains
    <3>1. pending = <<>> /\ inflight = 0 /\ enqueued = Len(Stream)
          /\ enqueued + dropped_notifications = accepted
      BY <1>1 DEF IInv, LanePlaced
    <3>2. Len(Stream) = Len(delivered)
      BY <1>1, <3>1, StreamShape DEF IInv, TypeOK
    <3> QED
      BY <3>1, <3>2
  <2> QED
    BY <1>1, <2>1 DEF IInv, TimelineSafe
<1> QED
  BY <1>1, Invariance, PTL

\* admit()'s statistics name the gaps: their number, the first and the last sequence
\* number lost, and no event outside them is missing from the observers' stream.
THEOREM GapsAreReported == Spec => []GapsReported
<1>1. IInv => GapsReported
  BY DEF IInv
<1> QED
  BY <1>1, Invariance, PTL

-----------------------------------------------------------------------------
(***************************************************************************)
(* The bus: the inductive invariant.  An entry leaves the map once, so it  *)
(* has one remover; a disabled one is entered no more.                     *)
(***************************************************************************)

CountType == active_calls \in [Subscriptions -> Nat]

RemovedOnce ==
    /\ \A s \in handlers : s < next_subscription /\ remover[s] = {}
    /\ \A s \in Subscriptions : s >= next_subscription => remover[s] = {}
    /\ \A t \in Threads : removing[t] # None => remover[removing[t]] = {t}
    /\ \A s \in Subscriptions : ~enabled[s] => remover[s] # {}

\* Who is still inside a removed handler has removed it.
OnlyRemover ==
    \A s \in Subscriptions : ~enabled[s] /\ (\A t \in Threads : removing[t] # s) =>
                                \A p \in Calls(s) : p[1] \in remover[s]

BusInv == /\ MapType /\ StackType /\ CountType /\ CallsAccounted
          /\ RemovedOnce /\ OnlyRemover

-----------------------------------------------------------------------------
(***************************************************************************)
(* Callback frames                                                         *)
(***************************************************************************)

\* Threads are finitely many and their stacks bounded, so the calls are too.
LEMMA CallsFinite ==
    ASSUME NEW s
    PROVE  /\ IsFiniteSet(Calls(s))
           /\ Cardinality(Calls(s)) \in 0..(Cardinality(Threads) * MaxDepth)
<1>1. /\ IsFiniteSet(1..MaxDepth) /\ Cardinality(1..MaxDepth) = MaxDepth
  BY FS_Interval, DepthAssumption
<1>2. /\ IsFiniteSet(Threads \X (1..MaxDepth))
      /\ Cardinality(Threads \X (1..MaxDepth)) = Cardinality(Threads) * MaxDepth
  BY <1>1, FS_Product, ThreadsAssumption
<1>3. Calls(s) \in SUBSET (Threads \X (1..MaxDepth))
  BY DEF Calls
<1>4. /\ IsFiniteSet(Calls(s))
      /\ Cardinality(Calls(s)) <= Cardinality(Threads \X (1..MaxDepth))
  BY <1>2, <1>3, FS_Subset
<1>5. Cardinality(Calls(s)) \in Nat /\ Cardinality(Threads) \in Nat
  BY <1>4, FS_CardinalityType, ThreadsAssumption
<1>6. Cardinality(Threads) * MaxDepth \in Nat
  BY <1>5, DepthAssumption
<1> QED
  BY <1>2, <1>4, <1>5, <1>6

\* None is no subscription.
LEMMA NoneIsNoSubscription == None \notin Subscriptions
BY DepthAssumption DEF None, Subscriptions

\* What a frame holds.
LEMMA FrameFields ==
    ASSUME NEW f \in Frame
    PROVE  /\ f.in \in Subscriptions \union {None}
           /\ f.todo \in SUBSET Subscriptions
           /\ \A S \in SUBSET Subscriptions :
                 [f EXCEPT !.at = "deliver", !.todo = S] \in Frame
           /\ \A i \in Subscriptions \union {None} : [f EXCEPT !.in = i] \in Frame
           /\ \A S : [f EXCEPT !.at = "deliver", !.todo = S].in = f.in
           /\ \A i : [f EXCEPT !.in = i].in = i
BY DEF Frame

\* A thread's frames, by depth.
LEMMA FrameAt ==
    ASSUME StackType, NEW t \in Threads, NEW d \in 1..Depth(t)
    PROVE  stack[t][d] \in Frame /\ Depth(t) \in Nat /\ d \in 1..MaxDepth
<1>1. stack[t] \in Seq(Frame) /\ Depth(t) <= MaxDepth
  BY DEF StackType
<1> QED
  BY <1>1, DepthAssumption DEF Depth

\* Membership in Calls.
LEMMA InCalls ==
    ASSUME StackType, NEW t \in Threads, NEW d \in 1..Depth(t), NEW s
    PROVE  <<t, d>> \in Calls(s) <=> stack[t][d].in = s
<1>1. d \in 1..MaxDepth /\ d <= Depth(t)
  BY FrameAt
<1> QED
  BY <1>1 DEF Calls

\* Replacing the innermost frame of t by f moves only <<t, Depth(t)>>.
LEMMA SetTopStep ==
    ASSUME NEW t \in Threads, NEW f \in Frame,
           StackType, Depth(t) > 0, SetTop(t, f)
    PROVE  /\ StackType'
           /\ Top(t) \in Frame /\ Depth(t) \in 1..Depth(t)
           /\ \A s : Calls(s)' = IF f.in = s THEN Calls(s) \union {<<t, Depth(t)>>}
                                 ELSE Calls(s) \ {<<t, Depth(t)>>}
<1> DEFINE k == Depth(t)
<1>1. /\ stack \in [Threads -> Seq(Frame)]
      /\ \A u \in Threads : Depth(u) \in Nat /\ Depth(u) <= MaxDepth
  BY DEF StackType, Depth
<1>2. k \in 1..Len(stack[t]) /\ k \in 1..MaxDepth
  BY <1>1, DepthAssumption DEF Depth
<1>3. stack' = [stack EXCEPT ![t] = [stack[t] EXCEPT ![k] = f]]
  BY <1>1 DEF SetTop
<1>4. /\ [stack[t] EXCEPT ![k] = f] \in Seq(Frame)
      /\ Len([stack[t] EXCEPT ![k] = f]) = Len(stack[t])
      /\ \A j \in 1..Len(stack[t]) :
            [stack[t] EXCEPT ![k] = f][j] = IF j = k THEN f ELSE stack[t][j]
  <2>1. stack[t] \in Seq(Frame)
    BY <1>1
  <2> HIDE DEF k
  <2> QED
    BY <2>1, <1>2, ExceptSeq
<1> HIDE DEF k
<1>5. /\ stack' \in [Threads -> Seq(Frame)]
      /\ \A u \in Threads : Len(stack'[u]) = Len(stack[u])
      /\ \A u \in Threads : \A j \in 1..Len(stack[u]) :
            stack'[u][j] = IF u = t /\ j = k THEN f ELSE stack[u][j]
  <2>1. \A u \in Threads :
           stack'[u] = IF u = t THEN [stack[t] EXCEPT ![k] = f] ELSE stack[u]
    BY <1>1, <1>3, Zenon
  <2>2. stack' \in [Threads -> Seq(Frame)]
    BY <1>1, <1>3, <1>4, Zenon
  <2> QED
    BY <2>1, <2>2, <1>4, Zenon
<1>6. StackType'
  BY <1>1, <1>5 DEF StackType, Depth
<1>7. Top(t) \in Frame
  BY <1>1, <1>2 DEF Top, k
<1>8. ASSUME NEW s
      PROVE  Calls(s)' = IF f.in = s THEN Calls(s) \union {<<t, k>>}
                         ELSE Calls(s) \ {<<t, k>>}
  <2>1. ASSUME NEW p \in Threads \X (1..MaxDepth)
        PROVE  p \in Calls(s)' <=> p \in (IF f.in = s THEN Calls(s) \union {<<t, k>>}
                                          ELSE Calls(s) \ {<<t, k>>})
    <3>1. p[1] \in Threads /\ p[2] \in 1..MaxDepth /\ p = <<p[1], p[2]>>
      OBVIOUS
    <3>2. p \in Calls(s) <=> p[2] <= Len(stack[p[1]]) /\ stack[p[1]][p[2]].in = s
      BY DEF Calls, Depth
    <3>3. p \in Calls(s)' <=> p[2] <= Len(stack'[p[1]]) /\ stack'[p[1]][p[2]].in = s
      BY DEF Calls, Depth
    <3>4. p[2] <= Len(stack[p[1]]) => p[2] \in 1..Len(stack[p[1]])
      BY <3>1, <1>1 DEF Depth
    <3>5. Len(stack'[p[1]]) = Len(stack[p[1]])
      BY <3>1, <1>5
    <3>6. CASE p = <<t, k>>
      <4>1. p[1] = t /\ p[2] = k
        BY <3>6
      <4>2. k <= Len(stack[t]) /\ stack'[t][k] = f
        BY <1>2, <1>5
      <4> QED
        BY <3>3, <3>5, <3>6, <4>1, <4>2
    <3>7. CASE p # <<t, k>>
      <4>1. ~(p[1] = t /\ p[2] = k)
        BY <3>1, <3>7
      <4>2. p[2] <= Len(stack[p[1]]) => stack'[p[1]][p[2]] = stack[p[1]][p[2]]
        BY <3>1, <3>4, <4>1, <1>5
      <4> QED
        BY <3>2, <3>3, <3>5, <3>7, <4>2
    <3> QED
      BY <3>6, <3>7
  <2>2. Calls(s) \subseteq Threads \X (1..MaxDepth)
    BY DEF Calls
  <2>3. Calls(s)' \subseteq Threads \X (1..MaxDepth)
    BY DEF Calls
  <2>4. <<t, k>> \in Threads \X (1..MaxDepth)
    BY <1>2
  <2> QED
    BY <2>1, <2>2, <2>3, <2>4
<1>9. k \in 1..k
  BY <1>2, <1>1 DEF k
<1> QED
  BY <1>6, <1>7, <1>8, <1>9 DEF k

\* What a subscription's calls may do in one step: nothing, one more while the entry
\* is enabled, or one less; active_calls follows.
CallsStay(s) == Calls(s)' = Calls(s) /\ active_calls'[s] = active_calls[s]
Enters(s) == /\ enabled[s] /\ active_calls'[s] = active_calls[s] + 1
             /\ \E x : x \notin Calls(s) /\ Calls(s)' = Calls(s) \union {x}
CallEnds(s) == /\ active_calls'[s] = active_calls[s] - 1
             /\ \E x \in Calls(s) : Calls(s)' = Calls(s) \ {x}

\* A new innermost frame is inside no handler.
LEMMA PublishStep ==
    ASSUME NEW t \in Threads, MapType, StackType, Publish(t)
    PROVE  StackType' /\ \A s \in Subscriptions : CallsStay(s)
<1> DEFINE f == [event |-> next_sequence, todo |-> {}, at |-> "snapshot", in |-> None]
<1>1. f \in Frame /\ f.in = None
  BY DEF MapType, Frame
<1>2. /\ stack \in [Threads -> Seq(Frame)]
      /\ \A u \in Threads : Len(stack[u]) \in Nat /\ Len(stack[u]) <= MaxDepth
  BY DEF StackType, Depth
<1>3. /\ Len(stack[t]) < MaxDepth
      /\ stack' = [stack EXCEPT ![t] = Append(stack[t], f)]
      /\ active_calls' = active_calls
  BY <1>2 DEF Publish, Depth
<1> HIDE DEF f
<1>4. /\ Append(stack[t], f) \in Seq(Frame)
      /\ Len(Append(stack[t], f)) = Len(stack[t]) + 1
      /\ \A i \in 1..Len(stack[t]) : Append(stack[t], f)[i] = stack[t][i]
      /\ Append(stack[t], f)[Len(stack[t]) + 1] = f
  BY <1>1, <1>2, AppendProperties
<1>5. \A u \in Threads :
         stack'[u] = IF u = t THEN Append(stack[t], f) ELSE stack[u]
  BY <1>2, <1>3, Zenon
<1>6. stack' \in [Threads -> Seq(Frame)]
  BY <1>2, <1>3, <1>4, Zenon
<1>7. \A u \in Threads : Len(stack'[u]) <= MaxDepth
  BY <1>2, <1>3, <1>4, <1>5, DepthAssumption
<1>8. ASSUME NEW s \in Subscriptions, NEW p \in Threads \X (1..MaxDepth)
      PROVE  p \in Calls(s)' <=> p \in Calls(s)
  <2>1. p[1] \in Threads /\ p[2] \in 1..MaxDepth
    OBVIOUS
  <2>2. p \in Calls(s) <=> p[2] <= Len(stack[p[1]]) /\ stack[p[1]][p[2]].in = s
    BY DEF Calls, Depth
  <2>3. p \in Calls(s)' <=> p[2] <= Len(stack'[p[1]]) /\ stack'[p[1]][p[2]].in = s
    BY DEF Calls, Depth
  <2>4. CASE p[1] # t
    BY <2>1, <2>2, <2>3, <2>4, <1>5
  <2>5. CASE p[1] = t /\ p[2] <= Len(stack[t])
    <3>1. p[2] \in 1..Len(stack[t]) /\ p[2] <= Len(stack[t]) + 1
      BY <2>1, <2>5, <1>2
    <3> QED
      BY <2>2, <2>3, <2>5, <3>1, <1>4, <1>5
  <2>6. CASE p[1] = t /\ ~(p[2] <= Len(stack[t]))
    <3>1. p[2] <= Len(stack[t]) + 1 => p[2] = Len(stack[t]) + 1
      BY <2>1, <2>6, <1>2
    <3>2. stack'[t][Len(stack[t]) + 1].in = None /\ Len(stack'[t]) = Len(stack[t]) + 1
      BY <1>1, <1>4, <1>5
    <3>3. p \notin Calls(s)
      BY <2>2, <2>6
    <3>4. p \notin Calls(s)'
      BY <2>3, <2>6, <3>1, <3>2, NoneIsNoSubscription
    <3> QED
      BY <3>3, <3>4
  <2> QED
    BY <2>4, <2>5, <2>6
<1>9. \A s \in Subscriptions : /\ Calls(s) \subseteq Threads \X (1..MaxDepth)
                               /\ Calls(s)' \subseteq Threads \X (1..MaxDepth)
  BY DEF Calls
<1>10. \A s \in Subscriptions : Calls(s)' = Calls(s)
  BY <1>8, <1>9
<1> QED
  BY <1>3, <1>6, <1>7, <1>10 DEF StackType, Depth, CallsStay

\* The frame that goes was inside no handler.
LEMMA PublishReturnsStep ==
    ASSUME NEW t \in Threads, MapType, StackType, PublishReturns(t)
    PROVE  StackType' /\ \A s \in Subscriptions : CallsStay(s)
<1> DEFINE k == Len(stack[t])
           q == SubSeq(stack[t], 1, k - 1)
<1>2. /\ stack \in [Threads -> Seq(Frame)]
      /\ \A u \in Threads : Len(stack[u]) \in Nat /\ Len(stack[u]) <= MaxDepth
  BY DEF StackType, Depth
<1>3. /\ k > 0 /\ k \in Nat /\ stack[t][k].in = None
      /\ stack' = [stack EXCEPT ![t] = q]
      /\ active_calls' = active_calls
  BY <1>2 DEF PublishReturns, Depth, Top
<1>4. /\ q \in Seq(Frame) /\ Len(q) = k - 1
      /\ \A i \in 1..(k - 1) : q[i] = stack[t][i]
  <2>1. 1 \in Int /\ k - 1 \in Int /\ stack[t] \in Seq(Frame)
    BY <1>2, <1>3
  <2>2. \A i \in 1..(k - 1) : stack[t][i] \in Frame
    BY <2>1, <1>3
  <2>3. /\ q \in Seq(Frame)
        /\ Len(q) = IF 1 <= k - 1 THEN (k - 1) - 1 + 1 ELSE 0
        /\ \A i \in 1..((k - 1) - 1 + 1) : q[i] = stack[t][1 + i - 1]
    <3> HIDE DEF k
    <3> QED
      BY <2>1, <2>2, SubSeqProperties
  <2> HIDE DEF k, q
  <2> QED
    BY <2>3, <1>3
<1> HIDE DEF q
<1>5. \A u \in Threads : stack'[u] = IF u = t THEN q ELSE stack[u]
  BY <1>2, <1>3, Zenon
<1>6. stack' \in [Threads -> Seq(Frame)]
  BY <1>2, <1>3, <1>4, Zenon
<1>7. \A u \in Threads : Len(stack'[u]) <= MaxDepth
  BY <1>2, <1>3, <1>4, <1>5, DepthAssumption
<1>8. ASSUME NEW s \in Subscriptions, NEW p \in Threads \X (1..MaxDepth)
      PROVE  p \in Calls(s)' <=> p \in Calls(s)
  <2>1. p[1] \in Threads /\ p[2] \in 1..MaxDepth
    OBVIOUS
  <2>2. p \in Calls(s) <=> p[2] <= Len(stack[p[1]]) /\ stack[p[1]][p[2]].in = s
    BY DEF Calls, Depth
  <2>3. p \in Calls(s)' <=> p[2] <= Len(stack'[p[1]]) /\ stack'[p[1]][p[2]].in = s
    BY DEF Calls, Depth
  <2>4. CASE p[1] # t
    BY <2>1, <2>2, <2>3, <2>4, <1>5
  <2>5. CASE p[1] = t /\ p[2] <= k - 1
    <3>1. p[2] \in 1..(k - 1) /\ p[2] <= k
      BY <2>1, <2>5, <1>3
    <3> QED
      BY <2>2, <2>3, <2>5, <3>1, <1>4, <1>5
  <2>6. CASE p[1] = t /\ ~(p[2] <= k - 1)
    <3>1. p[2] <= k => p[2] = k
      BY <2>1, <2>6, <1>3
    <3> QED
      BY <2>2, <2>3, <2>6, <3>1, <1>3, <1>4, <1>5, NoneIsNoSubscription
  <2> QED
    BY <2>4, <2>5, <2>6
<1>9. \A s \in Subscriptions : /\ Calls(s) \subseteq Threads \X (1..MaxDepth)
                               /\ Calls(s)' \subseteq Threads \X (1..MaxDepth)
  BY DEF Calls
<1>10. \A s \in Subscriptions : Calls(s)' = Calls(s)
  BY <1>8, <1>9
<1> QED
  BY <1>3, <1>6, <1>7, <1>10 DEF StackType, Depth, CallsStay

\* The handlers of t's own stack, counted through Calls.
LEMMA OwnCalls ==
    ASSUME NEW t \in Threads, NEW s, StackType
    PROVE  CallsOnThisThread(t, s) = Cardinality({p \in Calls(s) : p[1] = t})
<1> DEFINE D == {d \in 1..Depth(t) : stack[t][d].in = s}
           O == {p \in Calls(s) : p[1] = t}
           g == [d \in D |-> <<t, d>>]
<1>1. Depth(t) \in Nat
  BY DEF StackType, Depth
<1>2. IsFiniteSet(D)
  <2>1. IsFiniteSet(1..Depth(t))
    BY <1>1, FS_Interval
  <2>2. D \in SUBSET (1..Depth(t))
    OBVIOUS
  <2> QED
    BY <2>1, <2>2, FS_Subset
<1>3. \A d \in D : <<t, d>> \in O
  BY InCalls
<1>4. ASSUME NEW p \in O
      PROVE  p[2] \in D /\ p = <<t, p[2]>>
  <2>1. /\ p \in Threads \X (1..MaxDepth) /\ p[1] = t
        /\ p[2] <= Depth(p[1]) /\ stack[p[1]][p[2]].in = s
    BY DEF Calls
  <2>2. p[2] \in 1..MaxDepth /\ p = <<p[1], p[2]>>
    BY <2>1
  <2>3. p[2] \in 1..Depth(t)
    BY <2>1, <2>2, <1>1, DepthAssumption
  <2> QED
    BY <2>1, <2>2, <2>3
<1>5. g \in [D -> O]
  BY <1>3, Zenon
<1>6. \A a, b \in D : g[a] = g[b] => a = b
  OBVIOUS
<1>7. \A p \in O : \E d \in D : g[d] = p
  BY <1>4
<1>8. g \in Bijection(D, O)
  <2> HIDE DEF g, D, O
  <2> QED
    BY <1>5, <1>6, <1>7 DEF Bijection, Injection, Surjection, IsInjective
<1>9. ExistsBijection(D, O)
  BY <1>8 DEF ExistsBijection
<1>10. Cardinality(O) = Cardinality(D)
  <2> HIDE DEF D, O
  <2> QED
    BY <1>2, <1>9, FS_Bijection
<1> QED
  BY <1>10 DEF CallsOnThisThread

\* unsubscribe() waits until the calls that remain are its own thread's.
LEMMA QuiescedMeansOwn ==
    ASSUME NEW t \in Threads, NEW s \in Subscriptions,
           StackType, CallsAccounted, Quiesced(t, s)
    PROVE  \A p \in Calls(s) : p[1] = t
<1> DEFINE O == {p \in Calls(s) : p[1] = t}
<1>1. IsFiniteSet(Calls(s)) /\ O \in SUBSET Calls(s)
  BY CallsFinite
<1>2. /\ IsFiniteSet(O) /\ Cardinality(O) <= Cardinality(Calls(s))
      /\ Cardinality(Calls(s)) = Cardinality(O) => Calls(s) = O
  <2> HIDE DEF O
  <2> QED
    BY <1>1, FS_Subset
<1>3. Cardinality(O) \in Nat /\ Cardinality(Calls(s)) \in Nat
  <2> HIDE DEF O
  <2> QED
    BY <1>1, <1>2, FS_CardinalityType
<1>4. Cardinality(Calls(s)) <= Cardinality(O)
  BY OwnCalls DEF Quiesced, CallsAccounted
<1>5. Calls(s) = O
  <2> HIDE DEF O
  <2> QED
    BY <1>2, <1>3, <1>4
<1> QED
  BY <1>5

-----------------------------------------------------------------------------
(***************************************************************************)
(* What each action does to the calls                                      *)
(***************************************************************************)

LEMMA SnapshotStep ==
    ASSUME NEW t \in Threads, MapType, StackType, Snapshot(t)
    PROVE  StackType' /\ \A s \in Subscriptions : CallsStay(s)
<1> DEFINE k == Depth(t)
           f == [Top(t) EXCEPT !.at = "deliver", !.todo = handlers]
<1>1. k > 0 /\ SetTop(t, f) /\ active_calls' = active_calls
  BY DEF Snapshot
<1>2. k \in 1..k /\ Top(t) = stack[t][k]
  BY <1>1 DEF Top, StackType, Depth
<1>3. Top(t) \in Frame
  BY <1>2, FrameAt
<1>4. f \in Frame /\ f.in = Top(t).in
  BY <1>3, FrameFields DEF MapType
<1> HIDE DEF f
<1>5. /\ StackType'
      /\ \A s : Calls(s)' = IF f.in = s THEN Calls(s) \union {<<t, k>>}
                            ELSE Calls(s) \ {<<t, k>>}
  BY <1>1, <1>4, SetTopStep
<1>6. \A s : <<t, k>> \in Calls(s) <=> f.in = s
  BY <1>2, <1>4, InCalls
<1>7. \A s : Calls(s)' = Calls(s)
  BY <1>5, <1>6
<1> QED
  BY <1>1, <1>5, <1>7 DEF CallsStay

\* A thread goes into a handler only while it is enabled, and is counted.
LEMMA EnterHandlerStep ==
    ASSUME NEW t \in Threads, NEW e \in Subscriptions,
           MapType, StackType, CountType, EnterHandler(t, e)
    PROVE  /\ StackType' /\ CountType'
           /\ \A s \in Subscriptions : CallsStay(s) \/ Enters(s)
<1> DEFINE k == Depth(t)
           i == IF enabled[e] THEN e ELSE None
           f == [Top(t) EXCEPT !.todo = Top(t).todo \ {e}, !.in = i]
<1>1. k > 0 /\ k \in 1..k /\ Top(t) = stack[t][k]
  BY DEF Top, StackType, Depth, EnterHandler
<1>2. Top(t) \in Frame
  BY <1>1, FrameAt
<1>3. /\ SetTop(t, f) /\ Top(t).in = None
      /\ active_calls' = IF enabled[e] THEN [active_calls EXCEPT ![e] = @ + 1]
                         ELSE active_calls
  BY <1>2 DEF EnterHandler, MayEnter
<1>4. f \in Frame /\ f.in = i
  <2>1. i \in Subscriptions \union {None} /\ Top(t).todo \ {e} \in SUBSET Subscriptions
    BY <1>2, FrameFields
  <2>2. \A S \in SUBSET Subscriptions : \A j \in Subscriptions \union {None} :
           /\ [Top(t) EXCEPT !.todo = S, !.in = j] \in Frame
           /\ [Top(t) EXCEPT !.todo = S, !.in = j].in = j
    BY <1>2 DEF Frame
  <2> HIDE DEF i
  <2> QED
    BY <2>1, <2>2, Zenon
<1> HIDE DEF f
<1>5. /\ StackType'
      /\ \A s : Calls(s)' = IF i = s THEN Calls(s) \union {<<t, k>>}
                            ELSE Calls(s) \ {<<t, k>>}
  BY <1>3, <1>1, <1>4, SetTopStep
<1>6. \A s \in Subscriptions : <<t, k>> \notin Calls(s)
  BY <1>3, <1>1, InCalls, NoneIsNoSubscription
<1>7. CountType'
  BY <1>3 DEF CountType
<1>8. CASE ~enabled[e]
  <2>1. \A s \in Subscriptions : Calls(s)' = Calls(s)
    BY <1>5, <1>6, <1>8, NoneIsNoSubscription
  <2> QED
    BY <2>1, <1>3, <1>5, <1>7, <1>8 DEF CallsStay
<1>9. CASE enabled[e]
  <2>1. \A s \in Subscriptions \ {e} : Calls(s)' = Calls(s)
    BY <1>5, <1>6, <1>9
  <2>2. \A s \in Subscriptions \ {e} : active_calls'[s] = active_calls[s]
    BY <1>3, <1>9 DEF CountType
  <2>3. Calls(e)' = Calls(e) \union {<<t, k>>} /\ <<t, k>> \notin Calls(e)
    BY <1>5, <1>6, <1>9
  <2>4. active_calls'[e] = active_calls[e] + 1
    BY <1>3, <1>9 DEF CountType
  <2>5. Enters(e)
    BY <2>3, <2>4, <1>9 DEF Enters
  <2>6. \A s \in Subscriptions \ {e} : CallsStay(s)
    BY <2>1, <2>2 DEF CallsStay
  <2> QED
    BY <2>5, <2>6, <1>5, <1>7
<1> QED
  BY <1>8, <1>9

\* The call that ends had been counted.
LEMMA LeaveHandlerStep ==
    ASSUME NEW t \in Threads,
           MapType, StackType, CountType, CallsAccounted, LeaveHandler(t)
    PROVE  /\ StackType' /\ CountType'
           /\ \A s \in Subscriptions : CallsStay(s) \/ CallEnds(s)
<1> DEFINE k == Depth(t)
           f == [Top(t) EXCEPT !.in = None]
<1>1. /\ k > 0 /\ SetTop(t, f) /\ Top(t).in # None
      /\ active_calls' = [active_calls EXCEPT ![Top(t).in] = @ - 1]
  BY DEF LeaveHandler
<1>2. k \in 1..k /\ Top(t) = stack[t][k]
  BY <1>1 DEF Top, StackType, Depth
<1>3. Top(t) \in Frame
  BY <1>2, FrameAt
<1>4. f \in Frame /\ f.in = None
  BY <1>3, FrameFields
<1>5. PICK e \in Subscriptions : e = Top(t).in
  BY <1>1, <1>3, FrameFields
<1> HIDE DEF f
<1>6. /\ StackType'
      /\ \A s : Calls(s)' = IF None = s THEN Calls(s) \union {<<t, k>>}
                            ELSE Calls(s) \ {<<t, k>>}
  BY <1>1, <1>4, SetTopStep
<1>7. \A s : <<t, k>> \in Calls(s) <=> e = s
  BY <1>2, <1>5, InCalls
<1>8. Calls(e)' = Calls(e) \ {<<t, k>>} /\ <<t, k>> \in Calls(e)
  BY <1>6, <1>7, NoneIsNoSubscription
<1>9. \A s \in Subscriptions \ {e} : Calls(s)' = Calls(s)
  BY <1>6, <1>7, NoneIsNoSubscription
<1>10. active_calls[e] \in Nat /\ active_calls[e] > 0
  <2>1. Cardinality(Calls(e)) # 0
    BY <1>8, CallsFinite, FS_EmptySet
  <2> QED
    BY <2>1 DEF CallsAccounted, CountType
<1>11. CountType'
  <2>1. active_calls[e] - 1 \in Nat
    BY <1>10
  <2> QED
    BY <2>1, <1>1, <1>5 DEF CountType
<1>12. /\ active_calls'[e] = active_calls[e] - 1
       /\ \A s \in Subscriptions \ {e} : active_calls'[s] = active_calls[s]
  BY <1>1, <1>5 DEF CountType
<1>13. CallEnds(e)
  BY <1>8, <1>12 DEF CallEnds
<1>14. \A s \in Subscriptions \ {e} : CallsStay(s)
  BY <1>9, <1>12 DEF CallsStay
<1> QED
  BY <1>6, <1>11, <1>13, <1>14

\* No other step touches stacks or counters.
LEMMA AsideStep ==
    ASSUME StackType, CountType, UNCHANGED <<stack, active_calls>>
    PROVE  /\ StackType' /\ CountType' /\ \A s \in Subscriptions : CallsStay(s)
BY DEF StackType, CountType, Depth, CallsStay, Calls

\* Every step of the bus.
LEMMA CallsMove ==
    ASSUME MapType, StackType, CountType, CallsAccounted, [BusNext]_busVars
    PROVE  /\ StackType' /\ CountType'
           /\ \A s \in Subscriptions : CallsStay(s) \/ Enters(s) \/ CallEnds(s)
<1>1. CASE UNCHANGED busVars
  BY <1>1, AsideStep DEF busVars
<1>2. CASE BusNext
  <2>1. PICK t \in Threads : \/ Subscribe(t) \/ Publish(t) \/ LeaveHandler(t) \/ Bus(t)
                             \/ \E s \in Subscriptions : Unsubscribe(t, s)
    BY <1>2 DEF BusNext
  <2>2. CASE \/ Subscribe(t) \/ Disable(t) \/ UnsubscribeReturns(t)
             \/ \E s \in Subscriptions : Unsubscribe(t, s)
    <3>1. UNCHANGED <<stack, active_calls>>
      BY <2>2 DEF Subscribe, Disable, UnsubscribeReturns, Unsubscribe
    <3> QED
      BY <3>1, AsideStep
  <2>3. ASSUME UNCHANGED active_calls PROVE CountType'
    BY <2>3 DEF CountType
  <2>4. CASE Publish(t)
    BY <2>3, <2>4, PublishStep DEF Publish
  <2>5. CASE PublishReturns(t)
    BY <2>3, <2>5, PublishReturnsStep DEF PublishReturns
  <2>6. CASE Snapshot(t)
    BY <2>3, <2>6, SnapshotStep DEF Snapshot
  <2>7. CASE \E s \in Subscriptions : EnterHandler(t, s)
    BY <2>7, EnterHandlerStep
  <2>8. CASE LeaveHandler(t)
    BY <2>8, LeaveHandlerStep
  <2> QED
    BY <2>1, <2>2, <2>4, <2>5, <2>6, <2>7, <2>8 DEF Bus
<1> QED
  BY <1>1, <1>2

\* The count follows the calls.
LEMMA CallsAccountedStep ==
    ASSUME CountType, CallsAccounted,
           \A s \in Subscriptions : CallsStay(s) \/ Enters(s) \/ CallEnds(s)
    PROVE  CallsAccounted'
<1> SUFFICES ASSUME NEW s \in Subscriptions
             PROVE  active_calls'[s] = Cardinality(Calls(s)')
  BY DEF CallsAccounted
<1>1. IsFiniteSet(Calls(s)) /\ active_calls[s] = Cardinality(Calls(s))
  BY CallsFinite DEF CallsAccounted
<1>2. CASE CallsStay(s)
  BY <1>1, <1>2 DEF CallsStay
<1>3. CASE Enters(s)
  <2>1. PICK x : x \notin Calls(s) /\ Calls(s)' = Calls(s) \union {x}
    BY <1>3 DEF Enters
  <2>2. Cardinality(Calls(s) \union {x}) = Cardinality(Calls(s)) + 1
    BY <1>1, <2>1, FS_AddElement
  <2> QED
    BY <1>1, <1>3, <2>1, <2>2 DEF Enters
<1>4. CASE CallEnds(s)
  <2>1. PICK x \in Calls(s) : Calls(s)' = Calls(s) \ {x}
    BY <1>4 DEF CallEnds
  <2>2. Cardinality(Calls(s) \ {x}) = Cardinality(Calls(s)) - 1
    BY <1>1, <2>1, FS_RemoveElement
  <2> QED
    BY <1>1, <1>4, <2>1, <2>2 DEF CallEnds
<1> QED
  BY <1>2, <1>3, <1>4

-----------------------------------------------------------------------------
(***************************************************************************)
(* The map and who removed what                                            *)
(***************************************************************************)

LEMMA MapTypeStep ==
    ASSUME MapType, [BusNext]_busVars
    PROVE  MapType'
<1>1. CASE UNCHANGED busVars
  BY <1>1 DEF MapType, busVars
<1>2. ASSUME NEW t \in Threads, Subscribe(t)
      PROVE  MapType'
  <2>1. next_subscription + 1 \in 1..(MaxSubscriptions + 1)
    BY <1>2, DepthAssumption DEF Subscribe, Subscriptions
  <2> QED
    BY <1>2, <2>1 DEF Subscribe, MapType
<1>3. ASSUME NEW t \in Threads, NEW s \in Subscriptions, Unsubscribe(t, s)
      PROVE  MapType'
  BY <1>3 DEF Unsubscribe, MapType
<1>4. ASSUME NEW t \in Threads, Publish(t)
      PROVE  MapType'
  BY <1>4 DEF Publish, MapType
<1>5. ASSUME NEW t \in Threads, Disable(t)
      PROVE  MapType'
  BY <1>5 DEF Disable, MapType
<1>6. ASSUME NEW t \in Threads, UnsubscribeReturns(t)
      PROVE  MapType'
  BY <1>6 DEF UnsubscribeReturns, MapType
<1>7. ASSUME UNCHANGED <<handlers, next_subscription, next_sequence, enabled, removing,
                         remover>>
      PROVE  MapType'
  BY <1>7 DEF MapType
<1>8. ASSUME NEW t \in Threads, \/ LeaveHandler(t) \/ Snapshot(t) \/ PublishReturns(t)
                                \/ \E s \in Subscriptions : EnterHandler(t, s)
      PROVE  MapType'
  BY <1>7, <1>8 DEF LeaveHandler, Snapshot, PublishReturns, EnterHandler
<1> QED
  BY <1>1, <1>2, <1>3, <1>4, <1>5, <1>6, <1>8 DEF BusNext, Bus

\* Steps that leave the map and the removals alone.
LEMMA MapAside ==
    ASSUME NEW t \in Threads,
           \/ LeaveHandler(t) \/ Snapshot(t) \/ PublishReturns(t) \/ Publish(t)
           \/ \E s \in Subscriptions : EnterHandler(t, s)
    PROVE  UNCHANGED <<handlers, next_subscription, enabled, removing, remover>>
BY DEF LeaveHandler, Snapshot, PublishReturns, Publish, EnterHandler

\* An entry leaves the map once.
LEMMA RemovedOnceStep ==
    ASSUME MapType, RemovedOnce, [BusNext]_busVars
    PROVE  RemovedOnce'
<1>1. ASSUME UNCHANGED <<handlers, next_subscription, enabled, removing, remover>>
      PROVE  RemovedOnce'
  BY <1>1 DEF RemovedOnce
<1>2. CASE UNCHANGED busVars
  BY <1>1, <1>2 DEF busVars
<1>3. ASSUME NEW t \in Threads,
             \/ LeaveHandler(t) \/ Snapshot(t) \/ PublishReturns(t) \/ Publish(t)
             \/ \E s \in Subscriptions : EnterHandler(t, s)
      PROVE  RemovedOnce'
  BY <1>1, <1>3, MapAside
<1>4. ASSUME NEW t \in Threads, Subscribe(t)
      PROVE  RemovedOnce'
  <2>1. /\ handlers' = handlers \union {next_subscription}
        /\ next_subscription' = next_subscription + 1
        /\ UNCHANGED <<enabled, removing, remover>>
        /\ next_subscription \in Subscriptions
    BY <1>4 DEF Subscribe
  <2>2. next_subscription \in Nat /\ Subscriptions \subseteq Nat
    BY DepthAssumption DEF MapType, Subscriptions
  <2>3. \A s \in handlers' : s < next_subscription' /\ remover'[s] = {}
    BY <2>1, <2>2 DEF RemovedOnce, MapType
  <2>4. \A s \in Subscriptions : s >= next_subscription' => remover'[s] = {}
    BY <2>1, <2>2 DEF RemovedOnce
  <2> QED
    BY <2>1, <2>3, <2>4 DEF RemovedOnce
<1>5. ASSUME NEW t \in Threads, NEW s \in Subscriptions, Unsubscribe(t, s)
      PROVE  RemovedOnce'
  <2>1. /\ s \in handlers /\ handlers' = handlers \ {s}
        /\ removing' = [removing EXCEPT ![t] = s]
        /\ remover' = [remover EXCEPT ![s] = {t}]
        /\ UNCHANGED <<next_subscription, enabled>>
    BY <1>5 DEF Unsubscribe
  <2>2. /\ remover'[s] = {t} /\ remover[s] = {} /\ s < next_subscription
        /\ \A r \in Subscriptions \ {s} : remover'[r] = remover[r]
    BY <2>1 DEF MapType, RemovedOnce
  <2>3. \A r \in handlers' : r < next_subscription' /\ remover'[r] = {}
    BY <2>1, <2>2 DEF RemovedOnce, MapType
  <2>4. \A r \in Subscriptions : r >= next_subscription' => remover'[r] = {}
    <3>1. next_subscription \in Nat /\ Subscriptions \subseteq Nat
      BY DepthAssumption DEF MapType, Subscriptions
    <3> QED
      BY <3>1, <2>1, <2>2 DEF RemovedOnce
  <2>5. ASSUME NEW u \in Threads, removing'[u] # None
        PROVE  remover'[removing'[u]] = {u}
    <3>1. CASE u = t
      BY <2>1, <2>2, <3>1 DEF MapType
    <3>2. CASE u # t
      <4>1. removing'[u] = removing[u] /\ removing[u] \in Subscriptions
        BY <2>1, <2>5, <3>2 DEF MapType
      <4>2. remover[removing[u]] = {u}
        BY <4>1, <2>5 DEF RemovedOnce
      <4>3. removing[u] # s
        BY <4>2, <2>2
      <4> QED
        BY <4>1, <4>2, <4>3, <2>2
    <3> QED
      BY <3>1, <3>2
  <2>6. \A r \in Subscriptions : ~enabled'[r] => remover'[r] # {}
    BY <2>1, <2>2 DEF RemovedOnce
  <2> QED
    BY <2>3, <2>4, <2>5, <2>6 DEF RemovedOnce
<1>6. ASSUME NEW t \in Threads, Disable(t)
      PROVE  RemovedOnce'
  <2>1. /\ removing[t] # None /\ enabled' = [enabled EXCEPT ![removing[t]] = FALSE]
        /\ UNCHANGED <<handlers, next_subscription, removing, remover>>
    BY <1>6 DEF Disable
  <2>2. remover[removing[t]] = {t} /\ removing[t] \in Subscriptions
    BY <2>1 DEF RemovedOnce, MapType
  <2>3. \A r \in Subscriptions : ~enabled'[r] => remover'[r] # {}
    BY <2>1, <2>2 DEF RemovedOnce, MapType
  <2> QED
    BY <2>1, <2>3 DEF RemovedOnce
<1>7. ASSUME NEW t \in Threads, UnsubscribeReturns(t)
      PROVE  RemovedOnce'
  <2>1. /\ removing' = [removing EXCEPT ![t] = None]
        /\ UNCHANGED <<handlers, next_subscription, enabled, remover>>
    BY <1>7 DEF UnsubscribeReturns
  <2>2. \A u \in Threads : removing'[u] # None => removing'[u] = removing[u]
    BY <2>1 DEF MapType
  <2> QED
    BY <2>1, <2>2 DEF RemovedOnce
<1> QED
  BY <1>2, <1>3, <1>4, <1>5, <1>6, <1>7 DEF BusNext, Bus

\* Once unsubscribe() returned, nobody but the remover is, or gets, inside.
LEMMA OnlyRemoverStep ==
    ASSUME BusInv, [BusNext]_busVars
    PROVE  OnlyRemover'
<1>1. MapType /\ StackType /\ CallsAccounted /\ RemovedOnce /\ OnlyRemover
  BY DEF BusInv
<1>2. \A s \in Subscriptions : CallsStay(s) \/ Enters(s) \/ CallEnds(s)
  BY CallsMove DEF BusInv
<1>3. \A s \in Subscriptions : ~enabled[s] => Calls(s)' \subseteq Calls(s)
  BY <1>2 DEF CallsStay, Enters, CallEnds
<1>4. ASSUME NEW s \in Subscriptions,
             ~enabled[s], \A t \in Threads : removing[t] # s, remover'[s] = remover[s]
      PROVE  \A p \in Calls(s)' : p[1] \in remover'[s]
  BY <1>1, <1>3, <1>4 DEF OnlyRemover
<1>5. ASSUME UNCHANGED <<enabled, removing, remover>>
      PROVE  OnlyRemover'
  BY <1>4, <1>5 DEF OnlyRemover
<1>6. ASSUME NEW t \in Threads,
             \/ LeaveHandler(t) \/ Snapshot(t) \/ PublishReturns(t) \/ Publish(t)
             \/ \E s \in Subscriptions : EnterHandler(t, s)
      PROVE  OnlyRemover'
  BY <1>5, <1>6, MapAside
<1>7. ASSUME NEW t \in Threads, Subscribe(t)
      PROVE  OnlyRemover'
  BY <1>5, <1>7 DEF Subscribe
<1>8. ASSUME NEW t \in Threads, NEW e \in Subscriptions, Unsubscribe(t, e)
      PROVE  OnlyRemover'
  <2>1. /\ removing[t] = None /\ removing' = [removing EXCEPT ![t] = e]
        /\ remover' = [remover EXCEPT ![e] = {t}] /\ enabled' = enabled
    BY <1>8 DEF Unsubscribe, Free
  <2>2. ASSUME NEW s \in Subscriptions,
               ~enabled'[s], \A u \in Threads : removing'[u] # s
        PROVE  \A p \in Calls(s)' : p[1] \in remover'[s]
    <3>1. s # e
      BY <2>1, <2>2, <1>1 DEF MapType
    <3>2. remover'[s] = remover[s]
      BY <3>1, <2>1, <1>1 DEF MapType
    <3>3. \A u \in Threads : removing[u] # s
      BY <2>1, <2>2, <1>1, NoneIsNoSubscription DEF MapType
    <3> QED
      BY <3>2, <3>3, <2>1, <2>2, <1>4
  <2> QED
    BY <2>2 DEF OnlyRemover
<1>9. ASSUME NEW t \in Threads, Disable(t)
      PROVE  OnlyRemover'
  <2>1. /\ enabled' = [enabled EXCEPT ![removing[t]] = FALSE]
        /\ UNCHANGED <<removing, remover>>
    BY <1>9 DEF Disable
  <2>2. ASSUME NEW s \in Subscriptions,
               ~enabled'[s], \A u \in Threads : removing'[u] # s
        PROVE  \A p \in Calls(s)' : p[1] \in remover'[s]
    <3>1. ~enabled[s]
      BY <2>1, <2>2, <1>1 DEF MapType
    <3> QED
      BY <3>1, <2>1, <2>2, <1>4
  <2> QED
    BY <2>2 DEF OnlyRemover
<1>10. ASSUME NEW t \in Threads, UnsubscribeReturns(t)
       PROVE  OnlyRemover'
  <2>1. /\ removing[t] # None /\ Quiesced(t, removing[t])
        /\ removing' = [removing EXCEPT ![t] = None]
        /\ UNCHANGED <<enabled, remover, stack>>
    BY <1>10 DEF UnsubscribeReturns
  <2>2. ASSUME NEW s \in Subscriptions,
               ~enabled'[s], \A u \in Threads : removing'[u] # s
        PROVE  \A p \in Calls(s)' : p[1] \in remover'[s]
    <3>1. CASE s = removing[t]
      <4>1. remover[s] = {t}
        BY <3>1, <2>1, <1>1 DEF RemovedOnce
      <4>2. \A p \in Calls(s) : p[1] = t
        BY <3>1, <2>1, <1>1, QuiescedMeansOwn
      <4> QED
        BY <4>1, <4>2, <2>1, <2>2, <1>3
    <3>2. CASE s # removing[t]
      <4>1. \A u \in Threads : removing[u] # s
        BY <3>2, <2>1, <2>2, <1>1 DEF MapType
      <4> QED
        BY <4>1, <2>1, <2>2, <1>4
    <3> QED
      BY <3>1, <3>2
  <2> QED
    BY <2>2 DEF OnlyRemover
<1>11. CASE UNCHANGED busVars
  BY <1>5, <1>11 DEF busVars
<1> QED
  BY <1>6, <1>7, <1>8, <1>9, <1>10, <1>11 DEF BusNext, Bus

-----------------------------------------------------------------------------
(***************************************************************************)
(* Theorems                                                                *)
(***************************************************************************)

LEMMA InitIInv == BusInit => BusInv
<1> SUFFICES ASSUME BusInit PROVE BusInv
  OBVIOUS
<1>1. MapType
  BY DepthAssumption DEF BusInit, MapType, Subscriptions
<1>2. StackType
  <2>1. \A t \in Threads : stack[t] = <<>>
    BY DEF BusInit
  <2>2. stack \in [Threads -> Seq(Frame)]
    BY DEF BusInit
  <2> QED
    BY <2>1, <2>2, DepthAssumption DEF StackType, Depth
<1>3. CountType
  BY DEF BusInit, CountType
<1>4. \A s : Calls(s) = {}
  BY DEF BusInit, Calls, Depth
<1>5. CallsAccounted
  BY <1>4, FS_EmptySet DEF BusInit, CallsAccounted
<1>6. RemovedOnce
  BY NoneIsNoSubscription DEF BusInit, RemovedOnce
<1>7. OnlyRemover
  BY <1>4 DEF OnlyRemover
<1> QED
  BY <1>1, <1>2, <1>3, <1>5, <1>6, <1>7 DEF BusInv

LEMMA NextIInv == BusInv /\ [BusNext]_busVars => BusInv'
<1> SUFFICES ASSUME BusInv, [BusNext]_busVars PROVE BusInv'
  OBVIOUS
<1>1. MapType /\ StackType /\ CountType /\ CallsAccounted /\ RemovedOnce
  BY DEF BusInv
<1>2. MapType'
  BY <1>1, MapTypeStep
<1>3. /\ StackType' /\ CountType'
      /\ \A s \in Subscriptions : CallsStay(s) \/ Enters(s) \/ CallEnds(s)
  BY <1>1, CallsMove
<1>4. CallsAccounted'
  BY <1>1, <1>3, CallsAccountedStep
<1>5. RemovedOnce'
  BY <1>1, RemovedOnceStep
<1>6. OnlyRemover'
  BY OnlyRemoverStep
<1> QED
  BY <1>2, <1>3, <1>4, <1>5, <1>6 DEF BusInv

\* The invariant is inductive.
THEOREM BusInvariance == BusSpec => []BusInv
<1> QED
  BY InitIInv, NextIInv, PTL DEF BusSpec

\* The bus, for any threads: active_calls is the number of callback frames inside each
\* handler, and once unsubscribe() returned no other thread is inside, or ever enters,
\* the handler it removed.
THEOREM BusIsSafe == BusSpec => []BusSafe
<1>1. ASSUME BusInv PROVE BusSafe
  <2>1. MapType /\ StackType /\ CountType /\ CallsAccounted /\ OnlyRemover
    BY <1>1 DEF BusInv
  <2>2. BusTypeOK
    <3>1. \A s \in Subscriptions :
             active_calls[s] \in 0..(Cardinality(Threads) * MaxDepth)
      BY <2>1, CallsFinite DEF CallsAccounted
    <3> QED
      BY <2>1, <3>1 DEF BusTypeOK, CountType
  <2>3. ASSUME NEW s \in Subscriptions, NEW t \in Threads \ remover[s],
               ~enabled[s], \A u \in Threads : removing[u] # s
        PROVE  CallsOnThisThread(t, s) = 0
    <3>1. \A p \in Calls(s) : p[1] \in remover[s]
      BY <2>1, <2>3 DEF OnlyRemover
    <3>2. {p \in Calls(s) : p[1] = t} = {}
      BY <3>1
    <3> QED
      BY <2>1, <3>2, OwnCalls, FS_EmptySet
  <2>4. RemovedIsQuiet
    BY <2>3 DEF RemovedIsQuiet
  <2> QED
    BY <2>1, <2>2, <2>4 DEF BusSafe
<1> QED
  BY <1>1, BusInvariance, PTL


=============================================================================
