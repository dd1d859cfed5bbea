-------------------------- MODULE ConversationProofs --------------------------
(***************************************************************************)
(* Theorems about Conversation, for any queue bounds and any number of     *)
(* turns and interrupts.                                                   *)
(***************************************************************************)
EXTENDS Conversation, SequenceTheorems, TLAPS

-----------------------------------------------------------------------------
(***************************************************************************)
(* The inductive invariant.  A turn is on the lane when it waits or runs.  *)
(***************************************************************************)

Lane == Active \union {"queued"}

\* Who holds submission_mutex_, and what the owner has already fenced.
Fenced ==
    /\ submission = "audio" <=> audio.at = "submit"
    /\ submission = "interrupt" <=> interrupter = "cancelling"
    /\ submission = "owner" <=> owner = "fencing"
    /\ alive <=> owner = "out"
    /\ owner \in {"waiting", "gone"} => audio.at = "exited"
    /\ owner = "gone" => queue = <<>> /\ \A t \in Turns : turn[t].at \notin Active
    /\ audio.at \in {"overloaded", "forget"} => overloaded
    /\ interrupter = "cancelling" => turn_id = NoTurn /\ owner = "out"

\* The turn being submitted is the newest, and nothing has happened to it yet.
Announced ==
    /\ \A t \in Turns : t >= next_turn_id => turn[t].at = "none"
    /\ \A t \in Turns : turn[t].at = "none" => ~turn[t].cancelled /\ turn[t].speech = "none"
    /\ audio.at = "submit" => /\ audio.turn \in Turns /\ audio.turn + 1 = next_turn_id
                              /\ turn_id = audio.turn
                              /\ turn[audio.turn].at = "none"
                              /\ turn[audio.turn].gen = generation

\* The queue is in order and behind the one turn that runs.
Queued ==
    /\ \A t \in Turns : t \in Elements(queue) <=> turn[t].at = "queued"
    /\ \A i, j \in 1..Len(queue) : i < j => queue[i] < queue[j]
    /\ \A t, u \in Turns : turn[t].at \in Active /\ turn[u].at \in Active => t = u
    /\ \A t, u \in Turns : turn[t].at \in Active /\ turn[u].at = "queued" => t < u

\* A turn that can still produce audio is before the join of its synthesizer.
Voicing == {"thinking", "speak", "pushing", "finishing", "failing"}
Voiced == \A t \in Turns : turn[t].speech \in {"on", "frame"} => turn[t].at \in Voicing

\* On the lane a turn is cancelled when its generation is over, but for the moment
\* between the two steps of an interrupt.
Cut ==
    \A t \in Turns :
        /\ turn[t].gen <= generation
        /\ turn[t].at \in Lane =>
              IF submission = "interrupt" THEN turn[t].gen < generation
              ELSE turn[t].cancelled <=> turn[t].gen # generation

\* state() is about the newest turn of this generation, which is still to end.
Shown ==
    ~overloaded =>
        /\ \A t \in Turns : turn[t].at \in Lane /\ turn[t].gen = generation =>
                               turn_id # NoTurn /\ t <= turn_id
        /\ alive /\ turn_id # NoTurn => /\ turn[turn_id].gen = generation
                                        /\ turn[turn_id].at \in Lane \/ audio.at = "submit"
        /\ alive /\ turn_id = NoTurn => state = "Listening"

IInv == TypeOK /\ Fenced /\ Announced /\ Queued /\ Voiced /\ Cut /\ Shown

-----------------------------------------------------------------------------
(* The queue as a sequence.                                                *)

LEMMA AppendElements ==
  ASSUME NEW S, NEW q \in Seq(S), NEW e \in S
  PROVE  /\ Append(q, e) \in Seq(S) /\ Len(Append(q, e)) = Len(q) + 1 /\ Len(q) \in Nat
         /\ Elements(Append(q, e)) = Elements(q) \union {e}
         /\ \A i \in 1..Len(q) : Append(q, e)[i] = q[i]
         /\ Append(q, e)[Len(q) + 1] = e
  BY DEF Elements

LEMMA TailElements ==
  ASSUME NEW S, NEW q \in Seq(S), q # <<>>,
         \A i, j \in 1..Len(q) : i < j => q[i] # q[j]
  PROVE  /\ Head(q) \in S /\ Tail(q) \in Seq(S) /\ Len(Tail(q)) = Len(q) - 1
         /\ Len(q) \in Nat \ {0} /\ q[1] = Head(q)
         /\ \A i \in 1..Len(Tail(q)) : Tail(q)[i] = q[i + 1]
         /\ Elements(Tail(q)) = Elements(q) \ {Head(q)} /\ Head(q) \in Elements(q)
<1>1. /\ Head(q) \in S /\ Tail(q) \in Seq(S) /\ Len(Tail(q)) = Len(q) - 1
      /\ Len(q) \in Nat \ {0} /\ q[1] = Head(q)
      /\ \A i \in 1..Len(Tail(q)) : Tail(q)[i] = q[i + 1]
  <2>1. Len(q) \in Nat \ {0} /\ Head(q) \in S /\ Tail(q) \in Seq(S)
    BY EmptySeq, LenProperties, HeadTailProperties
  <2>2. Len(Tail(q)) = Len(q) - 1 /\ q[1] = Head(q)
    BY HeadTailProperties
  <2>3. \A i \in 1..Len(Tail(q)) : Tail(q)[i] = q[i + 1]
    BY <2>1, <2>2
  <2> QED
    BY <2>1, <2>2, <2>3
<1>2. ASSUME NEW i \in 1..Len(Tail(q))
      PROVE  Tail(q)[i] \in Elements(q) /\ Tail(q)[i] # Head(q)
  <2>1. i + 1 \in 1..Len(q) /\ 1 \in 1..Len(q) /\ 1 < i + 1
    BY <1>1
  <2>2. q[1] # q[i + 1]
    BY <2>1
  <2> QED
    BY <1>1, <2>1, <2>2 DEF Elements
<1>3. ASSUME NEW i \in 1..Len(q), q[i] # Head(q)
      PROVE  q[i] \in Elements(Tail(q))
  <2>1. i # 1 /\ i - 1 \in 1..Len(Tail(q)) /\ (i - 1) + 1 = i
    BY <1>1, <1>3
  <2>2. Tail(q)[i - 1] = q[i]
    BY <1>1, <2>1
  <2> QED
    BY <2>1, <2>2 DEF Elements
<1>4. Head(q) \in Elements(q)
  BY <1>1 DEF Elements
<1>5. Elements(Tail(q)) \subseteq Elements(q) \ {Head(q)}
  BY <1>2 DEF Elements
<1>6. Elements(q) \ {Head(q)} \subseteq Elements(Tail(q))
  BY <1>3 DEF Elements
<1> QED
  BY <1>1, <1>4, <1>5, <1>6

-----------------------------------------------------------------------------
(***************************************************************************)
(* The steps.  What the running turn and its synthesizer do comes down to  *)
(* Works: the turn stays on the lane or leaves it, and only a turn of the  *)
(* current generation touches state() on the way.                          *)
(***************************************************************************)

Works(t) ==
    /\ turn[t].at \in Active
    /\ \A u \in Turns : u # t => turn'[u] = turn[u]
    /\ turn'[t].at \in Active \union {"over"}
    /\ turn'[t].gen = turn[t].gen /\ turn'[t].cancelled = turn[t].cancelled
    /\ turn'[t].speech \in {"on", "frame"} => turn'[t].at \in Voicing
    /\ LaneType'
    /\ UNCHANGED <<generation, alive, submission, input, queue, others, overloaded>>
    /\ \/ /\ UNCHANGED <<state, turn_id>>
          /\ turn'[t].at = "over" => ~alive \/ ~Clears(t)
       \/ /\ Current(t) /\ state' = "Speaking" /\ turn_id' = turn_id
          /\ turn'[t].at # "over"
       \/ /\ Clears(t) /\ state' = "Listening" /\ turn_id' = NoTurn
          /\ turn'[t].at = "over"

Moves == \/ PushAudio \/ TakeFrame \/ AudioExits \/ RecognizerReturns
         \/ Submit \/ SubmitOverloaded \/ OverloadListens \/ OverloadForgets \/ Announce
         \/ LaneTakes \/ \E t \in Turns : Works(t)
         \/ Interrupt \/ InterruptCancels
         \/ DestroyBegins \/ DestroyCancels \/ DestroyStops \/ DestroyJoins \/ DestroyReturns

LEMMA WorksMoves ==
  ASSUME IInv, NEW t \in Turns, LaneWorker(t) \/ Synthesizer(t)
  PROVE  Works(t)
<1> USE DEF Works, control, input, lane, others, Active, Voicing
<1>0. LaneType /\ Voiced
  BY DEF IInv, TypeOK
<1>1. CASE SpeakAsked(t)
  <2>1. PICK a \in {"speak", "failing"} :
           turn' = [turn EXCEPT ![t].at = a]
    BY <1>0, <1>1 DEF SpeakAsked, Turn
  <2>2. turn' \in [Turns -> TurnRecord]
    <3>1. turn[t] \in TurnRecord
      BY <1>0 DEF LaneType
    <3>2. turn'[t] \in TurnRecord
      BY <1>0, <2>1, <3>1 DEF LaneType, TurnRecord
    <3>3. turn' = [turn EXCEPT ![t] = turn'[t]]
      BY <1>0, <2>1 DEF LaneType
    <3> QED
      BY <1>0, <3>2, <3>3 DEF LaneType
  <2>3. /\ UNCHANGED <<control, input, queue, others, overloaded>>
        /\ turn[t].at \in Active
    BY <1>1 DEF SpeakAsked, Turn
  <2> QED
    BY <1>0, <2>1, <2>2, <2>3 DEF LaneType, TurnRecord
<1>2. CASE SpeakStarts(t)
  <2>1. turn[t].at = "speak"
        /\ UNCHANGED <<turn_id, generation, alive, submission, input, queue, others, overloaded>>
    BY <1>2 DEF SpeakStarts
  <2>2. CASE Current(t)
    <3>1. turn' = [turn EXCEPT ![t].at = "thinking", ![t].speech = "on"] /\ state' = "Speaking"
      BY <1>2, <2>2 DEF SpeakStarts, Speaks
    <3> QED
      BY <1>0, <2>1, <2>2, <3>1 DEF LaneType, TurnRecord
  <2>3. CASE ~Current(t)
    <3>1. /\ turn' = [turn EXCEPT ![t].at = "failing", ![t].speech = turn[t].speech]
          /\ state' = state
      BY <1>2, <2>3 DEF SpeakStarts, Speaks
    <3> QED
      BY <1>0, <2>1, <3>1 DEF LaneType, TurnRecord
  <2> QED
    BY <2>2, <2>3
<1>3. CASE Throws(t)
  BY <1>0, <1>3 DEF Throws, LaneType, TurnRecord, Voiced, Turn
<1>4. CASE ReplyDone(t)
  BY <1>0, <1>4 DEF ReplyDone, LaneType, TurnRecord, Voiced, Turn
<1>5. CASE FinishSpeech(t)
  <2>1. PICK a \in {"verdict", "failing"} :
           /\ turn' = [turn EXCEPT ![t].at = a, ![t].speech = "off"]
           /\ turn[t].at = "finishing"
    BY <1>0, <1>5 DEF FinishSpeech
  <2>2. turn' \in [Turns -> TurnRecord]
    <3>1. turn[t] \in TurnRecord
      BY <1>0 DEF LaneType
    <3>2. turn'[t] \in TurnRecord
      BY <1>0, <2>1, <3>1 DEF LaneType, TurnRecord
    <3>3. turn' = [turn EXCEPT ![t] = turn'[t]]
      BY <1>0, <2>1 DEF LaneType
    <3> QED
      BY <1>0, <3>2, <3>3 DEF LaneType
  <2>3. /\ UNCHANGED <<control, input, queue, others, overloaded>>
        /\ turn[t].at \in Active
    BY <1>5 DEF FinishSpeech
  <2> QED
    BY <1>0, <2>1, <2>2, <2>3 DEF LaneType, TurnRecord
<1>6. CASE Verdict(t)
  <2>1. turn[t].at = "verdict" /\ UNCHANGED <<control, input, queue, others, overloaded>>
    BY <1>6 DEF Verdict
  <2>2. turn[t].speech \notin {"on", "frame"}
    BY <1>0, <2>1 DEF Voiced
  <2>3. CASE turn' = [turn EXCEPT ![t].at = "clearing", ![t].told = "completed"]
    BY <1>0, <2>1, <2>2, <2>3 DEF LaneType, TurnRecord
  <2>4. CASE turn' = [turn EXCEPT ![t].at = "failing"]
    BY <1>0, <2>1, <2>2, <2>4 DEF LaneType, TurnRecord
  <2> QED
    BY <1>6, <2>3, <2>4 DEF Verdict
<1>7. CASE DrainSpeech(t)
  <2>1. PICK v \in {"none", "off"} :
           /\ turn' = [turn EXCEPT ![t].at = "report", ![t].speech = v]
           /\ turn[t].at = "failing"
    BY <1>0, <1>7 DEF DrainSpeech, Drained
  <2>2. turn' \in [Turns -> TurnRecord]
    <3>1. turn[t] \in TurnRecord
      BY <1>0 DEF LaneType
    <3>2. turn'[t] \in TurnRecord
      BY <1>0, <2>1, <3>1 DEF LaneType, TurnRecord
    <3>3. turn' = [turn EXCEPT ![t] = turn'[t]]
      BY <1>0, <2>1 DEF LaneType
    <3> QED
      BY <1>0, <3>2, <3>3 DEF LaneType
  <2>3. /\ UNCHANGED <<control, input, queue, others, overloaded>>
        /\ turn[t].at \in Active
    BY <1>7 DEF DrainSpeech, Drained
  <2> QED
    BY <1>0, <2>1, <2>2, <2>3 DEF LaneType, TurnRecord
<1>8. CASE ReportFailure(t)
  BY <1>0, <1>8 DEF ReportFailure, Current, LaneType, TurnRecord, Voiced
<1>9. CASE ClearState(t)
  BY <1>0, <1>9 DEF ClearState, Clears, Current, LaneType, TurnRecord, Voiced,
     Turn
<1>10. CASE FrameChecked(t)
  BY <1>0, <1>10 DEF FrameChecked, LaneType, TurnRecord, Voiced
<1>11. CASE FrameSunk(t)
  BY <1>0, <1>11 DEF FrameSunk, LaneType, TurnRecord, Voiced
<1>12. CASE Push(t)
  <2>1. PICK a \in {"thinking", "pushing"} : turn' = [turn EXCEPT ![t].at = a]
    BY <1>12 DEF Push, Turn
  <2>2. /\ UNCHANGED <<control, input, queue, others, overloaded>>
        /\ turn[t].at \in Active
    BY <1>12 DEF Push
  <2> QED
    BY <1>0, <2>1, <2>2 DEF LaneType, TurnRecord
<1>13. CASE PushReturns(t)
  BY <1>0, <1>13 DEF PushReturns, LaneType, TurnRecord, Voiced, Turn
<1>14. CASE SynthesizerLeaves(t)
  BY <1>0, <1>14 DEF SynthesizerLeaves, LaneType, TurnRecord, Voiced
<1> QED
  BY <1>1, <1>2, <1>3, <1>4, <1>5, <1>6, <1>7, <1>8, <1>9, <1>10, <1>11, <1>12, <1>13,
     <1>14 DEF LaneWorker, Synthesizer

LEMMA NextMoves ==
  ASSUME IInv, Next
  PROVE  Moves \/ UNCHANGED vars
  BY WorksMoves DEF Next, AudioWorker, Owner, Gone, Moves

\* session_.cancel(), turn by turn.
LEMMA LaneIsCancelled ==
  ASSUME IInv, CancelLane
  PROVE  /\ queue' = <<>> /\ LaneType'
         /\ \A t \in Turns :
               /\ turn'[t].at = IF turn[t].at = "queued" THEN "dropped" ELSE turn[t].at
               /\ turn'[t].cancelled = IF turn[t].at \in Lane THEN TRUE ELSE turn[t].cancelled
               /\ turn'[t].gen = turn[t].gen /\ turn'[t].speech = turn[t].speech
<1>1. LaneType /\ \A t \in Turns : t \in Elements(queue) <=> turn[t].at = "queued"
  BY DEF IInv, TypeOK, Queued
<1>2. \A t \in Turns : t \in Running <=> turn[t].at \in Active
  BY DEF Running
<1>3. ASSUME NEW t \in Turns
      PROVE  /\ turn'[t].at = IF turn[t].at = "queued" THEN "dropped" ELSE turn[t].at
             /\ turn'[t].cancelled = IF turn[t].at \in Lane THEN TRUE ELSE turn[t].cancelled
             /\ turn'[t].gen = turn[t].gen /\ turn'[t].speech = turn[t].speech
  BY <1>1, <1>2 DEF CancelLane, Lane, Active, LaneType, TurnRecord
<1>4. turn' \in [Turns -> TurnRecord]
  BY <1>1 DEF CancelLane, LaneType, TurnRecord
<1>5. queue' = <<>> /\ queue' \in Seq(Turns) /\ Len(queue') <= MaxPending
  <2>1. queue' = <<>>
    BY DEF CancelLane
  <2>2. <<>> \in Seq(Turns)
    OBVIOUS
  <2>3. Len(<<>>) <= MaxPending
    BY LimitAssumption
  <2> QED
    BY <2>1, <2>2, <2>3
<1> QED
  BY <1>3, <1>4, <1>5 DEF LaneType

\* The lane starts the turn that waits longest.
LEMMA LaneStarts ==
  ASSUME IInv, LaneTakes
  PROVE  \E h \in Turns :
            /\ turn[h].at = "queued" /\ turn' = [turn EXCEPT ![h].at = "thinking"]
            /\ queue' \in Seq(Turns) /\ Len(queue') <= MaxPending
            /\ \A t \in Turns : t \in Elements(queue') <=> t \in Elements(queue) /\ t # h
            /\ \A t \in Turns : turn[t].at \notin Active
            /\ \A t \in Turns : turn[t].at = "queued" /\ t # h => h < t
            /\ \A i, j \in 1..Len(queue') : i < j => queue'[i] < queue'[j]
<1> DEFINE h == Head(queue)
           S == Turns
<1>1. /\ queue \in Seq(S) /\ queue # <<>> /\ S \subseteq Nat
      /\ \A i \in 1..Len(queue) : queue[i] \in Nat
      /\ \A i, j \in 1..Len(queue) : i < j => queue[i] < queue[j]
  BY BoundAssumption, ElementOfSeq DEF IInv, TypeOK, LaneType, LaneTakes, Queued, Turns
<1>2. \A i, j \in 1..Len(queue) : i < j => queue[i] # queue[j]
  BY <1>1
<1> HIDE DEF S
<1>3. /\ Head(queue) \in S /\ Tail(queue) \in Seq(S) /\ Len(Tail(queue)) = Len(queue) - 1
      /\ Len(queue) \in Nat \ {0} /\ queue[1] = Head(queue)
      /\ \A i \in 1..Len(Tail(queue)) : Tail(queue)[i] = queue[i + 1]
      /\ Elements(Tail(queue)) = Elements(queue) \ {Head(queue)} /\ Head(queue) \in Elements(queue)
  BY <1>1, <1>2, TailElements
<1>4. queue' = Tail(queue) /\ turn' = [turn EXCEPT ![h].at = "thinking"]
  BY DEF LaneTakes, Turn
<1>5. h \in Turns /\ turn[h].at = "queued"
  BY <1>3 DEF S, IInv, Queued
<1>6. \A t \in Turns : turn[t].at \notin Active
  BY DEF LaneTakes, Running
<1>7. ASSUME NEW t \in Turns, turn[t].at = "queued", t # h  PROVE  h < t
  <2>1. PICK i \in 1..Len(queue) : t = queue[i]
    BY <1>7 DEF IInv, Queued, Elements
  <2>2. i # 1 /\ 1 \in 1..Len(queue) /\ 1 < i
    BY <1>3, <1>7, <2>1
  <2> QED
    BY <1>1, <1>3, <2>1, <2>2
<1>8. ASSUME NEW i \in 1..Len(queue'), NEW j \in 1..Len(queue'), i < j
      PROVE  queue'[i] < queue'[j]
  <2>1. i + 1 \in 1..Len(queue) /\ j + 1 \in 1..Len(queue) /\ i + 1 < j + 1
    BY <1>3, <1>4, <1>8
  <2> QED
    BY <1>1, <1>3, <1>4, <2>1
<1>9. Len(queue') <= MaxPending
  BY <1>3, <1>4, LimitAssumption DEF IInv, TypeOK, LaneType
<1>10. \A t \in Turns : t \in Elements(queue') <=> t \in Elements(queue) /\ t # h
  BY <1>3, <1>4
<1>11. queue' \in Seq(Turns)
  BY <1>3, <1>4 DEF S
<1> HIDE DEF h
<1> QED
  BY <1>4, <1>5, <1>6, <1>7, <1>8, <1>9, <1>10, <1>11

-----------------------------------------------------------------------------
(* Types.                                                                  *)

LEMMA ControlTypeStep ==
  ASSUME IInv, Moves
  PROVE  ControlType'
<1> USE DEF IInv, TypeOK, control, input, lane, others, ControlType
<1>1. CASE PushAudio
  BY <1>1 DEF PushAudio, HasRoom
<1>2. CASE TakeFrame
  BY <1>2 DEF TakeFrame
<1>3. CASE AudioExits
  BY <1>3 DEF AudioExits, AudioLeaves
<1>4. CASE RecognizerReturns
  BY <1>4 DEF RecognizerReturns
<1>5. CASE Submit
  BY <1>5 DEF Submit, Full
<1>6. CASE SubmitOverloaded
  BY <1>6 DEF SubmitOverloaded
<1>7. CASE OverloadListens
  BY <1>7 DEF OverloadListens
<1>8. CASE OverloadForgets
  BY <1>8 DEF OverloadForgets
<1>9. CASE Announce
  <2>1. next_turn_id \in Turns \union {NoTurn}
    BY <1>9 DEF Announce
  <2> QED
    BY <1>9, <2>1 DEF Announce, Holder
<1>10. CASE LaneTakes
  BY <1>10 DEF LaneTakes, Turn
<1>11. ASSUME NEW t \in Turns, Works(t)  PROVE  ControlType'
  BY <1>11 DEF Works
<1>12. CASE Interrupt
  BY <1>12 DEF Interrupt
<1>13. CASE InterruptCancels
  BY <1>13 DEF InterruptCancels
<1>14. CASE DestroyBegins
  BY <1>14 DEF DestroyBegins
<1>15. CASE DestroyCancels
  BY <1>15 DEF DestroyCancels
<1>16. CASE DestroyStops
  BY <1>16 DEF DestroyStops
<1>17. CASE DestroyJoins
  BY <1>17 DEF DestroyJoins
<1>18. CASE DestroyReturns
  BY <1>18 DEF DestroyReturns, TurnsEnded
<1> QED
  BY <1>1, <1>2, <1>3, <1>4, <1>5, <1>6, <1>7, <1>8, <1>9, <1>10, <1>11, <1>12,
     <1>13, <1>14, <1>15, <1>16, <1>17, <1>18 DEF
     Moves

LEMMA InputTypeStep ==
  ASSUME IInv, Moves
  PROVE  InputType'
<1> USE DEF IInv, TypeOK, control, input, lane, others, InputType
<1>1. CASE PushAudio
  BY <1>1, LimitAssumption DEF PushAudio, HasRoom
<1>2. CASE TakeFrame
  BY <1>2, LimitAssumption DEF TakeFrame
<1>3. CASE AudioExits
  BY <1>3 DEF AudioExits, AudioLeaves
<1>4. CASE RecognizerReturns
  BY <1>4 DEF RecognizerReturns
<1>5. CASE Submit
  BY <1>5 DEF Submit, Full
<1>6. CASE SubmitOverloaded
  BY <1>6 DEF SubmitOverloaded
<1>7. CASE OverloadListens
  BY <1>7 DEF OverloadListens
<1>8. CASE OverloadForgets
  BY <1>8 DEF OverloadForgets
<1>9. CASE Announce
  <2>1. next_turn_id' \in 1..(MaxTurns + 1) /\ next_turn_id \in Turns
    BY <1>9, BoundAssumption DEF Announce, Turns
  <2>2. audio' = [at |-> "submit", turn |-> next_turn_id]
        /\ UNCHANGED <<audio_queue, stopping>>
    BY <1>9 DEF Announce
  <2> QED
    BY <2>1, <2>2
<1>10. CASE LaneTakes
  BY <1>10 DEF LaneTakes, Turn
<1>11. ASSUME NEW t \in Turns, Works(t)  PROVE  InputType'
  BY <1>11 DEF Works
<1>12. CASE Interrupt
  BY <1>12 DEF Interrupt
<1>13. CASE InterruptCancels
  BY <1>13 DEF InterruptCancels
<1>14. CASE DestroyBegins
  BY <1>14 DEF DestroyBegins
<1>15. CASE DestroyCancels
  BY <1>15 DEF DestroyCancels
<1>16. CASE DestroyStops
  <2>1. 0 \in 0..MaxAudioFrames
    BY LimitAssumption
  <2> QED
    BY <1>16, <2>1 DEF DestroyStops
<1>17. CASE DestroyJoins
  BY <1>17 DEF DestroyJoins
<1>18. CASE DestroyReturns
  BY <1>18 DEF DestroyReturns, TurnsEnded
<1> QED
  BY <1>1, <1>2, <1>3, <1>4, <1>5, <1>6, <1>7, <1>8, <1>9, <1>10, <1>11, <1>12,
     <1>13, <1>14, <1>15, <1>16, <1>17, <1>18 DEF
     Moves

LEMMA LaneTypeStep ==
  ASSUME IInv, Moves
  PROVE  LaneType'
<1> USE DEF LaneType, control, input, lane, others
<1>0. LaneType /\ ControlType
  BY DEF IInv, TypeOK
<1>1. CASE PushAudio
  BY <1>1, <1>0 DEF PushAudio, HasRoom
<1>2. CASE TakeFrame
  BY <1>2, <1>0 DEF TakeFrame
<1>3. CASE AudioExits
  BY <1>3, <1>0 DEF AudioExits, AudioLeaves
<1>4. CASE RecognizerReturns
  BY <1>4, <1>0 DEF RecognizerReturns
<1>5. CASE Submit
  <2> DEFINE S == Turns
  <2>1. queue \in Seq(S) /\ audio.turn \in S
    BY <1>0, <1>5 DEF Submit, IInv, Announced
  <2>2. queue' = Append(queue, audio.turn)
    BY <1>5 DEF Submit
  <2>3. queue' \in Seq(S) /\ Len(queue') = Len(queue) + 1 /\ Len(queue) \in Nat
    <3> HIDE DEF S
    <3> QED
      BY <2>1, <2>2, AppendElements
  <2>4. Len(queue') <= MaxPending
    BY <1>5, <2>3, LimitAssumption DEF Submit, Full
  <2>5. turn' \in [Turns -> TurnRecord]
    BY <1>0, <1>5, <2>1 DEF Submit, TurnRecord
  <2> QED
    BY <2>3, <2>4, <2>5
<1>6. CASE SubmitOverloaded
  <2>1. turn' \in [Turns -> TurnRecord]
    BY <1>0, <1>6 DEF SubmitOverloaded, TurnRecord
  <2> QED
    BY <1>0, <1>6, <2>1 DEF SubmitOverloaded
<1>7. CASE OverloadListens
  BY <1>7, <1>0 DEF OverloadListens
<1>8. CASE OverloadForgets
  BY <1>8, <1>0 DEF OverloadForgets
<1>9. CASE Announce
  <2>1. turn' \in [Turns -> TurnRecord]
    BY <1>0, <1>9 DEF Announce, TurnRecord, ControlType
  <2> QED
    BY <1>0, <1>9, <2>1 DEF Announce
<1>10. CASE LaneTakes
  <2>1. PICK h \in Turns : /\ turn' = [turn EXCEPT ![h].at = "thinking"]
                            /\ queue' \in Seq(Turns) /\ Len(queue') <= MaxPending
    BY <1>10, LaneStarts
  <2>2. turn' \in [Turns -> TurnRecord]
    BY <1>0, <2>1 DEF TurnRecord, Active
  <2> QED
    BY <2>1, <2>2
<1>11. ASSUME NEW t \in Turns, Works(t)  PROVE  LaneType'
  BY <1>11 DEF Works
<1>12. CASE Interrupt
  BY <1>12, <1>0 DEF Interrupt
<1>13. CASE InterruptCancels
  BY <1>13, LaneIsCancelled DEF InterruptCancels
<1>14. CASE DestroyBegins
  BY <1>14, <1>0 DEF DestroyBegins
<1>15. CASE DestroyCancels
  BY <1>15, LaneIsCancelled DEF DestroyCancels
<1>16. CASE DestroyStops
  BY <1>16, <1>0 DEF DestroyStops
<1>17. CASE DestroyJoins
  BY <1>17, <1>0 DEF DestroyJoins
<1>18. CASE DestroyReturns
  BY <1>18, <1>0 DEF DestroyReturns, TurnsEnded
<1> QED
  BY <1>1, <1>2, <1>3, <1>4, <1>5, <1>6, <1>7, <1>8, <1>9, <1>10, <1>11, <1>12,
     <1>13, <1>14, <1>15, <1>16, <1>17, <1>18 DEF
     Moves

LEMMA OthersTypeStep ==
  ASSUME IInv, Moves
  PROVE  OthersType'
<1> USE DEF IInv, TypeOK, control, input, lane, others, OthersType
<1>1. CASE PushAudio
  BY <1>1 DEF PushAudio, HasRoom
<1>2. CASE TakeFrame
  BY <1>2 DEF TakeFrame
<1>3. CASE AudioExits
  BY <1>3 DEF AudioExits, AudioLeaves
<1>4. CASE RecognizerReturns
  BY <1>4 DEF RecognizerReturns
<1>5. CASE Submit
  BY <1>5 DEF Submit, Full
<1>6. CASE SubmitOverloaded
  BY <1>6 DEF SubmitOverloaded
<1>7. CASE OverloadListens
  BY <1>7 DEF OverloadListens
<1>8. CASE OverloadForgets
  BY <1>8 DEF OverloadForgets
<1>9. CASE Announce
  BY <1>9 DEF Announce, Holder
<1>10. CASE LaneTakes
  BY <1>10 DEF LaneTakes, Turn
<1>11. ASSUME NEW t \in Turns, Works(t)  PROVE  OthersType'
  BY <1>11 DEF Works
<1>12. CASE Interrupt
  BY <1>12 DEF Interrupt
<1>13. CASE InterruptCancels
  BY <1>13 DEF InterruptCancels
<1>14. CASE DestroyBegins
  BY <1>14 DEF DestroyBegins
<1>15. CASE DestroyCancels
  BY <1>15 DEF DestroyCancels
<1>16. CASE DestroyStops
  BY <1>16 DEF DestroyStops
<1>17. CASE DestroyJoins
  BY <1>17 DEF DestroyJoins
<1>18. CASE DestroyReturns
  BY <1>18 DEF DestroyReturns, TurnsEnded
<1> QED
  BY <1>1, <1>2, <1>3, <1>4, <1>5, <1>6, <1>7, <1>8, <1>9, <1>10, <1>11, <1>12,
     <1>13, <1>14, <1>15, <1>16, <1>17, <1>18 DEF
     Moves

-----------------------------------------------------------------------------
(* The fences.                                                             *)

LEMMA FencedStep ==
  ASSUME IInv, Moves
  PROVE  Fenced'
<1> USE DEF Fenced, control, input, others, lane
<1>0. Fenced /\ ControlType
  BY DEF IInv, TypeOK
<1>1. CASE PushAudio
  BY <1>1, <1>0 DEF PushAudio, HasRoom
<1>2. CASE TakeFrame
  BY <1>2, <1>0 DEF TakeFrame
<1>3. CASE AudioExits
  BY <1>3, <1>0 DEF AudioExits, AudioLeaves
<1>4. CASE RecognizerReturns
  BY <1>4, <1>0 DEF RecognizerReturns
<1>5. CASE Submit
  BY <1>5, <1>0, <1>0 DEF Submit, Full
<1>6. CASE SubmitOverloaded
  BY <1>6, <1>0 DEF SubmitOverloaded
<1>7. CASE OverloadListens
  BY <1>7, <1>0 DEF OverloadListens
<1>8. CASE OverloadForgets
  BY <1>8, <1>0 DEF OverloadForgets
<1>9. CASE Announce
  BY <1>9, <1>0 DEF Announce, Holder
<1>10. CASE LaneTakes
  <2>1. owner # "gone"
    BY <1>0, <1>10 DEF LaneTakes
  <2> QED
    BY <1>0, <1>10, <2>1 DEF LaneTakes
<1>11. ASSUME NEW t \in Turns, Works(t)  PROVE  Fenced'
  <2>1. turn[t].at \in Active /\ owner # "gone"
    BY <1>0, <1>11 DEF Works
  <2>2. UNCHANGED <<submission, alive, audio, overloaded, interrupter, owner>>
    BY <1>11 DEF Works
  <2>3. turn_id' = turn_id \/ turn_id' = NoTurn
    BY <1>11 DEF Works
  <2> QED
    BY <1>0, <2>1, <2>2, <2>3
<1>12. CASE Interrupt
  BY <1>12, <1>0 DEF Interrupt
<1>13. CASE InterruptCancels
  <2>1. owner = "out"
    BY <1>0, <1>13 DEF InterruptCancels
  <2> QED
    BY <1>0, <1>13, <2>1 DEF InterruptCancels
<1>14. CASE DestroyBegins
  BY <1>14, <1>0 DEF DestroyBegins
<1>15. CASE DestroyCancels
  BY <1>15, <1>0 DEF DestroyCancels
<1>16. CASE DestroyStops
  BY <1>16, <1>0 DEF DestroyStops
<1>17. CASE DestroyJoins
  BY <1>17, <1>0 DEF DestroyJoins
<1>18. CASE DestroyReturns
  <2>1. queue = <<>> /\ \A t \in Turns : turn[t].at \notin Active
    BY <1>18 DEF DestroyReturns, TurnsEnded, Running
  <2> QED
    BY <1>0, <1>18, <2>1 DEF DestroyReturns
<1> QED
  BY <1>1, <1>2, <1>3, <1>4, <1>5, <1>6, <1>7, <1>8, <1>9, <1>10, <1>11, <1>12,
     <1>13, <1>14, <1>15, <1>16, <1>17, <1>18 DEF
     Moves

-----------------------------------------------------------------------------
(* The turn being submitted, and the lane behind it.                       *)

LEMMA AnnouncedStep ==
  ASSUME IInv, Moves
  PROVE  Announced'
<1> USE DEF Announced, control, input, lane, others
<1>0. Announced /\ Fenced /\ InputType /\ LaneType
  BY DEF IInv, TypeOK
<1> USE DEF InputType
<1>1. CASE PushAudio
  BY <1>1, <1>0 DEF PushAudio, HasRoom
<1>2. CASE TakeFrame
  BY <1>2, <1>0 DEF TakeFrame
<1>3. CASE AudioExits
  BY <1>3, <1>0 DEF AudioExits, AudioLeaves
<1>4. CASE RecognizerReturns
  BY <1>4, <1>0 DEF RecognizerReturns
<1>5. CASE Submit
  <2>1. /\ turn' = [turn EXCEPT ![audio.turn].at = "queued"] /\ audio.turn \in Turns
        /\ audio'.at = "asr" /\ next_turn_id' = next_turn_id /\ audio.turn + 1 = next_turn_id
    BY <1>0, <1>5 DEF Submit
  <2>2. audio.turn \in Nat /\ \A t \in Turns : t \in Nat
    BY <2>1, BoundAssumption DEF Turns
  <2> QED
    BY <1>0, <2>1, <2>2 DEF LaneType, TurnRecord
<1>6. CASE SubmitOverloaded
  <2>1. /\ turn' = [turn EXCEPT ![audio.turn].at = "refused"] /\ audio.turn \in Turns
        /\ audio'.at = "overloaded" /\ next_turn_id' = next_turn_id
        /\ audio.turn + 1 = next_turn_id
    BY <1>0, <1>6 DEF SubmitOverloaded
  <2>2. audio.turn \in Nat /\ \A t \in Turns : t \in Nat
    BY <2>1, BoundAssumption DEF Turns
  <2> QED
    BY <1>0, <2>1, <2>2 DEF LaneType, TurnRecord
<1>7. CASE OverloadListens
  BY <1>7, <1>0 DEF OverloadListens
<1>8. CASE OverloadForgets
  BY <1>8, <1>0 DEF OverloadForgets
<1>9. CASE Announce
  <2>1. /\ turn' = [turn EXCEPT ![next_turn_id].gen = generation] /\ next_turn_id \in Turns
        /\ audio' = [at |-> "submit", turn |-> next_turn_id]
        /\ next_turn_id' = next_turn_id + 1 /\ turn_id' = next_turn_id
        /\ generation' = generation
    BY <1>9 DEF Announce
  <2>2. next_turn_id \in Nat /\ \A t \in Turns : t \in Nat
    BY <2>1, BoundAssumption DEF Turns
  <2>3. turn[next_turn_id].at = "none"
    BY <1>0, <2>1, <2>2
  <2> QED
    BY <1>0, <2>1, <2>2, <2>3 DEF LaneType, TurnRecord
<1>10. CASE LaneTakes
  <2>1. PICK h \in Turns : /\ turn[h].at = "queued"
                            /\ turn' = [turn EXCEPT ![h].at = "thinking"]
    BY <1>10, LaneStarts
  <2>2. UNCHANGED <<audio, next_turn_id, turn_id, generation>>
    BY <1>10 DEF LaneTakes
  <2> QED
    BY <1>0, <2>1, <2>2 DEF LaneType, TurnRecord
<1>11. ASSUME NEW t \in Turns, Works(t)  PROVE  Announced'
  <2>1. /\ turn[t].at \in Active /\ turn'[t].at \in Active \union {"over"}
        /\ \A u \in Turns : u # t => turn'[u] = turn[u]
        /\ UNCHANGED <<audio, next_turn_id, generation>>
    BY <1>11 DEF Works
  <2>2. turn[t].at # "none" /\ turn'[t].at # "none"
    BY <2>1 DEF Active
  <2>3. audio.at = "submit" => turn_id' = turn_id
    BY <1>0, <1>11, <2>2 DEF Works, Clears
  <2> QED
    BY <1>0, <2>1, <2>2, <2>3
<1>12. CASE Interrupt
  <2>1. audio'.at # "submit" /\ UNCHANGED <<turn, next_turn_id>>
    BY <1>0, <1>12 DEF Interrupt, Fenced
  <2> QED
    BY <1>0, <2>1
<1>13. CASE InterruptCancels
  <2>1. audio'.at # "submit" /\ next_turn_id' = next_turn_id
    BY <1>0, <1>13 DEF InterruptCancels, Fenced
  <2>2. \A t \in Turns : /\ turn[t].at = "none" => turn'[t].at = "none"
                         /\ turn'[t].at = "none" => /\ turn[t].at = "none"
                               /\ turn'[t].cancelled = turn[t].cancelled
                               /\ turn'[t].speech = turn[t].speech
    BY <1>13, LaneIsCancelled DEF InterruptCancels, Lane, Active
  <2> QED
    BY <1>0, <2>1, <2>2
<1>14. CASE DestroyBegins
  BY <1>14, <1>0 DEF DestroyBegins
<1>15. CASE DestroyCancels
  <2>1. audio'.at # "submit" /\ next_turn_id' = next_turn_id
    BY <1>0, <1>15 DEF DestroyCancels, Fenced
  <2>2. \A t \in Turns : /\ turn[t].at = "none" => turn'[t].at = "none"
                         /\ turn'[t].at = "none" => /\ turn[t].at = "none"
                               /\ turn'[t].cancelled = turn[t].cancelled
                               /\ turn'[t].speech = turn[t].speech
    BY <1>15, LaneIsCancelled DEF DestroyCancels, Lane, Active
  <2> QED
    BY <1>0, <2>1, <2>2
<1>16. CASE DestroyStops
  BY <1>16, <1>0 DEF DestroyStops
<1>17. CASE DestroyJoins
  BY <1>17, <1>0 DEF DestroyJoins
<1>18. CASE DestroyReturns
  BY <1>18, <1>0 DEF DestroyReturns, TurnsEnded
<1> QED
  BY <1>1, <1>2, <1>3, <1>4, <1>5, <1>6, <1>7, <1>8, <1>9, <1>10, <1>11, <1>12,
     <1>13, <1>14, <1>15, <1>16, <1>17, <1>18 DEF
     Moves

LEMMA QueuedStep ==
  ASSUME IInv, Moves
  PROVE  Queued'
<1> USE DEF Queued, control, input, lane, others
<1>0. Queued /\ Announced /\ LaneType
  BY DEF IInv, TypeOK
<1>a. \A t \in Turns : t \in Nat
  BY BoundAssumption DEF Turns
<1>1. CASE \/ PushAudio \/ TakeFrame \/ AudioExits \/ RecognizerReturns
          \/ OverloadListens \/ OverloadForgets \/ Interrupt \/ DestroyBegins
          \/ DestroyStops \/ DestroyJoins \/ DestroyReturns
  <2>1. UNCHANGED <<turn, queue>>
    BY <1>1 DEF PushAudio, TakeFrame, AudioExits, RecognizerReturns, OverloadListens,
       OverloadForgets, Interrupt, DestroyBegins, DestroyStops, DestroyJoins,
       DestroyReturns
  <2> QED
    BY <1>0, <2>1 DEF Elements
<1>2. CASE Submit
  <2> DEFINE n == audio.turn
             S == Turns
  <2>1. /\ turn' = [turn EXCEPT ![n].at = "queued"] /\ n \in Turns /\ turn[n].at = "none"
        /\ queue' = Append(queue, n) /\ n + 1 = next_turn_id /\ queue \in Seq(S)
        /\ n \in S
    BY <1>0, <1>2 DEF Submit, Announced, LaneType
  <2>2. \A t \in Turns : turn[t].at # "none" => t < n
    BY <1>0, <1>a, <2>1 DEF Announced
  <2> HIDE DEF S, n
  <2>3. /\ Len(queue') = Len(queue) + 1 /\ Len(queue) \in Nat
        /\ Elements(queue') = Elements(queue) \union {n}
        /\ \A i \in 1..Len(queue) : queue'[i] = queue[i]
        /\ queue'[Len(queue) + 1] = n
    BY <2>1, AppendElements
  <2>4. \A t \in Turns : turn'[t].at = IF t = n THEN "queued" ELSE turn[t].at
    BY <1>0, <2>1 DEF LaneType, TurnRecord
  <2>5. \A t \in Turns : t \in Elements(queue') <=> turn'[t].at = "queued"
    BY <1>0, <2>3, <2>4
  <2>6. ASSUME NEW i \in 1..Len(queue'), NEW j \in 1..Len(queue'), i < j
        PROVE  queue'[i] < queue'[j]
    <3>1. i \in 1..Len(queue) /\ (j \in 1..Len(queue) \/ j = Len(queue) + 1)
      BY <2>3, <2>6
    <3>2. queue[i] \in S /\ queue[i] \in Elements(queue)
      BY <2>1, <3>1, ElementOfSeq DEF Elements
    <3>3. queue[i] < n
      BY <1>0, <2>2, <3>2 DEF S
    <3> QED
      BY <1>0, <2>3, <2>6, <3>1, <3>3
  <2>7. /\ \A t, u \in Turns : turn'[t].at \in Active /\ turn'[u].at \in Active => t = u
        /\ \A t, u \in Turns : turn'[t].at \in Active /\ turn'[u].at = "queued" => t < u
    BY <1>0, <2>2, <2>4 DEF Active
  <2> QED
    BY <2>5, <2>6, <2>7
<1>3. CASE SubmitOverloaded
  <2>1. /\ turn' = [turn EXCEPT ![audio.turn].at = "refused"] /\ audio.turn \in Turns
        /\ turn[audio.turn].at = "none" /\ queue' = queue
    BY <1>0, <1>3 DEF SubmitOverloaded, Announced
  <2>2. \A t \in Turns : turn'[t].at = IF t = audio.turn THEN "refused" ELSE turn[t].at
    BY <1>0, <2>1 DEF LaneType, TurnRecord
  <2>3. \A t \in Turns : /\ turn'[t].at = "queued" <=> turn[t].at = "queued"
                         /\ turn'[t].at \in Active <=> turn[t].at \in Active
    BY <2>1, <2>2 DEF Active
  <2> QED
    BY <1>0, <2>1, <2>3
<1>4. CASE Announce
  <2>1. /\ turn' = [turn EXCEPT ![next_turn_id].gen = generation] /\ queue' = queue
        /\ next_turn_id \in Turns
    BY <1>4 DEF Announce
  <2>2. \A t \in Turns : turn'[t].at = turn[t].at
    BY <1>0, <2>1 DEF LaneType, TurnRecord
  <2> QED
    BY <1>0, <2>1, <2>2
<1>5. CASE LaneTakes
  <2>1. PICK h \in Turns :
            /\ turn[h].at = "queued" /\ turn' = [turn EXCEPT ![h].at = "thinking"]
            /\ \A t \in Turns : t \in Elements(queue') <=> t \in Elements(queue) /\ t # h
            /\ \A t \in Turns : turn[t].at \notin Active
            /\ \A t \in Turns : turn[t].at = "queued" /\ t # h => h < t
            /\ \A i, j \in 1..Len(queue') : i < j => queue'[i] < queue'[j]
    BY <1>5, LaneStarts, Zenon
  <2>2. \A t \in Turns : turn'[t].at = IF t = h THEN "thinking" ELSE turn[t].at
    BY <1>0, <2>1 DEF LaneType, TurnRecord
  <2>3. "queued" \notin Active
    BY DEF Active
  <2>4. \A t \in Turns : t \in Elements(queue') <=> turn'[t].at = "queued"
    BY <1>0, <2>1, <2>2
  <2>5. /\ \A t, u \in Turns : turn'[t].at \in Active /\ turn'[u].at \in Active => t = u
        /\ \A t, u \in Turns : turn'[t].at \in Active /\ turn'[u].at = "queued" => t < u
    BY <1>0, <2>1, <2>2, <2>3
  <2> QED
    BY <2>1, <2>4, <2>5, Zenon
<1>6. ASSUME NEW t \in Turns, Works(t)  PROVE  Queued'
  <2>1. /\ turn[t].at \in Active /\ turn'[t].at \in Active \union {"over"} /\ queue' = queue
        /\ \A u \in Turns : u # t => turn'[u] = turn[u]
    BY <1>6 DEF Works
  <2>2. turn'[t].at # "queued" /\ turn[t].at # "queued"
    BY <2>1 DEF Active
  <2>3. \A u \in Turns : /\ turn'[u].at = "queued" <=> turn[u].at = "queued"
                         /\ turn'[u].at \in Active => turn[u].at \in Active
    BY <2>1, <2>2
  <2> QED
    BY <1>0, <2>1, <2>3
<1>7. CASE InterruptCancels
  <2>1. /\ queue' = <<>>
        /\ \A t \in Turns :
              turn'[t].at = IF turn[t].at = "queued" THEN "dropped" ELSE turn[t].at
    BY <1>7, LaneIsCancelled DEF InterruptCancels
  <2>2. Elements(queue') = {} /\ Len(queue') = 0
    BY <2>1 DEF Elements
  <2>3. \A t \in Turns : /\ turn'[t].at # "queued"
                         /\ turn'[t].at \in Active => turn[t].at \in Active
    BY <2>1 DEF Active
  <2> QED
    BY <1>0, <2>2, <2>3
<1>8. CASE DestroyCancels
  <2>1. /\ queue' = <<>>
        /\ \A t \in Turns :
              turn'[t].at = IF turn[t].at = "queued" THEN "dropped" ELSE turn[t].at
    BY <1>8, LaneIsCancelled DEF DestroyCancels
  <2>2. Elements(queue') = {} /\ Len(queue') = 0
    BY <2>1 DEF Elements
  <2>3. \A t \in Turns : /\ turn'[t].at # "queued"
                         /\ turn'[t].at \in Active => turn[t].at \in Active
    BY <2>1 DEF Active
  <2> QED
    BY <1>0, <2>2, <2>3
<1> QED
  BY <1>1, <1>2, <1>3, <1>4, <1>5, <1>6, <1>7, <1>8 DEF Moves

-----------------------------------------------------------------------------
(* The synthesizer, the generations and state().                           *)

LEMMA VoicedStep ==
  ASSUME IInv, Moves
  PROVE  Voiced'
<1> USE DEF Voiced, Voicing, control, input, lane, others
<1>0. Voiced /\ Announced /\ LaneType /\ Queued
  BY DEF IInv, TypeOK
<1>1. CASE \/ PushAudio \/ TakeFrame \/ AudioExits \/ RecognizerReturns
          \/ OverloadListens \/ OverloadForgets \/ Interrupt \/ DestroyBegins
          \/ DestroyStops \/ DestroyJoins \/ DestroyReturns
  <2>1. turn' = turn
    BY <1>1 DEF PushAudio, TakeFrame, AudioExits, RecognizerReturns, OverloadListens,
       OverloadForgets, Interrupt, DestroyBegins, DestroyStops, DestroyJoins,
       DestroyReturns
  <2> QED
    BY <1>0, <2>1
<1>2. CASE Submit
  <2>1. /\ turn' = [turn EXCEPT ![audio.turn].at = "queued"] /\ audio.turn \in Turns
        /\ turn[audio.turn].speech = "none"
    BY <1>0, <1>2 DEF Submit, Announced
  <2>2. \A t \in Turns : /\ turn'[t].speech = turn[t].speech
                         /\ t # audio.turn => turn'[t].at = turn[t].at
    BY <1>0, <2>1 DEF LaneType, TurnRecord
  <2> QED
    BY <1>0, <2>1, <2>2
<1>3. CASE SubmitOverloaded
  <2>1. /\ turn' = [turn EXCEPT ![audio.turn].at = "refused"] /\ audio.turn \in Turns
        /\ turn[audio.turn].speech = "none"
    BY <1>0, <1>3 DEF SubmitOverloaded, Announced
  <2>2. \A t \in Turns : /\ turn'[t].speech = turn[t].speech
                         /\ t # audio.turn => turn'[t].at = turn[t].at
    BY <1>0, <2>1 DEF LaneType, TurnRecord
  <2> QED
    BY <1>0, <2>1, <2>2
<1>4. CASE Announce
  <2>1. turn' = [turn EXCEPT ![next_turn_id].gen = generation]
    BY <1>4 DEF Announce
  <2>2. \A t \in Turns : turn'[t].speech = turn[t].speech /\ turn'[t].at = turn[t].at
    BY <1>0, <2>1 DEF LaneType, TurnRecord
  <2> QED
    BY <1>0, <2>2
<1>5. CASE LaneTakes
  <2>1. PICK h \in Turns : turn' = [turn EXCEPT ![h].at = "thinking"]
    BY <1>5, LaneStarts
  <2>2. \A t \in Turns : /\ turn'[t].speech = turn[t].speech
                         /\ turn'[t].at = IF t = h THEN "thinking" ELSE turn[t].at
    BY <1>0, <2>1 DEF LaneType, TurnRecord
  <2> QED
    BY <1>0, <2>2
<1>6. ASSUME NEW t \in Turns, Works(t)  PROVE  Voiced'
  BY <1>0, <1>6 DEF Works
<1>7. CASE InterruptCancels
  <2>1. \A t \in Turns :
           /\ turn'[t].at = IF turn[t].at = "queued" THEN "dropped" ELSE turn[t].at
           /\ turn'[t].speech = turn[t].speech
    BY <1>7, LaneIsCancelled DEF InterruptCancels
  <2> QED
    BY <1>0, <2>1
<1>8. CASE DestroyCancels
  <2>1. \A t \in Turns :
           /\ turn'[t].at = IF turn[t].at = "queued" THEN "dropped" ELSE turn[t].at
           /\ turn'[t].speech = turn[t].speech
    BY <1>8, LaneIsCancelled DEF DestroyCancels
  <2> QED
    BY <1>0, <2>1
<1> QED
  BY <1>1, <1>2, <1>3, <1>4, <1>5, <1>6, <1>7, <1>8 DEF Moves

LEMMA CutStep ==
  ASSUME IInv, Moves
  PROVE  Cut'
<1> USE DEF Cut, control, input, lane, others
<1>0. Cut /\ Announced /\ LaneType /\ Fenced /\ generation \in Nat
  BY DEF IInv, TypeOK, ControlType
<1>a. \A t \in Turns : turn[t].gen \in Nat /\ turn[t].cancelled \in BOOLEAN
  BY <1>0 DEF LaneType, TurnRecord
<1>1. CASE \/ PushAudio \/ TakeFrame \/ AudioExits \/ RecognizerReturns
          \/ OverloadListens \/ OverloadForgets \/ DestroyStops \/ DestroyJoins
          \/ DestroyReturns
  <2>1. /\ UNCHANGED <<turn, generation>>
        /\ submission' = "interrupt" <=> submission = "interrupt"
    BY <1>0, <1>1 DEF PushAudio, TakeFrame, AudioExits, RecognizerReturns,
       OverloadListens, OverloadForgets, DestroyStops, DestroyJoins,
       DestroyReturns, Fenced
  <2> QED
    BY <1>0, <2>1
<1>2. CASE Submit
  <2>1. /\ turn' = [turn EXCEPT ![audio.turn].at = "queued"] /\ audio.turn \in Turns
        /\ turn[audio.turn].gen = generation /\ ~turn[audio.turn].cancelled
        /\ submission = "audio" /\ submission' = "free" /\ generation' = generation
    BY <1>0, <1>2 DEF Submit, Announced, Fenced
  <2>2. \A t \in Turns : /\ turn'[t].gen = turn[t].gen /\ turn'[t].cancelled = turn[t].cancelled
                         /\ t # audio.turn => turn'[t].at = turn[t].at
    BY <1>0, <2>1 DEF LaneType, TurnRecord
  <2> QED
    BY <1>0, <1>a, <2>1, <2>2
<1>3. CASE SubmitOverloaded
  <2>1. /\ turn' = [turn EXCEPT ![audio.turn].at = "refused"] /\ audio.turn \in Turns
        /\ submission = "audio" /\ submission' = "free" /\ generation' = generation
    BY <1>0, <1>3 DEF SubmitOverloaded, Announced, Fenced
  <2>2. \A t \in Turns : /\ turn'[t].gen = turn[t].gen /\ turn'[t].cancelled = turn[t].cancelled
                         /\ turn'[t].at = IF t = audio.turn THEN "refused" ELSE turn[t].at
    BY <1>0, <2>1 DEF LaneType, TurnRecord
  <2>3. "refused" \notin Lane
    BY DEF Lane, Active
  <2> QED
    BY <1>0, <1>a, <2>1, <2>2, <2>3
<1>4. CASE Announce
  <2>1. /\ turn' = [turn EXCEPT ![next_turn_id].gen = generation] /\ next_turn_id \in Turns
        /\ submission = "free" /\ submission' = "audio" /\ generation' = generation
    BY <1>4 DEF Announce, Holder
  <2>2. turn[next_turn_id].at = "none"
    BY <1>0, <2>1, BoundAssumption DEF Announced, Turns
  <2>3. \A t \in Turns : /\ turn'[t].cancelled = turn[t].cancelled /\ turn'[t].at = turn[t].at
                         /\ turn'[t].gen = IF t = next_turn_id THEN generation ELSE turn[t].gen
    BY <1>0, <2>1 DEF LaneType, TurnRecord
  <2>4. "none" \notin Lane
    BY DEF Lane, Active
  <2> QED
    BY <1>0, <1>a, <2>1, <2>2, <2>3, <2>4
<1>5. CASE LaneTakes
  <2>1. PICK h \in Turns : turn[h].at = "queued" /\ turn' = [turn EXCEPT ![h].at = "thinking"]
    BY <1>5, LaneStarts
  <2>2. \A t \in Turns : /\ turn'[t].gen = turn[t].gen /\ turn'[t].cancelled = turn[t].cancelled
                         /\ turn'[t].at \in Lane => turn[t].at \in Lane
    BY <1>0, <2>1 DEF LaneType, TurnRecord, Lane
  <2>3. UNCHANGED <<generation, submission>>
    BY <1>5 DEF LaneTakes
  <2> QED
    BY <1>0, <2>2, <2>3
<1>6. ASSUME NEW t \in Turns, Works(t)  PROVE  Cut'
  <2>1. /\ \A u \in Turns : /\ turn'[u].gen = turn[u].gen /\ turn'[u].cancelled = turn[u].cancelled
                            /\ turn'[u].at \in Lane => turn[u].at \in Lane
        /\ UNCHANGED <<generation, submission>>
    BY <1>6 DEF Works, Lane
  <2> QED
    BY <1>0, <2>1
<1>7. CASE Interrupt
  <2>1. turn' = turn /\ generation' = generation + 1 /\ submission' = "interrupt"
    BY <1>7 DEF Interrupt
  <2> QED
    BY <1>0, <1>a, <2>1
<1>8. CASE InterruptCancels
  <2>1. \A t \in Turns :
           /\ turn[t].at \in Lane => turn'[t].cancelled
           /\ turn'[t].gen = turn[t].gen
           /\ turn'[t].at \in Lane => turn[t].at \in Lane
    BY <1>8, LaneIsCancelled DEF InterruptCancels, Lane, Active
  <2>2. submission = "interrupt" /\ submission' = "free" /\ generation' = generation
    BY <1>0, <1>8 DEF InterruptCancels, Fenced
  <2> QED
    BY <1>0, <1>a, <2>1, <2>2
<1>9. CASE DestroyBegins
  <2>1. UNCHANGED <<turn, generation>> /\ submission' = "owner" /\ submission = "free"
    BY <1>9 DEF DestroyBegins
  <2> QED
    BY <1>0, <2>1
<1>10. CASE DestroyCancels
  <2>1. \A t \in Turns :
           /\ turn[t].at \in Lane => turn'[t].cancelled
           /\ turn'[t].gen = turn[t].gen
           /\ turn'[t].at \in Lane => turn[t].at \in Lane
    BY <1>10, LaneIsCancelled DEF DestroyCancels, Lane, Active
  <2>2. submission' = "free" /\ generation' = generation + 1
    BY <1>0, <1>10 DEF DestroyCancels, Fenced
  <2> QED
    BY <1>0, <1>a, <2>1, <2>2
<1> QED
  BY <1>1, <1>2, <1>3, <1>4, <1>5, <1>6, <1>7, <1>8, <1>9, <1>10 DEF Moves

LEMMA ShownStep ==
  ASSUME IInv, Moves
  PROVE  Shown'
<1> USE DEF Shown, control, input, lane, others
<1>0. /\ Shown /\ Cut /\ Announced /\ LaneType /\ Fenced /\ Queued /\ InputType
      /\ ControlType
  BY DEF IInv, TypeOK
<1>a. /\ \A t \in Turns : turn[t].gen \in Nat /\ t \in Nat /\ t # NoTurn
      /\ generation \in Nat /\ turn_id \in Turns \union {NoTurn}
  BY <1>0, BoundAssumption DEF LaneType, TurnRecord, Turns, ControlType, NoTurn
<1>1. CASE PushAudio \/ DestroyStops \/ DestroyJoins \/ DestroyReturns
  <2>1. /\ UNCHANGED <<turn, generation, turn_id, state, overloaded, alive>>
        /\ audio'.at = "submit" <=> audio.at = "submit"
    BY <1>1 DEF PushAudio, DestroyStops, DestroyJoins, DestroyReturns
  <2> QED
    BY <1>0, <2>1
<1>2. CASE TakeFrame \/ AudioExits \/ RecognizerReturns
  <2>1. UNCHANGED <<turn, generation, turn_id, state, overloaded, alive>>
        /\ audio.at # "submit" /\ audio'.at # "submit"
    BY <1>0, <1>2 DEF TakeFrame, AudioExits, RecognizerReturns, InputType
  <2> QED
    BY <1>0, <2>1
<1>3. CASE Submit
  <2>1. /\ turn' = [turn EXCEPT ![audio.turn].at = "queued"] /\ audio.turn \in Turns
        /\ turn_id = audio.turn /\ audio.turn + 1 = next_turn_id
        /\ UNCHANGED <<generation, turn_id, state, overloaded, alive>>
        /\ audio'.at = "asr" /\ turn[audio.turn].gen = generation
    BY <1>0, <1>3 DEF Submit, Announced
  <2>2. \A t \in Turns : /\ turn'[t].gen = turn[t].gen
                         /\ turn'[t].at = IF t = audio.turn THEN "queued" ELSE turn[t].at
    BY <1>0, <2>1 DEF LaneType, TurnRecord
  <2>3. "queued" \in Lane
    BY DEF Lane
  <2> QED
    BY <1>0, <1>a, <2>1, <2>2, <2>3
<1>4. CASE SubmitOverloaded \/ OverloadListens \/ OverloadForgets
  <2>1. overloaded'
    BY <1>0, <1>4 DEF OverloadListens, OverloadForgets, SubmitOverloaded, Fenced
  <2> QED
    BY <2>1
<1>5. CASE Announce
  <2>1. /\ turn' = [turn EXCEPT ![next_turn_id].gen = generation] /\ next_turn_id \in Turns
        /\ turn_id' = next_turn_id /\ audio'.at = "submit"
        /\ UNCHANGED <<generation, overloaded, alive>>
    BY <1>5 DEF Announce
  <2>2. \A t \in Turns : /\ turn'[t].at = turn[t].at
                         /\ turn'[t].gen = IF t = next_turn_id THEN generation ELSE turn[t].gen
    BY <1>0, <2>1 DEF LaneType, TurnRecord
  <2>3. \A t \in Turns : turn[t].at \in Lane => t <= next_turn_id
    BY <1>0, <1>a, <2>1 DEF Announced, Lane, Active
  <2>4. next_turn_id # NoTurn
    BY <1>a, <2>1
  <2> QED
    BY <2>1, <2>2, <2>3, <2>4
<1>6. CASE LaneTakes
  <2>1. PICK h \in Turns : turn[h].at = "queued" /\ turn' = [turn EXCEPT ![h].at = "thinking"]
    BY <1>6, LaneStarts
  <2>2. \A t \in Turns : /\ turn'[t].gen = turn[t].gen
                         /\ turn'[t].at \in Lane <=> turn[t].at \in Lane
    BY <1>0, <2>1 DEF LaneType, TurnRecord, Lane, Active
  <2>3. UNCHANGED <<generation, turn_id, state, overloaded, alive, audio>>
    BY <1>6 DEF LaneTakes
  <2> QED
    BY <1>0, <1>a, <2>2, <2>3
<1>7. ASSUME NEW t \in Turns, Works(t)  PROVE  Shown'
  <2>1. /\ \A u \in Turns : /\ turn'[u].gen = turn[u].gen
                            /\ turn'[u].at \in Lane => turn[u].at \in Lane
                            /\ u # t => turn'[u].at = turn[u].at
        /\ turn[t].at \in Active /\ turn[t].at \in Lane
        /\ turn'[t].at # "over" => turn'[t].at \in Lane
        /\ UNCHANGED <<generation, overloaded, alive, audio>>
    BY <1>7 DEF Works, Lane
  <2>2. CASE UNCHANGED <<state, turn_id>> /\ (turn'[t].at = "over" => ~alive \/ ~Clears(t))
    BY <1>0, <1>a, <2>1, <2>2 DEF Clears, Current
  <2>3. CASE /\ Current(t) /\ state' = "Speaking" /\ turn_id' = turn_id /\ turn'[t].at # "over"
    BY <1>0, <1>a, <2>1, <2>3 DEF Current
  <2>4. CASE /\ Clears(t) /\ state' = "Listening" /\ turn_id' = NoTurn /\ turn'[t].at = "over"
    <3>1. turn_id = t /\ "over" \notin Lane
      BY <2>4 DEF Clears, Lane, Active
    <3>2. ASSUME NEW u \in Turns, turn'[u].at \in Lane, turn[u].gen = generation, ~overloaded
          PROVE  FALSE
      <4>1. u # t /\ turn[u].at \in Lane /\ u <= t
        BY <1>0, <2>1, <2>4, <3>1, <3>2
      <4>2. t <= u
        BY <1>0, <1>a, <2>1, <4>1 DEF Queued, Lane
      <4> QED
        BY <1>a, <4>1, <4>2
    <3> QED
      BY <2>1, <2>4, <3>2
  <2> QED
    BY <1>7, <2>2, <2>3, <2>4 DEF Works
<1>8. CASE Interrupt
  <2>1. /\ turn' = turn /\ generation' = generation + 1 /\ turn_id' = NoTurn
        /\ state' = "Listening"
    BY <1>8 DEF Interrupt
  <2> QED
    BY <1>0, <1>a, <2>1 DEF Cut
<1>9. CASE InterruptCancels
  <2>1. \A t \in Turns : /\ turn'[t].gen = turn[t].gen
                         /\ turn'[t].at \in Lane => turn[t].at \in Lane
    BY <1>9, LaneIsCancelled DEF InterruptCancels, Lane, Active
  <2>2. UNCHANGED <<generation, turn_id, state, overloaded, alive>> /\ turn_id = NoTurn
    BY <1>0, <1>9 DEF InterruptCancels, Fenced
  <2> QED
    BY <1>0, <2>1, <2>2
<1>10. CASE DestroyBegins
  <2>1. UNCHANGED <<turn, generation, turn_id, overloaded>> /\ ~alive'
    BY <1>10 DEF DestroyBegins
  <2> QED
    BY <1>0, <2>1
<1>11. CASE DestroyCancels
  <2>1. \A t \in Turns : turn'[t].gen = turn[t].gen
    BY <1>11, LaneIsCancelled DEF DestroyCancels
  <2>2. generation' = generation + 1 /\ ~alive'
    BY <1>0, <1>11 DEF DestroyCancels, Fenced
  <2> QED
    BY <1>0, <1>a, <2>1, <2>2 DEF Cut
<1> QED
  BY <1>1, <1>2, <1>3, <1>4, <1>5, <1>6, <1>7, <1>8, <1>9, <1>10, <1>11 DEF Moves

-----------------------------------------------------------------------------
(* The theorems.                                                           *)

LEMMA InvInit == Init => IInv
<1> SUFFICES ASSUME Init PROVE IInv
  OBVIOUS
<1>1. \A t \in Turns : turn[t].at = "none" /\ turn[t].speech = "none" /\ turn[t].gen = 0
                       /\ turn[t].cancelled = FALSE
  BY DEF Init
<1>2. "none" \notin Lane /\ "none" \notin Active
  BY DEF Lane, Active
<1>3. queue = <<>> /\ <<>> \in Seq(Turns) /\ Len(queue) = 0 /\ Elements(queue) = {}
  BY DEF Init, Elements
<1>4. ControlType /\ OthersType
  BY DEF Init, ControlType, OthersType
<1>5. InputType
  <2>1. 0 \in 0..MaxAudioFrames /\ 1 \in 1..(MaxTurns + 1)
    BY LimitAssumption, BoundAssumption
  <2> QED
    BY <2>1 DEF Init, InputType
<1>6. LaneType
  <2>1. turn \in [Turns -> TurnRecord]
    BY DEF Init, TurnRecord
  <2>2. Len(queue) <= MaxPending
    BY <1>3, LimitAssumption
  <2> QED
    BY <1>3, <2>1, <2>2 DEF LaneType
<1>7. Fenced /\ Announced
  BY <1>1 DEF Init, Fenced, Announced
<1>8. Queued
  BY <1>1, <1>2, <1>3 DEF Queued
<1>9. Voiced /\ Cut
  BY <1>1, <1>2 DEF Init, Voiced, Cut
<1>10. Shown
  BY <1>1, <1>2 DEF Init, Shown
<1> QED
  BY <1>4, <1>5, <1>6, <1>7, <1>8, <1>9, <1>10 DEF IInv, TypeOK

LEMMA InvStep ==
  ASSUME IInv, Moves
  PROVE  IInv'
<1>1. TypeOK'
  BY ControlTypeStep, InputTypeStep, LaneTypeStep, OthersTypeStep DEF TypeOK
<1> QED
  BY <1>1, FencedStep, AnnouncedStep, QueuedStep, VoicedStep, CutStep, ShownStep DEF IInv

LEMMA InvStutter ==
  ASSUME IInv, UNCHANGED vars
  PROVE  IInv'
<1> USE DEF IInv, vars, control, input, lane, others
<1>1. TypeOK'
  BY DEF TypeOK, ControlType, InputType, LaneType, OthersType
<1>2. Fenced' /\ Announced'
  BY DEF Fenced, Announced
<1>3. Queued' /\ Voiced'
  BY DEF Queued, Voiced, Elements
<1>4. Cut' /\ Shown'
  BY DEF Cut, Shown
<1> QED
  BY <1>1, <1>2, <1>3, <1>4

\* The inductive invariant holds in every reachable state.
THEOREM Invariance == Spec => []IInv
<1>1. IInv /\ [Next]_vars => IInv'
  BY NextMoves, InvStep, InvStutter
<1> QED
  BY <1>1, InvInit, PTL DEF Spec

\* Conversation::interrupt() and the destructor cancel exactly the turns submitted
\* before them, whatever the audio worker, the lane and the synthesizer are doing.
THEOREM InterruptIsExact == Spec => []InterruptExact
<1>1. ASSUME IInv PROVE InterruptExact
  <2> SUFFICES ASSUME submission = "free", NEW t \in Running \union Elements(queue)
               PROVE  turn[t].cancelled <=> ~Current(t)
    BY DEF InterruptExact
  <2>1. t \in Turns
    <3>1. \A i \in 1..Len(queue) : queue[i] \in Turns
      BY <1>1, ElementOfSeq DEF IInv, TypeOK, LaneType
    <3> QED
      BY <3>1 DEF Running, Elements
  <2>2. turn[t].at \in Lane
    BY <1>1, <2>1 DEF IInv, Queued, Running, Lane
  <2> QED
    BY <1>1, <2>1, <2>2 DEF IInv, Cut, Current
<1> QED
  BY <1>1, Invariance, PTL

\* One turn at a time reaches the synthesizer, a conversation at rest says Listening
\* unless a turn was refused, and after the destructor nothing runs.
THEOREM PipelineIsSafe == Spec => []PipelineSafe
<1>1. ASSUME IInv PROVE PipelineSafe
  <2>1. TypeOK
    BY <1>1 DEF IInv
  <2>2. OneSpeaker
    BY <1>1 DEF IInv, Voiced, Voicing, OneSpeaker, Running, Active
  <2>3. RestsListening
    <3> SUFFICES ASSUME ~overloaded, alive, submission = "free", queue = <<>>, Running = {}
                 PROVE  state = "Listening" /\ turn_id = NoTurn
      BY DEF RestsListening, Snapshot
    <3>1. \A t \in Turns : turn[t].at \notin Lane
      <4>1. \A t \in Turns : turn[t].at \notin Active
        BY DEF Running
      <4>2. Elements(queue) = {}
        BY DEF Elements
      <4> QED
        BY <1>1, <4>1, <4>2 DEF IInv, Queued, Lane
    <3>2. audio.at # "submit" /\ turn_id \in Turns \union {NoTurn}
      BY <1>1 DEF IInv, Fenced, TypeOK, ControlType
    <3>3. turn_id = NoTurn
      BY <1>1, <3>1, <3>2 DEF IInv, Shown
    <3> QED
      BY <1>1, <3>3 DEF IInv, Shown
  <2>4. DestroyedMeansQuiet
    BY <1>1 DEF IInv, Fenced, DestroyedMeansQuiet, Running
  <2> QED
    BY <2>1, <2>2, <2>3, <2>4 DEF PipelineSafe
<1> QED
  BY <1>1, Invariance, PTL

=============================================================================
