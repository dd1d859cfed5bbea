-------------------------- MODULE SentenceSegmenter --------------------------
(***************************************************************************)
(* How streamed text is cut into sentences for the synthesizer             *)
(* (src/src/sentence_segmenter.cpp), as functions of the buffer.           *)
(*                                                                         *)
(* Text is a sequence of bytes, one byte of each class the code tells      *)
(* apart: a letter, a space, '!', ',', '.', the continuation byte T and the*)
(* lead bytes L of a letter, Z of a full stop and z of a comma that take   *)
(* Width bytes.                                                            *)
(***************************************************************************)
EXTENDS Naturals, Sequences, FiniteSets
SetOps == INSTANCE FiniteSetsExt

CONSTANTS MinCharacters, TargetCharacters, HardMaxCharacters

ASSUME LimitsAssumption ==         \* checked by the constructor
    /\ MinCharacters \in Nat \ {0}
    /\ TargetCharacters \in Nat /\ MinCharacters <= TargetCharacters
    /\ HardMaxCharacters \in Nat /\ TargetCharacters <= HardMaxCharacters

Bytes == {"a", " ", "!", ",", ".", "L", "Z", "z", "T"}
Width(c) == IF c \in {"L", "Z", "z"} THEN 2 ELSE 1

\* character_count(): the bytes that are not continuations.
CharacterCount(b, n) == Cardinality({i \in 1..n : b[i] # "T"})

\* complete_utf8_prefix(): without the code point whose rest has not arrived.
CompletePrefix(b) ==
    IF b = <<>> THEN 0
    ELSE LET start == SetOps!Max({1} \union {i \in 1..Len(b) : b[i] # "T"})
         IN IF Len(b) - start + 1 < Width(b[start]) THEN start - 1 ELSE Len(b)

Ends(b, i) == IF b[i] \in {"Z", "z"} THEN i + 1 ELSE i
Wide(b, i, c) == b[i] = c /\ i < Len(b) /\ b[i + 1] = "T"
Strong(b, i) == b[i] = "!" \/ Wide(b, i, "Z")
                \/ (b[i] = "." /\ i < Len(b) /\ b[i + 1] = " ")
Soft(b, i) == b[i] = "," \/ Wide(b, i, "z")

\* Too long without punctuation: at the last space before the target, or there,
\* behind the code point the position falls in.
HardSplit(b, n) ==
    LET reached == SetOps!Min({i \in 1..n : CharacterCount(b, i) >= TargetCharacters})
        spaces  == {i \in 1..reached : b[i] = " "}
        cut     == IF spaces = {} THEN reached ELSE SetOps!Max(spaces)
    IN SetOps!Max({cut} \union {i \in cut..n : \A j \in (cut + 1)..i : b[j] = "T"})

\* The first strong end, else the last soft one behind the target, else a hard
\* split; 0 for none.
Boundary(b, n) ==
    LET strong == {Ends(b, i) : i \in {j \in 1..n : Strong(b, j)}}
        soft   == {Ends(b, i) : i \in {j \in 1..n : Soft(b, j)}}
        first  == {e \in strong : CharacterCount(b, e) >= MinCharacters}
        last   == {e \in soft : CharacterCount(b, e) >= TargetCharacters}
    IN IF first # {} THEN SetOps!Min(first)
       ELSE IF last # {} THEN SetOps!Max(last)
       ELSE IF CharacterCount(b, n) >= HardMaxCharacters THEN HardSplit(b, n) ELSE 0

\* Without leading, and without trailing, spaces.
Skipped(b) == LET kept == {i \in 1..Len(b) : b[i] # " "}
              IN IF kept = {} THEN <<>> ELSE SubSeq(b, SetOps!Min(kept), Len(b))
Trimmed(b) == LET kept == {i \in 1..Len(b) : b[i] # " "}
              IN IF kept = {} THEN <<>> ELSE SubSeq(b, SetOps!Min(kept), SetOps!Max(kept))

\* extract(): the sentences, what stays in the buffer, and whether it threw.
Extract[b \in Seq(Bytes), flushing \in BOOLEAN] ==
    LET n   == CompletePrefix(b)
        cut == IF Boundary(b, n) = 0 /\ flushing THEN Len(b) ELSE Boundary(b, n)
        stop(threw) == [sentences |-> <<>>, rest |-> b, threw |-> threw]
    IN IF b = <<>> THEN stop(FALSE)
       ELSE IF flushing /\ n # Len(b) THEN stop(TRUE)
       ELSE IF cut = 0 THEN stop(FALSE)
       ELSE LET sentence == Trimmed(SubSeq(b, 1, cut))
                more     == Extract[Skipped(SubSeq(b, cut + 1, Len(b))), flushing]
            IN IF sentence = <<>> THEN more
               ELSE [more EXCEPT !.sentences = <<sentence>> \o @]

=============================================================================
