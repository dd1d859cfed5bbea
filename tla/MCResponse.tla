------------------------------ MODULE MCResponse ------------------------------
(* Response on a small instance, and the segmenter on every short text.    *)
EXTENDS Response

\* A short sentence; text with a soft pause that ends inside a code point; and the
\* rest of the code point with a space behind it.
MCDeltas == {<<"a", "a", "!">>, <<"a", ",", "L">>, <<"T", " ", "a">>}

\* Texts of at most five bytes that UTF-8 allows: a continuation follows every lead
\* byte and nothing else.
ShortTexts == {b \in UNION {[1..n -> {"a", " ", "!", ",", "L", "Z", "T"}] : n \in 0..5} :
                 \A i \in 1..Len(b) : (b[i] = "T") = (i > 1 /\ Width(b[i - 1]) = 2)}

\* Wherever a text is cut into two deltas, pushing both and flushing gives all of it, in
\* order and in whole code points; only a text that ends inside one is refused.
SegmentsOf(text, k) ==
    LET first  == Extract[SubSeq(text, 1, k), FALSE]
        second == Extract[first.rest \o SubSeq(text, k + 1, Len(text)), FALSE]
    IN [Extract[second.rest, TRUE] EXCEPT !.sentences = first.sentences \o second.sentences \o @]

ASSUME SegmenterKeepsText ==
    \A text \in ShortTexts : \A k \in 0..Len(text) :
       LET out == SegmentsOf(text, k) IN
       /\ out.threw = (CompletePrefix(text) # Len(text))
       /\ Inked(Append(out.sentences, out.rest)) = Inked(<<text>>)
       /\ \A i \in DOMAIN out.sentences : Whole(out.sentences[i])

=============================================================================
