------------------------- MODULE MCSegmentStructure -------------------------
(* Instances of SegmentStructure for TLC. *)
EXTENDS SegmentStructure, TLC

\* Two sentences, one of which can be split.
TwoSentences == <<<<1, 2>>, <<3>>>>

\* One sentence, which can be split twice.
OneSentence == <<<<1, 2, 3>>>>

\* A text that was typed.
Typed == {<<5>>}

Symmetry == Permutations(Users)
=============================================================================
