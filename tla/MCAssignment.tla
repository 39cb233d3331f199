---------------------------- MODULE MCAssignment ----------------------------
(* Instances of Assignment for TLC. *)
EXTENDS Assignment, TLC

Row(block, words) == [block |-> block, words |-> words]

\* Two sentences in a paragraph and a heading.
TwoBlocks == {<<Row(1, 1), Row(1, 2), Row(2, 1)>>}

\* A table nested in a paragraph, segments without words, a heavy start, a heavy
\* end.
ManyBlocks == {<<Row(1, 1), Row(2, 3), Row(1, 1), Row(3, 0)>>,
               <<Row(1, 0), Row(2, 0), Row(3, 0), Row(4, 0)>>,
               <<Row(1, 5), Row(2, 1), Row(3, 0), Row(4, 1)>>,
               <<Row(1, 1), Row(2, 1), Row(3, 6)>>}

Symmetry == Permutations(Translators) \cup Permutations(Managers)
=============================================================================
