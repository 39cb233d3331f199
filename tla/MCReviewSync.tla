---------------------------- MODULE MCReviewSync ----------------------------
(* Instances of ReviewSync for TLC. *)
EXTENDS ReviewSync, TLC

\* The segments are alike, and so are the editors and the texts but the first.
Symmetry ==
  Permutations(Segments) \cup Permutations(Editors) \cup Permutations(Texts \ {Baseline})
=============================================================================
