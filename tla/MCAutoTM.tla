------------------------------- MODULE MCAutoTM -------------------------------
(* Instances of AutoTM for TLC. *)
EXTENDS AutoTM, TLC

Symmetry ==
  Permutations(Segments) \cup Permutations(Texts) \cup Permutations(Users) \cup Permutations(Slots)
=============================================================================
