------------------------ MODULE MCProjectSegmentSync ------------------------
(* Instances of ProjectSegmentSync for TLC. *)
EXTENDS ProjectSegmentSync, TLC

\* Where no blur is asked for, shown is a pure history: nothing reads it.
WithoutShown == <<seg, req, job, work>>

Symmetry == Permutations(Texts) \cup Permutations(Users)
=============================================================================
