---------------------------- MODULE MCSyncOutbox ----------------------------
(* Instances of SyncOutbox for TLC. *)
EXTENDS SyncOutbox, TLC

Symmetry == Permutations(Workers)
=============================================================================
