------------------------- MODULE MCFileOperationLock ------------------------
(* Instances of FileOperationLock for TLC. *)
EXTENDS FileOperationLock, TLC

Symmetry == Permutations(Clients)
=============================================================================
