----------------------- MODULE MCFileHandleConnection -----------------------
(* Instances of FileHandleConnection for TLC. *)
EXTENDS FileHandleConnection, TLC

Symmetry == Permutations(Objects)
=============================================================================
