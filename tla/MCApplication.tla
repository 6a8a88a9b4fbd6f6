--------------------------- MODULE MCApplication ---------------------------
(***************************************************************************)
(* Application for TLC: the descriptors are interchangeable.               *)
(***************************************************************************)
EXTENDS Application, TLC

FdSymmetry == Permutations(Fds)
=============================================================================
