---------------------------- MODULE MCEventArray ----------------------------
(***************************************************************************)
(* EventArray for TLC: the smallest sizes with which three connections     *)
(* make the array grow twice and shrink again.                             *)
(***************************************************************************)
EXTENDS EventArray

MCInitial == [kqueue |-> 2, poll |-> 3]
=============================================================================
