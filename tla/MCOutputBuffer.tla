--------------------------- MODULE MCOutputBuffer ---------------------------
(***************************************************************************)
(* Instances of OutputBuffer for TLC: frames of 1 and 3 bytes against a    *)
(* kernel buffer of 2, so that a frame is sent whole, in part or not at    *)
(* all, and several are appended to a buffer that is partly sent.          *)
(***************************************************************************)
EXTENDS OutputBuffer

Sizes == {1, 3}
=============================================================================
