------------------------------ MODULE MCDeflate ------------------------------
(***************************************************************************)
(* Deflate for TLC: messages that become empty, fill the first buffer or   *)
(* end in the middle of the second, end in a last block, and one that is   *)
(* no compressed data; each direction restarted or kept, and a window for  *)
(* which there is no deflater.                                             *)
(***************************************************************************)
EXTENDS Deflate

Setting(c, s, n) == [clientNo |-> c, serverNo |-> s, narrow |-> n]

MCSettings == {Setting(TRUE, FALSE, FALSE), Setting(FALSE, TRUE, FALSE),
               Setting(FALSE, FALSE, TRUE)}

MCShapes == {[in |-> 1, out |-> o, kind |-> "flush"] : o \in {0, 2, 3}}
  \cup {[in |-> 1, out |-> 4, kind |-> "final"],
        [in |-> 1, out |-> 1, kind |-> "broken"]}
=============================================================================
