----------------------------- MODULE MCHandshake -----------------------------
(***************************************************************************)
(* Small instances of Handshake: a request is two header lines, in a       *)
(* buffer that holds one of them with a byte to spare.                     *)
(***************************************************************************)
EXTENDS Handshake

Text == <<"x", "r", "n", "x", "r", "n", "r", "n">>

\* Lines long enough that the request does not fit the buffer.
LongText == <<"x", "x", "x", "r", "n", "x", "x", "r", "n", "r", "n">>

Request(text, get, headers, offer) ==
  [text |-> text, get |-> get, headers |-> headers, offer |-> offer]

\* Every way to be answered; and a request that is too large and lacks a header.
AllRequests ==
  { Request(Text, TRUE, "valid", "none"), Request(Text, TRUE, "valid", "good"),
    Request(Text, TRUE, "valid", "bad"), Request(Text, TRUE, "invalid", "good"),
    Request(Text, TRUE, "missing", "good"), Request(Text, FALSE, "missing", "bad"),
    Request(Text, TRUE, "valid", "malformed"), Request(LongText, TRUE, "missing", "malformed") }

\* A request without extensions after one that offers some.
TwoRequests ==
  { Request(Text, TRUE, "valid", "none"), Request(Text, TRUE, "missing", "good") }
=============================================================================
