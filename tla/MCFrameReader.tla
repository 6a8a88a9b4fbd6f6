---------------------------- MODULE MCFrameReader ----------------------------
(***************************************************************************)
(* Instances of FrameReader for TLC.  Sizes are scaled down: BUFFER_SIZE is *)
(* 2 and MAX_PAYLOAD_SIZE 8, so that frames of 0 to 9 bytes are empty, fit *)
(* the stack array, need several buffers, are received directly, exceed    *)
(* the limit alone or together with the fragments before them.             *)
(***************************************************************************)
EXTENDS FrameReader

Frame(fin, op, len) ==
  [fin |-> fin, rsv |-> {}, op |-> op, masked |-> TRUE, form |-> 7, len |-> len,
   code |-> 0, text |-> TRUE]

\* Messages in one piece and in fragments.
WholeMessages == {Frame(TRUE, TEXT, 1), Frame(TRUE, BINARY, 3)}
FirstFragments == {Frame(FALSE, BINARY, 6), Frame(FALSE, TEXT, 0)}
LaterFragments == {Frame(FALSE, CONTINUATION, 1), Frame(TRUE, CONTINUATION, 0),
                   Frame(TRUE, CONTINUATION, 2), Frame(TRUE, CONTINUATION, 7)}

\* Every header the parser refuses, every length form, every control frame.
OddFrames ==
  {[Frame(TRUE, TEXT, 1) EXCEPT !.form = 16],
   [Frame(TRUE, BINARY, 1) EXCEPT !.form = 64],
   [Frame(TRUE, BINARY, 9) EXCEPT !.form = 16],
   [Frame(TRUE, TEXT, 2) EXCEPT !.text = FALSE],
   [Frame(TRUE, TEXT, 0) EXCEPT !.rsv = {1}],
   [Frame(TRUE, PING, 0) EXCEPT !.masked = FALSE],
   [Frame(TRUE, PING, 1) EXCEPT !.form = 16],
   Frame(FALSE, PING, 0), Frame(TRUE, 3, 0), Frame(TRUE, PING, 1),
   Frame(TRUE, PONG, 2), Frame(TRUE, CLOSE, 0), Frame(TRUE, CLOSE, 1),
   [Frame(TRUE, CLOSE, 3) EXCEPT !.code = AWAY],
   [Frame(TRUE, CLOSE, 3) EXCEPT !.code = NORMAL, !.text = FALSE],
   [Frame(TRUE, CLOSE, 2) EXCEPT !.code = 999]}

PlainFrames ==
  <<WholeMessages \cup FirstFragments,
    WholeMessages \cup LaterFragments \cup OddFrames,
    LaterFragments \cup {Frame(TRUE, PING, 1)}>>

\* A peer that negotiated permessage-deflate and compresses some messages; text
\* says what the inflated message is.
Compress(f) == [f EXCEPT !.rsv = {1}]

NegotiatedFrames ==
  <<{Frame(TRUE, BINARY, 1), Frame(TRUE, TEXT, 0), Frame(FALSE, BINARY, 1),
     Compress(Frame(TRUE, TEXT, 2)), Compress(Frame(FALSE, BINARY, 1))},
    {Frame(TRUE, BINARY, 1), Compress(Frame(TRUE, BINARY, 3)), Frame(FALSE, TEXT, 0),
     Frame(TRUE, CONTINUATION, 2), Frame(TRUE, PING, 1), Frame(TRUE, 11, 0)},
    {Frame(TRUE, BINARY, 2), Frame(TRUE, CONTINUATION, 1)}>>

\* One message per connection, whole.
OneMessage == <<{Frame(TRUE, BINARY, 1)}>>
=============================================================================
