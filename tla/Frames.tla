------------------------------- MODULE Frames -------------------------------
(***************************************************************************)
(* The vocabulary of the frame layer (defs.h, clients.h and the pure       *)
(* helpers of frame.c): opcodes, close statuses, frame descriptors, the    *)
(* bytes a frame puts on the wire, and what the server does with a frame.  *)
(*                                                                         *)
(* A frame is a descriptor and a byte is a position inside a frame: the    *)
(* parser's decisions depend on the meaning of a byte, never on its bits.  *)
(***************************************************************************)
EXTENDS Integers, Sequences

\* enum Opcode
CONTINUATION == 0
TEXT == 1
BINARY == 2
THRESHOLD == 7
CLOSE == 8
PING == 9
PONG == 10
INVALID == -1

\* enum Status_code
EMPTY_FRAME == 0
NORMAL == 1000
AWAY == 1001
PROTOCOL_ERROR == 1002
INVALID_TYPE == 1003
INVALID_ENCODING == 1007
VIOLATION == 1008
TOO_LARGE == 1009
INVALID_EXTENSION == 1010
UNEXPECTED_CONDITION == 1011

\* What a client may put in a frame.  form is the encoding chosen for the
\* length (7, 16 or 64 bits; the code accepts encodings that are longer than
\* needed), code the status of a close frame, text says that the payload (after
\* the status of a close frame) continues a well-formed UTF-8 text.
FrameDescriptors ==
  [fin : BOOLEAN, rsv : SUBSET {1, 2, 3}, op : 0 .. 15, masked : BOOLEAN,
   form : {7, 16, 64}, len : Nat, code : Nat, text : BOOLEAN]

IsControl(op) == op > THRESHOLD

IsReserved(op) == (op > BINARY /\ op < CLOSE) \/ op > PONG

\* A continuation of nothing, or a new message inside an unfinished one.
OutOfSequence(op, type) == ~ IsControl(op) /\ (op = CONTINUATION <=> type = INVALID)

\* What get_frame_type answers with PROTOCOL_ERROR.
BadFrameType(f, type, extensions) ==
  \/ ~ extensions /\ f.rsv # {}
  \/ IsReserved(f.op)
  \/ OutOfSequence(f.op, type)

\* The 7-bit length field: the length itself, or the marker of a longer form.
LengthCode(f) == IF f.form = 7 THEN f.len ELSE IF f.form = 16 THEN 126 ELSE 127

\* Bytes that header_size reaches once the length is known.
HeaderBytes(code) == IF code < 126 THEN 1 ELSE IF code = 126 THEN 3 ELSE 9

\* Byte number at of one part of frame number no.  masked tells whether the
\* client's mask is (still) applied to it.
Byte(no, role, at, masked) ==
  [no |-> no, role |-> role, at |-> at, masked |-> masked]

Roles == {"first", "length", "mask", "payload"}

Bytes == [no : Nat, role : Roles, at : Nat, masked : BOOLEAN]

Part(no, role, n, masked) == [k \in 1 .. n |-> Byte(no, role, k, masked)]

Payload(no, f) == Part(no, "payload", f.len, FALSE)

\* Frame number no, as it arrives.
WireBytes(no, f) ==
  Part(no, "first", 1, FALSE)
    \o Part(no, "length", HeaderBytes(LengthCode(f)), FALSE)
    \o Part(no, "mask", IF f.masked THEN 4 ELSE 0, FALSE)
    \o Part(no, "payload", f.len, f.masked)

\* unmask applied to the n bytes that follow the first from: XOR with the key,
\* which is right for a byte only when it is the i-th of its frame.
Unmask(bytes, from, n) ==
  [i \in DOMAIN bytes |->
     IF i > from /\ i <= from + n
     THEN [bytes[i] EXCEPT !.masked = IF @ /\ bytes[i].at = i - from THEN FALSE ELSE TRUE]
     ELSE bytes[i]]

\* validate_utf8 on bytes of the frames of stream.
ValidUtf8(stream, bytes) ==
  \A i \in DOMAIN bytes : ~ bytes[i].masked /\ stream[bytes[i].no].text

\* Effects of a frame: what the peer and the application observe.
CloseFrame(status, reason) == [kind |-> "close", status |-> status, reason |-> reason]
PongFrame(payload) == [kind |-> "pong", payload |-> payload]
Message(type, payload, inflated) ==
  [kind |-> "message", type |-> type, payload |-> payload, inflated |-> inflated]

\* get_reply_code: 0 echoes the status, -1 asks for an empty close frame.
EchoedCodes == {NORMAL, PROTOCOL_ERROR, INVALID_TYPE, INVALID_ENCODING, VIOLATION,
                TOO_LARGE, INVALID_EXTENSION, UNEXPECTED_CONDITION}

GetReplyCode(code) ==
  IF code = AWAY THEN NORMAL ELSE IF code \in EchoedCodes THEN 0 ELSE -1

\* handle_close_frame: the close frame sent in answer to one with this
\* (unmasked) payload.
CloseReply(stream, payload) ==
  CASE Len(payload) = 0 -> CloseFrame(NORMAL, <<>>)
    [] Len(payload) = 1 -> CloseFrame(PROTOCOL_ERROR, <<>>)
    [] OTHER ->
        LET code   == stream[payload[1].no].code
            reply  == GetReplyCode(code)
            reason == SubSeq(payload, 3, Len(payload))
        IN  CASE reply = -1 -> CloseFrame(EMPTY_FRAME, <<>>)
              [] reply # -1 /\ ~ ValidUtf8(stream, reason) ->
                   CloseFrame(INVALID_ENCODING, <<>>)
              [] OTHER -> CloseFrame(IF reply > 0 THEN reply ELSE code, reason)
=============================================================================
