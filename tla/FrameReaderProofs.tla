-------------------------- MODULE FrameReaderProofs --------------------------
(***************************************************************************)
(* Proofs about the receive path for every buffer size, payload limit and  *)
(* sequence of frames: nothing is written past the end of a buffer, with   *)
(* or without an extension, however the network cuts the stream.           *)
(***************************************************************************)
EXTENDS FrameReader, SequenceTheorems, TLAPS

\* Every byte on the wire belongs to a frame the peer sent.
WireOfStream == \A i \in 1 .. Len(wire) : wire[i].no \in 1 .. Len(stream)

\* The counters of a header agree: the mask comes after the length, and a control
\* frame has a short one.
HeaderInOrder ==
  /\ current = "none" => headerSize = 0
  /\ headerSize > 0 => headerSize <= HeaderBytes(lengthCode)
  /\ maskSize > 0 => current # "none" /\ LengthKnown
  /\ current = "control" /\ headerSize > 0 => lengthCode < 126

\* A control payload of at most 125 bytes, none of it before the header is read.
ControlFits ==
  /\ control.payloadSize <= 125
  /\ control.bytes # <<>> =>
       /\ current = "control" /\ maskSize = 4
       /\ Len(control.bytes) < control.payloadSize

\* Nothing of the frame under way is in the buffer, and less than BUFFER_SIZE bytes
\* of it are free: too few for a direct receive.
NoRoomYet == Filled = data.offset /\ data.bufferSize - data.offset < BufferSize

\* Some of it is, and the rest has room.
RoomMade ==
  /\ current = "data" /\ maskSize = 4 /\ data.buffer = "heap"
  /\ data.offset < Filled /\ Filled < data.offset + data.payloadSize
  /\ data.offset + data.payloadSize <= data.bufferSize
  /\ data.bufferSize - (data.offset + data.payloadSize) < BufferSize

BufferInOrder ==
  /\ data.payloadSize <= MaxPayloadSize /\ data.bufferSize <= MaxPayloadSize
  /\ data.buffer = "null" => data.bufferSize = 0 /\ Filled = 0 /\ data.offset = 0
  /\ data.buffer = "heap" => data.offset <= data.bufferSize /\ (NoRoomYet \/ RoomMade)
  /\ data.buffer = "stack" => Extensions /\ data.offset = 0 /\ Filled = data.bufferSize

\* recv is called when all is parsed, and a direct receive fills up the frame under
\* way at most.
DirectInOrder ==
  /\ pc \in {"idle", "recv"} => Left = 0
  /\ into = "direct" =>
       /\ pc = "recv" => RoomMade /\ Filled + toRead <= data.offset + data.payloadSize
       /\ pc = "parse" =>
            Left = 0 \/ (RoomMade /\ Filled + Left <= data.offset + data.payloadSize)

DefinedWithoutExtensions == pc = "undefined" => Extensions

IInv == /\ TypeOK /\ WireOfStream /\ HeaderInOrder /\ ControlFits /\ BufferInOrder
        /\ DirectInOrder /\ DefinedWithoutExtensions

-----------------------------------------------------------------------------
\* Multiplication keeps the order.
LEMMA TimesKeepsOrder ==
  ASSUME NEW x \in Int, NEW y \in Int, NEW b \in Nat, x <= y
  PROVE  x * b <= y * b
<1>1. PICK d \in Nat : y = x + d
  BY y - x \in Nat /\ y = x + (y - x)
<1>2. (x + d) * b = x * b + d * b /\ d * b \in Nat
  OBVIOUS
<1> QED BY <1>1, <1>2

\* What RoundUp returns: the next multiple of BUFFER_SIZE, which never passes
\* MAX_PAYLOAD_SIZE, itself a multiple.
LEMMA RoundUpBounds ==
  ASSUME NEW n \in Nat
  PROVE  /\ RoundUp(n) \in Nat /\ n <= RoundUp(n) /\ RoundUp(n) < n + BufferSize
         /\ n <= MaxPayloadSize => RoundUp(n) <= MaxPayloadSize
<1> DEFINE b == BufferSize
           q == (n + b - 1) \div b
           m == MaxPayloadSize \div b
<1>1. b \in Nat \ {0} /\ MaxPayloadSize \in Nat /\ MaxPayloadSize % b = 0
  BY SizesAssumption DEF SizesAssumption
<1>2. /\ q \in Int /\ q * b <= n + b - 1 /\ n + b - 1 < q * b + b
  BY <1>1
<1>3. m \in Int /\ MaxPayloadSize = m * b
  BY <1>1
<1>4. RoundUp(n) = q * b
  BY DEF RoundUp
<1>5. ASSUME n <= MaxPayloadSize PROVE q * b <= m * b
  <2> HIDE DEF q, m, b
  <2>1. CASE q <= m
    BY <1>1, <1>2, <1>3, <2>1, TimesKeepsOrder
  <2>2. CASE m + 1 <= q
    <3>1. (m + 1) * b <= q * b
      BY <1>1, <1>2, <1>3, <2>2, TimesKeepsOrder
    <3>2. (m + 1) * b = m * b + b
      BY <1>1, <1>3
    <3> DEFINE x == q * b
               y == m * b
    <3>3. x \in Int /\ y \in Int
      BY <1>1, <1>2, <1>3
    <3>4. y + b <= x
      BY <3>1, <3>2
    <3>5. x <= n + b - 1 /\ n <= y
      BY <1>2, <1>3, <1>5
    <3>6. x <= y
      <4> HIDE DEF x, y
      <4> QED BY <1>1, <3>3, <3>4, <3>5
    <3> QED BY <3>6
  <2> QED BY <1>2, <1>3, <2>1, <2>2
<1>6. /\ q * b \in Int /\ q * b <= n + BufferSize - 1 /\ n <= q * b
      /\ n <= MaxPayloadSize => q * b <= MaxPayloadSize
  <2>1. BufferSize \in Nat \ {0} /\ q * b \in Int
    BY <1>1, <1>2
  <2>2. n + BufferSize - 1 < q * b + BufferSize
    BY <1>2
  <2> HIDE DEF q, m, b
  <2>3. n <= q * b
    BY <2>1, <2>2
  <2> QED BY <1>2, <1>3, <1>5, <2>1, <2>3 DEF b
<1> HIDE DEF q, m, b
<1> QED BY <1>1, <1>4, <1>6 DEF b

\* The parts of a frame are sequences of its bytes.
LEMMA PartType ==
  ASSUME NEW no \in Nat, NEW role \in Roles, NEW n \in Nat, NEW masked \in BOOLEAN
  PROVE  /\ Part(no, role, n, masked) \in Seq([no : {no}, role : Roles, at : Nat,
                                               masked : BOOLEAN])
         /\ Len(Part(no, role, n, masked)) = n
BY DEF Part, Byte

\* A frame travels as a sequence of bytes.
LEMMA WireBytesType ==
  ASSUME NEW no \in Nat, NEW f \in FrameDescriptors
  PROVE  WireBytes(no, f) \in Seq([no : {no}, role : Roles, at : Nat, masked : BOOLEAN])
<1> DEFINE B == [no : {no}, role : Roles, at : Nat, masked : BOOLEAN]
<1>1. f.len \in Nat /\ f.masked \in BOOLEAN /\ HeaderBytes(LengthCode(f)) \in Nat
  BY DEF FrameDescriptors, HeaderBytes, LengthCode
<1>2. {"first", "length", "mask", "payload"} \subseteq Roles
  BY DEF Roles
<1>3. /\ Part(no, "first", 1, FALSE) \in Seq(B)
      /\ Part(no, "length", HeaderBytes(LengthCode(f)), FALSE) \in Seq(B)
      /\ Part(no, "mask", IF f.masked THEN 4 ELSE 0, FALSE) \in Seq(B)
      /\ Part(no, "payload", f.len, f.masked) \in Seq(B)
  BY <1>1, <1>2, PartType
<1> HIDE DEF B
<1>4. WireBytes(no, f) \in Seq(B)
  BY <1>3, ConcatProperties DEF WireBytes
<1> QED BY <1>4 DEF B

\* unmask changes bytes, not their number.
LEMMA UnmaskType ==
  ASSUME NEW bytes \in Seq(Bytes), NEW from \in Nat, NEW n \in Nat
  PROVE  Unmask(bytes, from, n) \in Seq(Bytes) /\ Len(Unmask(bytes, from, n)) = Len(bytes)
<1> DEFINE U(i) == IF i > from /\ i <= from + n
     THEN [bytes[i] EXCEPT !.masked = IF @ /\ bytes[i].at = i - from THEN FALSE ELSE TRUE]
     ELSE bytes[i]
<1>1. ASSUME NEW i \in 1 .. Len(bytes) PROVE U(i) \in Bytes
  <2>1. bytes[i] \in Bytes
    OBVIOUS
  <2> QED BY <2>1 DEF Bytes
<1>2. Unmask(bytes, from, n) = [i \in 1 .. Len(bytes) |-> U(i)]
  BY DEF Unmask
<1> HIDE DEF U
<1>3. Len(bytes) \in Nat
  OBVIOUS
<1> QED BY <1>1, <1>2, <1>3

\* The next n bytes, if that many are left.
LEMMA TakenType ==
  ASSUME TypeOK, NEW n \in Nat, n <= Left
  PROVE  /\ Taken(n) \in Seq(Bytes) /\ Len(Taken(n)) = n
         /\ parsed + n \in 0 .. received
<1>1. /\ wire \in Seq(Bytes) /\ Len(wire) \in Nat /\ received \in 0 .. Len(wire)
      /\ parsed \in 0 .. received
  BY LenProperties DEF TypeOK
<1>2. parsed + n \in 0 .. received
  BY <1>1 DEF Left
<1>3. \A i \in parsed + 1 .. parsed + n : wire[i] \in Bytes
  BY <1>1, <1>2, ElementOfSeq
<1>4. /\ Taken(n) \in Seq(Bytes)
      /\ Len(Taken(n)) = IF parsed + 1 <= parsed + n
                         THEN (parsed + n) - (parsed + 1) + 1 ELSE 0
  <2>1. parsed + 1 \in Int /\ parsed + n \in Int
    BY <1>1
  <2> QED BY <1>3, <2>1, SubSeqProperties DEF Taken
<1> QED BY <1>1, <1>2, <1>4

-----------------------------------------------------------------------------
\* The client is gone, or the code did something undefined: its state is looked at
\* no more.
LEMMA ClosingStep ==
  ASSUME IInv, pc' \in {"closed", "undefined"}, pc' = "undefined" => Extensions,
         UNCHANGED <<network, received, parsed, into, toRead, header, control, data>>,
         status' \in {"connected", "closing"}, handled' \in Nat
  PROVE  IInv'
<1>1. TypeOK'
  BY DEF IInv, TypeOK, network, header
<1>2. WireOfStream' /\ HeaderInOrder' /\ ControlFits'
  BY DEF IInv, network, header, WireOfStream, HeaderInOrder, ControlFits, LengthKnown
<1>3. BufferInOrder'
  BY DEF IInv, header, BufferInOrder, NoRoomYet, RoomMade, Filled
<1>4. DirectInOrder' /\ DefinedWithoutExtensions'
  BY DEF DirectInOrder, DefinedWithoutExtensions
<1> QED BY <1>1, <1>2, <1>3, <1>4 DEF IInv

\* close_client meets a pointer into the stack array only with an extension.
LEMMA CloseClientOutcome ==
  ASSUME IInv, CloseClient
  PROVE  pc' \in {"closed", "undefined"} /\ (pc' = "undefined" => Extensions)
BY DEF IInv, BufferInOrder, CloseClient

\* A refusal only writes a close frame and closes.
LEMMA RejectStep ==
  ASSUME IInv, NEW code, Reject(code)
  PROVE  IInv'
<1>1. /\ UNCHANGED <<network, received, parsed, into, toRead, header, control, data>>
      /\ status' \in {"connected", "closing"} /\ handled' \in Nat /\ CloseClient
  BY DEF Reject, IInv, TypeOK
<1> QED BY <1>1, CloseClientOutcome, ClosingStep

\* What a step keeps that touches neither the stream, nor the header, nor a buffer.
LEMMA IdleStep ==
  ASSUME IInv, UNCHANGED <<network, parsed, header, control, data, handled>>,
         received' \in parsed .. Len(wire), status' \in {"connected", "closing"},
         pc' \in {"idle", "recv", "parse", "closed", "undefined"},
         into' \in {"stack", "direct"}, toRead' \in Nat \ {0},
         DirectInOrder', pc' = "undefined" => Extensions
  PROVE  IInv'
<1>1. Len(wire) \in Nat /\ parsed \in Nat /\ received' \in 0 .. Len(wire)
  BY LenProperties DEF IInv, TypeOK
<1>2. parsed' \in 0 .. received'
  BY <1>1
<1>3. TypeOK'
  BY <1>1, <1>2 DEF IInv, TypeOK, network, header
<1>4. WireOfStream' /\ HeaderInOrder' /\ ControlFits'
  BY DEF IInv, network, header, WireOfStream, HeaderInOrder, ControlFits, LengthKnown
<1>5. BufferInOrder' /\ DefinedWithoutExtensions'
  BY DEF IInv, header, BufferInOrder, NoRoomYet, RoomMade, Filled, DefinedWithoutExtensions
<1> QED BY <1>3, <1>4, <1>5 DEF IInv

\* A new frame extends the wire; what was read of it stays what it was.
LEMMA PeerSendsStep == IInv /\ PeerSends => IInv'
<1> SUFFICES ASSUME IInv, PeerSends PROVE IInv'
  OBVIOUS
<1>1. PICK f \in PeerFrames[Len(stream) + 1] :
        /\ stream' = Append(stream, f)
        /\ wire' = wire \o WireBytes(Len(stream) + 1, f)
  BY DEF PeerSends
<1>2. /\ stream \in Seq(FrameDescriptors) /\ wire \in Seq(Bytes) /\ Len(stream) \in Nat
      /\ Len(wire) \in Nat
  BY LenProperties DEF IInv, TypeOK
<1>3. f \in FrameDescriptors
  <2>1. Len(stream) + 1 \in 1 .. MaxFrames
    BY <1>2, FramesAssumption DEF PeerSends, FramesAssumption
  <2> QED BY <2>1, FramesAssumption DEF FramesAssumption
<1> DEFINE new == WireBytes(Len(stream) + 1, f)
           B == [no : {Len(stream) + 1}, role : Roles, at : Nat, masked : BOOLEAN]
<1>4. new \in Seq(B) /\ Len(stream) + 1 \in Nat
  <2>1. Len(stream) + 1 \in Nat
    BY <1>2
  <2> QED BY <1>3, <2>1, WireBytesType
<1>5. new \in Seq(Bytes)
  <2>1. B \subseteq Bytes
    BY <1>4 DEF Bytes
  <2> HIDE DEF B, new
  <2> QED BY <1>4, <2>1
<1>6. /\ stream' \in Seq(FrameDescriptors) /\ Len(stream') = Len(stream) + 1
  BY <1>1, <1>2, <1>3, AppendProperties
<1> HIDE DEF new
<1>7. /\ wire' \in Seq(Bytes) /\ Len(wire') = Len(wire) + Len(new) /\ Len(new) \in Nat
      /\ \A i \in 1 .. Len(wire') :
           wire'[i] = IF i <= Len(wire) THEN wire[i] ELSE new[i - Len(wire)]
  BY <1>1, <1>2, <1>5, ConcatProperties, LenProperties DEF new
<1>8. WireOfStream'
  <2> SUFFICES ASSUME NEW i \in 1 .. Len(wire')
               PROVE  wire'[i].no \in 1 .. Len(stream) + 1
    BY <1>6 DEF WireOfStream
  <2>1. CASE i <= Len(wire)
    <3>1. i \in 1 .. Len(wire) /\ wire'[i] = wire[i]
      BY <1>2, <1>7, <2>1
    <3>2. wire[i].no \in 1 .. Len(stream)
      BY <3>1 DEF IInv, WireOfStream
    <3> QED BY <1>2, <3>1, <3>2
  <2>2. CASE i > Len(wire)
    <3>1. i - Len(wire) \in 1 .. Len(new) /\ wire'[i] = new[i - Len(wire)]
      BY <1>2, <1>7, <2>2
    <3> HIDE DEF B
    <3>2. new[i - Len(wire)] \in B
      BY <1>4, <3>1, ElementOfSeq
    <3> QED BY <1>2, <3>1, <3>2 DEF B
  <2> QED BY <1>2, <1>7, <2>1, <2>2
<1>9. TypeOK'
  <2>1. received \in 0 .. Len(wire')
    BY <1>2, <1>7 DEF IInv, TypeOK
  <2> QED BY <1>6, <1>7, <2>1 DEF IInv, TypeOK, PeerSends, header
<1>10. HeaderInOrder' /\ ControlFits'
  BY DEF PeerSends, IInv, header, HeaderInOrder, ControlFits, LengthKnown
<1>11. BufferInOrder' /\ DefinedWithoutExtensions'
  BY DEF PeerSends, IInv, header, BufferInOrder, NoRoomYet, RoomMade, Filled,
     DefinedWithoutExtensions
<1>12. DirectInOrder'
  BY DEF PeerSends, IInv, header, DirectInOrder, RoomMade, Filled, Left
<1> QED BY <1>8, <1>9, <1>10, <1>11, <1>12 DEF IInv

\* A call of handle_client_data starts with the stack array.
LEMMA ReadEventStep == IInv /\ ReadEvent => IInv'
<1> SUFFICES ASSUME IInv, ReadEvent PROVE IInv'
  OBVIOUS
<1>1. received \in parsed .. Len(wire) /\ BufferSize \in Nat \ {0}
  BY SizesAssumption, LenProperties DEF IInv, TypeOK, SizesAssumption
<1> QED BY <1>1, IdleStep DEF ReadEvent, IInv, TypeOK, DirectInOrder, Left

\* A direct receive takes at most what the frame still lacks, so it still has room.
LEMMA RecvStep == IInv /\ Recv => IInv'
<1> SUFFICES ASSUME IInv, Recv PROVE IInv'
  OBVIOUS
<1>1. PICK n \in 1 .. Least(toRead, Len(wire) - received) : received' = received + n
  BY DEF Recv
<1>2. /\ Len(wire) \in Nat /\ received \in 0 .. Len(wire) /\ parsed \in 0 .. received
      /\ toRead \in Nat
  BY LenProperties DEF IInv, TypeOK
<1>3. n \in Nat /\ n <= toRead /\ received' \in parsed .. Len(wire)
  BY <1>1, <1>2 DEF Least
<1>4. Left = 0 /\ Left' = n /\ pc' = "parse"
  BY <1>1, <1>2, <1>3 DEF Recv, IInv, DirectInOrder, Left
<1>5. RoomMade' <=> RoomMade
  BY DEF Recv, header, RoomMade, Filled
<1>6. ASSUME into = "direct", RoomMade, Filled + toRead <= data.offset + data.payloadSize
      PROVE  Filled + Left' <= data.offset + data.payloadSize
  <2>1. Filled \in Nat /\ data.offset \in Nat /\ data.payloadSize \in Nat
    BY LenProperties DEF IInv, TypeOK, DataFrames, Filled
  <2> QED BY <1>2, <1>3, <1>4, <1>6, <2>1
<1>7. DirectInOrder'
  BY <1>4, <1>5, <1>6 DEF Recv, IInv, DirectInOrder, Filled
<1> QED BY <1>3, <1>7, IdleStep DEF Recv, IInv, TypeOK

\* EAGAIN ends the call with every byte parsed.
LEMMA RecvAgainStep == IInv /\ RecvAgain => IInv'
<1> SUFFICES ASSUME IInv, RecvAgain PROVE IInv'
  OBVIOUS
<1>1. received \in parsed .. Len(wire)
  BY LenProperties DEF IInv, TypeOK
<1>2. DirectInOrder'
  BY DEF RecvAgain, IInv, DirectInOrder, Left
<1> QED BY <1>1, <1>2, IdleStep DEF RecvAgain, IInv, TypeOK

\* A hang-up frees the buffers.
LEMMA PeerGoneStep == IInv /\ PeerGone => IInv'
<1> SUFFICES ASSUME IInv, PeerGone PROVE IInv'
  OBVIOUS
<1>1. /\ UNCHANGED <<network, received, parsed, into, toRead, header, control, data>>
      /\ status' \in {"connected", "closing"} /\ handled' \in Nat /\ CloseClient
  BY DEF PeerGone, IInv, TypeOK
<1> QED BY <1>1, CloseClientOutcome, ClosingStep

\* start_closing touches neither the parser nor a buffer.
LEMMA StartClosingStep == IInv /\ StartClosing => IInv'
<1> SUFFICES ASSUME IInv, StartClosing PROVE IInv'
  OBVIOUS
<1>1. received \in parsed .. Len(wire)
  BY LenProperties DEF IInv, TypeOK
<1>2. DirectInOrder'
  BY DEF StartClosing, IInv, DirectInOrder, Left
<1> QED BY <1>1, <1>2, IdleStep DEF StartClosing, IInv, TypeOK

\* A direct receive is chosen only when the frame under way has room for what is
\* missing of it: without room made, less than BUFFER_SIZE bytes are free.
LEMMA EndBufferStep == IInv /\ EndBuffer => IInv'
<1> SUFFICES ASSUME IInv, EndBuffer PROVE IInv'
  OBVIOUS
<1>1. /\ received \in parsed .. Len(wire) /\ BufferSize \in Nat \ {0}
      /\ Filled \in Nat /\ data.offset \in Nat /\ data.payloadSize \in Nat
      /\ data.bufferSize \in Nat
  BY SizesAssumption, LenProperties
  DEF IInv, TypeOK, DataFrames, SizesAssumption, Filled
<1>2. Left' = 0 /\ pc' = "recv" /\ (RoomMade' <=> RoomMade) /\ Filled' = Filled
  BY DEF EndBuffer, header, Left, RoomMade, Filled
<1>3. CASE maskSize = 4 /\ current = "data" /\ data.bufferSize - Filled > BufferSize
  <2>1. RoomMade
    BY <1>1, <1>3 DEF IInv, BufferInOrder, NoRoomYet, TypeOK, DataFrames
  <2>2. /\ into' = "direct"
        /\ toRead' = data.payloadSize - (Filled - data.offset)
    BY <1>3 DEF EndBuffer
  <2>3. toRead' \in Nat \ {0} /\ Filled + toRead' <= data.offset + data.payloadSize
    BY <1>1, <2>1, <2>2 DEF RoomMade
  <2>4. DirectInOrder'
    BY <1>2, <2>1, <2>3 DEF DirectInOrder, EndBuffer
  <2> QED BY <1>1, <2>2, <2>3, <2>4, IdleStep DEF EndBuffer, IInv, TypeOK
<1>4. CASE ~ (maskSize = 4 /\ current = "data" /\ data.bufferSize - Filled > BufferSize)
  <2>1. into' = "stack" /\ toRead' = BufferSize
    BY <1>4 DEF EndBuffer
  <2>2. DirectInOrder'
    BY <1>2, <2>1 DEF DirectInOrder
  <2> QED BY <1>1, <2>1, <2>2, IdleStep DEF EndBuffer, IInv, TypeOK
<1> QED BY <1>3, <1>4

-----------------------------------------------------------------------------
\* The frame whose byte comes next is one the peer sent.
LEMMA NextFrameType ==
  ASSUME IInv, Left > 0
  PROVE  stream[Next1.no] \in FrameDescriptors
<1>1. /\ stream \in Seq(FrameDescriptors) /\ Len(wire) \in Nat
      /\ received \in 0 .. Len(wire) /\ parsed \in 0 .. received
  BY LenProperties DEF IInv, TypeOK
<1>2. parsed + 1 \in 1 .. Len(wire)
  BY <1>1 DEF Left
<1>3. Next1.no \in 1 .. Len(stream)
  BY <1>2 DEF IInv, WireOfStream, Next1
<1> QED BY <1>1, <1>3, ElementOfSeq

\* What a step keeps that reads bytes of a header: the buffers stay as they are,
\* and none is filled by a direct receive.
LEMMA HeaderStep ==
  ASSUME IInv, pc = "parse", Left > 0, maskSize < 4,
         UNCHANGED <<network, received, pc, into, toRead, status, handled>>,
         NEW n \in Nat, n <= Left, parsed' = parsed + n,
         current' \in {"none", "control", "data"}, headerSize' \in 0 .. 9,
         lengthCode' \in Nat, maskSize' \in 0 .. 4, HeaderInOrder',
         control' \in ControlFrames, data' \in DataFrames,
         control'.payloadSize <= 125, control'.bytes = control.bytes,
         data'.payloadSize <= MaxPayloadSize, data'.bufferSize = data.bufferSize,
         data'.offset = data.offset, data'.buffer = data.buffer,
         data'.bytes = data.bytes
  PROVE  IInv'
<1>1. /\ parsed' \in 0 .. received /\ TypeOK
  BY TakenType DEF IInv
<1>2. into # "direct" /\ control.bytes = <<>> /\ ~ RoomMade
  BY DEF IInv, DirectInOrder, ControlFits, RoomMade
<1>3. TypeOK'
  BY <1>1 DEF TypeOK, network
<1>4. WireOfStream' /\ DefinedWithoutExtensions' /\ DirectInOrder'
  BY <1>2 DEF IInv, network, WireOfStream, DefinedWithoutExtensions, DirectInOrder
<1>5. ControlFits' /\ BufferInOrder'
  BY <1>2 DEF IInv, ControlFits, BufferInOrder, NoRoomYet, Filled
<1> QED BY <1>3, <1>4, <1>5 DEF IInv

\* The first byte opens a header, for the control or for the data frame.
LEMMA GetFrameTypeStep == IInv /\ GetFrameType => IInv'
<1> SUFFICES ASSUME IInv, GetFrameType PROVE IInv'
  OBVIOUS
<1> DEFINE f == stream[Next1.no]
           bad == BadFrameType(f, data.type, Extensions)
<1>1. /\ TypeOK /\ pc = "parse" /\ Left > 0 /\ maskSize < 4 /\ current = "none"
      /\ headerSize = 0 /\ maskSize = 0
  BY DEF IInv, GetFrameType, AtFrameType, HeaderInOrder, TypeOK
<1>2. f \in FrameDescriptors
  BY <1>1, NextFrameType
<1> HIDE DEF f
<1>3. CASE bad /\ Reject(PROTOCOL_ERROR)
  BY <1>3, RejectStep
<1>4. CASE /\ CloseClient
           /\ UNCHANGED <<network, received, parsed, into, toRead, header, control,
                          data, status, handled, effects>>
  <2>1. status' \in {"connected", "closing"} /\ handled' \in Nat
    BY <1>1, <1>4 DEF TypeOK
  <2> QED BY <1>4, <2>1, CloseClientOutcome, ClosingStep
<1>5. CASE /\ ~ bad
           /\ \/ IsControl(f.op) /\ AcceptControl(f)
              \/ ~ IsControl(f.op) /\ AcceptData(f)
           /\ parsed' = parsed + 1
           /\ UNCHANGED <<network, received, pc, into, toRead, headerSize, lengthCode,
                          maskSize, status, handled, effects>>
  <2>1. 1 \in Nat /\ 1 <= Left
    BY <1>1 DEF TypeOK, Left
  <2>2. HeaderInOrder' /\ current' \in {"control", "data"}
    BY <1>1, <1>5 DEF HeaderInOrder, AcceptControl, AcceptData
  <2>3. f.op \in 0 .. 15 /\ f.fin \in BOOLEAN
    BY <1>2 DEF FrameDescriptors
  <2>4. CASE IsControl(f.op) /\ AcceptControl(f)
    <3>1. f.op \in {CLOSE, PING, PONG}
      BY <1>5, <2>3, <2>4 DEF BadFrameType, IsReserved, IsControl, CLOSE, PING, PONG,
         THRESHOLD, BINARY
    <3>2. /\ control' \in ControlFrames /\ control'.bytes = control.bytes
          /\ control'.payloadSize = control.payloadSize /\ data' = data
      BY <1>1, <2>4, <3>1 DEF AcceptControl, ControlFrames, TypeOK
    <3> QED BY <1>1, <1>5, <2>1, <2>2, <3>2, HeaderStep
        DEF IInv, ControlFits, BufferInOrder, TypeOK
  <2>5. CASE ~ IsControl(f.op) /\ AcceptData(f)
    <3>1. data.type = INVALID => f.op \in {TEXT, BINARY}
      BY <1>5, <2>3, <2>5 DEF BadFrameType, IsReserved, IsControl, OutOfSequence, TEXT,
         BINARY, CONTINUATION, THRESHOLD, CLOSE
    <3>2. /\ data' \in DataFrames /\ data'.payloadSize = data.payloadSize
          /\ data'.bufferSize = data.bufferSize /\ data'.offset = data.offset
          /\ data'.buffer = data.buffer /\ data'.bytes = data.bytes
          /\ control' = control
      <4> DEFINE first == (f.op # CONTINUATION /\ data.type = INVALID) \/ data.isFirst
                 rsv1 == IF data.type = INVALID THEN 1 \in f.rsv ELSE data.rsv1
                 type == IF data.type = INVALID THEN f.op ELSE data.type
      <4>1. data \in DataFrames
        BY <1>1 DEF TypeOK
      <4>2. first \in BOOLEAN /\ rsv1 \in BOOLEAN
        <5>1. data.isFirst \in BOOLEAN /\ data.rsv1 \in BOOLEAN
          BY <4>1 DEF DataFrames
        <5>2. first \in BOOLEAN
          BY Zenon DEF first
        <5>3. (1 \in f.rsv) \in BOOLEAN
          BY SMT
        <5>4. rsv1 \in BOOLEAN
          <6>1. CASE data.type = INVALID
            BY <5>3, <6>1, Zenon
          <6>2. CASE data.type # INVALID
            BY <5>1, <6>2, Zenon
          <6> QED BY <6>1, <6>2
        <5> QED BY <5>2, <5>4
      <4>3. type \in {INVALID, TEXT, BINARY}
        BY <3>1, <4>1 DEF DataFrames
      <4>4. /\ data' = [data EXCEPT !.isFirst = first, !.isFinal = f.fin, !.rsv1 = rsv1,
                                    !.type = type]
            /\ control' = control
        BY <2>5 DEF AcceptData
      <4> HIDE DEF first, rsv1, type
      <4> QED BY <2>3, <4>1, <4>2, <4>3, <4>4 DEF DataFrames
    <3>3. /\ control' \in ControlFrames /\ control'.payloadSize <= 125
          /\ data'.payloadSize <= MaxPayloadSize /\ control'.bytes = control.bytes
      BY <1>1, <3>2 DEF IInv, ControlFits, BufferInOrder, TypeOK
    <3>4. /\ headerSize' \in 0 .. 9 /\ lengthCode' \in Nat /\ maskSize' \in 0 .. 4
          /\ UNCHANGED <<network, received, pc, into, toRead, status, handled>>
      BY <1>1, <1>5 DEF TypeOK
    <3> QED BY <1>1, <1>5, <2>1, <2>2, <3>2, <3>3, <3>4, HeaderStep
  <2> QED BY <1>5, <2>4, <2>5
<1> QED BY <1>3, <1>4, <1>5 DEF GetFrameType, f

\* The length is within the limit of its kind once it is accepted.
LEMMA GetPayloadDataStep == IInv /\ GetPayloadData => IInv'
<1> SUFFICES ASSUME IInv, GetPayloadData PROVE IInv'
  OBVIOUS
<1> DEFINE f == stream[Next1.no]
           code == IF headerSize = 0 THEN LengthCode(f) ELSE lengthCode
           taken == Least(HeaderBytes(code) - headerSize, Left)
           known == headerSize + taken = HeaderBytes(code)
<1>1. /\ TypeOK /\ HeaderInOrder /\ ControlFits /\ BufferInOrder
      /\ pc = "parse" /\ Left > 0 /\ maskSize < 4 /\ current # "none" /\ ~ LengthKnown
  BY DEF IInv, GetPayloadData, AtLength
<1>2. f \in FrameDescriptors
  BY <1>1, NextFrameType
<1>3. LengthCode(f) \in Nat /\ f.len \in Nat /\ (LengthCode(f) < 126 => f.len <= 125)
  <2>1. f.len \in Nat /\ f.form \in {7, 16, 64}
    BY <1>2 DEF FrameDescriptors
  <2> HIDE DEF f
  <2> QED BY <2>1 DEF LengthCode
<1> HIDE DEF f
<1>4. code \in Nat /\ headerSize \in 0 .. 9 /\ headerSize < HeaderBytes(code)
      /\ HeaderBytes(code) \in 1 .. 9 /\ Left \in Nat /\ maskSize = 0
  <2>1. headerSize \in 0 .. 9 /\ lengthCode \in Nat /\ Left \in Nat /\ maskSize = 0
    BY <1>1 DEF TypeOK, Left, HeaderInOrder
  <2>2. code \in Nat
    BY <1>3, <2>1
  <2>3. headerSize > 0 => headerSize < HeaderBytes(lengthCode)
    BY <1>1, <2>1 DEF HeaderInOrder, LengthKnown, HeaderBytes
  <2> HIDE DEF code
  <2>4. HeaderBytes(code) \in 1 .. 9
    BY <2>2 DEF HeaderBytes
  <2>5. CASE headerSize = 0
    BY <2>1, <2>2, <2>4, <2>5
  <2>6. CASE headerSize # 0
    BY <2>1, <2>2, <2>3, <2>4, <2>6 DEF code
  <2> QED BY <2>5, <2>6
<1>5. current = "control" => headerSize = 0
  BY <1>1, <1>4 DEF HeaderInOrder, HeaderBytes
<1>6. CASE Reject(INVALID_TYPE) \/ Reject(PROTOCOL_ERROR) \/ Reject(TOO_LARGE)
  BY <1>6, RejectStep
<1>7. CASE /\ current = "data" \/ code < 126
           /\ known => f.len <= MaxPayloadSize
           /\ parsed' = parsed + taken
           /\ headerSize' = headerSize + taken
           /\ lengthCode' = code
           /\ control' = IF known /\ current = "control"
                         THEN [control EXCEPT !.payloadSize = f.len] ELSE control
           /\ data' = IF known /\ current = "data"
                      THEN [data EXCEPT !.payloadSize = f.len] ELSE data
           /\ UNCHANGED <<network, received, pc, into, toRead, current, maskSize,
                          status, handled, effects>>
  <2>1. taken \in Nat /\ taken <= Left /\ headerSize + taken <= HeaderBytes(code)
    <3> HIDE DEF code
    <3> QED BY <1>1, <1>4 DEF Least
  <2>2. HeaderInOrder'
    <3> HIDE DEF code, taken
    <3> QED BY <1>1, <1>4, <1>7, <2>1 DEF HeaderInOrder
  <2>3. current = "control" => f.len <= 125
    BY <1>1, <1>3, <1>5, <1>7
  <2>4. /\ control' \in ControlFrames /\ control'.payloadSize <= 125
        /\ control'.bytes = control.bytes
    <3>1. control \in ControlFrames /\ control.payloadSize <= 125
      BY <1>1 DEF TypeOK, ControlFits
    <3> HIDE DEF known
    <3> QED BY <1>3, <1>7, <2>3, <3>1 DEF ControlFrames
  <2>5. /\ data' \in DataFrames /\ data'.payloadSize <= MaxPayloadSize
        /\ data'.bufferSize = data.bufferSize /\ data'.offset = data.offset
        /\ data'.buffer = data.buffer /\ data'.bytes = data.bytes
    <3>1. data \in DataFrames /\ data.payloadSize <= MaxPayloadSize
      BY <1>1 DEF TypeOK, BufferInOrder
    <3> HIDE DEF known
    <3> QED BY <1>3, <1>7, <3>1 DEF DataFrames
  <2>6. /\ current' \in {"none", "control", "data"} /\ headerSize' \in 0 .. 9
        /\ lengthCode' \in Nat /\ maskSize' \in 0 .. 4
        /\ UNCHANGED <<network, received, pc, into, toRead, status, handled>>
    <3>1. headerSize' = headerSize + taken /\ lengthCode' = code
          /\ UNCHANGED <<network, received, pc, into, toRead, current, maskSize, status,
                         handled>>
      BY <1>7
    <3> HIDE DEF code, taken
    <3>2. headerSize' \in 0 .. 9
      BY <1>4, <2>1, <3>1
    <3>3. current \in {"none", "control", "data"} /\ maskSize \in 0 .. 4
      BY <1>1 DEF TypeOK
    <3> QED BY <1>4, <3>1, <3>2, <3>3
  <2> HIDE DEF code, taken
  <2> QED BY <1>1, <1>7, <2>1, <2>2, <2>4, <2>5, <2>6, HeaderStep
<1> QED BY <1>6, <1>7 DEF GetPayloadData, f

\* At most the four bytes of the mask are copied.
LEMMA CopyMaskStep == IInv /\ CopyMask => IInv'
<1> SUFFICES ASSUME IInv, CopyMask PROVE IInv'
  OBVIOUS
<1> DEFINE taken == Least(4 - maskSize, Left)
<1>1. /\ TypeOK /\ HeaderInOrder /\ ControlFits /\ BufferInOrder
      /\ pc = "parse" /\ Left > 0 /\ maskSize < 4 /\ current # "none" /\ LengthKnown
  BY DEF IInv, CopyMask
<1>2. taken \in Nat /\ taken <= Left /\ maskSize + taken \in 0 .. 4
  BY <1>1 DEF TypeOK, Left, Least
<1>3. /\ maskSize' = maskSize + taken /\ parsed' = parsed + taken
      /\ UNCHANGED <<network, received, pc, into, toRead, current, headerSize, lengthCode,
                     control, data, status, handled, effects>>
  BY DEF CopyMask
<1> HIDE DEF taken
<1>4. HeaderInOrder'
  BY <1>1, <1>3 DEF HeaderInOrder, LengthKnown
<1>5. /\ control' \in ControlFrames /\ control'.payloadSize <= 125
      /\ data' \in DataFrames /\ data'.payloadSize <= MaxPayloadSize
      /\ control' = control /\ data' = data
  BY <1>1, <1>3 DEF TypeOK, ControlFits, BufferInOrder
<1>6. /\ current' \in {"none", "control", "data"} /\ headerSize' \in 0 .. 9
      /\ lengthCode' \in Nat /\ maskSize' \in 0 .. 4
  BY <1>1, <1>2, <1>3 DEF TypeOK
<1> QED BY <1>1, <1>2, <1>3, <1>4, <1>5, <1>6, HeaderStep

-----------------------------------------------------------------------------
\* What a step keeps that reads bytes of a payload and stays in the loop.
LEMMA PayloadStep ==
  ASSUME IInv, pc = "parse",
         UNCHANGED <<network, received, pc, into, toRead, lengthCode>>,
         NEW n \in Nat, n <= Left, parsed' = parsed + n, into = "direct" => n = Left,
         status' \in {"connected", "closing"}, handled' \in Nat,
         \/ UNCHANGED header
         \/ current' = "none" /\ headerSize' = 0 /\ maskSize' = 0,
         control' \in ControlFrames, ControlFits', data' \in DataFrames, BufferInOrder'
  PROVE  IInv'
<1>1. /\ parsed' \in 0 .. received /\ TypeOK
  BY TakenType DEF IInv
<1>2. /\ current' \in {"none", "control", "data"} /\ headerSize' \in 0 .. 9
      /\ maskSize' \in 0 .. 4
  BY <1>1 DEF TypeOK, header
<1>3. TypeOK'
  BY <1>1, <1>2 DEF TypeOK, network
<1>4. HeaderInOrder'
  BY DEF IInv, header, HeaderInOrder, LengthKnown
<1>5. into = "direct" => Left' = 0
  BY <1>1 DEF Left, TypeOK
<1>6. WireOfStream' /\ DefinedWithoutExtensions' /\ DirectInOrder'
  BY <1>5 DEF IInv, network, WireOfStream, DefinedWithoutExtensions, DirectInOrder
<1> QED BY <1>3, <1>4, <1>6 DEF IInv

\* The control payload takes no more bytes than its frame still lacks.
LEMMA HandleControlFrameStep == IInv /\ HandleControlFrame => IInv'
<1> SUFFICES ASSUME IInv, HandleControlFrame PROVE IInv'
  OBVIOUS
<1> DEFINE size == control.payloadSize
           taken == Least(size - Len(control.bytes), Left)
           bytes == control.bytes \o Taken(taken)
<1>1. /\ TypeOK /\ ControlFits /\ BufferInOrder /\ pc = "parse" /\ maskSize = 4
      /\ current = "control" /\ (Left > 0 \/ size = 0)
  BY DEF IInv, HandleControlFrame, FrameReady, PayloadSize
<1>2. /\ control \in ControlFrames /\ control.bytes \in Seq(Bytes) /\ size \in Nat
      /\ Len(control.bytes) \in Nat /\ Left \in Nat
  BY <1>1, LenProperties DEF TypeOK, ControlFrames, Left
<1>3. Len(control.bytes) <= size /\ size <= 125
  <2>1. Len(<<>>) = 0
    OBVIOUS
  <2> QED BY <1>1, <1>2, <2>1 DEF ControlFits
<1>4. taken \in Nat /\ taken <= Left
  BY <1>2, <1>3 DEF Least
<1>5. /\ Taken(taken) \in Seq(Bytes) /\ Len(Taken(taken)) = taken
  BY <1>1, <1>4, TakenType
<1>6. bytes \in Seq(Bytes) /\ Len(bytes) = Len(control.bytes) + taken
  <2> DEFINE front == control.bytes
             back == Taken(taken)
  <2>1. front \in Seq(Bytes) /\ back \in Seq(Bytes)
    BY <1>2, <1>5
  <2>2. front \o back \in Seq(Bytes) /\ Len(front \o back) = Len(front) + Len(back)
    <3> HIDE DEF front, back
    <3> QED BY <2>1, ConcatProperties
  <2> QED BY <1>5, <2>2
<1>7. into = "direct" => Left = 0
  BY <1>1 DEF IInv, DirectInOrder, RoomMade
<1>8. into = "direct" => taken = Left
  BY <1>2, <1>4, <1>7
<1>9. ~ RoomMade
  BY <1>1 DEF RoomMade
<1>10. CASE /\ Len(bytes) < size
            /\ parsed' = parsed + taken
            /\ control' = [control EXCEPT !.bytes = bytes]
            /\ UNCHANGED <<network, received, pc, into, toRead, header, data, status,
                           handled, effects>>
  <2> HIDE DEF taken, bytes
  <2>1. /\ control' \in ControlFrames /\ control'.bytes = bytes
        /\ control'.payloadSize = size
    BY <1>2, <1>6, <1>10 DEF ControlFrames
  <2>2. ControlFits'
    BY <1>1, <1>3, <1>10, <2>1 DEF ControlFits, header
  <2>3. data' \in DataFrames /\ BufferInOrder'
    BY <1>1, <1>9, <1>10 DEF TypeOK, BufferInOrder, NoRoomYet, Filled
  <2>4. /\ status' \in {"connected", "closing"} /\ handled' \in Nat
        /\ UNCHANGED <<network, received, pc, into, toRead, lengthCode>> /\ UNCHANGED header
    BY <1>1, <1>10 DEF TypeOK, header
  <2> QED BY <1>1, <1>4, <1>8, <1>10, <2>1, <2>2, <2>3, <2>4, PayloadStep
<1>11. CASE /\ CloseClient /\ handled' = handled + 1
            /\ UNCHANGED <<network, received, parsed, into, toRead, header, control,
                           data, status>>
  <2>1. status' \in {"connected", "closing"} /\ handled' \in Nat
    BY <1>1, <1>11 DEF TypeOK
  <2> QED BY <1>11, <2>1, CloseClientOutcome, ClosingStep
<1>12. CASE /\ control' = [type |-> INVALID, payloadSize |-> 0, bytes |-> <<>>]
            /\ ResetHeader /\ parsed' = parsed + taken /\ handled' = handled + 1
            /\ UNCHANGED <<network, received, pc, into, toRead, data, status>>
  <2> HIDE DEF taken
  <2>1. /\ control' \in ControlFrames /\ ControlFits'
    BY <1>12 DEF ControlFrames, ControlFits
  <2>2. data' \in DataFrames /\ BufferInOrder'
    BY <1>1, <1>9, <1>12 DEF TypeOK, BufferInOrder, NoRoomYet, Filled
  <2>3. /\ status' \in {"connected", "closing"} /\ handled' \in Nat
        /\ UNCHANGED <<network, received, pc, into, toRead, lengthCode>>
        /\ current' = "none" /\ headerSize' = 0 /\ maskSize' = 0
    BY <1>1, <1>12 DEF TypeOK, ResetHeader
  <2> QED BY <1>1, <1>4, <1>8, <1>12, <2>1, <2>2, <2>3, PayloadStep
<1> QED BY <1>10, <1>11, <1>12 DEF HandleControlFrame

-----------------------------------------------------------------------------
\* Where a data frame stands before its bytes are taken.
LEMMA DataFacts ==
  ASSUME IInv, AtData
  PROVE  /\ TypeOK /\ BufferInOrder /\ pc = "parse" /\ maskSize = 4 /\ current = "data"
         /\ data \in DataFrames /\ data.bytes \in Seq(Bytes)
         /\ Filled \in Nat /\ data.offset \in Nat /\ data.payloadSize \in Nat
         /\ data.bufferSize \in Nat /\ Left \in Nat
         /\ Left > 0 \/ data.payloadSize = 0
         /\ data.offset <= Filled /\ Filled <= data.offset + data.payloadSize
         /\ InPlace \/ data.buffer # "stack"
<1>1. /\ TypeOK /\ BufferInOrder /\ pc = "parse" /\ maskSize = 4 /\ current = "data"
      /\ Left > 0 \/ data.payloadSize = 0
      /\ InPlace \/ data.buffer # "stack"
  BY DEF IInv, AtData, FrameReady, PayloadSize, UsesDeadBuffer
<1>2. /\ data \in DataFrames /\ data.bytes \in Seq(Bytes) /\ Filled \in Nat
      /\ data.offset \in Nat /\ data.payloadSize \in Nat /\ data.bufferSize \in Nat
      /\ data.buffer \in {"null", "heap", "stack"} /\ Left \in Nat
  BY <1>1, LenProperties DEF TypeOK, DataFrames, Filled, Left
<1>3. data.offset <= Filled /\ Filled <= data.offset + data.payloadSize
  BY <1>1, <1>2 DEF BufferInOrder, NoRoomYet, RoomMade, InPlace
<1> QED BY <1>1, <1>2, <1>3

\* How many bytes are taken: never more than are left, none beyond the frame, and
\* all of those that a direct receive brought.
LEMMA TakenNowFacts ==
  ASSUME IInv, AtData
  PROVE  /\ TakenNow \in Nat /\ TakenNow <= Left
         /\ Filled + TakenNow <= data.offset + data.payloadSize
         /\ TakenNow > 0 \/ data.payloadSize = 0
         /\ into = "direct" => TakenNow = Left
         /\ InPlace => data.offset = 0 /\ TakenNow = data.payloadSize /\ Filled = 0
<1>1. into = "direct" =>
        Left = 0 \/ (RoomMade /\ Filled + Left <= data.offset + data.payloadSize)
  BY DataFacts DEF IInv, DirectInOrder
<1>2. CASE InPlace
  <2>1. data.offset = 0 /\ Filled = 0 /\ data.payloadSize <= Left
    BY <1>2, DataFacts DEF InPlace
  <2>2. into = "direct" => Left = 0
    BY <1>1, <2>1 DEF RoomMade
  <2> QED BY <1>2, <2>1, <2>2, DataFacts DEF TakenNow
<1>3. CASE ~ InPlace /\ into = "direct"
  <2>1. TakenNow = Left
    BY <1>3 DEF TakenNow, Direct
  <2> QED BY <1>1, <1>3, <2>1, DataFacts
<1>4. CASE ~ InPlace /\ into # "direct"
  <2>1. TakenNow = Least(data.payloadSize - (Filled - data.offset), Left)
    BY <1>4 DEF TakenNow, Direct
  <2>2. Left > 0 /\ data.payloadSize > 0 => Filled < data.offset + data.payloadSize
    <3>1. data.buffer \in {"null", "heap"}
      BY <1>4, DataFacts DEF DataFrames
    <3>2. Filled = data.offset \/ Filled < data.offset + data.payloadSize
      BY <3>1, DataFacts DEF BufferInOrder, NoRoomYet, RoomMade
    <3> QED BY <3>2, DataFacts
  <2> QED BY <1>4, <2>1, <2>2, DataFacts DEF Least
<1> QED BY <1>2, <1>3, <1>4

\* The frame buffer once room was made, if the code finds any: it holds the rest of
\* the frame, with less than BUFFER_SIZE bytes to spare, within MAX_PAYLOAD_SIZE.
LEMMA RoomFacts ==
  ASSUME IInv, AtData, Fits, ~ InPlace
  PROVE  /\ Stored.bufferSize \in Nat /\ Stored.bufferSize <= MaxPayloadSize
         /\ data.offset + data.payloadSize <= Stored.bufferSize
         /\ Stored.bufferSize - (data.offset + data.payloadSize) < BufferSize
         /\ Stored.buffer \in {"null", "heap"}
         /\ Stored.buffer = "null" => Stored.bufferSize = 0 /\ data.payloadSize = 0
<1> DEFINE need == data.offset + data.payloadSize
           newSize == IF Copies /\ data.buffer = "null" THEN data.payloadSize
                      ELSE IF NeedsGrowth THEN RoundUp(GrownSize) ELSE data.bufferSize
           newBuffer == IF Copies THEN "heap" ELSE data.buffer
<1>1. Stored.bufferSize = newSize /\ Stored.buffer = newBuffer
  BY DataFacts DEF Stored, DataFrames
<1>2. need \in Nat /\ BufferSize \in Nat \ {0} /\ MaxPayloadSize \in Nat
  BY DataFacts, SizesAssumption DEF SizesAssumption
<1>3. CASE data.buffer = "null"
  <2>1. data.bufferSize = 0 /\ Filled = 0 /\ data.offset = 0
    BY <1>3, DataFacts DEF BufferInOrder
  <2>2. ~ Direct \/ data.payloadSize = 0
    BY <1>3, DataFacts DEF IInv, DirectInOrder, RoomMade, Direct
  <2>3. ~ NeedsGrowth /\ (Copies <=> data.payloadSize > 0)
    BY <1>3, <2>2, DataFacts DEF NeedsGrowth, Copies
  <2>4. newSize = data.payloadSize /\ need = data.payloadSize
    BY <1>3, <2>1, <2>3, DataFacts
  <2>5. newBuffer \in {"null", "heap"} /\ (newBuffer = "null" => data.payloadSize = 0)
    BY <1>3, <2>3, DataFacts
  <2>6. data.payloadSize <= MaxPayloadSize /\ data.payloadSize - data.payloadSize = 0
    BY DataFacts DEF BufferInOrder
  <2> HIDE DEF newSize, newBuffer
  <2> QED BY <1>1, <1>2, <2>4, <2>5, <2>6, DataFacts
<1>4. CASE data.buffer = "heap" /\ NeedsGrowth
  <2>1. GrownSize = need /\ need <= MaxPayloadSize /\ Copies
    BY <1>4 DEF Fits, GrownSize, NeedsGrowth
  <2>2. newSize = RoundUp(need) /\ newBuffer = "heap"
    BY <1>4, <2>1
  <2> HIDE DEF need, newSize, newBuffer
  <2>3. /\ RoundUp(need) \in Nat /\ need <= RoundUp(need)
        /\ RoundUp(need) < need + BufferSize /\ RoundUp(need) <= MaxPayloadSize
    BY <1>2, <2>1, RoundUpBounds
  <2>4. RoundUp(need) - need < BufferSize
    BY <1>2, <2>3
  <2> QED BY <1>1, <2>2, <2>3, <2>4 DEF need
<1>5. CASE data.buffer = "heap" /\ ~ NeedsGrowth
  <2>1. newSize = data.bufferSize /\ newBuffer = "heap"
    BY <1>5
  <2>2. need <= data.bufferSize /\ data.bufferSize - need < BufferSize
    <3>1. CASE RoomMade
      BY <3>1 DEF RoomMade
    <3>2. CASE NoRoomYet /\ ~ RoomMade
      <4>1. Direct => data.payloadSize = 0
        BY <3>2, DataFacts DEF IInv, DirectInOrder, Direct
      <4>2. data.bufferSize - data.offset >= data.payloadSize
        BY <1>5, <4>1, DataFacts DEF NeedsGrowth, Copies, BufferInOrder
      <4> QED BY <1>2, <3>2, <4>2, DataFacts DEF NoRoomYet
    <3> QED BY <1>5, <3>1, <3>2, DataFacts DEF BufferInOrder
  <2> HIDE DEF newSize, newBuffer
  <2> QED BY <1>1, <2>1, <2>2, DataFacts DEF BufferInOrder
<1> QED BY <1>3, <1>4, <1>5, DataFacts DEF DataFrames

\* The message so far with the bytes taken now, before and after unmasking.
LEMMA StoredFacts ==
  ASSUME IInv, AtData, Fits
  PROVE  /\ Stored \in DataFrames
         /\ Stored.offset = data.offset /\ Stored.payloadSize = data.payloadSize
         /\ Len(Stored.bytes) = Filled + TakenNow
         /\ Contents \in Seq(Bytes) /\ Len(Contents) = Filled + TakenNow
<1> DEFINE newSize == IF Copies /\ data.buffer = "null" THEN data.payloadSize
                      ELSE IF NeedsGrowth THEN RoundUp(GrownSize) ELSE data.bufferSize
           newBuffer == IF Copies THEN "heap" ELSE data.buffer
           front == data.bytes
           back == Taken(TakenNow)
           all == front \o back
<1>1. back \in Seq(Bytes) /\ Len(back) = TakenNow /\ front \in Seq(Bytes)
  BY DataFacts, TakenNowFacts, TakenType
<1>2. all \in Seq(Bytes) /\ Len(all) = Filled + TakenNow
  <2>1. Len(front) = Filled
    BY DEF Filled
  <2> HIDE DEF front, back
  <2> QED BY <1>1, <2>1, ConcatProperties
<1>3. newSize \in Nat
  <2>1. GrownSize \in Nat
    BY DataFacts DEF GrownSize
  <2>2. RoundUp(GrownSize) \in Nat
    BY <2>1, RoundUpBounds
  <2> QED BY <2>2, DataFacts
<1>4. newBuffer \in {"null", "heap", "stack"}
  BY DataFacts DEF DataFrames
<1>5. Stored = [data EXCEPT !.bytes = all, !.buffer = newBuffer, !.bufferSize = newSize]
  BY DEF Stored
<1> HIDE DEF all, newBuffer, newSize
<1>6. /\ Stored \in DataFrames /\ Stored.bytes = all
      /\ Stored.offset = data.offset /\ Stored.payloadSize = data.payloadSize
  BY <1>2, <1>3, <1>4, <1>5, DataFacts DEF DataFrames
<1>7. Contents \in Seq(Bytes) /\ Len(Contents) = Len(all)
  <2>1. Contents = Unmask(all, data.offset, data.payloadSize)
    BY <1>6 DEF Contents
  <2> QED BY <1>2, <2>1, UnmaskType, DataFacts
<1> QED BY <1>2, <1>6, <1>7

\* What is stored of an incomplete frame was made room for.
LEMMA HandlePartialDataStep == IInv /\ HandlePartialData => IInv'
<1> SUFFICES ASSUME IInv, HandlePartialData PROVE IInv'
  OBVIOUS
<1>1. /\ AtData /\ Fits /\ ~ FrameComplete /\ data' = Stored
      /\ parsed' = parsed + TakenNow
      /\ UNCHANGED <<network, received, pc, into, toRead, header, control, status,
                     handled, effects>>
  BY DEF HandlePartialData
<1> DEFINE need == data.offset + data.payloadSize
<1>2. /\ Len(Stored.bytes) = Filled + TakenNow /\ Filled + TakenNow < need
  <2>1. Len(Stored.bytes) - data.offset < data.payloadSize
    BY <1>1, StoredFacts, DataFacts, TakenNowFacts DEF FrameComplete
  <2> QED BY <1>1, <2>1, StoredFacts, DataFacts, TakenNowFacts
<1>3. ~ InPlace /\ data.payloadSize > 0 /\ data.offset < Filled + TakenNow
  BY <1>1, <1>2, DataFacts, TakenNowFacts
<1>4. RoomMade' /\ data'.buffer = "heap"
  BY <1>1, <1>2, <1>3, DataFacts, RoomFacts, StoredFacts DEF RoomMade, Filled, header
<1>5. BufferInOrder'
  <2>1. data.payloadSize <= MaxPayloadSize
    BY <1>1, DataFacts DEF BufferInOrder
  <2>2. data.offset <= Stored.bufferSize
    BY <1>1, <1>3, DataFacts, RoomFacts
  <2> QED BY <1>1, <1>3, <1>4, <2>1, <2>2, RoomFacts, StoredFacts DEF BufferInOrder
<1>6. /\ control' \in ControlFrames /\ ControlFits' /\ data' \in DataFrames
      /\ status' \in {"connected", "closing"} /\ handled' \in Nat
      /\ UNCHANGED lengthCode /\ UNCHANGED header
  BY <1>1, StoredFacts DEF IInv, TypeOK, ControlFits, header
<1> QED BY <1>1, <1>5, <1>6, DataFacts, TakenNowFacts, PayloadStep

\* After a fragment the offset is the whole filled size: nothing of the next frame
\* is there yet, and less than BUFFER_SIZE bytes are free.
LEMMA HandleFragmentStep == IInv /\ HandleFragment => IInv'
<1> SUFFICES ASSUME IInv, HandleFragment PROVE IInv'
  OBVIOUS
<1>1. /\ AtData /\ Fits /\ FrameComplete /\ ~ data.isFinal
      /\ data' = [Stored EXCEPT !.bytes = Contents, !.offset = Len(Contents),
                                !.payloadSize = 0]
      /\ parsed' = parsed + TakenNow /\ ResetHeader /\ handled' = handled + 1
      /\ UNCHANGED <<network, received, pc, into, toRead, control, status, effects>>
  BY DEF HandleFragment
<1> DEFINE need == data.offset + data.payloadSize
<1>2. ~ InPlace
  BY <1>1 DEF InPlace
<1>3. Len(Contents) = need /\ need \in Nat
  <2>1. Len(Stored.bytes) - data.offset >= data.payloadSize
    BY <1>1 DEF FrameComplete
  <2> QED BY <1>1, <2>1, StoredFacts, DataFacts, TakenNowFacts
<1>4. /\ data' \in DataFrames /\ data'.bytes = Contents /\ data'.offset = need
      /\ data'.payloadSize = 0 /\ data'.bufferSize = Stored.bufferSize
      /\ data'.buffer = Stored.buffer
  BY <1>1, <1>3, StoredFacts DEF DataFrames
<1>5. BufferInOrder'
  <2>1. NoRoomYet'
    BY <1>1, <1>2, <1>3, <1>4, RoomFacts DEF NoRoomYet, Filled
  <2>2. Stored.buffer = "null" => need = 0 /\ Stored.bufferSize = 0
    <3>1. Stored.buffer = "null" => Stored.bufferSize = 0 /\ need <= Stored.bufferSize
      BY <1>1, <1>2, RoomFacts
    <3> QED BY <1>3, <3>1
  <2>3. MaxPayloadSize \in Nat
    BY SizesAssumption DEF SizesAssumption
  <2> QED BY <1>1, <1>2, <1>3, <1>4, <2>1, <2>2, <2>3, RoomFacts
      DEF BufferInOrder, Filled
<1>6. control' \in ControlFrames /\ ControlFits'
  <2>1. control.bytes = <<>> /\ control.payloadSize <= 125
    BY <1>1, DataFacts DEF IInv, ControlFits
  <2>2. control \in ControlFrames /\ control' = control
    BY <1>1, DataFacts DEF TypeOK
  <2> QED BY <2>1, <2>2 DEF ControlFits
<1>7. status' \in {"connected", "closing"} /\ handled' \in Nat
  <2>1. status \in {"connected", "closing"} /\ handled \in Nat
    BY DEF IInv, TypeOK
  <2>2. status' = status /\ handled' = handled + 1
    BY <1>1
  <2> QED BY <2>1, <2>2
<1>8. UNCHANGED lengthCode /\ current' = "none" /\ headerSize' = 0 /\ maskSize' = 0
  BY <1>1 DEF ResetHeader
<1> QED BY <1>1, <1>4, <1>5, <1>6, <1>7, <1>8, DataFacts, TakenNowFacts, PayloadStep

\* A message refused is one close frame and the end of the connection.
LEMMA RefuseMessageStep ==
  ASSUME IInv, NEW code, RefuseMessage(code)
  PROVE  IInv'
<1>1. /\ UNCHANGED <<network, received, parsed, into, toRead, header, control, data>>
      /\ status' \in {"connected", "closing"} /\ handled' \in Nat /\ pc' = "closed"
  BY DEF RefuseMessage, IInv, TypeOK
<1> QED BY <1>1, ClosingStep

\* The foreign pointer is met only with an extension.
LEMMA DeadBufferUsedStep == IInv /\ DeadBufferUsed => IInv'
<1> SUFFICES ASSUME IInv, DeadBufferUsed PROVE IInv'
  OBVIOUS
<1>1. /\ UNCHANGED <<network, received, parsed, into, toRead, header, control, data>>
      /\ status' \in {"connected", "closing"} /\ handled' \in Nat /\ pc' = "undefined"
      /\ Extensions
  BY DEF DeadBufferUsed, UsesDeadBuffer, IInv, TypeOK, BufferInOrder
<1> QED BY <1>1, ClosingStep

\* After a message the frame buffer is gone, or is the caller's array, which an
\* extension that gave no output leaves behind.
LEMMA DeliverStep ==
  ASSUME IInv, AtMessage, NEW inflated \in BOOLEAN, Deliver(inflated)
  PROVE  IInv'
<1> DEFINE buffer == IF Extensions /\ InPlace /\ ~ inflated THEN "stack" ELSE "heap"
<1>1. /\ AtData /\ Fits /\ FrameComplete
      /\ handled' = handled + 1 /\ UNCHANGED <<network, received, into, toRead, control>>
      /\ status' \in {"connected", "closing"}
      /\ \/ /\ pc' = IF buffer = "stack" THEN "undefined" ELSE "closed"
            /\ UNCHANGED <<parsed, header, data>>
         \/ /\ data' = AfterMessage(buffer) /\ ResetHeader /\ UNCHANGED pc
            /\ parsed' = parsed + TakenNow
  BY DEF AtMessage, Deliver, IInv, TypeOK
<1>2. handled' \in Nat
  BY <1>1, DataFacts DEF TypeOK
<1>3. CASE /\ pc' = IF buffer = "stack" THEN "undefined" ELSE "closed"
           /\ UNCHANGED <<parsed, header, data>>
  <2>1. pc' \in {"closed", "undefined"} /\ (pc' = "undefined" => Extensions)
    BY <1>3
  <2> QED BY <1>1, <1>2, <1>3, <2>1, ClosingStep
<1>4. CASE /\ data' = AfterMessage(buffer) /\ ResetHeader /\ UNCHANGED pc
           /\ parsed' = parsed + TakenNow
  <2>1. MaxPayloadSize \in Nat
    BY SizesAssumption DEF SizesAssumption
  <2>2. ASSUME buffer = "stack"
        PROVE  data' \in DataFrames /\ BufferInOrder'
    <3>1. /\ Extensions /\ InPlace
      BY <2>2
    <3>2. Contents \in Seq(Bytes) /\ Len(Contents) = data.payloadSize
      BY <1>1, <3>1, StoredFacts, TakenNowFacts, DataFacts
    <3>3. data' = [type |-> INVALID, isFirst |-> FALSE, isFinal |-> FALSE,
                   rsv1 |-> data.rsv1, payloadSize |-> 0, offset |-> 0,
                   bufferSize |-> data.payloadSize, buffer |-> "stack",
                   bytes |-> Contents]
      BY <1>4, <2>2 DEF AfterMessage
    <3>4. data' \in DataFrames
      BY <1>1, <3>2, <3>3, DataFacts DEF DataFrames
    <3>5. data.payloadSize <= MaxPayloadSize
      BY <1>1, DataFacts DEF BufferInOrder
    <3>6. BufferInOrder'
      BY <2>1, <3>1, <3>2, <3>3, <3>5 DEF BufferInOrder, Filled
    <3> QED BY <3>4, <3>6
  <2>3. ASSUME buffer # "stack"
        PROVE  data' \in DataFrames /\ BufferInOrder'
    <3>1. data' = [type |-> INVALID, isFirst |-> FALSE, isFinal |-> FALSE,
                   rsv1 |-> data.rsv1, payloadSize |-> 0, offset |-> 0,
                   bufferSize |-> 0, buffer |-> "null", bytes |-> <<>>]
      BY <1>4, <2>3 DEF AfterMessage
    <3>2. data' \in DataFrames
      BY <1>1, <3>1, DataFacts DEF DataFrames
    <3>3. BufferInOrder'
      BY <2>1, <3>1 DEF BufferInOrder, Filled
    <3> QED BY <3>2, <3>3
  <2>4. data' \in DataFrames /\ BufferInOrder'
    BY <2>2, <2>3
  <2>5. control' \in ControlFrames /\ ControlFits'
    <3>1. control.bytes = <<>> /\ control.payloadSize <= 125
      BY <1>1, DataFacts DEF IInv, ControlFits
    <3>2. control \in ControlFrames /\ control' = control
      BY <1>1, DataFacts DEF TypeOK
    <3> QED BY <3>1, <3>2 DEF ControlFits
  <2>6. UNCHANGED lengthCode /\ current' = "none" /\ headerSize' = 0 /\ maskSize' = 0
    BY <1>4 DEF ResetHeader
  <2> QED BY <1>1, <1>2, <1>4, <2>4, <2>5, <2>6, DataFacts, TakenNowFacts, PayloadStep
<1> QED BY <1>1, <1>3, <1>4

\* A data frame ends in a refusal, a part stored, a fragment or a message.
LEMMA HandleDataFrameStep == IInv /\ HandleDataFrame => IInv'
<1> SUFFICES ASSUME IInv, HandleDataFrame PROVE IInv'
  OBVIOUS
<1>1. CASE RefuseGrowth
  BY <1>1, RejectStep DEF RefuseGrowth
<1>2. CASE RefuseText \/ RefuseCompressed
  BY <1>2, RefuseMessageStep DEF RefuseText, RefuseCompressed
<1>3. CASE DeliverMessage
  <2>1. AtMessage /\ (Deliver(TRUE) \/ Deliver(FALSE))
    BY <1>3 DEF DeliverMessage
  <2> QED BY <2>1, DeliverStep
<1> QED BY <1>1, <1>2, <1>3, HandlePartialDataStep, HandleFragmentStep,
          DeadBufferUsedStep DEF HandleDataFrame

-----------------------------------------------------------------------------
\* init_client leaves every counter at zero and no buffer.
LEMMA InitIsGood == Init => IInv
<1> SUFFICES ASSUME Init PROVE IInv
  OBVIOUS
<1>1. BufferSize \in Nat \ {0} /\ MaxPayloadSize \in Nat
  BY SizesAssumption DEF SizesAssumption
<1>2. /\ Len(stream) = 0 /\ Len(wire) = 0
      /\ stream \in Seq(FrameDescriptors) /\ wire \in Seq(Bytes)
  BY DEF Init
<1>3. control \in ControlFrames /\ data \in DataFrames
  <2>1. <<>> \in Seq(Bytes)
    OBVIOUS
  <2> QED BY <2>1 DEF Init, ControlFrames, DataFrames
<1>4. TypeOK
  BY <1>1, <1>2, <1>3 DEF Init, TypeOK
<1>5. WireOfStream /\ HeaderInOrder /\ ControlFits
  BY <1>2 DEF Init, WireOfStream, HeaderInOrder, ControlFits
<1>6. BufferInOrder
  <2>1. data.bytes = <<>> /\ Len(<<>>) = 0
    BY DEF Init
  <2> QED BY <1>1, <2>1 DEF Init, BufferInOrder, Filled
<1>7. DirectInOrder /\ DefinedWithoutExtensions
  BY DEF Init, DirectInOrder, DefinedWithoutExtensions, Left
<1> QED BY <1>4, <1>5, <1>6, <1>7 DEF IInv

\* IInv is inductive.
LEMMA StepIsGood == IInv /\ [Next]_vars => IInv'
<1>1. IInv /\ Parse => IInv'
  BY GetFrameTypeStep, GetPayloadDataStep, CopyMaskStep, HandleControlFrameStep,
     HandleDataFrameStep, EndBufferStep DEF Parse
<1>2. IInv /\ Server => IInv'
  BY <1>1, ReadEventStep, RecvStep, RecvAgainStep DEF Server
<1>3. IInv /\ UNCHANGED vars => IInv'
  <2> SUFFICES ASSUME IInv, UNCHANGED vars PROVE IInv'
    OBVIOUS
  <2>1. TypeOK' /\ WireOfStream' /\ HeaderInOrder' /\ ControlFits'
    BY DEF vars, IInv, TypeOK, WireOfStream, HeaderInOrder, ControlFits, LengthKnown
  <2>2. BufferInOrder'
    BY DEF vars, IInv, BufferInOrder, NoRoomYet, RoomMade, Filled
  <2>3. DirectInOrder' /\ DefinedWithoutExtensions'
    BY DEF vars, IInv, DirectInOrder, DefinedWithoutExtensions, RoomMade, Filled, Left
  <2> QED BY <2>1, <2>2, <2>3 DEF IInv
<1> QED BY <1>2, <1>3, PeerSendsStep, PeerGoneStep, StartClosingStep DEF Next

\* IInv holds in every reachable state, for every sequence of frames, every way the
\* network cuts it, every buffer size and every payload limit.
THEOREM Invariance == Spec => []IInv
BY InitIsGood, StepIsGood, PTL DEF Spec

\* Every variable keeps its type, and the counters of the parser stay within the
\* header, the mask and the bytes received.
THEOREM TypeCorrect == Spec => []TypeOK
<1>1. IInv => TypeOK
  BY DEF IInv
<1> QED BY Invariance, <1>1, PTL

\* Neither a copy into the frame buffer, nor a direct receive, nor a control frame
\* passes the end of its array; the frame buffer never outgrows MAX_PAYLOAD_SIZE;
\* and without an extension no foreign pointer is used or freed.
THEOREM BuffersAreSafe == Spec => []MemorySafe
<1>1. IInv => MemorySafe
  <2> SUFFICES ASSUME IInv PROVE MemorySafe
    OBVIOUS
  <2>1. /\ Filled \in Nat /\ data.offset \in Nat /\ data.payloadSize \in Nat
        /\ data.bufferSize \in Nat /\ data.buffer \in {"null", "heap", "stack"}
        /\ Len(control.bytes) \in Nat /\ control.payloadSize \in Nat
        /\ received \in Nat /\ parsed \in Nat /\ toRead \in Nat
    BY LenProperties DEF IInv, TypeOK, DataFrames, ControlFrames, Filled
  <2>2. BufferSize \in Nat \ {0}
    BY SizesAssumption DEF SizesAssumption
  <2>3. /\ data.offset <= Filled /\ Filled <= data.bufferSize
        /\ data.bufferSize <= MaxPayloadSize
    BY <2>1, <2>2 DEF IInv, BufferInOrder, NoRoomYet, RoomMade
  <2>4. into = "direct" =>
          /\ pc = "recv" => data.buffer = "heap" /\ Filled + toRead <= data.bufferSize
          /\ pc = "parse" => Filled + Left <= data.bufferSize
    BY <2>1, <2>3 DEF IInv, DirectInOrder, RoomMade, Left
  <2>5. Len(control.bytes) <= 125
    <3>1. Len(<<>>) = 0
      OBVIOUS
    <3> QED BY <2>1, <3>1 DEF IInv, ControlFits
  <2>6. ~ Extensions => pc # "undefined" /\ data.buffer # "stack"
    BY DEF IInv, DefinedWithoutExtensions, BufferInOrder
  <2> QED BY <2>3, <2>4, <2>5, <2>6 DEF MemorySafe
<1> QED BY Invariance, <1>1, PTL

-----------------------------------------------------------------------------
(***************************************************************************)
(* The receive path implements FrameStream: for every sequence of frames,  *)
(* every way the network cuts its bytes, every buffer size and payload     *)
(* limit, the byte-wise parser has the effects of a server that gets whole *)
(* frames.  The invariant says where the parser stands on the wire, and    *)
(* that what it has kept of the frame under way is what the peer sent.     *)
(***************************************************************************)

\* The bytes on the wire.

\* The frame under way, or the one that comes next.
ThisFrame == stream[handled + 1]

MaskBytes(f) == IF f.masked THEN 4 ELSE 0

HeadBytes(f) == 1 + HeaderBytes(LengthCode(f)) + MaskBytes(f)

\* Bytes that a frame puts on the wire.
FrameBytes(f) == HeadBytes(f) + f.len

\* Frame number no lies in bytes after the first s.
LiesIn(bytes, no, f, s) ==
  /\ bytes[s + 1] = Byte(no, "first", 1, FALSE)
  /\ \A j \in 1 .. HeaderBytes(LengthCode(f)) :
       bytes[s + 1 + j] = Byte(no, "length", j, FALSE)
  /\ \A j \in 1 .. MaskBytes(f) :
       bytes[s + 1 + HeaderBytes(LengthCode(f)) + j] = Byte(no, "mask", j, FALSE)
  /\ \A j \in 1 .. f.len :
       bytes[s + HeadBytes(f) + j] = Byte(no, "payload", j, f.masked)

Starts == [1 .. Len(stream) + 1 -> Nat]

\* start[no] is the number of bytes before frame number no.
Laid(start) ==
  /\ start[1] = 0 /\ start[Len(stream) + 1] = Len(wire)
  /\ \A no \in 1 .. Len(stream) :
       /\ start[no + 1] = start[no] + FrameBytes(stream[no])
       /\ start[no + 1] <= Len(wire)
       /\ LiesIn(wire, no, stream[no], start[no])

-----------------------------------------------------------------------------
\* Where the parser stands, and what it has kept.

\* Payload bytes of the frame under way that are in the frame buffer.
Held == IF data.buffer = "stack" THEN 0 ELSE Filled - data.offset

\* Bytes of the frame under way that the parser is past.
Consumed ==
  (IF current = "none" THEN 0 ELSE 1) + headerSize + maskSize + Len(control.bytes) + Held

\* The server is done with whole frames and is inside the one that follows them.
OnTheWire ==
  \E start \in Starts :
    /\ Laid(start)
    /\ Alive => handled <= Len(stream) /\ parsed = start[handled + 1] + Consumed

\* What was read of the header is the header of the frame under way.
HeaderIsOfFrame ==
  Alive /\ current # "none" =>
    /\ handled < Len(stream)
    /\ Extensions \/ ThisFrame.rsv = {}
    /\ ~ IsReserved(ThisFrame.op)
    /\ current = "control" <=> IsControl(ThisFrame.op)
    /\ headerSize > 0 => ThisFrame.masked /\ lengthCode = LengthCode(ThisFrame)
    /\ LengthKnown => PayloadSize = ThisFrame.len /\ ThisFrame.len <= MaxPayloadSize

\* control_frame is empty, or holds the first bytes of the frame under way.
ControlIsOfFrame ==
  Alive =>
    IF current = "control"
    THEN /\ ThisFrame.fin /\ control.type = ThisFrame.op
         /\ \A i \in 1 .. Len(control.bytes) :
              control.bytes[i] = Byte(handled + 1, "payload", i, TRUE)
    ELSE control.type = INVALID

\* data_frame has the type of the message under way, and its buffer holds, after the
\* fragments, the first bytes of the frame under way.
DataIsOfFrame ==
  Alive /\ current = "data" =>
    /\ data.isFinal = ThisFrame.fin
    /\ IF ThisFrame.op = CONTINUATION THEN data.type # INVALID
       ELSE data.type = ThisFrame.op /\ (data.rsv1 <=> 1 \in ThisFrame.rsv)
    /\ data.buffer # "stack" =>
         \A i \in data.offset + 1 .. Filled :
           data.bytes[i] = Byte(handled + 1, "payload", i - data.offset, TRUE)

\* A message that starts has no fragments; a buffer was made for some, or for the
\* frame under way.
BufferIsOfMessage ==
  Alive =>
    /\ data.type = INVALID \/ StartsMessage => data.offset = 0
    /\ data.buffer = "heap" => data.offset > 0 \/ RoomMade

RInv == /\ OnTheWire /\ HeaderIsOfFrame /\ ControlIsOfFrame /\ DataIsOfFrame
        /\ BufferIsOfMessage

-----------------------------------------------------------------------------
\* FrameStream's vocabulary is that of FrameReader.
LEMMA SameVocabulary ==
  /\ \A op : Whole!IsControl(op) <=> IsControl(op)
  /\ \A f, type, ext : Whole!BadFrameType(f, type, ext) <=> BadFrameType(f, type, ext)
  /\ \A f : Whole!LengthCode(f) = LengthCode(f)
  /\ \A no, f : Whole!Payload(no, f) = Payload(no, f)
  /\ \A code, reason : Whole!CloseFrame(code, reason) = CloseFrame(code, reason)
  /\ \A payload : Whole!PongFrame(payload) = PongFrame(payload)
  /\ \A type, payload, inflated :
       Whole!Message(type, payload, inflated) = Message(type, payload, inflated)
  /\ \A s, bytes : Whole!ValidUtf8(s, bytes) <=> ValidUtf8(s, bytes)
<1>1. \A op : Whole!IsControl(op) <=> IsControl(op)
  BY DEF Whole!IsControl, IsControl, Whole!THRESHOLD, THRESHOLD
<1>2. \A op : Whole!IsReserved(op) <=> IsReserved(op)
  BY DEF Whole!IsReserved, IsReserved, Whole!BINARY, BINARY, Whole!CLOSE, CLOSE,
     Whole!PONG, PONG
<1>3. \A op, type : Whole!OutOfSequence(op, type) <=> OutOfSequence(op, type)
  BY <1>1 DEF Whole!OutOfSequence, OutOfSequence, Whole!CONTINUATION, CONTINUATION,
     Whole!INVALID, INVALID
<1>4. \A f, type, ext : Whole!BadFrameType(f, type, ext) <=> BadFrameType(f, type, ext)
  BY <1>2, <1>3 DEF Whole!BadFrameType, BadFrameType
<1>5. \A f : Whole!LengthCode(f) = LengthCode(f)
  BY DEF Whole!LengthCode, LengthCode
<1>6. \A no, f : Whole!Payload(no, f) = Payload(no, f)
  BY DEF Whole!Payload, Payload, Whole!Part, Part, Whole!Byte, Byte
<1>7. /\ \A code, reason : Whole!CloseFrame(code, reason) = CloseFrame(code, reason)
      /\ \A payload : Whole!PongFrame(payload) = PongFrame(payload)
      /\ \A type, payload, inflated :
           Whole!Message(type, payload, inflated) = Message(type, payload, inflated)
  BY DEF Whole!CloseFrame, CloseFrame, Whole!PongFrame, PongFrame, Whole!Message, Message
<1>8. \A s, bytes : Whole!ValidUtf8(s, bytes) <=> ValidUtf8(s, bytes)
  BY DEF Whole!ValidUtf8, ValidUtf8
<1> QED BY <1>1, <1>4, <1>5, <1>6, <1>7, <1>8

\* The status codes and opcodes of FrameStream are those of FrameReader.
LEMMA SameStatuses ==
  /\ Whole!PROTOCOL_ERROR = PROTOCOL_ERROR /\ Whole!INVALID_TYPE = INVALID_TYPE
  /\ Whole!INVALID_ENCODING = INVALID_ENCODING /\ Whole!TOO_LARGE = TOO_LARGE
  /\ Whole!INVALID_EXTENSION = INVALID_EXTENSION /\ Whole!INVALID = INVALID
  /\ Whole!TEXT = TEXT /\ Whole!CLOSE = CLOSE /\ Whole!PING = PING /\ Whole!PONG = PONG
BY DEF Whole!PROTOCOL_ERROR, PROTOCOL_ERROR, Whole!INVALID_TYPE, INVALID_TYPE,
   Whole!INVALID_ENCODING, INVALID_ENCODING, Whole!TOO_LARGE, TOO_LARGE,
   Whole!INVALID_EXTENSION, INVALID_EXTENSION, Whole!INVALID, INVALID,
   Whole!TEXT, TEXT, Whole!CLOSE, CLOSE, Whole!PING, PING, Whole!PONG, PONG

\* Both answer a close frame with the same one.
LEMMA SameCloseReply ==
  ASSUME NEW s, NEW payload
  PROVE  Whole!CloseReply(s, payload) = CloseReply(s, payload)
<1>1. \A code : Whole!GetReplyCode(code) = GetReplyCode(code)
  BY DEF Whole!GetReplyCode, GetReplyCode, Whole!AWAY, AWAY, Whole!NORMAL, NORMAL,
     Whole!EchoedCodes, EchoedCodes, Whole!PROTOCOL_ERROR, PROTOCOL_ERROR,
     Whole!INVALID_TYPE, INVALID_TYPE, Whole!INVALID_ENCODING, INVALID_ENCODING,
     Whole!VIOLATION, VIOLATION, Whole!TOO_LARGE, TOO_LARGE, Whole!INVALID_EXTENSION,
     INVALID_EXTENSION, Whole!UNEXPECTED_CONDITION, UNEXPECTED_CONDITION
<1>2. \A code, reason : Whole!CloseFrame(code, reason) = CloseFrame(code, reason)
  BY SameVocabulary
<1>3. \A bytes : Whole!ValidUtf8(s, bytes) <=> ValidUtf8(s, bytes)
  BY SameVocabulary
<1> QED BY <1>1, <1>2, <1>3
    DEF Whole!CloseReply, CloseReply, Whole!NORMAL, NORMAL, Whole!PROTOCOL_ERROR,
        PROTOCOL_ERROR, Whole!EMPTY_FRAME, EMPTY_FRAME, Whole!INVALID_ENCODING,
        INVALID_ENCODING

-----------------------------------------------------------------------------
\* Where the next byte lies in the frame under way.

\* What a frame descriptor says is well-formed.
LEMMA FrameFacts ==
  ASSUME NEW f \in FrameDescriptors
  PROVE  /\ f.len \in Nat /\ f.op \in 0 .. 15 /\ f.fin \in BOOLEAN /\ f.masked \in BOOLEAN
         /\ LengthCode(f) \in Nat /\ HeaderBytes(LengthCode(f)) \in 1 .. 9
         /\ MaskBytes(f) \in {0, 4} /\ (f.masked => MaskBytes(f) = 4)
         /\ HeadBytes(f) = 1 + HeaderBytes(LengthCode(f)) + MaskBytes(f)
         /\ HeadBytes(f) \in Nat /\ FrameBytes(f) = HeadBytes(f) + f.len
<1>1. /\ f.len \in Nat /\ f.op \in 0 .. 15 /\ f.fin \in BOOLEAN /\ f.masked \in BOOLEAN
      /\ f.form \in {7, 16, 64}
  BY DEF FrameDescriptors
<1>2. LengthCode(f) \in Nat
  BY <1>1 DEF LengthCode
<1>3. HeaderBytes(LengthCode(f)) \in 1 .. 9
  BY <1>2 DEF HeaderBytes
<1>4. MaskBytes(f) \in {0, 4} /\ (f.masked => MaskBytes(f) = 4)
  BY DEF MaskBytes
<1> QED BY <1>1, <1>2, <1>3, <1>4 DEF HeadBytes, FrameBytes

\* The frame under way is one the peer sent, of the type of frames.
LEMMA ThisFrameType ==
  ASSUME IInv, handled < Len(stream)
  PROVE  ThisFrame \in FrameDescriptors
<1>1. stream \in Seq(FrameDescriptors) /\ handled \in Nat
  BY DEF IInv, TypeOK
<1>2. handled + 1 \in 1 .. Len(stream)
  BY <1>1, LenProperties
<1> QED BY <1>1, <1>2, ElementOfSeq DEF ThisFrame

\* The parts of a frame are consumed in turn.
LEMMA ConsumedFacts ==
  ASSUME IInv
  PROVE  /\ Held \in Nat /\ Consumed \in Nat /\ Len(control.bytes) \in Nat
         /\ Held > 0 => RoomMade
         /\ current = "none" => Consumed = 0
         /\ current # "none" /\ ~ LengthKnown => Consumed = 1 + headerSize
         /\ current # "none" /\ maskSize < 4 => Consumed = 1 + headerSize + maskSize
         /\ current = "control" /\ maskSize = 4 =>
              Consumed = 5 + headerSize + Len(control.bytes)
         /\ current = "data" /\ maskSize = 4 => Consumed = 5 + headerSize + Held
         /\ maskSize > 0 => current # "none" /\ LengthKnown
         /\ headerSize \in 0 .. 9 /\ maskSize \in 0 .. 4
<1>1. /\ Filled \in Nat /\ data.offset \in Nat /\ data.payloadSize \in Nat
      /\ data.bufferSize \in Nat /\ data.buffer \in {"null", "heap", "stack"}
      /\ control.bytes \in Seq(Bytes) /\ Len(control.bytes) \in Nat
      /\ headerSize \in 0 .. 9 /\ maskSize \in 0 .. 4
      /\ current \in {"none", "control", "data"}
  BY LenProperties DEF IInv, TypeOK, DataFrames, ControlFrames, Filled
<1>2. Held \in Nat /\ (Held > 0 => RoomMade)
  BY <1>1 DEF IInv, BufferInOrder, NoRoomYet, RoomMade, Held
<1>3. Len(control.bytes) > 0 => current = "control" /\ maskSize = 4
  <2>1. Len(<<>>) = 0
    OBVIOUS
  <2> QED BY <1>1, <2>1 DEF IInv, ControlFits
<1>4. /\ current = "none" => headerSize = 0
      /\ maskSize > 0 => current # "none" /\ LengthKnown
  BY DEF IInv, HeaderInOrder
<1>5. Held > 0 => current = "data" /\ maskSize = 4
  BY <1>2 DEF RoomMade
<1> DEFINE first == IF current = "none" THEN 0 ELSE 1
           taken == Len(control.bytes)
<1>6. Consumed = first + headerSize + maskSize + taken + Held
  BY DEF Consumed
<1>7. /\ taken \in Nat /\ Held \in Nat /\ headerSize \in Nat /\ maskSize \in Nat
      /\ first \in Nat /\ (current = "none" => first = 0) /\ (current # "none" => first = 1)
      /\ current # "control" \/ maskSize < 4 => taken = 0
      /\ current # "data" \/ maskSize < 4 => Held = 0
  BY <1>1, <1>2, <1>3, <1>5
<1> HIDE DEF first, taken
<1>8. /\ Consumed \in Nat
      /\ maskSize < 4 => Consumed = first + headerSize + maskSize
      /\ current = "control" => Consumed = first + headerSize + maskSize + taken
      /\ current = "data" => Consumed = first + headerSize + maskSize + Held
  BY <1>6, <1>7
<1>9. current = "none" => Consumed = 0
  BY <1>1, <1>4, <1>7, <1>8
<1>10. current # "none" /\ ~ LengthKnown => Consumed = 1 + headerSize
  BY <1>1, <1>4, <1>7, <1>8
<1>11. current # "none" /\ maskSize < 4 => Consumed = 1 + headerSize + maskSize
  BY <1>7, <1>8
<1>12. current = "control" /\ maskSize = 4 => Consumed = 5 + headerSize + taken
  BY <1>7, <1>8
<1>13. current = "data" /\ maskSize = 4 => Consumed = 5 + headerSize + Held
  BY <1>7, <1>8
<1> QED BY <1>1, <1>2, <1>4, <1>8, <1>9, <1>10, <1>11, <1>12, <1>13 DEF taken

\* The frame under way lies on the wire, and the parser is Consumed bytes into it.
LEMMA Position ==
  ASSUME IInv, OnTheWire, Alive
  PROVE  \E s \in Nat :
           /\ parsed = s + Consumed
           /\ handled \in 0 .. Len(stream) /\ Len(stream) \in Nat
           /\ handled = Len(stream) => s = Len(wire)
           /\ handled < Len(stream) =>
                LiesIn(wire, handled + 1, ThisFrame, s) /\ s + FrameBytes(ThisFrame) <= Len(wire)
<1>1. PICK start \in Starts :
        Laid(start) /\ handled <= Len(stream) /\ parsed = start[handled + 1] + Consumed
  BY DEF OnTheWire
<1>2. handled \in Nat /\ Len(stream) \in Nat
  BY LenProperties DEF IInv, TypeOK
<1>3. handled + 1 \in 1 .. Len(stream) + 1
  BY <1>1, <1>2
<1>4. start[handled + 1] \in Nat
  BY <1>1, <1>3 DEF Starts
<1>5. handled = Len(stream) => start[handled + 1] = Len(wire)
  BY <1>1 DEF Laid
<1>6. handled < Len(stream) =>
        /\ LiesIn(wire, handled + 1, ThisFrame, start[handled + 1])
        /\ start[handled + 1] + FrameBytes(ThisFrame) <= Len(wire)
  <2> SUFFICES ASSUME handled < Len(stream)
               PROVE  /\ LiesIn(wire, handled + 1, ThisFrame, start[handled + 1])
                      /\ start[handled + 1] + FrameBytes(ThisFrame) <= Len(wire)
    OBVIOUS
  <2>1. handled + 1 \in 1 .. Len(stream)
    BY <1>2
  <2>2. /\ LiesIn(wire, handled + 1, stream[handled + 1], start[handled + 1])
        /\ start[handled + 1 + 1] = start[handled + 1] + FrameBytes(stream[handled + 1])
        /\ start[handled + 1 + 1] <= Len(wire)
    BY <1>1, <2>1 DEF Laid
  <2> QED BY <2>2 DEF ThisFrame
<1> WITNESS start[handled + 1] \in Nat
<1> QED BY <1>1, <1>2, <1>5, <1>6

\* Between two frames the next byte is the first of the next frame.
LEMMA FirstByte ==
  ASSUME IInv, OnTheWire, Alive, current = "none", parsed < Len(wire)
  PROVE  handled < Len(stream) /\ Next1 = Byte(handled + 1, "first", 1, FALSE)
<1>1. PICK s \in Nat :
        /\ parsed = s + Consumed
        /\ handled \in 0 .. Len(stream) /\ Len(stream) \in Nat
        /\ handled = Len(stream) => s = Len(wire)
        /\ handled < Len(stream) => LiesIn(wire, handled + 1, ThisFrame, s)
  BY Position
<1>2. parsed = s
  BY <1>1, ConsumedFacts
<1>3. handled < Len(stream)
  BY <1>1, <1>2
<1> QED BY <1>1, <1>2, <1>3 DEF LiesIn, Next1

\* While the length is read, the next byte is the next of its bytes.
LEMMA LengthByte ==
  ASSUME IInv, RInv, Alive, current # "none", ~ LengthKnown
  PROVE  /\ handled < Len(stream)
         /\ Next1 = Byte(handled + 1, "length", headerSize + 1, FALSE)
<1>1. handled < Len(stream) /\ (headerSize > 0 => lengthCode = LengthCode(ThisFrame))
  BY DEF RInv, HeaderIsOfFrame
<1>2. PICK s \in Nat : parsed = s + Consumed /\ LiesIn(wire, handled + 1, ThisFrame, s)
  BY <1>1, Position DEF RInv
<1>3. Consumed = 1 + headerSize /\ headerSize \in 0 .. 9
  BY ConsumedFacts
<1>4. HeaderBytes(LengthCode(ThisFrame)) \in 1 .. 9
  BY <1>1, ThisFrameType, FrameFacts
<1>5. headerSize + 1 \in 1 .. HeaderBytes(LengthCode(ThisFrame))
  BY <1>1, <1>3, <1>4 DEF IInv, HeaderInOrder, LengthKnown
<1>6. wire[s + 1 + (headerSize + 1)] = Byte(handled + 1, "length", headerSize + 1, FALSE)
  BY <1>2, <1>5 DEF LiesIn
<1>7. parsed + 1 = s + 1 + (headerSize + 1)
  BY <1>2, <1>3
<1> QED BY <1>1, <1>6, <1>7 DEF Next1

\* While the mask is copied, the next byte is the next of its bytes.
LEMMA MaskByte ==
  ASSUME IInv, RInv, Alive, current # "none", LengthKnown, maskSize < 4
  PROVE  Next1 = Byte(handled + 1, "mask", maskSize + 1, FALSE)
<1>1. /\ handled < Len(stream) /\ ThisFrame.masked
      /\ headerSize = HeaderBytes(LengthCode(ThisFrame))
  BY DEF RInv, HeaderIsOfFrame, LengthKnown
<1>2. PICK s \in Nat : parsed = s + Consumed /\ LiesIn(wire, handled + 1, ThisFrame, s)
  BY <1>1, Position DEF RInv
<1>3. Consumed = 1 + headerSize + maskSize /\ headerSize \in 0 .. 9 /\ maskSize \in 0 .. 4
  BY ConsumedFacts
<1>4. maskSize + 1 \in 1 .. MaskBytes(ThisFrame)
  BY <1>1, <1>3, ThisFrameType, FrameFacts
<1>5. wire[s + 1 + headerSize + (maskSize + 1)] = Byte(handled + 1, "mask", maskSize + 1, FALSE)
  BY <1>1, <1>2, <1>4 DEF LiesIn
<1>6. parsed + 1 = s + 1 + headerSize + (maskSize + 1)
  BY <1>2, <1>3
<1> QED BY <1>5, <1>6 DEF Next1

\* Payload bytes of the frame under way that were taken before.
Done == IF current = "control" THEN Len(control.bytes) ELSE Held

\* Once the mask is there, the next bytes are the next ones of the payload.
LEMMA PayloadBytes ==
  ASSUME IInv, RInv, Alive, maskSize = 4
  PROVE  /\ handled < Len(stream) /\ ThisFrame \in FrameDescriptors /\ ThisFrame.masked
         /\ lengthCode = LengthCode(ThisFrame)
         /\ PayloadSize = ThisFrame.len /\ ThisFrame.len <= MaxPayloadSize
         /\ Done \in Nat
         /\ \A j \in 1 .. ThisFrame.len - Done :
              wire[parsed + j] = Byte(handled + 1, "payload", Done + j, TRUE)
<1>1. current \in {"control", "data"} /\ LengthKnown
  <2>1. current \in {"none", "control", "data"}
    BY DEF IInv, TypeOK
  <2> QED BY <2>1, ConsumedFacts
<1>2. /\ handled < Len(stream) /\ ThisFrame.masked /\ lengthCode = LengthCode(ThisFrame)
      /\ headerSize = HeaderBytes(LengthCode(ThisFrame))
      /\ PayloadSize = ThisFrame.len /\ ThisFrame.len <= MaxPayloadSize
  BY <1>1 DEF RInv, HeaderIsOfFrame, LengthKnown
<1>3. PICK s \in Nat : parsed = s + Consumed /\ LiesIn(wire, handled + 1, ThisFrame, s)
  BY <1>2, Position DEF RInv
<1>4. ThisFrame \in FrameDescriptors
  BY <1>2, ThisFrameType
<1>5. /\ HeadBytes(ThisFrame) = 5 + headerSize /\ ThisFrame.len \in Nat
      /\ headerSize \in 0 .. 9
  BY <1>2, <1>4, FrameFacts, ConsumedFacts, SMTT(30)
<1>6. Consumed = HeadBytes(ThisFrame) + Done /\ Done \in Nat
  BY <1>1, <1>5, ConsumedFacts DEF Done
<1>7. ASSUME NEW j \in 1 .. ThisFrame.len - Done
      PROVE  wire[parsed + j] = Byte(handled + 1, "payload", Done + j, TRUE)
  <2>1. Done + j \in 1 .. ThisFrame.len
    BY <1>5, <1>6
  <2>2. wire[s + HeadBytes(ThisFrame) + (Done + j)]
          = Byte(handled + 1, "payload", Done + j, ThisFrame.masked)
    BY <1>3, <2>1 DEF LiesIn
  <2>3. parsed + j = s + HeadBytes(ThisFrame) + (Done + j)
    BY <1>3, <1>5, <1>6
  <2>4. ThisFrame.masked = TRUE
    BY <1>2, <1>4, FrameFacts
  <2> QED BY <2>2, <2>3, <2>4
<1> QED BY <1>2, <1>4, <1>6, <1>7

\* Wherever the bytes of a frame are copied to, the frame lies there.
LEMMA LiesInCopy ==
  ASSUME NEW f \in FrameDescriptors, NEW no \in Nat, NEW s \in Nat, NEW t \in Nat,
         NEW from, NEW to, LiesIn(from, no, f, s),
         \A i \in 1 .. FrameBytes(f) : to[t + i] = from[s + i]
  PROVE  LiesIn(to, no, f, t)
<1> DEFINE h == HeaderBytes(LengthCode(f))
           m == MaskBytes(f)
           copied(i) == to[t + i] = from[s + i]
<1>1. /\ h \in Nat /\ m \in Nat /\ HeadBytes(f) = 1 + h + m /\ f.len \in Nat
      /\ FrameBytes(f) = 1 + h + m + f.len
  BY FrameFacts
<1>2. copied(1)
  BY <1>1
<1> HIDE DEF h, m
<1>3. ASSUME NEW j \in 1 .. h PROVE to[t + 1 + j] = from[s + 1 + j]
  <2>1. 1 + j \in 1 .. FrameBytes(f) /\ t + (1 + j) = t + 1 + j /\ s + (1 + j) = s + 1 + j
    BY <1>1
  <2> QED BY <2>1
<1>4. ASSUME NEW j \in 1 .. m PROVE to[t + 1 + h + j] = from[s + 1 + h + j]
  <2>1. /\ 1 + h + j \in 1 .. FrameBytes(f)
        /\ t + (1 + h + j) = t + 1 + h + j /\ s + (1 + h + j) = s + 1 + h + j
    BY <1>1
  <2> QED BY <2>1
<1>5. ASSUME NEW j \in 1 .. f.len
      PROVE  to[t + HeadBytes(f) + j] = from[s + HeadBytes(f) + j]
  <2>1. /\ HeadBytes(f) + j \in 1 .. FrameBytes(f)
        /\ t + (HeadBytes(f) + j) = t + HeadBytes(f) + j
        /\ s + (HeadBytes(f) + j) = s + HeadBytes(f) + j
    BY <1>1
  <2> QED BY <2>1
<1> QED BY <1>2, <1>3, <1>4, <1>5 DEF LiesIn, h, m

\* A concatenation is its parts, one after the other.
LEMMA ConcatParts ==
  \A S : \A u \in Seq(S), v \in Seq(S) :
         /\ u \o v \in Seq(S) /\ Len(u \o v) = Len(u) + Len(v)
         /\ \A i \in 1 .. Len(u) : (u \o v)[i] = u[i]
         /\ \A j \in 1 .. Len(v) : (u \o v)[Len(u) + j] = v[j]
<1> SUFFICES ASSUME NEW S, NEW u \in Seq(S), NEW v \in Seq(S)
             PROVE  /\ u \o v \in Seq(S) /\ Len(u \o v) = Len(u) + Len(v)
                    /\ \A i \in 1 .. Len(u) : (u \o v)[i] = u[i]
                    /\ \A j \in 1 .. Len(v) : (u \o v)[Len(u) + j] = v[j]
  OBVIOUS
<1>1. Len(u) \in Nat /\ Len(v) \in Nat
  BY LenProperties
<1>2. /\ u \o v \in Seq(S) /\ Len(u \o v) = Len(u) + Len(v)
      /\ \A i \in 1 .. Len(u) + Len(v) :
           (u \o v)[i] = IF i <= Len(u) THEN u[i] ELSE v[i - Len(u)]
  BY ConcatProperties
<1>3. ASSUME NEW i \in 1 .. Len(u) PROVE (u \o v)[i] = u[i]
  <2>1. i \in 1 .. Len(u) + Len(v) /\ i <= Len(u)
    BY <1>1
  <2> QED BY <1>2, <2>1
<1>4. ASSUME NEW j \in 1 .. Len(v) PROVE (u \o v)[Len(u) + j] = v[j]
  <2>1. /\ Len(u) + j \in 1 .. Len(u) + Len(v) /\ ~ Len(u) + j <= Len(u)
        /\ (Len(u) + j) - Len(u) = j
    BY <1>1
  <2> QED BY <1>2, <2>1
<1> QED BY <1>2, <1>3, <1>4

\* What a frame puts on the wire is its first byte, its length, its mask and its
\* payload.
LEMMA WireBytesLie ==
  ASSUME NEW f \in FrameDescriptors, NEW no \in Nat
  PROVE  LiesIn(WireBytes(no, f), no, f, 0) /\ Len(WireBytes(no, f)) = FrameBytes(f)
<1>1. PICK h \in Nat, m \in Nat : h = HeaderBytes(LengthCode(f)) /\ m = MaskBytes(f)
  <2>1. HeaderBytes(LengthCode(f)) \in Nat /\ MaskBytes(f) \in Nat
    BY FrameFacts
  <2> QED BY <2>1
<1>2. PICK S : S = [no : {no}, role : Roles, at : Nat, masked : BOOLEAN]
  OBVIOUS
<1>3. /\ HeadBytes(f) = 1 + h + m /\ f.len \in Nat
      /\ FrameBytes(f) = 1 + h + m + f.len /\ f.masked \in BOOLEAN
  BY <1>1, FrameFacts
<1>4. {"first", "length", "mask", "payload"} \subseteq Roles
  BY DEF Roles
<1>5. ASSUME NEW role \in Roles, NEW n \in Nat, NEW masked \in BOOLEAN
      PROVE  /\ Part(no, role, n, masked) \in Seq(S) /\ Len(Part(no, role, n, masked)) = n
             /\ \A j \in 1 .. n : Part(no, role, n, masked)[j] = Byte(no, role, j, masked)
  <2>1. Part(no, role, n, masked) \in Seq(S) /\ Len(Part(no, role, n, masked)) = n
    BY <1>2, PartType
  <2> QED BY <2>1 DEF Part
<1>6. PICK p : p = Part(no, "first", 1, FALSE)
  OBVIOUS
<1>7. PICK q : q = Part(no, "length", h, FALSE)
  OBVIOUS
<1>8. PICK r : r = Part(no, "mask", m, FALSE)
  OBVIOUS
<1>9. PICK t : t = Part(no, "payload", f.len, f.masked)
  OBVIOUS
<1>10. p \in Seq(S) /\ q \in Seq(S) /\ r \in Seq(S) /\ t \in Seq(S)
  BY <1>3, <1>4, <1>5, <1>6, <1>7, <1>8, <1>9
<1>11. Len(p) = 1 /\ Len(q) = h /\ Len(r) = m /\ Len(t) = f.len
  BY <1>3, <1>4, <1>5, <1>6, <1>7, <1>8, <1>9
<1>12. PICK b : b = p \o q
  OBVIOUS
<1>13. PICK c : c = b \o r
  OBVIOUS
<1>14. PICK w : w = c \o t
  OBVIOUS
<1>15. WireBytes(no, f) = w
  BY <1>1, <1>6, <1>7, <1>8, <1>9, <1>12, <1>13, <1>14 DEF WireBytes, MaskBytes
<1>16. /\ b \in Seq(S) /\ Len(b) = Len(p) + Len(q)
       /\ \A i \in 1 .. Len(p) : b[i] = p[i]
       /\ \A j \in 1 .. Len(q) : b[Len(p) + j] = q[j]
  BY <1>10, <1>12, ConcatParts
<1>17. /\ c \in Seq(S) /\ Len(c) = Len(b) + Len(r)
       /\ \A i \in 1 .. Len(b) : c[i] = b[i]
       /\ \A j \in 1 .. Len(r) : c[Len(b) + j] = r[j]
  <2>1. b \in Seq(S) /\ r \in Seq(S)
    BY <1>10, <1>16
  <2> QED BY <1>13, <2>1, ConcatParts
<1>18. /\ Len(w) = Len(c) + Len(t)
       /\ \A i \in 1 .. Len(c) : w[i] = c[i]
       /\ \A j \in 1 .. Len(t) : w[Len(c) + j] = t[j]
  <2>1. c \in Seq(S) /\ t \in Seq(S)
    BY <1>10, <1>17
  <2> QED BY <1>14, <2>1, ConcatParts
<1>19. Len(b) = 1 + h /\ Len(c) = 1 + h + m /\ Len(w) = 1 + h + m + f.len
  BY <1>3, <1>11, <1>16, <1>17, <1>18
<1>20. w[0 + 1] = Byte(no, "first", 1, FALSE)
  <2>1. p[1] = Byte(no, "first", 1, FALSE)
    <3>1. 1 \in Nat /\ 1 \in 1 .. 1
      OBVIOUS
    <3> QED BY <1>4, <1>5, <1>6, <3>1
  <2>2. 1 \in 1 .. Len(p) /\ 1 \in 1 .. Len(b) /\ 1 \in 1 .. Len(c) /\ 0 + 1 = 1
    BY <1>11, <1>19
  <2> QED BY <1>16, <1>17, <1>18, <2>1, <2>2, ZenonT(30)
<1>21. ASSUME NEW j \in 1 .. h PROVE w[0 + 1 + j] = Byte(no, "length", j, FALSE)
  <2>1. q[j] = Byte(no, "length", j, FALSE)
    BY <1>4, <1>5, <1>7
  <2>2. /\ 0 + 1 + j = Len(p) + j /\ j \in 1 .. Len(q)
        /\ Len(p) + j \in 1 .. Len(b) /\ Len(p) + j \in 1 .. Len(c)
    BY <1>11, <1>19
  <2> QED BY <1>16, <1>17, <1>18, <2>1, <2>2, Zenon
<1>22. ASSUME NEW j \in 1 .. m PROVE w[0 + 1 + h + j] = Byte(no, "mask", j, FALSE)
  <2>1. r[j] = Byte(no, "mask", j, FALSE)
    BY <1>4, <1>5, <1>8
  <2>2. /\ 0 + 1 + h + j = Len(b) + j /\ j \in 1 .. Len(r)
        /\ Len(b) + j \in 1 .. Len(c)
    BY <1>11, <1>19
  <2> QED BY <1>17, <1>18, <2>1, <2>2, Zenon
<1>23. ASSUME NEW j \in 1 .. f.len
       PROVE  w[0 + HeadBytes(f) + j] = Byte(no, "payload", j, f.masked)
  <2>1. t[j] = Byte(no, "payload", j, f.masked)
    BY <1>3, <1>4, <1>5, <1>9
  <2>2. 0 + HeadBytes(f) + j = Len(c) + j /\ j \in 1 .. Len(t)
    BY <1>3, <1>11, <1>19
  <2> QED BY <1>18, <2>1, <2>2, Zenon
<1>24. LiesIn(w, no, f, 0)
  BY <1>1, <1>20, <1>21, <1>22, <1>23 DEF LiesIn
<1> QED BY <1>3, <1>15, <1>19, <1>24

\* Once the mask is there, the whole header is consumed.
LEMMA HeadConsumed ==
  ASSUME IInv, RInv, Alive, maskSize = 4
  PROVE  /\ Consumed = HeadBytes(ThisFrame) + Done
         /\ current = "control" => Held = 0
         /\ current = "data" => Len(control.bytes) = 0
<1>1. current \in {"control", "data"} /\ LengthKnown
  <2>1. current \in {"none", "control", "data"}
    BY DEF IInv, TypeOK
  <2> QED BY <2>1, ConsumedFacts
<1>2. /\ handled < Len(stream) /\ ThisFrame.masked
      /\ headerSize = HeaderBytes(LengthCode(ThisFrame))
  BY <1>1 DEF RInv, HeaderIsOfFrame, LengthKnown
<1>3. ThisFrame \in FrameDescriptors
  BY <1>2, ThisFrameType
<1>4. HeadBytes(ThisFrame) = 5 + headerSize
  <2>1. HeadBytes(ThisFrame) = 1 + headerSize + 4 /\ headerSize \in 0 .. 9
    BY <1>2, <1>3, FrameFacts, ConsumedFacts
  <2> QED BY <2>1
<1>5. current = "control" => Held = 0
  <2>1. Held \in Nat /\ (Held > 0 => RoomMade)
    BY ConsumedFacts
  <2> QED BY <2>1 DEF RoomMade
<1>6. current = "data" => Len(control.bytes) = 0
  <2>1. Len(<<>>) = 0
    OBVIOUS
  <2> QED BY <2>1 DEF IInv, ControlFits
<1> QED BY <1>1, <1>4, <1>5, <1>6, ConsumedFacts DEF Done

\* The bytes that are taken are the next ones on the wire.
LEMMA TakenBytes ==
  ASSUME TypeOK, NEW n \in Nat, n <= Left
  PROVE  /\ Taken(n) \in Seq(Bytes) /\ Len(Taken(n)) = n
         /\ \A j \in 1 .. n : Taken(n)[j] = wire[parsed + j]
<1>1. /\ wire \in Seq(Bytes) /\ Len(wire) \in Nat /\ received \in 0 .. Len(wire)
      /\ parsed \in 0 .. received
  BY LenProperties DEF TypeOK
<1>2. Taken(n) \in Seq(Bytes) /\ Len(Taken(n)) = n
  BY TakenType
<1>3. ASSUME NEW j \in 1 .. n PROVE Taken(n)[j] = wire[parsed + j]
  <2>1. \A i \in parsed + 1 .. parsed + n : wire[i] \in Bytes
    BY <1>1, ElementOfSeq DEF Left
  <2>2. Taken(n)[j] = wire[parsed + 1 + j - 1]
    <3>1. parsed + 1 \in Int /\ parsed + n \in Int
      BY <1>1
    <3> QED BY <1>1, <2>1, <3>1, SubSeqProperties DEF Taken
  <2>3. parsed + 1 + j - 1 = parsed + j
    BY <1>1
  <2> QED BY <2>2, <2>3
<1> QED BY <1>2, <1>3

\* Sequences with the same elements are the same.
LEMMA SameElements ==
  \A S : \A s \in Seq(S), t \in Seq(S) :
    Len(s) = Len(t) /\ (\A i \in 1 .. Len(s) : s[i] = t[i]) => s = t
<1> SUFFICES ASSUME NEW S, NEW s \in Seq(S), NEW t \in Seq(S), Len(s) = Len(t),
                    \A i \in 1 .. Len(s) : s[i] = t[i]
             PROVE  s = t
  OBVIOUS
<1> QED BY SeqEqual

\* The first elements of a sequence.
LEMMA PrefixFacts ==
  \A S : \A s \in Seq(S), n \in Nat :
    n <= Len(s) =>
      /\ SubSeq(s, 1, n) \in Seq(S) /\ Len(SubSeq(s, 1, n)) = n
      /\ \A i \in 1 .. n : SubSeq(s, 1, n)[i] = s[i]
<1> SUFFICES ASSUME NEW S, NEW s \in Seq(S), NEW n \in Nat, n <= Len(s)
             PROVE  /\ SubSeq(s, 1, n) \in Seq(S) /\ Len(SubSeq(s, 1, n)) = n
                    /\ \A i \in 1 .. n : SubSeq(s, 1, n)[i] = s[i]
  OBVIOUS
<1> DEFINE p == SubSeq(s, 1, n)
<1>1. \A i \in 1 .. n : s[i] \in S
  BY LenProperties, ElementOfSeq
<1>2. /\ p \in Seq(S) /\ Len(p) = IF 1 <= n THEN n - 1 + 1 ELSE 0
      /\ \A i \in 1 .. n - 1 + 1 : p[i] = s[1 + i - 1]
  BY <1>1, SubSeqProperties
<1> HIDE DEF p
<1>3. p \in Seq(S) /\ Len(p) = n
  BY <1>2
<1>4. ASSUME NEW i \in 1 .. n PROVE p[i] = s[i]
  <2>1. i \in 1 .. n - 1 + 1 /\ 1 + i - 1 = i
    OBVIOUS
  <2> QED BY <1>2, <2>1
<1> QED BY <1>3, <1>4 DEF p

\* Sequences that begin alike have the same beginning.
LEMMA SamePrefix ==
  \A S : \A s \in Seq(S), t \in Seq(S), n \in Nat :
    n <= Len(s) /\ n <= Len(t) /\ (\A i \in 1 .. n : s[i] = t[i]) =>
      SubSeq(s, 1, n) = SubSeq(t, 1, n)
<1> SUFFICES ASSUME NEW S, NEW s \in Seq(S), NEW t \in Seq(S), NEW n \in Nat,
                    n <= Len(s), n <= Len(t), \A i \in 1 .. n : s[i] = t[i]
             PROVE  SubSeq(s, 1, n) = SubSeq(t, 1, n)
  OBVIOUS
<1>1. PICK p : p = SubSeq(s, 1, n)
  OBVIOUS
<1>2. PICK q : q = SubSeq(t, 1, n)
  OBVIOUS
<1>3. /\ p \in Seq(S) /\ Len(p) = n /\ \A i \in 1 .. n : p[i] = s[i]
      /\ q \in Seq(S) /\ Len(q) = n /\ \A i \in 1 .. n : q[i] = t[i]
  BY <1>1, <1>2, PrefixFacts, Zenon
<1>4. p = q
  BY <1>3, SameElements
<1> QED BY <1>1, <1>2, <1>4

\* A sequence begins with itself.
LEMMA WholePrefix == \A S : \A s \in Seq(S) : SubSeq(s, 1, Len(s)) = s
<1> SUFFICES ASSUME NEW S, NEW s \in Seq(S) PROVE SubSeq(s, 1, Len(s)) = s
  OBVIOUS
<1>1. Len(s) \in Nat /\ Len(s) <= Len(s)
  BY LenProperties
<1>2. PICK p : p = SubSeq(s, 1, Len(s))
  OBVIOUS
<1>3. p \in Seq(S) /\ Len(p) = Len(s) /\ \A i \in 1 .. Len(s) : p[i] = s[i]
  BY <1>1, <1>2, PrefixFacts, Zenon
<1> QED BY <1>2, <1>3, SameElements

-----------------------------------------------------------------------------
\* What steps keep of the parser's place.

\* A connection that is gone has no place on the wire any more.
LEMMA GoneKeepsPlace ==
  ASSUME RInv, UNCHANGED network, ~ Alive'
  PROVE  RInv'
<1>1. OnTheWire'
  BY DEF RInv, OnTheWire, network, Starts, Laid
<1>2. HeaderIsOfFrame' /\ ControlIsOfFrame' /\ DataIsOfFrame' /\ BufferIsOfMessage'
  BY DEF HeaderIsOfFrame, ControlIsOfFrame, DataIsOfFrame, BufferIsOfMessage
<1> QED BY <1>1, <1>2 DEF RInv

\* Bytes of the frame under way are consumed as they are parsed.
LEMMA StaysInFrame ==
  ASSUME IInv, OnTheWire, Alive, UNCHANGED <<network, handled>>,
         NEW n \in Nat, parsed' = parsed + n, Consumed' = Consumed + n
  PROVE  OnTheWire'
<1>1. PICK start \in Starts :
        Laid(start) /\ handled <= Len(stream) /\ parsed = start[handled + 1] + Consumed
  BY DEF OnTheWire
<1>2. handled \in Nat /\ Len(stream) \in Nat /\ Consumed \in Nat
  <2>1. handled \in Nat /\ Len(stream) \in Nat
    BY LenProperties DEF IInv, TypeOK
  <2> QED BY <2>1, ConsumedFacts
<1>3. start[handled + 1] \in Nat
  <2>1. handled + 1 \in 1 .. Len(stream) + 1
    BY <1>1, <1>2
  <2> QED BY <2>1 DEF Starts
<1>4. parsed' = start[handled + 1] + Consumed'
  BY <1>1, <1>2, <1>3
<1>5. start \in Starts' /\ Laid(start)'
  BY <1>1 DEF network, Starts, Laid
<1> QED BY <1>1, <1>4, <1>5 DEF OnTheWire, network

\* With its last byte the frame is over, and the next one begins.
LEMMA GoesToNextFrame ==
  ASSUME IInv, OnTheWire, Alive, handled < Len(stream), UNCHANGED network,
         handled' = handled + 1, Consumed' = 0,
         NEW n \in Nat, parsed' = parsed + n, Consumed + n = FrameBytes(ThisFrame)
  PROVE  OnTheWire'
<1>1. PICK start \in Starts :
        Laid(start) /\ handled <= Len(stream) /\ parsed = start[handled + 1] + Consumed
  BY DEF OnTheWire
<1>2. handled \in Nat /\ Len(stream) \in Nat /\ Consumed \in Nat
  <2>1. handled \in Nat /\ Len(stream) \in Nat
    BY LenProperties DEF IInv, TypeOK
  <2> QED BY <2>1, ConsumedFacts
<1>3. /\ handled + 1 \in 1 .. Len(stream) /\ handled + 1 \in 1 .. Len(stream) + 1
      /\ handled' + 1 \in 1 .. Len(stream) + 1
  BY <1>1, <1>2
<1>4. start[handled + 1] \in Nat /\ start[handled' + 1] \in Nat
  BY <1>3 DEF Starts
<1>5. start[handled' + 1] = start[handled + 1] + FrameBytes(ThisFrame)
  BY <1>1, <1>3 DEF Laid, ThisFrame
<1>6. FrameBytes(ThisFrame) \in Nat
  BY ThisFrameType, FrameFacts
<1>7. parsed' = start[handled' + 1] + Consumed'
  BY <1>1, <1>2, <1>4, <1>5, <1>6
<1>8. start \in Starts' /\ Laid(start)'
  BY <1>1 DEF network, Starts, Laid
<1>9. handled' <= Len(stream')
  BY <1>2, <1>3 DEF network
<1> QED BY <1>7, <1>8, <1>9 DEF OnTheWire

\* What a step keeps that leaves the parser's state alone.
LEMMA ParserUntouched ==
  ASSUME RInv, Alive, UNCHANGED <<header, control, data, handled>>,
         current # "none" => handled < Len(stream') /\ ThisFrame' = ThisFrame
  PROVE  /\ HeaderIsOfFrame' /\ ControlIsOfFrame' /\ DataIsOfFrame' /\ BufferIsOfMessage'
         /\ Consumed' = Consumed
         /\ Alive' => AbstractMessage' = AbstractMessage
<1>1. HeaderIsOfFrame' /\ ControlIsOfFrame'
  BY DEF RInv, HeaderIsOfFrame, ControlIsOfFrame, header, LengthKnown, PayloadSize
<1>2. DataIsOfFrame'
  BY DEF RInv, DataIsOfFrame, HeaderIsOfFrame, header, Filled
<1>3. StartsMessage' <=> StartsMessage
  BY DEF StartsMessage, header, ThisFrame
<1>4. BufferIsOfMessage'
  BY <1>3 DEF RInv, BufferIsOfMessage, RoomMade, Filled, header
<1>5. Consumed' = Consumed
  BY DEF Consumed, Held, Filled, header
<1>6. Alive' => AbstractMessage' = AbstractMessage
  BY <1>3 DEF AbstractMessage
<1> QED BY <1>1, <1>2, <1>4, <1>5, <1>6

\* A step that reads nothing and writes nothing of the parser.
LEMMA QuietStep ==
  ASSUME IInv, RInv, Alive, Alive',
         UNCHANGED <<network, parsed, header, control, data, handled>>
  PROVE  RInv' /\ AbstractMessage' = AbstractMessage
<1>1. /\ HeaderIsOfFrame' /\ ControlIsOfFrame' /\ DataIsOfFrame' /\ BufferIsOfMessage'
      /\ Consumed' = Consumed /\ AbstractMessage' = AbstractMessage
  <2>1. current # "none" => handled < Len(stream') /\ ThisFrame' = ThisFrame
    BY DEF RInv, HeaderIsOfFrame, network, ThisFrame
  <2> QED BY <2>1, ParserUntouched
<1>2. OnTheWire'
  <2>1. parsed \in Nat
    BY DEF IInv, TypeOK
  <2>2. 0 \in Nat /\ parsed' = parsed + 0 /\ Consumed' = Consumed + 0
    BY <1>1, <2>1, ConsumedFacts
  <2> QED BY <2>2, StaysInFrame DEF RInv
<1> QED BY <1>1, <1>2 DEF RInv

\* The new frame lies after all others, which stay where they are.
LEMMA PeerSendsPlace == IInv /\ RInv /\ PeerSends => RInv' /\ Whole!PeerSends
<1> SUFFICES ASSUME IInv, RInv, PeerSends PROVE RInv' /\ Whole!PeerSends
  OBVIOUS
<1>1. PICK f \in PeerFrames[Len(stream) + 1] :
        stream' = Append(stream, f) /\ wire' = wire \o WireBytes(Len(stream) + 1, f)
  BY DEF PeerSends
<1> SUFFICES ASSUME NEW n, n = Len(stream), NEW w, w = Len(wire)
             PROVE  RInv' /\ Whole!PeerSends
  OBVIOUS
<1>2. /\ stream \in Seq(FrameDescriptors) /\ wire \in Seq(Bytes) /\ n \in Nat /\ w \in Nat
      /\ handled \in Nat
  BY LenProperties DEF IInv, TypeOK
<1>3. f \in FrameDescriptors
  <2>1. n + 1 \in 1 .. MaxFrames
    BY <1>2, FramesAssumption DEF PeerSends, FramesAssumption
  <2> QED BY <2>1, FramesAssumption DEF FramesAssumption
<1>4. /\ Len(stream') = n + 1 /\ stream'[n + 1] = f
      /\ \A k \in 1 .. n : stream'[k] = stream[k]
  BY <1>1, <1>2, <1>3, AppendProperties
<1>5. /\ Alive /\ Alive' /\ UNCHANGED <<header, control, data, handled, parsed, status, effects>>
  BY DEF PeerSends, Alive
<1>6. PICK start \in Starts :
        Laid(start) /\ handled <= n /\ parsed = start[handled + 1] + Consumed
  BY <1>5 DEF RInv, OnTheWire
<1>7. /\ HeaderIsOfFrame' /\ ControlIsOfFrame' /\ DataIsOfFrame' /\ BufferIsOfMessage'
      /\ Consumed' = Consumed /\ AbstractMessage' = AbstractMessage
  <2>1. ASSUME current # "none" PROVE handled < Len(stream') /\ ThisFrame' = ThisFrame
    <3>1. handled < n
      BY <1>5, <2>1 DEF RInv, HeaderIsOfFrame
    <3>2. handled + 1 \in 1 .. n /\ handled' = handled
      BY <1>2, <1>5, <3>1
    <3> QED BY <1>2, <1>4, <3>1, <3>2 DEF ThisFrame
  <2> QED BY <1>5, <2>1, ParserUntouched
<1> DEFINE new == WireBytes(n + 1, f)
<1>8. /\ Len(new) = FrameBytes(f) /\ FrameBytes(f) \in Nat
      /\ w + FrameBytes(f) = Len(wire')
      /\ \A i \in 1 .. w : wire'[i] = wire[i]
      /\ LiesIn(wire', n + 1, f, w)
  <2>1. LiesIn(new, n + 1, f, 0) /\ Len(new) = FrameBytes(f) /\ n + 1 \in Nat
    BY <1>2, <1>3, WireBytesLie
  <2>2. new \in Seq(Bytes)
    <3> DEFINE B == [no : {n + 1}, role : Roles, at : Nat, masked : BOOLEAN]
    <3>1. new \in Seq(B)
      BY <1>3, <2>1, WireBytesType
    <3>2. B \subseteq Bytes
      BY <2>1 DEF Bytes
    <3> HIDE DEF B, new
    <3> QED BY <3>1, <3>2
  <2>3. FrameBytes(f) \in Nat
    BY <1>3, FrameFacts
  <2> HIDE DEF new
  <2>4. /\ Len(wire') = w + Len(new)
        /\ \A i \in 1 .. w + Len(new) : wire'[i] = IF i <= w THEN wire[i] ELSE new[i - w]
    BY <1>1, <1>2, <2>2, ConcatProperties DEF new
  <2>5. \A i \in 1 .. FrameBytes(f) : wire'[w + i] = new[0 + i]
    BY <1>2, <2>1, <2>3, <2>4
  <2>6. LiesIn(wire', n + 1, f, w)
    <3>1. 0 \in Nat /\ w \in Nat
      BY <1>2
    <3> QED BY <1>3, <2>1, <2>5, <3>1, LiesInCopy
  <2> QED BY <1>2, <2>1, <2>3, <2>4, <2>6
<1> DEFINE start2 == [k \in 1 .. n + 2 |-> IF k <= n + 1 THEN start[k] ELSE w + FrameBytes(f)]
<1>9. start2 \in Starts' /\ Laid(start2)'
  <2>1. start2 \in Starts'
    <3>1. \A k \in 1 .. n + 1 : start[k] \in Nat
      BY <1>6 DEF Starts
    <3>2. Starts' = [1 .. n + 2 -> Nat]
      BY <1>2, <1>4 DEF Starts
    <3> QED BY <1>2, <1>8, <3>1, <3>2
  <2>2. start2[1] = 0 /\ start2[Len(stream') + 1] = Len(wire')
    <3>1. start[1] = 0
      BY <1>6 DEF Laid
    <3> QED BY <1>2, <1>4, <1>8, <3>1
  <2>3. ASSUME NEW no \in 1 .. Len(stream')
        PROVE  /\ start2[no + 1] = start2[no] + FrameBytes(stream'[no])
               /\ start2[no + 1] <= Len(wire')
               /\ LiesIn(wire', no, stream'[no], start2[no])
    <3>1. CASE no <= n
      <4>1. no \in 1 .. n
        BY <1>2, <1>4, <3>1
      <4>2. /\ start[no + 1] = start[no] + FrameBytes(stream[no])
            /\ start[no + 1] <= w
            /\ LiesIn(wire, no, stream[no], start[no])
        BY <1>6, <4>1 DEF Laid
      <4>3. /\ start2[no + 1] = start[no + 1] /\ start2[no] = start[no]
            /\ start[no] \in Nat /\ start[no + 1] \in Nat
        <5>1. /\ no \in 1 .. n + 1 /\ no + 1 \in 1 .. n + 1
              /\ no \in 1 .. n + 2 /\ no + 1 \in 1 .. n + 2
          BY <1>2, <4>1
        <5>2. start[no] \in Nat /\ start[no + 1] \in Nat
          BY <1>6, <5>1 DEF Starts
        <5> QED BY <5>1, <5>2
      <4>4. stream'[no] = stream[no]
        BY <1>4, <4>1
      <4>5. stream[no] \in FrameDescriptors
        BY <1>2, <4>1, ElementOfSeq
      <4>6. LiesIn(wire', no, stream[no], start[no])
        <5>1. \A i \in 1 .. FrameBytes(stream[no]) :
                wire'[start[no] + i] = wire[start[no] + i]
          <6>1. FrameBytes(stream[no]) \in Nat
            BY <4>5, FrameFacts
          <6>2. ASSUME NEW i \in 1 .. FrameBytes(stream[no])
                PROVE  start[no] + i \in 1 .. w
            BY <1>2, <4>2, <4>3, <6>1, SMTT(30)
          <6> QED BY <1>8, <6>2
        <5>2. no \in Nat
          OBVIOUS
        <5> QED BY <4>2, <4>3, <4>5, <5>1, <5>2, LiesInCopy
      <4> QED BY <1>2, <1>8, <4>2, <4>3, <4>4, <4>6, SMTT(30)
    <3>2. CASE no = n + 1
      <4>1. start2[no] = start[no] /\ start[no] = w /\ start2[no + 1] = w + FrameBytes(f)
        <5>1. start[n + 1] = w
          BY <1>6 DEF Laid
        <5> QED BY <1>2, <3>2, <5>1
      <4>2. stream'[no] = f
        BY <1>4, <3>2
      <4> QED BY <1>2, <1>8, <3>2, <4>1, <4>2
    <3> QED BY <1>2, <1>4, <3>1, <3>2
  <2> HIDE DEF start2
  <2> QED BY <2>1, <2>2, <2>3 DEF Laid
<1>10. OnTheWire'
  <2>1. handled + 1 \in 1 .. n + 1 /\ handled + 1 \in 1 .. n + 2
    BY <1>2, <1>6
  <2>2. start2[handled + 1] = start[handled + 1]
    BY <1>2, <2>1
  <2>3. handled' <= Len(stream') /\ parsed' = start2[handled' + 1] + Consumed'
    BY <1>2, <1>4, <1>5, <1>6, <1>7, <2>2
  <2> QED BY <1>9, <2>3 DEF OnTheWire
<1>11. Whole!PeerSends
  BY <1>1, <1>5, <1>7 DEF Whole!PeerSends, PeerSends
<1> QED BY <1>7, <1>10, <1>11 DEF RInv

-----------------------------------------------------------------------------
\* Steps between two calls of the parser.

\* Neither the peer nor the application sees a step of this kind.
LEMMA Unseen ==
  ASSUME Alive, Alive', UNCHANGED <<stream, handled, effects, status>>,
         AbstractMessage' = AbstractMessage
  PROVE  UNCHANGED Whole!vars
BY DEF Whole!vars, Alive

\* The connection ends: its message is forgotten.
LEMMA Ending ==
  ASSUME ~ Alive'
  PROVE  Whole!Ends
BY DEF Whole!Ends, Whole!NoMessage, Alive, AbstractMessage, Whole!INVALID, INVALID

\* close_client ends the connection, whether or not it may free the buffer.
LEMMA CloseClientEnds ==
  ASSUME CloseClient
  PROVE  ~ Alive'
BY DEF CloseClient, Alive

\* Receiving is not seen.
LEMMA QuietStepPlace ==
  IInv /\ RInv /\ (ReadEvent \/ Recv \/ RecvAgain \/ EndBuffer)
    => RInv' /\ UNCHANGED Whole!vars
<1> SUFFICES ASSUME IInv, RInv, ReadEvent \/ Recv \/ RecvAgain \/ EndBuffer
             PROVE  RInv' /\ UNCHANGED Whole!vars
  OBVIOUS
<1>1. /\ Alive /\ Alive'
      /\ UNCHANGED <<network, parsed, header, control, data, handled, status, effects>>
  BY DEF ReadEvent, Recv, RecvAgain, EndBuffer, Alive
<1>2. RInv' /\ AbstractMessage' = AbstractMessage
  BY <1>1, QuietStep
<1> QED BY <1>1, <1>2, Unseen DEF network

\* nitrows_close from outside is FrameStream's StartClosing: nothing is parsed.
LEMMA StartClosingPlace ==
  IInv /\ RInv /\ StartClosing => RInv' /\ Whole!StartClosing
<1> SUFFICES ASSUME IInv, RInv, StartClosing PROVE RInv' /\ Whole!StartClosing
  OBVIOUS
<1>1. /\ Alive /\ Alive' /\ status' = "closing"
      /\ UNCHANGED <<network, parsed, header, control, data, handled, effects>>
  BY DEF StartClosing, Alive
<1>2. RInv' /\ AbstractMessage' = AbstractMessage
  BY <1>1, QuietStep
<1>3. Alive' = Alive
  BY <1>1 DEF Alive
<1> QED BY <1>1, <1>2, <1>3 DEF Whole!StartClosing, network

\* The parser may stop inside a frame when the peer is gone: what it kept is lost.
LEMMA PeerGonePlace ==
  IInv /\ RInv /\ PeerGone => RInv' /\ Whole!PeerGone
<1> SUFFICES ASSUME IInv, RInv, PeerGone PROVE RInv' /\ Whole!PeerGone
  OBVIOUS
<1>1. Alive /\ ~ Alive' /\ UNCHANGED <<network, handled, effects, status>>
  BY CloseClientEnds DEF PeerGone, Alive
<1> QED BY <1>1, GoneKeepsPlace, Ending DEF Whole!PeerGone, network

-----------------------------------------------------------------------------
\* The header.

\* Between data frames the message under way has the type that is stored.
LEMMA StoredType ==
  ASSUME Alive, current # "data"
  PROVE  ~ StartsMessage /\ AbstractMessage.type = data.type
BY DEF StartsMessage, AbstractMessage

\* Whether the type of the frame under way is one to refuse was decided at its first
\* byte.
LEMMA GoodFrameType ==
  ASSUME IInv, RInv, Alive, current # "none"
  PROVE  /\ handled < Len(stream) /\ ThisFrame \in FrameDescriptors
         /\ ~ BadFrameType(ThisFrame, AbstractMessage.type, Extensions)
<1>1. /\ handled < Len(stream) /\ (Extensions \/ ThisFrame.rsv = {})
      /\ ~ IsReserved(ThisFrame.op) /\ (current = "control" <=> IsControl(ThisFrame.op))
  BY DEF RInv, HeaderIsOfFrame
<1>2. ThisFrame \in FrameDescriptors
  BY <1>1, ThisFrameType
<1>3. current \in {"control", "data"}
  BY DEF IInv, TypeOK
<1>4. ~ OutOfSequence(ThisFrame.op, AbstractMessage.type)
  <2>1. CASE current = "control"
    BY <1>1, <2>1 DEF OutOfSequence
  <2>2. CASE current = "data" /\ ThisFrame.op = CONTINUATION
    <3>1. data.type # INVALID /\ ~ StartsMessage
      BY <2>2 DEF RInv, DataIsOfFrame, StartsMessage, ThisFrame
    <3>2. AbstractMessage.type = data.type
      BY <3>1 DEF AbstractMessage
    <3> QED BY <2>2, <3>1, <3>2 DEF OutOfSequence
  <2>3. CASE current = "data" /\ ThisFrame.op # CONTINUATION
    <3>1. AbstractMessage.type = INVALID
      BY <2>3 DEF AbstractMessage, StartsMessage, ThisFrame
    <3> QED BY <2>3, <3>1 DEF OutOfSequence
  <2> QED BY <1>3, <2>1, <2>2, <2>3
<1> QED BY <1>1, <1>2, <1>4 DEF BadFrameType

\* A refusal is the one that FrameStream allows.
LEMMA RejectPlace ==
  ASSUME IInv, RInv, Alive, handled < Len(stream), NEW code, Reject(code),
         code \in Whole!Refusals(ThisFrame)
  PROVE  RInv' /\ Whole!Refuse
<1>1. /\ ~ Alive' /\ UNCHANGED <<network, handled, status>>
      /\ effects' = Append(effects, CloseFrame(code, <<>>))
  BY CloseClientEnds DEF Reject
<1>2. RInv' /\ Whole!Ends
  BY <1>1, GoneKeepsPlace, Ending
<1>3. Whole!CloseFrame(code, <<>>) = CloseFrame(code, <<>>)
  BY SameVocabulary
<1> QED BY <1>1, <1>2, <1>3
    DEF Whole!Refuse, Whole!Pending, Whole!NextFrame, ThisFrame, network

\* The statuses with which FrameStream refuses a frame, in FrameReader's words.
LEMMA RefusalsOf ==
  ASSUME NEW f, NEW type, type = AbstractMessage.type
  PROVE  /\ BadFrameType(f, type, Extensions) => Whole!Refusals(f) = {PROTOCOL_ERROR}
         /\ ~ BadFrameType(f, type, Extensions) /\ ~ (IsControl(f.op) /\ ~ f.fin) =>
              /\ ~ f.masked => Whole!Refusals(f) = {INVALID_TYPE}
              /\ f.masked /\ IsControl(f.op) /\ LengthCode(f) >= 126 =>
                   Whole!Refusals(f) = {PROTOCOL_ERROR}
              /\ f.masked /\ ~ (IsControl(f.op) /\ LengthCode(f) >= 126)
                   /\ (Whole!TooLarge(f) \/ (ReallocMayFail /\ AbstractMessage.parts # <<>>)) =>
                   Whole!Refusals(f) = {TOO_LARGE}
BY SameVocabulary, SameStatuses DEF Whole!Refusals

\* Nothing of a frame is kept before its mask is there.
LEMMA NothingHeld ==
  ASSUME IInv, maskSize < 4
  PROVE  /\ Held = 0 /\ Len(control.bytes) = 0 /\ ~ RoomMade
         /\ data.buffer # "stack" => Filled = data.offset
<1>1. ~ RoomMade /\ Held \in Nat /\ Held = 0 /\ control.bytes = <<>>
  <2>1. ~ RoomMade
    BY DEF RoomMade
  <2>2. Held \in Nat /\ ~ (Held > 0)
    BY <2>1, ConsumedFacts
  <2>3. control.bytes = <<>>
    BY DEF IInv, ControlFits
  <2> QED BY <2>1, <2>2, <2>3
<1>2. data.buffer # "stack" => Filled = data.offset
  <2>1. Filled \in Nat /\ data.offset \in Nat
    BY LenProperties DEF IInv, TypeOK, DataFrames, Filled
  <2> QED BY <1>1, <2>1 DEF Held
<1> QED BY <1>1, <1>2

\* The type of the frame is decided at its first byte, and the frame is then under
\* way.
LEMMA GetFrameTypePlace ==
  IInv /\ RInv /\ GetFrameType =>
    RInv' /\ (Whole!Refuse \/ Whole!DropFragmentedControl \/ UNCHANGED Whole!vars)
<1> SUFFICES ASSUME IInv, RInv, GetFrameType
             PROVE  /\ RInv'
                    /\ Whole!Refuse \/ Whole!DropFragmentedControl \/ UNCHANGED Whole!vars
  OBVIOUS
<1> DEFINE f == stream[Next1.no]
           bad == BadFrameType(f, data.type, Extensions)
<1>1. /\ pc = "parse" /\ Alive /\ Left > 0 /\ maskSize < 4 /\ current = "none"
      /\ parsed < Len(wire)
  <2>1. /\ pc = "parse" /\ Left > 0 /\ maskSize < 4 /\ current = "none"
    BY DEF GetFrameType, AtFrameType
  <2>2. received \in 0 .. Len(wire) /\ parsed \in 0 .. received /\ Len(wire) \in Nat
    BY LenProperties DEF IInv, TypeOK
  <2> QED BY <2>1, <2>2 DEF Left, Alive
<1>2. handled < Len(stream) /\ f = ThisFrame /\ f \in FrameDescriptors
  <2>1. handled < Len(stream) /\ Next1 = Byte(handled + 1, "first", 1, FALSE)
    BY <1>1, FirstByte DEF RInv
  <2>2. Next1.no = handled + 1
    BY <2>1 DEF Byte
  <2> QED BY <2>1, <2>2, ThisFrameType DEF ThisFrame
<1>3. ~ StartsMessage /\ AbstractMessage.type = data.type
  BY <1>1, StoredType
<1> HIDE DEF f
<1>4. CASE bad /\ Reject(PROTOCOL_ERROR)
  <2>1. PROTOCOL_ERROR \in Whole!Refusals(ThisFrame)
    BY <1>2, <1>3, <1>4, RefusalsOf
  <2> QED BY <1>1, <1>2, <1>4, <2>1, RejectPlace
<1>5. CASE /\ ~ bad /\ IsControl(f.op) /\ ~ f.fin
           /\ CloseClient
           /\ UNCHANGED <<network, received, parsed, into, toRead, header, control,
                          data, status, handled, effects>>
  <2>1. ~ Alive'
    BY <1>5, CloseClientEnds
  <2>2. RInv' /\ Whole!Ends
    BY <1>5, <2>1, GoneKeepsPlace, Ending
  <2>3. Whole!DropFragmentedControl
    BY <1>1, <1>2, <1>3, <1>5, <2>2, SameVocabulary
    DEF Whole!DropFragmentedControl, Whole!Pending, Whole!FragmentedControl,
        Whole!NextFrame, ThisFrame, network
  <2> QED BY <2>2, <2>3
<1>6. CASE /\ ~ bad
           /\ \/ IsControl(f.op) /\ AcceptControl(f)
              \/ ~ IsControl(f.op) /\ AcceptData(f)
           /\ parsed' = parsed + 1
           /\ UNCHANGED <<network, received, pc, into, toRead, headerSize, lengthCode,
                          maskSize, status, handled, effects>>
  <2>1. /\ Alive' /\ ThisFrame' = ThisFrame
        /\ headerSize = 0 /\ headerSize' = 0 /\ maskSize' = maskSize
        /\ current' = IF IsControl(f.op) THEN "control" ELSE "data"
    BY <1>1, <1>6 DEF IInv, HeaderInOrder, Alive, ThisFrame, network, AcceptControl, AcceptData
  <2>2. ~ IsReserved(f.op) /\ ~ OutOfSequence(f.op, data.type) /\ (Extensions \/ f.rsv = {})
    BY <1>6 DEF BadFrameType
  <2>3. /\ control.type = INVALID /\ control.bytes = <<>> /\ control \in ControlFrames
        /\ data \in DataFrames /\ data.offset \in Nat /\ Filled \in Nat
        /\ data.type = INVALID => data.offset = 0
        /\ data.buffer = "heap" => data.offset > 0
        /\ data.buffer # "stack" => Filled = data.offset
    <3>1. control \in ControlFrames /\ data \in DataFrames
      BY DEF IInv, TypeOK
    <3>2. control.bytes = <<>>
      BY <1>1 DEF IInv, ControlFits
    <3>3. control.type = INVALID
      BY <1>1 DEF RInv, ControlIsOfFrame
    <3>4. data.offset \in Nat /\ Filled \in Nat
      BY <3>1, LenProperties DEF DataFrames, Filled
    <3>5. ~ RoomMade /\ (data.buffer # "stack" => Filled = data.offset)
      BY <1>1, NothingHeld
    <3> QED BY <1>1, <3>1, <3>2, <3>3, <3>4, <3>5 DEF RInv, BufferIsOfMessage
  <2>4. /\ data'.bytes = data.bytes /\ data'.offset = data.offset
        /\ data'.buffer = data.buffer /\ control'.bytes = <<>>
    <3>1. CASE AcceptControl(f)
      <4>1. control'.bytes = control.bytes /\ UNCHANGED data
        BY <2>3, <3>1 DEF AcceptControl, ControlFrames
      <4> QED BY <2>3, <4>1
    <3>2. CASE AcceptData(f)
      <4>1. UNCHANGED control
        BY <3>2 DEF AcceptData
      <4>2. /\ data'.bytes = data.bytes /\ data'.offset = data.offset
            /\ data'.buffer = data.buffer
        BY <2>3, <3>2 DEF AcceptData, DataFrames
      <4> QED BY <2>3, <4>1, <4>2
    <3> QED BY <1>6, <3>1, <3>2
  <2>5. OnTheWire'
    <3>1. Consumed = 0 /\ Held = 0 /\ Len(control.bytes) = 0 /\ maskSize = 0
      BY <1>1, NothingHeld, ConsumedFacts
    <3>2. Held' = Held
      BY <2>4 DEF Held, Filled
    <3>3. Consumed' = 1
      BY <2>1, <2>3, <2>4, <3>1, <3>2 DEF Consumed
    <3>4. Consumed' = Consumed + 1 /\ 1 \in Nat /\ UNCHANGED <<network, handled>>
      BY <1>6, <3>1, <3>3
    <3> QED BY <1>1, <1>6, <3>4, StaysInFrame DEF RInv
  <2>6. HeaderIsOfFrame'
    <3>1. handled' < Len(stream')
      BY <1>2, <1>6 DEF network
    <3> QED BY <1>2, <2>1, <2>2, <3>1 DEF HeaderIsOfFrame, LengthKnown
  <2>7. CASE IsControl(f.op) /\ AcceptControl(f)
    <3>1. /\ current' = "control" /\ data' = data /\ f.fin
          /\ control' = [control EXCEPT !.type = f.op]
      BY <2>3, <2>7 DEF AcceptControl
    <3>2. control'.type = f.op
      BY <2>3, <3>1 DEF ControlFrames
    <3>3. ControlIsOfFrame'
      BY <1>2, <2>1, <2>4, <3>1, <3>2 DEF ControlIsOfFrame
    <3>4. DataIsOfFrame' /\ ~ StartsMessage'
      BY <3>1 DEF DataIsOfFrame, StartsMessage
    <3>5. BufferIsOfMessage'
      BY <2>3, <3>1, <3>4 DEF BufferIsOfMessage
    <3>6. AbstractMessage' = AbstractMessage
      BY <1>1, <1>3, <2>1, <3>1, <3>4 DEF AbstractMessage
    <3> QED BY <1>1, <1>6, <2>1, <2>5, <2>6, <3>3, <3>4, <3>5, <3>6, Unseen DEF RInv, network
  <2>8. CASE ~ IsControl(f.op) /\ AcceptData(f)
    <3>1. /\ current' = "data" /\ control' = control /\ data'.isFinal = f.fin
          /\ data'.type = IF data.type = INVALID THEN f.op ELSE data.type
          /\ data'.rsv1 = IF data.type = INVALID THEN 1 \in f.rsv ELSE data.rsv1
      BY <2>3, <2>8 DEF AcceptData, DataFrames
    <3>2. f.op = CONTINUATION <=> data.type # INVALID
      BY <2>2, <2>8 DEF OutOfSequence
    <3>3. ControlIsOfFrame'
      BY <2>3, <3>1 DEF ControlIsOfFrame
    <3>4. StartsMessage' <=> f.op # CONTINUATION
      BY <1>2, <2>1, <3>1 DEF StartsMessage, ThisFrame
    <3>5. DataIsOfFrame'
      <4>1. data'.buffer # "stack" => Filled' = data'.offset
        BY <2>3, <2>4 DEF Filled
      <4>2. data'.offset \in Nat
        BY <2>3, <2>4
      <4>3. data'.buffer # "stack" =>
              \A i \in data'.offset + 1 .. Filled' :
                data'.bytes[i] = Byte(handled' + 1, "payload", i - data'.offset, TRUE)
        BY <4>1, <4>2
      <4>4. f.op # CONTINUATION => data'.type = f.op /\ (data'.rsv1 <=> 1 \in f.rsv)
        BY <3>1, <3>2
      <4>5. f.op = CONTINUATION => data'.type # INVALID
        BY <3>1, <3>2
      <4> QED BY <1>2, <2>1, <3>1, <4>3, <4>4, <4>5 DEF DataIsOfFrame
    <3>6. BufferIsOfMessage'
      <4>1. data'.type = INVALID \/ StartsMessage' => data'.offset = 0
        BY <2>3, <2>4, <3>1, <3>2, <3>4
      <4>2. data'.buffer = "heap" => data'.offset > 0
        BY <2>3, <2>4
      <4> QED BY <4>1, <4>2 DEF BufferIsOfMessage
    <3>7. AbstractMessage' = AbstractMessage
      <4>1. CASE f.op = CONTINUATION
        BY <1>1, <1>3, <2>1, <2>4, <3>1, <3>2, <3>4, <4>1 DEF AbstractMessage
      <4>2. CASE f.op # CONTINUATION
        BY <1>1, <1>3, <3>2, <3>4, <4>2 DEF AbstractMessage
      <4> QED BY <4>1, <4>2
    <3> QED BY <1>1, <1>6, <2>1, <2>5, <2>6, <3>3, <3>5, <3>6, <3>7, Unseen DEF RInv, network
  <2> QED BY <1>6, <2>7, <2>8
<1> QED BY <1>4, <1>5, <1>6 DEF GetFrameType, f

\* What a step keeps that reads bytes of the length or of the mask.
LEMMA HeaderPlace ==
  ASSUME IInv, RInv, Alive, Alive', current # "none", maskSize < 4,
         UNCHANGED <<network, handled, current, status, effects>>,
         control'.type = control.type, control'.bytes = control.bytes,
         data'.type = data.type, data'.isFinal = data.isFinal, data'.rsv1 = data.rsv1,
         data'.offset = data.offset, data'.buffer = data.buffer,
         data'.bytes = data.bytes,
         NEW n \in Nat, parsed' = parsed + n,
         1 + headerSize' + maskSize' = (1 + headerSize + maskSize) + n,
         HeaderIsOfFrame'
  PROVE  RInv' /\ UNCHANGED Whole!vars
<1>1. /\ Held = 0 /\ Len(control.bytes) = 0 /\ ~ RoomMade
      /\ headerSize \in Nat /\ maskSize \in Nat
  BY NothingHeld, ConsumedFacts
<1>2. OnTheWire'
  <2>1. Held' = Held
    BY DEF Held, Filled
  <2>2. Consumed = 1 + headerSize + maskSize /\ Consumed' = 1 + headerSize' + maskSize'
    BY <1>1, <2>1 DEF Consumed
  <2>3. Consumed' = Consumed + n
    BY <2>2, Zenon
  <2> QED BY <2>3, StaysInFrame DEF RInv
<1>3. /\ ThisFrame' = ThisFrame /\ Filled' = Filled /\ (StartsMessage' <=> StartsMessage)
      /\ handled' = handled /\ stream' = stream
  BY DEF ThisFrame, Filled, StartsMessage, network
<1>4. ControlIsOfFrame'
  BY <1>3 DEF RInv, ControlIsOfFrame
<1>5. DataIsOfFrame'
  BY <1>3 DEF RInv, DataIsOfFrame
<1>6. BufferIsOfMessage'
  BY <1>1, <1>3 DEF RInv, BufferIsOfMessage
<1>7. AbstractMessage' = AbstractMessage
  BY <1>3 DEF AbstractMessage
<1> QED BY <1>2, <1>3, <1>4, <1>5, <1>6, <1>7, Unseen DEF RInv

\* The mask is copied.
LEMMA CopyMaskPlace == IInv /\ RInv /\ CopyMask => RInv' /\ UNCHANGED Whole!vars
<1> SUFFICES ASSUME IInv, RInv, CopyMask PROVE RInv' /\ UNCHANGED Whole!vars
  OBVIOUS
<1> DEFINE taken == Least(4 - maskSize, Left)
<1>1. /\ pc = "parse" /\ Left > 0 /\ maskSize < 4 /\ current # "none" /\ LengthKnown
      /\ maskSize' = maskSize + taken /\ parsed' = parsed + taken
      /\ UNCHANGED <<network, received, pc, into, toRead, current, headerSize, lengthCode,
                     control, data, status, handled, effects>>
  BY DEF CopyMask
<1>2. taken \in Nat /\ headerSize \in Nat /\ maskSize \in Nat
  BY <1>1 DEF IInv, TypeOK, Left, Least
<1> HIDE DEF taken
<1>3. Alive /\ Alive'
  BY <1>1 DEF Alive
<1>4. HeaderIsOfFrame'
  BY <1>1, <1>3 DEF RInv, HeaderIsOfFrame, ThisFrame, network, LengthKnown, PayloadSize
<1>5. 1 + headerSize' + maskSize' = (1 + headerSize + maskSize) + taken
  BY <1>1, <1>2
<1> QED BY <1>1, <1>2, <1>3, <1>4, <1>5, HeaderPlace

\* The length is read; it decides whether the frame is refused before its payload.
LEMMA GetPayloadDataPlace ==
  IInv /\ RInv /\ GetPayloadData => RInv' /\ (Whole!Refuse \/ UNCHANGED Whole!vars)
<1> SUFFICES ASSUME IInv, RInv, GetPayloadData
             PROVE  RInv' /\ (Whole!Refuse \/ UNCHANGED Whole!vars)
  OBVIOUS
<1> DEFINE f == stream[Next1.no]
           code == IF headerSize = 0 THEN LengthCode(f) ELSE lengthCode
           taken == Least(HeaderBytes(code) - headerSize, Left)
           known == headerSize + taken = HeaderBytes(code)
<1>1. /\ pc = "parse" /\ Alive /\ Left > 0 /\ maskSize < 4 /\ current # "none"
      /\ ~ LengthKnown
  BY DEF GetPayloadData, AtLength, Alive
<1>2. handled < Len(stream) /\ f = ThisFrame
  <2>1. handled < Len(stream) /\ Next1 = Byte(handled + 1, "length", headerSize + 1, FALSE)
    BY <1>1, LengthByte
  <2>2. Next1.no = handled + 1
    BY <2>1 DEF Byte
  <2> QED BY <2>1, <2>2 DEF ThisFrame
<1>3. /\ ThisFrame \in FrameDescriptors
      /\ ~ BadFrameType(ThisFrame, AbstractMessage.type, Extensions)
  BY <1>1, GoodFrameType
<1>4. /\ Extensions \/ ThisFrame.rsv = {}
      /\ ~ IsReserved(ThisFrame.op)
      /\ current = "control" <=> IsControl(ThisFrame.op)
      /\ headerSize > 0 => ThisFrame.masked /\ lengthCode = LengthCode(ThisFrame)
  BY <1>1 DEF RInv, HeaderIsOfFrame
<1>5. ~ (IsControl(ThisFrame.op) /\ ~ ThisFrame.fin)
  BY <1>1, <1>4 DEF RInv, ControlIsOfFrame
<1>6. headerSize \in 0 .. 9 /\ maskSize \in 0 .. 4 /\ current \in {"none", "control", "data"}
  BY DEF IInv, TypeOK
<1>7. code = LengthCode(ThisFrame)
  BY <1>2, <1>4, <1>6
<1>8. /\ HeaderBytes(code) \in 1 .. 9 /\ headerSize < HeaderBytes(code) /\ Left \in Nat
      /\ ThisFrame.len \in Nat /\ MaxPayloadSize \in Nat
  <2>1. HeaderBytes(code) \in 1 .. 9 /\ ThisFrame.len \in Nat
    BY <1>3, <1>7, FrameFacts
  <2>2. headerSize < HeaderBytes(code)
    BY <1>1, <1>6, <2>1 DEF IInv, HeaderInOrder, LengthKnown
  <2>3. Left \in Nat
    BY DEF IInv, TypeOK, Left
  <2> QED BY <2>1, <2>2, <2>3, SizesAssumption DEF SizesAssumption
<1>9. CASE headerSize = 0 /\ ~ f.masked /\ Reject(INVALID_TYPE)
  <2>1. INVALID_TYPE \in Whole!Refusals(ThisFrame)
    BY <1>2, <1>3, <1>5, <1>9, RefusalsOf
  <2> QED BY <1>1, <1>2, <1>9, <2>1, RejectPlace
<1>10. CASE /\ headerSize > 0 \/ f.masked
            /\ current = "control" /\ code >= 126
            /\ Reject(PROTOCOL_ERROR)
  <2>1. PROTOCOL_ERROR \in Whole!Refusals(ThisFrame)
    BY <1>2, <1>3, <1>4, <1>5, <1>7, <1>10, RefusalsOf
  <2> QED BY <1>1, <1>2, <1>10, <2>1, RejectPlace
<1>11. CASE /\ headerSize > 0 \/ f.masked
            /\ current = "data" \/ code < 126
            /\ known /\ f.len > MaxPayloadSize
            /\ Reject(TOO_LARGE)
  <2>1. Whole!TooLarge(ThisFrame)
    BY <1>2, <1>11 DEF Whole!TooLarge
  <2>2. ThisFrame.masked /\ ~ (IsControl(ThisFrame.op) /\ LengthCode(ThisFrame) >= 126)
    <3>1. LengthCode(ThisFrame) \in Nat
      BY <1>3, FrameFacts
    <3> QED BY <1>2, <1>4, <1>7, <1>11, <3>1
  <2>3. TOO_LARGE \in Whole!Refusals(ThisFrame)
    BY <1>3, <1>5, <2>1, <2>2, RefusalsOf
  <2> QED BY <1>1, <1>2, <1>11, <2>3, RejectPlace
<1>12. CASE /\ headerSize > 0 \/ f.masked
            /\ current = "data" \/ code < 126
            /\ known => f.len <= MaxPayloadSize
            /\ parsed' = parsed + taken
            /\ headerSize' = headerSize + taken
            /\ lengthCode' = code
            /\ control' = IF known /\ current = "control"
                          THEN [control EXCEPT !.payloadSize = f.len] ELSE control
            /\ data' = IF known /\ current = "data"
                       THEN [data EXCEPT !.payloadSize = f.len] ELSE data
            /\ UNCHANGED <<network, received, pc, into, toRead, current, maskSize,
                           status, handled, effects>>
  <2>1. taken \in Nat /\ taken > 0 /\ headerSize' \in Nat /\ headerSize' > 0
    <3>1. headerSize' = headerSize + taken
      BY <1>12
    <3> HIDE DEF code
    <3>2. taken \in Nat /\ taken > 0
      BY <1>1, <1>6, <1>8 DEF Least
    <3> HIDE DEF taken
    <3> QED BY <1>6, <3>1, <3>2
  <2>2. /\ control'.type = control.type /\ control'.bytes = control.bytes
        /\ data'.type = data.type /\ data'.isFinal = data.isFinal
        /\ data'.rsv1 = data.rsv1 /\ data'.offset = data.offset
        /\ data'.buffer = data.buffer /\ data'.bytes = data.bytes
        /\ known /\ current = "control" => control'.payloadSize = f.len
        /\ known /\ current = "data" => data'.payloadSize = f.len
    BY <1>12 DEF IInv, TypeOK, ControlFrames, DataFrames
  <2>3. /\ Alive' /\ ThisFrame' = ThisFrame /\ stream' = stream /\ handled' = handled
        /\ current' = current /\ (LengthKnown' <=> known)
    BY <1>1, <1>12, <2>1 DEF Alive, ThisFrame, network, LengthKnown
  <2> HIDE DEF known, code, taken
  <2>4. known => PayloadSize' = ThisFrame.len /\ ThisFrame.len <= MaxPayloadSize
    BY <1>1, <1>2, <1>6, <1>12, <2>2, <2>3 DEF PayloadSize
  <2>5. ThisFrame.masked
    BY <1>2, <1>4, <1>12
  <2>6. HeaderIsOfFrame'
    BY <1>2, <1>4, <1>7, <1>12, <2>3, <2>4, <2>5 DEF HeaderIsOfFrame
  <2>7. 1 + headerSize' + maskSize' = (1 + headerSize + maskSize) + taken
    BY <1>6, <1>12, <2>1
  <2>8. UNCHANGED <<network, handled, current, status, effects>>
    BY <1>12
  <2> QED BY <1>1, <1>12, <2>1, <2>2, <2>3, <2>6, <2>7, <2>8, HeaderPlace
<1> QED BY <1>9, <1>10, <1>11, <1>12 DEF GetPayloadData

-----------------------------------------------------------------------------
\* Control payloads.

\* A payload is a sequence of its frame's bytes.
LEMMA PayloadFacts ==
  ASSUME NEW no \in Nat, NEW f \in FrameDescriptors
  PROVE  /\ Payload(no, f) \in Seq(Bytes) /\ Len(Payload(no, f)) = f.len
         /\ \A j \in 1 .. f.len : Payload(no, f)[j] = Byte(no, "payload", j, FALSE)
<1>1. f.len \in Nat /\ "payload" \in Roles /\ FALSE \in BOOLEAN
  BY FrameFacts DEF Roles
<1> DEFINE B == [no : {no}, role : Roles, at : Nat, masked : BOOLEAN]
<1>2. Payload(no, f) \in Seq(B) /\ Len(Payload(no, f)) = f.len
  BY <1>1, PartType DEF Payload
<1>3. B \subseteq Bytes
  BY DEF Bytes
<1>4. \A j \in 1 .. f.len : Payload(no, f)[j] = Byte(no, "payload", j, FALSE)
  BY DEF Payload, Part
<1> HIDE DEF B
<1>5. Payload(no, f) \in Seq(Bytes)
  BY <1>2, <1>3
<1> QED BY <1>2, <1>4, <1>5, Zenon

\* The mask is taken off the bytes of the frame that it was put on.
LEMMA UnmaskedByte ==
  \A no : \A bytes \in Seq(Bytes), from \in Nat, n \in Nat : \A i \in 1 .. Len(bytes) :
    i > from /\ i <= from + n /\ bytes[i] = Byte(no, "payload", i - from, TRUE) =>
      Unmask(bytes, from, n)[i] = Byte(no, "payload", i - from, FALSE)
<1> SUFFICES
      ASSUME NEW bytes \in Seq(Bytes), NEW from \in Nat, NEW n \in Nat, NEW no,
             NEW i \in 1 .. Len(bytes), i > from, i <= from + n,
             bytes[i] = Byte(no, "payload", i - from, TRUE)
      PROVE  Unmask(bytes, from, n)[i] = Byte(no, "payload", i - from, FALSE)
  BY ZenonT(30)
<1> DEFINE U(k) ==
     IF k > from /\ k <= from + n
     THEN [bytes[k] EXCEPT !.masked = IF @ /\ bytes[k].at = k - from THEN FALSE ELSE TRUE]
     ELSE bytes[k]
<1>1. Unmask(bytes, from, n)[i] = U(i)
  <2>1. i \in DOMAIN bytes
    BY LenProperties
  <2>2. Unmask(bytes, from, n) = [k \in DOMAIN bytes |-> U(k)]
    BY DEF Unmask
  <2> HIDE DEF U
  <2> QED BY <2>1, <2>2
<1>2. U(i) = Byte(no, "payload", i - from, FALSE)
  <2>1. PICK b : b = bytes[i]
    OBVIOUS
  <2>2. PICK k : k = i - from
    OBVIOUS
  <2>3. b = [no |-> no, role |-> "payload", at |-> k, masked |-> TRUE]
    BY <2>1, <2>2 DEF Byte
  <2>4. [b EXCEPT !.masked = IF @ /\ b.at = k THEN FALSE ELSE TRUE]
          = [no |-> no, role |-> "payload", at |-> k, masked |-> FALSE]
    <3>1. b.masked = TRUE /\ b.at = k
      BY <2>3
    <3>2. (IF b.masked /\ b.at = k THEN FALSE ELSE TRUE) = FALSE
      BY <3>1
    <3>3. [b EXCEPT !.masked = FALSE]
            = [no |-> no, role |-> "payload", at |-> k, masked |-> FALSE]
      <4>1. \A t, u :
              [[no |-> no, role |-> "payload", at |-> k, masked |-> t] EXCEPT !.masked = u]
                = [no |-> no, role |-> "payload", at |-> k, masked |-> u]
        OBVIOUS
      <4> QED BY <2>3, <4>1, Zenon
    <3> QED BY <3>2, <3>3, Zenon
  <2> QED BY <2>1, <2>2, <2>4 DEF Byte
<1> QED BY <1>1, <1>2, Zenon

\* The bytes before them do not change.
LEMMA UntouchedByte ==
  \A bytes \in Seq(Bytes), from \in Nat, n \in Nat : \A i \in 1 .. Len(bytes) :
    i <= from => Unmask(bytes, from, n)[i] = bytes[i]
<1> SUFFICES
      ASSUME NEW bytes \in Seq(Bytes), NEW from \in Nat, NEW n \in Nat,
             NEW i \in 1 .. Len(bytes), i <= from
      PROVE  Unmask(bytes, from, n)[i] = bytes[i]
  OBVIOUS
<1>1. i \in DOMAIN bytes /\ ~ (i > from /\ i <= from + n)
  BY LenProperties
<1> QED BY <1>1 DEF Unmask

\* Bytes of the payload, still masked, are the payload once the mask is applied.
LEMMA UnmaskedPayload ==
  ASSUME NEW no \in Nat, NEW f \in FrameDescriptors, NEW bytes \in Seq(Bytes),
         Len(bytes) = f.len,
         \A i \in 1 .. f.len : bytes[i] = Byte(no, "payload", i, TRUE)
  PROVE  Unmask(bytes, 0, f.len) = Payload(no, f)
<1>1. f.len \in Nat
  BY FrameFacts
<1>2. /\ Unmask(bytes, 0, f.len) \in Seq(Bytes) /\ Len(Unmask(bytes, 0, f.len)) = f.len
      /\ Payload(no, f) \in Seq(Bytes) /\ Len(Payload(no, f)) = f.len
  BY <1>1, UnmaskType, PayloadFacts
<1>3. ASSUME NEW i \in 1 .. f.len
      PROVE  Unmask(bytes, 0, f.len)[i] = Payload(no, f)[i]
  <2>1. i > 0 /\ i <= 0 + f.len /\ i - 0 = i /\ i \in 1 .. Len(bytes) /\ 0 \in Nat
    BY <1>1
  <2>2. Unmask(bytes, 0, f.len)[i] = Byte(no, "payload", i, FALSE)
    <3>1. bytes[i] = Byte(no, "payload", i - 0, TRUE)
      BY <2>1, Zenon
    <3>2. Unmask(bytes, 0, f.len)[i] = Byte(no, "payload", i - 0, FALSE)
      BY <1>1, <2>1, <3>1, UnmaskedByte, ZenonT(30)
    <3> QED BY <2>1, <3>2, Zenon
  <2> QED BY <2>2, PayloadFacts
<1>4. PICK p : p = Unmask(bytes, 0, f.len)
  OBVIOUS
<1>5. PICK q : q = Payload(no, f)
  OBVIOUS
<1>6. /\ p \in Seq(Bytes) /\ q \in Seq(Bytes) /\ Len(p) = Len(q)
      /\ \A i \in 1 .. Len(p) : p[i] = q[i]
  BY <1>2, <1>3, <1>4, <1>5, Zenon
<1>7. p = q
  BY <1>6, SameElements
<1> QED BY <1>4, <1>5, <1>7

\* The payload of a control frame is collected; with its last byte the frame is
\* answered.
LEMMA HandleControlFramePlace ==
  IInv /\ RInv /\ HandleControlFrame =>
    RInv' /\ (Whole!PeerCloses \/ Whole!Ping \/ Whole!Pong \/ UNCHANGED Whole!vars)
<1> SUFFICES ASSUME IInv, RInv, HandleControlFrame
             PROVE  /\ RInv'
                    /\ \/ Whole!PeerCloses \/ Whole!Ping \/ Whole!Pong
                       \/ UNCHANGED Whole!vars
  OBVIOUS
<1> DEFINE size == control.payloadSize
           taken == Least(size - Len(control.bytes), Left)
           bytes == control.bytes \o Taken(taken)
           payload == Unmask(bytes, 0, size)
<1>1. /\ pc = "parse" /\ Alive /\ maskSize = 4 /\ current = "control"
      /\ TypeOK /\ ControlFits /\ (Left > 0 \/ size = 0)
  BY DEF IInv, HandleControlFrame, FrameReady, PayloadSize, Alive
<1>2. /\ handled < Len(stream) /\ ThisFrame \in FrameDescriptors /\ ThisFrame.masked
      /\ lengthCode = LengthCode(ThisFrame)
      /\ size = ThisFrame.len /\ ThisFrame.len <= MaxPayloadSize
      /\ \A j \in 1 .. ThisFrame.len - Len(control.bytes) :
           wire[parsed + j] = Byte(handled + 1, "payload", Len(control.bytes) + j, TRUE)
  BY <1>1, PayloadBytes DEF PayloadSize, Done
<1>3. /\ IsControl(ThisFrame.op) /\ ThisFrame.fin /\ control.type = ThisFrame.op
      /\ \A i \in 1 .. Len(control.bytes) :
           control.bytes[i] = Byte(handled + 1, "payload", i, TRUE)
      /\ data.type = INVALID => data.offset = 0
      /\ data.buffer = "heap" => data.offset > 0
  BY <1>1 DEF RInv, ControlIsOfFrame, HeaderIsOfFrame, BufferIsOfMessage, RoomMade
<1>4. /\ ~ BadFrameType(ThisFrame, AbstractMessage.type, Extensions)
      /\ headerSize > 0 /\ lengthCode < 126
  <2>1. LengthKnown
    BY <1>1, ConsumedFacts
  <2> QED BY <1>1, <2>1, GoodFrameType DEF LengthKnown, IInv, HeaderInOrder
<1>5. /\ control \in ControlFrames /\ control.bytes \in Seq(Bytes) /\ size \in Nat
      /\ Len(control.bytes) \in Nat /\ Left \in Nat /\ handled \in Nat
      /\ control.type \in {INVALID, CLOSE, PING, PONG}
      /\ wire \in Seq(Bytes) /\ received \in 0 .. Len(wire) /\ parsed \in 0 .. received
      /\ Len(wire) \in Nat
  BY <1>1, LenProperties DEF TypeOK, ControlFrames, Left
<1>6. Len(control.bytes) <= size
  <2>1. Len(<<>>) = 0
    OBVIOUS
  <2> QED BY <1>1, <1>5, <2>1 DEF ControlFits
<1>7. taken \in Nat /\ taken <= Left /\ taken <= size - Len(control.bytes)
  BY <1>5, <1>6 DEF Least
<1> HIDE DEF taken
<1>8. /\ Taken(taken) \in Seq(Bytes) /\ Len(Taken(taken)) = taken
      /\ \A j \in 1 .. taken : Taken(taken)[j] = wire[parsed + j]
  BY <1>1, <1>7, TakenBytes
<1>9. /\ bytes \in Seq(Bytes) /\ Len(bytes) = Len(control.bytes) + taken
      /\ \A i \in 1 .. Len(bytes) : bytes[i] = Byte(handled + 1, "payload", i, TRUE)
  <2>1. /\ bytes \in Seq(Bytes) /\ Len(bytes) = Len(control.bytes) + Len(Taken(taken))
        /\ \A i \in 1 .. Len(control.bytes) : bytes[i] = control.bytes[i]
        /\ \A j \in 1 .. Len(Taken(taken)) : bytes[Len(control.bytes) + j] = Taken(taken)[j]
    <3>1. PICK u : u = control.bytes
      OBVIOUS
    <3>2. PICK v : v = Taken(taken)
      OBVIOUS
    <3>3. u \in Seq(Bytes) /\ v \in Seq(Bytes)
      BY <1>5, <1>8, <3>1, <3>2
    <3>4. PICK w : w = u \o v
      OBVIOUS
    <3>5. /\ w \in Seq(Bytes) /\ Len(w) = Len(u) + Len(v)
          /\ \A i \in 1 .. Len(u) : w[i] = u[i]
          /\ \A j \in 1 .. Len(v) : w[Len(u) + j] = v[j]
      BY <3>3, <3>4, ConcatParts
    <3>6. bytes = w
      BY <3>1, <3>2, <3>4
    <3> HIDE DEF bytes
    <3> QED BY <3>1, <3>2, <3>5, <3>6, Zenon
  <2> HIDE DEF bytes
  <2>2. Len(bytes) = Len(control.bytes) + taken
    BY <1>8, <2>1
  <2>3. ASSUME NEW i \in 1 .. Len(bytes)
        PROVE  bytes[i] = Byte(handled + 1, "payload", i, TRUE)
    <3>1. CASE i \in 1 .. Len(control.bytes)
      BY <1>3, <2>1, <3>1
    <3>2. CASE i \notin 1 .. Len(control.bytes)
      <4>1. PICK j \in 1 .. taken : i = Len(control.bytes) + j
        <5>1. i - Len(control.bytes) \in 1 .. taken
          BY <1>5, <1>7, <2>2, <3>2
        <5>2. i = Len(control.bytes) + (i - Len(control.bytes))
          BY <1>5
        <5> QED BY <5>1, <5>2
      <4>2. j \in 1 .. ThisFrame.len - Len(control.bytes)
        BY <1>2, <1>5, <1>7
      <4> QED BY <1>2, <1>8, <2>1, <4>1, <4>2
    <3> QED BY <3>1, <3>2
  <2> QED BY <2>1, <2>2, <2>3
<1> HIDE DEF bytes
<1>10. Consumed = HeadBytes(ThisFrame) + Len(control.bytes) /\ Held = 0
  BY <1>1, <1>2, HeadConsumed DEF Done
<1>11. CASE /\ Len(bytes) < size
            /\ parsed' = parsed + taken
            /\ control' = [control EXCEPT !.bytes = bytes]
            /\ UNCHANGED <<network, received, pc, into, toRead, header, data, status,
                           handled, effects>>
  <2>1. /\ control'.bytes = bytes /\ control'.type = control.type
        /\ control'.payloadSize = control.payloadSize
    BY <1>5, <1>11 DEF ControlFrames
  <2>2. /\ Alive' /\ current' = "control" /\ ThisFrame' = ThisFrame /\ data' = data
        /\ (StartsMessage' <=> StartsMessage) /\ ~ StartsMessage
    BY <1>1, <1>11 DEF Alive, header, ThisFrame, network, StartsMessage
  <2>3. Consumed' = Consumed + taken
    <3>1. Held' = Held
      BY <1>11 DEF Held, Filled
    <3>2. Consumed' = 1 + headerSize + maskSize + Len(bytes) + 0
      BY <1>10, <1>11, <2>1, <2>2, <3>1 DEF Consumed, header
    <3>3. Consumed = 1 + headerSize + maskSize + Len(control.bytes) + 0
      BY <1>1, <1>10 DEF Consumed
    <3>4. headerSize \in Nat /\ maskSize \in Nat
      BY <1>1 DEF TypeOK
    <3>5. Len(control.bytes) \in Nat /\ taken \in Nat
      BY <1>5, <1>7
    <3>6. 1 + headerSize + maskSize + (Len(control.bytes) + taken) + 0
            = (1 + headerSize + maskSize + Len(control.bytes) + 0) + taken
      <4>1. PICK k : k = Len(control.bytes)
        OBVIOUS
      <4>2. k \in Nat /\ taken \in Nat
        BY <3>5, <4>1
      <4>3. 1 + headerSize + maskSize + (k + taken) + 0
              = (1 + headerSize + maskSize + k + 0) + taken
        BY <3>4, <4>2
      <4> QED BY <4>1, <4>3, Zenon
    <3>7. Len(bytes) = Len(control.bytes) + taken
      BY <1>9
    <3> QED BY <3>2, <3>3, <3>6, <3>7, Zenon
  <2>4. OnTheWire'
    BY <1>1, <1>7, <1>11, <2>3, StaysInFrame DEF RInv
  <2>5. HeaderIsOfFrame'
    BY <1>1, <1>11, <2>1, <2>2
       DEF RInv, HeaderIsOfFrame, header, network, LengthKnown, PayloadSize
  <2>6. ControlIsOfFrame'
    BY <1>3, <1>9, <1>11, <2>1, <2>2 DEF ControlIsOfFrame
  <2>7. DataIsOfFrame' /\ BufferIsOfMessage' /\ AbstractMessage' = AbstractMessage
    BY <1>1, <1>3, <2>2 DEF DataIsOfFrame, BufferIsOfMessage, AbstractMessage
  <2> QED BY <1>1, <1>11, <2>2, <2>4, <2>5, <2>6, <2>7, Unseen DEF RInv, network
<1>12. ASSUME Len(bytes) >= size
       PROVE  /\ Len(bytes) = size /\ taken = size - Len(control.bytes)
              /\ payload = Payload(handled + 1, ThisFrame)
  <2>1. Len(bytes) = size /\ taken = size - Len(control.bytes)
    BY <1>5, <1>7, <1>9, <1>12
  <2>2. handled + 1 \in Nat
    BY <1>5
  <2> QED BY <1>2, <1>9, <2>1, <2>2, UnmaskedPayload
<1>13. ASSUME handled' = handled + 1 PROVE Whole!Accepted
  <2>1. ~ Whole!TooLarge(ThisFrame)
    BY <1>2, <1>3, <1>5, SizesAssumption, SameVocabulary
    DEF Whole!TooLarge, SizesAssumption
  <2>2. Whole!Acceptable(ThisFrame)
    BY <1>2, <1>3, <1>4, <2>1, SameVocabulary DEF Whole!Acceptable
  <2> QED BY <1>1, <1>2, <1>13, <2>2
      DEF Whole!Accepted, Whole!Pending, Whole!NextFrame, ThisFrame
<1>14. Whole!NextFrame = ThisFrame /\ Whole!NextPayload = Payload(handled + 1, ThisFrame)
  BY SameVocabulary DEF Whole!NextFrame, Whole!NextPayload, ThisFrame
<1> HIDE DEF payload
<1>15. CASE /\ Len(bytes) >= size /\ control.type = CLOSE
            /\ effects' = Append(effects, CloseReply(stream, payload))
            /\ CloseClient
            /\ handled' = handled + 1
            /\ UNCHANGED <<network, received, parsed, into, toRead, header, control,
                           data, status>>
  <2>1. ~ Alive' /\ UNCHANGED <<stream, status>>
    BY <1>15, CloseClientEnds DEF network
  <2>2. RInv' /\ Whole!Ends
    BY <1>15, <2>1, GoneKeepsPlace, Ending
  <2>3. effects' = Append(effects, Whole!CloseReply(stream, Whole!NextPayload))
    BY <1>12, <1>14, <1>15, SameCloseReply
  <2> QED BY <1>3, <1>13, <1>14, <1>15, <2>1, <2>2, <2>3, SameStatuses DEF Whole!PeerCloses
<1>16. CASE /\ Len(bytes) >= size /\ control.type = PING
            /\ effects' = Append(effects, PongFrame(payload))
            /\ CloseClient
            /\ handled' = handled + 1
            /\ UNCHANGED <<network, received, parsed, into, toRead, header, control,
                           data, status>>
  <2>1. ~ Alive' /\ UNCHANGED <<stream, status>>
    BY <1>16, CloseClientEnds DEF network
  <2>2. RInv' /\ Whole!Ends
    BY <1>16, <2>1, GoneKeepsPlace, Ending
  <2>3. effects' = Append(effects, Whole!PongFrame(Whole!NextPayload))
    BY <1>12, <1>14, <1>16, SameVocabulary
  <2> QED BY <1>3, <1>13, <1>14, <1>16, <2>1, <2>2, <2>3, SameStatuses DEF Whole!Ping
<1>17. CASE /\ Len(bytes) >= size /\ control.type # CLOSE
            /\ effects' = IF control.type = PING
                          THEN Append(effects, PongFrame(payload)) ELSE effects
            /\ control' = [type |-> INVALID, payloadSize |-> 0, bytes |-> <<>>]
            /\ ResetHeader
            /\ parsed' = parsed + taken
            /\ handled' = handled + 1
            /\ UNCHANGED <<network, received, pc, into, toRead, data, status>>
  <2>1. /\ Alive' /\ current' = "none" /\ data' = data /\ control'.type = INVALID
        /\ control'.bytes = <<>> /\ headerSize' = 0 /\ maskSize' = 0 /\ stream' = stream
        /\ status' = status
    BY <1>1, <1>17 DEF Alive, ResetHeader, network
  <2>2. OnTheWire'
    <3>1. Held' = 0
      BY <1>10, <2>1 DEF Held, Filled
    <3>2. Consumed' = 0
      BY <2>1, <3>1 DEF Consumed
    <3>3. Consumed + taken = FrameBytes(ThisFrame)
      <4>1. FrameBytes(ThisFrame) = HeadBytes(ThisFrame) + size /\ HeadBytes(ThisFrame) \in Nat
        BY <1>2, FrameFacts
      <4>2. taken = size - Len(control.bytes)
        BY <1>12, <1>17
      <4> QED BY <1>5, <1>10, <4>1, <4>2
    <3> QED BY <1>1, <1>2, <1>7, <1>17, <3>2, <3>3, GoesToNextFrame DEF RInv
  <2>3. HeaderIsOfFrame' /\ ControlIsOfFrame' /\ DataIsOfFrame'
    BY <2>1 DEF HeaderIsOfFrame, ControlIsOfFrame, DataIsOfFrame
  <2>4. ~ StartsMessage /\ ~ StartsMessage'
    BY <1>1, <2>1 DEF StartsMessage
  <2>5. BufferIsOfMessage'
    BY <1>3, <2>1, <2>4 DEF BufferIsOfMessage
  <2>6. AbstractMessage' = AbstractMessage /\ Alive' = Alive
    BY <1>1, <2>1, <2>4 DEF AbstractMessage, Alive
  <2>7. CASE control.type = PING
    <3>1. effects' = Append(effects, Whole!PongFrame(Whole!NextPayload))
      BY <1>12, <1>14, <1>17, <2>7, SameVocabulary
    <3>2. Whole!Ping
      BY <1>3, <1>13, <1>14, <1>17, <2>1, <2>6, <2>7, <3>1, SameStatuses DEF Whole!Ping
    <3> QED BY <2>2, <2>3, <2>5, <3>2 DEF RInv
  <2>8. CASE control.type = PONG
    <3>1. effects' = effects
      BY <1>17, <2>8 DEF PING, PONG
    <3>2. Whole!Pong
      BY <1>3, <1>13, <1>14, <1>17, <2>1, <2>6, <2>8, <3>1, SameStatuses DEF Whole!Pong
    <3> QED BY <2>2, <2>3, <2>5, <3>2 DEF RInv
  <2>9. control.type # INVALID
    BY <1>3 DEF IsControl, INVALID, THRESHOLD
  <2> QED BY <1>5, <1>17, <2>7, <2>8, <2>9
<1> QED BY <1>11, <1>15, <1>16, <1>17 DEF HandleControlFrame, taken, bytes, payload

-----------------------------------------------------------------------------
\* Data payloads.

\* Where a data frame stands on the wire before its bytes are taken.
LEMMA DataPlace ==
  ASSUME IInv, RInv, AtData
  PROVE  /\ Alive /\ current = "data" /\ maskSize = 4
         /\ handled < Len(stream) /\ handled + 1 \in Nat
         /\ ThisFrame \in FrameDescriptors /\ ThisFrame.masked
         /\ ~ IsControl(ThisFrame.op) /\ data.isFinal = ThisFrame.fin
         /\ ~ BadFrameType(ThisFrame, AbstractMessage.type, Extensions)
         /\ data.payloadSize = ThisFrame.len /\ ThisFrame.len <= MaxPayloadSize
         /\ data.type # INVALID /\ (StartsMessage <=> ThisFrame.op # CONTINUATION)
         /\ StartsMessage => data.offset = 0
         /\ Done = Held /\ Held = Filled - data.offset
         /\ data.buffer = "heap" => data.offset > 0 \/ RoomMade
         /\ data.buffer = "stack" => data.offset = 0 /\ Filled = 0
         /\ \A j \in 1 .. ThisFrame.len - Held :
              wire[parsed + j] = Byte(handled + 1, "payload", Held + j, TRUE)
         /\ \A i \in data.offset + 1 .. Filled :
              data.bytes[i] = Byte(handled + 1, "payload", i - data.offset, TRUE)
<1>1. Alive /\ current = "data" /\ maskSize = 4
  BY DataFacts DEF Alive
<1>2. /\ handled < Len(stream) /\ ThisFrame \in FrameDescriptors /\ ThisFrame.masked
      /\ data.payloadSize = ThisFrame.len /\ ThisFrame.len <= MaxPayloadSize
      /\ \A j \in 1 .. ThisFrame.len - Held :
           wire[parsed + j] = Byte(handled + 1, "payload", Held + j, TRUE)
      /\ Done = Held
  BY <1>1, PayloadBytes DEF PayloadSize, Done
<1>3. /\ ~ IsControl(ThisFrame.op) /\ data.isFinal = ThisFrame.fin
      /\ ThisFrame.op = CONTINUATION => data.type # INVALID
      /\ ThisFrame.op # CONTINUATION => data.type = ThisFrame.op
      /\ data.buffer # "stack" =>
           \A i \in data.offset + 1 .. Filled :
             data.bytes[i] = Byte(handled + 1, "payload", i - data.offset, TRUE)
  BY <1>1 DEF RInv, HeaderIsOfFrame, DataIsOfFrame
<1>4. handled + 1 \in Nat
  BY DEF IInv, TypeOK
<1>5. data.type # INVALID
  <2>1. ThisFrame.op \in 0 .. 15
    BY <1>2, FrameFacts
  <2> QED BY <1>3, <2>1 DEF INVALID
<1>6. StartsMessage <=> ThisFrame.op # CONTINUATION
  BY <1>1 DEF StartsMessage, ThisFrame
<1>7. /\ StartsMessage => data.offset = 0
      /\ data.buffer = "heap" => data.offset > 0 \/ RoomMade
  BY <1>1 DEF RInv, BufferIsOfMessage
<1>8. data.buffer = "stack" => data.offset = 0 /\ Filled = 0
  BY DataFacts, TakenNowFacts
<1>9. Held = Filled - data.offset
  BY <1>8 DEF Held
<1>10. \A i \in data.offset + 1 .. Filled :
         data.bytes[i] = Byte(handled + 1, "payload", i - data.offset, TRUE)
  <2>1. CASE data.buffer = "stack"
    BY <1>8, <2>1
  <2>2. CASE data.buffer # "stack"
    BY <1>3, <2>2
  <2> QED BY <2>1, <2>2
<1>11. ~ BadFrameType(ThisFrame, AbstractMessage.type, Extensions)
  BY <1>1, GoodFrameType
<1> QED BY <1>1, <1>2, <1>3, <1>4, <1>5, <1>6, <1>7, <1>8, <1>9, <1>10, <1>11

\* After the bytes that are taken now, the buffer holds the fragments and then the
\* first bytes of the frame under way.
LEMMA StoredBytes ==
  ASSUME IInv, RInv, AtData, Fits
  PROVE  /\ Stored.bytes \in Seq(Bytes) /\ Len(Stored.bytes) = Filled + TakenNow
         /\ \A i \in 1 .. Filled : Stored.bytes[i] = data.bytes[i]
         /\ \A i \in data.offset + 1 .. Len(Stored.bytes) :
              Stored.bytes[i] = Byte(handled + 1, "payload", i - data.offset, TRUE)
<1>1. PICK u : u = data.bytes
  OBVIOUS
<1>2. PICK v : v = Taken(TakenNow)
  OBVIOUS
<1>3. PICK w : w = u \o v
  OBVIOUS
<1>4. /\ TakenNow \in Nat /\ Filled \in Nat /\ data.offset \in Nat /\ data.offset <= Filled
      /\ Filled + TakenNow <= data.offset + data.payloadSize
  BY DataFacts, TakenNowFacts
<1>5. /\ u \in Seq(Bytes) /\ v \in Seq(Bytes) /\ Len(u) = Filled /\ Len(v) = TakenNow
      /\ \A j \in 1 .. TakenNow : v[j] = wire[parsed + j]
  BY <1>1, <1>2, DataFacts, TakenNowFacts, TakenBytes DEF Filled
<1>6. u \in Seq(Bytes) /\ v \in Seq(Bytes)
  BY <1>5
<1>7. /\ w \in Seq(Bytes) /\ Len(w) = Len(u) + Len(v)
      /\ \A i \in 1 .. Len(u) : w[i] = u[i]
      /\ \A j \in 1 .. Len(v) : w[Len(u) + j] = v[j]
  BY <1>3, <1>6, ConcatParts
<1>8. Stored.bytes = w
  BY <1>1, <1>2, <1>3, DataFacts DEF Stored, DataFrames
<1>9. Len(w) = Filled + TakenNow /\ \A i \in 1 .. Filled : w[i] = data.bytes[i]
  BY <1>1, <1>5, <1>7, Zenon
<1>10. \A j \in 1 .. TakenNow : w[Filled + j] = wire[parsed + j]
  BY <1>5, <1>7, Zenon
<1>11. ASSUME NEW i \in data.offset + 1 .. Filled + TakenNow
       PROVE  w[i] = Byte(handled + 1, "payload", i - data.offset, TRUE)
  <2>1. CASE i <= Filled
    <3>1. i \in 1 .. Filled /\ i \in data.offset + 1 .. Filled
      BY <1>4, <2>1
    <3>2. data.bytes[i] = Byte(handled + 1, "payload", i - data.offset, TRUE)
      BY <3>1, DataPlace
    <3> QED BY <1>9, <3>1, <3>2
  <2>2. CASE i > Filled
    <3>1. PICK j \in 1 .. TakenNow : i = Filled + j
      <4>1. i - Filled \in 1 .. TakenNow /\ i = Filled + (i - Filled)
        BY <1>4, <2>2
      <4> QED BY <4>1
    <3>2. Held = Filled - data.offset /\ data.payloadSize = ThisFrame.len
      BY DataPlace
    <3>3. j \in 1 .. ThisFrame.len - Held
      <4>1. data.payloadSize \in Nat
        BY DataFacts
      <4> QED BY <1>4, <3>1, <3>2, <4>1
    <3>6. i - data.offset = Held + j
      BY <1>4, <3>1, <3>2
    <3>4. wire[parsed + j] = Byte(handled + 1, "payload", Held + j, TRUE)
      BY <3>3, DataPlace
    <3>5. w[i] = wire[parsed + j]
      BY <1>10, <3>1
    <3> QED BY <3>4, <3>5, <3>6, Zenon
  <2>3. i <= Filled \/ i > Filled
    BY <1>4
  <2> QED BY <2>1, <2>2, <2>3, Zenon
<1> QED BY <1>7, <1>8, <1>9, <1>11

\* A complete frame: the message is its fragments and this frame's payload, unmasked.
LEMMA ContentsFacts ==
  ASSUME IInv, RInv, AtData, Fits, FrameComplete
  PROVE  /\ Contents = SubSeq(data.bytes, 1, data.offset) \o Payload(handled + 1, ThisFrame)
         /\ Contents \in Seq(Bytes)
         /\ Len(Contents) = data.offset + data.payloadSize
         /\ Filled + TakenNow = data.offset + data.payloadSize
<1>1. /\ Filled \in Nat /\ TakenNow \in Nat /\ data.offset \in Nat /\ data.payloadSize \in Nat
      /\ data.offset <= Filled /\ Filled + TakenNow <= data.offset + data.payloadSize
      /\ data.bytes \in Seq(Bytes) /\ Len(data.bytes) = Filled
  BY DataFacts, TakenNowFacts DEF Filled
<1>2. PICK all : all = Stored.bytes
  OBVIOUS
<1>3. /\ all \in Seq(Bytes) /\ Len(all) = Filled + TakenNow
      /\ \A i \in 1 .. Filled : all[i] = data.bytes[i]
      /\ \A i \in data.offset + 1 .. Len(all) :
           all[i] = Byte(handled + 1, "payload", i - data.offset, TRUE)
  BY <1>2, StoredBytes
<1>4. Filled + TakenNow = data.offset + data.payloadSize
  BY <1>1, <1>2, <1>3 DEF FrameComplete
<1>5. PICK n \in Nat, k \in Nat : n = data.offset /\ k = data.payloadSize
  BY <1>1
<1>6. Contents \in Seq(Bytes) /\ Len(Contents) = n + k
  BY <1>4, <1>5, StoredFacts
<1>8. Contents = Unmask(all, n, k)
  BY <1>2, <1>5 DEF Contents
<1>7. Len(all) = n + k
  BY <1>3, <1>4, <1>5
<1>9. ASSUME NEW i \in 1 .. n PROVE Contents[i] = data.bytes[i]
  <2>1. i <= n /\ i \in 1 .. Len(all) /\ i \in 1 .. Filled
    BY <1>1, <1>5, <1>7
  <2>2. Contents[i] = all[i]
    BY <1>3, <1>8, <2>1, UntouchedByte, Zenon
  <2> QED BY <1>3, <2>1, <2>2
<1>10. ASSUME NEW j \in 1 .. k
      PROVE  Contents[n + j] = Byte(handled + 1, "payload", j, FALSE)
  <2>1. PICK i : i = n + j
    OBVIOUS
  <2>2. /\ i \in 1 .. Len(all) /\ i > n /\ i <= n + k /\ i - n = j
        /\ i \in data.offset + 1 .. Len(all) /\ i - data.offset = j
    <3>1. i \in n + 1 .. n + k /\ i - n = j
      BY <2>1
    <3>2. i \in 1 .. n + k /\ i > n /\ i <= n + k
      BY <3>1
    <3> QED BY <1>5, <1>7, <3>1, <3>2, Zenon
  <2>3. all[i] = Byte(handled + 1, "payload", i - n, TRUE)
    BY <1>3, <2>2, Zenon
  <2>4. Contents[i] = Byte(handled + 1, "payload", i - n, FALSE)
    <3>1. all \in Seq(Bytes) /\ i \in 1 .. Len(all) /\ i > n /\ i <= n + k
      BY <1>3, <2>2
    <3>2. Unmask(all, n, k)[i] = Byte(handled + 1, "payload", i - n, FALSE)
      BY <2>3, <3>1, UnmaskedByte
    <3> QED BY <1>8, <3>2
  <2> QED BY <2>1, <2>2, <2>4, Zenon
<1>11. PICK u : u = SubSeq(data.bytes, 1, data.offset)
  OBVIOUS
<1>12. PICK v : v = Payload(handled + 1, ThisFrame)
  OBVIOUS
<1>13. PICK w : w = u \o v
  OBVIOUS
<1>14. u \in Seq(Bytes) /\ Len(u) = n /\ \A i \in 1 .. n : u[i] = data.bytes[i]
  BY <1>1, <1>5, <1>11, PrefixFacts, Zenon
<1>15. v \in Seq(Bytes) /\ Len(v) = k
       /\ \A j \in 1 .. k : v[j] = Byte(handled + 1, "payload", j, FALSE)
  <2>1. handled + 1 \in Nat /\ ThisFrame \in FrameDescriptors /\ k = ThisFrame.len
    BY <1>5, DataPlace
  <2> QED BY <1>12, <2>1, PayloadFacts, Zenon
<1>16. u \in Seq(Bytes) /\ v \in Seq(Bytes)
  BY <1>14, <1>15
<1>17. /\ w \in Seq(Bytes) /\ Len(w) = Len(u) + Len(v)
       /\ \A i \in 1 .. Len(u) : w[i] = u[i]
       /\ \A j \in 1 .. Len(v) : w[Len(u) + j] = v[j]
  BY <1>13, <1>16, ConcatParts
<1>18. /\ w \in Seq(Bytes) /\ Len(w) = n + k
       /\ \A i \in 1 .. n : w[i] = data.bytes[i]
       /\ \A j \in 1 .. k : w[n + j] = Byte(handled + 1, "payload", j, FALSE)
  BY <1>14, <1>15, <1>17, Zenon
<1>19. Contents = w
  <2>1. PICK c : c = Contents
    OBVIOUS
  <2>2. ASSUME NEW i \in 1 .. n + k PROVE c[i] = w[i]
    <3>1. CASE i <= n
      <4>1. i \in 1 .. n
        BY <3>1
      <4> QED BY <1>9, <1>18, <2>1, <4>1
    <3>2. CASE i > n
      <4>1. PICK j \in 1 .. k : i = n + j
        <5>1. i - n \in 1 .. k /\ i = n + (i - n)
          BY <3>2
        <5> QED BY <5>1
      <4> QED BY <1>10, <1>18, <2>1, <4>1
    <3> QED BY <3>1, <3>2
  <2>3. c \in Seq(Bytes) /\ Len(c) = n + k
    BY <1>6, <2>1
  <2>4. Len(c) = Len(w) /\ \A i \in 1 .. Len(c) : c[i] = w[i]
    BY <1>18, <2>2, <2>3, Zenon
  <2>5. c = w
    BY <1>18, <2>3, <2>4, SameElements, Zenon
  <2> QED BY <2>1, <2>5
<1> QED BY <1>4, <1>5, <1>6, <1>11, <1>12, <1>13, <1>19, Zenon

\* With the bytes taken now, a complete frame is consumed to its end.
LEMMA FrameConsumed ==
  ASSUME IInv, RInv, AtData, Fits, FrameComplete
  PROVE  Consumed + TakenNow = FrameBytes(ThisFrame)
<1>1. /\ Consumed = HeadBytes(ThisFrame) + Held /\ Held = Filled - data.offset
      /\ data.payloadSize = ThisFrame.len /\ ThisFrame \in FrameDescriptors
  <2>1. Alive /\ maskSize = 4
    BY DataPlace
  <2> QED BY <2>1, DataPlace, HeadConsumed
<1>2. /\ FrameBytes(ThisFrame) = HeadBytes(ThisFrame) + data.payloadSize
      /\ HeadBytes(ThisFrame) \in Nat
  BY <1>1, FrameFacts
<1>3. /\ Filled + TakenNow = data.offset + data.payloadSize
      /\ Filled \in Nat /\ TakenNow \in Nat /\ data.offset \in Nat /\ data.payloadSize \in Nat
  BY ContentsFacts, DataFacts, TakenNowFacts
<1>4. PICK h \in Nat, l \in Nat, t \in Nat, o \in Nat, p \in Nat :
        /\ h = HeadBytes(ThisFrame) /\ l = Filled /\ t = TakenNow /\ o = data.offset
        /\ p = data.payloadSize
  BY <1>2, <1>3
<1>5. Consumed = h + (l - o) /\ FrameBytes(ThisFrame) = h + p /\ l + t = o + p
  BY <1>1, <1>2, <1>3, <1>4, Zenon
<1>6. h + (l - o) + t = h + p
  BY <1>5
<1> QED BY <1>4, <1>5, <1>6, Zenon

\* The fragments before the frame under way.
LEMMA PartsFacts ==
  ASSUME IInv, RInv, AtData
  PROVE  /\ AbstractMessage.parts = SubSeq(data.bytes, 1, data.offset)
         /\ Len(AbstractMessage.parts) = data.offset
         /\ StartsMessage => AbstractMessage.type = INVALID
         /\ ~ StartsMessage => AbstractMessage.type = data.type /\ AbstractMessage.rsv1 = data.rsv1
<1>1. /\ data.offset \in Nat /\ data.bytes \in Seq(Bytes) /\ data.offset <= Len(data.bytes)
  BY DataFacts DEF Filled
<1>2. PICK p : p = SubSeq(data.bytes, 1, data.offset)
  OBVIOUS
<1>3. p \in Seq(Bytes) /\ Len(p) = data.offset
  BY <1>1, <1>2, PrefixFacts, Zenon
<1>4. Alive /\ data.type # INVALID /\ (StartsMessage => data.offset = 0)
  BY DataPlace
<1>5. CASE StartsMessage
  <2>1. AbstractMessage = [type |-> INVALID, rsv1 |-> FALSE, parts |-> <<>>]
    BY <1>5 DEF AbstractMessage
  <2>2. p = <<>>
    BY <1>3, <1>4, <1>5
  <2>3. AbstractMessage.type = INVALID /\ AbstractMessage.parts = <<>>
    BY <2>1
  <2> QED BY <1>2, <1>3, <1>5, <2>2, <2>3
<1>6. CASE ~ StartsMessage
  <2>1. AbstractMessage = [type |-> data.type, rsv1 |-> data.rsv1, parts |-> p]
    BY <1>2, <1>4, <1>6 DEF AbstractMessage
  <2>2. /\ AbstractMessage.type = data.type /\ AbstractMessage.parts = p
        /\ AbstractMessage.rsv1 = data.rsv1
    BY <2>1
  <2> QED BY <1>2, <1>3, <1>6, <2>2
<1> QED BY <1>5, <1>6

\* A complete frame extends the message as FrameStream says.
LEMMA ExtendedFacts ==
  ASSUME IInv, RInv, AtData, Fits, FrameComplete
  PROVE  Whole!Extended = [type |-> data.type, rsv1 |-> data.rsv1, parts |-> Contents]
<1>1. Whole!NextFrame = ThisFrame /\ Whole!NextPayload = Payload(handled + 1, ThisFrame)
  BY SameVocabulary DEF Whole!NextFrame, Whole!NextPayload, ThisFrame
<1>2. Whole!Extended =
        [type  |-> IF AbstractMessage.type = INVALID THEN ThisFrame.op
                   ELSE AbstractMessage.type,
         rsv1  |-> IF AbstractMessage.type = INVALID THEN 1 \in ThisFrame.rsv
                   ELSE AbstractMessage.rsv1,
         parts |-> AbstractMessage.parts \o Payload(handled + 1, ThisFrame)]
  BY <1>1, SameStatuses DEF Whole!Extended
<1>3. AbstractMessage.parts \o Payload(handled + 1, ThisFrame) = Contents
  BY ContentsFacts, PartsFacts, Zenon
<1>4. /\ data.type # INVALID /\ (StartsMessage <=> ThisFrame.op # CONTINUATION)
      /\ ThisFrame.op # CONTINUATION =>
           data.type = ThisFrame.op /\ (data.rsv1 <=> 1 \in ThisFrame.rsv)
      /\ data.rsv1 \in BOOLEAN
  <2>1. Alive /\ current = "data"
    BY DataPlace
  <2> QED BY <2>1, DataPlace, DataFacts DEF RInv, DataIsOfFrame, DataFrames
<1>5. (IF AbstractMessage.type = INVALID THEN ThisFrame.op ELSE AbstractMessage.type)
        = data.type
  BY <1>4, PartsFacts
<1>6. (IF AbstractMessage.type = INVALID THEN 1 \in ThisFrame.rsv ELSE AbstractMessage.rsv1)
        = data.rsv1
  <2>1. CASE StartsMessage
    <3>1. AbstractMessage.type = INVALID
      BY <2>1, PartsFacts
    <3>2. (1 \in ThisFrame.rsv) = data.rsv1
      BY <1>4, <2>1
    <3> QED BY <3>1, <3>2, Zenon
  <2>2. CASE ~ StartsMessage
    <3>1. AbstractMessage.type # INVALID /\ AbstractMessage.rsv1 = data.rsv1
      BY <1>4, <2>2, PartsFacts
    <3> QED BY <3>1, Zenon
  <2> QED BY <2>1, <2>2
<1> QED BY <1>2, <1>3, <1>5, <1>6, Zenon

\* A complete frame is one that FrameStream accepts.
LEMMA AcceptedFacts ==
  ASSUME IInv, RInv, AtData, Fits, FrameComplete, handled' = handled + 1
  PROVE  Whole!Accepted /\ Whole!NextFrame = ThisFrame
<1>1. /\ Alive /\ handled < Len(stream) /\ ThisFrame.masked /\ ~ IsControl(ThisFrame.op)
      /\ ~ BadFrameType(ThisFrame, AbstractMessage.type, Extensions)
      /\ data.payloadSize = ThisFrame.len /\ ThisFrame.len <= MaxPayloadSize
  BY DataPlace
<1>2. Len(AbstractMessage.parts) = data.offset
  BY PartsFacts
<1>3. data.offset + data.payloadSize <= MaxPayloadSize
  <2>1. CASE InPlace
    BY <1>1, <2>1, DataFacts, TakenNowFacts
  <2>2. CASE ~ InPlace
    BY <2>2, DataFacts, RoomFacts, SizesAssumption DEF SizesAssumption
  <2> QED BY <2>1, <2>2
<1>4. ~ Whole!TooLarge(ThisFrame)
  <2>1. data.payloadSize \in Nat /\ data.offset \in Nat /\ MaxPayloadSize \in Nat
    BY DataFacts, SizesAssumption DEF SizesAssumption
  <2>2. Whole!TooLarge(ThisFrame) <=>
          \/ ThisFrame.len > MaxPayloadSize
          \/ data.offset + data.payloadSize > MaxPayloadSize
    BY <1>1, <1>2, SameVocabulary DEF Whole!TooLarge
  <2> QED BY <1>1, <1>3, <2>1, <2>2
<1>5. Whole!Acceptable(ThisFrame)
  BY <1>1, <1>4, SameVocabulary DEF Whole!Acceptable
<1> QED BY <1>1, <1>5 DEF Whole!Accepted, Whole!Pending, Whole!NextFrame, ThisFrame

\* Room for a message is refused when it gets too large, or when there is a buffer
\* and realloc fails.
LEMMA RefuseGrowthPlace == IInv /\ RInv /\ RefuseGrowth => RInv' /\ Whole!Refuse
<1> SUFFICES ASSUME IInv, RInv, RefuseGrowth PROVE RInv' /\ Whole!Refuse
  OBVIOUS
<1>1. /\ AtData /\ NeedsGrowth /\ Reject(TOO_LARGE)
      /\ data.offset + data.payloadSize > MaxPayloadSize \/ ReallocMayFail
  BY DEF RefuseGrowth, GrownSize
<1>2. /\ Alive /\ handled < Len(stream) /\ ThisFrame.masked /\ ~ IsControl(ThisFrame.op)
      /\ ~ BadFrameType(ThisFrame, AbstractMessage.type, Extensions)
      /\ data.payloadSize = ThisFrame.len
      /\ data.buffer = "heap" => data.offset > 0 \/ RoomMade
  BY <1>1, DataPlace
<1>3. Len(AbstractMessage.parts) = data.offset
  BY <1>1, PartsFacts
<1>4. Whole!TooLarge(ThisFrame) \/ (ReallocMayFail /\ AbstractMessage.parts # <<>>)
  <2>1. CASE data.offset + data.payloadSize > MaxPayloadSize
    BY <1>2, <1>3, <2>1, SameVocabulary DEF Whole!TooLarge
  <2>2. CASE ReallocMayFail
    <3>1. data.buffer = "heap" /\ data.bufferSize - data.offset < data.payloadSize
      BY <1>1, DataFacts DEF NeedsGrowth, Copies, DataFrames
    <3>2. ~ RoomMade
      BY <1>1, <3>1, DataFacts DEF RoomMade
    <3>3. data.offset > 0
      BY <1>2, <3>1, <3>2
    <3>4. Len(<<>>) = 0
      OBVIOUS
    <3> QED BY <1>3, <2>2, <3>3, <3>4
  <2> QED BY <1>1, <2>1, <2>2
<1>5. TOO_LARGE \in Whole!Refusals(ThisFrame)
  BY <1>2, <1>4, RefusalsOf
<1> QED BY <1>1, <1>2, <1>5, RejectPlace

\* What is stored of an incomplete frame is not seen.
LEMMA HandlePartialDataPlace ==
  IInv /\ RInv /\ HandlePartialData => RInv' /\ UNCHANGED Whole!vars
<1> SUFFICES ASSUME IInv, RInv, HandlePartialData PROVE RInv' /\ UNCHANGED Whole!vars
  OBVIOUS
<1>1. /\ AtData /\ Fits /\ ~ FrameComplete /\ data' = Stored
      /\ parsed' = parsed + TakenNow
      /\ UNCHANGED <<network, received, pc, into, toRead, header, control, status,
                     handled, effects>>
  BY DEF HandlePartialData
<1>2. IInv'
  BY HandlePartialDataStep
<1>3. /\ Alive /\ current = "data" /\ maskSize = 4 /\ handled < Len(stream)
      /\ Held = Filled - data.offset /\ data.type # INVALID
      /\ StartsMessage => data.offset = 0
  BY <1>1, DataPlace
<1>4. /\ Alive' /\ current' = "data" /\ maskSize' = 4 /\ ThisFrame' = ThisFrame
      /\ (StartsMessage' <=> StartsMessage)
  BY <1>1, <1>3 DEF Alive, header, network, ThisFrame, StartsMessage
<1>5. /\ data'.type = data.type /\ data'.isFinal = data.isFinal /\ data'.rsv1 = data.rsv1
      /\ data'.payloadSize = data.payloadSize /\ data'.offset = data.offset
      /\ data'.bytes = Stored.bytes /\ data'.buffer = Stored.buffer
  BY <1>1, DataFacts DEF Stored, DataFrames
<1>6. /\ Filled \in Nat /\ TakenNow \in Nat /\ data.offset \in Nat /\ data.payloadSize \in Nat
      /\ data.offset <= Filled
      /\ TakenNow > 0 \/ data.payloadSize = 0
      /\ data.bytes \in Seq(Bytes) /\ Len(data.bytes) = Filled
      /\ InPlace => TakenNow = data.payloadSize /\ Filled = 0 /\ data.offset = 0
  BY <1>1, DataFacts, TakenNowFacts DEF Filled
<1>7. /\ Stored.bytes \in Seq(Bytes) /\ Len(Stored.bytes) = Filled + TakenNow
      /\ \A i \in 1 .. Filled : Stored.bytes[i] = data.bytes[i]
      /\ \A i \in data.offset + 1 .. Len(Stored.bytes) :
           Stored.bytes[i] = Byte(handled + 1, "payload", i - data.offset, TRUE)
  BY <1>1, StoredBytes
<1>8. Filled + TakenNow - data.offset < data.payloadSize
  BY <1>1, <1>6, <1>7 DEF FrameComplete
<1>9. ~ InPlace /\ TakenNow > 0
  BY <1>6, <1>8
<1>10. data'.buffer \in {"null", "heap"}
  BY <1>1, <1>5, <1>9, RoomFacts
<1>11. OnTheWire'
  <2>1. PICK n \in Nat, f \in Nat, t \in Nat, o \in Nat :
          n = f + t /\ f = Filled /\ t = TakenNow /\ o = data.offset
    <3>1. PICK f \in Nat, t \in Nat : f = Filled /\ t = TakenNow
      BY <1>6
    <3>2. f + t \in Nat
      OBVIOUS
    <3> QED BY <1>6, <3>1, <3>2, Zenon
  <2>2. Filled' = n
    BY <1>5, <1>7, <2>1 DEF Filled
  <2>3. Held' = Held + TakenNow /\ Held \in Nat
    <3>1. data'.offset = o
      BY <1>5, <2>1
    <3>2. Held' = n - o
      BY <1>10, <2>2, <3>1 DEF Held
    <3>3. Held = f - o
      BY <1>3, <2>1
    <3>4. n - o = (f - o) + t /\ f - o \in Nat
      BY <1>6, <2>1
    <3> QED BY <2>1, <3>2, <3>3, <3>4
  <2>4. /\ Consumed = 1 + headerSize + maskSize + Len(control.bytes) + Held
        /\ Consumed' = 1 + headerSize + maskSize + Len(control.bytes) + Held'
    BY <1>1, <1>3, <1>4 DEF Consumed, header
  <2>5. Consumed' = Consumed + TakenNow
    <3>1. PICK h \in Nat, m \in Nat, k \in Nat :
            h = headerSize /\ m = maskSize /\ k = Len(control.bytes)
      <4>1. headerSize \in Nat /\ maskSize \in Nat /\ Len(control.bytes) \in Nat
        BY ConsumedFacts
      <4> QED BY <4>1, Zenon
    <3>2. PICK a \in Nat, p \in Nat : a = Held /\ p = TakenNow
      BY <1>6, <2>3
    <3>3. 1 + h + m + k + (a + p) = (1 + h + m + k + a) + p
      OBVIOUS
    <3> QED BY <2>3, <2>4, <3>1, <3>2, <3>3, Zenon
  <2> QED BY <1>1, <1>3, <1>6, <2>5, StaysInFrame DEF RInv
<1>12. HeaderIsOfFrame' /\ ControlIsOfFrame'
  <2>1. PayloadSize' = PayloadSize /\ (LengthKnown' <=> LengthKnown)
    BY <1>1, <1>3, <1>4, <1>5 DEF PayloadSize, LengthKnown, header
  <2> QED BY <1>1, <1>3, <1>4, <2>1
      DEF RInv, HeaderIsOfFrame, ControlIsOfFrame, header, network
<1>13. DataIsOfFrame'
  <2>1. /\ data.isFinal = ThisFrame.fin
        /\ IF ThisFrame.op = CONTINUATION THEN data.type # INVALID
           ELSE data.type = ThisFrame.op /\ (data.rsv1 <=> 1 \in ThisFrame.rsv)
    BY <1>3 DEF RInv, DataIsOfFrame
  <2>2. \A i \in data'.offset + 1 .. Filled' :
          data'.bytes[i] = Byte(handled' + 1, "payload", i - data'.offset, TRUE)
    BY <1>1, <1>5, <1>7 DEF Filled
  <2> QED BY <1>4, <1>5, <2>1, <2>2 DEF DataIsOfFrame
<1>14. BufferIsOfMessage'
  <2>1. data'.buffer = "heap" => NoRoomYet' \/ RoomMade'
    BY <1>2 DEF IInv, BufferInOrder
  <2>2. ~ NoRoomYet'
    <3>1. Filled' = Filled + TakenNow
      BY <1>5, <1>7 DEF Filled
    <3> QED BY <1>5, <1>6, <1>9, <3>1 DEF NoRoomYet
  <2> QED BY <1>3, <1>4, <1>5, <2>1, <2>2 DEF BufferIsOfMessage
<1>15. AbstractMessage' = AbstractMessage
  <2>1. SubSeq(data'.bytes, 1, data'.offset) = SubSeq(data.bytes, 1, data.offset)
    <3>1. PICK t : t = Stored.bytes
      OBVIOUS
    <3>2. /\ t \in Seq(Bytes) /\ data.offset <= Len(t) /\ data.offset <= Len(data.bytes)
          /\ \A i \in 1 .. data.offset : t[i] = data.bytes[i]
      <4>1. PICK n \in Nat, o \in Nat, k \in Nat :
              n = Filled /\ o = data.offset /\ k = TakenNow
        BY <1>6
      <4>2. o <= n /\ o <= n + k /\ \A i \in 1 .. o : i \in 1 .. n
        BY <1>6, <4>1
      <4>3. /\ t \in Seq(Bytes) /\ Len(t) = n + k /\ Len(data.bytes) = n
            /\ \A i \in 1 .. n : t[i] = data.bytes[i]
        BY <1>6, <1>7, <3>1, <4>1, Zenon
      <4> QED BY <4>1, <4>2, <4>3, Zenon
    <3>3. SubSeq(t, 1, data.offset) = SubSeq(data.bytes, 1, data.offset)
      BY <1>6, <3>2, SamePrefix, Zenon
    <3> QED BY <1>5, <3>1, <3>3, Zenon
  <2> QED BY <1>3, <1>4, <1>5, <2>1 DEF AbstractMessage
<1> QED BY <1>1, <1>3, <1>4, <1>11, <1>12, <1>13, <1>14, <1>15, Unseen DEF RInv, network

\* A fragment ends its frame and extends the message.
LEMMA HandleFragmentPlace == IInv /\ RInv /\ HandleFragment => RInv' /\ Whole!Fragment
<1> SUFFICES ASSUME IInv, RInv, HandleFragment PROVE RInv' /\ Whole!Fragment
  OBVIOUS
<1>1. /\ AtData /\ Fits /\ FrameComplete /\ ~ data.isFinal
      /\ data' = [Stored EXCEPT !.bytes = Contents, !.offset = Len(Contents),
                                !.payloadSize = 0]
      /\ parsed' = parsed + TakenNow /\ ResetHeader /\ handled' = handled + 1
      /\ UNCHANGED <<network, received, pc, into, toRead, control, status, effects>>
  BY DEF HandleFragment
<1>2. IInv'
  BY HandleFragmentStep
<1>3. /\ Alive /\ current = "data" /\ ~ IsControl(ThisFrame.op) /\ ~ ThisFrame.fin
      /\ data.type # INVALID /\ handled < Len(stream)
      /\ data.buffer = "heap" => data.offset > 0 \/ RoomMade
  BY <1>1, DataPlace
<1>4. Alive' /\ current' = "none" /\ headerSize' = 0 /\ maskSize' = 0 /\ ~ StartsMessage'
  BY <1>1, <1>3 DEF Alive, ResetHeader, StartsMessage
<1>5. /\ data'.type = data.type /\ data'.rsv1 = data.rsv1 /\ data'.bytes = Contents
      /\ data'.offset = Len(Contents) /\ data'.buffer = Stored.buffer
      /\ Stored.buffer = "heap" => data.buffer = "heap" \/ data.payloadSize > 0
  BY <1>1, DataFacts DEF Stored, DataFrames, Copies
<1>6. /\ Contents \in Seq(Bytes) /\ Len(Contents) = data.offset + data.payloadSize
      /\ Filled + TakenNow = data.offset + data.payloadSize
  BY <1>1, ContentsFacts
<1>7. /\ data.offset \in Nat /\ data.payloadSize \in Nat /\ TakenNow \in Nat /\ Filled \in Nat
      /\ control.type = INVALID /\ control.bytes = <<>>
  <2>1. control.type = INVALID
    BY <1>3 DEF RInv, ControlIsOfFrame
  <2>2. control.bytes = <<>>
    BY <1>3 DEF IInv, ControlFits
  <2> QED BY <1>1, <2>1, <2>2, DataFacts, TakenNowFacts
<1>8. ~ InPlace
  BY <1>1 DEF InPlace
<1>9. OnTheWire'
  <2>1. Stored.buffer # "stack"
    BY <1>1, <1>8, RoomFacts
  <2>2. Held' = 0
    <3>1. Held' = Len(Contents) - Len(Contents)
      BY <1>5, <2>1 DEF Held, Filled
    <3>2. Len(Contents) \in Nat
      BY <1>6, <1>7
    <3> QED BY <3>1, <3>2
  <2>3. Consumed' = 0
    <3>1. Len(control'.bytes) = 0
      BY <1>1, <1>7
    <3> QED BY <1>4, <2>2, <3>1 DEF Consumed
  <2> QED BY <1>1, <1>3, <1>7, <2>3, FrameConsumed, GoesToNextFrame DEF RInv
<1>10. HeaderIsOfFrame' /\ ControlIsOfFrame' /\ DataIsOfFrame'
  BY <1>1, <1>4, <1>7 DEF HeaderIsOfFrame, ControlIsOfFrame, DataIsOfFrame
<1>11. BufferIsOfMessage'
  <2>1. Stored.buffer = "heap" => data.offset + data.payloadSize > 0
    <3>1. CASE data.buffer = "heap"
      BY <1>3, <1>7, <3>1 DEF RoomMade
    <3>2. CASE data.payloadSize > 0
      BY <1>7, <3>2
    <3> QED BY <1>5, <3>1, <3>2
  <2> QED BY <1>3, <1>4, <1>5, <1>6, <2>1 DEF BufferIsOfMessage
<1>12. AbstractMessage' = Whole!Extended
  <2>1. SubSeq(data'.bytes, 1, data'.offset) = Contents
    BY <1>5, <1>6, WholePrefix, Zenon
  <2>2. AbstractMessage' = [type |-> data.type, rsv1 |-> data.rsv1, parts |-> Contents]
    BY <1>3, <1>4, <1>5, <2>1 DEF AbstractMessage
  <2> QED BY <1>1, <2>2, ExtendedFacts
<1>13. Whole!Fragment
  BY <1>1, <1>3, <1>4, <1>12, AcceptedFacts, SameVocabulary DEF Whole!Fragment, network, Alive
<1> QED BY <1>9, <1>10, <1>11, <1>13 DEF RInv

\* A message refused is one close frame and the end of the connection.
LEMMA RefuseMessagePlace ==
  IInv /\ RInv /\ (RefuseText \/ RefuseCompressed) => RInv' /\ Whole!RefuseMessage
<1> SUFFICES ASSUME IInv, RInv, RefuseText \/ RefuseCompressed
             PROVE  RInv' /\ Whole!RefuseMessage
  OBVIOUS
<1>1. PICK code : RefuseMessage(code)
  BY DEF RefuseText, RefuseCompressed
<1>2. /\ AtData /\ Fits /\ FrameComplete /\ data.isFinal
      /\ handled' = handled + 1 /\ ~ Alive' /\ UNCHANGED <<network, status>>
  BY <1>1 DEF RefuseText, RefuseCompressed, AtMessage, RefuseMessage, Alive
<1>3. RInv' /\ Whole!Ends
  BY <1>2, GoneKeepsPlace, Ending
<1>4. Whole!EndOfMessage
  BY <1>2, AcceptedFacts, DataPlace, SameVocabulary DEF Whole!EndOfMessage
<1>5. /\ Whole!Extended.type = data.type /\ Whole!Extended.rsv1 = data.rsv1
      /\ Whole!Extended.parts = Contents
  BY <1>2, ExtendedFacts
<1>6. \/ /\ ~ Extensions /\ data.type = TEXT /\ ~ ValidUtf8(stream, Contents)
         /\ effects' = Append(effects, CloseFrame(INVALID_ENCODING, <<>>))
      \/ /\ Compressed /\ "failed" \in InflateResults
         /\ effects' = Append(effects, CloseFrame(INVALID_EXTENSION, <<>>))
  BY DEF RefuseText, RefuseCompressed, RefuseMessage
<1>7. Compressed => Whole!Compressed
  BY <1>5 DEF Compressed, Whole!Compressed
<1> QED BY <1>2, <1>3, <1>4, <1>5, <1>6, <1>7, SameVocabulary, SameStatuses
        DEF Whole!RefuseMessage, network

\* A message is delivered once, whole and in order.
LEMMA DeliverPlace ==
  ASSUME IInv, RInv, AtMessage, NEW inflated \in BOOLEAN, Deliver(inflated),
         Extensions \/ data.type # TEXT \/ ValidUtf8(stream, Contents)
  PROVE  RInv' /\ Whole!EndOfMessage /\ Whole!Deliver(inflated)
<1> DEFINE buffer == IF Extensions /\ InPlace /\ ~ inflated THEN "stack" ELSE "heap"
<1>1. /\ AtData /\ Fits /\ FrameComplete /\ data.isFinal
      /\ effects' = Append(effects, Message(data.type, Contents, inflated))
      /\ handled' = handled + 1 /\ UNCHANGED <<network, received, into, toRead, control>>
      /\ \E asked \in BOOLEAN : status' = IF asked THEN "closing" ELSE status
  BY DEF AtMessage, Deliver
<1>2. \/ status' = "closing" /\ ~ Alive'
      \/ /\ status' # "closing" /\ data' = AfterMessage(buffer) /\ ResetHeader
         /\ parsed' = parsed + TakenNow /\ UNCHANGED pc
  BY DEF Deliver, Alive
<1>3. /\ Alive /\ current = "data" /\ ~ IsControl(ThisFrame.op) /\ ThisFrame.fin
      /\ handled < Len(stream)
  BY <1>1, DataPlace
<1>4. Whole!EndOfMessage
  BY <1>1, <1>3, AcceptedFacts, SameVocabulary DEF Whole!EndOfMessage
<1>5. /\ Whole!Extended.type = data.type /\ Whole!Extended.rsv1 = data.rsv1
      /\ Whole!Extended.parts = Contents
  BY <1>1, ExtendedFacts
<1>6. /\ RInv' /\ (Alive' <=> status' # "closing")
      /\ AbstractMessage' = [type |-> INVALID, rsv1 |-> FALSE, parts |-> <<>>]
  <2>1. CASE status' = "closing" /\ ~ Alive'
    <3>1. RInv'
      BY <1>1, <2>1, GoneKeepsPlace
    <3> QED BY <2>1, <3>1 DEF AbstractMessage
  <2>2. CASE /\ status' # "closing" /\ data' = AfterMessage(buffer) /\ ResetHeader
             /\ parsed' = parsed + TakenNow /\ UNCHANGED pc
    <3>1. Alive' /\ current' = "none" /\ headerSize' = 0 /\ maskSize' = 0 /\ ~ StartsMessage'
      BY <1>3, <2>2 DEF Alive, ResetHeader, StartsMessage
    <3>2. /\ data'.type = INVALID /\ data'.offset = 0 /\ data'.buffer \in {"stack", "null"}
          /\ data'.buffer = "null" => data'.bytes = <<>>
      BY <2>2 DEF AfterMessage
    <3>3. control'.type = INVALID /\ control'.bytes = <<>>
      <4>1. control.type = INVALID
        BY <1>3 DEF RInv, ControlIsOfFrame
      <4>2. control.bytes = <<>>
        BY <1>3 DEF IInv, ControlFits
      <4> QED BY <1>1, <4>1, <4>2
    <3>4. OnTheWire'
      <4>1. Held' = 0
        <5>1. Len(<<>>) - 0 = 0
          OBVIOUS
        <5> QED BY <3>2, <5>1 DEF Held, Filled
      <4>2. Len(control'.bytes) = 0
        BY <3>3
      <4>3. Consumed' = 0
        BY <3>1, <4>1, <4>2 DEF Consumed
      <4>4. TakenNow \in Nat
        BY <1>1, TakenNowFacts
      <4> QED BY <1>1, <1>3, <2>2, <4>3, <4>4, FrameConsumed, GoesToNextFrame DEF RInv
    <3>5. HeaderIsOfFrame' /\ ControlIsOfFrame' /\ DataIsOfFrame' /\ BufferIsOfMessage'
      BY <3>1, <3>2, <3>3
         DEF HeaderIsOfFrame, ControlIsOfFrame, DataIsOfFrame, BufferIsOfMessage
    <3>6. RInv'
      BY <3>4, <3>5 DEF RInv
    <3>7. AbstractMessage' = [type |-> INVALID, rsv1 |-> FALSE, parts |-> <<>>]
      BY <3>1, <3>2 DEF AbstractMessage
    <3> QED BY <2>2, <3>1, <3>6, <3>7, Zenon
  <2> QED BY <1>2, <2>1, <2>2, Zenon
<1>7. \E asked \in BOOLEAN :
        /\ (status' = "closing") = (status = "closing" \/ asked)
        /\ Alive' = ~ (status' = "closing")
  <2>1. PICK asked \in BOOLEAN : status' = IF asked THEN "closing" ELSE status
    BY <1>1
  <2>2. (status' = "closing") = (status = "closing" \/ asked)
    BY <2>1
  <2>3. Alive' = ~ (status' = "closing")
    BY <1>6 DEF Alive
  <2> QED BY <2>2, <2>3
<1>8. effects' = Append(effects, Whole!Message(Whole!Extended.type, Whole!Extended.parts, inflated))
  BY <1>1, <1>5, SameVocabulary
<1>9. \/ Extensions \/ Whole!Extended.type # Whole!TEXT
      \/ Whole!ValidUtf8(stream, Whole!Extended.parts)
  BY <1>5, SameVocabulary, SameStatuses
<1>10. Whole!NoMessage = [type |-> INVALID, rsv1 |-> FALSE, parts |-> <<>>]
  BY SameStatuses DEF Whole!NoMessage
<1>11. Whole!Deliver(inflated)
  BY <1>1, <1>6, <1>7, <1>8, <1>9, <1>10 DEF Whole!Deliver, network
<1> QED BY <1>4, <1>6, <1>11

\* Each way to deliver a message, inflated or not, is one of FrameStream.
LEMMA DeliverMessagePlace ==
  IInv /\ RInv /\ DeliverMessage => RInv' /\ Whole!DeliverMessage
<1> SUFFICES ASSUME IInv, RInv, DeliverMessage PROVE RInv' /\ Whole!DeliverMessage
  OBVIOUS
<1>1. AtMessage
  BY DEF DeliverMessage
<1>2. Whole!Compressed <=> Compressed
  <2>1. /\ Whole!Extended.rsv1 = data.rsv1 /\ Whole!Extended.parts = Contents
    BY <1>1, ExtendedFacts DEF AtMessage
  <2> QED BY <2>1 DEF Compressed, Whole!Compressed
<1>3. CASE ~ Extensions /\ (data.type = TEXT => ValidUtf8(stream, Contents)) /\ Deliver(FALSE)
  <2>1. ~ Compressed
    BY <1>3 DEF Compressed
  <2>2. FALSE \in BOOLEAN /\ (Extensions \/ data.type # TEXT \/ ValidUtf8(stream, Contents))
    BY <1>3
  <2>3. RInv' /\ Whole!EndOfMessage /\ Whole!Deliver(FALSE)
    BY <1>1, <1>3, <2>2, DeliverPlace
  <2> QED BY <1>2, <2>1, <2>3 DEF Whole!DeliverMessage
<1>4. CASE Extensions /\ ~ Compressed /\ Deliver(FALSE)
  <2>1. RInv' /\ Whole!EndOfMessage /\ Whole!Deliver(FALSE)
    BY <1>1, <1>4, DeliverPlace
  <2> QED BY <1>2, <1>4, <2>1 DEF Whole!DeliverMessage
<1>5. CASE Compressed /\ "inflated" \in InflateResults /\ Deliver(TRUE)
  <2>1. RInv' /\ Whole!EndOfMessage /\ Whole!Deliver(TRUE)
    BY <1>1, <1>5, DeliverPlace DEF Compressed
  <2> QED BY <1>2, <1>5, <2>1 DEF Whole!DeliverMessage
<1>6. CASE Compressed /\ "empty" \in InflateResults /\ Deliver(FALSE)
  <2>1. RInv' /\ Whole!EndOfMessage /\ Whole!Deliver(FALSE)
    BY <1>1, <1>6, DeliverPlace DEF Compressed
  <2> QED BY <1>2, <1>6, <2>1 DEF Whole!DeliverMessage
<1> QED BY <1>3, <1>4, <1>5, <1>6 DEF DeliverMessage

\* What the code does with a foreign buffer ends the connection, as seen from outside.
LEMMA DeadBufferUsedPlace ==
  IInv /\ RInv /\ DeadBufferUsed => RInv' /\ Whole!PeerGone
<1> SUFFICES ASSUME IInv, RInv, DeadBufferUsed PROVE RInv' /\ Whole!PeerGone
  OBVIOUS
<1>1. Alive /\ ~ Alive' /\ UNCHANGED <<network, handled, effects, status>>
  BY DEF DeadBufferUsed, FrameReady, Alive
<1> QED BY <1>1, GoneKeepsPlace, Ending DEF Whole!PeerGone, network

-----------------------------------------------------------------------------
\* The theorems.

\* init_client: nothing is read, nothing is on the wire.
LEMMA InitPlace == Init => RInv /\ Whole!Init
<1> SUFFICES ASSUME Init PROVE RInv /\ Whole!Init
  OBVIOUS
<1>1. /\ pc = "idle" /\ current = "none" /\ headerSize = 0 /\ maskSize = 0
      /\ control.type = INVALID /\ control.bytes = <<>> /\ data.type = INVALID
      /\ data.offset = 0 /\ data.buffer = "null" /\ data.bytes = <<>>
      /\ stream = <<>> /\ wire = <<>> /\ parsed = 0 /\ handled = 0
      /\ status = "connected" /\ effects = <<>>
  BY DEF Init
<1>2. Alive /\ ~ StartsMessage
  BY <1>1 DEF Alive, StartsMessage
<1>3. HeaderIsOfFrame /\ ControlIsOfFrame /\ DataIsOfFrame /\ BufferIsOfMessage
  BY <1>1 DEF HeaderIsOfFrame, ControlIsOfFrame, DataIsOfFrame, BufferIsOfMessage
<1>4. Len(stream) = 0 /\ Len(wire) = 0 /\ Len(control.bytes) = 0 /\ Len(data.bytes) = 0
  BY <1>1
<1>5. Consumed = 0
  BY <1>1, <1>4 DEF Consumed, Held, Filled
<1> DEFINE start == [no \in 1 .. 1 |-> 0]
<1>6. start \in Starts /\ start[1] = 0
  BY <1>4 DEF Starts
<1>7. Laid(start)
  BY <1>4, <1>6 DEF Laid
<1>8. OnTheWire
  BY <1>1, <1>4, <1>5, <1>6, <1>7 DEF OnTheWire
<1>9. Whole!Init
  BY <1>1, <1>2, SameStatuses DEF Whole!Init, Whole!NoMessage, AbstractMessage
<1> QED BY <1>3, <1>8, <1>9 DEF RInv

\* A step that changes nothing.
LEMMA StutterPlace == RInv /\ UNCHANGED vars => RInv' /\ UNCHANGED Whole!vars
<1> SUFFICES ASSUME RInv, UNCHANGED vars PROVE RInv' /\ UNCHANGED Whole!vars
  OBVIOUS
<1>1. OnTheWire'
  BY DEF vars, RInv, OnTheWire, Starts, Laid, Consumed, Held, Filled, Alive
<1>2. HeaderIsOfFrame' /\ ControlIsOfFrame'
  BY DEF vars, RInv, HeaderIsOfFrame, ControlIsOfFrame, Alive, ThisFrame, LengthKnown, PayloadSize
<1>3. DataIsOfFrame' /\ BufferIsOfMessage'
  BY DEF vars, RInv, DataIsOfFrame, BufferIsOfMessage, Alive, ThisFrame, Filled, RoomMade,
     StartsMessage
<1>4. UNCHANGED Whole!vars
  BY DEF vars, Whole!vars, Alive, AbstractMessage, StartsMessage
<1> QED BY <1>1, <1>2, <1>3, <1>4 DEF RInv

\* Every step keeps the parser's place, and is a step of FrameStream or none.
LEMMA StepPlace ==
  IInv /\ RInv /\ [Next]_vars => RInv' /\ [Whole!Next]_(Whole!vars)
<1> SUFFICES ASSUME IInv, RInv, [Next]_vars
             PROVE  RInv' /\ [Whole!Next]_(Whole!vars)
  OBVIOUS
<1>1. CASE PeerSends \/ PeerGone \/ StartClosing
  BY <1>1, PeerSendsPlace, PeerGonePlace, StartClosingPlace DEF Whole!Next
<1>2. CASE ReadEvent \/ Recv \/ RecvAgain \/ EndBuffer
  BY <1>2, QuietStepPlace
<1>3. CASE GetFrameType \/ GetPayloadData \/ CopyMask
  BY <1>3, GetFrameTypePlace, GetPayloadDataPlace, CopyMaskPlace DEF Whole!Next
<1>4. CASE HandleControlFrame
  BY <1>4, HandleControlFramePlace DEF Whole!Next
<1>5. CASE RefuseGrowth \/ HandlePartialData \/ HandleFragment
  BY <1>5, RefuseGrowthPlace, HandlePartialDataPlace, HandleFragmentPlace DEF Whole!Next
<1>6. CASE RefuseText \/ RefuseCompressed \/ DeliverMessage \/ DeadBufferUsed
  BY <1>6, RefuseMessagePlace, DeliverMessagePlace, DeadBufferUsedPlace DEF Whole!Next
<1>7. CASE UNCHANGED vars
  BY <1>7, StutterPlace
<1> QED BY <1>1, <1>2, <1>3, <1>4, <1>5, <1>6, <1>7 DEF Next, Server, Parse, HandleDataFrame

\* The parser always stands where its counters say, inside the frame under way, and
\* what it kept of the frame is what the peer sent.
THEOREM PlaceOnTheWire == Spec => []RInv
<1>1. Init => RInv
  BY InitPlace
<1>2. IInv /\ RInv /\ [Next]_vars => RInv'
  BY StepPlace
<1> QED BY <1>1, <1>2, Invariance, PTL DEF Spec

\* However the network cuts the stream, the byte-wise parser has the effects of a
\* server that gets whole frames: the same pongs, messages and close frames, in the
\* same order.
THEOREM Refinement == Spec => ImplementsFrameStream
<1>1. Init => Whole!Init
  BY InitPlace
<1>2. IInv /\ RInv /\ [Next]_vars => [Whole!Next]_(Whole!vars)
  BY StepPlace
<1>3. Spec => Whole!Init /\ [][Whole!Next]_(Whole!vars)
  BY <1>1, <1>2, Invariance, PlaceOnTheWire, PTL DEF Spec
<1> QED BY <1>3 DEF ImplementsFrameStream, Whole!Spec

-----------------------------------------------------------------------------
\* The next byte is what the parser takes it for.
LEMMA NextByteExpected ==
  ASSUME IInv, RInv, ~ (current = "data" /\ data.buffer = "stack")
  PROVE  InSync
<1> SUFFICES ASSUME Alive, parsed < Len(wire), ~ (maskSize = 4 /\ PayloadSize = 0)
             PROVE  Next1.no = handled + 1 /\ <<Next1.role, Next1.at>> = Expected
  BY DEF InSync
<1>1. maskSize \in 0 .. 4 /\ (maskSize > 0 => current # "none" /\ LengthKnown)
  BY ConsumedFacts
<1>2. CASE current = "none"
  <2>1. Next1 = Byte(handled + 1, "first", 1, FALSE)
    BY <1>2, FirstByte DEF RInv
  <2> QED BY <1>2, <2>1 DEF Byte, Expected
<1>3. CASE current # "none" /\ ~ LengthKnown
  <2>1. Next1 = Byte(handled + 1, "length", headerSize + 1, FALSE)
    BY <1>3, LengthByte
  <2> QED BY <1>3, <2>1 DEF Byte, Expected
<1>4. CASE current # "none" /\ LengthKnown /\ maskSize < 4
  <2>1. Next1 = Byte(handled + 1, "mask", maskSize + 1, FALSE)
    BY <1>4, MaskByte
  <2> QED BY <1>4, <2>1 DEF Byte, Expected
<1>5. CASE maskSize = 4
  <2>1. /\ current \in {"control", "data"} /\ LengthKnown
        /\ PayloadSize \in Nat \ {0} /\ data.offset \in Nat /\ Filled \in Nat
        /\ Len(control.bytes) \in Nat
    <3>1. /\ current \in {"none", "control", "data"} /\ PayloadSize \in Nat
          /\ data.offset \in Nat /\ data.bytes \in Seq(Bytes) /\ control.bytes \in Seq(Bytes)
      BY DEF IInv, TypeOK, PayloadSize, ControlFrames, DataFrames
    <3> QED BY <1>1, <1>5, <3>1 DEF Filled
  <2>2. /\ PayloadSize = ThisFrame.len /\ Done \in Nat
        /\ \A j \in 1 .. ThisFrame.len - Done :
             wire[parsed + j] = Byte(handled + 1, "payload", Done + j, TRUE)
    BY <1>5, PayloadBytes
  <2>3. Done < PayloadSize
    <3>1. CASE current = "control"
      <4>1. Len(control.bytes) < control.payloadSize
        <5>1. CASE control.bytes = <<>>
          BY <2>1, <3>1, <5>1 DEF PayloadSize
        <5>2. CASE control.bytes # <<>>
          BY <5>2 DEF IInv, ControlFits
        <5> QED BY <5>1, <5>2
      <4> QED BY <3>1, <4>1 DEF Done, PayloadSize
    <3>2. CASE current = "data"
      <4>1. Held < data.payloadSize
        <5>1. Held \in Nat /\ (Held > 0 => RoomMade)
          BY ConsumedFacts
        <5>2. CASE Held = 0
          BY <2>1, <3>2, <5>2 DEF PayloadSize
        <5>3. CASE Held > 0
          <6>1. Held = Filled - data.offset
            BY <3>2 DEF Held
          <6>2. Filled < data.offset + data.payloadSize /\ data.payloadSize \in Nat
            BY <2>1, <3>2, <5>1, <5>3 DEF RoomMade, PayloadSize
          <6> QED BY <2>1, <6>1, <6>2
        <5> QED BY <5>1, <5>2, <5>3
      <4> QED BY <3>2, <4>1 DEF Done, PayloadSize
    <3> QED BY <2>1, <3>1, <3>2
  <2>4. Next1 = Byte(handled + 1, "payload", Done + 1, TRUE)
    <3>1. 1 \in 1 .. ThisFrame.len - Done
      BY <2>1, <2>2, <2>3
    <3> QED BY <2>2, <3>1 DEF Next1
  <2>5. Expected = <<"payload", Done + 1>>
    <3>1. Done = IF current = "control" THEN Len(control.bytes) ELSE Filled - data.offset
      BY <2>1 DEF Done, Held
    <3>2. current # "none" /\ ~ (maskSize < 4)
      BY <1>5, <2>1
    <3>3. Done + 1 = 1 + Done
      BY <2>2
    <3> QED BY <2>1, <3>1, <3>2, <3>3 DEF Expected
  <2> QED BY <2>4, <2>5 DEF Byte
<1>6. maskSize < 4 \/ maskSize = 4
  BY <1>1
<1> QED BY <1>2, <1>3, <1>4, <1>5, <1>6

\* Without an extension the parser takes every byte for what the peer sent it as,
\* wherever the network cuts the stream and whatever path ate the bytes before it.
THEOREM AlwaysInSync ==
  ASSUME ~ Extensions
  PROVE  Spec => []InSync
<1>1. IInv /\ RInv => InSync
  <2> SUFFICES ASSUME IInv, RInv PROVE InSync
    OBVIOUS
  <2>1. data.buffer # "stack"
    BY DEF IInv, BufferInOrder
  <2> QED BY <2>1, NextByteExpected
<1> QED BY <1>1, Invariance, PlaceOnTheWire, PTL

\* With an extension it still does, unless the buffer of the data frame under way
\* is one the application was given in place.
THEOREM InSyncOutOfPlace ==
  Spec => [](~ (current = "data" /\ data.buffer = "stack") => InSync)
<1>1. IInv /\ RInv => (~ (current = "data" /\ data.buffer = "stack") => InSync)
  BY NextByteExpected
<1> QED BY <1>1, Invariance, PlaceOnTheWire, PTL
=============================================================================
