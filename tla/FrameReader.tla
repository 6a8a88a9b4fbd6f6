----------------------------- MODULE FrameReader -----------------------------
(***************************************************************************)
(* The receive path of one upgraded client: handle_client_data (server.c)  *)
(* and the incremental frame parser it drives (frame.c).                   *)
(*                                                                         *)
(* The peer's frames travel as bytes; recv hands over any number of them,  *)
(* so a header, a mask or a payload may be split anywhere and one buffer   *)
(* may hold several frames.  wire is everything the peer has sent; recv    *)
(* has taken wire[1..received], the parser has consumed wire[1..parsed].   *)
(* buf + total_read in the code is wire[parsed + 1] here.                  *)
(***************************************************************************)
EXTENDS Frames

CONSTANTS PeerFrames,      \* PeerFrames[i]: what the peer's i-th frame may be
          MaxFrames,       \* bound: frames sent on one connection
          BufferSize,      \* BUFFER_SIZE
          MaxPayloadSize,  \* MAX_PAYLOAD_SIZE
          Extensions,      \* permessage-deflate was negotiated (indices_count > 0)
          InflateResults,  \* outcomes of process_data on a compressed message
          ReallocMayFail   \* realloc may return NULL

ASSUME FramesAssumption ==
  MaxFrames \in Nat /\ \A i \in 1 .. MaxFrames : PeerFrames[i] \subseteq FrameDescriptors
ASSUME SizesAssumption ==
  /\ BufferSize \in Nat \ {0}
  /\ MaxPayloadSize \in Nat /\ MaxPayloadSize % BufferSize = 0
ASSUME SwitchesAssumption ==
  /\ Extensions \in BOOLEAN
  /\ ReallocMayFail \in BOOLEAN
  /\ InflateResults \subseteq {"inflated", "empty", "failed"}

VARIABLES
  stream,      \* frames sent by the peer
  wire,        \* their bytes
  received,    \* bytes taken by recv
  parsed,      \* bytes consumed by the parser
  pc,          \* "idle" | "recv" | "parse" | "closed" | "undefined"
  into,        \* where recv writes: "stack" (data) or "direct" (frame buffer)
  toRead,      \* to_read_size
  current,     \* current_frame_type: "none" | "control" | "data"
  headerSize,  \* header_size
  lengthCode,  \* current_header[0]
  maskSize,    \* mask_size
  control,     \* control_frame
  data,        \* data_frame; filled_size is Len(data.bytes)
  status,      \* "connected" | "closing"
  handled,     \* frames the server is done with (auxiliary)
  effects      \* close frames, pongs and messages, in order (auxiliary)

network == <<stream, wire>>
header == <<current, headerSize, lengthCode, maskSize>>
vars == <<stream, wire, received, parsed, pc, into, toRead, current, headerSize,
          lengthCode, maskSize, control, data, status, handled, effects>>

\* init_client: no frame under way, no buffer.
Init ==
  /\ stream = <<>> /\ wire = <<>> /\ received = 0 /\ parsed = 0
  /\ pc = "idle" /\ into = "stack" /\ toRead = BufferSize
  /\ current = "none" /\ headerSize = 0 /\ lengthCode = 0 /\ maskSize = 0
  /\ control = [type |-> INVALID, payloadSize |-> 0, bytes |-> <<>>]
  /\ data = [type |-> INVALID, isFirst |-> FALSE, isFinal |-> FALSE, rsv1 |-> FALSE,
             payloadSize |-> 0, bufferSize |-> 0, offset |-> 0, buffer |-> "null",
             bytes |-> <<>>]
  /\ status = "connected" /\ handled = 0 /\ effects = <<>>

-----------------------------------------------------------------------------
Least(a, b) == IF a <= b THEN a ELSE b

\* (n + BUFFER_SIZE - 1) & ~(BUFFER_SIZE - 1)
RoundUp(n) == ((n + BufferSize - 1) \div BufferSize) * BufferSize

Left == received - parsed
Next1 == wire[parsed + 1]
Taken(n) == SubSeq(wire, parsed + 1, parsed + n)

\* close_client: the buffers are freed, and free() of a pointer into the stack
\* has no defined outcome.
CloseClient == pc' = IF data.buffer = "stack" THEN "undefined" ELSE "closed"

\* send_close_status followed by a return of -1.
Reject(code) ==
  /\ effects' = Append(effects, CloseFrame(code, <<>>))
  /\ CloseClient
  /\ UNCHANGED <<network, received, parsed, into, toRead, header, control, data,
                 status, handled>>

\* The header is forgotten: the next byte starts a frame.
ResetHeader == /\ current' = "none" /\ headerSize' = 0 /\ maskSize' = 0
               /\ UNCHANGED lengthCode

-----------------------------------------------------------------------------
\* The peer writes one more frame.
PeerSends ==
  /\ pc \in {"idle", "recv"}
  /\ Len(stream) < MaxFrames
  /\ \E f \in PeerFrames[Len(stream) + 1] :
       /\ stream' = Append(stream, f)
       /\ wire' = wire \o WireBytes(Len(stream) + 1, f)
  /\ UNCHANGED <<received, parsed, pc, into, toRead, header, control, data, status,
                 handled, effects>>

\* The event loop reports the socket readable and handle_client_data starts.
ReadEvent ==
  /\ pc = "idle" /\ received < Len(wire)
  /\ pc' = "recv" /\ into' = "stack" /\ toRead' = BufferSize
  /\ UNCHANGED <<network, received, parsed, header, control, data, status, handled,
                 effects>>

Recv ==
  /\ pc = "recv"
  /\ \E n \in 1 .. Least(toRead, Len(wire) - received) : received' = received + n
  /\ pc' = "parse"
  /\ UNCHANGED <<network, parsed, into, toRead, header, control, data, status, handled,
                 effects>>

\* recv fails with EAGAIN.
RecvAgain ==
  /\ pc = "recv" /\ received = Len(wire)
  /\ pc' = "idle"
  /\ UNCHANGED <<network, received, parsed, into, toRead, header, control, data, status,
                 handled, effects>>

\* recv returns 0 or an error, or the event loop reports a hang-up.
PeerGone ==
  /\ pc \in {"idle", "recv"}
  /\ CloseClient
  /\ UNCHANGED <<network, received, parsed, into, toRead, header, control, data, status,
                 handled, effects>>

\* start_closing, called while another client's event is handled.
StartClosing ==
  /\ pc = "idle"
  /\ status' = "closing"
  /\ UNCHANGED <<network, received, parsed, pc, into, toRead, header, control, data,
                 handled, effects>>

-----------------------------------------------------------------------------
\* extract_header_data: the first byte.
AtFrameType == pc = "parse" /\ Left > 0 /\ maskSize < 4 /\ current = "none"

AcceptControl(f) ==
  /\ f.fin
  /\ current' = "control"
  /\ control' = IF control.type = INVALID THEN [control EXCEPT !.type = f.op] ELSE control
  /\ UNCHANGED data

\* Variant, rejected by ImplementsFrameStream: a later fragment overwrites the
\* RSV1 of its message.
AcceptDataWithItsRsv(f) ==
  /\ current' = "data"
  /\ data' = [data EXCEPT
       !.isFirst = (f.op # CONTINUATION /\ data.type = INVALID) \/ @,
       !.isFinal = f.fin,
       !.rsv1    = 1 \in f.rsv,
       !.type    = IF data.type = INVALID THEN f.op ELSE @]
  /\ UNCHANGED control

AcceptData(f) ==
  /\ current' = "data"
  /\ data' = [data EXCEPT
       !.isFirst = (f.op # CONTINUATION /\ data.type = INVALID) \/ @,
       !.isFinal = f.fin,
       !.rsv1    = IF data.type = INVALID THEN 1 \in f.rsv ELSE @,
       !.type    = IF data.type = INVALID THEN f.op ELSE @]
  /\ UNCHANGED control

GetFrameType ==
  /\ AtFrameType
  /\ LET f == stream[Next1.no]
         bad == BadFrameType(f, data.type, Extensions)
     IN  \/ bad /\ Reject(PROTOCOL_ERROR)
         \/ /\ ~ bad /\ IsControl(f.op) /\ ~ f.fin
            /\ CloseClient
            /\ UNCHANGED <<network, received, parsed, into, toRead, header, control,
                           data, status, handled, effects>>
         \/ /\ ~ bad
            /\ \/ IsControl(f.op) /\ AcceptControl(f)
               \/ ~ IsControl(f.op) /\ AcceptData(f)
            /\ parsed' = parsed + 1
            /\ UNCHANGED <<network, received, pc, into, toRead, headerSize, lengthCode,
                           maskSize, status, handled, effects>>

\* The length is known.  (The code may call get_payload_data again on a known
\* multi-byte length; that call reads nothing and computes the same size.)
LengthKnown == headerSize > 0 /\ headerSize = HeaderBytes(lengthCode)

AtLength == pc = "parse" /\ Left > 0 /\ maskSize < 4 /\ current # "none" /\ ~ LengthKnown

GetPayloadData ==
  /\ AtLength
  /\ LET f     == stream[Next1.no]
         code  == IF headerSize = 0 THEN LengthCode(f) ELSE lengthCode
         taken == Least(HeaderBytes(code) - headerSize, Left)
         known == headerSize + taken = HeaderBytes(code)
     IN  \/ headerSize = 0 /\ ~ f.masked /\ Reject(INVALID_TYPE)
         \/ /\ headerSize > 0 \/ f.masked
            /\ current = "control" /\ code >= 126
            /\ Reject(PROTOCOL_ERROR)
         \/ /\ headerSize > 0 \/ f.masked
            /\ current = "data" \/ code < 126
            /\ known /\ f.len > MaxPayloadSize
            /\ Reject(TOO_LARGE)
         \/ /\ headerSize > 0 \/ f.masked
            /\ current = "data" \/ code < 126
            /\ known => f.len <= MaxPayloadSize
            /\ parsed' = parsed + taken
            /\ headerSize' = headerSize + taken
            /\ lengthCode' = code
            /\ control' = IF known /\ current = "control"
                          THEN [control EXCEPT !.payloadSize = f.len] ELSE control
            /\ data' = IF known /\ current = "data"
                       THEN [data EXCEPT !.payloadSize = f.len] ELSE data
            /\ UNCHANGED <<network, received, pc, into, toRead, current, maskSize,
                           status, handled, effects>>

\* Variant, rejected by TypeOK: all that is left is copied into mask.
CopyMaskUnbounded ==
  /\ pc = "parse" /\ Left > 0 /\ maskSize < 4 /\ current # "none" /\ LengthKnown
  /\ maskSize' = maskSize + Left /\ parsed' = received
  /\ UNCHANGED <<network, received, pc, into, toRead, current, headerSize, lengthCode,
                 control, data, status, handled, effects>>

\* extract_header_data: the mask.
CopyMask ==
  /\ pc = "parse" /\ Left > 0 /\ maskSize < 4 /\ current # "none" /\ LengthKnown
  /\ LET taken == Least(4 - maskSize, Left)
     IN  maskSize' = maskSize + taken /\ parsed' = parsed + taken
  /\ UNCHANGED <<network, received, pc, into, toRead, current, headerSize, lengthCode,
                 control, data, status, handled, effects>>

-----------------------------------------------------------------------------
PayloadSize == IF current = "control" THEN control.payloadSize ELSE data.payloadSize

\* Variant, rejected by EveryFrameHandled: empty payloads wait for a byte.
FrameReadyWithBytes == pc = "parse" /\ maskSize = 4 /\ Left > 0

\* The header is complete and there is something to do: an empty payload needs
\* no byte.
FrameReady == pc = "parse" /\ maskSize = 4 /\ (Left > 0 \/ PayloadSize = 0)

HandleControlFrame ==
  /\ FrameReady /\ current = "control"
  /\ LET size  == control.payloadSize
         taken == Least(size - Len(control.bytes), Left)
         bytes == control.bytes \o Taken(taken)
         payload == Unmask(bytes, 0, size)
     IN  \/ /\ Len(bytes) < size
            /\ parsed' = parsed + taken
            /\ control' = [control EXCEPT !.bytes = bytes]
            /\ UNCHANGED <<network, received, pc, into, toRead, header, data, status,
                           handled, effects>>
         \/ /\ Len(bytes) >= size /\ control.type = CLOSE
            /\ effects' = Append(effects, CloseReply(stream, payload))
            /\ CloseClient
            /\ handled' = handled + 1
            /\ UNCHANGED <<network, received, parsed, into, toRead, header, control,
                           data, status>>
         \/ /\ Len(bytes) >= size /\ control.type = PING
            /\ effects' = Append(effects, PongFrame(payload))
            /\ CloseClient              \* send_frame returned false
            /\ handled' = handled + 1
            /\ UNCHANGED <<network, received, parsed, into, toRead, header, control,
                           data, status>>
         \/ /\ Len(bytes) >= size /\ control.type # CLOSE
            /\ effects' = IF control.type = PING
                          THEN Append(effects, PongFrame(payload)) ELSE effects
            /\ control' = [type |-> INVALID, payloadSize |-> 0, bytes |-> <<>>]
            /\ ResetHeader
            /\ parsed' = parsed + taken
            /\ handled' = handled + 1
            /\ UNCHANGED <<network, received, pc, into, toRead, data, status>>

-----------------------------------------------------------------------------
Filled == Len(data.bytes)

\* The payload is used where recv left it.
InPlace == Filled = 0 /\ Left >= data.payloadSize /\ data.isFinal /\ data.isFirst

\* recv wrote the bytes into the frame buffer.
Direct == into = "direct"

Copies == ~ InPlace /\ ~ Direct /\ data.payloadSize > 0

\* Variant, rejected by MemorySafe: room is taken for free that holds fragments.
NeedsGrowthOfWhole ==
  Copies /\ data.buffer # "null" /\ data.bufferSize < data.payloadSize

NeedsGrowth ==
  Copies /\ data.buffer # "null" /\ data.bufferSize - data.offset < data.payloadSize

\* buffer_size + remaining_space
GrownSize == data.offset + data.payloadSize

\* Variant, rejected by InSync: bytes copied before are forgotten.
TakenNowAfresh == IF InPlace THEN data.payloadSize
                  ELSE IF Direct THEN Left
                  ELSE Least(data.payloadSize, Left)

TakenNow == IF InPlace THEN data.payloadSize
            ELSE IF Direct THEN Left
            ELSE Least(data.payloadSize - (Filled - data.offset), Left)

\* data_frame once the bytes of this buffer are accounted for.
Stored ==
  [data EXCEPT
     !.bytes      = @ \o Taken(TakenNow),
     !.buffer     = IF Copies THEN "heap" ELSE @,
     !.bufferSize = IF Copies /\ data.buffer = "null" THEN data.payloadSize
                    ELSE IF NeedsGrowth THEN RoundUp(GrownSize)
                    ELSE @]

\* The frame buffer is a pointer to a dead or foreign stack array, with the
\* filled size of a message that is over.
UsesDeadBuffer == data.buffer = "stack" /\ ~ InPlace

AtData == FrameReady /\ current = "data" /\ ~ UsesDeadBuffer

DeadBufferUsed ==
  /\ FrameReady /\ current = "data" /\ UsesDeadBuffer
  /\ pc' = "undefined"
  /\ UNCHANGED <<network, received, parsed, into, toRead, header, control, data, status,
                 handled, effects>>

RefuseGrowth ==
  /\ AtData /\ NeedsGrowth
  /\ GrownSize > MaxPayloadSize \/ ReallocMayFail
  /\ Reject(TOO_LARGE)

Fits == NeedsGrowth => GrownSize <= MaxPayloadSize

FrameComplete == Len(Stored.bytes) - data.offset >= data.payloadSize

HandlePartialData ==
  /\ AtData /\ Fits /\ ~ FrameComplete
  /\ data' = Stored
  /\ parsed' = parsed + TakenNow
  /\ UNCHANGED <<network, received, pc, into, toRead, header, control, status, handled,
                 effects>>

\* Variant, rejected by ImplementsFrameStream: the last fragment's mask is
\* applied to the whole message.
ContentsFromStart == Unmask(Stored.bytes, 0, Len(Stored.bytes))

Contents == Unmask(Stored.bytes, data.offset, data.payloadSize)

HandleFragment ==
  /\ AtData /\ Fits /\ FrameComplete /\ ~ data.isFinal
  /\ data' = [Stored EXCEPT !.bytes = Contents, !.offset = Len(Contents),
                            !.payloadSize = 0]
  /\ parsed' = parsed + TakenNow
  /\ ResetHeader
  /\ handled' = handled + 1
  /\ UNCHANGED <<network, received, pc, into, toRead, control, status, effects>>

\* -- the final frame of a message --

AtMessage == AtData /\ Fits /\ FrameComplete /\ data.isFinal

\* A pointer to the stack array is forgotten before the client is freed.
RefuseMessage(code) ==
  /\ effects' = Append(effects, CloseFrame(code, <<>>))
  /\ handled' = handled + 1
  /\ pc' = "closed"
  /\ UNCHANGED <<network, received, parsed, into, toRead, header, control, data, status>>

RefuseText ==
  /\ AtMessage
  /\ ~ Extensions /\ data.type = TEXT /\ ~ ValidUtf8(stream, Contents)
  /\ RefuseMessage(INVALID_ENCODING)

Compressed == Extensions /\ data.rsv1 /\ Contents # <<>>

RefuseCompressed ==
  /\ AtMessage /\ Compressed /\ "failed" \in InflateResults
  /\ RefuseMessage(INVALID_EXTENSION)

\* After the message, data_frame starts over; a frame buffer that still points
\* into the stack array is neither freed nor forgotten.
AfterMessage(buffer) ==
  [type |-> INVALID, isFirst |-> FALSE, isFinal |-> FALSE, rsv1 |-> data.rsv1,
   payloadSize |-> 0, offset |-> 0,
   bufferSize  |-> IF buffer = "stack" THEN data.payloadSize ELSE 0,
   buffer      |-> IF buffer = "stack" THEN "stack" ELSE "null",
   bytes       |-> IF buffer = "stack" THEN Contents ELSE <<>>]

\* handle_message and what follows it.  inflated: the message was replaced by
\* process_data's output, which is a heap buffer.
Deliver(inflated) ==
  LET buffer == IF Extensions /\ InPlace /\ ~ inflated THEN "stack" ELSE "heap" IN
  /\ effects' = Append(effects, Message(data.type, Contents, inflated))
  /\ handled' = handled + 1
  /\ \E asked \in BOOLEAN :    \* the application calls nitrows_close
       status' = IF asked THEN "closing" ELSE status
  /\ \/ /\ status' = "closing"
        /\ pc' = IF buffer = "stack" THEN "undefined" ELSE "closed"
        /\ UNCHANGED <<parsed, header, data>>
     \/ /\ status' # "closing"
        /\ data' = AfterMessage(buffer)
        /\ ResetHeader
        /\ parsed' = parsed + TakenNow
        /\ UNCHANGED pc
  /\ UNCHANGED <<network, received, into, toRead, control>>

DeliverMessage ==
  /\ AtMessage
  /\ \/ ~ Extensions /\ (data.type = TEXT => ValidUtf8(stream, Contents)) /\ Deliver(FALSE)
     \/ Extensions /\ ~ Compressed /\ Deliver(FALSE)
     \/ Compressed /\ "inflated" \in InflateResults /\ Deliver(TRUE)
     \/ Compressed /\ "empty" \in InflateResults /\ Deliver(FALSE)

-----------------------------------------------------------------------------
\* The buffer is used up; the next recv goes to the frame buffer when it has
\* more than BUFFER_SIZE bytes of room.
EndBuffer ==
  /\ pc = "parse" /\ Left = 0 /\ ~ FrameReady
  /\ pc' = "recv"
  /\ IF /\ maskSize = 4 /\ current = "data"
        /\ data.bufferSize - Filled > BufferSize
     THEN into' = "direct" /\ toRead' = data.payloadSize - (Filled - data.offset)
     ELSE into' = "stack" /\ toRead' = BufferSize
  /\ UNCHANGED <<network, received, parsed, header, control, data, status, handled,
                 effects>>

HandleDataFrame == \/ RefuseGrowth \/ HandlePartialData \/ HandleFragment
                   \/ RefuseText \/ RefuseCompressed \/ DeliverMessage
                   \/ DeadBufferUsed

Parse == \/ GetFrameType \/ GetPayloadData \/ CopyMask
         \/ HandleControlFrame \/ HandleDataFrame \/ EndBuffer

Server == ReadEvent \/ Recv \/ RecvAgain \/ Parse

Next == PeerSends \/ PeerGone \/ StartClosing \/ Server

\* The socket is watched edge-triggered and read until EAGAIN, so a readable
\* socket is always reported again, and the loop itself never blocks.
Spec == Init /\ [][Next]_vars
FairSpec == Spec /\ WF_vars(Server)

-----------------------------------------------------------------------------
Alive == pc \in {"idle", "recv", "parse"}

\* What control_frame and data_frame may hold.
ControlFrames ==
  [type : {INVALID, CLOSE, PING, PONG}, payloadSize : Nat, bytes : Seq(Bytes)]

DataFrames ==
  [type : {INVALID, TEXT, BINARY}, isFirst : BOOLEAN, isFinal : BOOLEAN, rsv1 : BOOLEAN,
   payloadSize : Nat, bufferSize : Nat, offset : Nat,
   buffer : {"null", "heap", "stack"}, bytes : Seq(Bytes)]

\* Every variable keeps its type; the counters stay within the arrays and the
\* stream they index (current_header, mask, the bytes received).
TypeOK ==
  /\ stream \in Seq(FrameDescriptors) /\ wire \in Seq(Bytes)
  /\ received \in 0 .. Len(wire) /\ parsed \in 0 .. received
  /\ pc \in {"idle", "recv", "parse", "closed", "undefined"}
  /\ into \in {"stack", "direct"} /\ toRead \in Nat \ {0}
  /\ current \in {"none", "control", "data"}
  /\ headerSize \in 0 .. 9 /\ lengthCode \in Nat /\ maskSize \in 0 .. 4
  /\ control \in ControlFrames /\ data \in DataFrames
  /\ status \in {"connected", "closing"} /\ handled \in Nat

\* The frame buffer is never written past its end, whether the payload is
\* copied by handle_data_frame or received in place by handle_client_data, it
\* never outgrows MAX_PAYLOAD_SIZE, a control frame fits its 125 bytes, and
\* without an extension no freed or foreign memory is used.
MemorySafe ==
  /\ data.offset <= Filled /\ Filled <= data.bufferSize
  /\ data.bufferSize <= MaxPayloadSize
  /\ into = "direct" =>
       /\ pc = "recv" => data.buffer = "heap" /\ Filled + toRead <= data.bufferSize
       /\ pc = "parse" => Filled + Left <= data.bufferSize
  /\ Len(control.bytes) <= 125
  /\ ~ Extensions => pc # "undefined" /\ data.buffer # "stack"

\* The frame buffer serves the message under way and no other: between two
\* messages there is neither a buffer nor filled bytes, so that the next one
\* starts from nothing.
BufferIsOfThisMessage ==
  Alive /\ data.type = INVALID => data.buffer = "null" /\ Filled = 0

\* The part of a frame that the parser takes the next byte for.
Expected ==
  IF current = "none" THEN <<"first", 1>>
  ELSE IF ~ LengthKnown THEN <<"length", headerSize + 1>>
  ELSE IF maskSize < 4 THEN <<"mask", maskSize + 1>>
  ELSE <<"payload", 1 + IF current = "control" THEN Len(control.bytes)
                        ELSE Filled - data.offset>>

\* Wherever the network cuts the stream, the parser takes every byte for what
\* the peer sent it as, and it belongs to the frame under way: no byte is
\* skipped, read twice or attributed to another frame, whatever path
\* (in place, copied, received directly, control between fragments) ate the
\* bytes before it.
InSync ==
  Alive /\ parsed < Len(wire) /\ ~ (maskSize = 4 /\ PayloadSize = 0) =>
    /\ Next1.no = handled + 1
    /\ <<Next1.role, Next1.at>> = Expected

\* Every frame the peer gets across is eventually dealt with, or the connection
\* is gone: the parser never waits for bytes that it already has.
EveryFrameHandled ==
  \A i \in 1 .. MaxFrames : Len(stream) >= i ~> (handled >= i \/ ~ Alive)

-----------------------------------------------------------------------------
\* The abstract connection this one implements.  A first fragment under way has
\* already set the type of the message it starts.
StartsMessage == current = "data" /\ stream[handled + 1].op # CONTINUATION

AbstractMessage ==
  IF ~ Alive \/ StartsMessage \/ data.type = INVALID
  THEN [type |-> INVALID, rsv1 |-> FALSE, parts |-> <<>>]
  ELSE [type |-> data.type, rsv1 |-> data.rsv1, parts |-> SubSeq(data.bytes, 1, data.offset)]

Whole == INSTANCE FrameStream WITH
           open <- Alive, closing <- status = "closing", message <- AbstractMessage

\* The byte-wise parser implements the whole-frame specification: the same
\* pongs, messages and close frames, in the same order, for every way the network
\* may split the bytes.  ("undefined" maps to a connection that vanished;
\* MemorySafe says when it cannot occur.)
ImplementsFrameStream == Whole!Spec
=============================================================================
