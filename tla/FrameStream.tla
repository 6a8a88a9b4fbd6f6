----------------------------- MODULE FrameStream -----------------------------
(***************************************************************************)
(* What the frame layer promises, one whole frame at a time: every frame   *)
(* the peer sends is refused, ignored or handled exactly once, in order,   *)
(* and its effects do not depend on how the network cuts the byte stream.  *)
(* FrameReader is shown to implement this.                                 *)
(***************************************************************************)
EXTENDS Frames

CONSTANTS PeerFrames,      \* PeerFrames[i]: what the peer's i-th frame may be
          MaxFrames,       \* bound: frames sent on one connection
          MaxPayloadSize,  \* MAX_PAYLOAD_SIZE
          Extensions,      \* permessage-deflate was negotiated
          InflateResults,  \* outcomes of process_data on a compressed message
          ReallocMayFail   \* the system may refuse a larger buffer

VARIABLES stream,   \* frames sent by the peer
          handled,  \* how many of them the server is done with
          open,     \* the connection exists
          closing,  \* the application called nitrows_close
          message,  \* the fragments received of an unfinished message
          effects   \* close frames, pongs and messages, in order

vars == <<stream, handled, open, closing, message, effects>>

NoMessage == [type |-> INVALID, rsv1 |-> FALSE, parts |-> <<>>]

Init == /\ stream = <<>> /\ handled = 0 /\ open = TRUE /\ closing = FALSE
        /\ message = NoMessage /\ effects = <<>>

PeerSends == /\ open
             /\ Len(stream) < MaxFrames
             /\ \E f \in PeerFrames[Len(stream) + 1] : stream' = Append(stream, f)
             /\ UNCHANGED <<handled, open, closing, message, effects>>

-----------------------------------------------------------------------------
Pending == open /\ handled < Len(stream)
NextFrame == stream[handled + 1]
NextPayload == Payload(handled + 1, NextFrame)

\* How a message and its type stand once the next (data) frame is added.
Extended ==
  [type  |-> IF message.type = INVALID THEN NextFrame.op ELSE message.type,
   rsv1  |-> IF message.type = INVALID THEN 1 \in NextFrame.rsv ELSE message.rsv1,
   parts |-> message.parts \o NextPayload]

TooLarge(f) ==
  \/ f.len > MaxPayloadSize
  \/ ~ IsControl(f.op) /\ Len(message.parts) + f.len > MaxPayloadSize

\* The statuses with which a frame is refused; "fragmented" control frames end
\* the connection without one.
Refusals(f) ==
  CASE BadFrameType(f, message.type, Extensions)     -> {PROTOCOL_ERROR}
    [] OTHER ->
  CASE IsControl(f.op) /\ ~ f.fin                    -> {}
    [] OTHER ->
  CASE ~ f.masked                                    -> {INVALID_TYPE}
    [] f.masked /\ IsControl(f.op) /\ LengthCode(f) >= 126 -> {PROTOCOL_ERROR}
    [] OTHER                                         ->
         IF TooLarge(f) \/ (ReallocMayFail /\ message.parts # <<>>)
         THEN {TOO_LARGE} ELSE {}

FragmentedControl(f) ==
  ~ BadFrameType(f, message.type, Extensions) /\ IsControl(f.op) /\ ~ f.fin

Acceptable(f) ==
  /\ ~ BadFrameType(f, message.type, Extensions)
  /\ f.masked
  /\ IsControl(f.op) => f.fin /\ LengthCode(f) < 126
  /\ ~ TooLarge(f)

Ends == open' = FALSE /\ message' = NoMessage

Refuse == /\ Pending
          /\ \E status \in Refusals(NextFrame) :
               effects' = Append(effects, CloseFrame(status, <<>>))
          /\ Ends
          /\ UNCHANGED <<stream, handled, closing>>

DropFragmentedControl == /\ Pending /\ FragmentedControl(NextFrame)
                         /\ Ends
                         /\ UNCHANGED <<stream, handled, closing, effects>>

Accepted == Pending /\ Acceptable(NextFrame) /\ handled' = handled + 1

PeerCloses == /\ Accepted /\ NextFrame.op = CLOSE
              /\ effects' = Append(effects, CloseReply(stream, NextPayload))
              /\ Ends
              /\ UNCHANGED <<stream, closing>>

Ping == /\ Accepted /\ NextFrame.op = PING
        /\ effects' = Append(effects, PongFrame(NextPayload))
        /\ \/ UNCHANGED <<open, message>>
           \/ Ends
        /\ UNCHANGED <<stream, closing>>

Pong == /\ Accepted /\ NextFrame.op = PONG
        /\ UNCHANGED <<stream, open, closing, message, effects>>

Fragment == /\ Accepted /\ ~ IsControl(NextFrame.op) /\ ~ NextFrame.fin
            /\ message' = Extended
            /\ UNCHANGED <<stream, open, closing, effects>>

\* The end of a message: it is delivered once, whole and in order, or refused.
EndOfMessage ==
  Accepted /\ ~ IsControl(NextFrame.op) /\ NextFrame.fin

Compressed == Extensions /\ Extended.rsv1 /\ Extended.parts # <<>>

Deliver(inflated) ==
  /\ Extensions \/ Extended.type # TEXT \/ ValidUtf8(stream, Extended.parts)
  /\ effects' = Append(effects, Message(Extended.type, Extended.parts, inflated))
  /\ \E asked \in BOOLEAN :
       /\ closing' = (closing \/ asked)
       /\ open' = ~ closing'
  /\ message' = NoMessage
  /\ UNCHANGED stream

DeliverMessage ==
  /\ EndOfMessage
  /\ \/ ~ Compressed /\ Deliver(FALSE)
     \/ Compressed /\ "inflated" \in InflateResults /\ Deliver(TRUE)
     \/ Compressed /\ "empty" \in InflateResults /\ Deliver(FALSE)

RefuseMessage ==
  /\ EndOfMessage
  /\ \/ /\ ~ Extensions /\ Extended.type = TEXT
        /\ ~ ValidUtf8(stream, Extended.parts)
        /\ effects' = Append(effects, CloseFrame(INVALID_ENCODING, <<>>))
     \/ /\ Compressed /\ "failed" \in InflateResults
        /\ effects' = Append(effects, CloseFrame(INVALID_EXTENSION, <<>>))
  /\ Ends
  /\ UNCHANGED <<stream, closing>>

\* nitrows_close, called outside the handling of this client's messages.
StartClosing == /\ open /\ closing' = TRUE
                /\ UNCHANGED <<stream, handled, open, message, effects>>

\* The peer hangs up, or the socket fails.
PeerGone == /\ open /\ Ends
            /\ UNCHANGED <<stream, handled, closing, effects>>

Next == \/ PeerSends \/ PeerGone \/ StartClosing
        \/ Refuse \/ DropFragmentedControl
        \/ PeerCloses \/ Ping \/ Pong
        \/ Fragment \/ DeliverMessage \/ RefuseMessage

Spec == Init /\ [][Next]_vars
=============================================================================
