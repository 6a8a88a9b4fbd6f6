----------------------------- MODULE OutputBuffer -----------------------------
(***************************************************************************)
(* The send path of one client: send_frame (server.c), the pending bytes   *)
(* it keeps in the client, set_write_notify (events.c) and the edge-       *)
(* triggered epoll events that are to flush them.                          *)
(*                                                                         *)
(* A byte is its serial number among all the bytes ever passed to          *)
(* send_frame.  send_buffer is a sequence, empty when the pointer is NULL. *)
(* The socket and epoll are external: room is the free space of the        *)
(* kernel's send buffer, noSpace its SOCK_NOSPACE flag (a full buffer was  *)
(* hit, the next drain wakes the poller), ready the entry in epoll's list. *)
(***************************************************************************)
EXTENDS Integers, Sequences

CONSTANTS FrameSizes,    \* sizes of the frames passed to send_frame
          MaxBytes,      \* bound: bytes passed to send_frame
          SocketRoom,    \* bound: capacity of the kernel's send buffer
          MaxInputs,     \* bound: times the peer sends something
          AllocMayFail   \* malloc and realloc may return NULL when appending

ASSUME OutputAssumption ==
  /\ FrameSizes \subseteq Nat \ {0} /\ MaxBytes \in Nat
  /\ SocketRoom \in Nat \ {0} /\ MaxInputs \in Nat
  /\ AllocMayFail \in BOOLEAN

VARIABLES
  serial,      \* bytes passed to send_frame so far (auxiliary)
  handed,      \* the bytes among them that the client's stream took (auxiliary)
  wire,        \* bytes given to the kernel, in order
  sendBuffer,  \* send_buffer[0 .. send_buffer_size - 1]
  sendStart,   \* send_start
  open,        \* the client exists
  dead,        \* the socket fails every call
  room,        \* free bytes in the kernel's send buffer
  noSpace,     \* SOCK_NOSPACE
  interest,    \* EPOLLOUT is registered
  ready,       \* epoll has an event for the socket
  input,       \* the peer sent something that is not read yet
  inputs,      \* how often it did
  reported,    \* the handler epoll_wait's event leads to: "none" | "read" | ...
  merged       \* a readable and writable event came with bytes pending (auxiliary)

socket == <<noSpace, input, inputs>>
vars == <<serial, handed, wire, sendBuffer, sendStart, open, dead, room,
          noSpace, interest, ready, input, inputs, reported, merged>>

Init ==
  /\ serial = 0 /\ handed = <<>> /\ wire = <<>>
  /\ sendBuffer = <<>> /\ sendStart = 0
  /\ open = TRUE /\ dead = FALSE /\ room = SocketRoom /\ noSpace = FALSE
  /\ interest = FALSE /\ ready = FALSE /\ input = FALSE /\ inputs = 0
  /\ reported = "none" /\ merged = FALSE

-----------------------------------------------------------------------------
Least(a, b) == IF a <= b THEN a ELSE b

HasBuffer == sendBuffer # <<>>

\* What of the client's stream is still to be sent.
Pending == SubSeq(sendBuffer, sendStart + 1, Len(sendBuffer))

\* epoll_ctl(MOD): the kernel polls the socket again at once.
SetWriteNotify(enable) ==
  /\ interest' = enable
  /\ ready' = (ready \/ input \/ (enable /\ room' > 0))

\* The send loop on buffer (send_start at start), queue being what follows
\* start, stops when all is sent (AllSent), when the kernel has no room
\* (WouldBlock), or when the socket fails (Fails).
\*
\* Variant of AllSent, rejected by InterestMeansPending: EPOLLOUT is left on.
AllSentStillNotified(queue) ==
  /\ ~ dead /\ Len(queue) <= room
  /\ wire' = wire \o queue /\ room' = room - Len(queue)
  /\ sendBuffer' = <<>> /\ sendStart' = 0
  /\ UNCHANGED <<interest, ready, dead, noSpace>>

AllSent(queue) ==
  /\ ~ dead /\ Len(queue) <= room
  /\ wire' = wire \o queue /\ room' = room - Len(queue)
  /\ sendBuffer' = <<>> /\ sendStart' = 0
  /\ IF HasBuffer THEN SetWriteNotify(FALSE) ELSE UNCHANGED <<interest, ready>>
  /\ UNCHANGED <<dead, noSpace>>

\* Variant of WouldBlock, rejected by WireInOrder: send_start counts this call only.
WouldBlockCountingOneCall(buffer, start, queue) ==
  /\ ~ dead /\ room < Len(queue)
  /\ wire' = wire \o SubSeq(queue, 1, room)
  /\ IF HasBuffer
     THEN sendBuffer' = buffer /\ sendStart' = room
          /\ room' = 0 /\ noSpace' = TRUE /\ UNCHANGED <<interest, ready>>
     ELSE sendBuffer' = SubSeq(queue, room + 1, Len(queue)) /\ sendStart' = 0
          /\ room' = 0 /\ noSpace' = TRUE /\ SetWriteNotify(TRUE)
  /\ UNCHANGED dead

\* Variant, rejected by DrainsUnlessMerged: nobody asks for EPOLLOUT.
WouldBlockUnnoticed(buffer, start, queue) ==
  /\ ~ dead /\ room < Len(queue)
  /\ wire' = wire \o SubSeq(queue, 1, room)
  /\ sendBuffer' = SubSeq(queue, room + 1, Len(queue)) /\ sendStart' = 0
  /\ room' = 0 /\ noSpace' = TRUE
  /\ UNCHANGED <<interest, ready, dead>>

WouldBlock(buffer, start, queue) ==
  /\ ~ dead /\ room < Len(queue)
  /\ wire' = wire \o SubSeq(queue, 1, room)
  /\ IF HasBuffer
     THEN /\ sendBuffer' = buffer /\ sendStart' = start + room
          /\ room' = 0 /\ noSpace' = TRUE
          /\ UNCHANGED <<interest, ready>>
     ELSE /\ sendBuffer' = SubSeq(queue, room + 1, Len(queue)) /\ sendStart' = 0
          /\ room' \in 0 .. SocketRoom      \* drained before set_write_notify
          /\ noSpace' = (room' = 0)
          /\ SetWriteNotify(TRUE)
  /\ UNCHANGED dead

Fails(buffer, start, queue) ==
  /\ \E sent \in 0 .. IF dead THEN 0 ELSE Least(room, Len(queue) - 1) :
       /\ wire' = wire \o SubSeq(queue, 1, sent)
       /\ room' = room - sent
  /\ dead' = TRUE
  /\ sendBuffer' = buffer /\ sendStart' = start
  /\ ready' = TRUE
  /\ UNCHANGED <<noSpace, interest>>

-----------------------------------------------------------------------------
\* send_frame with a frame of n bytes, called for a reply of the frame layer or
\* by the application, from this or another client's handler.
Frame(n) == [i \in 1 .. n |-> serial + i]

Appended(frame) == Pending \o frame

\* Variant of Queued, rejected by TypeOK: send_start survives the new buffer.
QueuedKeepingStart(frame) ==
  /\ handed' = handed \o frame
  /\ AllSent(Appended(frame)) \/ WouldBlock(Appended(frame), sendStart, Appended(frame))

Queued(frame) ==
  /\ handed' = handed \o frame
  /\ \/ AllSent(Appended(frame))
     \/ WouldBlock(Appended(frame), 0, Appended(frame))
     \/ Fails(IF HasBuffer THEN Appended(frame) ELSE <<>>, 0, Appended(frame))

\* No memory to append the frame: the older bytes are sent as usual, and
\* send_frame returns what it does for them.
Dropped(frame) ==
  /\ HasBuffer /\ AllocMayFail
  /\ UNCHANGED handed
  /\ \/ AllSent(Pending)
     \/ WouldBlock(sendBuffer, sendStart, Pending)
     \/ Fails(sendBuffer, sendStart, Pending)

SendFrame ==
  /\ open
  /\ \E n \in FrameSizes :
       /\ serial + n <= MaxBytes
       /\ serial' = serial + n
       /\ Queued(Frame(n)) \/ Dropped(Frame(n))
  /\ UNCHANGED <<open, input, inputs, reported, merged>>

\* handle_connection with is_send: send_frame(client, NULL, -1).
HandleWrite ==
  /\ open /\ reported = "write"
  /\ reported' = "none"
  /\ \/ /\ ~ HasBuffer
        /\ UNCHANGED <<wire, sendBuffer, sendStart, dead, room, noSpace, interest, ready>>
     \/ /\ HasBuffer
        /\ \/ AllSent(Pending)
           \/ WouldBlock(sendBuffer, sendStart, Pending)
           \/ Fails(sendBuffer, sendStart, Pending)
  /\ UNCHANGED <<serial, handed, open, input, inputs, merged>>

\* handle_client_data reads until EAGAIN; the frames it meets may end the
\* connection, and close_client frees the pending bytes.
HandleRead ==
  /\ open /\ reported = "read"
  /\ reported' = "none" /\ input' = FALSE
  /\ \/ ~ dead /\ UNCHANGED open
     \/ open' = FALSE
  /\ UNCHANGED <<serial, handed, wire, sendBuffer, sendStart, dead, room,
                 noSpace, interest, ready, inputs, merged>>

HandleClose ==
  /\ open /\ reported = "close"
  /\ reported' = "none" /\ open' = FALSE
  /\ UNCHANGED <<serial, handed, wire, sendBuffer, sendStart, dead, room,
                 interest, ready, socket, merged>>

-----------------------------------------------------------------------------
Writable == interest /\ room > 0

\* run_event_loop: one event reports everything that holds now, and the loop
\* looks at EPOLLOUT only when EPOLLIN is not set.
EpollWait ==
  /\ open /\ reported = "none" /\ ready
  /\ ready' = FALSE
  /\ reported' \in IF dead THEN {"read", "close"}
                   ELSE IF input THEN {"read"}
                   ELSE IF Writable THEN {"write"}
                   ELSE {"none"}
  /\ merged' = (merged \/ (input /\ Writable /\ HasBuffer))
  /\ UNCHANGED <<serial, handed, wire, sendBuffer, sendStart, open, dead,
                 room, interest, socket>>

\* The peer takes bytes out of the kernel's send buffer.
PeerDrains ==
  /\ open /\ ~ dead /\ room < SocketRoom
  /\ room' \in room + 1 .. SocketRoom
  /\ noSpace' = FALSE
  /\ ready' = (ready \/ (noSpace /\ interest))
  /\ UNCHANGED <<serial, handed, wire, sendBuffer, sendStart, open, dead,
                 interest, input, inputs, reported, merged>>

PeerSends ==
  /\ open /\ ~ dead /\ inputs < MaxInputs
  /\ inputs' = inputs + 1 /\ input' = TRUE /\ ready' = TRUE
  /\ UNCHANGED <<serial, handed, wire, sendBuffer, sendStart, open, dead,
                 room, noSpace, interest, reported, merged>>

SocketDies ==
  /\ open /\ ~ dead
  /\ dead' = TRUE /\ ready' = TRUE
  /\ UNCHANGED <<serial, handed, wire, sendBuffer, sendStart, open, room,
                 interest, socket, reported, merged>>

EventLoop == EpollWait \/ HandleRead \/ HandleWrite \/ HandleClose

Next == SendFrame \/ EventLoop \/ PeerDrains \/ PeerSends \/ SocketDies

Spec == Init /\ [][Next]_vars

\* The loop never blocks while an event is ready, and the peer keeps reading.
FairSpec == Spec /\ WF_vars(EventLoop) /\ WF_vars(PeerDrains)

-----------------------------------------------------------------------------
\* Every variable keeps its type, and send_start stays inside the buffer.
TypeOK ==
  /\ serial \in Nat /\ handed \in Seq(Nat) /\ wire \in Seq(Nat)
  /\ sendBuffer \in Seq(Nat) /\ sendStart \in Nat /\ sendStart <= Len(sendBuffer)
  /\ room \in 0 .. SocketRoom /\ inputs \in Nat
  /\ {open, dead, noSpace, interest, ready, input, merged} \subseteq BOOLEAN
  /\ reported \in {"none", "read", "write", "close"}

\* While the connection works, the bytes on the wire followed by the pending
\* ones are exactly the bytes the stream took, in order: partial sends, appends
\* to a partly sent buffer and flushes neither lose, repeat nor reorder a byte.
Fifo == ~ dead => wire \o Pending = handed

\* Even when a call fails halfway, the peer sees a prefix of that stream.
WireIsPrefix ==
  /\ Len(wire) <= Len(handed)
  /\ wire = SubSeq(handed, 1, Len(wire))

\* So the peer sees what was sent to it in order, whatever fails.
WireInOrder == Fifo /\ WireIsPrefix

\* EPOLLOUT is registered exactly while bytes wait for it.
InterestMeansPending == open /\ ~ dead => (interest <=> HasBuffer)

\* Pending bytes are flushed or the connection ends, unless an event merged
\* "readable" and "writable": the edge that would flush them is never lost
\* otherwise, not even when the peer drains the socket between the failed send
\* and set_write_notify.
DrainsUnlessMerged == HasBuffer ~> (~ HasBuffer \/ ~ open \/ dead \/ merged)
=============================================================================
