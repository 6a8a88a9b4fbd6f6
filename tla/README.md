# Nitrows in TLA+

Nitrows is a WebSocket server library in C (RFC 6455 with permessage-deflate): one
process, one thread, non-blocking sockets, an edge-triggered event loop. This directory
holds TLA+ models of its control logic, the TLC configurations that check them on small
instances, and TLAPS proofs of invariants for all instances.

What makes the code hard is not threads. It is that every handler is a piece of a larger
operation the network cuts at arbitrary bytes, that state waits in tables keyed by a socket
descriptor the kernel reuses, and that an edge-triggered event is reported once. The models
are about these three things.

All paths below are relative to the repository (`src/frame.c` is the file of that name in
its `src` directory). The analysis is of the Linux build (`EPOLL`), except for `EventArray`,
which is about the two event loops that other systems get. Where the C library decides what the
code does, in `isdigit`, `Negotiation` has a constant for it.

## 1. The system

### Components

| component | state | operations |
|---|---|---|
| event loop (`events.c`) | epoll set, array of 16 events; with kqueue and poll an array of what is watched | `init_event_loop`, `add_to_event_loop`, `delete_from_event_loop`, `set_write_notify`, `run_event_loop` |
| listener (`net.c`) | the listening socket | `get_listener_socket`, `accept_connection` |
| connection handling (`server.c`) | none of its own | `handle_connection`, `handle_upgrade`, `handle_client_data`, `send_frame`, `close_connection`, `close_client` |
| incomplete-request table (`header.c`) | 128-slot hash table by descriptor: bytes of a request received so far | `add_request`, `get_request`, `delete_request` |
| header validation (`header.c`) | none | `validate_headers`, the parsers of extension parameters |
| extension registry and offers (`extension.c`) | registered extensions; hash table by descriptor of what a request offers | `register_extension`, `get_extension_list`, `delete_extension_list`, `validate_extension_list` |
| client table (`clients.c`) | hash table by descriptor: parser state, buffers, pending output, status | `init_client`, `get_client`, `delete_client` |
| frame layer (`frame.c`) | lives in the client | `extract_header_data`, `handle_control_frame`, `handle_data_frame`, `send_close_status`, `send_pong_frame`, `send_data_frame`, `start_closing` |
| permessage-deflate (`permessage-deflate.c`) | hash table by descriptor: zlib streams and window sizes | validation and answer of an offer, `process_data`, `generate_data`, `close` |
| UTF-8 and base64 (`utf8.h`, `base64.h`) | none | pure functions |
| public interface (`nitrows.c`, `handlers.c`) | one message handler | `nitrows_run`, `nitrows_send_message`, `nitrows_close`, registration |

### How they interact

`run_event_loop` blocks in `epoll_wait` and handles the batch of events it returns in order.
An event of the listener leads to `accept_connection`, which accepts one connection and adds
its descriptor to the loop. Any other goes to `handle_connection`, which asks the client
table: a descriptor with a client goes to the frame layer (`handle_client_data`) or, if the
event says "writable", to `send_frame(client, NULL, -1)`; one without goes to
`handle_upgrade`, which collects a request over any number of calls, validates it, answers it
and creates the client. The frame layer feeds what `recv` brings to an incremental parser and
calls the application's message handler from inside it; the handler may call
`nitrows_send_message` and `nitrows_close` for this or any other client.

So handlers communicate through three tables keyed by descriptor, the client record, and the
kernel (send buffer, epoll's ready list, descriptor numbers).

### What is hard, and what correctness means there

* **Incremental parsing.** A header, a mask or a payload may span calls, one buffer may hold
  several frames, control frames come between fragments, and the same payload reaches the
  message by three routes: used in place, copied, or received straight into the frame buffer.
  *Correct*: the effects (pongs, messages, close frames) are those of whole frames handled in
  order, however the stream is cut; the buffer is never overrun; no frame waits for a byte
  that it does not need.
* **Partial sends.** `send_start` and `send_buffer_size` change on four paths. *Correct*: what
  the peer sees is the stream of frames, no byte lost, repeated or out of order, and pending
  bytes are flushed.
* **Edge-triggered events, batches, reuse.** A batch is handled after `epoll_wait` returned,
  while handlers close descriptors and `accept` reuses them. *Correct*: a handler runs for
  the connection the event was about, an edge is never lost, nobody starves, a call that may
  block never does.
* **Tables that outlive connections.** *Correct*: what a table holds for a descriptor belongs
  to its present connection; a descriptor has an incomplete request or a client, not both.
* **Streams that outlive messages.** A zlib stream goes on where the last message left it, and
  a message that ends in an unusual place spoils the next one. *Correct*: both sides read what
  was sent, with the settings both agreed on.
* **An application that remembers.** It knows clients by their descriptors and is not told when
  one is gone. *Correct*: an id that is good works, and goes to whom it means.
* **An array that moves.** With kqueue and poll, handlers add, move and delete entries of the
  array the loop is walking over. *Correct*: everybody open is in it once, and is served.
* **Partial failure.** Allocation, `send` and `recv` fail between two steps. *Correct*: the
  rest of the state still describes what was done.

`PROJECT.json` lists each of these hazards with its line and the properties that cover it,
and says of the uncovered ones why.

## 2. The modules

| module | code | kind |
|---|---|---|
| `Frames` | `defs.h`, pure helpers of `frame.c` | constants, frame descriptors, wire bytes, `Unmask`, the answer to a close frame |
| `FrameStream` | what the frame layer promises | abstract specification, one whole frame per step |
| `FrameReader` | `handle_client_data`, `frame.c` | byte-wise parser; implements `FrameStream` |
| `FrameReaderProofs` | | TLAPS proofs: types, memory, and that `FrameReader` implements `FrameStream` |
| `OutputBuffer` | `send_frame`, `set_write_notify`, the write branch of the loop | detailed specification of one client's output |
| `OutputBufferProofs` | | TLAPS proofs |
| `EventLoop` | `run_event_loop` with epoll, `accept_connection`, descriptors | all connections, abstract handlers |
| `EventLoopProofs` | | TLAPS proofs |
| `EventArray` | the kqueue and poll parts of `events.c` | the array, the kernel's copy, descriptors, abstract handlers |
| `EventArrayProofs` | | TLAPS proofs |
| `Handshake` | `handle_upgrade`, `validate_headers`, the three tables | successive connections on one descriptor |
| `HandshakeProofs` | | TLAPS proofs |
| `Negotiation` | `parse_extensions`, `get_extension_params`, `validate_extension_list`, `pmd_validate_offer`, `pmd_respond` | one request, a character at a time |
| `NegotiationProofs` | | TLAPS proofs |
| `Deflate` | the rest of `permessage-deflate.c`, its callers in `frame.c` | configuration table and zlib streams of successive connections |
| `DeflateProofs` | | TLAPS proofs |
| `Application` | `nitrows.c`, `send_data_frame`, `start_closing`, the handler call | what an application does to all clients |
| `ApplicationProofs` | | TLAPS proofs |
| `MCFrameReader`, `MCOutputBuffer`, `MCHandshake`, `MCEventArray`, `MCNegotiation`, `MCDeflate`, `MCApplication` | | instances for TLC |

The models meet at named points. `Handshake` takes the verdict on the extension headers as
data; `Negotiation` says how it comes about and which settings result. `FrameReader` takes the
outcome of `process_data` as a choice; `Deflate` says which outcome when. What the application
sends is a frame of `Application`, whose payload `Deflate` compresses and whose bytes
`OutputBuffer` gets out. `Frames` is shared by the two specifications of the frame layer.

Definitions named `...` with a comment "Variant, rejected by P" are plausible slips of the
code; replacing the definition that follows by the variant makes TLC reject property P. They
are not part of the specifications.

### Frames, FrameStream, FrameReader

A frame is a descriptor (fin, reserved bits, opcode, masked, form and value of the length,
close status, "continues well-formed text") and a byte is a position inside a frame with a
flag telling whether the mask is on it. The parser branches on what a byte means, so nothing
is lost; that a byte is read as what it was sent as is then a property (`InSync`) and not an
assumption. `Unmask` depends on the position as XOR with a 4-byte key does: unmasking a byte
twice, or from the wrong start, leaves it masked.

| `FrameReader` | code |
|---|---|
| `received`, `parsed` | bytes `recv` brought, bytes consumed (`total_read` and its predecessors) |
| `pc` | where `handle_client_data` is: not running, before `recv`, in the inner loop, client gone, undefined behaviour reached |
| `into`, `toRead` | the target of `recv` (stack array or frame buffer) and `to_read_size` |
| `current`, `headerSize`, `lengthCode`, `maskSize` | `current_frame_type`, `header_size`, `current_header[0]`, `mask_size` |
| `control`, `data` | `control_frame`, `data_frame`; `filled_size` is `Len(data.bytes)`, `buffer` tells NULL, heap and the caller's stack array apart |
| `ReadEvent`, `Recv`, `RecvAgain`, `EndBuffer` | the loops of `handle_client_data` and its choice of the next target |
| `GetFrameType`, `GetPayloadData`, `CopyMask` | `extract_header_data`; one step per stage |
| `HandleControlFrame` | `handle_control_frame`, including the close or pong it sends and `close_client` |
| `HandlePartialData`, `HandleFragment`, `RefuseGrowth`, `RefuseText`, `RefuseCompressed`, `DeliverMessage`, `DeadBufferUsed` | `handle_data_frame`, by outcome |
| `StartClosing` | `start_closing` called while another client is served |
| `PeerSends`, `PeerGone` | the network |

Outputs are recorded in `effects`; whether their bytes get out is `OutputBuffer`'s question,
and that `send_frame` may fail is a choice where the code looks at its result (pong). zlib is
external: `InflateResults` lists what `process_data` may give ("inflated", "empty", "failed").

`FrameStream` has one action per whole frame: refuse it with a status, drop a fragmented
control frame, answer a close, answer or ignore a ping or pong, take a fragment, deliver or
refuse a message. It knows no buffers, offsets or calls of `recv`. The refinement mapping is
`Whole` at the end of `FrameReader`.

### OutputBuffer

A byte is a serial number, so order and identity are visible. `sendBuffer`, `sendStart` are
the fields of the client; `sendBuffer` is empty when the pointer is NULL. The socket is
external: `room` free bytes, `noSpace` the flag that makes the next drain wake the poller,
`interest` whether EPOLLOUT is registered, `ready` epoll's entry. `SendFrame` is one call with
a frame (by the frame layer or the application), split by what the send loop meets: all is
sent, EAGAIN, an error, or no memory to append. `HandleWrite` is the flush, `HandleRead` and
`HandleClose` the other branches of the loop, `EpollWait` what epoll reports.
`WouldBlock` lets the peer drain between the failing `send` and `epoll_ctl`.

### EventLoop

`ready` is epoll's list in order, `batch` what is left of the last `epoll_wait`, `owner` who
has which descriptor, `pending` who sent or hung up since its handler last ran. `epoll_wait`
walks along the list until its batch is full (`Seen`) and reports the places where there still
is something (`Live`); the others stay, in order (`Kept`). Handlers are
abstract: they deal with what is pending and may close their own descriptor. That they close
no other is read off the code (`nitrows_close` sets a status; a failed `send` sets nothing),
and the property `EventsReachTheirConnection` depends on it, as the variant
`HandleAndCloseAnother` shows.

### EventArray

`build` chooses between kqueue and poll, whose code has the same shape. `objects` is the array,
an entry being its descriptor, which filter it is (kqueue has two per descriptor), whether
output is asked for (`out`), and what `poll` last wrote to it and for whom (`revents`, `conn`).
`size` is what the code believes to be allocated and `capacity` what is: they come apart when
`realloc` fails. `kernel` is kqueue's own copy, changed only by `kevent` (`Applied`), which
stops at an entry it cannot take. `batch` and `walk` are where the two loops are.

| `EventArray` | code |
|---|---|
| `AddToEventLoop`, `DeleteFromEventLoop`, `SetWriteNotify` | the functions of these names, both variants |
| `Grow`, `Full`, `Sparse`, `Moved` | doubling, halving, and the move of the last entries into the gap |
| `KEventWait`, `KEventNext` | `run_event_loop` with kqueue |
| `Poll`, `PollNext` | `run_event_loop` with poll; the end of the array is looked at in every pass |
| `AtMinusOne` | the pass has come to a failed accept's -1, whose garbage `revents` say ready; what `get_client(-1)` finds is undefined, and the model stops |
| `AcceptConnection` | `accept_connection`, which adds -1 when `accept` fails |
| `HandleInput`, `HandleOutput` | `handle_connection`, by what it does to the array |

### Negotiation

The input is what a peer writes for a request of `Requests` (`WrittenHeader`), which is
remembered as `meant`, or any header values of `OtherLines`. What a peer may write is every
sequence of offers, spread over headers in any way: tokens of letters and digits of at most
`TokenLength`, names that are not numbers, values in quotes or not, any number of spaces in front
of a token (`WritableParams`, `WritableOffers`). A letter is a character
the parser looks at, a digit, or a piece of a word whose characters it does not tell apart, so
that "client_" is a prefix of two known names as in the code. `p`, `start`, `length`,
`inQuote`, `hasExtension` are the locals of `parse_extensions`; `list` is the `ExtensionList`,
`current` the two parts of `current_params`. One step reads one character (`Quote`,
`SkipSpace`, `TakeLetter`, `EndExtension`, `EndParam`); `EndHeader` is what follows the loop,
`NextHeader` the start of the next header, `Validate` the whole of `validate_extension_list`
and the response. `ValidateOffer` is the loop of `pmd_validate_offer` by the place where it
stops. The peer's side (`MeantOffer`, `Asked`, `Heard`, `IsLegal`) is the reference the
properties compare with, from RFC 7692; `IsLax` is what the code takes besides (leading zeros, and
`server_max_window_bits` without a value).

`IsDigit` is what `isdigit` returns for a digit. `__add_extension_param_value` combines it by
`&=` with a `bool`, so that only its lowest bit counts (`TellsNumbers`): where it is 1, as with musl
or on macOS, a token of digits is a number; where it is 2048, as with glibc and so in the usual
Linux build, no token but the empty one is, every number is listed as text, and `IsAcceptable` has no
parameter with a value. The run takes 1, since with 2048 all that is behind a number is dead; its
four invariants are also found to hold with 2048, and are proved for every value.

### Deflate

`table` is one chain of `pmd_config_table`, newest entry first, shared by descriptors with the
same hash. An entry has the agreed settings and two streams; a stream is where it stands
(`none`, `unset` when its initialisation failed, `block`, `trailer` when the lengths of an empty
block are due, `end`) and which messages its window holds. `peer` has the same of the other
side: what its compressor and decompressor hold. `leftover` tells that the deflater kept part
of a message it could not finish. `HandleUpgrade` puts the configuration in the table before it is known
whether the response is sent. `ProcessData` is the entry to `pmd_process_data`; each pass of its
loop is `InflateAgain` (the buffer is full), `InflateReturns`, `InflateFails` or `NoBuffer`.
`GenerateResponse` is `pmd_generate_response` with what `send_data_frame` does about its result.
`seen` collects what went wrong with messages. `failed` has the connections whose `inflateInit2` or
`deflateInit2` failed, `misused` the calls of zlib on a stream that is not initialised, each
with what was called and the connection it served. Such a call is undefined, and the model stops
there (`Idle`).

### Application

The application runs in its handler (`handling`) and may send to, or close, any id in `known`,
each remembered with the connection it meant. `type` is `data_frame.type`, from which a sent
message takes its opcode; `status` the client's status. `late` and `inOwn` count what is handed
over after `nitrows_close`. `Crash` is the use of an id that `get_client` does not find.

### Handshake

One descriptor and the connections that own it in turn. A request is a sequence over "x", "r",
"n" with what its required headers and its optional ones (extensions, subprotocol) amount to; an
optional one may be malformed, which refuses the whole request as a bad required one does.
Validation may see a part of it, because the end is guessed (below) or because the beginning was
given up (`DropTooLarge`, after which a call that brings fewer than three bytes passes for a GET).
A part from the beginning lacks a required header, has one that is bad, or is found valid when all that
is cut off is optional, malformed or not (`Verdict`); of a part without the beginning anything may be
found. `request`, `offers` and `client` are the descriptor's
entries in the three tables. `Recv` is one successful `recv` with the test for the terminator
and, when it succeeds, everything up to the end of `handle_upgrade`; `RecvZero`, `RecvError`
and `RecvAgain` are the other results. `MayEnd` includes the comparison that reads in front of
`buf` when fewer than four bytes have come: there it may go either way. The last append of
`handle_upgrade` can exceed the stored buffer (`overrun`); the model stops there, since what
follows is undefined.

## 3. The runs

| run | question | result |
|---|---|---|
| `FrameReader` | three frames from 24 kinds, cut in every way | types; `MemorySafe`; `InSync`; every frame is dealt with; implements `FrameStream` |
| `FrameReaderExtensions` | the same with permessage-deflate, inflation failing or empty, `realloc` failing | implements `FrameStream` |
| `FrameReaderStackBuffer` | is the frame buffer free between messages? | violated, see findings |
| `OutputBuffer` | up to 7 bytes in frames of 1 and 3 against a kernel buffer of 2, two inputs, failing allocations and sockets | types; `WireInOrder`; `InterestMeansPending`; flushed unless an event was merged |
| `EventLoop` | 4 connections, 3 descriptors, batches of 2, backlog of 2 | events reach their connection and `accept` never blocks; no edge lost; nobody starves; connections are accepted unless merged |
| `EventArray` | both loops, 4 connections, 3 descriptors, arrays that start at 2 and 3 | the array is complete and within its memory; watches follow output; reports reach their connection; nobody is forgotten |
| `Handshake` | 2 connections in turn, 8 kinds of request, cut in every way, hang-ups and resets | tables are about the present connection; only valid upgrades; whole requests are decided |
| `HandshakeStaleOffers` | are accepted extensions offered by this request? | violated |
| `Negotiation` | 26,229 sets of headers: well-formed in eight styles, mutilated by one letter, and short ones of any form | parsed as meant; accepted as offered; both sides agree |
| `Deflate` | 2 connections, 2 descriptors of one chain, 3 messages either way, 5 shapes, 3 settings | configurations stay with their connection; both sides read what was sent; a failed initialisation stays with its connection; the loop ends |
| `DeflateExactFit` | is a valid message ever rejected? | violated |
| `Application` | 3 connections on 2 descriptors, 4 messages, any use of any id | replies and ids are good; a crash only by a dead id; closes take effect |

What the less obvious properties say:

* `InSync` (FrameReader): the next unread byte belongs to the frame under way and is the byte
  of header, mask or payload that the parser's counters expect. It fails when any route
  (in place, copy, direct) miscounts by one byte anywhere.
* `MemorySafe`: copies and direct receives stay inside the frame buffer, the buffer stays
  within `MAX_PAYLOAD_SIZE`, control payloads within 125; without an extension no foreign
  pointer is used or freed.
* `ImplementsFrameStream`: whatever the cuts, the effects are those of a specification that takes
  one whole frame at a time; that nothing follows a close frame or a refusal is part of it.
* `WireInOrder`: while the socket works, what the kernel took followed by what is pending is
  exactly the sequence of bytes that the stream accepted (`Fifo`); when a send fails halfway
  the wire still holds a prefix of it (`WireIsPrefix`).
* `DrainsUnlessMerged`: pending bytes are flushed or the connection ends, unless one event
  said readable and writable together. The first half covers the drain between the failing
  `send` and `epoll_ctl`.
* `EdgesAreKept`: who waits for its handler is on the ready list or in the batch.
* `UpgradedIsValid`: a client has the required headers although validation may see only a part of the
  request, a refused method goes on to be validated, and values and presence are checked in two
  places. It says nothing of a client made of the rest of a request whose beginning was given up.
* `WholeRequestIsDecided`: a request that has arrived whole is answered, or given up, unless
  a call ended inside its final `\r\n\r\n` (`split`) or the model stopped (`overrun`).
* `ArrayIsComplete` (EventArray): deletions move the last entries into the gap while the loop is
  in the middle of the array; still everybody open is in it exactly once, kqueue's two entries
  stay together and in order, on which `set_write_notify` relies.
* `InputReachesItsConnection`: an event, or what `poll` reported, is handled for the connection it
  was reported for. The exceptions are in the formula: room to write may be handled for the
  next connection on the descriptor, and a new entry of poll has no report but may hold garbage.
* `ParsedAsMeant`: however a request is spread over headers, spaced and quoted, the list holds
  what the peer meant; `PeersAgree` holds for every input, meaningful or not: what the response
  says and what the configuration holds are the same, with windows of 8 to 15 bits (for 8, which
  zlib turns down, see the findings).
* `ConfigIsOfThisConnection`: configurations of handshakes that came to nothing stay in the table;
  the client still finds its own, because entries are added and searched from the head and
  `pmd_delete_from_table` takes off the first.
* `DecodedAsSent`, `PeerReadsWhatWasSent`: the streams of both sides stay in step, message after
  message, with and without context takeover, in the order they are cut, buffered and reset.
  Excused are only the cases their comments name: of the first an empty message and, on a stream that
  is kept, what follows a last block or an exact fit; of the second what follows a close frame.
* `StreamsAreInitialised`: initialisations fail at any time. A failed `inflateInit2` costs the client
  its connection before `inflate` could meet the stream; a failed `deflateInit2` does not, and the
  next message, or the close, is the misuse (an exception that is in the formula, as it happens).
  It is confined to the connection whose own call failed: no other, on the same descriptor or
  in the same chain, gets that stream.
* `RepliesAreTheirs`, `OpenClientsAreFound`: the precise conditions under which an id the
  application kept is good; beyond them a frame goes to a stranger or the process crashes.

### Bounds, and why they are enough

* `FrameReader`: `BUFFER_SIZE` 2 and `MAX_PAYLOAD_SIZE` 8. All size tests of the code compare
  payloads with the rest of a buffer, its size and the limit; with payloads of 0, 1, 2, 3, 6,
  7, 9 bytes every comparison comes out both ways: empty, in place, over several buffers,
  received directly (the buffer has more than `BUFFER_SIZE` free), grown with and without
  rounding, too large alone and with earlier fragments. Three frames are a first fragment,
  something between (control, refusal, fragment) and a last fragment, or a message after a
  message; each state the parser keeps between frames is reset after at most that. `TypeOK` and
  `MemorySafe` are proved for any sizes and any number of frames. Header
  lengths (1, 3, 9, mask 4) are the real ones.
* `OutputBuffer`: the longest interesting sequence is a partial send, an append to it, a
  partial flush, an append behind a sent part and a complete flush: 1+3+3 bytes against 2. The
  safety properties do not rest on the bound, they are proved.
* `EventLoop`: more connections than descriptors (reuse, and a failing `accept`), more ready
  descriptors than a batch, more connections waiting than one event accepts.
* `EventArray`: with sizes of 2 (kqueue) and 3 (poll) three connections make the array grow twice
  and closing them makes it shrink; a fourth connection reuses a descriptor; one output is
  enough to have a watch that a later connection could inherit. `realloc` may fail at each step.
* `Negotiation`: up to three offers, two parameters each, every known name, values that are
  absent, good, with a leading zero, too small and no number; written in eight ways; each of three of them with one
  letter added, lost or replaced at every place; all headers of up to four of eight letters
  behind the name, alone, or after a header that ends inside a parameter. `TokenLength` is 3
  letters, which four pass. The invariants do not rest on these bounds, they are proved for all
  requests and headers.
* `Deflate`: buffers of twice the input, so that outputs of 2 and 4 fit exactly and 3 does not;
  three messages are one that spoils a stream, one that meets it and one after that. Two
  descriptors in one chain and two connections show every order of entries that deletion by
  descriptor can meet.
* `Application`: three connections on two descriptors: a reuse while another id is alive. All its
  invariants are proved for any numbers.
* `Handshake`: two connections show everything that one can leave to the next. A buffer of 9
  for a request of 8, and one request of 11: fits whole, fits in parts, is too large. The
  table invariants are proved for any number.

### Fairness

* `WF(Server)`, `WF(EventLoop)`, `WF(RunEventLoop)`: one thread runs `for (;;) epoll_wait`
  with no timeout; it blocks only when no event is ready, and handlers use non-blocking
  sockets. The one call that could block, `accept` on the blocking listener, is what the
  second half of `EventsReachTheirConnection` is about. Nothing stronger is needed: epoll's list is first in, first
  out, and it is modelled so, which is why weak fairness of the loop as a whole serves every
  connection. `FrameReader` leaves out the edge itself: the code reads until EAGAIN, so bytes
  that come later raise a new edge.
* `WF(RunEventLoop)` of `EventArray` is the same thread with kqueue or poll. Both report levels, and
  a call reports everything that is ready (at most seven events here, of the sixteen kqueue's
  loop has room for).
* `WF(InflateLoop)` in `Deflate`: the loop of `pmd_process_data` runs without waiting for anyone.
  `NoBuffer` is not in it: that memory runs out is not counted on to end the loop.
* `WF(PeerDrains)` in `OutputBuffer`: flushing is promised only to a peer that goes on reading.
* Peers are otherwise under no obligation: they may stop, hang up or reset at any time, and
  no fairness is assumed of connecting or sending.

`CHECK_DEADLOCK FALSE` is set throughout because the environment is bounded: when the last
frame, byte or connection has been used and everything is handled, the system waits, which is
what a server does (and a request, or a crashed process, simply ends). That it does not stop earlier is what the liveness properties state.

## 4. Findings

Each run that is expected to fail states what a comment or a header of the repository says.

1. `FrameReaderStackBuffer` (`frame.c:471`): with an extension, a message used in place and not
   inflated leaves `data_frame.buffer` pointing into the stack array of `handle_client_data`,
   with `filled_size` set; the next data frame, or `close_client`, uses or frees it.
2. `HandshakeStaleOffers` (`header.c:414`): offers of a request without a required header stay
   listed and are accepted for the next connection on the descriptor.
3. `DeflateExactFit` (`permessage-deflate.c:256`): a message that becomes exactly as long as the
   buffer gets no trailer (the loop goes round once more, `inflate` answers `Z_BUF_ERROR`,
   and the loop ends); when the stream is kept, the next message is rejected as invalid.

Other behaviour that a reader of the comments would not expect is part of the models and named
as an exception, or as the bound, in a property that holds:

| behaviour | where | in |
|---|---|---|
| `nitrows_close` only sets a status: one more message may be delivered, an idle client is never closed | `frame.c:587` | `NoMoreAfterClose` |
| a message sent from another client's handler has the type of what its receiver is sending, all bits set if nothing | `frame.c:552` | `RepliesAreTheirs` |
| an id of a client that is gone crashes the process or reaches a stranger | `frame.c:529`, `frame.c:586` | `OpenClientsAreFound`, `RepliesAreTheirs` |
| an edge readable and writable together leaves pending bytes for ever | `events.c:59` | `DrainsUnlessMerged` |
| a frame that cannot be appended is dropped and `send_frame` returns true | `server.c:331` | `Dropped`, `WireInOrder` |
| one accept for one edge: of two connections that arrive together one waits for a third | `net.c:88` | `AcceptedUnlessMerged` |
| a malformed optional header is not seen where the end of the request is guessed in front of it, and the client is created | `server.c:165`, `header.c:350` | `Verdict` in `Handshake` |
| after a request that is too large its rest may be taken for a request, and upgraded on the headers that are in it | `server.c:198`, `server.c:133` | `UpgradedIsValid` |
| four ways to give up a handshake leave the connection open | `server.c:221` | `KeepOpen` in `Handshake` |
| with kqueue, the -1 of a failed accept stays in the array, and what stands behind it is not registered with the kernel | `events.c:94` | `EveryoneIsServed` |
| with poll, the -1 of a failed accept is looked at in the pass that added it, with `revents` nobody wrote: if they say ready, `get_client(-1)` reads in front of `clients_table` | `events.c:275`, `events.c:206`, `clients.c:42` | `AtMinusOne` in `EveryoneIsServed` |
| size doubles although `realloc` failed | `events.c:86` | `WithinAllocation` |
| a compressed message that is empty reaches the application compressed | `frame.c:423` | `DecodedAsSent` |
| a stream that is kept is not read again after a last block | `permessage-deflate.c:232` | `DecodedAsSent` |
| with glibc `isdigit` gives 2048, which `&=` on a `bool` makes false: no number is recognised, and an offer with a legal window (`client_max_window_bits=10`) is refused with the whole request | `header.c:215` | `IsAcceptable` in `AcceptedAsOffered`, `MeantParam` in `ParsedAsMeant` |
| `server_max_window_bits` without a value, which RFC 7692 does not allow, is taken as 15; so are leading zeros | `permessage-deflate.c:102` | `IsLax` in `AcceptedAsOffered` |
| where numbers are recognised, the window of 8 bits is accepted, but zlib has no raw deflater for it: the first message is not sent, and the second is given to a stream that is not initialised | `permessage-deflate.c:277` | `StreamsAreInitialised` |
| a message that cannot be compressed is answered by a close frame, and the client stays | `frame.c:544` | `PeerReadsWhatWasSent` |
| the offers after a refused one are never tried: what prepares for them cannot be reached | `permessage-deflate.c:136` | `AcceptedAsOffered` |
| a space in front of a separator belongs to the token; a name cut short is taken for the whole; `permessage-deflate;;x` is accepted with defaults | `header.c:275`, `permessage-deflate.c:84`, `permessage-deflate.c:74` | only well-formed headers are promised in `ParsedAsMeant`, all in `PeersAgree` |

## 5. The proofs

### FrameReaderProofs

Assumed: `FramesAssumption` (each frame is a frame descriptor) and `SizesAssumption` (a positive
buffer size that divides the payload limit, as 4096 divides 100 * 1024 * 1024 in `defs.h`; the
mask in the code rounds up as `RoundUp` does because 4096 is a power of two). Proved, for
every sequence of frames, every way the network cuts it and every size: `TypeOK` and
`MemorySafe`.

`MemorySafe` is far from inductive: that a copy fits depends on a test made when the first
bytes of the frame arrived, and the copy itself tests nothing. The invariant says when room
was made. `NoRoomYet`: nothing of the frame under way is stored and less than `BUFFER_SIZE`
bytes are free, too few for a direct receive, so the next bytes go through the test.
`RoomMade`: some of the frame is stored, the rest of it fits, and behind it less than
`BUFFER_SIZE` bytes are free, so that the end of the frame leads back to `NoRoomYet`.
`BufferInOrder` says a heap buffer is always in one of the two, `DirectInOrder` that a direct
receive happens in the second and takes no more than the frame still lacks.
`RoundUpBounds` gives the growth: rounding up adds less than `BUFFER_SIZE`, and does not pass the
limit because the limit is a multiple. `HeaderInOrder`, `WireOfStream` and `ControlFits` tie the
lengths to the header bytes: a length is within its limit from the moment it is accepted.
`DataFacts`, `TakenNowFacts`, `RoomFacts` and `StoredFacts` collect what holds while a data frame
is handled; each action then keeps the parts it can disturb.

Proved in the second half of the module, from the same assumptions, for every sequence of frames,
every cut, every size, with and without an extension: `FrameReader` implements `FrameStream`
(`ImplementsFrameStream`), the lemmas of each action saying which step of the abstract
specification it is, or that nothing a peer or the application sees changes; and `InSync` for
a server without an extension.

The abstract server takes a frame out of a sequence; the detailed one has a wire of bytes and
five counters. `RInv` connects them. `OnTheWire`: the parser stands behind whole frames and,
inside the one that follows, as far as its counters say (`Consumed` is the sum of them).
`HeaderIsOfFrame`, `ControlIsOfFrame`, `DataIsOfFrame`: what it has taken over from the header is
what the frame has, and what it has stored are the unmasked bytes of its payload, in order.
`BufferIsOfMessage`: fragments are in front of them only if a message is under way. The step that
ends a frame has then the whole payload in hand, and its effect is that of the abstract
step on `ThisFrame`. `LiesIn` and `Laid` say where frames lie on the wire, `PayloadBytes` and
`UnmaskedPayload` that the bytes taken between two counters, once unmasked, are the payload.

`InSync` with an extension is proved with one restriction (`InSyncOutOfPlace`): not while the
buffer of the data frame is the caller's own array, used in place and left behind by an empty
inflation (the finding `FrameReaderStackBuffer`). `Filled` then counts bytes that belong to
another frame, so that the next byte of this one is looked for in the wrong place. The
refinement holds all the same, as the model goes no further than the first use of that buffer
(`DeadBufferUsed`).

### OutputBufferProofs

Assumed: `OutputAssumption` (sizes are positive naturals; the kernel's buffer is not empty),
nothing about how many frames, bytes or inputs there are. Proved: `IInv` always holds, hence
`TypeOK`, `WireInOrder` (with its halves `Fifo` and `WireIsPrefix`) and `InterestMeansPending`.

`IInv` adds `StartInBuffer` to these: a buffer that exists has at least one unsent byte, and
without a buffer `send_start` is 0. `Fifo` alone is not inductive: with a fully sent buffer
still in place, "buffer" and "pending bytes" would come apart, and EPOLLOUT would be
registered with nothing to send. The argument per action: `Split` and `Advance` say that moving
the front of a queue to the end of the wire keeps their concatenation; `SendLoop` applies them
to the three ways the loop ends, for any queue that extends the stream; `SendFrameStep` and
`HandleWriteStep` choose the queue (the frame, the pending bytes, or both); `FailedSend` covers
a socket that dies, where only the prefix remains; all other actions leave the stream alone
(`OtherStep`).

### HandshakeProofs

Assumed: `HandshakeAssumption` (at least one request, each a well-typed record; a positive
buffer size). Proved, for any set of requests and any number of successive connections:
`TypeOK`, `RequestIsOfThisConnection`, `RequestIsUnanswered`, `UpgradedIsValid`,
`OffersAwaitAnAnswer`.

The invariants need each other and one strengthening, `CallsAndAnswers`: a call of
`handle_upgrade` runs only for an open descriptor without a client, an open descriptor was
not refused with a status, and one that was answered with 101 has its client. Without it a
call could store bytes for a descriptor that a client already has. `Decision` collects what
`validate_headers` and the answer may leave behind, whatever part of a request they saw, and
`JudgedFromItsBeginning` that a part which begins where the request does is found valid only
if nothing required is missing or bad;
`CallEnds` does the same for a call that ends without a decision; each action is one of
these or touches no table.

### EventLoopProofs

Assumed: `LoopAssumption` (the listener is none of the other descriptors; the bounds are positive).
Proved, for any number of descriptors and connections, any backlog and any batch size: `TypeOK`,
`EventsReachTheirConnection` and `EdgesAreKept`.

An event goes stale if its descriptor is closed, or if the last waiting connection is accepted,
between `epoll_wait` and its turn. Neither happens because of `Once`: a descriptor is on the list
once and in the batch once, so the handler that closes its own descriptor, or the one `accept`
of a batch, is the last to be run for it. A descriptor that `accept` hands out is free, and
no event is about a free one. `BacklogIsNew` (whoever waits to be accepted has no descriptor)
gives that an acceptance neither makes a connection own two descriptors nor finds input that
is already counted as reported. `KeptFacts`, `WokenFacts`, `TailFacts` and `NextEventFacts` say
what the operations on the list and the batch keep; `OtherEventsReach` is the part about stale
events that the three handling steps share.

### EventArrayProofs

Assumed: `ArrayAssumption` (descriptors are naturals, the listener is none of those of connections;
the initial sizes are positive, that of kqueue even). Proved, for kqueue and poll and for any
descriptors, sizes and numbers of connections and outputs: every invariant of the run.

The array is seen as a set of rows, of one entry (poll) or of two (kqueue): `Sound` says that
they are whole, in order and one to a descriptor. `RowAdded`, `RowDeleted`, `RowSet` and
`RowsRewritten` say what each operation does to an array that is sound, `RowIsFound` that the
search finds the beginning of the row: that `set_write_notify` takes the entry behind the one
found, and deletion moves two, is right only because of it. With that the invariants
become plain facts about rows (`Complete`, `OutputsInRows`, `KernelHas`).
`WellSized` needs that the size was reached from the initial one by doubling (`Doubled`): the
size is then even when rows have two entries, so that a whole row fits while the array is not
full, and halving loses nothing.
`BatchInOrder` is the invariant behind `InputReachesItsConnection`: kqueue reports reading and writing
separately, so one of two events for a descriptor may come after the other closed it. The event
for reading is the one that closes, except where the descriptor has no client; that is why
the invariant adds that a descriptor with both events has one. `WalkInOrder` is its
counterpart for poll, where `EntriesStay` says what each handler does to the entries not yet
walked over: they stay, or are new, because a handler deletes no row but its own, and the
row that takes its place is skipped.

### NegotiationProofs

Assumed: `NegotiationAssumption` (a positive token length; the letters are none of the characters
the parser looks at; requests are made of what a peer may write, other header values are of the
alphabet) and `NamesAreWhole` (what a peer writes is no proper prefix of a name permessage-deflate
knows; only `AcceptedAsOffered` needs it, as the code takes a prefix for the name). Proved, for
every alphabet, token length, result of `isdigit`, set of requests and set of other headers: every
invariant of the run (`TypeOK`, `PeersAgree`, `ParsedAsMeant`, `AcceptedAsOffered`).

`NInv` holds whatever is read. Two of its parts are what the code relies on without testing:
every extension is listed once (`Once`), so that all offers to it are under one entry, and only
the last parameter of an entry may wait for its value (`OpenIsLast`), so that
`__add_extension_param_key`, which takes the first one that waits, takes the one it should, and
nothing behind it is lost. `PeersAgree` rests on the second and on `CurrentInOrder`: a parameter
that ends an offer has its value, even if nothing was written for it. The loop of
`pmd_validate_offer` accepts where an offer ends, or at a parameter without a name, and what it
took before was closed, in range and told the peer (`AcceptedFacts`, `HeardIsConfig`). How numbers are
told enters in `NumberTold`, and through it in what is listed (`MeantIs`) and accepted
(`AcceptableIs`).

`ParsedAsMeant` speaks of the end of a parse; what holds during it is `ReadAsMeant`. It says that
there are a `done`, `os`, `rest` which together are what was meant, offers read, offers
left of this header (the first being the one at hand) and headers left, and within the offer
the parameters `ready` and `left`, such that the parser is in one of four places (`Position`):
between headers, at the name of an extension, at the name of a parameter, at its value. In each,
the rest of the line is what the peer writes of what is left, and the list is what it has to be
for what was read (`Tells`: the extensions named so far, each with the parameters of its offers in
order, the unfinished one included). A token is then read by three facts about any text written
in front of a separator, in quotes or not (`AtToken`): quotes, spaces and letters keep it, a
separator ends it only where the peer wrote one, and the letters counted until then are the
token (`LetterTaken`, `TokenRead`). What ends at the separator completes a name, a parameter or an
offer (`NameTaken`, `ValueFollows`, `ParamCompleted`, `EndHeader` with `LastNameTaken` and
`LastParamCompleted`), and the list after it tells of one part more. As no step out of these places
leads to 400, no well-formed request is refused by the parser (`Told`).

`AcceptedAsOffered` adds what the loop of `pmd_validate_offer` makes of such a list. The parameters
of the first offer are in front, the last one marked (`Leads`), so the loop ends there or before:
if all of them are legal and differ, it collects for each setting the one parameter of that
name (`CollectedAsAsked`), if not, it refuses, whatever offers follow (`FirstOfferDecides`).

What the parser does to a text of any length is an induction, which the library's theorems cannot
give. It is done with sets instead: a set of numbers with 0 and all successors is `Nat`
(`Induction`, from the least element of the rest), a set of sequences with the empty one and all
that are one longer is all of them (`SequenceInduction`). From these follow the recursive
functions the models are built from (`NumberFacts`, `FlattenIs`) and what gluing sequences keeps
(`FlattenConcat`, `FlatMapHead`).

TLC checks `NInv`'s parts through `TypeOK` and the four invariants. It cannot check `ReadAsMeant`
itself, which quantifies over all sequences of offers.

### DeflateProofs

Assumed: `DeflateAssumption`. Proved, for any number of connections, descriptors of one chain,
messages and shapes of messages: every invariant of the run.

`ConfigIsOfThisConnection` and `DecodedAsSent` depend on each other. `DInv` says what holds between two
messages of a client (`InStep`): its entry is the first of its descriptor in the chain, with
what was agreed; the window of the inflater is what the peer's compressor holds, unless a message
spoiled it; the window of the deflater is what the peer's decompressor holds, unless it was
told of a close. During a call, `CallInStep` says how far the loop that enlarges the buffer is.
`Looped` is the part about its size: whatever was filled to the end is the first size or a
doubling of it, so that a buffer filled exactly by the message makes the message an `ExactFit`,
which is excused. `ExactFit` says "a doubling of the first size" without powers, as membership in
every set that is closed under doubling, so that this needs no induction. `AddedFirst`,
`ChangedInPlace` and `OthersKept` say what the operations on the chain leave of the search.
`StreamsAreInitialised` follows from `UnsetHasFailed`: in the whole chain no inflater is without
initialisation, and a deflater only in an entry of a connection whose `deflateInit2` failed; that
a connection meets no such entry but its own is `ConfigIsOfThisConnection` (`OwnHasFailed`).

### ApplicationProofs

Assumed: `ApplicationAssumption` (no descriptor is the value that stands for none; the bounds are
naturals). Proved, for any set of descriptors and any number of connections and messages:
every invariant of the run (`TypeOK`, `RepliesAreTheirs`, `OpenClientsAreFound`,
`NoMoreAfterClose`), and `LengthIsRead`, that the peer reads from a header the length
`send_data_frame` was given, for every length below 2^64.

None of the four is inductive. That an id finds its client rests on two facts about serial
numbers: no two descriptors have the same connection, and a remembered connection is either
on its descriptor or on none. That a reply has an opcode rests on the client being there and
its message still being received while the handler runs. And that at most one message comes
after `nitrows_close` rests on what a client is between two messages: with `late` above 0 it
is the one being handled, and is on its way out. `Rest` holds these; each action keeps it.

### Only model-checked

Liveness (`EveryFrameHandled`, `DrainsUnlessMerged`, `EveryoneIsServed`, `AcceptedUnlessMerged`,
`WholeRequestIsDecided`, `CallsReturn`) is beyond the prover, as is anything with ENABLED.
Every invariant of every passing run is proved.
What the three violated properties say does not hold, so there is nothing to prove.

## 6. What is not modelled

| part | why |
|---|---|
| `get_listener_socket` | system calls at the start, no state afterwards |
| zlib | external: a stream is where it stands and what its window holds |
| `send_ping_frame` | nothing calls it |
| the UTF-8 automaton, base64, the values of the other headers | pure functions; models use their verdicts. The automaton is planned as an operator |
| tokens of 128 characters and more, numbers beyond 64 bits (`header.c:262`, `header.c:235`) | the length turns negative and what follows is undefined |
| hash chains of the tables, except permessage-deflate's | a table is a function of the descriptor; insertion at the head and deletion by descriptor are all the code does. permessage-deflate's keeps old entries, so its order matters and is modelled |
| SIGPIPE, unchecked `malloc` (`frame.c:348`, `server.c:386`) | the process ends; there is nothing after it to state |
| what follows an overrun (`server.c:211`) | undefined; the model stops |
| text of responses, logging, `tests.c`, the build | no property is about them |

## 7. Plan

In this order; what is done is marked.

1. *done* `FrameReader` and `FrameStream`: the parser, the largest and most delicate part.
2. *done* `OutputBuffer` with its proofs.
3. *done* `EventLoop` with its proofs: batches, edges, reuse.
4. *done* `Handshake` with its proofs.
5. *done* `FrameReaderProofs`: `TypeOK` and `MemorySafe` for every buffer size and payload limit.
6. *done* `Negotiation` and `Deflate`: from the header to the settings; the table and the streams.
7. *done* `Application` with its proofs.
8. *done* `EventArray` with its proofs, and those of `Deflate`.
9. The UTF-8 automaton against the definition of well-formed sequences over bounded inputs.
10. `Handshake`, `FrameReader` and `OutputBuffer` composed for one client: the hang-up nobody reads
    (`server.c:166`), the close frame that is freed before it is sent (`server.c:238`).
11. *done* the refinement of `FrameStream` by `FrameReader`, and `InSync`.
12. *done* `Negotiation` with its proofs, from single characters to the settings agreed on.
