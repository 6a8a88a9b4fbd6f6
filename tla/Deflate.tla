------------------------------- MODULE Deflate -------------------------------
(***************************************************************************)
(* permessage-deflate (permessage-deflate.c): one chain of                 *)
(* pmd_config_table, whose descriptors are reused by one connection after  *)
(* the other, and the two zlib streams of each configuration.              *)
(*                                                                         *)
(* zlib is external: a stream is where it stands in the compressed data    *)
(* and which messages its window holds.  A message of the peer is what     *)
(* matters of its bytes: how many there are (in), how many they become     *)
(* (out) and how they end.                                                 *)
(***************************************************************************)
EXTENDS Naturals, Sequences, SequencesExt

CONSTANTS Fds,            \* descriptors that share the slot of the table
          Settings,       \* what is negotiated: does the client, the server start
                          \* every message afresh, is the server's window 8 bits
          Shapes,         \* bound: messages of the peer
          MaxConnections, MaxOffers, \* bounds: connections, offers validated
          MaxMessages,    \* bound: messages, both ways together
          TrailerRoom     \* room for the trailer, 8 in the code

ASSUME DeflateAssumption ==
  /\ Settings \subseteq [clientNo : BOOLEAN, serverNo : BOOLEAN, narrow : BOOLEAN]
  /\ Shapes \subseteq [in : Nat \ {0}, out : Nat, kind : {"flush", "final", "broken"}]
  /\ {MaxConnections, MaxOffers, MaxMessages} \subseteq Nat
  /\ TrailerRoom \in Nat \ {0}

VARIABLES
  made,     \* connections made so far; a connection is its serial number
  offers, messages, \* what the other bounds count
  owner,    \* owner[fd]: the connection that has it, 0 when it is closed
  peer,     \* peer[fd]: of the client there, if it uses the extension, what its
            \* compressor and decompressor hold, what it read in the response,
            \* whether its next message may be lost, a close frame was sent to it
  table,    \* the chain, newest first
  call,     \* the pmd_process_data under way
  seen,     \* what went wrong with a message so far (auxiliary)
  failed,   \* connections of which inflateInit2 or deflateInit2 failed (auxiliary)
  misused   \* calls of zlib on a stream that is not initialised: what was called
            \* and for which connection (auxiliary)

vars == <<made, offers, messages, owner, peer, table, call, seen, failed, misused>>

Connections == 1 .. MaxConnections

\* Where a stream stands: it is not allocated, allocated but not initialised,
\* between blocks, before the lengths of an empty block, behind the last block.
Unborn == [at |-> "none", window |-> <<>>]
Unset == [at |-> "unset", window |-> <<>>]
Fresh == [at |-> "block", window |-> <<>>]
NoCall == [fd |-> "none"]
NoPeer == [packs |-> <<>>]

Init ==
  /\ made = 0 /\ offers = 0 /\ messages = 0
  /\ owner = [fd \in Fds |-> 0] /\ peer = [fd \in Fds |-> NoPeer]
  /\ table = <<>> /\ call = NoCall /\ seen = {} /\ failed = {} /\ misused = {}

-----------------------------------------------------------------------------
\* Variant, rejected by ConfigIsOfThisConnection: new entries go to the end.
AddedToEnd(e) == Append(table, e)

AddedToTable(e) == <<e>> \o table

PmdGet(fd) == SelectInSeq(table, LAMBDA e : e.fd = fd)

\* A call of zlib for the connection that has the descriptor: it is undefined on a
\* stream that is not initialised.
Misuses(use, fd, unset) == misused' = misused \cup IF unset THEN {<<use, owner[fd]>>} ELSE {}

HasUnset(i) == "unset" \in {table[i].inflater.at, table[i].deflater.at}

\* pmd_delete_from_table ends the streams, unless the entry is the first of its chain.
Ends(fd, i, unset) == Misuses("end", fd, i > 1 /\ unset)

\* pmd_delete_from_table.
Deleted(i) == SubSeq(table, 1, i - 1) \o SubSeq(table, i + 1, Len(table))

IsClient(fd) == peer[fd] # NoPeer

\* What is undefined ends the run.
Idle == call = NoCall /\ misused = {}

Connect(fd) ==
  /\ Idle /\ owner[fd] = 0 /\ made < MaxConnections
  /\ made' = made + 1 /\ owner' = [owner EXCEPT ![fd] = made']
  /\ UNCHANGED <<offers, messages, peer, table, call, seen, failed, misused>>

Joined(s) == [packs |-> <<>>, reads |-> <<>>, agreed |-> s, spoiled |-> FALSE, told |-> FALSE]

\* The handshake: the offer is validated and its configuration enters the table.
\* Then the response is sent, or another extension refuses its offer and the
\* connection stays as it was, or the response cannot be sent.
HandleUpgrade(fd) ==
  /\ Idle /\ owner[fd] # 0 /\ ~ IsClient(fd) /\ offers < MaxOffers
  /\ offers' = offers + 1
  /\ \E s \in Settings :
       /\ table' = AddedToTable([fd |-> fd, conn |-> owner[fd], set |-> s, leftover |-> FALSE,
                                 inflater |-> Unborn, deflater |-> Unborn])
       /\ \/ peer' = [peer EXCEPT ![fd] = Joined(s)] /\ UNCHANGED owner
          \/ UNCHANGED <<peer, owner>>
          \/ owner' = [owner EXCEPT ![fd] = 0] /\ UNCHANGED peer
  /\ UNCHANGED <<made, messages, call, seen, failed, misused>>

\* Variant, rejected by TypeOK: close_client leaves the client in its table.
CloseKeepingPeer(fd) == owner' = [owner EXCEPT ![fd] = 0] /\ UNCHANGED peer

CloseSocket(fd) == owner' = [owner EXCEPT ![fd] = 0] /\ peer' = [peer EXCEPT ![fd] = NoPeer]

\* Variant, rejected by ConfigIsOfThisConnection: the first entry goes.
CloseClientFirst(fd) == CloseSocket(fd) /\ table' = Tail(table) /\ UNCHANGED misused

\* close_client ends in pmd_close for a client that uses the extension.
CloseClient(fd) ==
  /\ CloseSocket(fd)
  /\ table' = Deleted(PmdGet(fd)) /\ Ends(fd, PmdGet(fd), HasUnset(PmdGet(fd)))

CloseConnection(fd) ==
  /\ Idle /\ owner[fd] # 0
  /\ IF IsClient(fd) THEN CloseClient(fd) ELSE CloseSocket(fd) /\ UNCHANGED <<table, misused>>
  /\ UNCHANGED <<made, offers, messages, call, seen, failed>>

-----------------------------------------------------------------------------
(* Receiving: pmd_process_data for a message with rsv1 set.                *)

MayTransfer(fd) == Idle /\ IsClient(fd) /\ messages < MaxMessages /\ messages' = messages + 1

Number(fd) == <<owner[fd], messages + 1>>

\* A buffer of twice the input, or of a doubling of it, is filled to the end: every
\* set with the first size and, beside a size, its double has the message's size.
ExactFit(m) ==
  /\ 2 * m.in <= m.out
  /\ \A sizes \in SUBSET (1 .. m.out) :
       (\A n \in sizes : 2 * n \in sizes \/ 2 * n > m.out) /\ 2 * m.in \in sizes
         => m.out \in sizes

\* Messages after which a stream that is kept may not read the next one.
Spoils(m) == m.kind = "final" \/ ExactFit(m)

\* The peer's compressor holds the message afterwards, unless it was agreed that
\* each message starts afresh.
PeerSends(fd, m) ==
  LET kept == ~ peer[fd].agreed.clientNo
  IN  peer' = [peer EXCEPT ![fd].packs = IF kept THEN Append(@, Number(fd)) ELSE <<>>,
                           ![fd].spoiled = @ \/ (kept /\ Spoils(m))]

\* The stream that is there is used, or one is initialised.
ProcessData(fd) ==
  /\ MayTransfer(fd)
  /\ \E m \in Shapes :
       LET i == PmdGet(fd)
       IN  /\ PeerSends(fd, m)
           /\ table' = [table EXCEPT ![i].inflater = IF @ = Unborn THEN Fresh ELSE @]
           /\ Misuses("inflate", fd, table[i].inflater = Unset)
           /\ call' = [fd |-> fd, m |-> m, needs |-> peer[fd].packs, number |-> Number(fd),
                       excused |-> peer[fd].spoiled \/ m.kind = "broken" \/ m.out = 0,
                       length |-> 0, written |-> 0, fresh |-> TRUE]
  /\ UNCHANGED <<made, offers, owner, seen, failed>>

\* Variant of InflateInitFails, rejected by StreamsAreInitialised: the message is let
\* through, and the stream stays.
InflateInitForgiven(fd) ==
  /\ MayTransfer(fd) /\ table[PmdGet(fd)].inflater = Unborn
  /\ table' = [table EXCEPT ![PmdGet(fd)].inflater = Unset]
  /\ failed' = failed \cup {owner[fd]}
  /\ UNCHANGED <<made, offers, owner, peer, call, seen, misused>>

\* inflateInit2 finds no memory: the message is refused and the client closed.
InflateInitFails(fd) ==
  LET i == PmdGet(fd)
  IN  /\ MayTransfer(fd) /\ table[i].inflater = Unborn
      /\ CloseSocket(fd) /\ table' = Deleted(i)
      /\ failed' = failed \cup {owner[fd]} /\ Ends(fd, i, TRUE)
      /\ UNCHANGED <<made, offers, call, seen>>

Inflater == table[PmdGet(call.fd)].inflater

\* Each iteration has a buffer of twice the input, or twice the last one.
Grown == IF call.length = 0 THEN 2 * call.m.in ELSE 2 * call.length

\* Input that cannot be read: it is no compressed data, or its first bytes stand
\* where the stream expects the lengths that a trailer holds.
Unreadable == call.fresh /\ (call.m.kind = "broken" \/ Inflater.at = "trailer")

\* What the buffer holds after inflate, which reads nothing behind a last block.
Produced ==
  CASE Inflater.at = "end" -> call.written
    [] OTHER -> IF call.m.out < Grown THEN call.m.out ELSE Grown

AtEnd == Inflater.at = "end" \/ (call.m.kind = "final" /\ Produced = call.m.out)

\* Nothing was read and nothing written: Z_BUF_ERROR.
NoProgress == ~ call.fresh /\ Produced = call.written

\* Z_STREAM_END, or Z_OK with room left.
FeedsTrailer == AtEnd \/ (~ NoProgress /\ Grown > Produced)

\* The room left when the loop looks at it.
Spare == LET room == Grown - Produced
         IN  IF FeedsTrailer /\ room < TrailerRoom THEN room + TrailerRoom ELSE room

\* Variant of InflateAgain, rejected by CallsReturn: the buffer never grows.
InflateInPlace ==
  /\ call # NoCall /\ ~ Unreadable /\ Spare = 0
  /\ call' = [call EXCEPT !.written = Produced, !.fresh = FALSE]
  /\ UNCHANGED <<made, offers, messages, owner, peer, table, seen, failed, misused>>

InflateAgain ==
  /\ call # NoCall /\ ~ Unreadable /\ Spare = 0
  /\ call' = [call EXCEPT !.length = Grown, !.written = Produced, !.fresh = FALSE]
  /\ UNCHANGED <<made, offers, messages, owner, peer, table, seen, failed, misused>>

Misread(b) == seen' = seen \cup IF b /\ ~ call.excused THEN {"misread"} ELSE {}

\* Variant of Restarted, rejected by DecodedAsSent: inflateReset every time.
AlwaysRestarted(set, s) == Fresh

\* inflateReset, if the client starts every message afresh.
Restarted(set, s) == IF set.clientNo THEN Fresh ELSE s

\* Without output the caller keeps the frame as it was received.
InflateReturns ==
  LET i == PmdGet(call.fd)
      at == CASE AtEnd -> "end" [] ~ AtEnd /\ FeedsTrailer -> "block" [] OTHER -> "trailer"
  IN  /\ call # NoCall /\ ~ Unreadable /\ Spare > 0
      /\ table' = [table EXCEPT ![i].inflater =
           Restarted(table[i].set, [at |-> at, window |->
             IF @.at = "end" THEN @.window ELSE Append(@.window, call.number)])]
      /\ Misread(Produced = 0 \/ ~ IsSuffix(call.needs, Inflater.window))
      /\ call' = NoCall
      /\ UNCHANGED <<made, offers, messages, owner, peer, failed, misused>>

\* The message is refused, a close frame is sent and the client closed.
Refuse(faults) ==
  LET i == PmdGet(call.fd)
  IN  /\ call # NoCall /\ call' = NoCall
      /\ CloseSocket(call.fd) /\ table' = Deleted(i)
      /\ seen' = seen \cup faults /\ Ends(call.fd, i, HasUnset(i))
      /\ UNCHANGED <<made, offers, messages, failed>>

\* inflate reports an error.
InflateFails ==
  /\ call # NoCall /\ Unreadable
  /\ Refuse((IF call.excused THEN {} ELSE {"misread"})
             \cup (IF call.m.kind = "broken" THEN {} ELSE {"rejected"}))

\* A realloc fails: of a buffer that was full, or for the trailer.
NoBuffer ==
  /\ call # NoCall /\ ~ Unreadable
  /\ call.length # 0 \/ (FeedsTrailer /\ Grown - Produced < TrailerRoom)
  /\ Refuse({})

-----------------------------------------------------------------------------
(* Sending: send_data_frame and pmd_generate_response.                     *)

Deflater(fd) == table[PmdGet(fd)].deflater

\* A message that was not compressed is answered by a close frame; the client
\* stays and may be sent more.
TellUnsent(fd) == peer' = [peer EXCEPT ![fd].told = TRUE]

\* deflateInit2 fails: for want of memory, or because zlib has no raw stream
\* with a window of 8 bits.  An empty message is sent nevertheless, as it is.
DeflateInitFails(fd) ==
  /\ MayTransfer(fd) /\ Deflater(fd) = Unborn
  /\ table' = [table EXCEPT ![PmdGet(fd)].deflater = Unset]
  /\ TellUnsent(fd) \/ UNCHANGED peer
  /\ failed' = failed \cup {owner[fd]}
  /\ UNCHANGED <<made, offers, owner, call, seen, misused>>

\* deflate on what deflateInit2 left: anything may happen.
DeflateUnset(fd) ==
  /\ MayTransfer(fd) /\ Deflater(fd) = Unset
  /\ Misuses("deflate", fd, TRUE)
  /\ UNCHANGED <<made, offers, owner, peer, table, call, seen, failed>>

\* Variant of Sent, rejected by PeerReadsWhatWasSent: without deflateReset.
SentAndKept(set, s) == s

\* deflateReset, if the server starts every message afresh.
Sent(set, s) == IF set.serverNo THEN Fresh ELSE s

\* The peer reads it if it holds what the deflater did and nothing is left in
\* front.  Or a buffer cannot be had when a part is compressed: the rest stays in
\* the deflater, which is not reset.
GenerateResponse(fd) ==
  LET i == PmdGet(fd)
      s == IF Deflater(fd) = Unborn THEN Fresh ELSE Deflater(fd)
      packed == [s EXCEPT !.window = Append(@, Number(fd))]
      unread == table[i].leftover \/ ~ IsSuffix(s.window, peer[fd].reads)
  IN  /\ MayTransfer(fd) /\ Deflater(fd) # Unset
      /\ Deflater(fd) = Unborn => ~ table[i].set.narrow
      /\ \/ /\ table' = [table EXCEPT ![i].leftover = FALSE, ![i].deflater = Sent(table[i].set, packed)]
            /\ peer' = [peer EXCEPT ![fd].reads =
                 IF peer[fd].agreed.serverNo THEN <<>> ELSE Append(@, Number(fd))]
            /\ seen' = seen \cup IF unread /\ ~ peer[fd].told THEN {"unread"} ELSE {}
         \/ /\ table' = [table EXCEPT ![i].leftover = TRUE, ![i].deflater = packed]
            /\ TellUnsent(fd) /\ UNCHANGED seen
      /\ UNCHANGED <<made, offers, owner, call, failed, misused>>

InflateLoop == InflateAgain \/ InflateReturns \/ InflateFails

Next ==
  \/ InflateLoop \/ NoBuffer
  \/ \E fd \in Fds : \/ Connect(fd) \/ HandleUpgrade(fd) \/ CloseConnection(fd)
                     \/ ProcessData(fd) \/ InflateInitFails(fd)
                     \/ DeflateInitFails(fd) \/ DeflateUnset(fd) \/ GenerateResponse(fd)

Spec == Init /\ [][Next]_vars

\* The loop around inflate runs in the server's only thread; that memory runs
\* out is not counted on.
FairSpec == Spec /\ WF_vars(InflateLoop)

-----------------------------------------------------------------------------
Streams == [at : {"none", "unset", "block", "trailer", "end"},
            window : Seq(Connections \X (1 .. MaxMessages))]

\* Every variable keeps its type; a client is open, a call is for a client.
TypeOK ==
  /\ made \in 0 .. MaxConnections /\ offers \in 0 .. MaxOffers /\ messages \in 0 .. MaxMessages
  /\ owner \in [Fds -> 0 .. made] /\ DOMAIN peer = Fds
  /\ table \in Seq([fd : Fds, conn : Connections, set : Settings, leftover : BOOLEAN,
                    inflater : Streams, deflater : Streams])
  /\ \A fd \in Fds : IsClient(fd) => owner[fd] # 0 /\ peer[fd].agreed \in Settings
  /\ call # NoCall => call.fd \in Fds /\ IsClient(call.fd) /\ call.written <= call.m.out
  /\ seen \subseteq {"misread", "rejected", "unread"}
  /\ failed \subseteq Connections /\ misused \subseteq {"inflate", "deflate", "end"} \X Connections

\* What pmd_get_from_table finds for a client is what was agreed with it, and its
\* own streams, although entries of earlier connections stay in the table when
\* their response was not sent or another extension refused them.
ConfigIsOfThisConnection ==
  \A fd \in Fds : IsClient(fd) =>
    LET i == PmdGet(fd)
    IN  i # 0 /\ table[i].conn = owner[fd] /\ table[i].set = peer[fd].agreed

\* A message reaches the application as the peer compressed it.  Excused: a want
\* of memory, an empty message (handed over compressed), and whatever follows a
\* last block or an exact fit on a stream that is kept.
DecodedAsSent == "misread" \notin seen

\* The peer can read every message until it is sent a close frame.
PeerReadsWhatWasSent == "unread" \notin seen

\* inflate never meets a stream that inflateInit2 left uninitialised, since the
\* message costs the client its connection.  deflate and the ends meet one (in the
\* next message, or when the client is closed), but only for the connection whose own
\* initialisation failed, never for another on the descriptor or in the chain.
StreamsAreInitialised ==
  \A m \in misused : m[1] # "inflate" /\ m[2] \in failed

\* The loop that enlarges the buffer comes to an end.
CallsReturn == call # NoCall ~> call = NoCall

\* "It returns true if valid, false otherwise" (extension.h:93-94): a message the
\* peer compressed as it may is not refused but for want of memory.
ValidMessagesAreAccepted == "rejected" \notin seen
=============================================================================
