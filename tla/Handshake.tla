------------------------------ MODULE Handshake ------------------------------
(***************************************************************************)
(* The opening handshake on one socket descriptor: handle_upgrade          *)
(* (server.c), the table of incomplete requests and validate_headers       *)
(* (header.c), the table of offered extensions (extension.c) and the       *)
(* creation and deletion of the client (clients.c).                        *)
(*                                                                         *)
(* The tables are keyed by the descriptor and the kernel gives a closed    *)
(* descriptor to the next connection, so the module follows the successive *)
(* connections that own one descriptor.                                    *)
(*                                                                         *)
(* A request is a sequence of "x" (any byte), "r" (\r) and "n" (\n), with  *)
(* what its required headers and its optional ones amount to; it is        *)
(* complete with its last byte.  The bytes of one call of handle_upgrade   *)
(* are request bytes first + 1 .. taken.                                   *)
(***************************************************************************)
EXTENDS Integers, Sequences

CONSTANTS Requests,       \* requests a peer may make
          MaxConnections, \* bound: connections that own the descriptor in turn
          BufferSize      \* BUFFER_SIZE, and the size of IncompleteRequest.buffer

Verdicts == {"valid", "missing", "invalid"}

\* What the optional headers offer: "bad" is refused by an extension, "malformed"
\* is a header that is an error, as a required one with a bad value is.
Offers == {"none", "good", "bad", "malformed"}

ASSUME HandshakeAssumption ==
  /\ MaxConnections \in Nat /\ BufferSize \in Nat \ {0}
  /\ Requests # {}
  /\ \A r \in Requests :
       /\ r.text \in Seq({"x", "r", "n"}) /\ r.get \in BOOLEAN
       /\ r.headers \in Verdicts /\ r.offer \in Offers

VARIABLES
  conn,     \* which connection owns the descriptor
  peer,     \* the request it makes
  sent,     \* bytes of it the peer has sent
  peerState,\* "up" | "closed" | "reset"
  open,     \* the descriptor is open
  ready,    \* epoll has an event for it
  reading,  \* handle_upgrade is in its recv loop
  first,    \* bytes received before this call
  taken,    \* bytes received
  request,  \* its entry in incomplete_request_table
  offers,   \* its extensions in waiting_clients_table: who offered what
  client,   \* its entry in clients_table; first: where what it was made of began
            \* (auxiliary)
  answer,   \* last answer; "silent": the request was dropped without one (auxiliary)
  split,    \* a call of handle_upgrade ended inside the \r\n\r\n (auxiliary)
  overrun   \* memcpy wrote behind IncompleteRequest.buffer

owner == <<conn, peer>>
network == <<owner, sent, peerState>>
vars == <<conn, peer, sent, peerState, open, ready, reading, first, taken, request,
          offers, client, answer, split, overrun>>

NoRequest == [conn |-> 0, first |-> 0, size |-> -1]
NoClient == [conn |-> 0, first |-> 0, offers |-> {}]

Init ==
  /\ conn = 0 /\ peer \in Requests /\ sent = 0 /\ peerState = "up"
  /\ open = FALSE /\ ready = FALSE /\ reading = FALSE /\ first = 0 /\ taken = 0
  /\ request = NoRequest /\ offers = {} /\ client = NoClient
  /\ answer = "none" /\ split = FALSE /\ overrun = FALSE

-----------------------------------------------------------------------------
Least(a, b) == IF a <= b THEN a ELSE b

\* accept_connection for the next connection that gets this descriptor.
Connect ==
  /\ ~ open /\ conn < MaxConnections
  /\ conn' = conn + 1 /\ peer' \in Requests /\ sent' = 0 /\ peerState' = "up"
  /\ open' = TRUE /\ ready' = FALSE /\ first' = 0 /\ taken' = 0
  /\ answer' = "none" /\ split' = FALSE
  /\ UNCHANGED <<reading, request, offers, client, overrun>>

PeerSends ==
  /\ open /\ peerState = "up"
  /\ sent' \in sent + 1 .. Len(peer.text)
  /\ ready' = TRUE
  /\ UNCHANGED <<owner, peerState, open, reading, first, taken, request, offers, client,
                 answer, split, overrun>>

PeerGoes ==
  /\ open /\ peerState = "up"
  /\ peerState' \in {"closed", "reset"}
  /\ ready' = TRUE
  /\ UNCHANGED <<owner, sent, open, reading, first, taken, request, offers, client,
                 answer, split, overrun>>

\* handle_connection for a descriptor without a client.
HandleUpgrade ==
  /\ open /\ ready /\ ~ reading /\ client = NoClient
  /\ ready' = FALSE /\ reading' = TRUE /\ first' = taken
  /\ UNCHANGED <<network, open, taken, request, offers, client, answer, split, overrun>>

\* handle_connection for a client: the frame layer reads what there is, and
\* close_client ends it when the peer is gone or the frames are at fault.
HandleClientData ==
  /\ open /\ ready /\ ~ reading /\ client # NoClient
  /\ ready' = FALSE /\ taken' = sent
  /\ \/ peerState = "up" /\ UNCHANGED <<open, client>>
     \/ open' = FALSE /\ client' = NoClient
  /\ UNCHANGED <<network, reading, first, request, offers, answer, split, overrun>>

-----------------------------------------------------------------------------
\* The end of a call of handle_upgrade.
Close == open' = FALSE /\ ready' = FALSE
KeepOpen == UNCHANGED <<open, ready>>

\* Variant of Forget, rejected by RequestIsUnanswered: no delete_request.
ForgetNothing == UNCHANGED request

Forget == request' = NoRequest

\* __is_get_request on a buffer of length bytes.
IsGet(length) == length < 3 \/ (first = 0 /\ peer.get)

\* The last four bytes of buf are \r\n\r\n.  With fewer than four bytes in buf
\* the comparison reads in front of it, where anything may be found.
Terminator == <<"r", "n", "r", "n">>

\* Variant, rejected by WholeRequestIsDecided: only a first call looks for it.
MayEndAtOnce(end) ==
  /\ request = NoRequest
  /\ LET n == Least(4, end - first)
     IN  SubSeq(peer.text, end - n + 1, end) = SubSeq(Terminator, 5 - n, 4)

MayEnd(end) ==
  LET n == Least(4, end - first)
  IN  SubSeq(peer.text, end - n + 1, end) = SubSeq(Terminator, 5 - n, 4)
MustEnd(end) == MayEnd(end) /\ end - first >= 4

\* The request validate_headers sees: the entry of the table with this call's
\* bytes appended, or this call's bytes alone.
Buffered(end) ==
  IF request = NoRequest THEN [conn |-> conn, first |-> first, size |-> end - first]
  ELSE [request EXCEPT !.size = @ + end - first]

\* It is this connection's request from its first byte to its end-th.
IsIntact(buffer, end) == buffer = [conn |-> conn, first |-> 0, size |-> end]
IsWhole(buffer, end) == IsIntact(buffer, end) /\ end = Len(peer.text)

\* The extensions listed for the descriptor after the headers were parsed.  A part
\* of a request may end before they are named; one that lacks the beginning may
\* begin anywhere in them.
Offered(kinds) == {[conn |-> conn, offer |-> o] : o \in kinds}
OwnOffer == Offered({peer.offer} \cap {"good", "bad"})
ListedAfter(buffer, end) ==
  {offers \cup own : own \in
     CASE IsWhole(buffer, end) -> {OwnOffer}
       [] IsIntact(buffer, end) /\ ~ IsWhole(buffer, end) -> {{}, OwnOffer}
       [] OTHER -> {{}, Offered({"good"}), Offered({"bad"})}}

\* What validate_headers finds: the first header that is an error decides, then
\* whether the required ones are all there.
WholeVerdict == IF peer.offer = "malformed" THEN "invalid" ELSE peer.headers

\* A part from the beginning may end before a required header, and before an
\* optional one that is an error; without the beginning, lines are cut anywhere.
Verdict(buffer, end) ==
  CASE IsWhole(buffer, end) -> {WholeVerdict}
    [] IsIntact(buffer, end) /\ ~ IsWhole(buffer, end) -> {"missing", WholeVerdict, peer.headers}
    [] OTHER -> Verdicts

\* A header with a bad value: an error response, and the connection is closed.
RefuseHeader ==
  /\ offers' = {} /\ Close /\ Forget
  /\ answer' = "400" /\ UNCHANGED client

\* A header is missing: nothing is sent, closed or taken off the list.
MissHeader(listed) ==
  /\ offers' = listed /\ Forget
  /\ answer' = "silent" /\ KeepOpen /\ UNCHANGED client

\* An extension refuses its parameters.
RefuseOffer(listed) ==
  /\ \E o \in listed : o.offer = "bad"
  /\ offers' = {} /\ Forget
  /\ answer' = "silent" /\ KeepOpen /\ UNCHANGED client

\* The 101 response and init_client.
Accept(listed, buffer) ==
  /\ \A o \in listed : o.offer = "good"
  /\ offers' = {} /\ Forget
  /\ IF peerState = "reset"                      \* send fails
     THEN Close /\ UNCHANGED <<answer, client>>
     ELSE /\ answer' = "101" /\ KeepOpen
          /\ client' = [conn |-> conn, first |-> buffer.first, offers |-> {o.conn : o \in listed}]

\* Not a GET: the connection is closed, and the headers are looked at all the
\* same; only the list of offers can tell.
RefuseMethod(listed, verdict) ==
  /\ answer' = "405" /\ Close
  /\ offers' = IF verdict = "missing" THEN listed ELSE {}
  /\ UNCHANGED <<request, client>>

\* Variant, rejected by UpgradedIsValid: the required headers are not counted.
DecideOnValues(end, length) ==
  \E listed \in ListedAfter(Buffered(end), end), verdict \in Verdict(Buffered(end), end) :
    IF request = NoRequest /\ ~ IsGet(length) THEN RefuseMethod(listed, verdict)
    ELSE \/ verdict = "invalid" /\ RefuseHeader
         \/ verdict # "invalid" /\ (RefuseOffer(listed) \/ Accept(listed, Buffered(end)))

Decide(end, length) ==
  \E listed \in ListedAfter(Buffered(end), end), verdict \in Verdict(Buffered(end), end) :
    IF request = NoRequest /\ ~ IsGet(length) THEN RefuseMethod(listed, verdict)
    ELSE \/ verdict = "invalid" /\ RefuseHeader
         \/ verdict = "missing" /\ MissHeader(listed)
         \/ verdict = "valid" /\ (RefuseOffer(listed) \/ Accept(listed, Buffered(end)))

-----------------------------------------------------------------------------
\* One recv that brings bytes: the loop goes on, or leaves with a request.
Room == BufferSize - (taken - first)

Recv ==
  /\ reading /\ Room > 0
  /\ \E n \in 1 .. Least(Room, sent - taken) :
       /\ taken' = taken + n
       /\ \/ /\ ~ MustEnd(taken + n)
             /\ UNCHANGED <<open, ready, reading, request, offers, client, answer, overrun>>
          \/ /\ MayEnd(taken + n)
             /\ reading' = FALSE
             /\ overrun' = (request # NoRequest /\ Buffered(taken + n).size > BufferSize)
             /\ Decide(taken + n, n)
  /\ UNCHANGED <<network, first, split>>

\* recv returns 0: the peer closed, or buf is full and more has come.
RecvZero ==
  /\ reading
  /\ IF Room = 0 THEN taken < sent \/ peerState = "closed"
                 ELSE taken = sent /\ peerState = "closed"
  /\ reading' = FALSE /\ Forget /\ Close
  /\ UNCHANGED <<network, first, taken, offers, client, answer, split, overrun>>

\* recv fails: the request is dropped, the descriptor is not closed, and the
\* kernel has no further event for it.
RecvError ==
  /\ reading /\ taken = sent /\ peerState = "reset"
  /\ reading' = FALSE /\ Forget /\ KeepOpen
  /\ peerState' = "closed" /\ answer' = "silent"
  /\ UNCHANGED <<owner, sent, first, taken, offers, client, split, overrun>>

\* recv fails with EAGAIN: what came is kept for the next call.
Total == taken - first

AddRequest ==
  /\ request = NoRequest /\ Total < BufferSize /\ IsGet(Total)
  /\ request' = [conn |-> conn, first |-> first, size |-> Total]
  /\ KeepOpen /\ UNCHANGED answer

RefuseAtOnce ==
  /\ request = NoRequest /\ ~ IsGet(Total)
  /\ answer' = "405" /\ Close /\ UNCHANGED request

\* Variant, rejected by RequestIsOfThisConnection: the size is not updated.
AppendWithoutSize ==
  /\ request # NoRequest /\ request.size + Total < BufferSize
  /\ KeepOpen /\ UNCHANGED <<answer, request>>

\* Variant, rejected by TypeOK: the buffer may be filled to its last byte.
AppendToTheBrim ==
  /\ request # NoRequest /\ request.size + Total <= BufferSize
  /\ request' = [request EXCEPT !.size = @ + Total]
  /\ KeepOpen /\ UNCHANGED answer

AppendToRequest ==
  /\ request # NoRequest /\ request.size + Total < BufferSize
  /\ request' = [request EXCEPT !.size = @ + Total]
  /\ KeepOpen /\ UNCHANGED answer

DropTooLarge ==
  /\ IF request = NoRequest THEN Total >= BufferSize /\ IsGet(Total)
                            ELSE request.size + Total >= BufferSize
  /\ Forget /\ answer' = "silent" /\ KeepOpen

RecvAgain ==
  /\ reading /\ taken = sent /\ peerState = "up"
  /\ AddRequest \/ RefuseAtOnce \/ AppendToRequest \/ DropTooLarge
  /\ reading' = FALSE
  /\ split' = (split \/ taken \in Len(peer.text) - 3 .. Len(peer.text) - 1)
  /\ UNCHANGED <<network, first, taken, offers, client, overrun>>

-----------------------------------------------------------------------------
Server == HandleUpgrade \/ HandleClientData \/ Recv \/ RecvZero \/ RecvError \/ RecvAgain

Peer == Connect \/ PeerSends \/ PeerGoes

Next == ~ overrun /\ (Server \/ Peer)

Spec == Init /\ [][Next]_vars

\* The event loop handles every event it is given.
FairSpec == Spec /\ WF_vars(~ overrun /\ Server)

-----------------------------------------------------------------------------
\* Every variable keeps its type, and a stored request leaves room in its buffer.
TypeOK ==
  /\ conn \in 0 .. MaxConnections /\ peer \in Requests
  /\ sent \in 0 .. Len(peer.text) /\ taken \in 0 .. sent /\ first \in 0 .. taken
  /\ peerState \in {"up", "closed", "reset"}
  /\ {open, ready, reading, split, overrun} \subseteq BOOLEAN
  /\ request = NoRequest \/ request \in [conn : 1 .. conn, first : 0 .. taken,
                                       size : 0 .. BufferSize - 1]
  /\ offers \subseteq [conn : 1 .. conn, offer : {"good", "bad"}]
  /\ client \in [conn : 0 .. conn, first : 0 .. taken, offers : SUBSET (1 .. conn)]
  /\ answer \in {"none", "101", "400", "405", "silent"}

\* An incomplete request belongs to the connection that owns the descriptor now,
\* and holds exactly the bytes recv took from it up to this call, whatever the
\* connections before it left behind: handle_upgrade lets go of the entry on
\* every path that closes the descriptor.
RequestIsOfThisConnection ==
  request # NoRequest =>
    /\ open /\ request.conn = conn
    /\ request.first + request.size = IF reading THEN first ELSE taken

\* A descriptor is in one table at most: handle_connection never takes the bytes
\* of a client for a request, or a request that was answered for an open one.
RequestIsUnanswered ==
  /\ request # NoRequest => client = NoClient /\ answer \in {"none", "silent"}
  /\ client # NoClient => open /\ client.conn = conn /\ answer = "101"

\* No client without the headers the protocol requires, however the network cut
\* the request and wherever the end of it was seen, unless its beginning had been
\* given up before and the rest was taken for a request.
UpgradedIsValid == client # NoClient /\ client.first = 0 => peer.headers = "valid"

\* Extension offers outlive the call that parsed them only if it gave no answer.
OffersAwaitAnAnswer == client # NoClient => offers = {}

\* A whole request is decided, unless a call of handle_upgrade ended inside its
\* terminator: no byte and no event it needs is lost.
WholeRequestIsDecided ==
  sent = Len(peer.text) /\ open ~> answer # "none" \/ ~ open \/ split \/ overrun

\* The response carries an extension only if this connection's request did.
ExtensionsWereOffered == client.offers \subseteq {client.conn}
=============================================================================
