--------------------------- MODULE HandshakeProofs ---------------------------
(***************************************************************************)
(* Proofs about the opening handshake for every set of requests, number of *)
(* connections and buffer size: what the tables hold for a descriptor is   *)
(* its present connection's, and a client is made only of a request whose  *)
(* required headers are valid, or of one that lost its beginning.          *)
(***************************************************************************)
EXTENDS Handshake, TLAPS

\* handle_upgrade runs for open descriptors without a client; an open connection
\* was not refused, and has a client once it was upgraded.
CallsAndAnswers ==
  /\ reading => open /\ client = NoClient
  /\ open => conn > 0 /\ answer \notin {"400", "405"}
  /\ open /\ answer = "101" => client # NoClient

IInv ==
  /\ TypeOK /\ CallsAndAnswers /\ RequestIsOfThisConnection /\ RequestIsUnanswered
  /\ UpgradedIsValid /\ OffersAwaitAnAnswer

-----------------------------------------------------------------------------
\* What is known of the request a connection makes.
LEMMA RequestType ==
  ASSUME NEW r \in Requests
  PROVE  Len(r.text) \in Nat /\ r.headers \in Verdicts /\ r.offer \in Offers
<1>1. r.text \in Seq({"x", "r", "n"}) /\ r.headers \in Verdicts /\ r.offer \in Offers
  BY HandshakeAssumption DEF HandshakeAssumption
<1> QED BY <1>1

\* The extensions validate_headers leaves listed belong to connections so far.
LEMMA ListedType ==
  ASSUME TypeOK, conn > 0, NEW buffer, NEW end, NEW listed \in ListedAfter(buffer, end)
  PROVE  listed \subseteq [conn : 1 .. conn, offer : {"good", "bad"}]
<1>1. peer.offer \in Offers /\ conn \in 1 .. conn
  BY RequestType DEF TypeOK
<1>2. \A kinds \in SUBSET {"good", "bad"} :
        Offered(kinds) \subseteq [conn : 1 .. conn, offer : {"good", "bad"}]
  BY <1>1 DEF Offered
<1>3. OwnOffer \subseteq [conn : 1 .. conn, offer : {"good", "bad"}]
  BY <1>2 DEF OwnOffer
<1>4. PICK own \in {{}, OwnOffer, Offered({"good"}), Offered({"bad"})} :
        listed = offers \cup own
  BY DEF ListedAfter
<1> QED BY <1>2, <1>3, <1>4 DEF TypeOK

\* Where a request is taken from its first byte on, it begins with the call or with
\* what was kept of it; only then is it judged by what the peer wrote.
LEMMA JudgedFromItsBeginning ==
  ASSUME IInv, reading, NEW end \in first .. Len(peer.text)
  PROVE  /\ Buffered(end).first \in 0 .. first
         /\ Buffered(end).first = 0 =>
              Verdict(Buffered(end), end) \subseteq {"missing", "invalid", peer.headers}
<1>1. first \in Nat /\ Len(peer.text) \in Nat
  BY RequestType DEF IInv, TypeOK
<1>2. CASE request = NoRequest
  <2>1. Buffered(end) = [conn |-> conn, first |-> first, size |-> end - first]
    BY <1>2 DEF Buffered
  <2>2. first = 0 => IsIntact(Buffered(end), end)
    BY <2>1 DEF IsIntact
  <2> QED BY <1>1, <2>1, <2>2 DEF Verdict, WholeVerdict, IsWhole
<1>3. CASE request # NoRequest
  <2>1. PICK f, n \in Nat : request = [conn |-> conn, first |-> f, size |-> n] /\ f + n = first
    <3>1. /\ request \in [conn : 1 .. conn, first : 0 .. taken, size : 0 .. BufferSize - 1]
          /\ request.conn = conn /\ request.first + request.size = first
      BY <1>3 DEF IInv, TypeOK, RequestIsOfThisConnection
    <3>2. request = [conn |-> conn, first |-> request.first, size |-> request.size]
      BY <3>1
    <3> QED BY <3>1, <3>2, HandshakeAssumption DEF HandshakeAssumption
  <2>2. Buffered(end) = [conn |-> conn, first |-> f, size |-> n + end - first]
    BY <1>3, <2>1 DEF Buffered
  <2>3. f = 0 => IsIntact(Buffered(end), end)
    BY <1>1, <2>1, <2>2 DEF IsIntact
  <2>4. f \in 0 .. first
    BY <1>1, <2>1
  <2> QED BY <2>2, <2>3, <2>4 DEF Verdict, WholeVerdict, IsWhole
<1> QED BY <1>2, <1>3

Clients == [conn : 0 .. conn, first : 0 .. taken, offers : SUBSET (1 .. conn)]

\* The two ways a decision ends: without a client, or with one for a request that
\* was found valid and answered with 101.
Refused == client' = NoClient /\ answer' # "101" /\ (answer' # "silent" => ~ open')
Upgraded ==
  /\ client'.conn = conn /\ client' \in Clients
  /\ open' /\ answer' = "101" /\ offers' = {}
  /\ client'.first = 0 => peer.headers = "valid"

\* The outcome of validate_headers and send_upgrade_response: the entry of the
\* request is gone, and the connection was refused or upgraded.
LEMMA Decision ==
  ASSUME IInv, reading, NEW end \in first .. Len(peer.text), NEW length, Decide(end, length)
  PROVE  /\ request' = NoRequest
         /\ offers' \subseteq [conn : 1 .. conn, offer : {"good", "bad"}]
         /\ open' \in BOOLEAN /\ ready' \in BOOLEAN
         /\ answer' \in {"none", "101", "400", "405", "silent"}
         /\ Refused \/ Upgraded
<1>1. TypeOK /\ open /\ client = NoClient /\ conn > 0
  BY DEF IInv, CallsAndAnswers
<1>2. PICK listed \in ListedAfter(Buffered(end), end), verdict \in Verdict(Buffered(end), end) :
        IF request = NoRequest /\ ~ IsGet(length) THEN RefuseMethod(listed, verdict)
        ELSE \/ verdict = "invalid" /\ RefuseHeader
             \/ verdict = "missing" /\ MissHeader(listed)
             \/ verdict = "valid" /\ (RefuseOffer(listed) \/ Accept(listed, Buffered(end)))
  BY DEF Decide
<1>3. listed \subseteq [conn : 1 .. conn, offer : {"good", "bad"}]
  BY <1>1, ListedType
<1>4. CASE request = NoRequest /\ RefuseMethod(listed, verdict)
  BY <1>1, <1>3, <1>4 DEF RefuseMethod, Close, Refused, TypeOK
<1>5. CASE RefuseHeader
  BY <1>1, <1>5 DEF RefuseHeader, Close, Forget, Refused, TypeOK
<1>6. CASE MissHeader(listed)
  BY <1>1, <1>3, <1>6 DEF MissHeader, KeepOpen, Forget, Refused, TypeOK
<1>7. CASE RefuseOffer(listed)
  BY <1>1, <1>7 DEF RefuseOffer, KeepOpen, Forget, Refused, TypeOK
<1>8. CASE verdict = "valid" /\ Accept(listed, Buffered(end))
  <2>1. PICK f \in 0 .. taken : f = Buffered(end).first /\ (f = 0 => peer.headers = "valid")
    <3>1. first \in 0 .. taken /\ taken \in Nat
      BY <1>1, RequestType DEF TypeOK
    <3>2. 0 .. first \subseteq 0 .. taken
      BY <3>1
    <3> QED BY <1>8, <3>2, JudgedFromItsBeginning
  <2>2. CASE peerState = "reset"
    <3>1. answer # "101"
      BY <1>1 DEF IInv, CallsAndAnswers
    <3> QED BY <1>1, <1>8, <2>2, <3>1 DEF Accept, Close, Forget, Refused, TypeOK
  <2>3. CASE peerState # "reset"
    <3>1. {o.conn : o \in listed} \subseteq 1 .. conn
      BY <1>3
    <3>2. conn \in 0 .. conn
      BY <1>1 DEF TypeOK
    <3>3. client' = [conn |-> conn, first |-> f, offers |-> {o.conn : o \in listed}]
      BY <1>8, <2>1, <2>3 DEF Accept
    <3>4. client'.conn = conn /\ client'.first = f /\ client' \in Clients
      BY <3>1, <3>2, <3>3 DEF Clients
    <3> QED BY <1>1, <1>8, <2>1, <2>3, <3>4
        DEF Accept, KeepOpen, Forget, Upgraded, TypeOK
  <2> QED BY <2>2, <2>3
<1> QED BY <1>2, <1>4, <1>5, <1>6, <1>7, <1>8

-----------------------------------------------------------------------------
\* With no connection yet every table is empty.
LEMMA InitIsGood == Init => IInv
<1> SUFFICES ASSUME Init PROVE IInv
  OBVIOUS
<1>1. Len(peer.text) \in Nat /\ MaxConnections \in Nat
  BY RequestType, HandshakeAssumption DEF Init, HandshakeAssumption
<1>2. /\ conn \in 0 .. MaxConnections /\ sent \in 0 .. Len(peer.text)
      /\ taken \in 0 .. sent /\ first \in 0 .. taken
  BY <1>1 DEF Init
<1>3. client \in Clients
  BY DEF Init, NoClient, Clients
<1>4. {open, ready, reading, split, overrun} \subseteq BOOLEAN
  BY DEF Init
<1>5. TypeOK
  BY <1>2, <1>3, <1>4 DEF Init, TypeOK, Clients
<1> QED BY <1>5 DEF Init, IInv, CallsAndAnswers, RequestIsOfThisConnection,
          RequestIsUnanswered, UpgradedIsValid, OffersAwaitAnAnswer

\* The next connection on a closed descriptor finds nothing but old offers.
LEMMA ConnectStep == IInv /\ Connect => IInv'
<1> SUFFICES ASSUME IInv, Connect PROVE IInv'
  OBVIOUS
<1>1. request = NoRequest /\ client = NoClient /\ ~ reading /\ TypeOK
  BY DEF IInv, Connect, CallsAndAnswers, RequestIsOfThisConnection, RequestIsUnanswered
<1>2. Len(peer'.text) \in Nat
  BY RequestType DEF Connect
<1>3. /\ conn' \in 0 .. MaxConnections /\ sent' \in 0 .. Len(peer'.text)
      /\ taken' \in 0 .. sent' /\ first' \in 0 .. taken' /\ conn' > 0
  BY <1>1, <1>2, HandshakeAssumption DEF Connect, TypeOK, HandshakeAssumption
<1>4. client' \in [conn : 0 .. conn', first : 0 .. taken', offers : SUBSET (1 .. conn')]
  BY <1>1, <1>3 DEF Connect, NoClient
<1>5. offers' \subseteq [conn : 1 .. conn', offer : {"good", "bad"}]
  <2>1. conn \in Nat /\ conn' = conn + 1
    BY <1>1, HandshakeAssumption DEF Connect, TypeOK, HandshakeAssumption
  <2>2. 1 .. conn \subseteq 1 .. conn'
    BY <2>1
  <2> QED BY <1>1, <2>2 DEF Connect, TypeOK
<1>6. TypeOK'
  <2>1. {open', ready', reading', split', overrun'} \subseteq BOOLEAN
    BY <1>1 DEF Connect, TypeOK
  <2> QED BY <1>1, <1>3, <1>4, <1>5, <2>1 DEF Connect, TypeOK
<1>7. CallsAndAnswers' /\ RequestIsOfThisConnection' /\ RequestIsUnanswered'
      /\ UpgradedIsValid' /\ OffersAwaitAnAnswer'
  BY <1>1, <1>3 DEF Connect, CallsAndAnswers, RequestIsOfThisConnection,
     RequestIsUnanswered, UpgradedIsValid, OffersAwaitAnAnswer
<1> QED BY <1>6, <1>7 DEF IInv

\* What the peer does changes no table.
LEMMA NetworkStep == IInv /\ (PeerSends \/ PeerGoes) => IInv'
<1> SUFFICES ASSUME IInv, PeerSends \/ PeerGoes PROVE IInv'
  OBVIOUS
<1>1. TypeOK /\ Len(peer.text) \in Nat
  BY RequestType DEF IInv, TypeOK
<1>2. /\ sent' \in 0 .. Len(peer.text) /\ taken \in 0 .. sent'
      /\ ready' = TRUE /\ peerState' \in {"up", "closed", "reset"}
  BY <1>1 DEF PeerSends, PeerGoes, TypeOK
<1>3. /\ UNCHANGED <<conn, peer, open, reading, first, taken, request, offers, client,
                     answer, split, overrun>>
  BY DEF PeerSends, PeerGoes, owner
<1>4. TypeOK'
  BY <1>1, <1>2, <1>3 DEF TypeOK
<1>5. CallsAndAnswers' /\ RequestIsOfThisConnection' /\ RequestIsUnanswered'
      /\ UpgradedIsValid' /\ OffersAwaitAnAnswer'
  BY <1>3 DEF IInv, CallsAndAnswers, RequestIsOfThisConnection,
     RequestIsUnanswered, UpgradedIsValid, OffersAwaitAnAnswer
<1> QED BY <1>4, <1>5 DEF IInv

\* A call starts behind the bytes of the calls before it.
LEMMA HandleUpgradeStep == IInv /\ HandleUpgrade => IInv'
<1> SUFFICES ASSUME IInv, HandleUpgrade PROVE IInv'
  OBVIOUS
<1>1. TypeOK /\ Len(peer.text) \in Nat
  BY RequestType DEF IInv, TypeOK
<1>2. TypeOK'
  <2>1. taken \in 0 .. taken
    BY <1>1 DEF TypeOK
  <2> QED BY <1>1, <2>1 DEF HandleUpgrade, network, owner, TypeOK
<1>3. CallsAndAnswers' /\ RequestIsOfThisConnection' /\ RequestIsUnanswered'
      /\ UpgradedIsValid' /\ OffersAwaitAnAnswer'
  BY DEF HandleUpgrade, network, owner, IInv, CallsAndAnswers,
     RequestIsOfThisConnection, RequestIsUnanswered, UpgradedIsValid, OffersAwaitAnAnswer
<1> QED BY <1>2, <1>3 DEF IInv

\* A client has no request left, whatever the frame layer reads.
LEMMA HandleClientDataStep == IInv /\ HandleClientData => IInv'
<1> SUFFICES ASSUME IInv, HandleClientData PROVE IInv'
  OBVIOUS
<1>1. /\ TypeOK /\ request = NoRequest /\ ~ reading /\ Len(peer.text) \in Nat
      /\ conn \in Nat
  <2>1. TypeOK /\ Len(peer.text) \in Nat
    BY RequestType DEF IInv, TypeOK
  <2> QED BY <2>1, HandshakeAssumption
      DEF HandleClientData, IInv, RequestIsUnanswered, TypeOK, HandshakeAssumption
<1>2. taken' \in 0 .. sent /\ first \in 0 .. taken'
  BY <1>1 DEF HandleClientData, TypeOK
<1>3. /\ client' \in [conn : 0 .. conn, first : 0 .. taken', offers : SUBSET (1 .. conn)]
      /\ {open', ready'} \subseteq BOOLEAN
  <2>1. NoClient \in [conn : 0 .. conn, first : 0 .. taken', offers : SUBSET (1 .. conn)]
    BY <1>1, <1>2 DEF NoClient
  <2>2. {open', ready'} \subseteq BOOLEAN
    BY <1>1 DEF HandleClientData, TypeOK
  <2>3. taken' = sent /\ taken \in 0 .. sent /\ sent \in Nat
    BY <1>1 DEF HandleClientData, TypeOK
  <2>4. 0 .. taken \subseteq 0 .. taken'
    BY <2>3
  <2>5. client' = client \/ client' = NoClient
    BY DEF HandleClientData
  <2> QED BY <1>1, <2>1, <2>2, <2>4, <2>5 DEF TypeOK
<1>4. TypeOK'
  BY <1>1, <1>2, <1>3 DEF HandleClientData, network, owner, TypeOK
<1>5. CallsAndAnswers' /\ RequestIsOfThisConnection' /\ RequestIsUnanswered'
      /\ UpgradedIsValid' /\ OffersAwaitAnAnswer'
  BY <1>1 DEF HandleClientData, network, owner, IInv, CallsAndAnswers,
     RequestIsOfThisConnection, RequestIsUnanswered, UpgradedIsValid, OffersAwaitAnAnswer
<1> QED BY <1>4, <1>5 DEF IInv

-----------------------------------------------------------------------------
\* A recv that brings bytes: the loop goes on, or the request is decided.
LEMMA RecvStep == IInv /\ Recv => IInv'
<1> SUFFICES ASSUME IInv, Recv PROVE IInv'
  OBVIOUS
<1>1. /\ TypeOK /\ Len(peer.text) \in Nat /\ open /\ client = NoClient /\ conn > 0
      /\ reading
  BY RequestType DEF IInv, TypeOK, Recv, CallsAndAnswers
<1>2. PICK n \in 1 .. Least(Room, sent - taken) :
        /\ taken' = taken + n
        /\ \/ /\ ~ MustEnd(taken + n)
              /\ UNCHANGED <<open, ready, reading, request, offers, client, answer,
                             overrun>>
           \/ /\ MayEnd(taken + n)
              /\ reading' = FALSE
              /\ overrun' = (request # NoRequest
                               /\ Buffered(taken + n).size > BufferSize)
              /\ Decide(taken + n, n)
  BY DEF Recv
<1>3. sent \in Nat /\ taken \in Nat /\ first \in 0 .. taken
  BY <1>1 DEF TypeOK
<1>4. taken' \in taken .. sent
  <2>1. Room \in Int
    BY <1>3, HandshakeAssumption DEF Room, HandshakeAssumption
  <2>2. n \in Nat /\ n <= sent - taken
    BY <1>3, <2>1 DEF Least
  <2> QED BY <1>2, <1>3, <2>2
<1>5. UNCHANGED <<conn, peer, sent, peerState, first, split>>
  BY DEF Recv, network, owner
<1>6. taken' \in 0 .. sent /\ first \in 0 .. taken' /\ 0 .. taken \subseteq 0 .. taken'
  BY <1>3, <1>4
<1>7. CASE UNCHANGED <<open, ready, reading, request, offers, client, answer, overrun>>
  <2>1. TypeOK'
    BY <1>1, <1>5, <1>6, <1>7 DEF TypeOK
  <2>2. CallsAndAnswers' /\ RequestIsOfThisConnection' /\ RequestIsUnanswered'
        /\ UpgradedIsValid' /\ OffersAwaitAnAnswer'
    BY <1>1, <1>5, <1>7 DEF IInv, CallsAndAnswers, RequestIsOfThisConnection,
       RequestIsUnanswered, UpgradedIsValid, OffersAwaitAnAnswer
  <2> QED BY <2>1, <2>2 DEF IInv
<1>8. CASE /\ reading' = FALSE /\ overrun' \in BOOLEAN
           /\ Decide(taken + n, n)
  <2>1. /\ request' = NoRequest
        /\ offers' \subseteq [conn : 1 .. conn, offer : {"good", "bad"}]
        /\ open' \in BOOLEAN /\ ready' \in BOOLEAN
        /\ answer' \in {"none", "101", "400", "405", "silent"}
        /\ Refused \/ Upgraded
    <3>1. taken + n \in first .. Len(peer.text)
      BY <1>1, <1>2, <1>3, <1>4 DEF TypeOK
    <3> QED BY <1>1, <1>8, <3>1, Decision
  <2>2. client' \in [conn : 0 .. conn, first : 0 .. taken', offers : SUBSET (1 .. conn)]
    <3>1. NoClient \in [conn : 0 .. conn, first : 0 .. taken', offers : SUBSET (1 .. conn)]
      BY <1>1, <1>6 DEF NoClient, TypeOK
    <3> QED BY <1>6, <2>1, <3>1 DEF Refused, Upgraded, Clients
  <2>3. TypeOK'
    BY <1>1, <1>5, <1>6, <1>8, <2>1, <2>2 DEF TypeOK
  <2>4. CallsAndAnswers'
    BY <1>1, <1>5, <1>8, <2>1 DEF CallsAndAnswers, Refused, Upgraded, NoClient
  <2>5. RequestIsOfThisConnection' /\ RequestIsUnanswered' /\ UpgradedIsValid'
        /\ OffersAwaitAnAnswer'
    BY <1>5, <2>1 DEF RequestIsOfThisConnection, RequestIsUnanswered, UpgradedIsValid,
       OffersAwaitAnAnswer, Refused, Upgraded
  <2> QED BY <2>3, <2>4, <2>5 DEF IInv
<1> QED BY <1>2, <1>7, <1>8

\* A call that ends without a decision: the entry is gone with the connection or
\* dropped, or holds the bytes taken so far.
LEMMA CallEnds ==
  ASSUME IInv, reading, ~ reading',
         UNCHANGED <<conn, peer, sent, first, taken, offers, client, overrun>>,
         {open', ready', split'} \subseteq BOOLEAN,
         peerState' \in {"up", "closed", "reset"},
         \/ ~ open' /\ answer' \in {"none", "silent", "405"}
         \/ open' /\ answer' \in {"none", "silent"},
         \/ request' = NoRequest
         \/ /\ open' /\ request' \in [conn : {conn}, first : 0 .. taken,
                                      size : 0 .. BufferSize - 1]
            /\ request'.first + request'.size = taken
  PROVE  IInv'
<1>1. /\ TypeOK /\ Len(peer.text) \in Nat /\ open /\ client = NoClient /\ conn > 0
      /\ reading' = FALSE
  BY RequestType DEF IInv, TypeOK, CallsAndAnswers
<1>2. conn \in 1 .. conn
  BY <1>1, HandshakeAssumption DEF TypeOK, HandshakeAssumption
<1>3. request' = NoRequest \/ request' \in [conn : 1 .. conn, first : 0 .. taken,
                                            size : 0 .. BufferSize - 1]
  BY <1>2
<1>4. TypeOK'
  BY <1>1, <1>3 DEF TypeOK
<1>5. CallsAndAnswers' /\ RequestIsOfThisConnection' /\ RequestIsUnanswered'
      /\ UpgradedIsValid' /\ OffersAwaitAnAnswer'
  BY <1>1 DEF CallsAndAnswers, RequestIsOfThisConnection, RequestIsUnanswered,
     UpgradedIsValid, OffersAwaitAnAnswer
<1> QED BY <1>4, <1>5 DEF IInv

\* A peer that closes takes the entry and the descriptor with it.
LEMMA RecvZeroStep == IInv /\ RecvZero => IInv'
<1> SUFFICES ASSUME IInv, RecvZero PROVE IInv'
  OBVIOUS
<1>1. TypeOK /\ answer \in {"none", "silent"}
  BY DEF IInv, RecvZero, TypeOK, CallsAndAnswers
<1> QED BY <1>1, CallEnds DEF RecvZero, Forget, Close, network, owner, TypeOK

\* A failing recv drops the entry and leaves the descriptor open.
LEMMA RecvErrorStep == IInv /\ RecvError => IInv'
<1> SUFFICES ASSUME IInv, RecvError PROVE IInv'
  OBVIOUS
<1>1. TypeOK /\ open
  BY DEF IInv, RecvError, CallsAndAnswers
<1> QED BY <1>1, CallEnds DEF RecvError, Forget, KeepOpen, owner, TypeOK

\* What recv took in this call is appended to the bytes of the calls before it.
LEMMA RecvAgainStep == IInv /\ RecvAgain => IInv'
<1> SUFFICES ASSUME IInv, RecvAgain PROVE IInv'
  OBVIOUS
<1>1. /\ TypeOK /\ open /\ reading /\ Len(peer.text) \in Nat
      /\ answer \in {"none", "silent"}
  BY RequestType DEF IInv, RecvAgain, TypeOK, CallsAndAnswers
<1>2. taken \in Nat /\ first \in 0 .. taken /\ Total \in 0 .. taken
      /\ Total = taken - first
  BY <1>1 DEF TypeOK, Total
<1>3. /\ ~ reading' /\ UNCHANGED <<conn, peer, sent, peerState, first, taken, offers,
                                   client, overrun>>
      /\ split' \in BOOLEAN
  BY <1>1 DEF RecvAgain, network, owner, TypeOK
<1>4. {open', ready', split'} \subseteq BOOLEAN
  BY <1>1, <1>3 DEF RecvAgain, AddRequest, RefuseAtOnce, AppendToRequest, DropTooLarge,
     KeepOpen, Close, TypeOK
<1>5. CASE AddRequest
  <2>1. Total \in 0 .. BufferSize - 1
    BY <1>2, <1>5, HandshakeAssumption DEF AddRequest, HandshakeAssumption
  <2>2. /\ request' \in [conn : {conn}, first : 0 .. taken, size : 0 .. BufferSize - 1]
        /\ request'.first + request'.size = taken
    BY <1>2, <1>5, <2>1 DEF AddRequest
  <2> QED BY <1>1, <1>3, <1>4, <1>5, <2>2, CallEnds DEF AddRequest, KeepOpen, TypeOK
<1>6. CASE RefuseAtOnce
  BY <1>1, <1>3, <1>4, <1>6, CallEnds DEF RefuseAtOnce, Close, TypeOK
<1>7. CASE AppendToRequest
  <2>1. /\ request \in [conn : 1 .. conn, first : 0 .. taken, size : 0 .. BufferSize - 1]
        /\ request.conn = conn /\ request.first + request.size = first
    BY <1>1, <1>7 DEF AppendToRequest, TypeOK, IInv, RequestIsOfThisConnection
  <2>2. request.size + Total \in 0 .. BufferSize - 1
    BY <1>2, <1>7, <2>1, HandshakeAssumption DEF AppendToRequest, HandshakeAssumption
  <2>3. request' = [request EXCEPT !.size = request.size + Total]
    BY <1>7 DEF AppendToRequest
  <2>4. /\ request' \in [conn : {conn}, first : 0 .. taken, size : 0 .. BufferSize - 1]
        /\ request'.first = request.first /\ request'.size = request.size + Total
    BY <2>1, <2>2, <2>3
  <2>5. request'.first + request'.size = taken
    BY <1>2, <2>1, <2>4
  <2> QED BY <1>1, <1>3, <1>4, <1>7, <2>4, <2>5, CallEnds
      DEF AppendToRequest, KeepOpen, TypeOK
<1>8. CASE DropTooLarge
  BY <1>1, <1>3, <1>4, <1>8, CallEnds DEF DropTooLarge, Forget, KeepOpen, TypeOK
<1> QED BY <1>5, <1>6, <1>7, <1>8 DEF RecvAgain

-----------------------------------------------------------------------------
\* IInv is inductive.
LEMMA StepIsGood == IInv /\ [Next]_vars => IInv'
<1>1. IInv /\ Server => IInv'
  BY HandleUpgradeStep, HandleClientDataStep, RecvStep, RecvZeroStep, RecvErrorStep,
     RecvAgainStep DEF Server
<1>2. IInv /\ Peer => IInv'
  BY ConnectStep, NetworkStep DEF Peer
<1>3. IInv /\ UNCHANGED vars => IInv'
  <2> SUFFICES ASSUME IInv, UNCHANGED vars PROVE IInv'
    OBVIOUS
  <2>1. TypeOK'
    BY DEF vars, IInv, TypeOK
  <2>2. CallsAndAnswers' /\ RequestIsOfThisConnection' /\ RequestIsUnanswered'
        /\ UpgradedIsValid' /\ OffersAwaitAnAnswer'
    BY DEF vars, IInv, CallsAndAnswers, RequestIsOfThisConnection,
       RequestIsUnanswered, UpgradedIsValid, OffersAwaitAnAnswer
  <2> QED BY <2>1, <2>2 DEF IInv
<1> QED BY <1>1, <1>2, <1>3 DEF Next

\* IInv holds in every reachable state, for every set of requests, every way the
\* network cuts them and every order of hang-ups, resets and new connections.
THEOREM Invariance == Spec => []IInv
BY InitIsGood, StepIsGood, PTL DEF Spec

\* Every variable keeps its type; in particular an entry of the incomplete-request
\* table always leaves room for the terminating byte of its buffer.
THEOREM TypeCorrect == Spec => []TypeOK
<1>1. IInv => TypeOK
  BY DEF IInv
<1> QED BY Invariance, <1>1, PTL

\* An entry of the incomplete-request table holds exactly the bytes of the
\* connection that owns the descriptor now: no path through handle_upgrade closes
\* a descriptor and keeps its entry, or drops or repeats bytes of an append.
THEOREM RequestsStayWithTheirConnection == Spec => []RequestIsOfThisConnection
<1>1. IInv => RequestIsOfThisConnection
  BY DEF IInv
<1> QED BY Invariance, <1>1, PTL

\* A descriptor is in one table at most, so handle_connection never takes the
\* bytes of a client for a request.
THEOREM TablesAreDisjoint == Spec => []RequestIsUnanswered
<1>1. IInv => RequestIsUnanswered
  BY DEF IInv
<1> QED BY Invariance, <1>1, PTL

\* A client is made only of a request with the headers the protocol requires, for
\* every cut of the network and every place where its end was seen, unless the
\* beginning of the request had been given up before.
THEOREM OnlyValidUpgrades == Spec => []UpgradedIsValid
<1>1. IInv => UpgradedIsValid
  BY DEF IInv
<1> QED BY Invariance, <1>1, PTL

\* Offered extensions are off the waiting list once the connection is upgraded.
THEOREM NoOffersOnceUpgraded == Spec => []OffersAwaitAnAnswer
<1>1. IInv => OffersAwaitAnAnswer
  BY DEF IInv
<1> QED BY Invariance, <1>1, PTL
=============================================================================
