---------------------------- MODULE Application ----------------------------
(***************************************************************************)
(* The public interface (nitrows.c, handlers.c) and what it does to the    *)
(* clients (send_data_frame and start_closing in frame.c).                 *)
(*                                                                         *)
(* The application runs inside its message handler and nowhere else.  It   *)
(* knows a client by the descriptor it is called with, is never told that  *)
(* one is gone, and may use every id it remembers, whoever has the         *)
(* descriptor by then.                                                     *)
(***************************************************************************)
EXTENDS Naturals

CONSTANTS Fds, NoFd,      \* descriptors, and none
          MaxConnections, \* bound: connections made
          MaxMessages     \* bound: messages handed to the application

ASSUME ApplicationAssumption == NoFd \notin Fds /\ MaxConnections \in Nat /\ MaxMessages \in Nat

VARIABLES
  made,     \* connections made so far; a connection is its serial number
  handed,   \* messages handed to the application so far
  owner,    \* owner[fd]: the connection that has it, 0 when it is closed
  status,   \* status[fd]: of the client, "NONE" when the table has none
  type,     \* type[fd]: data_frame.type, of the message being received
  handling, \* the client whose message the application has, or NoFd
  known,    \* the ids the application remembers, with whom it means by them
  frame,    \* the last data frame sent (auxiliary)
  late,     \* late[fd]: messages handed over since nitrows_close (auxiliary)
  inOwn,    \* clients that were closed from their own handler (auxiliary)
  crashed   \* whom an id meant that get_client did not find, or 0

vars == <<made, handed, owner, status, type, handling, known, frame, late, inOwn, crashed>>
aux == <<frame, late, inOwn>>

NoFrame == [to |-> 0]
DataTypes == {"TEXT", "BINARY"}

Init ==
  /\ made = 0 /\ handed = 0 /\ owner = [fd \in Fds |-> 0]
  /\ status = [fd \in Fds |-> "NONE"] /\ type = [fd \in Fds |-> "INVALID"]
  /\ handling = NoFd /\ known = {} /\ crashed = 0
  /\ frame = NoFrame /\ late = [fd \in Fds |-> 0] /\ inOwn = {}

-----------------------------------------------------------------------------
(* The size of a data frame in its header.                                 *)

\* What send_data_frame writes: seven bits, then sixteen or sixty-four more.
LengthField(size) ==
  CASE size <= 125 -> [code |-> size % 128, extended |-> 0]
    [] size > 125 /\ size <= 65535 -> [code |-> 126, extended |-> size % 65536]
    [] OTHER -> [code |-> 127, extended |-> size % (65536 * 65536 * 65536 * 65536)]

\* What a peer reads (RFC 6455, 5.2).
LengthRead(field) == IF field.code <= 125 THEN field.code ELSE field.extended

-----------------------------------------------------------------------------
(* Connections and their messages.                                         *)

Running == crashed = 0
Serving == Running /\ handling = NoFd

\* get_client.
Found(fd) == status[fd] # "NONE"

Accept(fd) ==
  /\ Serving /\ owner[fd] = 0 /\ made < MaxConnections
  /\ made' = made + 1 /\ owner' = [owner EXCEPT ![fd] = made']
  /\ UNCHANGED <<handed, status, type, handling, known, aux, crashed>>

\* init_client, when the handshake was answered.
InitClient(fd) ==
  /\ Serving /\ owner[fd] # 0 /\ ~ Found(fd)
  /\ status' = [status EXCEPT ![fd] = "CONNECTED"]
  /\ type' = [type EXCEPT ![fd] = "INVALID"]
  /\ late' = [late EXCEPT ![fd] = 0] /\ inOwn' = inOwn \ {fd}
  /\ UNCHANGED <<made, handed, owner, handling, known, frame, crashed>>

\* The first byte of a message is read.
GetFrameType(fd) ==
  /\ Serving /\ Found(fd) /\ type[fd] = "INVALID"
  /\ \E t \in DataTypes : type' = [type EXCEPT ![fd] = t]
  /\ UNCHANGED <<made, handed, owner, status, handling, known, aux, crashed>>

\* Variant, rejected by RepliesAreTheirs: the frame is reset before the handler.
HandleAfterReset(fd) ==
  /\ Serving /\ Found(fd) /\ type[fd] # "INVALID" /\ handed < MaxMessages
  /\ handed' = handed + 1
  /\ handling' = fd /\ known' = known \cup {[fd |-> fd, conn |-> owner[fd]]}
  /\ late' = late /\ type' = [type EXCEPT ![fd] = "INVALID"]
  /\ UNCHANGED <<made, owner, status, frame, inOwn, crashed>>

\* The message is complete and valid, and handed to the application.
HandleDataFrame(fd) ==
  /\ Serving /\ Found(fd) /\ type[fd] # "INVALID" /\ handed < MaxMessages
  /\ handed' = handed + 1
  /\ handling' = fd /\ known' = known \cup {[fd |-> fd, conn |-> owner[fd]]}
  /\ late' = [late EXCEPT ![fd] = IF status[fd] = "CLOSING" THEN @ + 1 ELSE @]
  /\ UNCHANGED <<made, owner, status, type, frame, inOwn, crashed>>

\* Variant, rejected by TypeOK: the client stays in its table.
CloseSocketOnly(fd) == owner' = [owner EXCEPT ![fd] = 0] /\ UNCHANGED status

CloseClient(fd) ==
  /\ owner' = [owner EXCEPT ![fd] = 0] /\ status' = [status EXCEPT ![fd] = "NONE"]

\* The peer goes, or what it sends is refused.
CloseConnection(fd) ==
  /\ Serving /\ owner[fd] # 0
  /\ CloseClient(fd)
  /\ UNCHANGED <<made, handed, type, handling, known, aux, crashed>>

\* Variant, rejected by NoMoreAfterClose: the status is not looked at.
HandlerReturnsAlways ==
  /\ Running /\ handling # NoFd /\ handling' = NoFd
  /\ UNCHANGED <<owner, status>> /\ type' = [type EXCEPT ![handling] = "INVALID"]
  /\ UNCHANGED <<made, handed, known, aux, crashed>>

\* After the handler a client that was asked to close is closed; of the others
\* the frame is reset.
HandlerReturns ==
  /\ Running /\ handling # NoFd /\ handling' = NoFd
  /\ IF status[handling] = "CLOSING"
     THEN CloseClient(handling) /\ UNCHANGED type
     ELSE UNCHANGED <<owner, status>> /\ type' = [type EXCEPT ![handling] = "INVALID"]
  /\ UNCHANGED <<made, handed, known, aux, crashed>>

-----------------------------------------------------------------------------
(* What the application may do in its handler.                             *)

\* An id whose client is not in the table: NULL is dereferenced.
Crash(id) ==
  /\ Running /\ handling # NoFd /\ ~ Found(id.fd)
  /\ crashed' = id.conn
  /\ UNCHANGED <<made, handed, owner, status, type, handling, known, aux>>

\* The opcode is the type of what this client is sending, and that of no message
\* (all bits set) if it is sending nothing.
Sent(id) == [to |-> owner[id.fd], meant |-> id.conn, reply |-> id.fd = handling, opcode |-> type[id.fd]]

SendMessage(id) ==
  /\ Running /\ handling # NoFd /\ Found(id.fd)
  /\ frame' = Sent(id)
  /\ UNCHANGED <<made, handed, owner, status, type, handling, known, late, inOwn, crashed>>

\* Variant, rejected by OpenClientsAreFound: the client is taken off its table.
StartClosingAtOnce(id) ==
  /\ Running /\ handling # NoFd /\ Found(id.fd)
  /\ status' = [status EXCEPT ![id.fd] = "NONE"]
  /\ UNCHANGED <<made, handed, owner, type, handling, known, aux, crashed>>

\* nitrows_close only marks the client.
StartClosing(id) ==
  /\ Running /\ handling # NoFd /\ Found(id.fd)
  /\ status' = [status EXCEPT ![id.fd] = "CLOSING"]
  /\ inOwn' = IF id.fd = handling /\ status[id.fd] = "CONNECTED" THEN inOwn \cup {id.fd} ELSE inOwn
  /\ UNCHANGED <<made, handed, owner, type, handling, known, frame, late, crashed>>

Next ==
  \/ \E fd \in Fds : \/ Accept(fd) \/ InitClient(fd) \/ GetFrameType(fd)
                     \/ HandleDataFrame(fd) \/ CloseConnection(fd)
  \/ HandlerReturns
  \/ \E id \in known : SendMessage(id) \/ StartClosing(id) \/ Crash(id)

Spec == Init /\ [][Next]_vars

-----------------------------------------------------------------------------
\* Every variable keeps its type; only open connections are clients.
TypeOK ==
  /\ made \in 0 .. MaxConnections /\ handed \in 0 .. MaxMessages
  /\ owner \in [Fds -> 0 .. made] /\ type \in [Fds -> DataTypes \cup {"INVALID"}]
  /\ status \in [Fds -> {"NONE", "CONNECTED", "CLOSING"}]
  /\ \A fd \in Fds : owner[fd] = 0 => status[fd] = "NONE"
  /\ handling \in Fds \cup {NoFd} /\ known \subseteq [fd : Fds, conn : 1 .. made]
  /\ frame \in {NoFrame} \cup [to : 1 .. made, meant : 1 .. made, reply : BOOLEAN,
                               opcode : DataTypes \cup {"INVALID"}]
  /\ late \in [Fds -> Nat] /\ inOwn \subseteq Fds /\ crashed \in 0 .. made

\* A frame sent to the client whose message is in the handler has the type of a
\* data frame, and a frame goes astray only by the id of a connection that is
\* gone, whose descriptor another client has.
RepliesAreTheirs ==
  frame # NoFrame =>
    /\ frame.reply => frame.opcode \in DataTypes
    /\ frame.to # frame.meant => \A fd \in Fds : owner[fd] # frame.meant

\* get_client finds whoever an id means as long as the connection is open,
\* whatever was closed in the meantime; only the id of one that is gone crashes.
OpenClientsAreFound ==
  /\ \A id \in known : owner[id.fd] = id.conn => Found(id.fd)
  /\ \A fd \in Fds : crashed # 0 => owner[fd] # crashed

\* After nitrows_close at most one more message of the client is handed over, and
\* none if it was called in the client's own handler.
NoMoreAfterClose ==
  \A fd \in Fds : Found(fd) => late[fd] <= IF fd \in inOwn THEN 0 ELSE 1
=============================================================================
