----------------------------- MODULE EventArray -----------------------------
(***************************************************************************)
(* The event loop on systems without epoll (events.c): an array of what is *)
(* watched, which grows, shrinks and is reordered by the handlers while    *)
(* the loop goes through the events.  With kqueue each descriptor has two  *)
(* entries and the kernel a copy of the array; with poll it has one, and   *)
(* the loop walks the array itself.  Both are level-triggered.             *)
(***************************************************************************)
EXTENDS Integers, Sequences, FiniteSets, SequencesExt

CONSTANTS Fds,            \* descriptors of connections
          Listener,       \* the listening socket
          Initial,        \* INITIAL_EVENT_SIZE, for each of the two loops
          MaxConnections, \* bound: connections made
          MaxOutputs      \* bound: outputs that have to wait

ASSUME ArrayAssumption ==
  /\ Fds \subseteq Nat /\ Listener \notin Fds \cup {-1}
  /\ Initial \in [{"kqueue", "poll"} -> Nat \ {0}] /\ Initial["kqueue"] % 2 = 0
  /\ {MaxConnections, MaxOutputs} \subseteq Nat

VARIABLES
  build,    \* which of the two loops is compiled
  objects,  \* nitrows_event.objects; its length is nitrows_event.count
  size, capacity, \* nitrows_event.size, and what is allocated
  denied,   \* realloc failed when the array had to grow (auxiliary)
  kernel,   \* kqueue: the watches the kernel has
  made, backlog, \* connections that reached accept, and that wait for it
  owner,    \* owner[fd]: the connection that has it, 0 when it is closed
  clients,  \* connections that are upgraded
  pending,  \* connections with input, or that hung up
  output,   \* clients with output that waits
  outputs,  \* what MaxOutputs counts
  batch,    \* kqueue: events not handled yet
  walk      \* poll: the next reported entry, 0 outside the loop over them

array == <<objects, size, capacity, denied, kernel>>
people == <<clients, pending, output, outputs>>
world == <<made, backlog, owner, people>>
vars == <<build, array, world, batch, walk>>

Connections == 1 .. MaxConnections
KQueue == build = "kqueue"

\* The entries of a descriptor: revents and conn are what poll reported last and
\* for whom; poll has not written them in a new entry.
Entries(fd, garbage) ==
  LET entry(filter) == [fd |-> fd, filter |-> filter, out |-> FALSE, revents |-> garbage, conn |-> 0]
  IN  IF KQueue THEN <<entry("read"), entry("write")>> ELSE <<entry("both")>>

\* With kqueue the first allocation is twice the size.
Init ==
  /\ build \in {"kqueue", "poll"}
  /\ objects = Entries(Listener, "none")
  /\ size = Initial[build] /\ capacity = IF KQueue THEN 2 * size ELSE size
  /\ denied = FALSE
  /\ kernel = IF KQueue THEN {[fd |-> Listener, filter |-> f, out |-> FALSE] : f \in {"read", "write"}} ELSE {}
  /\ made = 0 /\ backlog = 0 /\ owner = [fd \in Fds |-> 0]
  /\ clients = {} /\ pending = {} /\ output = {} /\ outputs = 0
  /\ batch = {} /\ walk = 0

-----------------------------------------------------------------------------
(* The array.                                                              *)

\* kevent takes the changes in order and stops at the first that is wrong.
Applied(os, watches) ==
  LET taken == SubSeq(os, 1, SelectInSeq(os \o <<[fd |-> -1]>>, LAMBDA e : e.fd = -1) - 1)
      new == {[fd |-> e.fd, filter |-> e.filter, out |-> e.out] : e \in ToSet(taken)}
  IN  {w \in watches : \A n \in new : <<n.fd, n.filter>> # <<w.fd, w.filter>>} \cup new

KEvent == kernel' = IF KQueue THEN Applied(objects', kernel) ELSE kernel

\* Variant of Full, rejected by WithinAllocation: one entry too late.
OverFull == Len(objects) > size
Full == Len(objects) = size

Grow ==
  IF ~ Full
  THEN UNCHANGED <<size, capacity, denied>>
  ELSE /\ size' = 2 * size
       /\ \/ capacity' = size' /\ UNCHANGED denied
          \/ denied' = TRUE /\ UNCHANGED capacity

\* Variant, rejected by EveryoneIsServed: the kernel is told with the next change.
AddUntold(fd) == objects' = objects \o Entries(fd, "none") /\ Grow /\ UNCHANGED kernel

\* The size doubles even if realloc fails.
AddToEventLoop(fd) ==
  /\ \E garbage \in IF KQueue THEN {"none"} ELSE {"none", "in", "out"} :
       objects' = objects \o Entries(fd, garbage)
  /\ Grow /\ KEvent

Index(fd) == SelectInSeq(objects, LAMBDA e : e.fd = fd)
Width == IF KQueue THEN 2 ELSE 1

\* Variant, rejected by ArrayIsComplete: the two last entries change places.
MovedSwapped(at) ==
  LET n == Len(objects)
  IN  [i \in 1 .. n - Width |-> IF i \in at .. at + Width - 1 THEN objects[n - (i - at)] ELSE objects[i]]

\* The last entries go where the deleted ones were.
Moved(at) ==
  LET n == Len(objects)
  IN  [i \in 1 .. n - Width |->
        IF i \in at .. at + Width - 1 THEN objects[n - Width + 1 + (i - at)] ELSE objects[i]]

Sparse(n) == n < size \div 3

\* The array is halved when few are left; realloc may leave it as it is.
DeleteFromEventLoop(fd) ==
  /\ objects' = Moved(Index(fd))
  /\ IF size = Initial[build] \/ ~ Sparse(Len(objects'))
     THEN UNCHANGED <<size, capacity>>
     ELSE /\ size' = size \div 2
          /\ capacity' = size' \/ UNCHANGED capacity
  /\ kernel' = {w \in kernel : w.fd # fd}
  /\ UNCHANGED denied

\* Variant, rejected by WatchesFollowOutput: the entry that was found.
SetReadNotify(fd, enable) ==
  /\ objects' = [objects EXCEPT ![Index(fd)].out = enable]
  /\ UNCHANGED <<owner, size, capacity, denied>>
  /\ KEvent

\* kqueue: the entry behind the one found is the one for writing.
SetWriteNotify(fd, enable) ==
  /\ objects' = [objects EXCEPT ![Index(fd) + Width - 1].out = enable]
  /\ UNCHANGED <<owner, size, capacity, denied>>
  /\ KEvent

-----------------------------------------------------------------------------
(* The handlers, by what they do to the array.                             *)

\* Peers connect as long as there is a descriptor for them.
PeerConnects ==
  /\ made + backlog < MaxConnections
  /\ backlog + Cardinality({fd \in Fds : owner[fd] # 0}) < Cardinality(Fds)
  /\ backlog' = backlog + 1
  /\ UNCHANGED <<build, array, made, owner, people, batch, walk>>

PeerActs ==
  /\ \E fd \in Fds : owner[fd] \notin pending \cup {0} /\ pending' = pending \cup {owner[fd]}
  /\ UNCHANGED <<build, array, made, backlog, owner, clients, output, outputs, batch, walk>>

\* accept gives the lowest descriptor that is free.  A connection aborted by its
\* peer makes accept return -1, which is added all the same.
AcceptConnection ==
  /\ backlog > 0
  /\ made' = made + 1 /\ backlog' = backlog - 1
  /\ \/ \E fd \in Fds :
          /\ owner[fd] = 0 /\ \A g \in Fds : g < fd => owner[g] # 0
          /\ owner' = [owner EXCEPT ![fd] = made']
          /\ AddToEventLoop(fd)
     \/ UNCHANGED owner /\ AddToEventLoop(-1)
  /\ UNCHANGED people

\* Variant, rejected by TypeOK: the client stays in its table.
CloseKeepingClient(fd) ==
  owner' = [owner EXCEPT ![fd] = 0] /\ DeleteFromEventLoop(fd) /\ UNCHANGED <<clients, output>>

CloseConnection(fd) ==
  /\ owner' = [owner EXCEPT ![fd] = 0]
  /\ clients' = clients \ {owner[fd]} /\ output' = output \ {owner[fd]}
  /\ DeleteFromEventLoop(fd)

\* What send_frame does for any client: output begins to wait, or is all gone.
SendFrame(fd) ==
  /\ owner[fd] \in clients
  /\ \/ /\ owner[fd] \notin output /\ outputs < MaxOutputs
        /\ outputs' = outputs + 1 /\ output' = output \cup {owner[fd]}
        /\ SetWriteNotify(fd, TRUE)
     \/ /\ owner[fd] \in output /\ UNCHANGED outputs
        /\ output' = output \ {owner[fd]}
        /\ SetWriteNotify(fd, FALSE)
  /\ UNCHANGED clients

Nothing == UNCHANGED <<array, owner, clients, output, outputs>>

\* Variant, rejected by InputReachesItsConnection: another client is closed, as if
\* nitrows_close closed the socket.
HandleAndCloseAnother(fd) ==
  /\ pending' = pending \ {owner[fd]} /\ UNCHANGED outputs
  /\ \E other \in Fds : owner[other] # 0 /\ CloseConnection(other)

\* handle_connection for input: it may end in close_connection, in the upgrade,
\* or send to any client.  A closed descriptor is read to no effect.
HandleInput(fd) ==
  /\ pending' = pending \ {owner[fd]}
  /\ \/ Nothing
     \/ /\ owner[fd] # 0 /\ owner[fd] \notin clients
        /\ clients' = clients \cup {owner[fd]} /\ UNCHANGED <<array, owner, output, outputs>>
     \/ owner[fd] # 0 /\ CloseConnection(fd) /\ UNCHANGED outputs
     \/ owner[fd] \in clients /\ \E to \in Fds : SendFrame(to)

\* handle_connection for room to write: a client's output goes on; any other
\* descriptor is taken for a handshake.
HandleOutput(fd) ==
  IF owner[fd] \in clients
  THEN UNCHANGED pending /\ (Nothing \/ (owner[fd] \in output /\ SendFrame(fd)))
  ELSE HandleInput(fd)

Handle(fd, what) ==
  IF fd = Listener THEN AcceptConnection
  ELSE (IF what = "in" THEN HandleInput(fd) ELSE HandleOutput(fd)) /\ UNCHANGED <<made, backlog>>

-----------------------------------------------------------------------------
(* The loops.                                                              *)

\* What can be reported of a descriptor, if those in w have room to write.
HasInput(fd) == IF fd = Listener THEN backlog > 0 ELSE fd \in Fds /\ owner[fd] \in pending
HasRoom(fd, w) == fd \in Fds /\ owner[fd] \in w

Owner(fd) == IF fd \in Fds THEN owner[fd] ELSE 0

\* kevent returns all events, there being fewer than the room for sixteen; the
\* order in which they are handled is the kernel's.
KEventWait ==
  /\ KQueue /\ batch = {}
  /\ \E w \in SUBSET output :
       batch' = {[fd |-> k.fd, what |-> IF k.filter = "read" THEN "in" ELSE "out", conn |-> Owner(k.fd)] :
                   k \in {k \in kernel : IF k.filter = "read" THEN HasInput(k.fd) ELSE k.out /\ HasRoom(k.fd, w)}}
  /\ batch' # {}
  /\ UNCHANGED <<build, array, world, walk>>

KEventNext ==
  /\ \E e \in batch : batch' = batch \ {e} /\ Handle(e.fd, e.what)
  /\ UNCHANGED <<build, walk>>

\* The next entry from i on that has something reported.
NextReported(os, i) == SelectInSubSeq(os, i, Len(os), LAMBDA e : e.revents # "none")

Polled(w) ==
  [i \in DOMAIN objects |->
    LET e == objects[i]
    IN  [e EXCEPT !.conn = Owner(e.fd),
                  !.revents = CASE HasInput(e.fd) -> "in"
                                [] ~ HasInput(e.fd) /\ e.out /\ HasRoom(e.fd, w) -> "out"
                                [] OTHER -> "none"]]

Poll ==
  /\ ~ KQueue /\ walk = 0
  /\ \E w \in SUBSET output : objects' = Polled(w)
  /\ walk' = NextReported(objects', 1) /\ walk' # 0
  /\ UNCHANGED <<build, size, capacity, denied, kernel, world, batch>>

PollNext ==
  /\ walk # 0
  /\ Handle(objects[walk].fd, objects[walk].revents)
  /\ walk' = NextReported(objects', walk + 1)
  /\ UNCHANGED <<build, batch>>

\* poll: the next entry is that of a failed accept, in which poll has not written
\* yet, with revents that say something is ready.
AtMinusOne == walk # 0 /\ objects[walk].fd = -1

\* What comes after a write behind the array, or after get_client reads in front of
\* its table for a descriptor of -1, is not followed.
RunEventLoop == Len(objects) <= capacity /\ ~ AtMinusOne /\ (KEventWait \/ KEventNext \/ Poll \/ PollNext)

Next == PeerConnects \/ PeerActs \/ RunEventLoop

Spec == Init /\ [][Next]_vars

\* The process keeps running its loop.
FairSpec == Spec /\ WF_vars(RunEventLoop)

-----------------------------------------------------------------------------
\* Every variable keeps its type; only open connections are clients, only
\* clients have output.
TypeOK ==
  /\ build \in {"kqueue", "poll"} /\ {size, capacity, backlog, outputs} \subseteq Nat /\ denied \in BOOLEAN
  /\ \A i \in DOMAIN objects : objects[i] \in
       [fd : Fds \cup {Listener, -1}, filter : {"read", "write", "both"}, out : BOOLEAN,
        revents : {"none", "in", "out"}, conn : 0 .. made]
  /\ kernel \subseteq [fd : Fds \cup {Listener}, filter : {"read", "write"}, out : BOOLEAN]
  /\ made \in 0 .. MaxConnections /\ owner \in [Fds -> 0 .. made]
  /\ output \subseteq clients /\ clients \subseteq {owner[fd] : fd \in Fds} /\ 0 \notin clients
  /\ walk \in 0 .. Len(objects)

\* The array has the listener and every open connection, each once and in whole
\* pairs, however it was reordered by deletions in the middle of the events;
\* besides them it has only the -1 of accepts that failed.
ArrayIsComplete ==
  LET watched == {objects[i].fd : i \in DOMAIN objects} \ {-1}
      filters(fd) == {i \in DOMAIN objects : objects[i].fd = fd}
  IN  /\ watched = {Listener} \cup {fd \in Fds : owner[fd] # 0}
      /\ \A fd \in watched :
           IF KQueue
           THEN \E i \in DOMAIN objects : /\ filters(fd) = {i, i + 1} /\ objects[i].filter = "read"
                                          /\ objects[i + 1].filter = "write"
           ELSE \E i \in DOMAIN objects : filters(fd) = {i}

\* Nothing is written behind the allocated array, unless realloc failed when it
\* had to grow.
WithinAllocation == Len(objects) > capacity => denied

\* A client is watched for room to write exactly while it has output, in the
\* array and, as long as no accept failed, in the kernel's copy too; nobody
\* inherits the watch of an earlier connection.
WatchesFollowOutput ==
  \A fd \in Fds : owner[fd] # 0 =>
    /\ objects[Index(fd) + Width - 1].out = (owner[fd] \in output)
    /\ KQueue /\ Index(-1) = 0 =>
         {[fd |-> fd, filter |-> "read", out |-> FALSE],
          [fd |-> fd, filter |-> "write", out |-> owner[fd] \in output]} \subseteq kernel

\* Input that was reported is handled for the connection it was reported for.
\* Room to write may be handled for a later one on the descriptor (kqueue), and
\* an entry added since poll returned has no report of its own.
InputReachesItsConnection ==
  /\ \A e \in batch : e.what = "in" /\ e.fd # Listener => owner[e.fd] = e.conn
  /\ walk # 0 => \A i \in walk .. Len(objects) :
       LET e == objects[i] IN e.revents # "none" /\ e.fd \in Fds => e.conn \in {0, owner[e.fd]}

\* Nobody is forgotten by a loop whose array changes under it, unless an accept
\* failed: with kqueue what is behind its -1 is not registered, with poll the loop
\* may take the -1, new in the array, for a descriptor that is ready.
EveryoneIsServed ==
  \A c \in Connections :
    c \in pending ~> c \notin pending \/ c \notin {owner[fd] : fd \in Fds} \/ (KQueue /\ Index(-1) # 0)
      \/ AtMinusOne \/ Len(objects) > capacity
=============================================================================
