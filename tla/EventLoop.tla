------------------------------ MODULE EventLoop ------------------------------
(***************************************************************************)
(* The event loop (events.c, epoll), the listener (net.c) and the          *)
(* descriptors of all connections.                                         *)
(*                                                                         *)
(* epoll is external.  Every watch is edge-triggered: a descriptor enters  *)
(* the ready list when something happens to it and leaves it when          *)
(* epoll_wait looks at it.  The list is served in order, BatchSize events  *)
(* at a time, and the loop handles a whole batch before it asks again,     *)
(* while descriptors are closed and given to new connections.              *)
(***************************************************************************)
EXTENDS Integers, Sequences, FiniteSets

CONSTANTS Fds,            \* descriptors the process may have open
          Listener,       \* the listening socket
          MaxConnections, \* bound: connections made
          Backlog,        \* LISTEN_BACKLOG
          BatchSize       \* INITIAL_EVENT_SIZE

ASSUME LoopAssumption ==
  /\ Listener \notin Fds
  /\ {MaxConnections, Backlog, BatchSize} \subseteq Nat \ {0}

VARIABLES
  made,     \* connections made so far; a connection is its serial number
  backlog,  \* connections that are not accepted yet, in order
  owner,    \* owner[fd]: the connection that has it, 0 when it is closed
  pending,  \* connections that sent or hung up since their handler last ran
  ready,    \* epoll's ready list
  batch,    \* events of the last epoll_wait not handled yet
  merged    \* one event stood for several waiting connections, or accept
            \* failed for want of a descriptor (auxiliary)

vars == <<made, backlog, owner, pending, ready, batch, merged>>

Connections == 1 .. MaxConnections

Init ==
  /\ made = 0 /\ backlog = <<>> /\ owner = [fd \in Fds |-> 0] /\ pending = {}
  /\ ready = <<>> /\ batch = <<>> /\ merged = FALSE

-----------------------------------------------------------------------------
In(x, s) == \E i \in DOMAIN s : s[i] = x

\* Variant of Woken, rejected by EveryoneIsServed: the list is a stack.
WokenFirst(x) == IF In(x, ready) THEN ready ELSE <<x>> \o ready

\* A wake-up of an entry that is already on the list adds nothing.
Woken(x) == IF In(x, ready) THEN ready ELSE Append(ready, x)

PeerConnects ==
  /\ made < MaxConnections /\ Len(backlog) < Backlog
  /\ made' = made + 1
  /\ backlog' = Append(backlog, made')
  /\ ready' = Woken(Listener)
  /\ UNCHANGED <<owner, pending, batch, merged>>

\* A peer sends or hangs up, before or after it is accepted.
PeerActs ==
  \E c \in 1 .. made :
    /\ \/ In(c, backlog) /\ UNCHANGED ready
       \/ \E fd \in Fds : owner[fd] = c /\ ready' = Woken(fd)
    /\ pending' = pending \cup {c}
    /\ UNCHANGED <<made, backlog, owner, batch, merged>>

-----------------------------------------------------------------------------
\* What epoll_wait finds when it looks at an entry of the list.
Reportable(x) == IF x = Listener THEN backlog # <<>> ELSE owner[x] \in pending

Event(x) == [on |-> x, conn |-> IF x = Listener THEN 0 ELSE owner[x]]

\* The places in S, each once and in order; the entries of the list at these places.
InOrder(S) ==
  UNION {{f \in [1 .. n -> S] : /\ \A i, j \in 1 .. n : i < j => f[i] < f[j]
                              /\ \A p \in S : \E i \in 1 .. n : f[i] = p} : n \in 0 .. Len(ready)}

Kept(S) == {[i \in DOMAIN f |-> ready[f[i]]] : f \in InOrder(S)}

\* The places of the list where there still is something, and those epoll_wait
\* looks at until its batch is full.
Live == {i \in DOMAIN ready : Reportable(ready[i])}

Seen == {i \in DOMAIN ready : Cardinality({j \in Live : j < i}) < BatchSize}

\* Variant, rejected by EdgesAreKept and
\* AcceptedUnlessMerged: what does not fit the batch is forgotten.
EpollWaitForgetful ==
  /\ batch = <<>> /\ ready # <<>>
  /\ \E reported \in Kept(Live \cap Seen) : batch' = [i \in DOMAIN reported |-> Event(reported[i])]
  /\ ready' = <<>>
  /\ UNCHANGED <<made, backlog, owner, pending, merged>>

\* What is looked at leaves the list, whether there was something or not.
EpollWait ==
  /\ batch = <<>> /\ ready # <<>>
  /\ \E reported \in Kept(Live \cap Seen) :
       /\ batch' = [i \in DOMAIN reported |-> Event(reported[i])]
       /\ merged' = (merged \/ (In(Listener, reported) /\ Len(backlog) > 1))
  /\ ready' \in Kept(DOMAIN ready \ Seen)
  /\ UNCHANGED <<made, backlog, owner, pending>>

\* The loop takes the next event of its batch.
NextEvent(x) == batch # <<>> /\ Head(batch).on = x /\ batch' = Tail(batch)

\* accept and add_to_event_loop: epoll looks at a descriptor when it is added.
Accept(fd) ==
  /\ owner[fd] = 0
  /\ owner' = [owner EXCEPT ![fd] = Head(backlog)]
  /\ backlog' = Tail(backlog)
  /\ ready' = IF Head(backlog) \in pending THEN Woken(fd) ELSE ready
  /\ UNCHANGED merged

\* No descriptor is free: accept returns -1, and adding -1 to epoll fails too.
AcceptFails ==
  /\ \A fd \in Fds : owner[fd] # 0
  /\ merged' = TRUE
  /\ UNCHANGED <<owner, backlog, ready>>

\* accept_connection: one connection for one event.  The listener is a blocking
\* socket: without a connection accept would wait for one.
AcceptConnection ==
  /\ NextEvent(Listener) /\ backlog # <<>>
  /\ (\E fd \in Fds : Accept(fd)) \/ AcceptFails
  /\ UNCHANGED <<made, pending>>

\* Variant of Closed, rejected by TypeOK: the descriptor stays watched.
ClosedButWatched(fd) == {ready}

\* close_connection takes the descriptor off epoll's list.
Closed(fd) == Kept({i \in DOMAIN ready : ready[i] # fd})

\* Variant, rejected by EventsReachTheirConnection: a handler closes another
\* client, as if nitrows_close closed the socket at once.
HandleAndCloseAnother(fd) ==
  /\ NextEvent(fd)
  /\ pending' = pending \ {owner[fd]}
  /\ \E other \in Fds : owner' = [owner EXCEPT ![other] = 0] /\ ready' \in Closed(other)
  /\ UNCHANGED <<made, backlog, merged>>

\* handle_connection deals with what was reported; it may end in close_connection for
\* this descriptor, and for no other: nitrows_close and a failed send leave the
\* closing of other clients to their own events.
HandleConnection(fd) ==
  /\ NextEvent(fd)
  /\ pending' = pending \ {owner[fd]}
  /\ \/ UNCHANGED <<owner, ready>>
     \/ owner' = [owner EXCEPT ![fd] = 0] /\ ready' \in Closed(fd)
  /\ UNCHANGED <<made, backlog, merged>>

\* The batch is handled in order.
RunEventLoop == EpollWait \/ AcceptConnection \/ \E fd \in Fds : HandleConnection(fd)

Next == PeerConnects \/ PeerActs \/ RunEventLoop

Spec == Init /\ [][Next]_vars

\* The process keeps running its loop.
FairSpec == Spec /\ WF_vars(RunEventLoop)

-----------------------------------------------------------------------------
\* Every variable keeps its type; a connection has one descriptor at most, and
\* only open descriptors are watched.
TypeOK ==
  /\ made \in 0 .. MaxConnections
  /\ backlog \in Seq(Connections) /\ Len(backlog) <= Backlog
  /\ owner \in [Fds -> 0 .. made] /\ pending \subseteq 1 .. made
  /\ ready \in Seq(Fds \cup {Listener})
  /\ batch \in Seq([on : Fds \cup {Listener}, conn : 0 .. made])
  /\ merged \in BOOLEAN
  /\ \A i \in DOMAIN ready : ready[i] # Listener => owner[ready[i]] # 0
  /\ \A f, g \in Fds : owner[f] = owner[g] /\ owner[f] # 0 => f = g

\* A batch is handled after epoll_wait returned, closed descriptors are reused
\* meanwhile and connections leave the backlog; yet an event finds what it was
\* reported for: the same connection, or one to accept, so that accept never
\* waits on the blocking listener, which would stop every client.
EventsReachTheirConnection ==
  /\ \A i \in DOMAIN batch :
       batch[i].on # Listener => batch[i].conn # 0 /\ owner[batch[i].on] = batch[i].conn
  /\ In(Listener, [i \in DOMAIN batch |-> batch[i].on]) => backlog # <<>>

\* No edge is lost between a full batch, a close and a reuse: whoever
\* waits for its handler is on the ready list or in the batch.
EdgesAreKept ==
  \A fd \in Fds :
    owner[fd] \in pending => In(fd, ready) \/ In(fd, [i \in DOMAIN batch |-> batch[i].on])

\* No connection starves behind others, however small the batch.
EveryoneIsServed ==
  \A c \in Connections :
    (\E fd \in Fds : owner[fd] = c /\ c \in pending)
      ~> (c \notin pending \/ \A fd \in Fds : owner[fd] # c)

\* A waiting connection is accepted as long as no event stands for two of them
\* and a descriptor is free.
AcceptedUnlessMerged ==
  \A c \in Connections : In(c, backlog) ~> ~ In(c, backlog) \/ merged
=============================================================================
