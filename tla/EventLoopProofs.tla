--------------------------- MODULE EventLoopProofs ---------------------------
(***************************************************************************)
(* Proofs about EventLoop: its type invariant, that a batch finds the      *)
(* connections it was reported for, and that no edge is lost, for any      *)
(* number of descriptors and connections and any size of a batch.          *)
(***************************************************************************)
EXTENDS EventLoop, TLAPS

\* A descriptor is on the list once at most, and in the batch once at most.
Once ==
  /\ \A i, j \in DOMAIN ready : ready[i] = ready[j] => i = j
  /\ \A i, j \in DOMAIN batch : batch[i].on = batch[j].on => i = j

\* A connection in the backlog is there once and has no descriptor yet.
BacklogIsNew ==
  /\ \A i \in DOMAIN backlog : backlog[i] \in 1 .. made
  /\ \A i, j \in DOMAIN backlog : backlog[i] = backlog[j] => i = j
  /\ \A i \in DOMAIN backlog : \A fd \in Fds : owner[fd] # backlog[i]

Reaching == Once /\ BacklogIsNew /\ EventsReachTheirConnection /\ EdgesAreKept

IInv == TypeOK /\ Reaching

-----------------------------------------------------------------------------
\* What Kept gives is part of the list, in order, and nothing at the places that
\* are kept is lost.
LEMMA KeptFacts ==
  ASSUME TypeOK, NEW S \in SUBSET DOMAIN ready, NEW s \in Kept(S)
  PROVE  /\ s \in Seq(Fds \cup {Listener})
         /\ \A i \in DOMAIN s : \E p \in S : s[i] = ready[p]
         /\ \A p \in S : \E i \in DOMAIN s : s[i] = ready[p]
         /\ Once => \A i, j \in DOMAIN s : s[i] = s[j] => i = j
<1>1. PICK f \in InOrder(S) : s = [i \in DOMAIN f |-> ready[f[i]]]
  BY DEF Kept
<1>2. PICK n \in 0 .. Len(ready) :
        /\ f \in [1 .. n -> S]
        /\ \A i, j \in 1 .. n : i < j => f[i] < f[j]
        /\ \A p \in S : \E i \in 1 .. n : f[i] = p
  BY DEF InOrder
<1>3. DOMAIN f = 1 .. n /\ DOMAIN s = 1 .. n /\ n \in Nat
  BY <1>1, <1>2 DEF TypeOK
<1>4. \A i \in 1 .. n : f[i] \in S /\ f[i] \in DOMAIN ready /\ s[i] = ready[f[i]]
  BY <1>1, <1>2, <1>3
<1>5. s \in Seq(Fds \cup {Listener})
  <2>1. s = [i \in 1 .. n |-> ready[f[i]]]
    BY <1>1, <1>3
  <2>2. \A i \in 1 .. n : ready[f[i]] \in Fds \cup {Listener}
    BY <1>4 DEF TypeOK
  <2> QED
    BY <2>1, <2>2, <1>3
<1>6. ASSUME Once, NEW i \in 1 .. n, NEW j \in 1 .. n, s[i] = s[j] PROVE i = j
  <2>1. f[i] = f[j]
    BY <1>4, <1>6 DEF Once
  <2>2. f[i] \in Int /\ f[j] \in Int
    BY <1>4 DEF TypeOK
  <2> QED
    BY <1>2, <2>1, <2>2
<1> QED
  BY <1>2, <1>3, <1>4, <1>5, <1>6

\* A wake-up keeps the list a list, and everybody who is on it.
LEMMA WokenFacts ==
  ASSUME TypeOK, NEW x \in Fds \cup {Listener}
  PROVE  /\ Woken(x) \in Seq(Fds \cup {Listener})
         /\ In(x, Woken(x))
         /\ \A y : In(y, ready) => In(y, Woken(x))
         /\ \A i \in DOMAIN Woken(x) : Woken(x)[i] = x \/ \E p \in DOMAIN ready : Woken(x)[i] = ready[p]
         /\ Once => \A i, j \in DOMAIN Woken(x) : Woken(x)[i] = Woken(x)[j] => i = j
<1>1. CASE In(x, ready)
  BY <1>1 DEF Woken, TypeOK, In, Once
<1>2. CASE ~ In(x, ready)
  <2>1. Woken(x) = Append(ready, x)
    BY <1>2 DEF Woken
  <2>2. /\ DOMAIN ready = 1 .. Len(ready) /\ Len(ready) \in Nat
        /\ Woken(x) \in Seq(Fds \cup {Listener})
        /\ DOMAIN Woken(x) = 1 .. Len(ready) + 1
        /\ \A i \in 1 .. Len(ready) : Woken(x)[i] = ready[i]
        /\ Woken(x)[Len(ready) + 1] = x
    BY <2>1 DEF TypeOK
  <2>3. \A i \in DOMAIN ready : ready[i] # x
    BY <1>2 DEF In
  <2>4. \A i \in DOMAIN Woken(x) : i \in DOMAIN ready \/ i = Len(ready) + 1
    BY <2>2
  <2> QED
    BY <2>2, <2>3, <2>4 DEF In, Once
<1> QED
  BY <1>1, <1>2

\* The rest of a queue, by the places in the queue.
LEMMA TailFacts ==
  ASSUME NEW S, NEW q \in Seq(S), q # <<>>
  PROVE  /\ Tail(q) \in Seq(S) /\ Head(q) = q[1] /\ 1 \in DOMAIN q
         /\ Len(Tail(q)) <= Len(q)
         /\ \A i \in DOMAIN Tail(q) : i + 1 \in DOMAIN q /\ i + 1 # 1 /\ Tail(q)[i] = q[i + 1]
         /\ \A i \in DOMAIN q : i # 1 => i - 1 \in DOMAIN Tail(q) /\ q[i] = Tail(q)[i - 1]
  OBVIOUS

\* A sequence over a set is one over a larger set.
LEMMA Wider ==
  ASSUME NEW S, NEW T, S \subseteq T, NEW q \in Seq(S)
  PROVE  q \in Seq(T)
<1>1. q = [i \in 1 .. Len(q) |-> q[i]] /\ Len(q) \in Nat
  OBVIOUS
<1>2. \A i \in 1 .. Len(q) : q[i] \in T
  OBVIOUS
<1> QED
  BY <1>1, <1>2

\* The descriptors of the batch, as the properties list them.
LEMMA InBatch ==
  ASSUME NEW x, NEW b
  PROVE  In(x, [i \in DOMAIN b |-> b[i].on]) <=> \E i \in DOMAIN b : b[i].on = x
  BY DEF In

Events == [on : Fds \cup {Listener}, conn : 0 .. made]

-----------------------------------------------------------------------------
LEMMA InitHolds == Init => IInv
<1> SUFFICES ASSUME Init PROVE IInv
  OBVIOUS
<1>1. DOMAIN ready = {} /\ DOMAIN batch = {} /\ DOMAIN backlog = {}
  BY DEF Init
<1>2. {MaxConnections, Backlog, BatchSize} \subseteq Nat
  BY LoopAssumption
<1>3. TypeOK
  <2>1. backlog \in Seq(Connections) /\ Len(backlog) <= Backlog
    BY <1>2 DEF Init
  <2>2. ready \in Seq(Fds \cup {Listener}) /\ batch \in Seq([on : Fds \cup {Listener}, conn : 0 .. made])
    BY DEF Init
  <2>3. made \in 0 .. MaxConnections /\ owner \in [Fds -> 0 .. made] /\ pending \subseteq 1 .. made
    BY <1>2 DEF Init
  <2>4. \A f, g \in Fds : owner[f] = owner[g] /\ owner[f] # 0 => f = g
    BY DEF Init
  <2> QED
    BY <1>1, <2>1, <2>2, <2>3, <2>4 DEF Init, TypeOK
<1>4. Once /\ BacklogIsNew
  BY <1>1 DEF Once, BacklogIsNew
<1>5. EventsReachTheirConnection
  BY <1>1, InBatch DEF EventsReachTheirConnection
<1>6. EdgesAreKept
  BY DEF Init, EdgesAreKept
<1> QED
  BY <1>3, <1>4, <1>5, <1>6 DEF IInv, Reaching

\* Who connects is new, and wakes the listener.
LEMMA PeerConnectsStep == IInv /\ PeerConnects => IInv'
<1> SUFFICES ASSUME IInv, PeerConnects PROVE IInv'
  OBVIOUS
<1>0. TypeOK /\ Once /\ BacklogIsNew /\ EventsReachTheirConnection /\ EdgesAreKept
  BY DEF IInv, Reaching
<1> USE LoopAssumption DEF PeerConnects
<1>1. /\ made' = made + 1 /\ made' \in 0 .. MaxConnections /\ made \in Nat /\ made' \in Connections
      /\ made' \notin 0 .. made
  BY <1>0 DEF TypeOK, Connections
<1>2. /\ backlog' \in Seq(Connections) /\ Len(backlog') <= Backlog
      /\ DOMAIN backlog' = DOMAIN backlog \cup {Len(backlog) + 1}
      /\ Len(backlog) + 1 \notin DOMAIN backlog
      /\ \A i \in DOMAIN backlog : backlog'[i] = backlog[i]
      /\ backlog'[Len(backlog) + 1] = made'
  BY <1>0, <1>1 DEF TypeOK, Connections
<1>3. TypeOK'
  <2>1. batch \in Seq([on : Fds \cup {Listener}, conn : 0 .. made'])
    <3> DEFINE Before == [on : Fds \cup {Listener}, conn : 0 .. made]
               After  == [on : Fds \cup {Listener}, conn : 0 .. made']
    <3>1. Before \subseteq After
      BY <1>1
    <3>2. batch \in Seq(Before)
      BY <1>0 DEF TypeOK
    <3> HIDE DEF Before, After
    <3>3. batch \in Seq(After)
      BY <3>1, <3>2, Wider
    <3> QED
      BY <3>3 DEF After
  <2>2. owner \in [Fds -> 0 .. made'] /\ pending \subseteq 1 .. made'
    BY <1>0, <1>1 DEF TypeOK
  <2>3. \A i \in DOMAIN ready' : ready'[i] # Listener => owner[ready'[i]] # 0
    BY <1>0, WokenFacts DEF TypeOK
  <2> QED
    BY <1>0, <1>1, <1>2, <2>1, <2>2, <2>3, WokenFacts DEF TypeOK
<1>4. Once'
  BY <1>0, WokenFacts DEF Once
<1>5. BacklogIsNew'
  BY <1>0, <1>1, <1>2 DEF BacklogIsNew, TypeOK
<1>6. EventsReachTheirConnection'
  BY <1>0, <1>2 DEF EventsReachTheirConnection, TypeOK
<1>7. EdgesAreKept'
  BY <1>0, WokenFacts DEF EdgesAreKept
<1> QED
  BY <1>3, <1>4, <1>5, <1>6, <1>7 DEF IInv, Reaching

\* Whose peer acts is in the backlog, or put on the list.
LEMMA PeerActsStep == IInv /\ PeerActs => IInv'
<1> SUFFICES ASSUME IInv, PeerActs PROVE IInv'
  OBVIOUS
<1>0. TypeOK /\ Once /\ BacklogIsNew /\ EventsReachTheirConnection /\ EdgesAreKept
  BY DEF IInv, Reaching
<1>1. PICK c \in 1 .. made :
        /\ \/ In(c, backlog) /\ UNCHANGED ready
           \/ \E fd \in Fds : owner[fd] = c /\ ready' = Woken(fd)
        /\ pending' = pending \cup {c}
        /\ UNCHANGED <<made, backlog, owner, batch, merged>>
  BY DEF PeerActs
<1>2. BacklogIsNew' /\ EventsReachTheirConnection'
  BY <1>0, <1>1 DEF BacklogIsNew, EventsReachTheirConnection
<1>3. CASE In(c, backlog) /\ UNCHANGED ready
  <2>1. TypeOK' /\ Once'
    BY <1>0, <1>1, <1>3 DEF TypeOK, Once
  <2>2. \A fd \in Fds : owner[fd] # c
    BY <1>0, <1>3 DEF In, BacklogIsNew
  <2>3. EdgesAreKept'
    BY <1>0, <1>1, <1>3, <2>2 DEF EdgesAreKept
  <2> QED
    BY <1>2, <2>1, <2>3 DEF IInv, Reaching
<1>4. ASSUME NEW fd \in Fds, owner[fd] = c, ready' = Woken(fd) PROVE IInv'
  <2>1. TypeOK'
    <3>1. \A i \in DOMAIN ready' : ready'[i] # Listener => owner[ready'[i]] # 0
      <4>1. owner[fd] # 0
        BY <1>0, <1>4 DEF TypeOK
      <4>2. \A i \in DOMAIN Woken(fd) : Woken(fd)[i] = fd \/ \E p \in DOMAIN ready : Woken(fd)[i] = ready[p]
        BY <1>0, WokenFacts
      <4> QED
        BY <1>0, <1>4, <4>1, <4>2 DEF TypeOK
    <3> QED
      BY <1>0, <1>1, <1>4, <3>1, WokenFacts DEF TypeOK
  <2>2. Once'
    BY <1>0, <1>1, <1>4, WokenFacts DEF Once
  <2>3. EdgesAreKept'
    <3> SUFFICES ASSUME NEW g \in Fds, owner[g] \in pending \cup {c}
                 PROVE  In(g, ready') \/ In(g, [i \in DOMAIN batch |-> batch[i].on])
      BY <1>1 DEF EdgesAreKept
    <3>1. CASE owner[g] \in pending
      BY <1>0, <1>4, <3>1, WokenFacts DEF EdgesAreKept
    <3>2. CASE owner[g] = c
      <4>1. g = fd
        BY <1>0, <1>1, <1>4, <3>2 DEF TypeOK
      <4> QED
        BY <1>0, <1>4, <4>1, WokenFacts
    <3> QED
      BY <3>1, <3>2
  <2> QED
    BY <1>2, <2>1, <2>2, <2>3 DEF IInv, Reaching
<1> QED
  BY <1>1, <1>3, <1>4

\* What epoll_wait looks at is in the batch if there was something, and the rest
\* is still on the list.
LEMMA EpollWaitStep == IInv /\ EpollWait => IInv'
<1> SUFFICES ASSUME IInv, EpollWait PROVE IInv'
  OBVIOUS
<1>0. TypeOK /\ Once /\ BacklogIsNew /\ EventsReachTheirConnection /\ EdgesAreKept
  BY DEF IInv, Reaching
<1>1. PICK reported \in Kept(Live \cap Seen) :
        /\ batch' = [i \in DOMAIN reported |-> Event(reported[i])]
        /\ merged' = (merged \/ (In(Listener, reported) /\ Len(backlog) > 1))
  BY DEF EpollWait
<1>2. ready' \in Kept(DOMAIN ready \ Seen) /\ batch = <<>> /\ UNCHANGED <<made, backlog, owner, pending>>
  BY DEF EpollWait
<1>3. Live \cap Seen \in SUBSET DOMAIN ready /\ DOMAIN ready \ Seen \in SUBSET DOMAIN ready
  BY DEF Live, Seen
<1>4. /\ reported \in Seq(Fds \cup {Listener})
      /\ \A i \in DOMAIN reported : \E p \in Live \cap Seen : reported[i] = ready[p]
      /\ \A p \in Live \cap Seen : \E i \in DOMAIN reported : reported[i] = ready[p]
      /\ \A i, j \in DOMAIN reported : reported[i] = reported[j] => i = j
  BY <1>0, <1>1, <1>3, KeptFacts
<1>5. /\ ready' \in Seq(Fds \cup {Listener})
      /\ \A i \in DOMAIN ready' : \E p \in DOMAIN ready \ Seen : ready'[i] = ready[p]
      /\ \A p \in DOMAIN ready \ Seen : \E i \in DOMAIN ready' : ready'[i] = ready[p]
      /\ \A i, j \in DOMAIN ready' : ready'[i] = ready'[j] => i = j
  BY <1>0, <1>2, <1>3, KeptFacts
<1>6. /\ DOMAIN batch' = DOMAIN reported
      /\ \A i \in DOMAIN reported : batch'[i] = Event(reported[i]) /\ batch'[i].on = reported[i]
  BY <1>1 DEF Event
<1>7. TypeOK'
  <2>1. \A i \in DOMAIN reported : Event(reported[i]) \in Events
    <3> SUFFICES ASSUME NEW i \in DOMAIN reported PROVE Event(reported[i]) \in Events
      OBVIOUS
    <3>1. reported[i] \in Fds \cup {Listener}
      BY <1>4
    <3>2. 0 \in 0 .. made /\ \A f \in Fds : owner[f] \in 0 .. made
      BY <1>0 DEF TypeOK
    <3> QED
      BY <3>1, <3>2 DEF Event, Events
  <2>2. batch' \in Seq(Events)
    <3>1. DOMAIN reported = 1 .. Len(reported) /\ Len(reported) \in Nat
      BY <1>4
    <3>2. batch' = [i \in 1 .. Len(reported) |-> Event(reported[i])]
      BY <1>1, <3>1
    <3> QED
      BY <2>1, <3>1, <3>2
  <2>3. \A i \in DOMAIN ready' : ready'[i] # Listener => owner[ready'[i]] # 0
    BY <1>0, <1>5 DEF TypeOK
  <2>4. merged' \in BOOLEAN
    BY <1>0, <1>1 DEF TypeOK
  <2> QED
    BY <1>0, <1>2, <1>5, <2>2, <2>3, <2>4 DEF TypeOK, Events
<1>8. Once'
  BY <1>4, <1>5, <1>6 DEF Once
<1>9. BacklogIsNew'
  BY <1>0, <1>2 DEF BacklogIsNew
<1>10. EventsReachTheirConnection'
  <2>1. ASSUME NEW i \in DOMAIN batch', batch'[i].on # Listener
        PROVE  batch'[i].conn # 0 /\ owner[batch'[i].on] = batch'[i].conn
    <3>1. PICK p \in DOMAIN ready : reported[i] = ready[p]
      BY <1>4, <1>6 DEF Live
    <3>2. owner[reported[i]] # 0
      BY <1>0, <1>6, <2>1, <3>1 DEF TypeOK
    <3> QED
      BY <1>6, <2>1, <3>2 DEF Event
  <2>2. ASSUME NEW i \in DOMAIN batch', batch'[i].on = Listener PROVE backlog # <<>>
    <3>1. PICK p \in Live : ready[p] = Listener
      BY <1>4, <1>6, <2>2
    <3> QED
      BY <3>1 DEF Live, Reportable
  <2> QED
    BY <1>2, <2>1, <2>2, InBatch DEF EventsReachTheirConnection
<1>11. EdgesAreKept'
  <2> SUFFICES ASSUME NEW fd \in Fds, owner[fd] \in pending
               PROVE  In(fd, ready') \/ \E i \in DOMAIN batch' : batch'[i].on = fd
    BY <1>2, InBatch DEF EdgesAreKept
  <2>1. ~ In(fd, [i \in DOMAIN batch |-> batch[i].on])
    <3>1. DOMAIN batch = {}
      BY <1>2
    <3> QED
      BY <3>1 DEF In
  <2>2. PICK p \in DOMAIN ready : ready[p] = fd
    BY <1>0, <2>1 DEF EdgesAreKept, In
  <2>3. p \in Live
    BY <2>2, LoopAssumption DEF Live, Reportable
  <2>4. CASE p \in Seen
    BY <1>4, <1>6, <2>2, <2>3, <2>4
  <2>5. CASE p \notin Seen
    BY <1>5, <2>2, <2>5 DEF In
  <2> QED
    BY <2>4, <2>5
<1> QED
  BY <1>7, <1>8, <1>9, <1>10, <1>11 DEF IInv, Reaching

\* The loop takes one event, the only one for its descriptor.
LEMMA NextEventFacts ==
  ASSUME TypeOK, Once, NEW x, NextEvent(x)
  PROVE  /\ batch' \in Seq(Events)
         /\ \A i \in DOMAIN batch' : \E j \in DOMAIN batch : batch'[i] = batch[j] /\ batch[j].on # x
         /\ \A j \in DOMAIN batch : batch[j].on # x => \E i \in DOMAIN batch' : batch'[i] = batch[j]
         /\ \A i, j \in DOMAIN batch' : batch'[i].on = batch'[j].on => i = j
         /\ \E j \in DOMAIN batch : batch[j].on = x
<1>1. batch \in Seq(Events) /\ batch # <<>> /\ batch' = Tail(batch) /\ Head(batch).on = x
  BY DEF TypeOK, Events, NextEvent
<1>2. /\ batch' \in Seq(Events) /\ batch[1].on = x /\ 1 \in DOMAIN batch
      /\ \A i \in DOMAIN batch' : i + 1 \in DOMAIN batch /\ i + 1 # 1 /\ batch'[i] = batch[i + 1]
      /\ \A i \in DOMAIN batch : i # 1 => i - 1 \in DOMAIN batch' /\ batch[i] = batch'[i - 1]
  BY <1>1, TailFacts
<1>3. \A j \in DOMAIN batch : j # 1 => batch[j].on # x
  BY <1>2 DEF Once
<1>4. ASSUME NEW i \in DOMAIN batch', NEW j \in DOMAIN batch', batch'[i].on = batch'[j].on
      PROVE  i = j
  <2>1. i + 1 = j + 1
    BY <1>2, <1>4 DEF Once
  <2>2. i \in Int /\ j \in Int
    BY <1>2
  <2> QED
    BY <2>1, <2>2
<1> QED
  BY <1>2, <1>3, <1>4

\* An event is about the listener or a descriptor.
LEMMA EventOn == TypeOK => \A i \in DOMAIN batch : batch[i].on \in Fds \cup {Listener}
<1> SUFFICES ASSUME TypeOK, NEW i \in DOMAIN batch PROVE batch[i].on \in Fds \cup {Listener}
  OBVIOUS
<1>1. batch \in Seq(Events)
  BY DEF TypeOK, Events
<1>2. batch[i] \in Events
  BY <1>1
<1> QED
  BY <1>2 DEF Events

\* Every event but the one that is taken still finds its connection, unless a
\* descriptor of another event changes hands.
LEMMA OtherEventsReach ==
  ASSUME TypeOK, Once, EventsReachTheirConnection, NEW x, NextEvent(x),
         \A i \in DOMAIN batch : batch[i].on \notin {x, Listener} => owner'[batch[i].on] = owner[batch[i].on],
         (\E i \in DOMAIN batch : batch[i].on = Listener /\ x # Listener) => UNCHANGED backlog
  PROVE  EventsReachTheirConnection'
<1>1. ASSUME NEW i \in DOMAIN batch', batch'[i].on # Listener
      PROVE  batch'[i].conn # 0 /\ owner'[batch'[i].on] = batch'[i].conn
  <2>1. PICK j \in DOMAIN batch : batch'[i] = batch[j] /\ batch[j].on # x
    BY NextEventFacts
  <2> QED
    BY <1>1, <2>1 DEF EventsReachTheirConnection
<1>2. ASSUME NEW i \in DOMAIN batch', batch'[i].on = Listener PROVE backlog' # <<>>
  <2>1. PICK j \in DOMAIN batch : batch'[i] = batch[j] /\ batch[j].on # x
    BY NextEventFacts
  <2>2. batch[j].on = Listener /\ x # Listener
    BY <1>2, <2>1
  <2>3. backlog # <<>>
    BY <2>2, InBatch DEF EventsReachTheirConnection
  <2> QED
    BY <2>2, <2>3
<1> QED
  BY <1>1, <1>2, InBatch DEF EventsReachTheirConnection

\* A new connection gets a descriptor nothing in the batch was reported for.
LEMMA AcceptConnectionStep == IInv /\ AcceptConnection => IInv'
<1> SUFFICES ASSUME IInv, AcceptConnection PROVE IInv'
  OBVIOUS
<1>0. TypeOK /\ Once /\ BacklogIsNew /\ EventsReachTheirConnection /\ EdgesAreKept
  BY DEF IInv, Reaching
<1>1. NextEvent(Listener) /\ backlog # <<>> /\ UNCHANGED <<made, pending>>
  BY DEF AcceptConnection
<1>2. /\ batch' \in Seq(Events)
      /\ \A j \in DOMAIN batch : batch[j].on # Listener => \E i \in DOMAIN batch' : batch'[i] = batch[j]
      /\ \A i, j \in DOMAIN batch' : batch'[i].on = batch'[j].on => i = j
  BY <1>0, <1>1, NextEventFacts
<1>3. ASSUME NEW fd \in Fds, Accept(fd) PROVE IInv'
  <2> DEFINE c == Head(backlog)
  <2>1. owner[fd] = 0 /\ owner' = [owner EXCEPT ![fd] = c] /\ backlog' = Tail(backlog)
        /\ ready' = (IF c \in pending THEN Woken(fd) ELSE ready) /\ UNCHANGED merged
    BY <1>3 DEF Accept
  <2>2. /\ backlog' \in Seq(Connections) /\ Len(backlog') <= Len(backlog) /\ c = backlog[1] /\ 1 \in DOMAIN backlog
        /\ \A i \in DOMAIN backlog' : i + 1 \in DOMAIN backlog /\ i + 1 # 1 /\ backlog'[i] = backlog[i + 1]
    <3>1. backlog \in Seq(Connections)
      BY <1>0 DEF TypeOK
    <3> QED
      BY <1>1, <2>1, <3>1, TailFacts
  <2>3. c \in 1 .. made /\ c # 0 /\ (\A f \in Fds : owner[f] # c)
    <3>1. c \in 1 .. made /\ (\A f \in Fds : owner[f] # c)
      BY <1>0, <2>2 DEF BacklogIsNew
    <3> QED
      BY <3>1, <1>0 DEF TypeOK
  <2> HIDE DEF c
  <2>4. owner' \in [Fds -> 0 .. made] /\ owner'[fd] = c /\ \A f \in Fds : f # fd => owner'[f] = owner[f]
    BY <1>0, <2>1, <2>3 DEF TypeOK
  <2>5. /\ ready' \in Seq(Fds \cup {Listener})
        /\ \A y : In(y, ready) => In(y, ready')
        /\ c \in pending => In(fd, ready')
        /\ \A i \in DOMAIN ready' : ready'[i] = fd \/ \E p \in DOMAIN ready : ready'[i] = ready[p]
        /\ \A i, j \in DOMAIN ready' : ready'[i] = ready'[j] => i = j
    <3>1. CASE c \in pending
      BY <1>0, <2>1, <3>1, WokenFacts
    <3>2. CASE c \notin pending
      BY <1>0, <2>1, <3>2 DEF TypeOK, Once
    <3> QED
      BY <3>1, <3>2
  <2>6. TypeOK'
    <3>1. \A i \in DOMAIN ready' : ready'[i] # Listener => owner'[ready'[i]] # 0
      <4> SUFFICES ASSUME NEW i \in DOMAIN ready', ready'[i] # Listener PROVE owner'[ready'[i]] # 0
        OBVIOUS
      <4>1. ready'[i] \in Fds
        BY <2>5
      <4>2. CASE ready'[i] = fd
        BY <2>3, <2>4, <4>2
      <4>3. CASE ready'[i] # fd
        BY <1>0, <2>4, <2>5, <4>1, <4>3 DEF TypeOK
      <4> QED
        BY <4>2, <4>3
    <3>2. \A f, g \in Fds : owner'[f] = owner'[g] /\ owner'[f] # 0 => f = g
      BY <1>0, <2>3, <2>4 DEF TypeOK
    <3>3. backlog' \in Seq(Connections) /\ Len(backlog') <= Backlog
      BY <1>0, <2>2, LoopAssumption DEF TypeOK
    <3> QED
      BY <1>0, <1>1, <1>2, <2>1, <2>4, <2>5, <3>1, <3>2, <3>3 DEF TypeOK, Events
  <2>7. Once'
    BY <1>2, <2>5 DEF Once
  <2>8. BacklogIsNew'
    <3>1. \A i \in DOMAIN backlog' : backlog'[i] \in 1 .. made /\ backlog'[i] # c
      BY <1>0, <2>2 DEF BacklogIsNew
    <3>2. ASSUME NEW i \in DOMAIN backlog', NEW j \in DOMAIN backlog', backlog'[i] = backlog'[j] PROVE i = j
      <4>1. i + 1 = j + 1
        BY <1>0, <2>2, <3>2 DEF BacklogIsNew
      <4> QED
        BY <4>1, <2>2
    <3>3. ASSUME NEW i \in DOMAIN backlog', NEW f \in Fds PROVE owner'[f] # backlog'[i]
      BY <1>0, <2>2, <2>4, <3>1 DEF BacklogIsNew
    <3> QED
      BY <1>1, <3>1, <3>2, <3>3 DEF BacklogIsNew
  <2>9. EventsReachTheirConnection'
    <3>1. ASSUME NEW i \in DOMAIN batch, batch[i].on # Listener PROVE owner'[batch[i].on] = owner[batch[i].on]
      <4>1. batch[i].on \in Fds /\ owner[batch[i].on] # 0
        BY <1>0, <3>1, EventOn DEF EventsReachTheirConnection
      <4> QED
        BY <2>1, <2>4, <4>1
    <3> QED
      BY <1>0, <1>1, <3>1, OtherEventsReach
  <2>10. EdgesAreKept'
    <3> SUFFICES ASSUME NEW g \in Fds, owner'[g] \in pending
                 PROVE  In(g, ready') \/ \E i \in DOMAIN batch' : batch'[i].on = g
      BY <1>1, InBatch DEF EdgesAreKept
    <3>1. CASE g = fd
      BY <2>4, <2>5, <3>1
    <3>2. CASE g # fd
      <4>1. In(g, ready) \/ \E i \in DOMAIN batch : batch[i].on = g
        BY <1>0, <2>4, <3>2, InBatch DEF EdgesAreKept
      <4> QED
        BY <1>2, <2>5, <4>1, LoopAssumption
    <3> QED
      BY <3>1, <3>2
  <2> QED
    BY <2>6, <2>7, <2>8, <2>9, <2>10 DEF IInv, Reaching
<1>4. CASE AcceptFails
  <2>1. UNCHANGED <<owner, backlog, ready>> /\ merged' \in BOOLEAN
    BY <1>4 DEF AcceptFails
  <2>2. TypeOK'
    BY <1>0, <1>1, <1>2, <2>1 DEF TypeOK, Events
  <2>3. Once' /\ BacklogIsNew'
    BY <1>0, <1>1, <1>2, <2>1 DEF Once, BacklogIsNew
  <2>4. EventsReachTheirConnection'
    BY <1>0, <1>1, <2>1, OtherEventsReach
  <2>5. EdgesAreKept'
    <3> SUFFICES ASSUME NEW g \in Fds, owner'[g] \in pending'
                 PROVE  In(g, ready') \/ \E i \in DOMAIN batch' : batch'[i].on = g
      BY InBatch DEF EdgesAreKept
    <3>1. In(g, ready) \/ \E i \in DOMAIN batch : batch[i].on = g
      BY <1>0, <1>1, <2>1, InBatch DEF EdgesAreKept
    <3> QED
      BY <1>2, <2>1, <3>1, LoopAssumption
  <2> QED
    BY <2>2, <2>3, <2>4, <2>5 DEF IInv, Reaching
<1> QED
  BY <1>3, <1>4 DEF AcceptConnection

\* A handler closes its own descriptor at most, and nothing else in the batch is
\* about that one.
LEMMA HandleConnectionStep == ASSUME NEW fd \in Fds PROVE IInv /\ HandleConnection(fd) => IInv'
<1> SUFFICES ASSUME IInv, HandleConnection(fd) PROVE IInv'
  OBVIOUS
<1>0. TypeOK /\ Once /\ BacklogIsNew /\ EventsReachTheirConnection /\ EdgesAreKept
  BY DEF IInv, Reaching
<1>1. NextEvent(fd) /\ pending' = pending \ {owner[fd]} /\ UNCHANGED <<made, backlog, merged>>
  BY DEF HandleConnection
<1>2. /\ batch' \in Seq(Events)
      /\ \A j \in DOMAIN batch : batch[j].on # fd => \E i \in DOMAIN batch' : batch'[i] = batch[j]
      /\ \A i, j \in DOMAIN batch' : batch'[i].on = batch'[j].on => i = j
  BY <1>0, <1>1, NextEventFacts
<1>3. CASE UNCHANGED <<owner, ready>>
  <2>1. TypeOK'
    BY <1>0, <1>1, <1>2, <1>3 DEF TypeOK, Events
  <2>2. Once' /\ BacklogIsNew'
    BY <1>0, <1>1, <1>2, <1>3 DEF Once, BacklogIsNew
  <2>3. EventsReachTheirConnection'
    BY <1>0, <1>1, <1>3, OtherEventsReach
  <2>4. EdgesAreKept'
    <3> SUFFICES ASSUME NEW g \in Fds, owner'[g] \in pending'
                 PROVE  In(g, ready') \/ \E i \in DOMAIN batch' : batch'[i].on = g
      BY InBatch DEF EdgesAreKept
    <3>1. g # fd /\ owner[g] \in pending
      BY <1>1, <1>3
    <3>2. In(g, ready) \/ \E i \in DOMAIN batch : batch[i].on = g
      BY <1>0, <3>1, InBatch DEF EdgesAreKept
    <3> QED
      BY <1>2, <1>3, <3>1, <3>2
  <2> QED
    BY <2>1, <2>2, <2>3, <2>4 DEF IInv, Reaching
<1>4. CASE owner' = [owner EXCEPT ![fd] = 0] /\ ready' \in Closed(fd)
  <2>1. owner' \in [Fds -> 0 .. made] /\ owner'[fd] = 0 /\ \A f \in Fds : f # fd => owner'[f] = owner[f]
    BY <1>0, <1>4 DEF TypeOK
  <2>2. /\ ready' \in Seq(Fds \cup {Listener})
        /\ \A i \in DOMAIN ready' : \E p \in DOMAIN ready : ready[p] # fd /\ ready'[i] = ready[p]
        /\ \A p \in DOMAIN ready : ready[p] # fd => \E i \in DOMAIN ready' : ready'[i] = ready[p]
        /\ \A i, j \in DOMAIN ready' : ready'[i] = ready'[j] => i = j
    <3> DEFINE S == {p \in DOMAIN ready : ready[p] # fd}
    <3>1. S \in SUBSET DOMAIN ready /\ ready' \in Kept(S)
      BY <1>4 DEF Closed
    <3> QED
      BY <1>0, <3>1, KeptFacts
  <2>3. TypeOK'
    <3>1. \A i \in DOMAIN ready' : ready'[i] # Listener => owner'[ready'[i]] # 0
      <4> SUFFICES ASSUME NEW i \in DOMAIN ready', ready'[i] # Listener PROVE owner'[ready'[i]] # 0
        OBVIOUS
      <4>1. PICK p \in DOMAIN ready : ready[p] # fd /\ ready'[i] = ready[p]
        BY <2>2
      <4>2. ready'[i] \in Fds
        BY <2>2
      <4> QED
        BY <1>0, <2>1, <4>1, <4>2 DEF TypeOK
    <3>2. \A f, g \in Fds : owner'[f] = owner'[g] /\ owner'[f] # 0 => f = g
      BY <1>0, <2>1 DEF TypeOK
    <3>3. pending' \subseteq 1 .. made
      BY <1>0, <1>1 DEF TypeOK
    <3> QED
      BY <1>0, <1>1, <1>2, <2>1, <2>2, <3>1, <3>2, <3>3 DEF TypeOK, Events
  <2>4. Once'
    BY <1>2, <2>2 DEF Once
  <2>5. BacklogIsNew'
    <3>1. \A i \in DOMAIN backlog : backlog[i] # 0
      BY <1>0 DEF BacklogIsNew, TypeOK
    <3> QED
      BY <1>0, <1>1, <2>1, <3>1 DEF BacklogIsNew
  <2>6. EventsReachTheirConnection'
    <3>1. \A i \in DOMAIN batch : batch[i].on \notin {fd, Listener} => owner'[batch[i].on] = owner[batch[i].on]
      BY <1>0, <2>1, EventOn
    <3> QED
      BY <1>0, <1>1, <3>1, OtherEventsReach
  <2>7. EdgesAreKept'
    <3> SUFFICES ASSUME NEW g \in Fds, owner'[g] \in pending'
                 PROVE  In(g, ready') \/ \E i \in DOMAIN batch' : batch'[i].on = g
      BY InBatch DEF EdgesAreKept
    <3>1. owner'[g] # 0
      BY <1>0, <1>1 DEF TypeOK
    <3>2. g # fd /\ owner[g] \in pending
      BY <1>1, <2>1, <3>1
    <3>3. In(g, ready) \/ \E i \in DOMAIN batch : batch[i].on = g
      BY <1>0, <3>2, InBatch DEF EdgesAreKept
    <3> QED
      BY <1>2, <2>2, <3>2, <3>3 DEF In
  <2> QED
    BY <2>3, <2>4, <2>5, <2>6, <2>7 DEF IInv, Reaching
<1> QED
  BY <1>3, <1>4 DEF HandleConnection

-----------------------------------------------------------------------------
\* Every step keeps the invariant.
LEMMA NextStep == IInv /\ [Next]_vars => IInv'
<1> SUFFICES ASSUME IInv, [Next]_vars PROVE IInv'
  OBVIOUS
<1>1. CASE PeerConnects
  BY <1>1, PeerConnectsStep
<1>2. CASE PeerActs
  BY <1>2, PeerActsStep
<1>3. CASE EpollWait
  BY <1>3, EpollWaitStep
<1>4. CASE AcceptConnection
  BY <1>4, AcceptConnectionStep
<1>5. ASSUME NEW fd \in Fds, HandleConnection(fd) PROVE IInv'
  BY <1>5, HandleConnectionStep
<1>6. CASE UNCHANGED vars
  BY <1>6 DEF vars, IInv, TypeOK, Reaching, Once, BacklogIsNew, EventsReachTheirConnection, EdgesAreKept
<1> QED
  BY <1>1, <1>2, <1>3, <1>4, <1>5, <1>6 DEF Next, RunEventLoop

\* The inductive invariant holds in every state the loop can reach: types, one
\* event per descriptor, a backlog of new connections, no stale event, no lost edge.
THEOREM Invariance == Spec => []IInv
<1>1. Init => IInv
  BY InitHolds
<1>2. IInv /\ [Next]_vars => IInv'
  BY NextStep
<1> QED
  BY <1>1, <1>2, PTL DEF Spec

\* Every variable keeps its type, a connection has one descriptor at most and
\* only open descriptors are on epoll's list, however connections come and go.
THEOREM TypeCorrect == Spec => []TypeOK
<1>1. IInv => TypeOK
  BY DEF IInv
<1> QED
  BY <1>1, Invariance, PTL

\* An event of a batch finds the connection it was reported for although
\* descriptors are closed and reused before it is handled, and accept finds a
\* connection, for batches of any size.
THEOREM EventsFindTheirConnection == Spec => []EventsReachTheirConnection
<1>1. IInv => EventsReachTheirConnection
  BY DEF IInv, Reaching
<1> QED
  BY <1>1, Invariance, PTL

\* Whoever waits for its handler is on the ready list or in the batch, for any
\* number of connections and any size of a batch.
THEOREM NoEdgeIsLost == Spec => []EdgesAreKept
<1>1. IInv => EdgesAreKept
  BY DEF IInv, Reaching
<1> QED
  BY <1>1, Invariance, PTL
=============================================================================
