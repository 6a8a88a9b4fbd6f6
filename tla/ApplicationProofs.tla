------------------------- MODULE ApplicationProofs -------------------------
(***************************************************************************)
(* Proofs about Application, for every number of descriptors, connections  *)
(* and messages: what the application may rely on when it uses the ids it  *)
(* remembers, and that the length of a data frame is read as it was meant. *)
(***************************************************************************)
EXTENDS Application, TLAPS

\* The header of a data frame says its size, at the borders of the three forms
\* too: nothing is cut off by the seven, sixteen or sixty-four bits.
THEOREM LengthIsRead ==
  ASSUME NEW size \in Nat, size < 65536 * 65536 * 65536 * 65536
  PROVE  LengthRead(LengthField(size)) = size
<1>1. CASE size <= 125
  <2>1. size % 128 = size
    BY <1>1
  <2> QED
    BY <1>1, <2>1 DEF LengthRead, LengthField
<1>2. CASE size > 125 /\ size <= 65535
  <2>1. size % 65536 = size
    BY <1>2
  <2> QED
    BY <1>2, <2>1 DEF LengthRead, LengthField
<1>3. CASE size > 65535
  <2>1. size % (65536 * 65536 * 65536 * 65536) = size
    BY <1>3
  <2> QED
    BY <1>3, <2>1 DEF LengthRead, LengthField
<1> QED
  BY <1>1, <1>2, <1>3

-----------------------------------------------------------------------------
\* The application has a message only of a client in the table, whose frame
\* still has its type; a connection has one descriptor, and an id one meaning.
HandlerHasClient ==
  handling # NoFd => Found(handling) /\ type[handling] \in DataTypes

OneDescriptor ==
  \A f, g \in Fds : owner[f] = owner[g] /\ owner[f] # 0 => f = g

OneMeaning ==
  \A id \in known : \A fd \in Fds : owner[fd] = id.conn => fd = id.fd

\* Only the client in its handler may have been handed a message, or have called
\* nitrows_close itself, and still be there.
ClosingIsPending ==
  \A fd \in Fds :
    /\ status[fd] = "CONNECTED" \/ (status[fd] = "CLOSING" /\ handling # fd)
         => late[fd] = 0 /\ fd \notin inOwn
    /\ status[fd] = "CLOSING" => late[fd] <= 1
    /\ status[fd] = "CLOSING" /\ fd \in inOwn => late[fd] = 0

Rest ==
  /\ HandlerHasClient
  /\ OneDescriptor
  /\ OneMeaning
  /\ ClosingIsPending
  /\ RepliesAreTheirs
  /\ OpenClientsAreFound

IInv == TypeOK /\ Rest

LEMMA InitHolds == Init => IInv
  BY ApplicationAssumption
  DEF Init, IInv, Rest, TypeOK, HandlerHasClient, OneDescriptor, OneMeaning, ClosingIsPending,
      RepliesAreTheirs, OpenClientsAreFound, Found, NoFrame

LEMMA TypeStep == TypeOK /\ [Next]_vars => TypeOK'
<1> SUFFICES ASSUME TypeOK, [Next]_vars PROVE TypeOK'
  OBVIOUS
<1> USE ApplicationAssumption DEF TypeOK, aux, Found, Serving, Running, NoFrame, DataTypes
<1>1. ASSUME NEW fd \in Fds, Accept(fd) PROVE TypeOK'
  BY <1>1 DEF Accept
<1>2. ASSUME NEW fd \in Fds, InitClient(fd) PROVE TypeOK'
  BY <1>2 DEF InitClient
<1>3. ASSUME NEW fd \in Fds, GetFrameType(fd) PROVE TypeOK'
  BY <1>3 DEF GetFrameType
<1>4. ASSUME NEW fd \in Fds, HandleDataFrame(fd) PROVE TypeOK'
  BY <1>4 DEF HandleDataFrame
<1>5. ASSUME NEW fd \in Fds, CloseConnection(fd) PROVE TypeOK'
  BY <1>5 DEF CloseConnection, CloseClient
<1>6. ASSUME HandlerReturns PROVE TypeOK'
  BY <1>6 DEF HandlerReturns, CloseClient
<1>7. ASSUME NEW id \in known, SendMessage(id) PROVE TypeOK'
  BY <1>7 DEF SendMessage, Sent
<1>8. ASSUME NEW id \in known, StartClosing(id) PROVE TypeOK'
  BY <1>8 DEF StartClosing
<1>9. ASSUME NEW id \in known, Crash(id) PROVE TypeOK'
  BY <1>9 DEF Crash
<1>10. CASE UNCHANGED vars
  BY <1>10 DEF vars
<1> QED
  BY <1>1, <1>2, <1>3, <1>4, <1>5, <1>6, <1>7, <1>8, <1>9, <1>10 DEF Next

\* Steps that touch neither frame nor crashed keep a connection that is gone
\* gone: a new one has a new number.
LEMMA GoneStaysGone ==
  ASSUME TypeOK,
         NEW c \in 1 .. made,
         \A fd \in Fds : owner[fd] # c,
         \/ UNCHANGED owner
         \/ \E fd \in Fds : owner' = [owner EXCEPT ![fd] = made + 1]
         \/ \E fd \in Fds : owner' = [owner EXCEPT ![fd] = 0]
  PROVE  \A fd \in Fds : owner'[fd] # c
  BY DEF TypeOK

LEMMA FramesStep ==
  ASSUME IInv, UNCHANGED frame, UNCHANGED crashed,
         \/ UNCHANGED owner
         \/ \E fd \in Fds : owner' = [owner EXCEPT ![fd] = made + 1]
         \/ \E fd \in Fds : owner' = [owner EXCEPT ![fd] = 0]
  PROVE  /\ RepliesAreTheirs'
         /\ \A fd \in Fds : crashed' # 0 => owner'[fd] # crashed'
<1>1. crashed \in 0 .. made /\ (frame # NoFrame => frame.meant \in 1 .. made)
  BY DEF IInv, Rest, TypeOK
<1>2. RepliesAreTheirs'
  <2> SUFFICES ASSUME frame # NoFrame, frame.to # frame.meant
               PROVE  \A fd \in Fds : owner'[fd] # frame.meant
    BY DEF IInv, Rest, RepliesAreTheirs, NoFrame
  <2>1. \A fd \in Fds : owner[fd] # frame.meant
    BY DEF IInv, Rest, RepliesAreTheirs
  <2> QED
    BY <1>1, <2>1, GoneStaysGone DEF IInv, Rest
<1>3. ASSUME crashed # 0 PROVE \A fd \in Fds : owner'[fd] # crashed
  <2>1. crashed \in 1 .. made
    BY <1>1, <1>3, ApplicationAssumption DEF IInv, Rest, TypeOK
  <2>2. \A fd \in Fds : owner[fd] # crashed
    BY <1>3 DEF IInv, Rest, OpenClientsAreFound
  <2> QED
    BY <2>1, <2>2, GoneStaysGone DEF IInv, Rest
<1> QED
  BY <1>2, <1>3

LEMMA InvStep == IInv /\ [Next]_vars => IInv'
<1> SUFFICES ASSUME IInv, [Next]_vars PROVE IInv'
  OBVIOUS
<1> USE ApplicationAssumption
<1>0. TypeOK' /\ TypeOK
  BY TypeStep DEF IInv, Rest
<1>1. ASSUME NEW fd \in Fds, Accept(fd) PROVE Rest'
  <2>1. owner' = [owner EXCEPT ![fd] = made + 1] /\ made + 1 \in Nat
    BY <1>1, <1>0 DEF Accept, TypeOK
  <2>2. RepliesAreTheirs' /\ \A g \in Fds : crashed' # 0 => owner'[g] # crashed'
    BY <1>1, <2>1, FramesStep DEF Accept, aux
  <2>3. HandlerHasClient' /\ ClosingIsPending'
    BY <1>1 DEF Accept, aux, IInv, Rest, HandlerHasClient, ClosingIsPending, Found
  <2>4. OneDescriptor'
    BY <1>0, <2>1 DEF TypeOK, IInv, Rest, OneDescriptor
  <2>5. \A id \in known : id.fd \in Fds /\ id.conn \in 1 .. made
    BY <1>0 DEF TypeOK
  <2>6. OneMeaning'
    BY <1>0, <1>1, <2>1, <2>5 DEF Accept, TypeOK, IInv, Rest, OneMeaning
  <2>7. OpenClientsAreFound'
    BY <1>0, <1>1, <2>1, <2>2, <2>5 DEF Accept, TypeOK, IInv, Rest, OpenClientsAreFound, Found
  <2> QED
    BY <2>2, <2>3, <2>4, <2>6, <2>7 DEF Rest
<1>2. ASSUME NEW fd \in Fds, InitClient(fd) PROVE Rest'
  <2>1. RepliesAreTheirs' /\ \A g \in Fds : crashed' # 0 => owner'[g] # crashed'
    BY <1>2, FramesStep DEF InitClient
  <2>2. HandlerHasClient' /\ OneDescriptor' /\ OneMeaning' /\ OpenClientsAreFound'
    BY <1>0, <1>2, <2>1 DEF InitClient, TypeOK, IInv, Rest, HandlerHasClient, OneDescriptor, OneMeaning,
      OpenClientsAreFound, Found, Serving
  <2>3. ClosingIsPending'
    BY <1>0, <1>2 DEF InitClient, TypeOK, IInv, Rest, ClosingIsPending
  <2> QED
    BY <2>1, <2>2, <2>3 DEF Rest
<1>3. ASSUME NEW fd \in Fds, GetFrameType(fd) PROVE Rest'
  BY <1>0, <1>3 DEF GetFrameType, aux, TypeOK, IInv, Rest, HandlerHasClient, OneDescriptor, OneMeaning,
    ClosingIsPending, RepliesAreTheirs, OpenClientsAreFound, Found, Serving
<1>4. ASSUME NEW fd \in Fds, HandleDataFrame(fd) PROVE Rest'
  <2>1. HandlerHasClient' /\ OneDescriptor' /\ RepliesAreTheirs'
    BY <1>0, <1>4 DEF HandleDataFrame, TypeOK, IInv, Rest, HandlerHasClient, OneDescriptor, RepliesAreTheirs, Found
  <2>2. OneMeaning'
    <3>1. owner[fd] # 0
      BY <1>0, <1>4 DEF HandleDataFrame, TypeOK, Found
    <3> QED
      BY <1>0, <1>4, <3>1 DEF HandleDataFrame, TypeOK, IInv, Rest, OneMeaning, OneDescriptor
  <2>3. OpenClientsAreFound'
    BY <1>0, <1>4 DEF HandleDataFrame, TypeOK, IInv, Rest, OpenClientsAreFound, Found
  <2>4. ClosingIsPending'
    BY <1>0, <1>4 DEF HandleDataFrame, Serving, TypeOK, IInv, Rest, ClosingIsPending, Found
  <2> QED
    BY <2>1, <2>2, <2>3, <2>4 DEF Rest
<1>5. ASSUME NEW fd \in Fds, CloseConnection(fd) PROVE Rest'
  <2>1. RepliesAreTheirs' /\ \A g \in Fds : crashed' # 0 => owner'[g] # crashed'
    BY <1>5, FramesStep DEF CloseConnection, CloseClient, aux
  <2>2. HandlerHasClient' /\ OneDescriptor' /\ ClosingIsPending'
    BY <1>0, <1>5 DEF CloseConnection, CloseClient, aux, Serving, TypeOK, IInv, Rest, HandlerHasClient,
      OneDescriptor, ClosingIsPending
  <2>3. \A id \in known : id.fd \in Fds /\ id.conn # 0
    BY <1>0 DEF TypeOK
  <2>4. OneMeaning' /\ OpenClientsAreFound'
    BY <1>0, <1>5, <2>1, <2>3 DEF CloseConnection, CloseClient, aux, TypeOK, IInv, Rest, OneMeaning,
      OpenClientsAreFound, Found
  <2> QED
    BY <2>1, <2>2, <2>4 DEF Rest
<1>6. ASSUME HandlerReturns PROVE Rest'
  <2>1. handling \in Fds
    BY <1>0, <1>6 DEF HandlerReturns, TypeOK
  <2>2. CASE status[handling] = "CLOSING"
    <3>1. RepliesAreTheirs' /\ \A g \in Fds : crashed' # 0 => owner'[g] # crashed'
      BY <1>6, <2>1, <2>2, FramesStep DEF HandlerReturns, CloseClient, aux
    <3>2. HandlerHasClient' /\ OneDescriptor' /\ ClosingIsPending'
      BY <1>0, <1>6, <2>1, <2>2 DEF HandlerReturns, CloseClient, aux, TypeOK, IInv, Rest, HandlerHasClient,
        OneDescriptor, ClosingIsPending
    <3>3. \A id \in known : id.fd \in Fds /\ id.conn # 0
      BY <1>0 DEF TypeOK
    <3>4. OneMeaning' /\ OpenClientsAreFound'
      BY <1>0, <1>6, <2>1, <2>2, <3>1, <3>3 DEF HandlerReturns, CloseClient, aux, TypeOK, IInv, Rest, OneMeaning,
        OpenClientsAreFound, Found
    <3> QED
      BY <3>1, <3>2, <3>4 DEF Rest
  <2>3. CASE status[handling] # "CLOSING"
    BY <1>0, <1>6, <2>1, <2>3 DEF HandlerReturns, aux, TypeOK, IInv, Rest, HandlerHasClient, OneDescriptor, OneMeaning,
      ClosingIsPending, RepliesAreTheirs, OpenClientsAreFound, Found
  <2> QED
    BY <2>2, <2>3
<1>7. ASSUME NEW id \in known, SendMessage(id) PROVE Rest'
  <2>1. id.fd \in Fds /\ id.conn \in 1 .. made /\ handling \in Fds
    BY <1>0, <1>7 DEF SendMessage, TypeOK
  <2>2. HandlerHasClient' /\ OneDescriptor' /\ OneMeaning' /\ ClosingIsPending' /\ OpenClientsAreFound'
    BY <1>0, <1>7, <2>1 DEF SendMessage, TypeOK, IInv, Rest, HandlerHasClient, OneDescriptor, OneMeaning,
      ClosingIsPending, OpenClientsAreFound, Found
  <2>3. RepliesAreTheirs'
    BY <1>0, <1>7, <2>1 DEF SendMessage, Sent, IInv, Rest, HandlerHasClient, OneMeaning, RepliesAreTheirs
  <2> QED
    BY <2>2, <2>3 DEF Rest
<1>8. ASSUME NEW id \in known, StartClosing(id) PROVE Rest'
  <2>1. id.fd \in Fds
    BY <1>0, <1>8 DEF StartClosing, TypeOK
  <2>2. HandlerHasClient' /\ OneDescriptor' /\ OneMeaning' /\ RepliesAreTheirs' /\ OpenClientsAreFound'
    BY <1>0, <1>8, <2>1 DEF StartClosing, TypeOK, IInv, Rest, HandlerHasClient, OneDescriptor, OneMeaning,
      RepliesAreTheirs, OpenClientsAreFound, Found
  <2>3. ClosingIsPending'
    BY <1>0, <1>8, <2>1 DEF StartClosing, TypeOK, IInv, Rest, ClosingIsPending, Found
  <2> QED
    BY <2>2, <2>3 DEF Rest
<1>9. ASSUME NEW id \in known, Crash(id) PROVE Rest'
  BY <1>0, <1>9 DEF Crash, aux, TypeOK, IInv, Rest, HandlerHasClient, OneDescriptor, OneMeaning,
    ClosingIsPending, RepliesAreTheirs, OpenClientsAreFound, Found
<1>10. ASSUME UNCHANGED vars PROVE Rest'
  <2>1. UNCHANGED <<owner, status, type, handling, known, frame, late, inOwn, crashed>>
    BY <1>10 DEF vars, aux
  <2>2. HandlerHasClient' /\ OneDescriptor' /\ OneMeaning'
    BY <2>1 DEF IInv, Rest, HandlerHasClient, OneDescriptor, OneMeaning, Found
  <2>3. ClosingIsPending' /\ RepliesAreTheirs' /\ OpenClientsAreFound'
    BY <2>1 DEF IInv, Rest, ClosingIsPending, RepliesAreTheirs, OpenClientsAreFound, Found
  <2> QED
    BY <2>2, <2>3 DEF Rest
<1>11. ASSUME Next PROVE Rest'
  BY <1>1, <1>2, <1>3, <1>4, <1>5, <1>6, <1>7, <1>8, <1>9, <1>11 DEF Next
<1> QED
  <2>1. Rest'
    BY <1>10, <1>11
  <2> QED
    BY <1>0, <2>1 DEF IInv

LEMMA Invariant == Spec => []IInv
  BY InitHolds, InvStep, PTL DEF Spec

\* Every variable keeps its type.
THEOREM TypeCorrect == Spec => []TypeOK
<1>1. IInv => TypeOK
  BY DEF IInv, Rest
<1> QED
  BY <1>1, Invariant, PTL

\* A reply from inside the handler has a type a data frame may have, and only an
\* id of a connection that is gone reaches somebody else.
THEOREM Replies == Spec => []RepliesAreTheirs
<1>1. IInv => RepliesAreTheirs
  BY DEF IInv, Rest
<1> QED
  BY <1>1, Invariant, PTL

\* An id is good as long as its connection is open, whatever the application
\* closed or sent before.
THEOREM IdsAreGood == Spec => []OpenClientsAreFound
<1>1. IInv => OpenClientsAreFound
  BY DEF IInv, Rest
<1> QED
  BY <1>1, Invariant, PTL

\* After nitrows_close the application sees one more message of the client at
\* most, none if it called it for the message of this client.
THEOREM ClosesSoon == Spec => []NoMoreAfterClose
<1>1. IInv => NoMoreAfterClose
  BY DEF IInv, Rest, TypeOK, ClosingIsPending, NoMoreAfterClose, Found
<1> QED
  BY <1>1, Invariant, PTL
=============================================================================
