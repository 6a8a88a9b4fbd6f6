-------------------------- MODULE OutputBufferProofs --------------------------
(***************************************************************************)
(* Proofs about the send path for every frame size, kernel capacity and    *)
(* number of calls: the client's byte stream is a FIFO, and EPOLLOUT is    *)
(* registered exactly while bytes are pending.                             *)
(***************************************************************************)
EXTENDS OutputBuffer, SequenceTheorems, TLAPS

\* A buffer that exists has something to send: send_frame frees it with its
\* last byte.
StartInBuffer == IF HasBuffer THEN sendStart < Len(sendBuffer) ELSE sendStart = 0

IInv == TypeOK /\ StartInBuffer /\ Fifo /\ WireIsPrefix /\ InterestMeansPending

-----------------------------------------------------------------------------
\* Concatenation may be regrouped.
LEMMA Regroup ==
  ASSUME NEW s \in Seq(Nat), NEW t \in Seq(Nat), NEW u \in Seq(Nat)
  PROVE  (s \o t) \o u = s \o (t \o u)
BY ConcatAssociative, SMT

\* A sequence is what is sent of it followed by the rest.
LEMMA Split ==
  ASSUME NEW q \in Seq(Nat), NEW k \in 0 .. Len(q)
  PROVE  /\ SubSeq(q, 1, k) \in Seq(Nat) /\ Len(SubSeq(q, 1, k)) = k
         /\ SubSeq(q, k + 1, Len(q)) \in Seq(Nat)
         /\ Len(SubSeq(q, k + 1, Len(q))) = Len(q) - k
         /\ SubSeq(q, 1, k) \o SubSeq(q, k + 1, Len(q)) = q
<1>1. /\ Len(q) \in Nat
      /\ \A i \in 1 .. Len(q) : q[i] \in Nat
  BY LenProperties, ElementOfSeq
<1>2. SubSeq(q, 1, k) \in Seq(Nat) /\ Len(SubSeq(q, 1, k)) = k
  <2>1. \A i \in 1 .. k : q[i] \in Nat
    BY <1>1
  <2>2. /\ SubSeq(q, 1, k) \in Seq(Nat)
        /\ Len(SubSeq(q, 1, k)) = IF 1 <= k THEN k - 1 + 1 ELSE 0
    BY <1>1, <2>1, SubSeqProperties
  <2> QED BY <1>1, <2>2
<1>3. /\ SubSeq(q, k + 1, Len(q)) \in Seq(Nat)
      /\ Len(SubSeq(q, k + 1, Len(q))) = Len(q) - k
  <2>1. k + 1 \in Int /\ \A i \in k + 1 .. Len(q) : q[i] \in Nat
    BY <1>1
  <2>2. /\ SubSeq(q, k + 1, Len(q)) \in Seq(Nat)
        /\ Len(SubSeq(q, k + 1, Len(q))) =
             IF k + 1 <= Len(q) THEN Len(q) - (k + 1) + 1 ELSE 0
    BY <1>1, <2>1, SubSeqProperties
  <2> QED BY <1>1, <2>2
<1>4. SubSeq(q, 1, k) \o SubSeq(q, k + 1, Len(q)) = q
  <2>1. 1 \in 1 .. Len(q) + 1 /\ k \in 1 - 1 .. Len(q) /\ Len(q) \in k .. Len(q)
    BY <1>1
  <2>2. SubSeq(q, 1, k) \o SubSeq(q, k + 1, Len(q)) = SubSeq(q, 1, Len(q))
    BY <2>1, ConcatAdjacentSubSeq
  <2> QED BY <2>2, SubSeqFull
<1> QED BY <1>2, <1>3, <1>4

\* Moving the front of a queue to the end of the wire keeps their concatenation.
LEMMA Advance ==
  ASSUME NEW w \in Seq(Nat), NEW q \in Seq(Nat), NEW k \in 0 .. Len(q)
  PROVE  /\ w \o SubSeq(q, 1, k) \in Seq(Nat)
         /\ (w \o SubSeq(q, 1, k)) \o SubSeq(q, k + 1, Len(q)) = w \o q
<1>1. PICK now \in Seq(Nat), rest \in Seq(Nat) :
        /\ now = SubSeq(q, 1, k) /\ rest = SubSeq(q, k + 1, Len(q))
        /\ now \o rest = q
  BY Split
<1>2. (w \o now) \o rest = w \o (now \o rest)
  BY Regroup
<1>3. w \o now \in Seq(Nat)
  BY ConcatProperties
<1> QED BY <1>1, <1>2, <1>3

\* What is left of a buffer after k more bytes is what is left of its rest.
LEMMA Suffix ==
  ASSUME NEW b \in Seq(Nat), NEW s \in 0 .. Len(b), NEW k \in 0 .. Len(b) - s
  PROVE  SubSeq(SubSeq(b, s + 1, Len(b)), k + 1, Len(b) - s) = SubSeq(b, s + k + 1, Len(b))
<1> DEFINE q == SubSeq(b, s + 1, Len(b))
           l == SubSeq(q, k + 1, Len(b) - s)
           r == SubSeq(b, s + k + 1, Len(b))
<1>1. Len(b) \in Nat /\ \A i \in 1 .. Len(b) : b[i] \in Nat
  BY LenProperties, ElementOfSeq
<1>2. /\ q \in Seq(Nat) /\ Len(q) = Len(b) - s
      /\ \A i \in 1 .. Len(b) - s : q[i] = b[s + i]
  <2>1. s + 1 \in Int /\ \A i \in s + 1 .. Len(b) : b[i] \in Nat
    BY <1>1
  <2>2. \A i \in 1 .. Len(b) - (s + 1) + 1 : q[i] = b[(s + 1) + i - 1]
    BY <1>1, <2>1, SubSeqProperties
  <2>3. ASSUME NEW i \in 1 .. Len(b) - s
        PROVE  q[i] = b[s + i]
    <3>1. i \in 1 .. Len(b) - (s + 1) + 1 /\ (s + 1) + i - 1 = s + i
      BY <1>1
    <3> QED BY <2>2, <3>1
  <2>4. q \in Seq(Nat) /\ Len(q) = Len(b) - s
    BY Split
  <2> QED BY <2>2, <2>3, <2>4
<1>3. /\ l \in Seq(Nat) /\ Len(l) = Len(b) - s - k
      /\ \A i \in 1 .. Len(b) - s - k : l[i] = q[k + i]
  <2>1. /\ k + 1 \in Int /\ Len(b) - s \in Int
        /\ \A i \in k + 1 .. Len(b) - s : q[i] \in Nat
    BY <1>1, <1>2
  <2>2. \A i \in 1 .. (Len(b) - s) - (k + 1) + 1 : l[i] = q[(k + 1) + i - 1]
    BY <2>1, SubSeqProperties
  <2>3. ASSUME NEW i \in 1 .. Len(b) - s - k
        PROVE  l[i] = q[k + i]
    <3>1. i \in 1 .. (Len(b) - s) - (k + 1) + 1 /\ (k + 1) + i - 1 = k + i
      BY <1>1
    <3> QED BY <2>2, <3>1
  <2>4. l \in Seq(Nat) /\ Len(l) = (Len(b) - s) - k
    BY <1>2, Split
  <2> QED BY <2>2, <2>3, <2>4
<1>4. /\ r \in Seq(Nat) /\ Len(r) = Len(b) - s - k
      /\ \A i \in 1 .. Len(b) - s - k : r[i] = b[s + k + i]
  <2>1. s + k + 1 \in Int /\ \A i \in s + k + 1 .. Len(b) : b[i] \in Nat
    BY <1>1
  <2>2. \A i \in 1 .. Len(b) - (s + k + 1) + 1 : r[i] = b[(s + k + 1) + i - 1]
    BY <1>1, <2>1, SubSeqProperties
  <2>3. ASSUME NEW i \in 1 .. Len(b) - s - k
        PROVE  r[i] = b[s + k + i]
    <3>1. i \in 1 .. Len(b) - (s + k + 1) + 1 /\ (s + k + 1) + i - 1 = s + k + i
      BY <1>1
    <3> QED BY <2>2, <3>1
  <2>4. s + k \in 0 .. Len(b) /\ Len(b) - (s + k) = Len(b) - s - k
    BY <1>1
  <2>5. r \in Seq(Nat) /\ Len(r) = Len(b) - s - k
    BY <2>4, Split
  <2> QED BY <2>2, <2>3, <2>5
<1>5. ASSUME NEW i \in 1 .. Len(b) - s - k
      PROVE  l[i] = r[i]
  <2>1. k + i \in 1 .. Len(b) - s /\ s + (k + i) = s + k + i
    BY <1>1
  <2> QED BY <1>2, <1>3, <1>4, <2>1
<1> QED BY <1>1, <1>3, <1>4, <1>5, SeqEqual

\* The bytes already sent stay a prefix when more are sent and more are taken.
LEMMA PrefixGrows ==
  ASSUME NEW w \in Seq(Nat), NEW u \in Seq(Nat), NEW h, h = w \o u
  PROVE  Len(w) <= Len(h) /\ w = SubSeq(h, 1, Len(w))
<1>1. Len(w) \in Nat /\ Len(u) \in Nat
  BY LenProperties
<1>2. /\ h \in Seq(Nat) /\ Len(h) = Len(w) + Len(u)
      /\ \A i \in 1 .. Len(w) : h[i] = w[i]
  BY <1>1, ConcatProperties
<1>3. /\ SubSeq(h, 1, Len(w)) \in Seq(Nat) /\ Len(SubSeq(h, 1, Len(w))) = Len(w)
      /\ \A i \in 1 .. Len(w) : SubSeq(h, 1, Len(w))[i] = h[i]
  <2>1. \A i \in 1 .. Len(w) : h[i] \in Nat
    BY <1>1, <1>2, ElementOfSeq
  <2>2. /\ SubSeq(h, 1, Len(w)) \in Seq(Nat)
        /\ \A i \in 1 .. Len(w) - 1 + 1 : SubSeq(h, 1, Len(w))[i] = h[1 + i - 1]
    BY <1>1, <2>1, SubSeqProperties
  <2>3. Len(SubSeq(h, 1, Len(w))) = Len(w)
    BY <1>1, <1>2, Split
  <2> QED BY <1>1, <2>2, <2>3
<1>4. w = SubSeq(h, 1, Len(w))
  BY <1>2, <1>3, SeqEqual
<1> QED BY <1>1, <1>2, <1>4

LEMMA PrefixIsConcat ==
  ASSUME NEW w \in Seq(Nat), NEW h \in Seq(Nat),
         Len(w) <= Len(h), w = SubSeq(h, 1, Len(w))
  PROVE  \E u \in Seq(Nat) : h = w \o u
<1>1. Len(w) \in 0 .. Len(h)
  BY LenProperties
<1>2. /\ SubSeq(h, Len(w) + 1, Len(h)) \in Seq(Nat)
      /\ SubSeq(h, 1, Len(w)) \o SubSeq(h, Len(w) + 1, Len(h)) = h
  BY <1>1, Split
<1> QED BY <1>2

-----------------------------------------------------------------------------
\* The pending bytes are a sequence, empty exactly when there is no buffer.
LEMMA PendingType ==
  ASSUME TypeOK, StartInBuffer
  PROVE  /\ Pending \in Seq(Nat)
         /\ Len(Pending) = Len(sendBuffer) - sendStart
         /\ HasBuffer => Len(Pending) > 0
         /\ ~ HasBuffer => Pending = <<>>
<1>1. sendBuffer \in Seq(Nat) /\ sendStart \in 0 .. Len(sendBuffer)
  BY LenProperties DEF TypeOK
<1>2. /\ Pending \in Seq(Nat)
      /\ Len(Pending) = Len(sendBuffer) - sendStart
  BY <1>1, Split DEF Pending
<1>3. HasBuffer => Len(Pending) > 0
  BY <1>1, <1>2, LenProperties DEF StartInBuffer
<1>4. ~ HasBuffer => Pending = <<>>
  <2>1. ~ HasBuffer => Len(Pending) = 0
    BY <1>2, EmptySeq DEF HasBuffer, StartInBuffer
  <2> QED BY <1>2, <2>1, EmptySeq
<1> QED BY <1>2, <1>3, <1>4

RestOf(buffer, start) == SubSeq(buffer, start + 1, Len(buffer))

\* The send loop, when it does not fail, moves bytes from the front of what is
\* queued to the wire and keeps the rest, asking for EPOLLOUT exactly then.
LEMMA SendLoop ==
  ASSUME TypeOK, StartInBuffer, InterestMeansPending, open,
         NEW buffer \in Seq(Nat), NEW start \in Nat, NEW queue \in Seq(Nat),
         start < Len(buffer), queue = RestOf(buffer, start),
         AllSent(queue) \/ WouldBlock(buffer, start, queue)
  PROVE  /\ ~ dead /\ dead' = dead
         /\ wire' \in Seq(Nat) /\ sendBuffer' \in Seq(Nat)
         /\ sendStart' \in Nat /\ sendStart' <= Len(sendBuffer')
         /\ room' \in 0 .. SocketRoom
         /\ {noSpace', interest', ready'} \subseteq BOOLEAN
         /\ StartInBuffer'
         /\ interest' <=> HasBuffer'
         /\ Pending' \in Seq(Nat) /\ wire' \o Pending' = wire \o queue
<1>0. /\ wire \in Seq(Nat) /\ room \in Nat /\ room <= SocketRoom
      /\ {dead, noSpace, interest, ready, input} \subseteq BOOLEAN
      /\ SocketRoom \in Nat /\ Len(buffer) \in Nat
  BY OutputAssumption, LenProperties DEF TypeOK, OutputAssumption
<1>1. Len(queue) = Len(buffer) - start /\ Len(queue) > 0 /\ Len(queue) \in Nat
  <2>1. start \in 0 .. Len(buffer)
    BY <1>0
  <2>2. Len(queue) = Len(buffer) - start
    BY <2>1, Split DEF RestOf
  <2> QED BY <1>0, <2>2
<1>2. CASE AllSent(queue)
  <2>1. /\ ~ dead /\ dead' = dead /\ noSpace' = noSpace
        /\ wire' = wire \o queue /\ room' = room - Len(queue) /\ Len(queue) <= room
        /\ sendBuffer' = <<>> /\ sendStart' = 0
    BY <1>2 DEF AllSent
  <2>2. interest' = FALSE /\ ready' \in BOOLEAN
    <3>1. CASE HasBuffer
      BY <1>2, <3>1 DEF AllSent, SetWriteNotify
    <3>2. CASE ~ HasBuffer
      BY <1>0, <1>2, <2>1, <3>2 DEF AllSent, InterestMeansPending
    <3> QED BY <3>1, <3>2
  <2>3. wire' \in Seq(Nat)
    BY <1>0, <2>1, ConcatProperties
  <2>4. Pending' = <<>>
    BY <2>1, SubSeqEmpty, EmptySeq DEF Pending
  <2>5. wire' \o Pending' = wire \o queue
    BY <2>1, <2>3, <2>4, ConcatEmptySeq
  <2>6. room' \in 0 .. SocketRoom
    BY <1>0, <1>1, <2>1
  <2>7. StartInBuffer' /\ (interest' <=> HasBuffer') /\ sendStart' <= Len(sendBuffer')
    BY <2>1, <2>2, EmptySeq DEF StartInBuffer, HasBuffer
  <2>8. <<>> \in Seq(Nat)
    BY EmptySeq
  <2> QED BY <1>0, <2>1, <2>2, <2>3, <2>4, <2>5, <2>6, <2>7, <2>8
<1>3. CASE WouldBlock(buffer, start, queue)
  <2>1. /\ ~ dead /\ dead' = dead /\ room < Len(queue)
        /\ wire' = wire \o SubSeq(queue, 1, room)
    BY <1>3 DEF WouldBlock
  <2>2. room \in 0 .. Len(queue) /\ room \in 0 .. Len(buffer) - start
    BY <1>0, <1>1, <2>1
  <2>3. /\ SubSeq(queue, 1, room) \in Seq(Nat)
        /\ SubSeq(queue, room + 1, Len(queue)) \in Seq(Nat)
        /\ Len(SubSeq(queue, room + 1, Len(queue))) = Len(queue) - room
        /\ SubSeq(queue, 1, room) \o SubSeq(queue, room + 1, Len(queue)) = queue
    BY <2>2, Split
  <2>4. wire' \in Seq(Nat)
    BY <1>0, <2>1, <2>3, ConcatProperties
  <2>5. /\ Pending' = SubSeq(queue, room + 1, Len(queue))
        /\ sendBuffer' \in Seq(Nat) /\ sendStart' \in Nat
        /\ sendStart' < Len(sendBuffer')
        /\ interest' = TRUE /\ {noSpace', ready'} \subseteq BOOLEAN
        /\ room' \in 0 .. SocketRoom
    <3>1. CASE HasBuffer
      <4>1. /\ sendBuffer' = buffer /\ sendStart' = start + room /\ room' = 0
            /\ noSpace' = TRUE /\ interest' = interest /\ ready' = ready
        BY <1>3, <3>1 DEF WouldBlock
      <4>2. start \in 0 .. Len(buffer)
        BY <1>0
      <4>3. SubSeq(queue, room + 1, Len(buffer) - start) = SubSeq(buffer, start + room + 1, Len(buffer))
        BY <2>2, <4>2, Suffix DEF RestOf
      <4>4. interest' = TRUE
        BY <1>0, <2>1, <3>1, <4>1 DEF InterestMeansPending
      <4>5. start + room < Len(buffer)
        BY <1>0, <1>1, <2>1
      <4>6. Pending' = SubSeq(buffer, start + room + 1, Len(buffer))
        BY <4>1 DEF Pending
      <4>7. Pending' = SubSeq(queue, room + 1, Len(queue))
        BY <1>1, <4>3, <4>6
      <4>8. sendBuffer' \in Seq(Nat) /\ sendStart' \in Nat /\ sendStart' < Len(sendBuffer')
        BY <1>0, <4>1, <4>5
      <4>9. {noSpace', ready'} \subseteq BOOLEAN /\ room' \in 0 .. SocketRoom
        BY <1>0, <4>1
      <4> QED BY <4>4, <4>7, <4>8, <4>9
    <3>2. CASE ~ HasBuffer
      <4>1. /\ sendBuffer' = SubSeq(queue, room + 1, Len(queue)) /\ sendStart' = 0
            /\ room' \in 0 .. SocketRoom /\ noSpace' \in BOOLEAN
            /\ interest' = TRUE /\ ready' \in BOOLEAN
        BY <1>3, <3>2 DEF WouldBlock, SetWriteNotify
      <4> DEFINE rest == SubSeq(queue, room + 1, Len(queue))
      <4>5. rest \in Seq(Nat) /\ Len(rest) = Len(queue) - room /\ sendBuffer' = rest
        BY <2>3, <4>1
      <4> HIDE DEF rest
      <4>6. Len(queue) - room > 0
        BY <1>0, <1>1, <2>1
      <4>2. Len(sendBuffer') > 0 /\ sendBuffer' \in Seq(Nat)
        BY <4>5, <4>6
      <4>3. Pending' = SubSeq(sendBuffer', 1, Len(sendBuffer'))
        BY <4>1 DEF Pending
      <4>4. Pending' = sendBuffer'
        BY <4>2, <4>3, SubSeqFull
      <4> QED BY <4>1, <4>2, <4>4
    <3> QED BY <3>1, <3>2
  <2>6. wire' \o Pending' = wire \o queue
    <3>1. wire \in Seq(Nat) /\ room \in 0 .. Len(queue)
      BY <1>0, <2>2
    <3>2. wire' = wire \o SubSeq(queue, 1, room)
      BY <2>1
    <3>3. (wire \o SubSeq(queue, 1, room)) \o SubSeq(queue, room + 1, Len(queue)) = wire \o queue
      BY <3>1, Advance
    <3> QED BY <2>5, <3>2, <3>3
  <2>7. HasBuffer' /\ StartInBuffer' /\ sendStart' <= Len(sendBuffer')
    <3>1. sendBuffer' # <<>>
      BY <2>5, EmptySeq
    <3>2. Len(sendBuffer') \in Nat
      BY <2>5, LenProperties
    <3> QED BY <2>5, <3>1, <3>2 DEF HasBuffer, StartInBuffer
  <2> QED BY <2>1, <2>3, <2>4, <2>5, <2>6, <2>7
<1> QED BY <1>2, <1>3

\* When the loop fails, the bytes sent are still the front of what was queued,
\* and from then on none is sent.
LEMMA FailedSend ==
  ASSUME TypeOK,
         NEW buffer \in Seq(Nat), NEW start \in Nat, NEW queue \in Seq(Nat),
         IF buffer = <<>> THEN start = 0 ELSE start < Len(buffer),
         Len(queue) > 0, Fails(buffer, start, queue)
  PROVE  /\ dead' = TRUE
         /\ wire' \in Seq(Nat) /\ sendBuffer' \in Seq(Nat)
         /\ sendStart' \in Nat /\ sendStart' <= Len(sendBuffer')
         /\ room' \in 0 .. SocketRoom
         /\ {noSpace', interest', ready'} \subseteq BOOLEAN
         /\ StartInBuffer'
         /\ dead => wire' = wire
         /\ \E u \in Seq(Nat) : wire \o queue = wire' \o u
<1>0. /\ wire \in Seq(Nat) /\ room \in Nat /\ room <= SocketRoom
      /\ {dead, noSpace, interest, ready} \subseteq BOOLEAN
      /\ SocketRoom \in Nat /\ Len(buffer) \in Nat /\ Len(queue) \in Nat
  BY OutputAssumption, LenProperties DEF TypeOK, OutputAssumption
<1>1. /\ dead' = TRUE /\ sendBuffer' = buffer /\ sendStart' = start
      /\ ready' = TRUE /\ noSpace' = noSpace /\ interest' = interest
  BY DEF Fails
<1>2. PICK sent \in 0 .. IF dead THEN 0 ELSE Least(room, Len(queue) - 1) :
        wire' = wire \o SubSeq(queue, 1, sent) /\ room' = room - sent
  BY DEF Fails
<1>3. sent \in 0 .. Len(queue) /\ sent <= room /\ (dead => sent = 0)
  BY <1>0, <1>2 DEF Least
<1> DEFINE rest == SubSeq(queue, sent + 1, Len(queue))
<1>4. rest \in Seq(Nat)
  BY <1>3, Split
<1>5. wire' \in Seq(Nat) /\ wire' \o rest = wire \o queue
  <2>1. wire \in Seq(Nat) /\ sent \in 0 .. Len(queue)
    BY <1>0, <1>3
  <2>2. /\ wire \o SubSeq(queue, 1, sent) \in Seq(Nat)
        /\ (wire \o SubSeq(queue, 1, sent)) \o rest = wire \o queue
    BY <2>1, Advance
  <2> QED BY <1>2, <2>2
<1>6. SubSeq(queue, 1, sent) \in Seq(Nat) /\ Len(SubSeq(queue, 1, sent)) = sent
  BY <1>3, Split
<1> HIDE DEF rest
<1>7. \E u \in Seq(Nat) : wire \o queue = wire' \o u
  BY <1>4, <1>5
<1>8. dead => wire' = wire
  <2>1. dead => SubSeq(queue, 1, sent) = <<>>
    BY <1>3, <1>6, EmptySeq
  <2> QED BY <1>0, <1>2, <2>1, ConcatEmptySeq
<1>9. room' \in 0 .. SocketRoom
  BY <1>0, <1>2, <1>3
<1>10. StartInBuffer' /\ sendStart' <= Len(sendBuffer')
  BY <1>0, <1>1, EmptySeq DEF StartInBuffer, HasBuffer
<1> QED BY <1>0, <1>1, <1>5, <1>7, <1>8, <1>9, <1>10

-----------------------------------------------------------------------------
\* send_frame with a frame keeps the invariant.
LEMMA SendFrameStep ==
  ASSUME IInv, SendFrame
  PROVE  IInv'
<1>0. /\ TypeOK /\ StartInBuffer /\ Fifo /\ WireIsPrefix /\ InterestMeansPending /\ open
      /\ UNCHANGED <<open, input, inputs, reported, merged>>
  BY DEF IInv, SendFrame
<1>1. PICK n \in FrameSizes : serial' = serial + n /\ (Queued(Frame(n)) \/ Dropped(Frame(n)))
  BY DEF SendFrame
<1> DEFINE frame == Frame(n)
<1>2. /\ n \in Nat /\ n > 0 /\ serial \in Nat
  BY <1>0, OutputAssumption DEF TypeOK, OutputAssumption
<1>3. frame \in Seq(Nat) /\ Len(frame) = n /\ DOMAIN frame = 1 .. n
  BY <1>2 DEF Frame
<1>4. {frame[i] : i \in DOMAIN frame} \subseteq Nat
  BY <1>3, ElementOfSeq
<1> HIDE DEF frame
<1>5. /\ wire \in Seq(Nat) /\ handed \in Seq(Nat)
      /\ sendBuffer \in Seq(Nat) /\ sendStart \in Nat /\ dead \in BOOLEAN
  BY <1>0 DEF TypeOK
<1>6. /\ Pending \in Seq(Nat)
      /\ HasBuffer => Len(Pending) > 0
      /\ ~ HasBuffer => Pending = <<>>
  BY <1>0, PendingType
<1>7. /\ Appended(frame) \in Seq(Nat) /\ Len(Appended(frame)) > 0
      /\ Appended(frame) = SubSeq(Appended(frame), 0 + 1, Len(Appended(frame)))
  <2>1. /\ Appended(frame) \in Seq(Nat)
        /\ Len(Appended(frame)) = Len(Pending) + Len(frame)
    BY <1>3, <1>6, ConcatProperties DEF Appended
  <2>2. Len(Pending) \in Nat
    BY <1>6, LenProperties
  <2>3. Appended(frame) = SubSeq(Appended(frame), 1, Len(Appended(frame)))
    BY <2>1, SubSeqFull
  <2> QED BY <1>2, <1>3, <2>1, <2>2, <2>3
<1>8. handed \o frame \in Seq(Nat)
  BY <1>3, <1>5, ConcatProperties
<1>9. ~ dead => wire \o Appended(frame) = handed \o frame
  <2>1. (wire \o Pending) \o frame = wire \o (Pending \o frame)
    BY <1>3, <1>5, <1>6, Regroup
  <2> QED BY <1>0, <2>1 DEF Appended, Fifo
<1>10. HasBuffer => sendStart < Len(sendBuffer)
  BY <1>0 DEF StartInBuffer
<1>11. serial' \in Nat
  BY <1>1, <1>2
<1>12. \E u \in Seq(Nat) : handed = wire \o u
  BY <1>0, <1>5, PrefixIsConcat DEF WireIsPrefix
<1>13. /\ open' = open /\ input' = input /\ inputs' = inputs /\ reported' = reported
       /\ merged' = merged
  BY <1>0
<1>14. CASE /\ handed' = handed \o frame
            /\ AllSent(Appended(frame)) \/ WouldBlock(Appended(frame), 0, Appended(frame))
  <2>1. /\ ~ dead /\ dead' = dead
        /\ wire' \in Seq(Nat) /\ sendBuffer' \in Seq(Nat)
        /\ sendStart' \in Nat /\ sendStart' <= Len(sendBuffer')
        /\ room' \in 0 .. SocketRoom
        /\ {noSpace', interest', ready'} \subseteq BOOLEAN
        /\ StartInBuffer'
        /\ interest' <=> HasBuffer'
        /\ Pending' \in Seq(Nat) /\ wire' \o Pending' = wire \o Appended(frame)
    BY <1>0, <1>7, <1>14, SendLoop DEF RestOf
  <2>2. wire' \o Pending' = handed'
    BY <1>9, <1>14, <2>1
  <2>3. WireIsPrefix'
    BY <2>1, <2>2, PrefixGrows DEF WireIsPrefix
  <2>4. TypeOK'
    BY <1>0, <1>4, <1>5, <1>8, <1>11, <1>13, <1>14, <2>1 DEF TypeOK
  <2> QED BY <2>1, <2>2, <2>3, <2>4 DEF IInv, Fifo, InterestMeansPending
<1>15. CASE /\ handed' = handed \o frame
            /\ Fails(IF HasBuffer THEN Appended(frame) ELSE <<>>, 0, Appended(frame))
  <2> DEFINE b == IF HasBuffer THEN Appended(frame) ELSE <<>>
  <2>1. b \in Seq(Nat) /\ IF b = <<>> THEN 0 = 0 ELSE 0 < Len(b)
    BY <1>7, EmptySeq
  <2>2. Fails(b, 0, Appended(frame))
    BY <1>15
  <2> HIDE DEF b
  <2>3. /\ dead' = TRUE
        /\ wire' \in Seq(Nat) /\ sendBuffer' \in Seq(Nat)
        /\ sendStart' \in Nat /\ sendStart' <= Len(sendBuffer')
        /\ room' \in 0 .. SocketRoom
        /\ {noSpace', interest', ready'} \subseteq BOOLEAN
        /\ StartInBuffer'
        /\ dead => wire' = wire
        /\ \E u \in Seq(Nat) : wire \o Appended(frame) = wire' \o u
    BY <1>0, <1>7, <2>1, <2>2, FailedSend
  <2>4. \E u \in Seq(Nat) : handed' = wire' \o u
    <3>1. CASE ~ dead
      BY <1>9, <1>15, <2>3, <3>1
    <3>2. CASE dead
      <4>1. PICK u \in Seq(Nat) : handed = wire \o u
        BY <1>12
      <4>2. handed' = wire \o (u \o frame)
        <5>1. (wire \o u) \o frame = wire \o (u \o frame)
          BY <1>3, <1>5, Regroup
        <5> QED BY <1>15, <4>1, <5>1
      <4>3. u \o frame \in Seq(Nat)
        BY <1>3, ConcatProperties
      <4> QED BY <2>3, <3>2, <4>2, <4>3
    <3> QED BY <3>1, <3>2
  <2>5. WireIsPrefix'
    BY <2>3, <2>4, PrefixGrows DEF WireIsPrefix
  <2>6. TypeOK'
    BY <1>0, <1>5, <1>8, <1>11, <1>13, <1>15, <2>3 DEF TypeOK
  <2> QED BY <2>3, <2>5, <2>6 DEF IInv, Fifo, InterestMeansPending
<1>16. CASE /\ HasBuffer /\ handed' = handed
            /\ AllSent(Pending) \/ WouldBlock(sendBuffer, sendStart, Pending)
  <2>1. /\ ~ dead /\ dead' = dead
        /\ wire' \in Seq(Nat) /\ sendBuffer' \in Seq(Nat)
        /\ sendStart' \in Nat /\ sendStart' <= Len(sendBuffer')
        /\ room' \in 0 .. SocketRoom
        /\ {noSpace', interest', ready'} \subseteq BOOLEAN
        /\ StartInBuffer'
        /\ interest' <=> HasBuffer'
        /\ Pending' \in Seq(Nat) /\ wire' \o Pending' = wire \o Pending
    BY <1>0, <1>5, <1>6, <1>10, <1>16, SendLoop DEF Pending, RestOf
  <2>2. wire' \o Pending' = handed'
    BY <1>0, <1>16, <2>1 DEF Fifo
  <2>3. WireIsPrefix'
    BY <2>1, <2>2, PrefixGrows DEF WireIsPrefix
  <2>4. TypeOK'
    BY <1>0, <1>4, <1>5, <1>11, <1>13, <1>16, <2>1 DEF TypeOK
  <2> QED BY <2>1, <2>2, <2>3, <2>4 DEF IInv, Fifo, InterestMeansPending
<1>17. CASE /\ HasBuffer /\ handed' = handed
            /\ Fails(sendBuffer, sendStart, Pending)
  <2>1. /\ dead' = TRUE
        /\ wire' \in Seq(Nat) /\ sendBuffer' \in Seq(Nat)
        /\ sendStart' \in Nat /\ sendStart' <= Len(sendBuffer')
        /\ room' \in 0 .. SocketRoom
        /\ {noSpace', interest', ready'} \subseteq BOOLEAN
        /\ StartInBuffer'
        /\ dead => wire' = wire
        /\ \E u \in Seq(Nat) : wire \o Pending = wire' \o u
    BY <1>0, <1>5, <1>6, <1>10, <1>17, FailedSend DEF HasBuffer
  <2>2. \E u \in Seq(Nat) : handed' = wire' \o u
    BY <1>0, <1>12, <1>17, <2>1 DEF Fifo
  <2>3. WireIsPrefix'
    BY <2>1, <2>2, PrefixGrows DEF WireIsPrefix
  <2>4. TypeOK'
    BY <1>0, <1>5, <1>11, <1>13, <1>17, <2>1 DEF TypeOK
  <2> QED BY <2>1, <2>3, <2>4 DEF IInv, Fifo, InterestMeansPending
<1> QED BY <1>1, <1>14, <1>15, <1>16, <1>17 DEF Queued, Dropped, frame

\* So does the flush of an event that reports the socket writable.
LEMMA HandleWriteStep ==
  ASSUME IInv, HandleWrite
  PROVE  IInv'
<1>0. /\ TypeOK /\ StartInBuffer /\ Fifo /\ WireIsPrefix /\ InterestMeansPending /\ open
      /\ serial' = serial /\ handed' = handed /\ open' = open
      /\ input' = input /\ inputs' = inputs /\ merged' = merged /\ reported' = "none"
  BY DEF IInv, HandleWrite
<1>1. /\ wire \in Seq(Nat) /\ handed \in Seq(Nat) /\ sendBuffer \in Seq(Nat)
      /\ sendStart \in Nat
  BY <1>0 DEF TypeOK
<1>2. /\ Pending \in Seq(Nat)
      /\ HasBuffer => Len(Pending) > 0
  BY <1>0, PendingType
<1>3. HasBuffer => sendStart < Len(sendBuffer)
  BY <1>0 DEF StartInBuffer
<1>4. CASE UNCHANGED <<wire, sendBuffer, sendStart, dead, room, noSpace, interest, ready>>
  <2>1. TypeOK'
    BY <1>0, <1>4 DEF TypeOK
  <2> QED BY <1>0, <1>4, <2>1
       DEF IInv, StartInBuffer, HasBuffer, Fifo, Pending, WireIsPrefix, InterestMeansPending
<1>5. CASE HasBuffer /\ (AllSent(Pending) \/ WouldBlock(sendBuffer, sendStart, Pending))
  <2>1. /\ ~ dead /\ dead' = dead
        /\ wire' \in Seq(Nat) /\ sendBuffer' \in Seq(Nat)
        /\ sendStart' \in Nat /\ sendStart' <= Len(sendBuffer')
        /\ room' \in 0 .. SocketRoom
        /\ {noSpace', interest', ready'} \subseteq BOOLEAN
        /\ StartInBuffer'
        /\ interest' <=> HasBuffer'
        /\ Pending' \in Seq(Nat) /\ wire' \o Pending' = wire \o Pending
    BY <1>0, <1>1, <1>2, <1>3, <1>5, SendLoop DEF Pending, RestOf
  <2>2. wire' \o Pending' = handed'
    BY <1>0, <2>1 DEF Fifo
  <2>3. WireIsPrefix'
    BY <2>1, <2>2, PrefixGrows DEF WireIsPrefix
  <2>4. TypeOK'
    BY <1>0, <2>1 DEF TypeOK
  <2> QED BY <2>1, <2>2, <2>3, <2>4 DEF IInv, Fifo, InterestMeansPending
<1>6. CASE HasBuffer /\ Fails(sendBuffer, sendStart, Pending)
  <2>1. /\ dead' = TRUE
        /\ wire' \in Seq(Nat) /\ sendBuffer' \in Seq(Nat)
        /\ sendStart' \in Nat /\ sendStart' <= Len(sendBuffer')
        /\ room' \in 0 .. SocketRoom
        /\ {noSpace', interest', ready'} \subseteq BOOLEAN
        /\ StartInBuffer'
        /\ dead => wire' = wire
        /\ \E u \in Seq(Nat) : wire \o Pending = wire' \o u
    BY <1>0, <1>1, <1>2, <1>3, <1>6, FailedSend DEF HasBuffer
  <2>2. \E u \in Seq(Nat) : handed = wire \o u
    BY <1>0, <1>1, PrefixIsConcat DEF WireIsPrefix
  <2>3. \E u \in Seq(Nat) : handed' = wire' \o u
    BY <1>0, <2>1, <2>2 DEF Fifo
  <2>4. WireIsPrefix'
    BY <2>1, <2>3, PrefixGrows DEF WireIsPrefix
  <2>5. TypeOK'
    BY <1>0, <2>1 DEF TypeOK
  <2> QED BY <2>1, <2>4, <2>5 DEF IInv, Fifo, InterestMeansPending
<1> QED BY <1>4, <1>5, <1>6 DEF HandleWrite

\* The other steps leave the stream, the buffer and the wire alone, and neither
\* revive the client nor its socket.
LEMMA OtherStep ==
  ASSUME IInv, TypeOK',
         UNCHANGED <<handed, wire, sendBuffer, sendStart, interest>>,
         open' => open, dead => dead'
  PROVE  IInv'
BY DEF IInv, TypeOK, StartInBuffer, HasBuffer, Fifo, Pending, WireIsPrefix, InterestMeansPending

-----------------------------------------------------------------------------
LEMMA InitIsGood == Init => IInv
<1> SUFFICES ASSUME Init PROVE IInv
  OBVIOUS
<1>1. <<>> \in Seq(Nat) /\ Len(<<>>) = 0
  BY EmptySeq
<1>2. TypeOK
  <2>1. /\ handed \in Seq(Nat) /\ wire \in Seq(Nat)
        /\ sendBuffer \in Seq(Nat) /\ sendStart <= Len(sendBuffer)
    BY <1>1 DEF Init
  <2>2. {open, dead, noSpace, interest, ready, input, merged} \subseteq BOOLEAN
    BY DEF Init
  <2>3. room \in 0 .. SocketRoom
    BY OutputAssumption DEF Init, OutputAssumption
  <2>4. serial \in Nat /\ sendStart \in Nat /\ inputs \in Nat
        /\ reported \in {"none", "read", "write", "close"}
    BY DEF Init
  <2> QED BY <2>1, <2>2, <2>3, <2>4 DEF TypeOK
<1>3. StartInBuffer /\ InterestMeansPending
  BY DEF Init, StartInBuffer, HasBuffer, InterestMeansPending
<1>4. Pending = <<>> /\ SubSeq(<<>>, 1, 0) = <<>>
  BY <1>1, SubSeqEmpty DEF Init, Pending
<1>5. Fifo /\ WireIsPrefix
  <2>1. <<>> \o <<>> = <<>>
    BY <1>1, ConcatEmptySeq
  <2> QED BY <1>1, <1>4, <2>1 DEF Init, Fifo, WireIsPrefix
<1> QED BY <1>2, <1>3, <1>5 DEF IInv

LEMMA StepIsGood == IInv /\ [Next]_vars => IInv'
<1> SUFFICES ASSUME IInv, [Next]_vars PROVE IInv'
  OBVIOUS
<1>0. TypeOK
  BY DEF IInv
<1>1. CASE SendFrame
  BY <1>1, SendFrameStep
<1>2. CASE HandleWrite
  BY <1>2, HandleWriteStep
<1>3. CASE HandleRead
  <2>1. TypeOK'
    BY <1>0, <1>3 DEF TypeOK, HandleRead
  <2> QED BY <1>0, <1>3, <2>1, OtherStep DEF HandleRead
<1>4. CASE HandleClose
  <2>1. TypeOK'
    BY <1>0, <1>4 DEF TypeOK, HandleClose, socket
  <2> QED BY <1>4, <2>1, OtherStep DEF HandleClose
<1>5. CASE EpollWait
  <2>1. reported' \in {"none", "read", "write", "close"}
    BY <1>5 DEF EpollWait
  <2>2. merged' \in BOOLEAN /\ ready' \in BOOLEAN
    BY <1>0, <1>5 DEF EpollWait, TypeOK
  <2>3. TypeOK'
    BY <1>0, <1>5, <2>1, <2>2 DEF TypeOK, EpollWait, socket
  <2> QED BY <1>5, <2>3, OtherStep DEF EpollWait
<1>6. CASE PeerDrains
  <2>1. room' \in 0 .. SocketRoom
    BY <1>0, <1>6, OutputAssumption DEF PeerDrains, TypeOK, OutputAssumption
  <2>2. TypeOK'
    BY <1>0, <1>6, <2>1 DEF TypeOK, PeerDrains
  <2> QED BY <1>6, <2>2, OtherStep DEF PeerDrains
<1>7. CASE PeerSends
  <2>1. TypeOK'
    BY <1>0, <1>7 DEF TypeOK, PeerSends
  <2> QED BY <1>7, <2>1, OtherStep DEF PeerSends
<1>8. CASE SocketDies
  <2>1. TypeOK'
    BY <1>0, <1>8 DEF TypeOK, SocketDies, socket
  <2> QED BY <1>8, <2>1, OtherStep DEF SocketDies
<1>9. CASE UNCHANGED vars
  <2>1. TypeOK'
    BY <1>0, <1>9 DEF TypeOK, vars
  <2> QED BY <1>9, <2>1, OtherStep DEF vars
<1> QED BY <1>1, <1>2, <1>3, <1>4, <1>5, <1>6, <1>7, <1>8, <1>9 DEF Next, EventLoop

\* IInv holds in every reachable state, whatever the frame sizes, the kernel's
\* capacity and the order of sends, drains, events and failures.
THEOREM Invariance == Spec => []IInv
BY InitIsGood, StepIsGood, PTL DEF Spec

\* Every variable keeps its type; send_start never passes the end of send_buffer,
\* so a flush never reads outside the allocation.
THEOREM TypeCorrect == Spec => []TypeOK
<1>1. IInv => TypeOK
  BY DEF IInv
<1> QED BY Invariance, <1>1, PTL

\* Partial sends, appends to a partly sent buffer and flushes neither lose, repeat
\* nor reorder a byte of the stream that send_frame accepted.
THEOREM StreamIsFifo == Spec => []Fifo
<1>1. IInv => Fifo
  BY DEF IInv
<1> QED BY Invariance, <1>1, PTL

\* What the peer can see is a prefix of that stream, even after a send failed.
THEOREM PeerSeesPrefix == Spec => []WireIsPrefix
<1>1. IInv => WireIsPrefix
  BY DEF IInv
<1> QED BY Invariance, <1>1, PTL

\* Both hold together, whichever of the calls failed.
THEOREM StreamInOrder == Spec => []WireInOrder
  BY StreamIsFifo, PeerSeesPrefix, PTL DEF WireInOrder

\* EPOLLOUT is registered exactly while bytes wait for it: the loop neither spins
\* on a writable socket with nothing to send nor forgets one that has bytes.
THEOREM InterestIsExact == Spec => []InterestMeansPending
<1>1. IInv => InterestMeansPending
  BY DEF IInv
<1> QED BY Invariance, <1>1, PTL
=============================================================================
