---------------------------- MODULE DeflateProofs ----------------------------
(***************************************************************************)
(* Proofs about permessage-deflate for every number of descriptors,        *)
(* connections, offers and messages: what pmd_get_from_table finds is the  *)
(* configuration of this connection, its streams stand where the peer's    *)
(* do, and none is used that was not initialised.                          *)
(***************************************************************************)
EXTENDS Deflate, SequenceTheorems, WellFoundedInduction, TLAPS

\* pmd_get_from_table on any chain.
Get(t, fd) == SelectInSeq(t, LAMBDA e : e.fd = fd)

Has(t, fd) == Get(t, fd) # 0
Found(t, fd) == t[Get(t, fd)]

Replaced(t, i, e) == [t EXCEPT ![i] = e]

\* pmd_delete_from_table on any chain.
Without(t, i) == SubSeq(t, 1, i - 1) \o SubSeq(t, i + 1, Len(t))

-----------------------------------------------------------------------------
\* The chain.

\* A set of numbers that is not empty has a least one.
LEMMA LeastNumber ==
  ASSUME NEW T \in SUBSET Nat, T # {}
  PROVE  \E x \in T : \A y \in T : x <= y
<1> DEFINE R == {ss \in Nat \X Nat : ss[1] < ss[2]}
<1>1. IsWellFoundedOn(R, Nat)
  BY NatLessThanWellFounded DEF OpToRel
<1>2. \A x, y \in Nat : <<y, x>> \in R <=> y < x
  OBVIOUS
<1> HIDE DEF R
<1>3. PICK x \in T : \A y \in T : ~ (<<y, x>> \in R)
  BY <1>1, WFMin
<1>4. \A y \in T : x <= y
  <2> TAKE y \in T
  <2>1. x \in Nat /\ y \in Nat /\ ~ (y < x)
    BY <1>2, <1>3
  <2> QED BY <2>1
<1> QED BY <1>4

\* The first entry of a descriptor is found, or there is none.
LEMMA GetFacts ==
  ASSUME NEW S, NEW t \in Seq(S), NEW fd
  PROVE  /\ Get(t, fd) \in 0 .. Len(t)
         /\ Get(t, fd) # 0 =>
              /\ t[Get(t, fd)].fd = fd
              /\ \A j \in 1 .. Get(t, fd) - 1 : t[j].fd # fd
         /\ Get(t, fd) = 0 => \A j \in 1 .. Len(t) : t[j].fd # fd
<1> DEFINE I == {i \in 1 .. Len(t) : t[i].fd = fd}
<1>1. Len(t) \in Nat /\ I \in SUBSET Nat
  OBVIOUS
<1>2. Get(t, fd) = IF I # {} THEN Min(I) ELSE 0
  BY DEF Get, SelectInSeq
<1>3. CASE I = {}
  BY <1>1, <1>2, <1>3
<1>4. CASE I # {}
  <2>1. Min(I) \in I /\ \A y \in I : Min(I) <= y
    <3> HIDE DEF I
    <3>1. \E x \in I : \A y \in I : x <= y
      BY <1>1, <1>4, LeastNumber
    <3> QED BY <3>1 DEF Min
  <2>2. PICK m : m = Min(I)
    OBVIOUS
  <2>3. m \in 1 .. Len(t) /\ t[m].fd = fd /\ Get(t, fd) = m
    BY <1>2, <1>4, <2>1, <2>2
  <2>4. \A j \in 1 .. m - 1 : t[j].fd # fd
    <3> TAKE j \in 1 .. m - 1
    <3>1. j \in 1 .. Len(t) /\ ~ (m <= j)
      BY <1>1, <2>3
    <3> QED BY <2>1, <2>2, <3>1
  <2> QED BY <1>1, <2>3, <2>4
<1> QED BY <1>3, <1>4

\* An entry before which there is none of its descriptor is what is found.
LEMMA GetIs ==
  ASSUME NEW S, NEW t \in Seq(S), NEW fd, NEW i \in 1 .. Len(t), t[i].fd = fd,
         \A j \in 1 .. i - 1 : t[j].fd # fd
  PROVE  Get(t, fd) = i /\ Has(t, fd) /\ Found(t, fd) = t[i]
<1>1. PICK g : g = Get(t, fd)
  OBVIOUS
<1>2. /\ g \in 0 .. Len(t) /\ g # 0
      /\ t[g].fd = fd /\ \A j \in 1 .. g - 1 : t[j].fd # fd
  BY <1>1, GetFacts
<1>3. ~ (g < i) /\ ~ (i < g)
  BY <1>2
<1>4. g = i
  BY <1>2, <1>3
<1> QED BY <1>1, <1>2, <1>4 DEF Has, Found

\* A new entry hides the older ones of its descriptor and no other.
LEMMA AddedFirst ==
  ASSUME NEW S, NEW t \in Seq(S), NEW e \in S
  PROVE  /\ <<e>> \o t \in Seq(S)
         /\ Has(<<e>> \o t, e.fd) /\ Found(<<e>> \o t, e.fd) = e
         /\ \A fd : fd # e.fd /\ Has(t, fd) =>
              Has(<<e>> \o t, fd) /\ Found(<<e>> \o t, fd) = Found(t, fd)
<1>1. PICK u : u = <<e>> \o t
  OBVIOUS
<1>2. <<e>> \in Seq(S) /\ Len(<<e>>) = 1 /\ <<e>>[1] = e
  OBVIOUS
<1>3. /\ u \in Seq(S) /\ Len(u) = 1 + Len(t) /\ Len(t) \in Nat
      /\ u[1] = e /\ \A j \in 1 .. Len(t) : u[1 + j] = t[j]
  <2>1. /\ u \in Seq(S) /\ Len(u) = 1 + Len(t)
        /\ \A i \in 1 .. 1 + Len(t) : u[i] = IF i <= 1 THEN <<e>>[i] ELSE t[i - 1]
    BY <1>1, <1>2, ConcatProperties
  <2>2. Len(t) \in Nat
    OBVIOUS
  <2>3. \A j \in 1 .. Len(t) : 1 + j \in 1 .. 1 + Len(t) /\ ~ (1 + j <= 1) /\ 1 + j - 1 = j
    BY <2>2
  <2>4. 1 \in 1 .. 1 + Len(t) /\ 1 <= 1
    BY <2>2
  <2> QED BY <1>2, <2>1, <2>2, <2>3, <2>4
<1>4. Has(u, e.fd) /\ Found(u, e.fd) = e
  <2>1. 1 \in 1 .. Len(u) /\ \A j \in 1 .. 1 - 1 : u[j].fd # e.fd
    BY <1>3
  <2> QED BY <1>3, <2>1, GetIs
<1>5. ASSUME NEW fd, fd # e.fd, Has(t, fd)
      PROVE  Has(u, fd) /\ Found(u, fd) = Found(t, fd)
  <2>1. PICK g : g = Get(t, fd)
    OBVIOUS
  <2>2. g \in 1 .. Len(t) /\ t[g].fd = fd /\ \A j \in 1 .. g - 1 : t[j].fd # fd
    BY <1>3, <1>5, <2>1, GetFacts DEF Has
  <2>3. 1 + g \in 1 .. Len(u) /\ u[1 + g] = t[g]
    BY <1>3, <2>2
  <2>4. \A j \in 1 .. (1 + g) - 1 : u[j].fd # fd
    <3> TAKE j \in 1 .. (1 + g) - 1
    <3>1. CASE j = 1
      BY <1>3, <1>5, <3>1
    <3>2. CASE j # 1
      <4>1. j - 1 \in 1 .. g - 1 /\ j - 1 \in 1 .. Len(t) /\ 1 + (j - 1) = j
        BY <1>3, <2>2, <3>2
      <4> QED BY <1>3, <2>2, <4>1
    <3> QED BY <3>1, <3>2
  <2>5. Has(u, fd) /\ Found(u, fd) = u[1 + g]
    <3>1. PICK k : k = 1 + g
      OBVIOUS
    <3>2. k \in 1 .. Len(u) /\ u[k].fd = fd /\ \A j \in 1 .. k - 1 : u[j].fd # fd
      BY <2>2, <2>3, <2>4, <3>1
    <3> QED BY <1>3, <3>1, <3>2, GetIs
  <2> QED BY <2>1, <2>3, <2>5 DEF Found
<1> QED BY <1>1, <1>3, <1>4, <1>5

\* A new value of the entry that is found is found in its place.
LEMMA ChangedInPlace ==
  ASSUME NEW S, NEW t \in Seq(S), NEW g, Has(t, g), NEW e \in S, e.fd = g,
         NEW u, u = Replaced(t, Get(t, g), e)
  PROVE  /\ u \in Seq(S)
         /\ \A fd : /\ Has(u, fd) <=> Has(t, fd)
                    /\ Has(t, fd) => Found(u, fd) = IF fd = g THEN e ELSE Found(t, fd)
<1>1. PICK i : i = Get(t, g)
  OBVIOUS
<1>2. u = [t EXCEPT ![i] = e]
  BY <1>1 DEF Replaced
<1>3. /\ i \in 1 .. Len(t) /\ Len(t) \in Nat /\ t[i].fd = g
      /\ \A j \in 1 .. i - 1 : t[j].fd # g
  <2>1. Len(t) \in Nat
    OBVIOUS
  <2> QED BY <1>1, <2>1, GetFacts DEF Has
<1>4. /\ u \in Seq(S) /\ Len(u) = Len(t) /\ u[i] = e
      /\ \A j \in 1 .. Len(t) : j # i => u[j] = t[j]
  <2>1. t \in [1 .. Len(t) -> S]
    BY LenProperties
  <2>2. u \in [1 .. Len(t) -> S]
    BY <1>2, <1>3, <2>1
  <2>3. u[i] = e /\ \A j \in 1 .. Len(t) : j # i => u[j] = t[j]
    BY <1>2, <1>3, <2>1
  <2>4. u \in Seq(S) /\ Len(u) = Len(t)
    BY <1>3, <2>2
  <2> QED BY <2>3, <2>4
<1>5. \A j \in 1 .. Len(t) : u[j].fd = t[j].fd
  BY <1>3, <1>4
<1>6. ASSUME NEW fd, Has(t, fd)
      PROVE  Has(u, fd) /\ Found(u, fd) = IF fd = g THEN e ELSE Found(t, fd)
  <2>1. PICK k : k = Get(t, fd)
    OBVIOUS
  <2>2. /\ k \in 1 .. Len(t) /\ t[k].fd = fd
        /\ \A j \in 1 .. k - 1 : t[j].fd # fd
    BY <1>3, <1>6, <2>1, GetFacts DEF Has
  <2>3. k \in 1 .. Len(u) /\ u[k].fd = fd
    BY <1>4, <1>5, <2>2
  <2>4. \A j \in 1 .. k - 1 : u[j].fd # fd
    <3> TAKE j \in 1 .. k - 1
    <3>1. j \in 1 .. Len(t)
      BY <1>3, <2>2
    <3> QED BY <1>5, <2>2, <3>1
  <2>5. Has(u, fd) /\ Found(u, fd) = u[k]
    BY <1>4, <2>3, <2>4, GetIs
  <2>6. u[k] = IF k = i THEN e ELSE t[k]
    BY <1>4, <2>2
  <2>7. k = i <=> fd = g
    BY <1>1, <1>3, <2>1, <2>2
  <2> QED BY <2>1, <2>5, <2>6, <2>7 DEF Found
<1>7. ASSUME NEW fd, ~ Has(t, fd) PROVE ~ Has(u, fd)
  <2>1. \A j \in 1 .. Len(t) : u[j].fd # fd
    BY <1>5, <1>7, GetFacts DEF Has
  <2>2. Get(u, fd) \in 0 .. Len(u) /\ (Get(u, fd) # 0 => u[Get(u, fd)].fd = fd)
    BY <1>4, GetFacts
  <2>3. PICK k : k = Get(u, fd)
    OBVIOUS
  <2> QED BY <1>3, <1>4, <2>1, <2>2, <2>3 DEF Has
<1> QED BY <1>4, <1>6, <1>7

\* Deleting the entry that is found leaves every other descriptor the entry it had.
LEMMA OthersKept ==
  ASSUME NEW S, NEW t \in Seq(S), NEW g, Has(t, g),
         NEW u, u = Without(t, Get(t, g))
  PROVE  /\ u \in Seq(S)
         /\ \A j \in 1 .. Len(u) : \E k \in 1 .. Len(t) : u[j] = t[k]
         /\ \A fd : fd # g /\ Has(t, fd) => Has(u, fd) /\ Found(u, fd) = Found(t, fd)
<1>1. PICK i : i = Get(t, g)
  OBVIOUS
<1>2. i \in 1 .. Len(t) /\ Len(t) \in Nat /\ t[i].fd = g
  <2>1. Len(t) \in Nat
    OBVIOUS
  <2> QED BY <1>1, <2>1, GetFacts DEF Has
<1>3. PICK a : a = SubSeq(t, 1, i - 1)
  OBVIOUS
<1>4. PICK b : b = SubSeq(t, i + 1, Len(t))
  OBVIOUS
<1>5. u = a \o b
  BY <1>1, <1>3, <1>4 DEF Without
<1>6. a \in Seq(S) /\ Len(a) = i - 1 /\ \A j \in 1 .. i - 1 : a[j] = t[j]
  <2>1. \A j \in 1 .. Len(t) : t[j] \in S
    OBVIOUS
  <2>2. a = [j \in 1 .. i - 1 |-> t[j]]
    BY <1>2, <1>3
  <2>3. i - 1 \in Nat /\ \A j \in 1 .. i - 1 : j \in 1 .. Len(t)
    BY <1>2
  <2> QED BY <2>1, <2>2, <2>3
<1>7. /\ b \in Seq(S) /\ Len(b) = Len(t) - i
      /\ \A j \in 1 .. Len(t) - i : b[j] = t[i + j]
  <2>1. \A j \in 1 .. Len(t) : t[j] \in S
    OBVIOUS
  <2>2. b = [j \in 1 .. Len(t) - i |-> t[i + j]]
    BY <1>2, <1>4
  <2>3. Len(t) - i \in Nat /\ \A j \in 1 .. Len(t) - i : i + j \in 1 .. Len(t)
    BY <1>2
  <2> QED BY <2>1, <2>2, <2>3
<1>8. /\ u \in Seq(S) /\ Len(u) = Len(t) - 1
      /\ \A j \in 1 .. i - 1 : u[j] = t[j]
      /\ \A j \in i .. Len(t) - 1 : u[j] = t[j + 1]
  <2>1. /\ u \in Seq(S) /\ Len(u) = Len(a) + Len(b)
        /\ \A j \in 1 .. Len(a) + Len(b) :
             u[j] = IF j <= Len(a) THEN a[j] ELSE b[j - Len(a)]
    <3>1. PICK w : w = a \o b
      OBVIOUS
    <3>2. /\ w \in Seq(S) /\ Len(w) = Len(a) + Len(b)
          /\ \A j \in 1 .. Len(a) + Len(b) :
               w[j] = IF j <= Len(a) THEN a[j] ELSE b[j - Len(a)]
      BY <1>6, <1>7, <3>1, ConcatProperties
    <3> QED BY <1>5, <3>1, <3>2, Zenon
  <2>2. Len(u) = Len(t) - 1
    BY <1>2, <1>6, <1>7, <2>1
  <2>3. ASSUME NEW j \in 1 .. i - 1 PROVE u[j] = t[j]
    <3>1. j \in 1 .. Len(a) + Len(b) /\ j <= Len(a)
      BY <1>2, <1>6, <1>7
    <3> QED BY <1>6, <2>1, <3>1
  <2>4. ASSUME NEW j \in i .. Len(t) - 1 PROVE u[j] = t[j + 1]
    <3>1. j \in 1 .. Len(a) + Len(b) /\ ~ (j <= Len(a)) /\ Len(a) = i - 1
      BY <1>2, <1>6, <1>7
    <3>2. PICK k : k = j - (i - 1)
      OBVIOUS
    <3>3. k \in 1 .. Len(t) - i /\ i + k = j + 1
      BY <1>2, <3>2
    <3> QED BY <1>7, <2>1, <3>1, <3>2, <3>3
  <2> QED BY <2>1, <2>2, <2>3, <2>4
<1>9. \A j \in 1 .. Len(u) : \E k \in 1 .. Len(t) : u[j] = t[k]
  <2> TAKE j \in 1 .. Len(u)
  <2>1. j \in 1 .. Len(t) /\ j + 1 \in 1 .. Len(t) /\ (j \in 1 .. i - 1 \/ j \in i .. Len(t) - 1)
    BY <1>2, <1>8
  <2> QED BY <1>8, <2>1
<1>10. ASSUME NEW fd, fd # g, Has(t, fd)
       PROVE  Has(u, fd) /\ Found(u, fd) = Found(t, fd)
  <2>1. PICK k : k = Get(t, fd)
    OBVIOUS
  <2>2. /\ k \in 1 .. Len(t) /\ k # i /\ t[k].fd = fd
        /\ \A j \in 1 .. k - 1 : t[j].fd # fd
    BY <1>2, <1>10, <2>1, GetFacts DEF Has
  <2>3. PICK n : n = IF k < i THEN k ELSE k - 1
    OBVIOUS
  <2>4. n \in 1 .. Len(u) /\ u[n] = t[k]
    <3>1. CASE k < i
      <4>1. k \in 1 .. i - 1 /\ k \in 1 .. Len(t) - 1
        BY <1>2, <2>2, <3>1
      <4> QED BY <1>8, <2>3, <3>1, <4>1
    <3>2. CASE ~ (k < i)
      <4>1. k - 1 \in i .. Len(t) - 1 /\ k - 1 \in 1 .. Len(t) - 1 /\ (k - 1) + 1 = k
        BY <1>2, <2>2, <3>2
      <4> QED BY <1>8, <2>3, <3>2, <4>1
    <3> QED BY <3>1, <3>2
  <2>5. \A j \in 1 .. n - 1 : u[j].fd # fd
    <3> TAKE j \in 1 .. n - 1
    <3>1. CASE j < i
      <4>1. j \in 1 .. i - 1 /\ j \in 1 .. k - 1
        BY <1>2, <2>2, <2>3, <3>1
      <4> QED BY <1>8, <2>2, <4>1
    <3>2. CASE ~ (j < i)
      <4>1. j \in i .. Len(t) - 1 /\ j + 1 \in 1 .. k - 1
        BY <1>2, <2>2, <2>3, <3>2
      <4> QED BY <1>8, <2>2, <4>1
    <3> QED BY <3>1, <3>2
  <2>6. u[n].fd = fd
    BY <2>2, <2>4
  <2>7. Has(u, fd) /\ Found(u, fd) = u[n]
    <3>1. u \in Seq(S) /\ n \in 1 .. Len(u)
      BY <1>8, <2>4
    <3> QED BY <2>5, <2>6, <3>1, GetIs
  <2> QED BY <2>1, <2>4, <2>7 DEF Found
<1> QED BY <1>8, <1>9, <1>10

\* A sequence ends with itself, and with nothing.
LEMMA SuffixFacts ==
  ASSUME NEW S, NEW s \in Seq(S)
  PROVE  IsSuffix(s, s) /\ IsSuffix(<<>>, s)
<1>1. PICK r : r = Reverse(s)
  OBVIOUS
<1>2. Reverse(<<>>) = <<>>
  BY DEF Reverse
<1>3. Len(s) \in Nat /\ r = [i \in 1 .. Len(s) |-> s[(Len(s) - i) + 1]]
  BY <1>1 DEF Reverse
<1>4. Len(r) = Len(s)
  BY <1>3
<1>5. IsPrefix(r, r)
  BY <1>3, <1>4 DEF IsPrefix
<1>6. IsPrefix(<<>>, r)
  <2>1. Len(<<>>) = 0 /\ 0 <= Len(r)
    BY <1>3, <1>4
  <2>2. SubSeq(<<>>, 1, 0) = <<>> /\ SubSeq(r, 1, 0) = <<>>
    OBVIOUS
  <2> QED BY <2>1, <2>2 DEF IsPrefix
<1> QED BY <1>1, <1>2, <1>5, <1>6 DEF IsSuffix

-----------------------------------------------------------------------------
\* The invariant.

Numbers == Connections \X (1 .. MaxMessages)

Entries == [fd : Fds, conn : Connections, set : Settings, leftover : BOOLEAN,
            inflater : Streams, deflater : Streams]

Peers == [packs : Seq(Numbers), reads : Seq(Numbers), agreed : Settings,
          spoiled : BOOLEAN, told : BOOLEAN]

Calls == [fd : Fds, m : Shapes, needs : Seq(Numbers), number : Numbers,
          excused : BOOLEAN, length : Nat, written : Nat, fresh : BOOLEAN]

\* The configuration that is found for a client.
Config(fd) == Found(table, fd)

InCall(fd) == call # NoCall /\ call.fd = fd

\* Between two messages the inflater holds what the peer's compressor does, and the
\* peer's decompressor what the deflater does.
InStep(fd) ==
  IsClient(fd) =>
    /\ Has(table, fd) /\ Config(fd).conn = owner[fd] /\ Config(fd).set = peer[fd].agreed
    /\ ~ peer[fd].told =>
         ~ Config(fd).leftover /\ Config(fd).deflater.window = peer[fd].reads
    /\ ~ peer[fd].spoiled /\ ~ InCall(fd) =>
         /\ Config(fd).inflater.window = peer[fd].packs
         /\ Config(fd).inflater.at = "block" \/ Config(fd).inflater = Unborn

\* The size of the last buffer, which was filled to the end, is the first one or a
\* doubling of it: a message of that size is an exact fit.
Doubling(m, n) ==
  /\ 2 * m.in <= n
  /\ n <= m.out =>
       \A sizes \in SUBSET (1 .. m.out) :
         (\A k \in sizes : 2 * k \in sizes \/ 2 * k > m.out) /\ 2 * m.in \in sizes
           => n \in sizes

Looped ==
  IF call.fresh THEN call.length = 0 /\ call.written = 0
  ELSE call.length = call.written /\ Doubling(call.m, call.length)

\* During a call, of a message that the inflater can read.
AtBlock == Inflater.at = "block" /\ Inflater.window = call.needs

CallInStep ==
  call # NoCall =>
    /\ Looped
    /\ ~ peer[call.fd].spoiled =>
         /\ AtBlock
         /\ IF peer[call.fd].agreed.clientNo THEN peer[call.fd].packs = <<>>
            ELSE /\ peer[call.fd].packs = Append(call.needs, call.number)
                 /\ ~ Spoils(call.m)
    /\ ~ call.excused => AtBlock /\ call.m.out > 0 /\ call.m.kind # "broken"

\* What is not initialised is a deflater, of a connection of which deflateInit2 failed.
Sound(e) == e.inflater.at # "unset" /\ (e.deflater.at = "unset" => e.conn \in failed)

UnsetHasFailed == \A i \in 1 .. Len(table) : Sound(table[i])

NothingWrong == "misread" \notin seen /\ "unread" \notin seen

Uses == {"inflate", "deflate", "end"} \X Connections

PeersType == peer \in [Fds -> Peers \cup {NoPeer}]
CallType == call = NoCall \/ call \in Calls

DInv == /\ TypeOK /\ PeersType /\ CallType
        /\ \A fd \in Fds : InStep(fd)
        /\ CallInStep /\ UnsetHasFailed /\ StreamsAreInitialised /\ NothingWrong

-----------------------------------------------------------------------------
\* What steps keep.

\* A client that uses the extension is not the absence of one, nor a call of none.
LEMMA Told ==
  /\ \A p \in Peers : p # NoPeer
  /\ \A c \in Calls : c # NoCall
<1>1. ASSUME NEW p \in Peers PROVE p # NoPeer
  <2>1. "told" \in DOMAIN p /\ "told" \notin DOMAIN NoPeer
    BY DEF Peers, NoPeer
  <2> QED BY <2>1
<1>2. ASSUME NEW c \in Calls PROVE c # NoCall
  <2>1. "m" \in DOMAIN c /\ "m" \notin DOMAIN NoCall
    BY DEF Calls, NoCall
  <2> QED BY <2>1
<1> QED BY <1>1, <1>2

\* pmd_get_from_table.
PmdGetGets == \A fd : PmdGet(fd) = Get(table, fd)

\* What pmd_get_from_table finds is the first entry in the chain.
LEMMA SameGet == PmdGetGets
BY DEF PmdGetGets, PmdGet, Get

\* The connection of a client is open, and its configuration is in the chain.
LEMMA ClientFacts ==
  ASSUME DInv, NEW fd \in Fds, IsClient(fd)
  PROVE  /\ peer[fd] \in Peers /\ owner[fd] \in Connections /\ owner[fd] # 0
         /\ table \in Seq(Entries) /\ Len(table) \in Nat
         /\ PmdGet(fd) = Get(table, fd) /\ PmdGet(fd) \in 1 .. Len(table)
         /\ Has(table, fd) /\ table[PmdGet(fd)] = Config(fd)
         /\ Config(fd) \in Entries /\ Config(fd).fd = fd
         /\ Config(fd).set = peer[fd].agreed /\ Config(fd).conn = owner[fd]
<1>1. peer[fd] \in Peers
  BY Told DEF DInv, PeersType, IsClient
<1>2. owner[fd] \in Connections /\ owner[fd] # 0
  <2>1. made \in 0 .. MaxConnections /\ owner[fd] \in 0 .. made /\ owner[fd] # 0
    BY DEF DInv, TypeOK
  <2> QED BY <2>1, DeflateAssumption DEF DeflateAssumption, Connections
<1>3. table \in Seq(Entries) /\ Len(table) \in Nat
  BY LenProperties DEF DInv, TypeOK, Entries
<1>4. PmdGet(fd) = Get(table, fd)
  BY DEF PmdGet, Get
<1>5. Has(table, fd) /\ Config(fd).set = peer[fd].agreed /\ Config(fd).conn = owner[fd]
  BY DEF DInv, InStep
<1>6. Get(table, fd) \in 1 .. Len(table) /\ table[Get(table, fd)].fd = fd
  BY <1>3, <1>5, GetFacts DEF Has
<1>7. table[Get(table, fd)] \in Entries
  BY <1>3, <1>6
<1> QED BY <1>1, <1>2, <1>3, <1>4, <1>5, <1>6, <1>7 DEF Config, Found

\* A stream of a client's configuration that is not initialised is its own, of which
\* deflateInit2 failed.
LEMMA OwnHasFailed ==
  ASSUME DInv, NEW fd \in Fds, IsClient(fd)
  PROVE  /\ Config(fd).inflater.at # "unset"
         /\ Config(fd).deflater.at = "unset" => owner[fd] \in failed
         /\ HasUnset(PmdGet(fd)) \in BOOLEAN
         /\ HasUnset(PmdGet(fd)) => owner[fd] \in failed
<1>1. /\ PmdGet(fd) \in 1 .. Len(table) /\ table[PmdGet(fd)] = Config(fd)
      /\ Config(fd).conn = owner[fd]
  BY ClientFacts
<1>2. Sound(Config(fd))
  BY <1>1 DEF DInv, UnsetHasFailed
<1> QED BY <1>1, <1>2 DEF Sound, HasUnset

\* A client stays in step when neither it nor its configuration changes.
LEMMA StaysInStep ==
  ASSUME NEW fd \in Fds, InStep(fd), peer'[fd] = peer[fd],
         IsClient(fd) => owner'[fd] = owner[fd],
         Has(table, fd) => Has(table', fd) /\ Found(table', fd) = Found(table, fd),
         InCall(fd) => InCall(fd)'
  PROVE  InStep(fd)'
<1>1. IsClient(fd)' <=> IsClient(fd)
  BY DEF IsClient
<1>2. Config(fd)' = Found(table', fd)
  BY DEF Config
<1> QED BY <1>1, <1>2 DEF InStep, Config

\* Without a call nothing is asked of one.
LEMMA NoCallInStep ==
  ASSUME call' = NoCall
  PROVE  CallType' /\ CallInStep'
BY DEF CallType, CallInStep

\* close_client: the configuration of the client goes with it.
LEMMA ClosedStep ==
  ASSUME DInv, NEW fd \in Fds, IsClient(fd), CloseSocket(fd), table' = Deleted(PmdGet(fd)),
         call' = NoCall, call # NoCall => call.fd = fd,
         UNCHANGED <<made, offers>>, messages' \in 0 .. MaxMessages,
         NEW faults \in SUBSET {"rejected"}, seen' = seen \cup faults,
         NEW unset \in BOOLEAN, Ends(fd, PmdGet(fd), unset),
         failed' \in {failed, failed \cup {owner[fd]}},
         unset => owner[fd] \in failed'
  PROVE  DInv'
<1>1. /\ table \in Seq(Entries) /\ Len(table) \in Nat /\ Has(table, fd)
      /\ PmdGet(fd) = Get(table, fd)
  BY ClientFacts
<1>2. table' = Without(table, Get(table, fd))
  BY <1>1 DEF Deleted, Without
<1>3. /\ table' \in Seq(Entries)
      /\ \A j \in 1 .. Len(table') : \E k \in 1 .. Len(table) : table'[j] = table[k]
      /\ \A g : g # fd /\ Has(table, g) =>
           Has(table', g) /\ Found(table', g) = Found(table, g)
  BY <1>1, <1>2, OthersKept
<1>4. /\ peer \in [Fds -> Peers \cup {NoPeer}] /\ owner \in [Fds -> 0 .. made]
      /\ peer' = [peer EXCEPT ![fd] = NoPeer] /\ owner' = [owner EXCEPT ![fd] = 0]
      /\ made \in 0 .. MaxConnections
  BY DEF DInv, TypeOK, PeersType, CloseSocket
<1>5. PeersType' /\ owner' \in [Fds -> 0 .. made] /\ ~ IsClient(fd)'
  <2>1. 0 \in 0 .. made
    BY <1>4
  <2> QED BY <1>4, <2>1 DEF PeersType, IsClient
<1>6. \A g \in Fds : g # fd => peer'[g] = peer[g] /\ owner'[g] = owner[g]
  BY <1>4
<1>7. TypeOK'
  <2>1. \A g \in Fds : IsClient(g)' => owner'[g] # 0 /\ peer'[g].agreed \in Settings
    BY <1>5, <1>6 DEF DInv, TypeOK, IsClient
  <2>2. seen' \subseteq {"misread", "rejected", "unread"}
    BY DEF DInv, TypeOK
  <2>3. made' \in 0 .. MaxConnections /\ offers' \in 0 .. MaxOffers
    BY DEF DInv, TypeOK
  <2>4. DOMAIN peer' = Fds
    BY <1>5 DEF PeersType
  <2>5. failed' \subseteq Connections /\ misused' \subseteq Uses
    <3>1. owner[fd] \in Connections /\ <<"end", owner[fd]>> \in Uses
      BY ClientFacts DEF Uses
    <3> QED BY <3>1 DEF DInv, TypeOK, Ends, Misuses, Uses
  <2> QED BY <1>3, <1>5, <2>1, <2>2, <2>3, <2>4, <2>5 DEF TypeOK, Entries, Uses
<1>8. \A g \in Fds : InStep(g)'
  <2> TAKE g \in Fds
  <2>1. CASE g = fd
    BY <1>5, <2>1 DEF InStep
  <2>2. CASE g # fd
    <3>1. InStep(g) /\ ~ InCall(g)
      BY <2>2 DEF DInv, InCall
    <3> QED BY <1>3, <1>6, <2>2, <3>1, StaysInStep
  <2> QED BY <2>1, <2>2
<1>9. UnsetHasFailed'
  <2> SUFFICES ASSUME NEW j \in 1 .. Len(table') PROVE Sound(table[j])'
    BY DEF UnsetHasFailed
  <2>1. PICK k \in 1 .. Len(table) : table'[j] = table[k]
    BY <1>3
  <2> QED BY <2>1 DEF DInv, UnsetHasFailed, Sound
<1>10. StreamsAreInitialised' /\ NothingWrong'
  <2>1. \A m \in misused' : m \in misused \/ (m = <<"end", owner[fd]>> /\ owner[fd] \in failed')
    BY DEF Ends, Misuses
  <2>2. failed \subseteq failed'
    OBVIOUS
  <2>3. \A m \in misused : m[1] # "inflate" /\ m[2] \in failed
    BY DEF DInv, StreamsAreInitialised
  <2> QED BY <2>1, <2>2, <2>3 DEF DInv, StreamsAreInitialised, NothingWrong
<1> QED BY <1>5, <1>7, <1>8, <1>9, <1>10, NoCallInStep DEF DInv

-----------------------------------------------------------------------------
\* Connections come and go.

\* accept: the descriptor was free, so that it is nobody's yet.
LEMMA ConnectStep == ASSUME DInv, NEW fd \in Fds, Connect(fd) PROVE DInv'
<1>1. /\ owner[fd] = 0 /\ made < MaxConnections /\ made' = made + 1
      /\ owner' = [owner EXCEPT ![fd] = made + 1]
      /\ call = NoCall /\ UNCHANGED <<offers, messages, peer, table, call, seen, failed, misused>>
  BY DEF Connect, Idle
<1>2. /\ owner \in [Fds -> 0 .. made] /\ made \in 0 .. MaxConnections /\ MaxConnections \in Nat
      /\ ~ IsClient(fd)
  BY <1>1, DeflateAssumption DEF DInv, TypeOK, DeflateAssumption
<1>3. owner' \in [Fds -> 0 .. made'] /\ made' \in 0 .. MaxConnections
  <2>1. \A n \in 0 .. made : n \in 0 .. made'
    BY <1>1, <1>2
  <2>2. made + 1 \in 0 .. made'
    BY <1>1, <1>2
  <2> QED BY <1>1, <1>2, <2>1, <2>2
<1>4. \A g \in Fds : IsClient(g) => owner'[g] = owner[g]
  BY <1>1, <1>2
<1>5. \A g \in Fds : IsClient(g)' <=> IsClient(g)
  BY <1>1 DEF IsClient
<1>6. TypeOK'
  <2>1. \A g \in Fds : IsClient(g)' => owner'[g] # 0 /\ peer'[g].agreed \in Settings
    BY <1>1, <1>4, <1>5 DEF DInv, TypeOK
  <2> QED BY <1>1, <1>3, <2>1 DEF DInv, TypeOK
<1>7. \A g \in Fds : InStep(g)'
  BY <1>1, <1>4, <1>5 DEF DInv, InStep, Config, InCall
<1>8. UnsetHasFailed' /\ StreamsAreInitialised' /\ NothingWrong' /\ PeersType'
  BY <1>1 DEF DInv, UnsetHasFailed, Sound, StreamsAreInitialised, NothingWrong, PeersType
<1> QED BY <1>1, <1>6, <1>7, <1>8, NoCallInStep DEF DInv

\* handle_upgrade: the configuration of the accepted offer is the newest of the
\* descriptor; without a client it hides none that is in use.
LEMMA HandleUpgradeStep == ASSUME DInv, NEW fd \in Fds, HandleUpgrade(fd) PROVE DInv'
<1>1. PICK s \in Settings :
        /\ table' = AddedToTable([fd |-> fd, conn |-> owner[fd], set |-> s, leftover |-> FALSE,
                                  inflater |-> Unborn, deflater |-> Unborn])
        /\ \/ peer' = [peer EXCEPT ![fd] = Joined(s)] /\ UNCHANGED owner
           \/ UNCHANGED <<peer, owner>>
           \/ owner' = [owner EXCEPT ![fd] = 0] /\ UNCHANGED peer
  BY DEF HandleUpgrade
<1>2. /\ call = NoCall /\ owner[fd] # 0 /\ ~ IsClient(fd)
      /\ offers < MaxOffers /\ offers' = offers + 1
      /\ UNCHANGED <<made, messages, call, seen, failed, misused>>
  BY DEF HandleUpgrade, Idle
<1>3. /\ owner \in [Fds -> 0 .. made] /\ made \in 0 .. MaxConnections /\ MaxConnections \in Nat
      /\ offers' \in 0 .. MaxOffers /\ peer \in [Fds -> Peers \cup {NoPeer}]
      /\ table \in Seq(Entries)
  BY <1>2, DeflateAssumption DEF DInv, TypeOK, DeflateAssumption, PeersType, Entries
<1>4. PICK e : e = [fd |-> fd, conn |-> owner[fd], set |-> s, leftover |-> FALSE,
                    inflater |-> Unborn, deflater |-> Unborn]
  OBVIOUS
<1>5. /\ e \in Entries /\ e.fd = fd /\ e.conn = owner[fd] /\ e.set = s /\ ~ e.leftover
      /\ e.inflater = Unborn /\ e.deflater = Unborn
  <2>1. Unborn \in Streams /\ owner[fd] \in Connections
    BY <1>2, <1>3 DEF Unborn, Streams, Connections
  <2> QED BY <1>4, <2>1 DEF Entries
<1>6. /\ table' \in Seq(Entries) /\ Has(table', fd) /\ Found(table', fd) = e
      /\ \A g : g # fd /\ Has(table, g) => Has(table', g) /\ Found(table', g) = Found(table, g)
  <2>1. table' = <<e>> \o table
    BY <1>1, <1>4 DEF AddedToTable
  <2>2. PICK t : t = <<e>> \o table
    OBVIOUS
  <2>3. /\ t \in Seq(Entries) /\ Has(t, fd) /\ Found(t, fd) = e
        /\ \A g : g # fd /\ Has(table, g) => Has(t, g) /\ Found(t, g) = Found(table, g)
    BY <1>3, <1>5, <2>2, AddedFirst
  <2> QED BY <2>1, <2>2, <2>3
<1>7. Joined(s) \in Peers
  BY DEF Joined, Peers
<1>8. /\ owner' \in [Fds -> 0 .. made] /\ peer' \in [Fds -> Peers \cup {NoPeer}]
      /\ \A g \in Fds : g # fd => peer'[g] = peer[g] /\ owner'[g] = owner[g]
      /\ \/ peer'[fd] = Joined(s) /\ owner'[fd] = owner[fd]
         \/ peer'[fd] = NoPeer
  <2>1. 0 \in 0 .. made /\ peer[fd] = NoPeer
    BY <1>2, <1>3 DEF IsClient
  <2> QED BY <1>1, <1>3, <1>7, <2>1
<1>9. \A g \in Fds : InStep(g)'
  <2> TAKE g \in Fds
  <2>1. CASE g # fd
    <3>1. InStep(g) /\ ~ InCall(g)
      BY <1>2 DEF DInv, InCall
    <3> QED BY <1>6, <1>8, <2>1, <3>1, StaysInStep
  <2>2. CASE g = fd /\ peer'[fd] = NoPeer
    BY <2>2 DEF InStep, IsClient
  <2>3. CASE g = fd /\ peer'[fd] = Joined(s) /\ owner'[fd] = owner[fd]
    <3>1. /\ peer'[fd].agreed = s /\ peer'[fd].reads = <<>> /\ peer'[fd].packs = <<>>
      BY <2>3 DEF Joined
    <3>2. e.inflater.window = <<>> /\ e.deflater.window = <<>>
      BY <1>5 DEF Unborn
    <3>3. Config(fd)' = e
      BY <1>6 DEF Config
    <3> QED BY <1>5, <1>6, <2>3, <3>1, <3>2, <3>3 DEF InStep
  <2> QED BY <1>8, <2>1, <2>2, <2>3
<1>10. TypeOK'
  <2>1. \A g \in Fds : IsClient(g)' => owner'[g] # 0 /\ peer'[g].agreed \in Settings
    <3> TAKE g \in Fds
    <3>1. CASE g # fd
      BY <1>8, <3>1 DEF DInv, TypeOK, IsClient
    <3>2. CASE g = fd
      BY <1>2, <1>8, <3>2 DEF Joined, IsClient
    <3> QED BY <3>1, <3>2
  <2>2. /\ messages' \in 0 .. MaxMessages /\ seen' \subseteq {"misread", "rejected", "unread"}
        /\ failed' \subseteq Connections
        /\ misused' \subseteq {"inflate", "deflate", "end"} \X Connections
    BY <1>2 DEF DInv, TypeOK
  <2> QED BY <1>2, <1>3, <1>6, <1>8, <2>1, <2>2 DEF TypeOK, Entries
<1>11. UnsetHasFailed'
  <2> SUFFICES ASSUME NEW j \in 1 .. Len(table') PROVE Sound(table[j])'
    BY DEF UnsetHasFailed
  <2>1. table'[j] = e \/ \E k \in 1 .. Len(table) : table'[j] = table[k]
    <3>1. table' = <<e>> \o table
      BY <1>1, <1>4 DEF AddedToTable
    <3>2. PICK t : t = <<e>> \o table
      OBVIOUS
    <3>3. /\ Len(t) = 1 + Len(table) /\ Len(table) \in Nat /\ t[1] = e
          /\ \A k \in 1 .. Len(table) : t[1 + k] = table[k]
      BY <1>3, <3>2
    <3>4. j \in 1 .. 1 + Len(table)
      BY <3>1, <3>2, <3>3
    <3>5. j = 1 \/ \E k \in 1 .. Len(table) : j = 1 + k
      <4>1. j = 1 \/ (j - 1 \in 1 .. Len(table) /\ j = 1 + (j - 1))
        BY <3>3, <3>4
      <4> QED BY <4>1
    <3> QED BY <3>1, <3>2, <3>3, <3>5
  <2>2. e.inflater.at = "none" /\ e.deflater.at = "none"
    BY <1>5 DEF Unborn
  <2> QED BY <1>2, <2>1, <2>2 DEF DInv, UnsetHasFailed, Sound
<1>12. StreamsAreInitialised' /\ NothingWrong' /\ PeersType'
  BY <1>2, <1>8 DEF DInv, StreamsAreInitialised, NothingWrong, PeersType
<1> QED BY <1>2, <1>9, <1>10, <1>11, <1>12, NoCallInStep DEF DInv

\* A connection that does not use the extension has nothing in step.
LEMMA CloseConnectionStep == ASSUME DInv, NEW fd \in Fds, CloseConnection(fd) PROVE DInv'
<1>1. /\ call = NoCall /\ CloseSocket(fd) /\ UNCHANGED <<made, offers, messages, call, seen, failed>>
      /\ IF IsClient(fd) THEN CloseClient(fd) ELSE UNCHANGED <<table, misused>>
  BY DEF CloseConnection, CloseClient, Idle
<1>2. CASE IsClient(fd)
  <2>1. table' = Deleted(PmdGet(fd)) /\ Ends(fd, PmdGet(fd), HasUnset(PmdGet(fd)))
    BY <1>1, <1>2 DEF CloseClient
  <2>2. HasUnset(PmdGet(fd)) \in BOOLEAN /\ (HasUnset(PmdGet(fd)) => owner[fd] \in failed)
    BY <1>2, OwnHasFailed
  <2>3. {} \in SUBSET {"rejected"} /\ seen' = seen \cup {}
    BY <1>1
  <2>4. messages' \in 0 .. MaxMessages
    BY <1>1 DEF DInv, TypeOK
  <2> QED BY <1>1, <1>2, <2>1, <2>2, <2>3, <2>4, ClosedStep
<1>3. CASE ~ IsClient(fd)
  <2>1. /\ peer \in [Fds -> Peers \cup {NoPeer}] /\ owner \in [Fds -> 0 .. made]
        /\ peer[fd] = NoPeer /\ made \in 0 .. MaxConnections
    BY <1>3 DEF DInv, TypeOK, PeersType, IsClient
  <2>2. UNCHANGED peer
    BY <1>1, <2>1 DEF CloseSocket
  <2>3. /\ owner' \in [Fds -> 0 .. made]
        /\ \A g \in Fds : IsClient(g) => owner'[g] = owner[g]
    BY <1>1, <1>3, <2>1 DEF CloseSocket
  <2>4. TypeOK'
    BY <1>1, <1>3, <2>2, <2>3 DEF DInv, TypeOK, IsClient
  <2>5. \A g \in Fds : InStep(g)'
    BY <1>1, <1>3, <2>2, <2>3 DEF DInv, InStep, IsClient, Config, InCall
  <2>6. UnsetHasFailed' /\ StreamsAreInitialised' /\ NothingWrong' /\ PeersType'
    BY <1>1, <1>3, <2>2 DEF DInv, UnsetHasFailed, Sound, StreamsAreInitialised, NothingWrong,
       PeersType
  <2> QED BY <1>1, <2>4, <2>5, <2>6, NoCallInStep DEF DInv
<1> QED BY <1>2, <1>3

-----------------------------------------------------------------------------
\* Messages.

\* A new value of a client's configuration is what is found for the client.
LEMMA ConfigChanges ==
  ASSUME DInv, NEW fd \in Fds, IsClient(fd), NEW e \in Entries, e.fd = fd,
         table' = [table EXCEPT ![PmdGet(fd)] = e]
  PROVE  /\ table' \in Seq(Entries) /\ Has(table', fd) /\ Config(fd)' = e
         /\ table'[PmdGet(fd)'] = e
         /\ \A g : Has(table, g) /\ g # fd =>
              Has(table', g) /\ Found(table', g) = Found(table, g)
         /\ \A j \in 1 .. Len(table') :
              table'[j] = e \/ (j \in 1 .. Len(table) /\ table'[j] = table[j])
<1>1. /\ table \in Seq(Entries) /\ Has(table, fd) /\ PmdGet(fd) = Get(table, fd)
      /\ PmdGet(fd) \in 1 .. Len(table)
  BY ClientFacts
<1>2. PICK t : t = Replaced(table, Get(table, fd), e)
  OBVIOUS
<1>3. /\ t \in Seq(Entries)
      /\ \A g : /\ Has(t, g) <=> Has(table, g)
                /\ Has(table, g) => Found(t, g) = IF g = fd THEN e ELSE Found(table, g)
  BY <1>1, <1>2, ChangedInPlace
<1>4. table' = t
  BY <1>1, <1>2 DEF Replaced
<1>5. Config(fd)' = Found(table', fd) /\ table'[PmdGet(fd)'] = Found(table', fd)
  <2>1. Config(fd)' = Found(table', fd)
    BY DEF Config
  <2>2. PmdGet(fd)' = Get(table', fd)
    <3>1. PmdGetGets'
      BY SameGet, PTL
    <3> QED BY <3>1 DEF PmdGetGets
  <2> QED BY <2>1, <2>2 DEF Found
<1>6. ASSUME NEW j \in 1 .. Len(table')
      PROVE  table'[j] = e \/ (j \in 1 .. Len(table) /\ table'[j] = table[j])
  <2>1. PICK i : i = PmdGet(fd)
    OBVIOUS
  <2>2. table' = [table EXCEPT ![i] = e] /\ i \in 1 .. Len(table)
    BY <1>1, <2>1
  <2>3. DOMAIN table = 1 .. Len(table) /\ DOMAIN table' = 1 .. Len(table')
    BY <1>1, <1>3, <1>4, LenProperties
  <2>4. j \in 1 .. Len(table)
    BY <2>2, <2>3
  <2> QED BY <2>2, <2>3, <2>4
<1> QED BY <1>1, <1>3, <1>4, <1>5, <1>6

\* A step of a client that stays, which leaves the others alone.
LEMMA MessageStep ==
  ASSUME DInv, NEW fd \in Fds, IsClient(fd), call # NoCall => call.fd = fd,
         NEW e \in Entries, e.fd = fd, e.set = Config(fd).set, e.conn = Config(fd).conn,
         table' = [table EXCEPT ![PmdGet(fd)] = e],
         NEW p \in Peers, p.agreed = peer[fd].agreed, peer' = [peer EXCEPT ![fd] = p],
         UNCHANGED <<made, offers, owner>>, messages' \in 0 .. MaxMessages,
         seen' \subseteq {"misread", "rejected", "unread"}, NothingWrong',
         failed' \in {failed, failed \cup {owner[fd]}}, misused' = misused,
         e.inflater.at # "unset", e.deflater.at = "unset" => owner[fd] \in failed',
         InStep(fd)', CallType', CallInStep',
         call' # NoCall => call'.fd = fd /\ call'.written <= call'.m.out
  PROVE  DInv'
<1>1. /\ table' \in Seq(Entries) /\ Has(table', fd) /\ Config(fd)' = e
      /\ \A g : Has(table, g) /\ g # fd =>
           Has(table', g) /\ Found(table', g) = Found(table, g)
      /\ \A j \in 1 .. Len(table') :
           table'[j] = e \/ (j \in 1 .. Len(table) /\ table'[j] = table[j])
  BY ConfigChanges
<1>2. /\ peer' \in [Fds -> Peers \cup {NoPeer}] /\ peer'[fd] = p /\ p # NoPeer
      /\ \A g \in Fds : g # fd => peer'[g] = peer[g]
  BY Told DEF DInv, PeersType
<1>3. \A g \in Fds : InStep(g)'
  <2> TAKE g \in Fds
  <2>1. CASE g # fd
    <3>1. InStep(g) /\ ~ InCall(g)
      BY <2>1 DEF DInv, InCall
    <3> QED BY <1>1, <1>2, <2>1, <3>1, StaysInStep
  <2> QED BY <2>1
<1>4. TypeOK'
  <2>1. \A g \in Fds : IsClient(g)' <=> IsClient(g)
    BY <1>2 DEF IsClient
  <2>2. \A g \in Fds : IsClient(g)' => owner'[g] # 0 /\ peer'[g].agreed \in Settings
    BY <1>2, <2>1 DEF DInv, TypeOK
  <2>3. /\ made' \in 0 .. MaxConnections /\ offers' \in 0 .. MaxOffers
        /\ owner' \in [Fds -> 0 .. made']
    BY DEF DInv, TypeOK
  <2>4. (call # NoCall => call.fd \in Fds /\ IsClient(call.fd) /\ call.written <= call.m.out)'
    BY <1>2 DEF IsClient
  <2>5. DOMAIN peer' = Fds
    BY <1>2
  <2>6. /\ failed' \subseteq Connections
        /\ misused' \subseteq {"inflate", "deflate", "end"} \X Connections
    BY ClientFacts DEF DInv, TypeOK
  <2> QED BY <1>1, <2>2, <2>3, <2>4, <2>5, <2>6 DEF TypeOK, Entries
<1>5. UnsetHasFailed'
  <2> SUFFICES ASSUME NEW j \in 1 .. Len(table') PROVE Sound(table[j])'
    BY DEF UnsetHasFailed
  <2>1. CASE table'[j] = e
    <3>1. e.conn = owner[fd]
      BY ClientFacts
    <3> QED BY <2>1, <3>1 DEF Sound
  <2>2. CASE j \in 1 .. Len(table) /\ table'[j] = table[j]
    BY <2>2 DEF DInv, UnsetHasFailed, Sound
  <2> QED BY <1>1, <2>1, <2>2
<1>6. StreamsAreInitialised'
  BY DEF DInv, StreamsAreInitialised
<1> QED BY <1>2, <1>3, <1>4, <1>5, <1>6 DEF DInv, PeersType

InflaterOfCall == Inflater = Config(call.fd).inflater

\* The inflater of the call under way is that of its client.
LEMMA SameInflater == InflaterOfCall
BY SameGet DEF PmdGetGets, InflaterOfCall, Inflater, Config, Found

\* Another stream in a configuration.
LEMMA EntryFacts ==
  ASSUME NEW c \in Entries, NEW s \in Streams
  PROVE  /\ [c EXCEPT !.inflater = s] \in Entries
         /\ [c EXCEPT !.inflater = s].fd = c.fd /\ [c EXCEPT !.inflater = s].set = c.set
         /\ [c EXCEPT !.inflater = s].conn = c.conn
         /\ [c EXCEPT !.inflater = s].leftover = c.leftover
         /\ [c EXCEPT !.inflater = s].deflater = c.deflater
         /\ [c EXCEPT !.inflater = s].inflater = s
         /\ [c EXCEPT !.deflater = s] \in Entries
         /\ [c EXCEPT !.deflater = s].fd = c.fd /\ [c EXCEPT !.deflater = s].set = c.set
         /\ [c EXCEPT !.deflater = s].conn = c.conn
         /\ [c EXCEPT !.deflater = s].leftover = c.leftover
         /\ [c EXCEPT !.deflater = s].inflater = c.inflater
         /\ [c EXCEPT !.deflater = s].deflater = s
BY DEF Entries

\* The number of a message is of the connection.
LEMMA NumberType ==
  ASSUME DInv, NEW fd \in Fds, IsClient(fd), messages < MaxMessages
  PROVE  Number(fd) \in Numbers
<1>1. owner[fd] \in Connections
  BY ClientFacts
<1>2. messages \in 0 .. MaxMessages /\ MaxMessages \in Nat
  BY DeflateAssumption DEF DInv, TypeOK, DeflateAssumption
<1>3. messages + 1 \in 1 .. MaxMessages
  BY <1>2
<1> QED BY <1>1, <1>3 DEF Number, Numbers

\* The peer's compressor holds the message, or starts the next one afresh.
LEMMA PeerSendsFacts ==
  ASSUME DInv, NEW fd \in Fds, IsClient(fd), messages < MaxMessages,
         NEW m \in Shapes, PeerSends(fd, m)
  PROVE  \E p \in Peers :
           /\ peer' = [peer EXCEPT ![fd] = p]
           /\ p.agreed = peer[fd].agreed /\ p.reads = peer[fd].reads
           /\ p.told = peer[fd].told
           /\ p.packs = IF peer[fd].agreed.clientNo THEN <<>>
                        ELSE Append(peer[fd].packs, Number(fd))
           /\ p.spoiled <=> peer[fd].spoiled \/ (~ peer[fd].agreed.clientNo /\ Spoils(m))
<1>1. peer[fd] \in Peers /\ Number(fd) \in Numbers
  BY ClientFacts, NumberType
<1>2. DOMAIN peer = Fds
  BY DEF DInv, PeersType
<1> DEFINE kept == ~ peer[fd].agreed.clientNo
           packs == IF kept THEN Append(peer[fd].packs, Number(fd)) ELSE <<>>
           spoiled == peer[fd].spoiled \/ (kept /\ Spoils(m))
           p == [[peer[fd] EXCEPT !.packs = packs] EXCEPT !.spoiled = spoiled]
<1>3. peer' = [peer EXCEPT ![fd] = p]
  BY <1>1, <1>2 DEF PeerSends, Peers
<1>4. packs \in Seq(Numbers) /\ spoiled \in BOOLEAN
  BY <1>1 DEF Peers
<1>5. p \in Peers /\ p.agreed = peer[fd].agreed /\ p.reads = peer[fd].reads
      /\ p.told = peer[fd].told /\ p.packs = packs /\ (p.spoiled <=> spoiled)
  <2> HIDE DEF packs, spoiled
  <2> QED BY <1>1, <1>4 DEF Peers
<1> QED BY <1>3, <1>5

\* pmd_process_data: the inflater is there, or it is initialised.
LEMMA ProcessDataStep == ASSUME DInv, NEW fd \in Fds, ProcessData(fd) PROVE DInv'
<1>1. PICK m \in Shapes :
        /\ PeerSends(fd, m)
        /\ table' = [table EXCEPT ![PmdGet(fd)].inflater = IF @ = Unborn THEN Fresh ELSE @]
        /\ call' = [fd |-> fd, m |-> m, needs |-> peer[fd].packs, number |-> Number(fd),
                    excused |-> peer[fd].spoiled \/ m.kind = "broken" \/ m.out = 0,
                    length |-> 0, written |-> 0, fresh |-> TRUE]
  BY DEF ProcessData
<1>2. /\ call = NoCall /\ IsClient(fd) /\ messages < MaxMessages /\ messages' = messages + 1
      /\ UNCHANGED <<made, offers, owner, seen, failed>>
  BY DEF ProcessData, MayTransfer, Idle
<1>3. /\ table \in Seq(Entries) /\ PmdGet(fd) \in 1 .. Len(table)
      /\ table[PmdGet(fd)] = Config(fd) /\ Config(fd) \in Entries /\ Config(fd).fd = fd
      /\ Config(fd).set = peer[fd].agreed /\ peer[fd] \in Peers
  BY <1>2, ClientFacts
<1>4. PICK s : s = IF Config(fd).inflater = Unborn THEN Fresh ELSE Config(fd).inflater
  OBVIOUS
<1>5. s \in Streams
  <2>1. Fresh \in Streams
    BY DEF Fresh, Streams
  <2> QED BY <1>3, <1>4, <2>1 DEF Entries
<1>6. PICK e : e = [Config(fd) EXCEPT !.inflater = s]
  OBVIOUS
<1>7. /\ e \in Entries /\ e.fd = fd /\ e.set = Config(fd).set /\ e.conn = Config(fd).conn
      /\ e.leftover = Config(fd).leftover /\ e.deflater = Config(fd).deflater
      /\ e.inflater = s
  BY <1>3, <1>5, <1>6, EntryFacts
<1>8. table' = [table EXCEPT ![PmdGet(fd)] = e]
  BY <1>1, <1>3, <1>4, <1>6
<1>9. PICK p \in Peers :
        /\ peer' = [peer EXCEPT ![fd] = p]
        /\ p.agreed = peer[fd].agreed /\ p.reads = peer[fd].reads /\ p.told = peer[fd].told
        /\ p.packs = IF peer[fd].agreed.clientNo THEN <<>>
                     ELSE Append(peer[fd].packs, Number(fd))
        /\ p.spoiled <=> peer[fd].spoiled \/ (~ peer[fd].agreed.clientNo /\ Spoils(m))
  BY <1>1, <1>2, PeerSendsFacts
<1>10. PICK c \in Calls :
         /\ call' = c /\ c.fd = fd /\ c.m = m /\ c.needs = peer[fd].packs
         /\ c.number = Number(fd) /\ c.length = 0 /\ c.written = 0 /\ c.fresh
         /\ c.excused <=> peer[fd].spoiled \/ m.kind = "broken" \/ m.out = 0
  <2>1. Number(fd) \in Numbers
    BY <1>2, NumberType
  <2>2. call' \in Calls
    BY <1>1, <1>3, <2>1 DEF Calls, Peers
  <2> QED BY <1>1, <2>2
<1>11. Has(table', fd) /\ Config(fd)' = e /\ peer'[fd] = p
  <2>1. Has(table', fd) /\ Config(fd)' = e
    BY <1>2, <1>7, <1>8, ConfigChanges
  <2> QED BY <1>9, <2>1 DEF DInv, PeersType
<1>12. InStep(fd)'
  <2>1. InCall(fd)'
    BY <1>10, Told DEF InCall
  <2>2. InStep(fd)
    BY DEF DInv
  <2> QED BY <1>2, <1>3, <1>7, <1>9, <1>11, <2>1, <2>2 DEF InStep
<1>13. ~ peer[fd].spoiled => s.at = "block" /\ s.window = peer[fd].packs
  <2>1. ~ InCall(fd) /\ InStep(fd)
    BY <1>2 DEF DInv, InCall
  <2> QED BY <1>2, <1>4, <2>1 DEF InStep, Unborn, Fresh
<1>14. CallInStep'
  <2>1. Inflater' = s
    <3>1. InflaterOfCall'
      BY SameInflater, PTL
    <3> QED BY <1>7, <1>10, <1>11, <3>1 DEF InflaterOfCall
  <2>2. ~ peer[fd].spoiled => AtBlock'
    BY <1>10, <1>13, <2>1 DEF AtBlock
  <2>3. m.out \in Nat
    BY DeflateAssumption DEF DeflateAssumption
  <2>4. Looped'
    BY <1>10 DEF Looped
  <2>5. ~ p.spoiled =>
          /\ AtBlock'
          /\ IF p.agreed.clientNo THEN p.packs = <<>>
             ELSE p.packs = Append(c.needs, c.number) /\ ~ Spoils(m)
    BY <1>9, <1>10, <2>2
  <2>6. ~ c.excused => AtBlock' /\ m.out > 0 /\ m.kind # "broken"
    BY <1>10, <2>2, <2>3
  <2>7. call'.fd = fd /\ call'.m = m /\ call'.needs = c.needs /\ call'.number = c.number
        /\ (call'.excused <=> c.excused)
    BY <1>10
  <2> QED BY <1>11, <2>4, <2>5, <2>6, <2>7 DEF CallInStep, Spoils, ExactFit
<1>15. /\ e.inflater.at # "unset" /\ (e.deflater.at = "unset" => owner[fd] \in failed')
       /\ misused' = misused
  <2>1. /\ Config(fd).inflater.at # "unset"
        /\ Config(fd).deflater.at = "unset" => owner[fd] \in failed
    BY <1>2, OwnHasFailed
  <2>2. table[PmdGet(fd)].inflater # Unset
    BY <1>3, <2>1 DEF Unset
  <2>3. Misuses("inflate", fd, table[PmdGet(fd)].inflater = Unset)
    BY DEF ProcessData
  <2>4. misused' = misused
    BY <2>2, <2>3 DEF Misuses
  <2> QED BY <1>2, <1>4, <1>7, <2>1, <2>4 DEF Fresh
<1>16. messages' \in 0 .. MaxMessages
  BY <1>2, DeflateAssumption DEF DInv, TypeOK, DeflateAssumption
<1>17. seen' \subseteq {"misread", "rejected", "unread"} /\ NothingWrong'
  BY <1>2 DEF DInv, TypeOK, NothingWrong
<1>18. CallType' /\ (call' # NoCall => call'.fd = fd /\ call'.written <= call'.m.out)
  <2>1. m.out \in Nat
    BY DeflateAssumption DEF DeflateAssumption
  <2> QED BY <1>10, <2>1 DEF CallType
<1> QED BY <1>2, <1>7, <1>8, <1>9, <1>12, <1>14, <1>15, <1>16, <1>17, <1>18, MessageStep

\* inflateInit2 fails: the client is closed.
LEMMA InflateInitFailsStep == ASSUME DInv, NEW fd \in Fds, InflateInitFails(fd) PROVE DInv'
<1>1. /\ call = NoCall /\ IsClient(fd) /\ messages < MaxMessages /\ messages' = messages + 1
      /\ CloseSocket(fd) /\ table' = Deleted(PmdGet(fd))
      /\ failed' = failed \cup {owner[fd]} /\ Ends(fd, PmdGet(fd), TRUE)
      /\ UNCHANGED <<made, offers, call, seen>>
  BY DEF InflateInitFails, MayTransfer, Idle
<1>2. {} \in SUBSET {"rejected"} /\ seen' = seen \cup {} /\ TRUE \in BOOLEAN
  BY <1>1
<1>3. messages' \in 0 .. MaxMessages
  BY <1>1, DeflateAssumption DEF DInv, TypeOK, DeflateAssumption
<1> QED BY <1>1, <1>2, <1>3, ClosedStep

\* The sizes of the loop that enlarges the buffer.
LEMMA LoopFacts ==
  ASSUME DInv, call # NoCall
  PROVE  /\ call \in Calls /\ call.fd \in Fds /\ IsClient(call.fd) /\ call.m \in Shapes
         /\ call.m.in \in Nat \ {0} /\ call.m.out \in Nat
         /\ call.length \in Nat /\ call.written \in Nat /\ call.written <= call.m.out
         /\ Grown \in Nat \ {0} /\ 2 * call.m.in <= Grown /\ call.written <= Grown
         /\ Produced \in Nat /\ Produced <= Grown /\ Produced <= call.m.out
         /\ Inflater.at # "end" =>
              Produced = IF call.m.out < Grown THEN call.m.out ELSE Grown
         /\ Looped
         /\ Spare = 0 => Produced = Grown /\ ~ FeedsTrailer
<1>1. /\ call \in Calls /\ call.fd \in Fds /\ IsClient(call.fd) /\ call.written <= call.m.out
      /\ Looped
  BY DEF DInv, TypeOK, CallType, CallInStep
<1>2. PICK in \in Nat \ {0}, out \in Nat, length \in Nat, written \in Nat :
        /\ in = call.m.in /\ out = call.m.out /\ length = call.length /\ written = call.written
  BY <1>1, DeflateAssumption DEF Calls, DeflateAssumption
<1>3. call.m \in Shapes
  BY <1>1 DEF Calls
<1>4. Grown = IF length = 0 THEN 2 * in ELSE 2 * length
  BY <1>2 DEF Grown
<1>5. (length = 0 /\ written = 0) \/ (length = written /\ 2 * in <= length)
  BY <1>1, <1>2 DEF Looped, Doubling
<1>6. PICK g \in Nat \ {0} : g = Grown /\ 2 * in <= g /\ written <= g
  BY <1>4, <1>5
<1>7. PICK n \in Nat : /\ n = Produced /\ n <= g /\ n <= out
                       /\ Inflater.at # "end" => n = IF out < g THEN out ELSE g
  <2>1. CASE Inflater.at = "end"
    <3>1. Produced = written
      BY <1>2, <2>1 DEF Produced
    <3>2. written <= g /\ written <= out
      BY <1>1, <1>2, <1>6
    <3> QED BY <2>1, <3>1, <3>2
  <2>2. CASE Inflater.at # "end"
    <3>1. Produced = IF out < g THEN out ELSE g
      BY <1>2, <1>6, <2>2 DEF Produced
    <3>2. IF out < g THEN out <= g /\ out <= out ELSE g <= g /\ g <= out
      OBVIOUS
    <3> QED BY <2>2, <3>1, <3>2
  <2> QED BY <2>1, <2>2
<1>8. ASSUME Spare = 0 PROVE n = g /\ ~ FeedsTrailer
  <2>1. TrailerRoom \in Nat \ {0}
    BY DeflateAssumption DEF DeflateAssumption
  <2>2. Spare = IF FeedsTrailer /\ g - n < TrailerRoom THEN (g - n) + TrailerRoom ELSE g - n
    BY <1>6, <1>7 DEF Spare
  <2>3. g - n \in Nat
    BY <1>7
  <2> QED BY <1>7, <1>8, <2>1, <2>2, <2>3
<1> QED BY <1>1, <1>2, <1>3, <1>6, <1>7, <1>8

\* The buffer was filled: the next one has twice its size.
LEMMA InflateAgainStep == ASSUME DInv, InflateAgain PROVE DInv'
<1>1. /\ call # NoCall /\ Spare = 0
      /\ call' = [call EXCEPT !.length = Grown, !.written = Produced, !.fresh = FALSE]
      /\ UNCHANGED <<made, offers, messages, owner, peer, table, seen, failed, misused>>
  BY DEF InflateAgain
<1>2. /\ call \in Calls /\ Grown \in Nat /\ Produced \in Nat /\ Looped
      /\ Produced = Grown /\ 2 * call.m.in <= Grown /\ Produced <= call.m.out
      /\ call.length \in Nat /\ call.m.in \in Nat /\ call.m.out \in Nat
  BY <1>1, LoopFacts
<1>3. /\ call' \in Calls /\ call'.fd = call.fd /\ call'.m = call.m
      /\ call'.needs = call.needs /\ call'.number = call.number
      /\ call'.excused = call.excused
      /\ call'.length = Grown /\ call'.written = Produced /\ ~ call'.fresh
  BY <1>1, <1>2 DEF Calls
<1>4. call' # NoCall
  BY <1>3, Told
<1>5. Doubling(call.m, Grown)
  <2> SUFFICES ASSUME Grown <= call.m.out, NEW sizes \in SUBSET (1 .. call.m.out),
                      \A k \in sizes : 2 * k \in sizes \/ 2 * k > call.m.out,
                      2 * call.m.in \in sizes
               PROVE  Grown \in sizes
    BY <1>2 DEF Doubling
  <2>1. CASE call.length = 0
    BY <2>1 DEF Grown
  <2>2. CASE call.length # 0
    <3>1. Grown = 2 * call.length
      BY <2>2 DEF Grown
    <3>2. call.length <= call.m.out
      BY <1>2, <3>1
    <3>3. Doubling(call.m, call.length)
      BY <1>2, <2>2 DEF Looped
    <3>4. call.length \in sizes
      BY <3>2, <3>3 DEF Doubling
    <3>5. ~ (2 * call.length > call.m.out)
      BY <1>2, <3>1
    <3> QED BY <3>1, <3>4, <3>5
  <2> QED BY <2>1, <2>2
<1>6. Looped'
  BY <1>2, <1>3, <1>5 DEF Looped, Doubling
<1>7. Inflater' = Inflater
  <2>1. InflaterOfCall /\ InflaterOfCall'
    BY SameInflater, PTL
  <2> QED BY <1>1, <1>3, <2>1 DEF InflaterOfCall, Config
<1>8. AtBlock' <=> AtBlock
  BY <1>3, <1>7 DEF AtBlock
<1>9. CallInStep'
  BY <1>1, <1>3, <1>6, <1>8 DEF DInv, CallInStep, Spoils, ExactFit
<1>10. \A fd \in Fds : InStep(fd)'
  <2> TAKE fd \in Fds
  <2>1. InStep(fd)
    BY DEF DInv
  <2>2. InCall(fd)' <=> InCall(fd)
    BY <1>1, <1>3, <1>4 DEF InCall
  <2> QED BY <1>1, <2>1, <2>2 DEF InStep, IsClient, Config
<1>11. TypeOK'
  <2>1. (call # NoCall => call.fd \in Fds /\ IsClient(call.fd) /\ call.written <= call.m.out)'
    BY <1>1, <1>2, <1>3 DEF DInv, TypeOK, IsClient
  <2> QED BY <1>1, <2>1 DEF DInv, TypeOK, IsClient
<1>12. /\ PeersType' /\ CallType' /\ UnsetHasFailed' /\ StreamsAreInitialised'
       /\ NothingWrong'
  BY <1>1, <1>3 DEF DInv, PeersType, CallType, UnsetHasFailed, Sound,
     StreamsAreInitialised, NothingWrong
<1> QED BY <1>9, <1>10, <1>11, <1>12 DEF DInv

\* A message is refused: the client is closed.
LEMMA RefuseStep ==
  ASSUME DInv, NEW faults \in SUBSET {"rejected"}, Refuse(faults)
  PROVE  DInv'
<1>1. /\ call # NoCall /\ call' = NoCall /\ CloseSocket(call.fd)
      /\ table' = Deleted(PmdGet(call.fd)) /\ UNCHANGED <<made, offers, messages, failed>>
      /\ seen' = seen \cup faults
      /\ Ends(call.fd, PmdGet(call.fd), HasUnset(PmdGet(call.fd)))
  BY DEF Refuse
<1>2. PICK fd \in Fds : fd = call.fd /\ IsClient(fd)
  BY <1>1, LoopFacts
<1>3. HasUnset(PmdGet(fd)) \in BOOLEAN /\ (HasUnset(PmdGet(fd)) => owner[fd] \in failed)
  BY <1>2, OwnHasFailed
<1>4. messages' \in 0 .. MaxMessages
  BY <1>1 DEF DInv, TypeOK
<1> QED BY <1>1, <1>2, <1>3, <1>4, ClosedStep

\* inflate reports an error only on what may be unreadable.
LEMMA InflateFailsStep == ASSUME DInv, InflateFails PROVE DInv'
<1>1. /\ call # NoCall /\ Unreadable
      /\ Refuse((IF call.excused THEN {} ELSE {"misread"})
                 \cup (IF call.m.kind = "broken" THEN {} ELSE {"rejected"}))
  BY DEF InflateFails
<1>2. call.excused
  <2> SUFFICES ASSUME ~ call.excused PROVE FALSE
    OBVIOUS
  <2>1. Inflater.at = "block" /\ call.m.kind # "broken"
    BY <1>1 DEF DInv, CallInStep, AtBlock
  <2> QED BY <1>1, <2>1 DEF Unreadable
<1>3. PICK faults \in SUBSET {"rejected"} : Refuse(faults)
  <2>1. (IF call.excused THEN {} ELSE {"misread"})
          \cup (IF call.m.kind = "broken" THEN {} ELSE {"rejected"})
        \in SUBSET {"rejected"}
    BY <1>2
  <2> QED BY <1>1, <2>1
<1> QED BY <1>3, RefuseStep

\* Memory runs out.
LEMMA NoBufferStep == ASSUME DInv, NoBuffer PROVE DInv'
<1>1. {} \in SUBSET {"rejected"} /\ Refuse({})
  BY DEF NoBuffer
<1> QED BY <1>1, RefuseStep

\* When the buffer of a message that is no exact fit has room left at last, inflate has
\* read the trailer: the stream stands in front of a block again.
LEMMA StandsAtBlock ==
  ASSUME DInv, call # NoCall, Inflater.at = "block", ~ Spoils(call.m), Spare > 0
  PROVE  ~ AtEnd /\ FeedsTrailer
<1>1. PICK g \in Nat \ {0}, n \in Nat, out \in Nat, length \in Nat, written \in Nat :
        /\ g = Grown /\ n = Produced /\ out = call.m.out /\ length = call.length
        /\ written = call.written
        /\ n = IF out < g THEN out ELSE g
  BY LoopFacts
<1>2. ~ AtEnd /\ ~ ExactFit(call.m)
  BY DEF AtEnd, Spoils
<1>3. ASSUME ~ FeedsTrailer PROVE FALSE
  <2>1. g > n
    <3>1. Spare = g - n
      BY <1>1, <1>3 DEF Spare
    <3> QED BY <1>1, <3>1
  <2>2. ~ call.fresh /\ n = written
    BY <1>1, <1>2, <1>3, <2>1 DEF FeedsTrailer, NoProgress
  <2>3. length = written /\ Doubling(call.m, length)
    BY <1>1, <2>2, LoopFacts DEF Looped
  <2>4. n = out /\ length = out
    BY <1>1, <2>1, <2>2, <2>3
  <2>5. ExactFit(call.m)
    BY <1>1, <2>3, <2>4 DEF Doubling, ExactFit
  <2> QED BY <1>2, <2>5
<1> QED BY <1>2, <1>3

\* The message is inflated: the inflater holds it, as the peer's compressor does.
LEMMA InflateReturnsStep == ASSUME DInv, InflateReturns PROVE DInv'
<1>1. PICK a \in {"end", "block", "trailer"} :
        /\ AtEnd => a = "end"
        /\ ~ AtEnd /\ FeedsTrailer => a = "block"
        /\ table' = [table EXCEPT ![PmdGet(call.fd)].inflater =
             Restarted(table[PmdGet(call.fd)].set, [at |-> a, window |->
               IF @.at = "end" THEN @.window ELSE Append(@.window, call.number)])]
  <2> DEFINE at == CASE AtEnd -> "end" [] ~ AtEnd /\ FeedsTrailer -> "block"
                     [] OTHER -> "trailer"
  <2>1. table' = [table EXCEPT ![PmdGet(call.fd)].inflater =
             Restarted(table[PmdGet(call.fd)].set, [at |-> at, window |->
               IF @.at = "end" THEN @.window ELSE Append(@.window, call.number)])]
    BY DEF InflateReturns
  <2>2. /\ at \in {"end", "block", "trailer"}
        /\ AtEnd => at = "end"
        /\ ~ AtEnd /\ FeedsTrailer => at = "block"
    OBVIOUS
  <2> HIDE DEF at
  <2> QED BY <2>1, <2>2
<1>2. PICK fd \in Fds :
        /\ fd = call.fd /\ IsClient(fd)
        /\ call # NoCall /\ ~ Unreadable /\ Spare > 0 /\ call' = NoCall
        /\ Misread(Produced = 0 \/ ~ IsSuffix(call.needs, Inflater.window))
        /\ UNCHANGED <<made, offers, messages, owner, peer, failed, misused>>
  <2>1. call # NoCall
    BY DEF InflateReturns
  <2>2. call.fd \in Fds /\ IsClient(call.fd)
    BY <2>1, LoopFacts
  <2> QED BY <2>2 DEF InflateReturns
<1>3. /\ table \in Seq(Entries) /\ PmdGet(fd) \in 1 .. Len(table)
      /\ table[PmdGet(fd)] = Config(fd) /\ Config(fd) \in Entries /\ Config(fd).fd = fd
      /\ Config(fd).set = peer[fd].agreed /\ peer[fd] \in Peers
  BY <1>2, ClientFacts
<1>4. Inflater = Config(fd).inflater
  BY <1>2, SameInflater DEF InflaterOfCall
<1>5. call \in Calls /\ Inflater \in Streams /\ call.number \in Numbers
  BY <1>2, <1>3, <1>4, LoopFacts DEF Entries, Calls
<1>6. PICK c : c = Config(fd)
  OBVIOUS
<1>7. PICK window \in Seq(Numbers) :
        /\ window = IF Inflater.at = "end" THEN Inflater.window
                    ELSE Append(Inflater.window, call.number)
        /\ Inflater.at # "end" => window = Append(Inflater.window, call.number)
  <2>1. Inflater.window \in Seq(Numbers)
    BY <1>5 DEF Streams, Numbers
  <2>2. Append(Inflater.window, call.number) \in Seq(Numbers)
    BY <1>5, <2>1
  <2> QED BY <2>1, <2>2
<1>8. PICK next : next = [at |-> a, window |-> window]
  OBVIOUS
<1>9. PICK s : s = Restarted(c.set, next)
  OBVIOUS
<1>10. /\ s = IF peer[fd].agreed.clientNo THEN Fresh ELSE next
       /\ next.at = a /\ next.window = window /\ s \in Streams
       /\ s.at # "unset"
  <2>1. s = IF peer[fd].agreed.clientNo THEN Fresh ELSE next
    BY <1>3, <1>6, <1>9 DEF Restarted
  <2>2. next \in Streams /\ next.at = a /\ next.window = window
    BY <1>8 DEF Streams, Numbers
  <2>3. Fresh \in Streams /\ Fresh.at # "unset"
    BY DEF Streams, Fresh
  <2> QED BY <2>1, <2>2, <2>3
<1>11. PICK e : e = [c EXCEPT !.inflater = s]
  OBVIOUS
<1>12. c \in Entries /\ c.fd = fd
  BY <1>3, <1>6
<1>13. /\ e \in Entries /\ e.fd = fd /\ e.set = Config(fd).set /\ e.conn = Config(fd).conn
       /\ e.leftover = Config(fd).leftover /\ e.deflater = Config(fd).deflater
       /\ e.inflater = s
  <2>1. s \in Streams
    BY <1>10
  <2>2. /\ e \in Entries /\ e.fd = c.fd /\ e.set = c.set /\ e.conn = c.conn
        /\ e.leftover = c.leftover /\ e.deflater = c.deflater /\ e.inflater = s
    BY <1>11, <1>12, <2>1, EntryFacts
  <2> QED BY <1>6, <1>12, <2>2
<1>14. table' = [table EXCEPT ![PmdGet(fd)] = e]
  <2>1. PICK i : i = PmdGet(fd)
    OBVIOUS
  <2>2. /\ table[i] = c /\ i \in DOMAIN table
        /\ c.inflater = Inflater
    BY <1>3, <1>4, <1>6, <2>1
  <2>3. table' = [table EXCEPT ![i] = [table[i] EXCEPT !.inflater =
             Restarted(table[i].set, [at |-> a, window |->
               IF table[i].inflater.at = "end" THEN table[i].inflater.window
               ELSE Append(table[i].inflater.window, call.number)])]]
    BY <1>1, <1>2, <2>1
  <2>4. table' = [table EXCEPT ![i] = [c EXCEPT !.inflater =
             Restarted(c.set, [at |-> a, window |->
               IF Inflater.at = "end" THEN Inflater.window
               ELSE Append(Inflater.window, call.number)])]]
    BY <2>2, <2>3
  <2>5. table' = [table EXCEPT ![i] = [c EXCEPT !.inflater = Restarted(c.set, next)]]
    BY <1>7, <1>8, <2>4
  <2> QED BY <1>9, <1>11, <2>1, <2>5
<1>15. seen' = seen
  <2>1. CASE call.excused
    BY <1>2, <2>1 DEF Misread
  <2>2. CASE ~ call.excused
    <3>1. AtBlock /\ call.m.out > 0
      BY <1>2, <2>2 DEF DInv, CallInStep
    <3>2. Produced # 0
      BY <1>2, <3>1, LoopFacts DEF AtBlock
    <3>3. IsSuffix(call.needs, Inflater.window)
      <4>1. call.needs \in Seq(Numbers) /\ Inflater.window = call.needs
        BY <1>5, <3>1 DEF AtBlock, Calls
      <4> QED BY <4>1, SuffixFacts
    <3> QED BY <1>2, <3>2, <3>3 DEF Misread
  <2> QED BY <2>1, <2>2
<1>16. Has(table', fd) /\ Config(fd)' = e
  BY <1>2, <1>13, <1>14, ConfigChanges
<1>17. InStep(fd)'
  <2>1. InStep(fd)
    BY DEF DInv
  <2>2. ASSUME ~ peer[fd].spoiled
        PROVE  s.window = peer[fd].packs /\ s.at = "block"
    <3>1. /\ AtBlock
          /\ IF peer[fd].agreed.clientNo THEN peer[fd].packs = <<>>
             ELSE /\ peer[fd].packs = Append(call.needs, call.number)
                  /\ ~ Spoils(call.m)
      BY <1>2, <2>2 DEF DInv, CallInStep
    <3>2. CASE peer[fd].agreed.clientNo
      BY <1>10, <3>1, <3>2 DEF Fresh
    <3>3. CASE ~ peer[fd].agreed.clientNo
      <4>1. s.window = peer[fd].packs
        BY <1>7, <1>10, <3>1, <3>3 DEF AtBlock
      <4>2. ~ AtEnd /\ FeedsTrailer
        BY <1>2, <3>1, <3>3, StandsAtBlock DEF AtBlock
      <4>3. a = "block"
        BY <1>1, <4>2
      <4> QED BY <1>10, <3>3, <4>1, <4>3
    <3> QED BY <3>2, <3>3
  <2> QED BY <1>2, <1>13, <1>16, <2>1, <2>2 DEF InStep, IsClient
<1>18. e.inflater.at # "unset" /\ (e.deflater.at = "unset" => owner[fd] \in failed')
  <2>1. Config(fd).deflater.at = "unset" => owner[fd] \in failed
    BY <1>2, OwnHasFailed
  <2> QED BY <1>2, <1>10, <1>13, <2>1
<1>19. /\ seen' \subseteq {"misread", "rejected", "unread"} /\ NothingWrong'
       /\ messages' \in 0 .. MaxMessages
  BY <1>2, <1>15 DEF DInv, TypeOK, NothingWrong
<1>20. peer' = [peer EXCEPT ![fd] = peer[fd]]
  BY <1>2 DEF DInv, PeersType
<1> QED BY <1>2, <1>3, <1>13, <1>14, <1>15, <1>17, <1>18, <1>19, <1>20, NoCallInStep,
           MessageStep

-----------------------------------------------------------------------------
\* Sending.

\* A client that was told of a message it does not get.
LEMMA TellUnsentFacts ==
  ASSUME DInv, NEW fd \in Fds, IsClient(fd), TellUnsent(fd)
  PROVE  \E p \in Peers :
           /\ peer' = [peer EXCEPT ![fd] = p]
           /\ p.agreed = peer[fd].agreed /\ p.packs = peer[fd].packs
           /\ p.reads = peer[fd].reads /\ (p.spoiled <=> peer[fd].spoiled) /\ p.told
<1>1. peer[fd] \in Peers /\ DOMAIN peer = Fds
  BY ClientFacts DEF DInv, PeersType
<1>2. PICK p : p = [peer[fd] EXCEPT !.told = TRUE]
  OBVIOUS
<1>3. /\ p \in Peers /\ p.agreed = peer[fd].agreed /\ p.packs = peer[fd].packs
      /\ p.reads = peer[fd].reads /\ (p.spoiled <=> peer[fd].spoiled) /\ p.told
  BY <1>1, <1>2 DEF Peers
<1>4. peer' = [peer EXCEPT ![fd] = p]
  BY <1>1, <1>2 DEF TellUnsent
<1> QED BY <1>3, <1>4

\* deflate on a stream that deflateInit2 left as it was.
LEMMA DeflateUnsetStep == ASSUME DInv, NEW fd \in Fds, DeflateUnset(fd) PROVE DInv'
<1>1. /\ call = NoCall /\ IsClient(fd) /\ messages < MaxMessages /\ messages' = messages + 1
      /\ Deflater(fd) = Unset /\ misused' = misused \cup {<<"deflate", owner[fd]>>}
      /\ UNCHANGED <<made, offers, owner, peer, table, call, seen, failed>>
  BY DEF DeflateUnset, MayTransfer, Idle, Misuses
<1>2. owner[fd] \in failed /\ owner[fd] \in Connections
  <2>1. Config(fd).deflater.at = "unset"
    BY <1>1, ClientFacts DEF Deflater, Unset
  <2> QED BY <1>1, <2>1, ClientFacts, OwnHasFailed
<1>3. messages' \in 0 .. MaxMessages
  BY <1>1, DeflateAssumption DEF DInv, TypeOK, DeflateAssumption
<1>4. TypeOK' /\ PeersType'
  <2>1. misused' \subseteq {"inflate", "deflate", "end"} \X Connections
    BY <1>1, <1>2 DEF DInv, TypeOK
  <2> QED BY <1>1, <1>3, <2>1 DEF DInv, TypeOK, IsClient, PeersType
<1>5. \A g \in Fds : InStep(g)'
  BY <1>1 DEF DInv, InStep, IsClient, Config, InCall
<1>6. UnsetHasFailed' /\ StreamsAreInitialised' /\ NothingWrong'
  BY <1>1, <1>2 DEF DInv, UnsetHasFailed, Sound, StreamsAreInitialised, NothingWrong
<1> QED BY <1>1, <1>4, <1>5, <1>6, NoCallInStep DEF DInv

\* deflateInit2 fails: the configuration keeps a stream that may not be used.
LEMMA DeflateInitFailsStep == ASSUME DInv, NEW fd \in Fds, DeflateInitFails(fd) PROVE DInv'
<1>1. /\ call = NoCall /\ IsClient(fd) /\ messages < MaxMessages /\ messages' = messages + 1
      /\ Deflater(fd) = Unborn
      /\ table' = [table EXCEPT ![PmdGet(fd)].deflater = Unset]
      /\ TellUnsent(fd) \/ UNCHANGED peer
      /\ failed' = failed \cup {owner[fd]}
      /\ UNCHANGED <<made, offers, owner, call, seen, misused>>
  BY DEF DeflateInitFails, MayTransfer, Idle
<1>2. /\ table \in Seq(Entries) /\ PmdGet(fd) \in 1 .. Len(table)
      /\ table[PmdGet(fd)] = Config(fd) /\ Config(fd) \in Entries /\ Config(fd).fd = fd
      /\ peer[fd] \in Peers
  BY <1>1, ClientFacts
<1>3. PICK c : c = Config(fd)
  OBVIOUS
<1>4. PICK e : e = [c EXCEPT !.deflater = Unset]
  OBVIOUS
<1>5. /\ e \in Entries /\ e.fd = fd /\ e.set = Config(fd).set /\ e.conn = Config(fd).conn
      /\ e.leftover = Config(fd).leftover /\ e.inflater = Config(fd).inflater
      /\ e.deflater = Unset
  <2>1. Unset \in Streams /\ c \in Entries
    BY <1>2, <1>3 DEF Streams, Unset
  <2>2. /\ e \in Entries /\ e.fd = c.fd /\ e.set = c.set /\ e.conn = c.conn
        /\ e.leftover = c.leftover /\ e.inflater = c.inflater /\ e.deflater = Unset
    BY <1>4, <2>1, EntryFacts
  <2> QED BY <1>2, <1>3, <2>2
<1>6. table' = [table EXCEPT ![PmdGet(fd)] = e]
  <2>1. PICK i : i = PmdGet(fd)
    OBVIOUS
  <2>2. table[i] = c /\ i \in DOMAIN table
    BY <1>2, <1>3, <2>1
  <2>3. table' = [table EXCEPT ![i] = [table[i] EXCEPT !.deflater = Unset]]
    BY <1>1, <2>1
  <2> QED BY <1>4, <2>1, <2>2, <2>3
<1>7. PICK p \in Peers :
        /\ peer' = [peer EXCEPT ![fd] = p]
        /\ p.agreed = peer[fd].agreed /\ p.packs = peer[fd].packs
        /\ p.reads = peer[fd].reads /\ (p.spoiled <=> peer[fd].spoiled)
        /\ ~ p.told => ~ peer[fd].told
  <2>1. CASE TellUnsent(fd)
    BY <1>1, <2>1, TellUnsentFacts
  <2>2. CASE UNCHANGED peer
    <3>1. peer' = [peer EXCEPT ![fd] = peer[fd]]
      BY <2>2 DEF DInv, PeersType
    <3> QED BY <1>2, <3>1
  <2> QED BY <1>1, <2>1, <2>2
<1>8. Has(table', fd) /\ Config(fd)' = e /\ peer'[fd] = p
  <2>1. Has(table', fd) /\ Config(fd)' = e
    BY <1>1, <1>5, <1>6, ConfigChanges
  <2> QED BY <1>7, <2>1 DEF DInv, PeersType
<1>9. InStep(fd)'
  <2>1. InStep(fd) /\ ~ InCall(fd)
    BY <1>1 DEF DInv, InCall
  <2>2. Config(fd).deflater.window = e.deflater.window
    <3>1. Config(fd).deflater = Unborn
      BY <1>1, <1>2 DEF Deflater
    <3> QED BY <1>5, <3>1 DEF Unborn, Unset
  <2> QED BY <1>1, <1>5, <1>7, <1>8, <2>1, <2>2 DEF InStep
<1>10. messages' \in 0 .. MaxMessages
  BY <1>1, DeflateAssumption DEF DInv, TypeOK, DeflateAssumption
<1>11. /\ seen' \subseteq {"misread", "rejected", "unread"} /\ NothingWrong'
       /\ e.inflater.at # "unset" /\ owner[fd] \in failed'
  <2>1. Config(fd).inflater.at # "unset"
    BY <1>1, OwnHasFailed
  <2> QED BY <1>1, <1>5, <2>1 DEF DInv, TypeOK, NothingWrong
<1> QED BY <1>1, <1>5, <1>6, <1>7, <1>9, <1>10, <1>11, NoCallInStep, MessageStep

WithDeflater(c, l, s) == [[c EXCEPT !.leftover = l] EXCEPT !.deflater = s]

\* Another deflater in a configuration, with something left in it or not.
LEMMA DeflaterFacts ==
  ASSUME NEW c \in Entries, NEW s \in Streams, NEW l \in BOOLEAN
  PROVE  \E e \in Entries :
           /\ e = WithDeflater(c, l, s)
           /\ e.fd = c.fd /\ e.set = c.set /\ e.conn = c.conn
           /\ (e.leftover <=> l) /\ e.inflater = c.inflater /\ e.deflater = s
<1>1. PICK e : e = WithDeflater(c, l, s)
  OBVIOUS
<1>2. /\ e \in Entries /\ e.fd = c.fd /\ e.set = c.set /\ e.conn = c.conn
      /\ (e.leftover <=> l) /\ e.inflater = c.inflater /\ e.deflater = s
  BY <1>1 DEF Entries, WithDeflater
<1> QED BY <1>1, <1>2

\* pmd_generate_response: the message was compressed, or is left in the deflater.
LEMMA GenerateResponseStep == ASSUME DInv, NEW fd \in Fds, GenerateResponse(fd) PROVE DInv'
<1>1. /\ call = NoCall /\ IsClient(fd) /\ messages < MaxMessages /\ messages' = messages + 1
      /\ Deflater(fd) # Unset /\ UNCHANGED <<made, offers, owner, call, failed, misused>>
  BY DEF GenerateResponse, MayTransfer, Idle
<1>2. /\ table \in Seq(Entries) /\ PmdGet(fd) \in 1 .. Len(table)
      /\ table[PmdGet(fd)] = Config(fd) /\ Config(fd) \in Entries /\ Config(fd).fd = fd
      /\ Config(fd).set = peer[fd].agreed /\ peer[fd] \in Peers
  BY <1>1, ClientFacts
<1>3. PICK c \in Entries : c = Config(fd) /\ Deflater(fd) = c.deflater
  BY <1>2 DEF Deflater
<1>4. PICK s \in Streams : /\ s = IF Deflater(fd) = Unborn THEN Fresh ELSE Deflater(fd)
                           /\ s.window = c.deflater.window
  <2>1. Fresh \in Streams /\ Fresh.window = Unborn.window
    BY DEF Fresh, Streams, Unborn
  <2>2. c.deflater \in Streams
    BY DEF Entries
  <2> QED BY <1>3, <2>1, <2>2
<1>5. PICK n : n = Number(fd) /\ n \in Numbers
  BY <1>1, NumberType
<1>6. PICK packed \in Streams :
        /\ packed = [s EXCEPT !.window = Append(@, n)]
        /\ packed.window = Append(s.window, n) /\ packed.at = s.at
  <2>1. s.window \in Seq(Numbers)
    BY DEF Streams, Numbers
  <2>2. PICK w \in Seq(Numbers) : w = Append(s.window, n)
    <3>1. n \in Numbers
      BY <1>5
    <3>2. Append(s.window, n) \in Seq(Numbers)
      BY <2>1, <3>1
    <3> QED BY <3>2
  <2>3. [s EXCEPT !.window = w] \in Streams /\ [s EXCEPT !.window = w].window = w
        /\ [s EXCEPT !.window = w].at = s.at
    BY <2>2 DEF Streams, Numbers
  <2> QED BY <2>2, <2>3
<1>7. PICK sent \in Streams :
        /\ sent = Sent(c.set, packed)
        /\ sent = IF peer[fd].agreed.serverNo THEN Fresh ELSE packed
  <2>1. Fresh \in Streams
    BY DEF Fresh, Streams
  <2> QED BY <1>2, <1>3, <2>1 DEF Sent
<1>8. PICK unread \in BOOLEAN :
        unread <=> c.leftover \/ ~ IsSuffix(s.window, peer[fd].reads)
  OBVIOUS
<1>9. \/ /\ table' = [table EXCEPT ![PmdGet(fd)].leftover = FALSE,
                                   ![PmdGet(fd)].deflater = sent]
         /\ peer' = [peer EXCEPT ![fd].reads =
              IF peer[fd].agreed.serverNo THEN <<>> ELSE Append(@, n)]
         /\ seen' = seen \cup IF unread /\ ~ peer[fd].told THEN {"unread"} ELSE {}
      \/ /\ table' = [table EXCEPT ![PmdGet(fd)].leftover = TRUE,
                                   ![PmdGet(fd)].deflater = packed]
         /\ TellUnsent(fd) /\ UNCHANGED seen
  <2>1. PICK i : i = PmdGet(fd) /\ table[i] = c
    BY <1>2, <1>3
  <2>2. packed = [s EXCEPT !.window = Append(@, Number(fd))]
    BY <1>5, <1>6
  <2> QED BY <1>3, <1>4, <1>5, <1>7, <1>8, <2>1, <2>2 DEF GenerateResponse
<1>10. ASSUME NEW l \in BOOLEAN, NEW d \in Streams,
              table' = [table EXCEPT ![PmdGet(fd)].leftover = l, ![PmdGet(fd)].deflater = d]
       PROVE  \E e \in Entries :
                /\ table' = [table EXCEPT ![PmdGet(fd)] = e]
                /\ e.fd = fd /\ e.set = Config(fd).set /\ e.conn = Config(fd).conn
                /\ (e.leftover <=> l) /\ e.inflater = Config(fd).inflater /\ e.deflater = d
  <2>1. PICK i : i = PmdGet(fd)
    OBVIOUS
  <2>2. PICK e \in Entries :
          /\ e = WithDeflater(c, l, d)
          /\ e.fd = c.fd /\ e.set = c.set /\ e.conn = c.conn
          /\ (e.leftover <=> l) /\ e.inflater = c.inflater /\ e.deflater = d
    BY DeflaterFacts
  <2>3. table[i] = c /\ i \in DOMAIN table
    BY <1>2, <1>3, <2>1
  <2>4. table' = [table EXCEPT ![i] = [[table[i] EXCEPT !.leftover = l] EXCEPT !.deflater = d]]
    BY <1>10, <2>1, <2>3
  <2>5. table' = [table EXCEPT ![PmdGet(fd)] = e]
    BY <2>1, <2>2, <2>3, <2>4 DEF WithDeflater
  <2> QED BY <1>2, <1>3, <2>2, <2>5
<1>11. Config(fd).inflater.at # "unset"
  BY <1>1, OwnHasFailed
<1>12. Deflater(fd).at = "unset" => owner[fd] \in failed
  BY <1>1, <1>3, OwnHasFailed
<1>13. /\ packed.at = "unset" => owner[fd] \in failed
       /\ sent.at = "unset" => owner[fd] \in failed
  <2>1. Fresh.at # "unset"
    BY DEF Fresh
  <2> QED BY <1>4, <1>6, <1>7, <1>12, <2>1
<1>14. InStep(fd) /\ ~ InCall(fd)
  BY <1>1 DEF DInv, InCall
<1>15. messages' \in 0 .. MaxMessages
  BY <1>1, DeflateAssumption DEF DInv, TypeOK, DeflateAssumption
<1>16. CASE /\ table' = [table EXCEPT ![PmdGet(fd)].leftover = FALSE,
                                      ![PmdGet(fd)].deflater = sent]
            /\ peer' = [peer EXCEPT ![fd].reads =
                 IF peer[fd].agreed.serverNo THEN <<>> ELSE Append(@, n)]
            /\ seen' = seen \cup IF unread /\ ~ peer[fd].told THEN {"unread"} ELSE {}
  <2>1. PICK e \in Entries :
          /\ table' = [table EXCEPT ![PmdGet(fd)] = e]
          /\ e.fd = fd /\ e.set = Config(fd).set /\ e.conn = Config(fd).conn
          /\ ~ e.leftover /\ e.inflater = Config(fd).inflater /\ e.deflater = sent
    BY <1>10, <1>16
  <2>2. PICK reads \in Seq(Numbers) :
          reads = IF peer[fd].agreed.serverNo THEN <<>> ELSE Append(peer[fd].reads, n)
    <3>1. peer[fd].reads \in Seq(Numbers)
      BY <1>2 DEF Peers
    <3>2. Append(peer[fd].reads, n) \in Seq(Numbers) /\ <<>> \in Seq(Numbers)
      BY <1>5, <3>1
    <3> QED BY <3>2
  <2>3. PICK p \in Peers :
          /\ p = [peer[fd] EXCEPT !.reads = reads]
          /\ p.agreed = peer[fd].agreed /\ p.packs = peer[fd].packs
          /\ p.reads = reads /\ (p.spoiled <=> peer[fd].spoiled)
          /\ (p.told <=> peer[fd].told)
    <3>1. PICK p : p = [peer[fd] EXCEPT !.reads = reads]
      OBVIOUS
    <3>2. /\ p \in Peers /\ p.agreed = peer[fd].agreed /\ p.packs = peer[fd].packs
          /\ p.reads = reads /\ (p.spoiled <=> peer[fd].spoiled)
          /\ (p.told <=> peer[fd].told)
      BY <1>2, <2>2, <3>1 DEF Peers
    <3> QED BY <3>1, <3>2
  <2>4. peer' = [peer EXCEPT ![fd] = p]
    <3>1. fd \in DOMAIN peer
      BY DEF DInv, PeersType
    <3> QED BY <1>16, <2>2, <2>3, <3>1
  <2>5. Has(table', fd) /\ Config(fd)' = e /\ peer'[fd] = p
    <3>1. Has(table', fd) /\ Config(fd)' = e
      BY <1>1, <2>1, ConfigChanges
    <3> QED BY <2>4, <3>1 DEF DInv, PeersType
  <2>6. ~ peer[fd].told => ~ c.leftover /\ c.deflater.window = peer[fd].reads
    BY <1>1, <1>3, <1>14 DEF InStep
  <2>7. seen' = seen
    <3>1. ASSUME ~ peer[fd].told PROVE ~ unread
      <4>1. peer[fd].reads \in Seq(Numbers) /\ s.window = peer[fd].reads
        BY <1>2, <1>4, <2>6, <3>1 DEF Peers
      <4>2. IsSuffix(s.window, peer[fd].reads)
        BY <4>1, SuffixFacts
      <4> QED BY <1>8, <2>6, <3>1, <4>2
    <3> QED BY <1>16, <3>1
  <2>8. ~ p.told => e.deflater.window = p.reads
    BY <1>4, <1>6, <1>7, <2>1, <2>2, <2>3, <2>6 DEF Fresh
  <2>9. InStep(fd)'
    BY <1>1, <1>14, <2>1, <2>3, <2>5, <2>8 DEF InStep
  <2>10. seen' \subseteq {"misread", "rejected", "unread"} /\ NothingWrong'
    BY <2>7 DEF DInv, TypeOK, NothingWrong
  <2>11. e.inflater.at # "unset" /\ (e.deflater.at = "unset" => owner[fd] \in failed')
    BY <1>1, <1>11, <1>13, <2>1
  <2> QED BY <1>1, <1>15, <2>1, <2>3, <2>4, <2>9, <2>10, <2>11, NoCallInStep, MessageStep
<1>17. CASE /\ table' = [table EXCEPT ![PmdGet(fd)].leftover = TRUE,
                                      ![PmdGet(fd)].deflater = packed]
            /\ TellUnsent(fd) /\ UNCHANGED seen
  <2>1. PICK e \in Entries :
          /\ table' = [table EXCEPT ![PmdGet(fd)] = e]
          /\ e.fd = fd /\ e.set = Config(fd).set /\ e.conn = Config(fd).conn
          /\ e.inflater = Config(fd).inflater /\ e.deflater = packed
    BY <1>10, <1>17
  <2>2. PICK p \in Peers :
          /\ peer' = [peer EXCEPT ![fd] = p]
          /\ p.agreed = peer[fd].agreed /\ p.packs = peer[fd].packs
          /\ (p.spoiled <=> peer[fd].spoiled) /\ p.told
    BY <1>1, <1>17, TellUnsentFacts
  <2>3. Has(table', fd) /\ Config(fd)' = e /\ peer'[fd] = p
    <3>1. Has(table', fd) /\ Config(fd)' = e
      BY <1>1, <2>1, ConfigChanges
    <3> QED BY <2>2, <3>1 DEF DInv, PeersType
  <2>4. InStep(fd)'
    BY <1>1, <1>14, <2>1, <2>2, <2>3 DEF InStep
  <2>5. seen' \subseteq {"misread", "rejected", "unread"} /\ NothingWrong'
    BY <1>17 DEF DInv, TypeOK, NothingWrong
  <2>6. e.inflater.at # "unset" /\ (e.deflater.at = "unset" => owner[fd] \in failed')
    BY <1>1, <1>11, <1>13, <2>1
  <2> QED BY <1>1, <1>15, <2>1, <2>2, <2>4, <2>5, <2>6, NoCallInStep, MessageStep
<1> QED BY <1>9, <1>16, <1>17

-----------------------------------------------------------------------------
\* The theorems.

\* Nothing is there at first.
LEMMA InitIsGood == Init => DInv
<1> SUFFICES ASSUME Init PROVE DInv
  OBVIOUS
<1>1. /\ made = 0 /\ offers = 0 /\ messages = 0 /\ owner = [fd \in Fds |-> 0]
      /\ peer = [fd \in Fds |-> NoPeer] /\ table = <<>> /\ call = NoCall /\ seen = {}
      /\ failed = {} /\ misused = {}
  BY DEF Init
<1>2. {MaxConnections, MaxOffers, MaxMessages} \subseteq Nat
  BY DeflateAssumption DEF DeflateAssumption
<1>3. \A fd \in Fds : ~ IsClient(fd)
  BY <1>1 DEF IsClient
<1>4. TypeOK
  <2>1. 0 \in 0 .. made /\ made \in 0 .. MaxConnections /\ offers \in 0 .. MaxOffers
        /\ messages \in 0 .. MaxMessages
    BY <1>1, <1>2
  <2>2. owner \in [Fds -> 0 .. made] /\ DOMAIN peer = Fds
    BY <1>1, <2>1
  <2>3. table \in Seq([fd : Fds, conn : Connections, set : Settings, leftover : BOOLEAN,
                       inflater : Streams, deflater : Streams])
    BY <1>1
  <2> QED BY <1>1, <1>3, <2>1, <2>2, <2>3 DEF TypeOK
<1>5. PeersType /\ CallType
  BY <1>1 DEF PeersType, CallType
<1>6. \A fd \in Fds : InStep(fd)
  BY <1>3 DEF InStep
<1>7. UnsetHasFailed
  <2>1. Len(table) = 0
    BY <1>1
  <2> QED BY <2>1 DEF UnsetHasFailed
<1>8. CallInStep /\ StreamsAreInitialised /\ NothingWrong
  BY <1>1 DEF CallInStep, StreamsAreInitialised, NothingWrong
<1> QED BY <1>4, <1>5, <1>6, <1>7, <1>8 DEF DInv

\* Steps that change nothing change nothing of the invariant.
LEMMA StutterStep == ASSUME DInv, UNCHANGED vars PROVE DInv'
<1>1. UNCHANGED <<made, offers, messages, owner, peer, table, call, seen, failed, misused>>
  BY DEF vars
<1>2. TypeOK' /\ PeersType' /\ CallType' /\ StreamsAreInitialised' /\ NothingWrong'
  BY <1>1 DEF DInv, TypeOK, IsClient, PeersType, CallType, StreamsAreInitialised, NothingWrong
<1>3. \A fd \in Fds : InStep(fd)'
  BY <1>1 DEF DInv, InStep, IsClient, Config, InCall
<1>4. UnsetHasFailed'
  BY <1>1 DEF DInv, UnsetHasFailed, Sound
<1>5. CallInStep'
  <2>1. Inflater' = Inflater
    <3>1. InflaterOfCall /\ InflaterOfCall'
      BY SameInflater, PTL
    <3> QED BY <1>1, <3>1 DEF InflaterOfCall, Config
  <2>2. (AtBlock' <=> AtBlock) /\ (Looped' <=> Looped)
    BY <1>1, <2>1 DEF AtBlock, Looped
  <2> QED BY <1>1, <2>2 DEF DInv, CallInStep
<1> QED BY <1>2, <1>3, <1>4, <1>5 DEF DInv

\* Every step keeps the invariant.
LEMMA StepIsGood == DInv /\ [Next]_vars => DInv'
<1> SUFFICES ASSUME DInv, [Next]_vars PROVE DInv'
  OBVIOUS
<1>1. CASE InflateAgain
  BY <1>1, InflateAgainStep
<1>2. CASE InflateReturns
  BY <1>2, InflateReturnsStep
<1>3. CASE InflateFails
  BY <1>3, InflateFailsStep
<1>4. CASE NoBuffer
  BY <1>4, NoBufferStep
<1>5. ASSUME NEW fd \in Fds, Connect(fd) PROVE DInv'
  BY <1>5, ConnectStep
<1>6. ASSUME NEW fd \in Fds, HandleUpgrade(fd) PROVE DInv'
  BY <1>6, HandleUpgradeStep
<1>7. ASSUME NEW fd \in Fds, CloseConnection(fd) PROVE DInv'
  BY <1>7, CloseConnectionStep
<1>8. ASSUME NEW fd \in Fds, ProcessData(fd) PROVE DInv'
  BY <1>8, ProcessDataStep
<1>9. ASSUME NEW fd \in Fds, InflateInitFails(fd) PROVE DInv'
  BY <1>9, InflateInitFailsStep
<1>10. ASSUME NEW fd \in Fds, DeflateInitFails(fd) PROVE DInv'
  BY <1>10, DeflateInitFailsStep
<1>11. ASSUME NEW fd \in Fds, DeflateUnset(fd) PROVE DInv'
  BY <1>11, DeflateUnsetStep
<1>12. ASSUME NEW fd \in Fds, GenerateResponse(fd) PROVE DInv'
  BY <1>12, GenerateResponseStep
<1>13. CASE UNCHANGED vars
  BY <1>13, StutterStep
<1> QED BY <1>1, <1>2, <1>3, <1>4, <1>5, <1>6, <1>7, <1>8, <1>9, <1>10, <1>11, <1>12, <1>13
        DEF Next, InflateLoop

\* The streams of every client stand where the peer's do, as DInv says part by part.
THEOREM Invariance == Spec => []DInv
<1>1. Init => DInv
  BY InitIsGood
<1>2. DInv /\ [Next]_vars => DInv'
  BY StepIsGood
<1> QED BY <1>1, <1>2, PTL DEF Spec

\* Every variable of permessage-deflate.c's state keeps its type; a client is open, a
\* call is for a client.
THEOREM TypeCorrect == Spec => []TypeOK
<1>1. DInv => TypeOK
  BY DEF DInv
<1> QED BY <1>1, Invariance, PTL

\* pmd_get_from_table finds, for a client that uses the extension, the settings agreed
\* with it and its own streams, whatever earlier connections left in the chain.
THEOREM FindsOwnConfig == Spec => []ConfigIsOfThisConnection
<1>1. DInv => ConfigIsOfThisConnection
  <2> SUFFICES ASSUME DInv, NEW fd \in Fds, IsClient(fd)
               PROVE  /\ PmdGet(fd) # 0 /\ table[PmdGet(fd)].conn = owner[fd]
                      /\ table[PmdGet(fd)].set = peer[fd].agreed
    BY DEF ConfigIsOfThisConnection
  <2>1. /\ PmdGet(fd) \in 1 .. Len(table) /\ table[PmdGet(fd)] = Config(fd)
        /\ Config(fd).set = peer[fd].agreed /\ Config(fd).conn = owner[fd]
    BY ClientFacts
  <2> QED BY <2>1
<1> QED BY <1>1, Invariance, PTL

\* pmd_process_data hands every message that is not excused over as the peer compressed
\* it, across connections that reuse the descriptor and clients that are closed.
THEOREM MessagesAreDecoded == Spec => []DecodedAsSent
<1>1. DInv => DecodedAsSent
  BY DEF DInv, NothingWrong, DecodedAsSent
<1> QED BY <1>1, Invariance, PTL

\* The peer can read every message of pmd_generate_response until it is sent a close
\* frame.
THEOREM PeerReads == Spec => []PeerReadsWhatWasSent
<1>1. DInv => PeerReadsWhatWasSent
  BY DEF DInv, NothingWrong, PeerReadsWhatWasSent
<1> QED BY <1>1, Invariance, PTL

\* inflate is called on initialised streams only; deflate and the ends meet one that is
\* not only for a connection whose own inflateInit2 or deflateInit2 failed.
THEOREM NoUninitialisedStream == Spec => []StreamsAreInitialised
<1>1. DInv => StreamsAreInitialised
  BY DEF DInv
<1> QED BY <1>1, Invariance, PTL

=============================================================================
