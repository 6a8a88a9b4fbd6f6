-------------------------- MODULE EventArrayProofs --------------------------
(***************************************************************************)
(* Proofs about the array of what is watched (events.c without epoll), for *)
(* every number of descriptors, connections and outputs and every initial  *)
(* size: however it is enlarged, reordered and shrunk while the loop walks *)
(* it, it has every open connection once, and input reaches whom it was    *)
(* reported for.                                                           *)
(***************************************************************************)
EXTENDS EventArray, SequenceTheorems, WellFoundedInduction, TLAPS

-----------------------------------------------------------------------------
\* The array as rows: the one entry of a descriptor (poll), or its two (kqueue).

\* Where rows begin in an array of n entries, with w entries to a row.
Starts(w, n) == {i \in 1 .. n : w = 1 \/ i % 2 = 1}

Row(w, os, i) == <<os[i], os[i + w - 1]>>
Rows(w, os) == {Row(w, os, i) : i \in Starts(w, Len(os))}

HasRow(rows, fd) == \E r \in rows : r[1].fd = fd

\* The last row is whole.
Whole(w, n) == w = 2 => n % 2 = 0

\* What belongs together, and in which order.
Paired(w, a, b) ==
  IF w = 1 THEN a = b /\ a.filter = "both"
  ELSE a.filter = "read" /\ b.filter = "write" /\ a.fd = b.fd /\ ~ a.out

\* Whole rows, and one to a descriptor; what stands for no descriptor is exempt.
Sound(w, os) ==
  /\ Whole(w, Len(os))
  /\ \A i \in Starts(w, Len(os)) : Paired(w, os[i], os[i + w - 1])
  /\ \A i, j \in Starts(w, Len(os)) : os[i].fd = os[j].fd /\ os[i].fd # -1 => i = j

\* Every entry is in a row.
Covered(w, n) == \A i \in 1 .. n : \E j \in Starts(w, n) : i = j \/ i = j + w - 1

\* What may be added: a descriptor that has no row yet, or what stands for none.
Free(rows, fd) == fd = -1 \/ ~ HasRow(rows, fd)

\* No entry is in two rows.
Apart(w, n) ==
  \A i, j \in Starts(w, n) : i # j =>
    i + w - 1 # j + w - 1 /\ i + w - 1 # j /\ i # j + w - 1

\* Rows begin at every entry, or at every other one.
LEMMA StartsFacts ==
  ASSUME NEW w \in {1, 2}, NEW n \in Nat, Whole(w, n)
  PROVE  /\ \A i \in Starts(w, n) : i \in 1 .. n /\ i + w - 1 \in 1 .. n
         /\ Covered(w, n)
         /\ Apart(w, n)
         /\ Starts(w, n + w) = Starts(w, n) \cup {n + 1}
         /\ n + 1 \notin Starts(w, n)
         /\ n # 0 => /\ n - w \in Nat /\ n - w + 1 \in Starts(w, n)
                     /\ Starts(w, n - w) = Starts(w, n) \ {n - w + 1}
         /\ Whole(w, n + w) /\ (n # 0 => Whole(w, n - w))
<1>1. CASE w = 1
  BY <1>1 DEF Starts, Covered, Apart, Whole
<1>2. CASE w = 2
  <2>1. PICK k \in Nat : n = 2 * k
    BY <1>2 DEF Whole
  <2>2. Whole(w, n + w) /\ (n # 0 => n - w \in Nat /\ Whole(w, n - w))
    BY <1>2, <2>1 DEF Whole
  <2>3. \A i \in Starts(w, n) : i \in 1 .. n /\ i + w - 1 \in 1 .. n
    BY <1>2, <2>1 DEF Starts
  <2>4. Covered(w, n)
    <3> SUFFICES ASSUME NEW i \in 1 .. n
                 PROVE  \E j \in Starts(w, n) : i = j \/ i = j + w - 1
      BY DEF Covered
    <3>1. CASE i % 2 = 1
      BY <1>2, <3>1 DEF Starts
    <3>2. CASE i % 2 # 1
      <4>1. i - 1 \in 1 .. n /\ (i - 1) % 2 = 1 /\ i = (i - 1) + w - 1
        BY <1>2, <3>2
      <4> QED BY <1>2, <4>1 DEF Starts
    <3> QED BY <3>1, <3>2
  <2>5. Apart(w, n)
    BY <1>2 DEF Starts, Apart
  <2>6. Starts(w, n + w) = Starts(w, n) \cup {n + 1} /\ n + 1 \notin Starts(w, n)
    BY <1>2, <2>1 DEF Starts
  <2>7. n # 0 => /\ n - w + 1 \in Starts(w, n)
                 /\ Starts(w, n - w) = Starts(w, n) \ {n - w + 1}
    BY <1>2, <2>1 DEF Starts
  <2> QED BY <1>2, <2>2, <2>3, <2>4, <2>5, <2>6, <2>7
<1> QED BY <1>1, <1>2

-----------------------------------------------------------------------------
\* Searching the array.

Find(os, fd) == SelectInSeq(os, LAMBDA e : e.fd = fd)

\* A set of numbers that is not empty has a least one.
LEMMA LeastNumber ==
  ASSUME NEW T \in SUBSET Nat, T # {}
  PROVE  \E x \in T : \A y \in T : x <= y
<1> DEFINE R == {ss \in Nat \X Nat : ss[1] < ss[2]}
<1>1. IsWellFoundedOn(R, Nat)
  BY NatLessThanWellFounded DEF OpToRel
<1>2. \A x, y \in Nat : <<y, x>> \in R <=> y < x
  OBVIOUS
<1> HIDE DEF R
<1>3. PICK x \in T : \A y \in T : ~ (<<y, x>> \in R)
  BY <1>1, WFMin
<1>4. \A y \in T : x <= y
  <2> TAKE y \in T
  <2>1. x \in Nat /\ y \in Nat /\ ~ (y < x)
    BY <1>2, <1>3
  <2> QED BY <2>1
<1> QED BY <1>4

\* The search for a descriptor finds its first entry, or there is none.
LEMMA FindFacts ==
  ASSUME NEW S, NEW os \in Seq(S), NEW fd
  PROVE  /\ Find(os, fd) \in 0 .. Len(os)
         /\ Find(os, fd) # 0 =>
              /\ os[Find(os, fd)].fd = fd
              /\ \A j \in 1 .. Find(os, fd) - 1 : os[j].fd # fd
         /\ Find(os, fd) = 0 => \A j \in 1 .. Len(os) : os[j].fd # fd
<1> DEFINE I == {i \in 1 .. Len(os) : os[i].fd = fd}
<1>1. Len(os) \in Nat /\ I \in SUBSET Nat
  OBVIOUS
<1>2. Find(os, fd) = IF I # {} THEN Min(I) ELSE 0
  BY DEF Find, SelectInSeq
<1>3. CASE I = {}
  BY <1>1, <1>2, <1>3
<1>4. CASE I # {}
  <2>1. Min(I) \in I /\ \A y \in I : Min(I) <= y
    <3> HIDE DEF I
    <3>1. \E x \in I : \A y \in I : x <= y
      BY <1>1, <1>4, LeastNumber
    <3> QED BY <3>1 DEF Min
  <2>2. PICK m : m = Min(I)
    OBVIOUS
  <2>3. m \in 1 .. Len(os) /\ os[m].fd = fd /\ Find(os, fd) = m
    BY <1>2, <1>4, <2>1, <2>2
  <2>4. \A j \in 1 .. m - 1 : os[j].fd # fd
    <3> TAKE j \in 1 .. m - 1
    <3>1. j \in 1 .. Len(os) /\ ~ (m <= j)
      BY <1>1, <2>3
    <3> QED BY <2>1, <2>2, <3>1
  <2> QED BY <1>1, <2>3, <2>4
<1> QED BY <1>3, <1>4

\* What is found is the beginning of the descriptor's row.
LEMMA RowIsFound ==
  ASSUME NEW w \in {1, 2}, NEW S, NEW os \in Seq(S), Sound(w, os),
         NEW k \in Starts(w, Len(os)), os[k].fd # -1
  PROVE  Find(os, os[k].fd) = k
<1>1. PICK n \in Nat : n = Len(os) /\ Whole(w, n)
  BY DEF Sound
<1>2. PICK fd : fd = os[k].fd
  OBVIOUS
<1>3. k \in 1 .. n
  BY <1>1, StartsFacts
<1>4. PICK i \in 1 .. n : /\ i = Find(os, fd) /\ os[i].fd = fd
                          /\ \A j \in 1 .. i - 1 : os[j].fd # fd
  <2>1. PICK f : f = Find(os, fd)
    OBVIOUS
  <2>2. /\ f \in 0 .. n
        /\ f # 0 => os[f].fd = fd /\ \A j \in 1 .. f - 1 : os[j].fd # fd
        /\ f = 0 => \A j \in 1 .. n : os[j].fd # fd
    BY <1>1, <2>1, FindFacts
  <2>3. f # 0
    BY <1>2, <1>3, <2>2
  <2> QED BY <1>1, <2>1, <2>2, <2>3
<1>5. PICK j \in Starts(w, n) : i = j \/ i = j + w - 1
  <2>1. Covered(w, n)
    BY <1>1, StartsFacts
  <2> QED BY <2>1 DEF Covered
<1>6. i = j
  <2>1. CASE w = 1
    <3>1. j \in 1 .. n
      BY <1>1, StartsFacts
    <3> QED BY <1>5, <2>1, <3>1
  <2>2. CASE w = 2 /\ i = j + w - 1
    <3>1. j \in 1 .. n
      BY <1>1, StartsFacts
    <3>2. j \in 1 .. i - 1
      BY <2>2, <3>1
    <3>3. os[j].fd = os[i].fd
      <4>1. Paired(w, os[j], os[j + w - 1])
        BY <1>1, <1>5 DEF Sound
      <4> QED BY <2>2, <4>1 DEF Paired
    <3> QED BY <1>4, <3>2, <3>3
  <2> QED BY <1>5, <2>1, <2>2
<1>7. i = k
  BY <1>1, <1>2, <1>4, <1>5, <1>6 DEF Sound
<1> QED BY <1>2, <1>4, <1>7

-----------------------------------------------------------------------------
\* Changing the array.

\* add_to_event_loop on any array.
RowAppended(os, new) == os \o new

IsRow(w, new, a, b) == Len(new) = w /\ a = new[1] /\ b = new[w] /\ Paired(w, a, b)

\* It appends a row.
LEMMA RowAdded ==
  ASSUME NEW w \in {1, 2}, NEW S, NEW os \in Seq(S), Sound(w, os),
         NEW new \in Seq(S), NEW a, NEW b, IsRow(w, new, a, b), Free(Rows(w, os), a.fd),
         NEW u, u = RowAppended(os, new)
  PROVE  /\ u \in Seq(S) /\ Len(u) = Len(os) + w /\ Sound(w, u)
         /\ Rows(w, u) = Rows(w, os) \cup {<<a, b>>}
         /\ \A i \in 1 .. Len(os) : u[i] = os[i]
         /\ \A i \in 1 .. Len(u) : i \notin 1 .. Len(os) => u[i] = a \/ u[i] = b
<1> USE DEF IsRow
<1>1. PICK n \in Nat : n = Len(os) /\ Whole(w, n)
  BY DEF Sound
<1>2. /\ u \in Seq(S) /\ Len(u) = n + w
      /\ \A i \in 1 .. n + w : u[i] = IF i <= n THEN os[i] ELSE new[i - n]
  <2>1. /\ u \in Seq(S) /\ Len(u) = Len(os) + Len(new)
        /\ \A i \in 1 .. Len(os) + Len(new) :
             u[i] = IF i <= Len(os) THEN os[i] ELSE new[i - Len(os)]
    BY ConcatProperties DEF RowAppended
  <2> QED BY <1>1, <2>1
<1>3. \A i \in 1 .. n : u[i] = os[i]
  <2> TAKE i \in 1 .. n
  <2>1. i \in 1 .. n + w /\ i <= n
    BY <1>1
  <2> QED BY <1>2, <2>1
<1>4. \A i \in 1 .. w : u[n + i] = new[i]
  <2> TAKE i \in 1 .. w
  <2>1. n + i \in 1 .. n + w /\ ~ (n + i <= n) /\ (n + i) - n = i
    BY <1>1
  <2> QED BY <1>2, <2>1
<1>5. /\ Starts(w, n + w) = Starts(w, n) \cup {n + 1}
      /\ \A i \in Starts(w, n) : i \in 1 .. n /\ i + w - 1 \in 1 .. n
      /\ Whole(w, n + w)
  BY <1>1, StartsFacts
<1>6. \A i \in Starts(w, n) : u[i] = os[i] /\ u[i + w - 1] = os[i + w - 1]
  BY <1>3, <1>5
<1>7. u[n + 1] = a /\ u[n + 1 + w - 1] = b
  <2>1. 1 \in 1 .. w /\ w \in 1 .. w /\ n + 1 + w - 1 = n + w
    BY <1>1
  <2> QED BY <1>4, <2>1
<1>8. Rows(w, u) = Rows(w, os) \cup {<<a, b>>}
  <2>1. \A i \in Starts(w, n) : Row(w, u, i) = Row(w, os, i)
    BY <1>6 DEF Row
  <2>2. Row(w, u, n + 1) = <<a, b>>
    BY <1>7 DEF Row
  <2>3. /\ Rows(w, u) = {Row(w, u, i) : i \in Starts(w, n) \cup {n + 1}}
        /\ Rows(w, os) = {Row(w, os, i) : i \in Starts(w, n)}
    BY <1>1, <1>2, <1>5 DEF Rows
  <2>4. \A r : r \in Rows(w, u) <=> r \in Rows(w, os) \/ r = <<a, b>>
    <3> TAKE r
    <3>1. r \in Rows(w, u) <=> \E i \in Starts(w, n) \cup {n + 1} : r = Row(w, u, i)
      BY <2>3
    <3>2. r \in Rows(w, os) <=> \E i \in Starts(w, n) : r = Row(w, os, i)
      BY <2>3
    <3>3. PICK last : last = n + 1
      OBVIOUS
    <3> QED BY <2>1, <2>2, <3>1, <3>2, <3>3, Zenon
  <2> QED BY <2>4
<1>9. Sound(w, u)
  <2>1. \A i \in Starts(w, n + w) : Paired(w, u[i], u[i + w - 1])
    BY <1>1, <1>5, <1>6, <1>7 DEF Sound
  <2>2. ASSUME NEW i \in Starts(w, n + w), NEW j \in Starts(w, n + w),
               u[i].fd = u[j].fd, u[i].fd # -1
        PROVE  i = j
    <3>1. CASE i \in Starts(w, n) /\ j \in Starts(w, n)
      <4>1. os[i].fd = os[j].fd /\ os[i].fd # -1
        BY <1>6, <2>2, <3>1
      <4> QED BY <1>1, <3>1, <4>1 DEF Sound
    <3>2. \A k \in Starts(w, n) : os[k].fd # a.fd \/ a.fd = -1
      <4> TAKE k \in Starts(w, n)
      <4>1. Row(w, os, k) \in Rows(w, os) /\ Row(w, os, k)[1] = os[k]
        BY <1>1 DEF Rows, Row
      <4> QED BY <4>1 DEF Free, HasRow
    <3>3. CASE i = n + 1 /\ j \in Starts(w, n)
      BY <1>6, <1>7, <2>2, <3>2, <3>3
    <3>4. CASE j = n + 1 /\ i \in Starts(w, n)
      BY <1>6, <1>7, <2>2, <3>2, <3>4
    <3> QED BY <1>5, <3>1, <3>3, <3>4
  <2> QED BY <1>2, <1>5, <2>1, <2>2 DEF Sound
<1>10. \A i \in 1 .. n + w : i \notin 1 .. n => u[i] = a \/ u[i] = b
  <2> SUFFICES ASSUME NEW i \in 1 .. n + w, i \notin 1 .. n PROVE u[i] = a \/ u[i] = b
    OBVIOUS
  <2>1. i - n \in 1 .. w /\ i = n + (i - n) /\ (i - n = 1 \/ i - n = w)
    BY <1>1
  <2>2. PICK k \in 1 .. w : k = i - n
    BY <2>1
  <2>3. u[i] = new[k] /\ (k = 1 \/ k = w)
    BY <1>4, <2>1, <2>2
  <2> QED BY <2>3
<1> QED BY <1>1, <1>2, <1>3, <1>8, <1>9, <1>10

\* delete_from_event_loop on any array: the last row replaces the deleted one.
RowRemoved(w, os, at) ==
  [i \in 1 .. Len(os) - w |->
     IF i \in at .. at + w - 1 THEN os[Len(os) - w + 1 + (i - at)] ELSE os[i]]

\* What is left are the rows of the other descriptors.
LEMMA RowDeleted ==
  ASSUME NEW w \in {1, 2}, NEW S, NEW os \in Seq(S), Sound(w, os),
         NEW at \in Starts(w, Len(os)), os[at].fd # -1,
         NEW u, u = RowRemoved(w, os, at)
  PROVE  /\ u \in Seq(S) /\ Len(u) = Len(os) - w /\ Sound(w, u)
         /\ \A r : r \in Rows(w, u) <=> r \in Rows(w, os) /\ r[1].fd # os[at].fd
         /\ w = 1 => \A i \in 1 .. Len(u) : i # at => u[i] = os[i]
<1>1. PICK n \in Nat : n = Len(os) /\ Whole(w, n)
  BY DEF Sound
<1>2. at \in 1 .. n /\ at + w - 1 \in 1 .. n
  BY <1>1, StartsFacts
<1>3. PICK m \in Nat : m = n - w /\ n = m + w /\ Whole(w, m)
  <2>1. n # 0
    BY <1>2
  <2>2. n - w \in Nat /\ Whole(w, n - w)
    BY <1>1, <2>1, StartsFacts
  <2>3. PICK k \in Nat : k = n - w
    BY <2>2
  <2> QED BY <1>1, <2>2, <2>3
<1>4. /\ m + 1 \in Starts(w, n) /\ Starts(w, m) = Starts(w, n) \ {m + 1}
      /\ \A i \in Starts(w, n) : i \in 1 .. n /\ i + w - 1 \in 1 .. n
      /\ \A i \in Starts(w, m) : i \in 1 .. m /\ i + w - 1 \in 1 .. m
  <2>1. n # 0 /\ n - w + 1 = m + 1
    BY <1>2, <1>3
  <2>2. \A i \in Starts(w, m) : i \in 1 .. m /\ i + w - 1 \in 1 .. m
    BY <1>3, StartsFacts
  <2>3. m + 1 \in Starts(w, n) /\ Starts(w, m) = Starts(w, n) \ {m + 1}
    <3>1. n - w + 1 \in Starts(w, n) /\ Starts(w, n - w) = Starts(w, n) \ {n - w + 1}
      BY <1>1, <2>1, StartsFacts
    <3> QED BY <1>3, <2>1, <3>1
  <2>4. \A i \in Starts(w, n) : i \in 1 .. n /\ i + w - 1 \in 1 .. n
    BY <1>1, StartsFacts
  <2> QED BY <2>2, <2>3, <2>4
<1>5. u = [i \in 1 .. m |-> IF i \in at .. at + w - 1 THEN os[m + 1 + (i - at)] ELSE os[i]]
  BY <1>1, <1>3 DEF RowRemoved
<1>6. u \in Seq(S) /\ Len(u) = m
  <2>1. ASSUME NEW i \in 1 .. m
        PROVE  (IF i \in at .. at + w - 1 THEN os[m + 1 + (i - at)] ELSE os[i]) \in S
    <3>1. CASE i \in at .. at + w - 1
      <4>1. m + 1 + (i - at) \in 1 .. n
        BY <1>2, <1>3, <3>1
      <4> QED BY <1>1, <3>1, <4>1
    <3>2. CASE i \notin at .. at + w - 1
      <4>1. i \in 1 .. n
        BY <1>3
      <4> QED BY <1>1, <3>2, <4>1
    <3> QED BY <3>1, <3>2
  <2>2. u \in [1 .. m -> S]
    BY <1>5, <2>1
  <2> QED BY <2>2
<1>7. \A i \in Starts(w, m) : i # at => u[i] = os[i] /\ u[i + w - 1] = os[i + w - 1]
  <2> TAKE i \in Starts(w, m)
  <2> HAVE i # at
  <2>1. i \in 1 .. m /\ i + w - 1 \in 1 .. m /\ i \in Starts(w, n)
    BY <1>4
  <2>2. i \notin at .. at + w - 1 /\ i + w - 1 \notin at .. at + w - 1
    <3>1. CASE w = 1
      BY <1>2, <2>1, <3>1
    <3>2. CASE w = 2
      <4>1. i % 2 = 1 /\ at % 2 = 1
        BY <1>1, <2>1, <3>2 DEF Starts
      <4> QED BY <1>2, <2>1, <3>2, <4>1
    <3> QED BY <3>1, <3>2
  <2> QED BY <1>5, <2>1, <2>2
<1>8. at # m + 1 => /\ at \in Starts(w, m)
                    /\ u[at] = os[m + 1] /\ u[at + w - 1] = os[m + 1 + w - 1]
  <2> HAVE at # m + 1
  <2>1. at \in Starts(w, m) /\ at \in 1 .. m /\ at + w - 1 \in 1 .. m
    BY <1>1, <1>4
  <2>2. at \in at .. at + w - 1 /\ at + w - 1 \in at .. at + w - 1
    BY <2>1
  <2>3. m + 1 + (at - at) = m + 1 /\ m + 1 + (at + w - 1 - at) = m + 1 + w - 1
    BY <2>1
  <2> QED BY <1>5, <2>1, <2>2, <2>3
<1>9. \A i \in Starts(w, m) : \E k \in Starts(w, n) :
        /\ k = (IF i = at THEN m + 1 ELSE i) /\ k # at
        /\ u[i] = os[k] /\ u[i + w - 1] = os[k + w - 1]
  <2> TAKE i \in Starts(w, m)
  <2>1. CASE i = at
    <3>1. at # m + 1
      BY <1>4, <2>1
    <3> QED BY <1>4, <1>8, <2>1, <3>1
  <2>2. CASE i # at
    BY <1>4, <1>7, <2>2
  <2> QED BY <2>1, <2>2
<1>10. \A k \in Starts(w, n) : k # at => \E i \in Starts(w, m) :
         u[i] = os[k] /\ u[i + w - 1] = os[k + w - 1]
  <2> TAKE k \in Starts(w, n)
  <2> HAVE k # at
  <2>1. CASE k = m + 1
    BY <1>8, <2>1
  <2>2. CASE k # m + 1
    BY <1>4, <1>7, <2>2
  <2> QED BY <2>1, <2>2
<1>11. Sound(w, u)
  <2>1. \A i \in Starts(w, m) : Paired(w, u[i], u[i + w - 1])
    BY <1>1, <1>9 DEF Sound
  <2>2. ASSUME NEW i \in Starts(w, m), NEW j \in Starts(w, m), u[i].fd = u[j].fd, u[i].fd # -1
        PROVE  i = j
    <3>1. PICK k \in Starts(w, n) : k = (IF i = at THEN m + 1 ELSE i) /\ u[i] = os[k]
      BY <1>9
    <3>2. PICK l \in Starts(w, n) : l = (IF j = at THEN m + 1 ELSE j) /\ u[j] = os[l]
      BY <1>9
    <3>3. k = l
      BY <1>1, <2>2, <3>1, <3>2 DEF Sound
    <3>4. i # m + 1 /\ j # m + 1
      BY <1>4
    <3> QED BY <3>1, <3>2, <3>3, <3>4
  <2> QED BY <1>3, <1>6, <2>1, <2>2 DEF Sound
<1>12. \A r : r \in Rows(w, u) <=> r \in Rows(w, os) /\ r[1].fd # os[at].fd
  <2> TAKE r
  <2>1. ASSUME r \in Rows(w, u) PROVE r \in Rows(w, os) /\ r[1].fd # os[at].fd
    <3>1. PICK i \in Starts(w, m) : r = <<u[i], u[i + w - 1]>>
      BY <1>6, <2>1 DEF Rows, Row
    <3>2. PICK k \in Starts(w, n) : k # at /\ r = <<os[k], os[k + w - 1]>>
      BY <1>9, <3>1
    <3>3. r \in Rows(w, os)
      BY <1>1, <3>2 DEF Rows, Row
    <3>4. os[k].fd # os[at].fd
      BY <1>1, <3>2 DEF Sound
    <3> QED BY <3>2, <3>3, <3>4
  <2>2. ASSUME r \in Rows(w, os), r[1].fd # os[at].fd PROVE r \in Rows(w, u)
    <3>1. PICK k \in Starts(w, n) : r = <<os[k], os[k + w - 1]>>
      BY <1>1, <2>2 DEF Rows, Row
    <3>2. k # at
      BY <2>2, <3>1
    <3>3. PICK i \in Starts(w, m) : r = <<u[i], u[i + w - 1]>>
      BY <1>10, <3>1, <3>2
    <3> QED BY <1>6, <3>3 DEF Rows, Row
  <2> QED BY <2>1, <2>2
<1>13. w = 1 => \A i \in 1 .. m : i # at => u[i] = os[i]
  BY <1>2, <1>5
<1> QED BY <1>1, <1>3, <1>6, <1>11, <1>12, <1>13

\* Other values in the entries, of the same descriptors and filters.
LEMMA RowsRewritten ==
  ASSUME NEW w \in {1, 2}, NEW S, NEW os \in Seq(S), Sound(w, os),
         NEW T, NEW u \in Seq(T), Len(u) = Len(os),
         \A i \in 1 .. Len(os) : u[i].fd = os[i].fd /\ u[i].filter = os[i].filter,
         w = 2 => \A i \in Starts(w, Len(os)) : u[i].out <=> os[i].out
  PROVE  Sound(w, u)
<1>1. PICK n \in Nat : n = Len(os) /\ Whole(w, n)
  BY DEF Sound
<1>2. \A i \in Starts(w, n) : i \in 1 .. n /\ i + w - 1 \in 1 .. n
  BY <1>1, StartsFacts
<1>3. \A i \in Starts(w, n) : Paired(w, u[i], u[i + w - 1])
  <2> TAKE i \in Starts(w, n)
  <2>1. Paired(w, os[i], os[i + w - 1])
    BY <1>1 DEF Sound
  <2>2. w = 1 => i + w - 1 = i
    BY <1>2
  <2> QED BY <1>1, <1>2, <2>1, <2>2 DEF Paired
<1>4. \A i, j \in Starts(w, n) : u[i].fd = u[j].fd /\ u[i].fd # -1 => i = j
  <2>1. \A i \in Starts(w, n) : u[i].fd = os[i].fd
    BY <1>1, <1>2
  <2>2. \A i, j \in Starts(w, n) : os[i].fd = os[j].fd /\ os[i].fd # -1 => i = j
    BY <1>1 DEF Sound
  <2> QED BY <2>1, <2>2
<1> QED BY <1>1, <1>3, <1>4 DEF Sound

-----------------------------------------------------------------------------
\* The types of entries, and what the operations keep of them.

EntryTypes(m) ==
  [fd : Fds \cup {Listener, -1}, filter : {"read", "write", "both"}, out : BOOLEAN,
   revents : {"none", "in", "out"}, conn : 0 .. m]

\* A row is found by its first entry.
LEMMA RowBegins ==
  ASSUME NEW w, NEW os, NEW fd
  PROVE  HasRow(Rows(w, os), fd) <=> \E i \in Starts(w, Len(os)) : os[i].fd = fd
<1>1. \A i \in Starts(w, Len(os)) : Row(w, os, i)[1] = os[i]
  BY DEF Row
<1> QED BY <1>1 DEF HasRow, Rows

\* set_write_notify on any array.
OutReplaced(w, os, at, b) == [os EXCEPT ![at + w - 1].out = b]

\* It changes the watch for room to write of one descriptor.
LEMMA RowSet ==
  ASSUME NEW w \in {1, 2}, NEW m, NEW os \in Seq(EntryTypes(m)), Sound(w, os),
         NEW at \in Starts(w, Len(os)), os[at].fd # -1, NEW b \in BOOLEAN,
         NEW u, u = OutReplaced(w, os, at, b)
  PROVE  /\ u \in Seq(EntryTypes(m)) /\ Len(u) = Len(os) /\ Sound(w, u)
         /\ \A i \in 1 .. Len(os) :
              u[i].fd = os[i].fd /\ u[i].revents = os[i].revents /\ u[i].conn = os[i].conn
         /\ \A r \in Rows(w, u) :
              IF r[1].fd = os[at].fd THEN r[2].out <=> b ELSE r \in Rows(w, os)
         /\ \A fd : HasRow(Rows(w, u), fd) <=> HasRow(Rows(w, os), fd)
<1>1. PICK n \in Nat : n = Len(os) /\ Whole(w, n)
  BY DEF Sound
<1>2. /\ at \in Starts(w, n)
      /\ \A i \in Starts(w, n) : i \in 1 .. n /\ i + w - 1 \in 1 .. n
      /\ \A i, j \in Starts(w, n) : i # j =>
           i + w - 1 # j + w - 1 /\ i + w - 1 # j /\ i # j + w - 1
  <2>1. Apart(w, n) /\ \A i \in Starts(w, n) : i \in 1 .. n /\ i + w - 1 \in 1 .. n
    BY <1>1, StartsFacts
  <2> QED BY <1>1, <2>1 DEF Apart
<1>3. PICK k \in 1 .. n : k = at + w - 1
  BY <1>2
<1>4. u = [os EXCEPT ![k].out = b]
  BY <1>3 DEF OutReplaced
<1>5. os \in [1 .. n -> EntryTypes(m)]
  BY <1>1, LenProperties
<1>6. PICK e : e = [os[k] EXCEPT !.out = b]
  OBVIOUS
<1>7. /\ e \in EntryTypes(m) /\ e.fd = os[k].fd /\ e.filter = os[k].filter /\ (e.out <=> b)
      /\ e.revents = os[k].revents /\ e.conn = os[k].conn
  BY <1>5, <1>6 DEF EntryTypes
<1>8. u = [os EXCEPT ![k] = e]
  BY <1>4, <1>5, <1>6
<1>9. u \in Seq(EntryTypes(m)) /\ Len(u) = n
  <2>1. u \in [1 .. n -> EntryTypes(m)]
    BY <1>5, <1>7, <1>8
  <2> QED BY <2>1
<1>10. u[k] = e /\ \A i \in 1 .. n : i # k => u[i] = os[i]
  BY <1>5, <1>8
<1>11. \A i \in 1 .. n : u[i].fd = os[i].fd /\ u[i].filter = os[i].filter
                         /\ u[i].revents = os[i].revents /\ u[i].conn = os[i].conn
  BY <1>7, <1>10
<1>12. Sound(w, u)
  <2>1. w = 2 => \A i \in Starts(w, n) : u[i].out <=> os[i].out
    <3> SUFFICES ASSUME w = 2, NEW i \in Starts(w, n) PROVE u[i] = os[i]
      OBVIOUS
    <3>1. i # k
      <4>1. CASE i = at
        BY <1>2, <1>3, <4>1
      <4>2. CASE i # at
        BY <1>2, <1>3, <4>2
      <4> QED BY <4>1, <4>2
    <3> QED BY <1>2, <1>10, <3>1
  <2> QED BY <1>1, <1>9, <1>11, <2>1, RowsRewritten
<1>13. \A r \in Rows(w, u) :
         IF r[1].fd = os[at].fd THEN r[2].out <=> b ELSE r \in Rows(w, os)
  <2> TAKE r \in Rows(w, u)
  <2>1. PICK i \in Starts(w, n) : r = <<u[i], u[i + w - 1]>>
    BY <1>1, <1>9 DEF Rows, Row
  <2>2. CASE i = at
    <3>1. r[1].fd = os[at].fd /\ r[2] = e
      BY <1>2, <1>3, <1>10, <1>11, <2>1, <2>2
    <3> QED BY <1>7, <3>1
  <2>3. CASE i # at
    <3>1. r[1].fd # os[at].fd
      <4>1. os[i].fd # os[at].fd
        BY <1>1, <2>3 DEF Sound
      <4> QED BY <1>2, <1>11, <2>1, <4>1
    <3>2. i # k /\ i + w - 1 # k /\ i \in 1 .. n /\ i + w - 1 \in 1 .. n
      BY <1>2, <1>3, <2>3
    <3>3. r = <<os[i], os[i + w - 1]>>
      BY <1>10, <2>1, <3>2
    <3>4. r \in Rows(w, os)
      BY <1>1, <3>3 DEF Rows, Row
    <3> QED BY <3>1, <3>4
  <2> QED BY <2>2, <2>3
<1>14. ASSUME NEW fd PROVE HasRow(Rows(w, u), fd) <=> HasRow(Rows(w, os), fd)
  <2>1. HasRow(Rows(w, u), fd) <=> \E i \in Starts(w, n) : u[i].fd = fd
    BY <1>9, RowBegins
  <2>2. HasRow(Rows(w, os), fd) <=> \E i \in Starts(w, n) : os[i].fd = fd
    BY <1>1, RowBegins
  <2>3. \A i \in Starts(w, n) : u[i].fd = os[i].fd
    BY <1>2, <1>11
  <2> QED BY <2>1, <2>2, <2>3
<1> QED BY <1>1, <1>9, <1>11, <1>12, <1>13, <1>14

\* The watch of an entry.
Watch(e) == [fd |-> e.fd, filter |-> e.filter, out |-> e.out]

WatchTypes == [fd : Fds \cup {Listener}, filter : {"read", "write"}, out : BOOLEAN]

\* kevent registers the rows, all of them if none stands for no descriptor.
LEMMA KernelFacts ==
  ASSUME NEW m, NEW os \in Seq(EntryTypes(m)), Sound(2, os), NEW watches \in SUBSET WatchTypes
  PROVE  /\ Applied(os, watches) \subseteq WatchTypes
         /\ ~ HasRow(Rows(2, os), -1) => \A r \in Rows(2, os) :
              Watch(r[1]) \in Applied(os, watches) /\ Watch(r[2]) \in Applied(os, watches)
<1>1. PICK n \in Nat : n = Len(os) /\ Whole(2, n)
  BY DEF Sound
<1>2. Covered(2, n) /\ \A i \in Starts(2, n) : i \in 1 .. n /\ i + 2 - 1 \in 1 .. n
  BY <1>1, StartsFacts
<1>3. PICK s : s = os \o <<[fd |-> -1]>>
  OBVIOUS
<1>4. /\ s \in Seq(EntryTypes(m) \cup {[fd |-> -1]}) /\ Len(s) = n + 1
      /\ s[n + 1].fd = -1 /\ \A i \in 1 .. n : s[i] = os[i]
  <2>1. PICK x : x = [fd |-> -1]
    OBVIOUS
  <2>2. x.fd = -1
    BY <2>1
  <2>3. s = os \o <<x>>
    BY <1>3, <2>1
  <2>4. /\ s \in Seq(EntryTypes(m) \cup {x}) /\ Len(s) = n + 1
        /\ s[n + 1] = x /\ \A i \in 1 .. n : s[i] = os[i]
    BY <1>1, <2>3
  <2> QED BY <2>1, <2>2, <2>4
<1>5. PICK f \in 1 .. n + 1 : /\ f = Find(s, -1) /\ s[f].fd = -1
                              /\ \A j \in 1 .. f - 1 : s[j].fd # -1
  <2>1. PICK g : g = Find(s, -1)
    OBVIOUS
  <2>2. /\ g \in 0 .. n + 1
        /\ g # 0 => s[g].fd = -1 /\ \A j \in 1 .. g - 1 : s[j].fd # -1
        /\ g = 0 => \A j \in 1 .. n + 1 : s[j].fd # -1
    BY <1>4, <2>1, FindFacts
  <2>3. g # 0
    BY <1>4, <2>2
  <2> QED BY <2>1, <2>2, <2>3
<1>6. PICK taken : taken = SubSeq(os, 1, f - 1)
  OBVIOUS
<1>7. ToSet(taken) = {os[i] : i \in 1 .. f - 1}
  <2>1. taken = [i \in 1 .. f - 1 |-> os[i]]
    BY <1>1, <1>6
  <2>2. DOMAIN taken = 1 .. f - 1 /\ \A i \in 1 .. f - 1 : taken[i] = os[i]
    BY <2>1
  <2> QED BY <2>2 DEF ToSet
<1>8. PICK new : new = {Watch(e) : e \in ToSet(taken)}
  OBVIOUS
<1>9. Applied(os, watches) =
        {v \in watches : \A x \in new : <<x.fd, x.filter>> # <<v.fd, v.filter>>} \cup new
  BY <1>3, <1>5, <1>6, <1>8 DEF Applied, Watch, Find
<1>10. \A i \in 1 .. n : os[i].filter \in {"read", "write"} /\ os[i] \in EntryTypes(m)
  <2> TAKE i \in 1 .. n
  <2>1. PICK j \in Starts(2, n) : i = j \/ i = j + 2 - 1
    BY <1>2 DEF Covered
  <2>2. Paired(2, os[j], os[j + 2 - 1])
    BY <1>1 DEF Sound
  <2> QED BY <1>1, <2>1, <2>2 DEF Paired
<1>11. new \subseteq WatchTypes
  <2> SUFFICES ASSUME NEW i \in 1 .. f - 1 PROVE Watch(os[i]) \in WatchTypes
    BY <1>7, <1>8
  <2>1. i \in 1 .. n
    BY <1>5
  <2>2. os[i].fd # -1
    BY <1>4, <1>5, <2>1
  <2> QED BY <1>10, <2>1, <2>2 DEF WatchTypes, Watch, EntryTypes
<1>12. ASSUME ~ HasRow(Rows(2, os), -1), NEW r \in Rows(2, os)
       PROVE  Watch(r[1]) \in new /\ Watch(r[2]) \in new
  <2>1. \A j \in Starts(2, n) : os[j].fd # -1 /\ os[j + 2 - 1].fd # -1
    <3> TAKE j \in Starts(2, n)
    <3>1. Paired(2, os[j], os[j + 2 - 1])
      BY <1>1 DEF Sound
    <3>2. os[j].fd # -1
      BY <1>1, <1>12, RowBegins
    <3> QED BY <3>1, <3>2 DEF Paired
  <2>2. \A i \in 1 .. n : os[i].fd # -1
    <3> TAKE i \in 1 .. n
    <3>1. PICK j \in Starts(2, n) : i = j \/ i = j + 2 - 1
      BY <1>2 DEF Covered
    <3> QED BY <2>1, <3>1
  <2>3. f = n + 1
    <3>1. f \notin 1 .. n
      BY <1>4, <1>5, <2>2
    <3> QED BY <1>5, <3>1
  <2>4. PICK i \in Starts(2, n) : r = <<os[i], os[i + 2 - 1]>>
    BY <1>1, <1>12 DEF Rows, Row
  <2>5. os[i] \in ToSet(taken) /\ os[i + 2 - 1] \in ToSet(taken)
    BY <1>2, <1>7, <2>3, <2>4
  <2> QED BY <1>8, <2>4, <2>5
<1> QED BY <1>9, <1>11, <1>12

-----------------------------------------------------------------------------
\* Sizes.

\* A number reached from another by doubling it.
Doubled(start, n) ==
  \A T \in SUBSET Nat : start \in T /\ (\A k \in T : 2 * k \in T) => n \in T

\* What was doubled can be doubled again, and halved until it is what it was at first.
LEMMA DoubledFacts ==
  ASSUME NEW start \in Nat \ {0}, NEW n, Doubled(start, n)
  PROVE  /\ n \in Nat \ {0} /\ Doubled(start, 2 * n)
         /\ n # start => \E k \in Nat : n = 2 * k /\ Doubled(start, k)
         /\ start % 2 = 0 => n % 2 = 0
<1>1. n \in Nat \ {0}
  <2>1. Nat \ {0} \in SUBSET Nat /\ \A k \in Nat \ {0} : 2 * k \in Nat \ {0}
    OBVIOUS
  <2> QED BY <2>1 DEF Doubled
<1>2. Doubled(start, 2 * n)
  BY DEF Doubled
<1>3. n # start => \E k \in Nat : n = 2 * k /\ Doubled(start, k)
  <2> DEFINE T == {m \in Nat : /\ Doubled(start, m)
                               /\ m = start \/ \E k \in Nat : m = 2 * k /\ Doubled(start, k)}
  <2>1. T \in SUBSET Nat
    OBVIOUS
  <2>2. start \in T
    <3>1. Doubled(start, start)
      BY DEF Doubled
    <3> QED BY <3>1
  <2>3. ASSUME NEW m \in T PROVE 2 * m \in T
    <3>1. m \in Nat /\ Doubled(start, m) /\ 2 * m \in Nat
      OBVIOUS
    <3>2. Doubled(start, 2 * m)
      BY <3>1 DEF Doubled
    <3> QED BY <3>1, <3>2
  <2>4. n \in T
    <3> HIDE DEF T
    <3> QED BY <2>1, <2>2, <2>3 DEF Doubled
  <2> QED BY <2>4
<1>4. start % 2 = 0 => n % 2 = 0
  <2> HAVE start % 2 = 0
  <2> DEFINE T == {m \in Nat : m % 2 = 0}
  <2>1. T \in SUBSET Nat /\ start \in T /\ \A k \in T : 2 * k \in T
    OBVIOUS
  <2>2. n \in T
    <3> HIDE DEF T
    <3> QED BY <2>1 DEF Doubled
  <2> QED BY <2>2
<1> QED BY <1>1, <1>2, <1>3, <1>4

-----------------------------------------------------------------------------
\* The invariant.

Room == Rows(Width, objects)

HandlerTypes ==
  /\ build \in {"kqueue", "poll"} /\ {size, capacity, backlog, outputs} \subseteq Nat
  /\ denied \in BOOLEAN /\ kernel \subseteq WatchTypes
  /\ made \in 0 .. MaxConnections /\ owner \in [Fds -> 0 .. made]
  /\ output \subseteq clients /\ clients \subseteq {owner[fd] : fd \in Fds} /\ 0 \notin clients

ArrayType == objects \in Seq(EntryTypes(made))
InRows == Sound(Width, objects)

\* The array never has more entries than its size, and what is allocated is enough for
\* it unless realloc failed.
WellSized ==
  /\ Len(objects) <= size /\ Doubled(Initial[build], size)
  /\ ~ denied => size <= capacity

\* Every connection that is open has a row, and the listener.
Complete ==
  \A fd : fd # -1 =>
    (HasRow(Room, fd) <=> fd = Listener \/ (fd \in Fds /\ owner[fd] # 0))

OutputsInRows ==
  \A r \in Room : r[1].fd \in Fds => (r[2].out <=> owner[r[1].fd] \in output)

KernelHas ==
  KQueue /\ ~ HasRow(Room, -1) =>
    \A r \in Room : Watch(r[1]) \in kernel /\ Watch(r[2]) \in kernel

\* A connection has one descriptor; connections yet to be made have none.
Owners ==
  /\ \A f, g \in Fds : owner[f] = owner[g] /\ owner[f] # 0 => f = g
  /\ 0 \notin pending /\ made + backlog <= MaxConnections

HInv ==
  /\ HandlerTypes /\ ArrayType /\ InRows /\ WellSized
  /\ Complete /\ OutputsInRows /\ KernelHas /\ Owners

\* Events of the batch: input is of the connection that has the descriptor, and that is
\* still a client while the event for its output waits as well.
BatchInOrder ==
  /\ batch # {} => KQueue
  /\ batch \subseteq [fd : Fds \cup {Listener}, what : {"in", "out"}, conn : Nat]
  /\ \A e \in batch : e.fd = Listener => e.what = "in"
  /\ \A e \in batch : e.what = "in" /\ e.fd # Listener => owner[e.fd] = e.conn /\ e.conn # 0
  /\ \A e, d \in batch :
       e.fd = d.fd /\ e.what = "in" /\ d.what = "out" => owner[e.fd] \in clients

\* The entry the loop stands at was reported, and so were those behind it for the
\* connections that have them, or they are new.
WalkInOrder ==
  /\ walk \in 0 .. Len(objects)
  /\ walk # 0 =>
       /\ ~ KQueue /\ objects[walk].revents # "none"
       /\ \A i \in walk .. Len(objects) :
            objects[i].revents # "none" /\ objects[i].fd \in Fds =>
              objects[i].conn \in {0, owner[objects[i].fd]}

EInv == HInv /\ BatchInOrder /\ WalkInOrder

-----------------------------------------------------------------------------
\* The operations of the loop.

\* The listener is no connection's descriptor; a row has one entry or two.
LEMMA Numbers ==
  /\ Listener # -1 /\ Listener \notin Fds /\ -1 \notin Fds /\ Fds \subseteq Nat
  /\ Width \in {1, 2} /\ (KQueue <=> Width = 2)
<1>1. -1 \notin Nat
  OBVIOUS
<1> QED BY <1>1, ArrayAssumption DEF ArrayAssumption, Width

\* What is found for a descriptor that has a row.
LEMMA IndexFacts ==
  ASSUME HInv, NEW fd, fd # -1, HasRow(Room, fd)
  PROVE  /\ Index(fd) \in Starts(Width, Len(objects)) /\ objects[Index(fd)].fd = fd
         /\ Index(fd) + Width - 1 \in 1 .. Len(objects)
         /\ Row(Width, objects, Index(fd)) \in Room
<1>1. PICK i \in Starts(Width, Len(objects)) : objects[i].fd = fd
  BY RowBegins DEF Room
<1>2. Sound(Width, objects) /\ objects \in Seq(EntryTypes(made)) /\ Width \in {1, 2}
  BY Numbers DEF HInv, InRows, ArrayType
<1>3. Find(objects, fd) = i
  BY <1>1, <1>2, RowIsFound
<1>4. Index(fd) = i
  BY <1>3 DEF Index, Find
<1>5. Whole(Width, Len(objects)) /\ Len(objects) \in Nat
  BY <1>2 DEF Sound
<1>6. i + Width - 1 \in 1 .. Len(objects)
  BY <1>2, <1>5, StartsFacts
<1>7. Row(Width, objects, i) \in Room
  BY <1>1 DEF Room, Rows
<1> QED BY <1>1, <1>4, <1>6, <1>7

\* The kernel's copy is brought up to date after each change.
LEMMA KernelFollows ==
  ASSUME HInv, build' = build, KEvent,
         NEW m, objects' \in Seq(EntryTypes(m)), Sound(Width, objects')
  PROVE  kernel' \subseteq WatchTypes /\ KernelHas'
<1>1. Width' = Width /\ (KQueue' <=> KQueue)
  BY DEF Width, KQueue
<1>2. kernel \in SUBSET WatchTypes
  BY DEF HInv, HandlerTypes
<1>3. CASE ~ KQueue
  BY <1>1, <1>2, <1>3 DEF KEvent, KernelHas
<1>4. CASE KQueue
  <2>1. kernel' = Applied(objects', kernel) /\ Width = 2
    BY <1>4, Numbers DEF KEvent
  <2>2. Sound(2, objects')
    BY <2>1
  <2>3. /\ Applied(objects', kernel) \subseteq WatchTypes
        /\ ~ HasRow(Rows(2, objects'), -1) => \A r \in Rows(2, objects') :
             /\ Watch(r[1]) \in Applied(objects', kernel)
             /\ Watch(r[2]) \in Applied(objects', kernel)
    BY <1>2, <2>2, KernelFacts
  <2>4. Room' = Rows(2, objects')
    BY <1>1, <2>1 DEF Room
  <2> QED BY <2>1, <2>3, <2>4 DEF KernelHas
<1> QED BY <1>3, <1>4

\* What is added for a descriptor is a row, not watched for room to write.
LEMMA NewRow ==
  ASSUME NEW m \in Nat, NEW fd \in Fds \cup {Listener, -1},
         NEW garbage \in {"none", "in", "out"}, NEW new, new = Entries(fd, garbage)
  PROVE  /\ new \in Seq(EntryTypes(m)) /\ IsRow(Width, new, new[1], new[Width])
         /\ new[1].fd = fd /\ ~ new[1].out /\ ~ new[Width].out
         /\ new[1].conn = 0 /\ new[Width].conn = 0
<1> DEFINE entry(filter) == [fd |-> fd, filter |-> filter, out |-> FALSE,
                             revents |-> garbage, conn |-> 0]
<1>1. \A filter \in {"read", "write", "both"} :
        /\ entry(filter) \in EntryTypes(m) /\ entry(filter).fd = fd
        /\ entry(filter).filter = filter /\ ~ entry(filter).out /\ entry(filter).conn = 0
  BY DEF EntryTypes
<1>2. CASE Width = 1
  <2>1. new = <<entry("both")>>
    <3>1. ~ KQueue
      BY <1>2, Numbers
    <3> QED BY <3>1 DEF Entries
  <2> HIDE DEF entry
  <2>2. new \in Seq(EntryTypes(m)) /\ Len(new) = 1 /\ new[1] = entry("both")
    BY <1>1, <2>1
  <2> QED BY <1>1, <1>2, <2>2 DEF IsRow, Paired
<1>3. CASE Width = 2
  <2>1. new = <<entry("read"), entry("write")>>
    <3>1. KQueue
      BY <1>3, Numbers
    <3> QED BY <3>1 DEF Entries
  <2> HIDE DEF entry
  <2>2. /\ new \in Seq(EntryTypes(m)) /\ Len(new) = 2
        /\ new[1] = entry("read") /\ new[2] = entry("write")
    BY <1>1, <2>1
  <2> QED BY <1>1, <1>3, <2>2 DEF IsRow, Paired
<1> QED BY <1>2, <1>3, Numbers

\* add_to_event_loop.
LEMMA AddedFacts ==
  ASSUME HInv, build' = build, NEW fd \in Fds \cup {-1}, fd # -1 => owner[fd] = 0,
         AddToEventLoop(fd)
  PROVE  /\ objects' \in Seq(EntryTypes(made)) /\ Sound(Width, objects')
         /\ \E a, b : a.fd = fd /\ ~ b.out /\ Rows(Width, objects') = Room \cup {<<a, b>>}
         /\ \A i \in 1 .. Len(objects) : i \in 1 .. Len(objects') /\ objects'[i] = objects[i]
         /\ \A i \in 1 .. Len(objects') : i \notin 1 .. Len(objects) => objects'[i].conn = 0
         /\ WellSized' /\ {size', capacity'} \subseteq Nat /\ denied' \in BOOLEAN
         /\ kernel' \subseteq WatchTypes /\ KernelHas'
<1>1. PICK garbage \in {"none", "in", "out"} : objects' = objects \o Entries(fd, garbage)
  BY DEF AddToEventLoop
<1>2. PICK new, a, b : new = Entries(fd, garbage) /\ a = new[1] /\ b = new[Width]
  OBVIOUS
<1>3. PICK w \in {1, 2} : w = Width /\ (KQueue <=> w = 2)
  BY Numbers
<1>4. made \in Nat /\ objects \in Seq(EntryTypes(made)) /\ Sound(w, objects)
  BY <1>3, ArrayAssumption DEF HInv, HandlerTypes, ArrayType, InRows, ArrayAssumption
<1>5. /\ new \in Seq(EntryTypes(made)) /\ IsRow(w, new, a, b) /\ a.fd = fd
      /\ ~ b.out /\ a.conn = 0 /\ b.conn = 0
  <2>1. PICK m \in Nat : m = made
    BY <1>4
  <2>2. fd \in Fds \cup {Listener, -1}
    OBVIOUS
  <2>3. /\ new \in Seq(EntryTypes(m)) /\ IsRow(Width, new, new[1], new[Width])
        /\ new[1].fd = fd /\ ~ new[Width].out
        /\ new[1].conn = 0 /\ new[Width].conn = 0
    BY <1>2, <2>2, NewRow
  <2> QED BY <1>2, <1>3, <2>1, <2>3
<1>6. Free(Rows(w, objects), a.fd)
  <2>1. CASE fd = -1
    BY <1>5, <2>1 DEF Free
  <2>2. CASE fd # -1
    <3>1. ~ HasRow(Room, fd)
      BY <2>2, Numbers DEF HInv, Complete
    <3> QED BY <1>3, <1>5, <3>1 DEF Free, Room
  <2> QED BY <2>1, <2>2
<1>7. PICK u : u = RowAppended(objects, new)
  OBVIOUS
<1>8. /\ u \in Seq(EntryTypes(made)) /\ Len(u) = Len(objects) + w /\ Sound(w, u)
      /\ Rows(w, u) = Rows(w, objects) \cup {<<a, b>>}
      /\ \A i \in 1 .. Len(objects) : u[i] = objects[i]
      /\ \A i \in 1 .. Len(u) : i \notin 1 .. Len(objects) => u[i] = a \/ u[i] = b
  <2>1. new \in Seq(EntryTypes(made)) /\ IsRow(w, new, a, b)
    BY <1>5
  <2> QED BY <1>4, <1>6, <1>7, <2>1, RowAdded
<1>9. objects' = u
  BY <1>1, <1>2, <1>7 DEF RowAppended
<1>10. PICK n \in Nat : n = Len(objects) /\ Whole(w, n)
  BY <1>4 DEF Sound
<1>11. \A i \in 1 .. n : i \in 1 .. Len(objects')
  BY <1>8, <1>9, <1>10
<1>12. \A i \in 1 .. Len(objects') : i \notin 1 .. n => objects'[i].conn = 0
  BY <1>5, <1>8, <1>9, <1>10
<1>13. KernelHas' /\ kernel' \subseteq WatchTypes
  BY <1>3, <1>8, <1>9, KernelFollows DEF AddToEventLoop
<1>14. WellSized' /\ {size', capacity'} \subseteq Nat /\ denied' \in BOOLEAN
  <2>1. PICK start \in Nat \ {0} : start = Initial[build] /\ (w = 2 => start % 2 = 0)
    BY <1>3, ArrayAssumption DEF ArrayAssumption, HInv, HandlerTypes, KQueue
  <2>2. size \in Nat /\ capacity \in Nat /\ denied \in BOOLEAN
    BY DEF HInv, HandlerTypes
  <2>3. n <= size /\ Doubled(start, size) /\ (~ denied => size <= capacity)
    BY <1>10, <2>1 DEF HInv, WellSized
  <2>4. size # 0 /\ Doubled(start, 2 * size) /\ (w = 2 => size % 2 = 0)
    BY <2>1, <2>3, DoubledFacts
  <2>5. Grow
    BY DEF AddToEventLoop
  <2>6. CASE n # size
    <3>1. UNCHANGED <<size, capacity, denied>>
      BY <1>10, <2>5, <2>6 DEF Grow, Full
    <3>2. n + w <= size
      <4>1. CASE w = 1
        BY <2>2, <2>3, <2>6, <4>1
      <4>2. CASE w = 2
        <5>1. n % 2 = 0 /\ size % 2 = 0
          BY <1>10, <2>4, <4>2 DEF Whole
        <5> QED BY <2>2, <2>3, <2>6, <4>2, <5>1
      <4> QED BY <4>1, <4>2
    <3> QED BY <1>8, <1>9, <1>10, <2>1, <2>2, <2>3, <3>1, <3>2 DEF WellSized
  <2>7. CASE n = size
    <3>1. /\ size' = 2 * size
          /\ (capacity' = size' /\ denied' = denied) \/ (denied' = TRUE /\ capacity' = capacity)
      BY <1>10, <2>5, <2>7 DEF Grow, Full
    <3>2. n + w <= 2 * size
      <4>1. CASE w = 1
        BY <2>2, <2>4, <2>7, <4>1
      <4>2. CASE w = 2
        BY <2>2, <2>4, <2>7, <4>2
      <4> QED BY <4>1, <4>2
    <3>3. size' \in Nat /\ Doubled(start, size')
      BY <2>2, <2>4, <3>1
    <3>4. capacity' \in Nat /\ denied' \in BOOLEAN /\ (~ denied' => size' <= capacity')
      <4>1. CASE capacity' = size' /\ denied' = denied
        BY <2>2, <3>3, <4>1
      <4>2. CASE denied' = TRUE /\ capacity' = capacity
        BY <2>2, <4>2
      <4> QED BY <3>1, <4>1, <4>2
    <3>5. Len(objects') <= size'
      BY <1>8, <1>9, <1>10, <3>1, <3>2
    <3> QED BY <2>1, <3>3, <3>4, <3>5 DEF WellSized
  <2> QED BY <2>6, <2>7
<1> QED BY <1>3, <1>5, <1>8, <1>9, <1>10, <1>11, <1>12, <1>13, <1>14 DEF Room

\* delete_from_event_loop, for a descriptor that is watched.
LEMMA DeletedFacts ==
  ASSUME HInv, build' = build, NEW fd \in Fds, owner[fd] # 0, DeleteFromEventLoop(fd)
  PROVE  /\ objects' \in Seq(EntryTypes(made)) /\ Sound(Width, objects')
         /\ \A r : r \in Rows(Width, objects') <=> r \in Room /\ r[1].fd # fd
         /\ ~ KQueue => \A k \in 1 .. Len(objects) : objects[k].fd = fd =>
              \A i \in 1 .. Len(objects') : i > k =>
                i \in 1 .. Len(objects) /\ objects'[i] = objects[i]
         /\ WellSized' /\ {size', capacity'} \subseteq Nat /\ denied' \in BOOLEAN
         /\ kernel' \subseteq WatchTypes /\ KernelHas'
<1>1. PICK w \in {1, 2} : w = Width /\ (KQueue <=> w = 2)
  BY Numbers
<1>2. objects \in Seq(EntryTypes(made)) /\ Sound(w, objects)
  BY <1>1 DEF HInv, ArrayType, InRows
<1>3. fd # -1 /\ HasRow(Room, fd)
  BY Numbers DEF HInv, Complete
<1>4. PICK at \in Starts(w, Len(objects)) : at = Index(fd) /\ objects[at].fd = fd
  BY <1>1, <1>3, IndexFacts
<1>5. PICK u : u = RowRemoved(w, objects, at)
  OBVIOUS
<1>6. /\ u \in Seq(EntryTypes(made)) /\ Len(u) = Len(objects) - w /\ Sound(w, u)
      /\ \A r : r \in Rows(w, u) <=> r \in Rows(w, objects) /\ r[1].fd # objects[at].fd
      /\ w = 1 => \A i \in 1 .. Len(u) : i # at => u[i] = objects[i]
  BY <1>2, <1>3, <1>4, <1>5, RowDeleted
<1>7. objects' = u
  BY <1>1, <1>4, <1>5 DEF DeleteFromEventLoop, Moved, RowRemoved
<1>8. \A r : r \in Rows(Width, objects') <=> r \in Room /\ r[1].fd # fd
  BY <1>1, <1>4, <1>6, <1>7 DEF Room
<1>9. PICK n \in Nat, m \in Nat : n = Len(objects) /\ m = Len(u) /\ m = n - w /\ m <= n
  <2>1. Len(objects) \in Nat /\ Len(u) \in Nat
    BY <1>2, <1>6, LenProperties
  <2> QED BY <1>6, <2>1
<1>10. ASSUME ~ KQueue, NEW k \in 1 .. n, objects[k].fd = fd, NEW i \in 1 .. m, i > k
       PROVE  i \in 1 .. n /\ objects'[i] = objects[i]
  <2>1. w = 1 /\ i \in 1 .. n
    BY <1>1, <1>9, <1>10
  <2>2. k \in Starts(w, n)
    BY <2>1 DEF Starts
  <2>3. k = at
    BY <1>2, <1>3, <1>4, <1>9, <1>10, <2>2 DEF Sound
  <2> QED BY <1>6, <1>7, <1>9, <1>10, <2>1, <2>3
<1>11. WellSized' /\ {size', capacity'} \subseteq Nat /\ denied' = denied
  <2>1. PICK start \in Nat \ {0} : start = Initial[build]
    BY ArrayAssumption DEF ArrayAssumption, HInv, HandlerTypes
  <2>2. size \in Nat /\ capacity \in Nat
    BY DEF HInv, HandlerTypes
  <2>3. n <= size /\ Doubled(start, size) /\ (~ denied => size <= capacity)
    BY <1>9, <2>1 DEF HInv, WellSized
  <2>4. denied' = denied
    BY DEF DeleteFromEventLoop
  <2>5. CASE size = start \/ ~ Sparse(m)
    <3>1. size' = size /\ capacity' = capacity
      BY <1>7, <1>9, <2>1, <2>5 DEF DeleteFromEventLoop
    <3>2. m <= size
      BY <1>9, <2>2, <2>3
    <3> QED BY <1>7, <1>9, <2>1, <2>2, <2>3, <2>4, <3>1, <3>2 DEF WellSized
  <2>6. CASE size # start /\ Sparse(m)
    <3>1. size' = size \div 2 /\ (capacity' = size' \/ capacity' = capacity)
      BY <1>7, <1>9, <2>1, <2>6 DEF DeleteFromEventLoop
    <3>2. PICK half \in Nat : size = 2 * half /\ Doubled(start, half)
      BY <2>1, <2>3, <2>6, DoubledFacts
    <3>3. size' = half /\ half <= size
      BY <3>1, <3>2
    <3>4. m <= half
      BY <2>2, <2>6, <3>2 DEF Sparse
    <3>5. capacity' \in Nat /\ (~ denied => half <= capacity')
      BY <2>2, <2>3, <3>1, <3>2, <3>3
    <3> QED BY <1>7, <1>9, <2>1, <2>4, <3>2, <3>3, <3>4, <3>5 DEF WellSized
  <2> QED BY <2>5, <2>6
<1>12. kernel' \subseteq WatchTypes /\ KernelHas'
  <2>1. kernel' = {v \in kernel : v.fd # fd}
    BY DEF DeleteFromEventLoop
  <2>2. kernel' \subseteq WatchTypes
    BY <2>1 DEF HInv, HandlerTypes
  <2>3. Room' = Rows(Width, objects') /\ (KQueue' <=> KQueue)
    BY DEF Room, Width, KQueue
  <2>4. ASSUME KQueue, ~ HasRow(Room', -1), NEW r \in Room'
        PROVE  Watch(r[1]) \in kernel' /\ Watch(r[2]) \in kernel'
    <3>1. r \in Room /\ r[1].fd # fd
      BY <1>8, <2>3, <2>4
    <3>2. ~ HasRow(Room, -1)
      BY <1>3, <1>8, <2>3, <2>4 DEF HasRow
    <3>3. Watch(r[1]) \in kernel /\ Watch(r[2]) \in kernel
      BY <2>4, <3>1, <3>2 DEF HInv, KernelHas
    <3>4. r[1].fd = r[2].fd
      <4>1. PICK i \in Starts(w, n) : r = <<objects[i], objects[i + w - 1]>>
        BY <1>1, <1>9, <3>1 DEF Room, Rows, Row
      <4>2. Paired(w, objects[i], objects[i + w - 1])
        BY <1>2, <1>9 DEF Sound
      <4> QED BY <4>1, <4>2 DEF Paired
    <3> QED BY <2>1, <3>1, <3>3, <3>4 DEF Watch
  <2> QED BY <2>2, <2>3, <2>4 DEF KernelHas
<1> QED BY <1>1, <1>6, <1>7, <1>8, <1>9, <1>10, <1>11, <1>12 DEF HInv, HandlerTypes

\* set_write_notify, for a descriptor that is watched.
LEMMA SetFacts ==
  ASSUME HInv, build' = build, NEW fd \in Fds, owner[fd] # 0, NEW b \in BOOLEAN,
         SetWriteNotify(fd, b)
  PROVE  /\ objects' \in Seq(EntryTypes(made)) /\ Sound(Width, objects')
         /\ \A r \in Rows(Width, objects') : IF r[1].fd = fd THEN r[2].out <=> b ELSE r \in Room
         /\ \A g : HasRow(Rows(Width, objects'), g) <=> HasRow(Room, g)
         /\ Len(objects') = Len(objects)
         /\ \A i \in 1 .. Len(objects) :
              /\ objects'[i].fd = objects[i].fd /\ objects'[i].revents = objects[i].revents
              /\ objects'[i].conn = objects[i].conn
         /\ WellSized' /\ kernel' \subseteq WatchTypes /\ KernelHas'
<1>1. PICK w \in {1, 2} : w = Width
  BY Numbers
<1>2. objects \in Seq(EntryTypes(made)) /\ Sound(w, objects)
  BY <1>1 DEF HInv, ArrayType, InRows
<1>3. fd # -1 /\ HasRow(Room, fd)
  BY Numbers DEF HInv, Complete
<1>4. PICK at \in Starts(w, Len(objects)) : at = Index(fd) /\ objects[at].fd = fd
  BY <1>1, <1>3, IndexFacts
<1>5. PICK u : u = OutReplaced(w, objects, at, b)
  OBVIOUS
<1>6. /\ u \in Seq(EntryTypes(made)) /\ Len(u) = Len(objects) /\ Sound(w, u)
      /\ \A i \in 1 .. Len(objects) :
           /\ u[i].fd = objects[i].fd /\ u[i].revents = objects[i].revents
           /\ u[i].conn = objects[i].conn
      /\ \A r \in Rows(w, u) :
           IF r[1].fd = objects[at].fd THEN r[2].out <=> b ELSE r \in Rows(w, objects)
      /\ \A g : HasRow(Rows(w, u), g) <=> HasRow(Rows(w, objects), g)
  BY <1>2, <1>3, <1>4, <1>5, RowSet
<1>7. objects' = u
  BY <1>1, <1>4, <1>5 DEF SetWriteNotify, OutReplaced
<1>8. kernel' \subseteq WatchTypes /\ KernelHas'
  BY <1>1, <1>6, <1>7, KernelFollows DEF SetWriteNotify
<1>9. WellSized'
  BY <1>6, <1>7 DEF SetWriteNotify, HInv, WellSized
<1> QED BY <1>1, <1>4, <1>6, <1>7, <1>8, <1>9 DEF Room

-----------------------------------------------------------------------------
\* The handlers.

\* The connection of a descriptor goes on, as a client if it is one.
Stays(g) ==
  owner[g] # 0 => owner'[g] = owner[g] /\ (owner[g] \in clients => owner[g] \in clients')

\* With poll, what is behind the entry of a descriptor is new or was there.
EntriesStay(fd) ==
  ~ KQueue =>
    \A k \in 1 .. Len(objects) : objects[k].fd = fd =>
      \A i \in 1 .. Len(objects') : i > k =>
        \/ objects'[i].conn = 0
        \/ /\ i \in 1 .. Len(objects) /\ objects'[i].fd = objects[i].fd
           /\ objects'[i].conn = objects[i].conn /\ objects'[i].revents = objects[i].revents

\* Types of entries grow with the number of connections.
LEMMA MoreConnections ==
  ASSUME NEW m \in Nat, NEW n \in Nat, m <= n, NEW os \in Seq(EntryTypes(m))
  PROVE  os \in Seq(EntryTypes(n))
<1>1. 0 .. m \subseteq 0 .. n
  OBVIOUS
<1>2. EntryTypes(m) \subseteq EntryTypes(n)
  BY <1>1 DEF EntryTypes
<1> QED BY <1>2, SeqMonotonic

\* accept: the new connection has the number no other has, and its own row.
LEMMA AcceptStep ==
  ASSUME HInv, build' = build, AcceptConnection
  PROVE  HInv' /\ (\A g \in Fds : Stays(g)) /\ \A fd : EntriesStay(fd)
<1>1. /\ backlog > 0 /\ made' = made + 1 /\ backlog' = backlog - 1
      /\ UNCHANGED <<clients, pending, output, outputs>>
  BY DEF AcceptConnection, people
<1>2. PICK fd \in Fds \cup {-1} :
        /\ AddToEventLoop(fd)
        /\ fd = -1 => owner' = owner
        /\ fd # -1 => owner[fd] = 0 /\ owner' = [owner EXCEPT ![fd] = made + 1]
  <2>1. CASE \E fd \in Fds :
               /\ owner[fd] = 0 /\ owner' = [owner EXCEPT ![fd] = made'] /\ AddToEventLoop(fd)
    BY <1>1, <2>1, Numbers
  <2>2. CASE UNCHANGED owner /\ AddToEventLoop(-1)
    BY <2>2
  <2> QED BY <2>1, <2>2 DEF AcceptConnection
<1>3. /\ objects' \in Seq(EntryTypes(made)) /\ Sound(Width, objects')
      /\ \A i \in 1 .. Len(objects) : i \in 1 .. Len(objects') /\ objects'[i] = objects[i]
      /\ \A i \in 1 .. Len(objects') : i \notin 1 .. Len(objects) => objects'[i].conn = 0
      /\ WellSized' /\ {size', capacity'} \subseteq Nat /\ denied' \in BOOLEAN
      /\ kernel' \subseteq WatchTypes /\ KernelHas'
  BY <1>2, AddedFacts
<1>4. PICK a, b : a.fd = fd /\ ~ b.out /\ Rows(Width, objects') = Room \cup {<<a, b>>}
  BY <1>2, AddedFacts
<1>5. Width' = Width /\ Room' = Room \cup {<<a, b>>}
  BY <1>4 DEF Width, KQueue, Room
<1>6. /\ made \in Nat /\ made' \in 0 .. MaxConnections /\ backlog \in Nat /\ backlog' \in Nat
      /\ made' + backlog' <= MaxConnections
  <2>1. made \in 0 .. MaxConnections /\ backlog \in Nat /\ made + backlog <= MaxConnections
        /\ MaxConnections \in Nat
    BY ArrayAssumption DEF HInv, HandlerTypes, Owners, ArrayAssumption
  <2> QED BY <1>1, <2>1
<1>7. /\ owner \in [Fds -> 0 .. made] /\ owner' \in [Fds -> 0 .. made']
      /\ \A g \in Fds : g # fd => owner'[g] = owner[g]
      /\ fd \in Fds => owner'[fd] = made + 1 /\ owner[fd] = 0
      /\ \A g \in Fds : owner[g] # made + 1
  <2>1. owner \in [Fds -> 0 .. made]
    BY DEF HInv, HandlerTypes
  <2>2. /\ \A n \in 0 .. made : n \in 0 .. made + 1 /\ n # made + 1
        /\ made + 1 \in 0 .. made + 1
    BY <1>6
  <2>3. CASE fd = -1
    BY <1>1, <1>2, <2>1, <2>2, <2>3, Numbers
  <2>4. CASE fd \in Fds
    <3>1. fd # -1 /\ owner' = [owner EXCEPT ![fd] = made + 1] /\ owner[fd] = 0
      BY <1>2, <2>4, Numbers
    <3>2. \A g \in Fds : owner'[g] = IF g = fd THEN made + 1 ELSE owner[g]
      BY <2>1, <3>1
    <3>3. owner' \in [Fds -> 0 .. made + 1]
      BY <2>1, <2>2, <3>1
    <3> QED BY <1>1, <2>1, <2>2, <2>4, <3>1, <3>2, <3>3
  <2> QED BY <2>3, <2>4
<1>8. HandlerTypes'
  <2>1. clients' \subseteq {owner'[g] : g \in Fds}
    <3> SUFFICES ASSUME NEW c \in clients PROVE \E g \in Fds : c = owner'[g]
      BY <1>1
    <3>1. PICK g \in Fds : c = owner[g] /\ c # 0
      BY DEF HInv, HandlerTypes
    <3> QED BY <1>7, <3>1
  <2> QED BY <1>1, <1>3, <1>6, <1>7, <2>1 DEF HInv, HandlerTypes
<1>9. ArrayType' /\ InRows'
  <2>1. made \in Nat /\ made' \in Nat /\ made <= made'
    BY <1>1, <1>6
  <2>2. PICK os \in Seq(EntryTypes(made)) : os = objects'
    BY <1>3
  <2>3. PICK m \in Nat, n \in Nat : m = made /\ n = made' /\ m <= n
    BY <2>1
  <2>4. os \in Seq(EntryTypes(n))
    BY <2>2, <2>3, MoreConnections
  <2> QED BY <1>3, <1>5, <2>2, <2>3, <2>4 DEF ArrayType, InRows, EntryTypes
<1>10. Complete'
  <2> SUFFICES ASSUME NEW g, g # -1
               PROVE  HasRow(Room', g) <=> g = Listener \/ (g \in Fds /\ owner'[g] # 0)
    BY DEF Complete
  <2>1. HasRow(Room', g) <=> HasRow(Room, g) \/ g = fd
    <3>1. PICK row : row = <<a, b>>
      OBVIOUS
    <3>2. row[1].fd = fd /\ Room' = Room \cup {row}
      BY <1>4, <1>5, <3>1
    <3> QED BY <3>2 DEF HasRow
  <2>2. HasRow(Room, g) <=> g = Listener \/ (g \in Fds /\ owner[g] # 0)
    BY DEF HInv, Complete
  <2>3. made + 1 # 0
    BY <1>6
  <2> QED BY <1>2, <1>7, <2>1, <2>2, <2>3
<1>11. OutputsInRows'
  <2> SUFFICES ASSUME NEW r \in Room', r[1].fd \in Fds
               PROVE  r[2].out <=> owner'[r[1].fd] \in output'
    BY DEF OutputsInRows
  <2>1. CASE r \in Room
    <3>1. r[1].fd # fd
      <4>1. r[1].fd # -1 /\ HasRow(Room, r[1].fd)
        BY <2>1, Numbers DEF HasRow
      <4>2. owner[r[1].fd] # 0
        BY <4>1, Numbers DEF HInv, Complete
      <4> QED BY <1>7, <4>2
    <3> QED BY <1>1, <1>7, <2>1, <3>1 DEF HInv, OutputsInRows
  <2>2. CASE r = <<a, b>>
    <3>1. r[1].fd = fd /\ r[2] = b
      BY <1>4, <2>2
    <3>2. made + 1 \notin output
      BY <1>7 DEF HInv, HandlerTypes
    <3> QED BY <1>1, <1>4, <1>7, <3>1, <3>2
  <2> QED BY <1>5, <2>1, <2>2
<1>12. Owners'
  <2>1. \A f, g \in Fds : owner'[f] = owner'[g] /\ owner'[f] # 0 => f = g
    <3> TAKE f, g \in Fds
    <3> HAVE owner'[f] = owner'[g] /\ owner'[f] # 0
    <3>1. CASE f = fd \/ g = fd
      BY <1>7, <3>1
    <3>2. CASE f # fd /\ g # fd
      BY <1>7, <3>2 DEF HInv, Owners
    <3> QED BY <3>1, <3>2
  <2> QED BY <1>1, <1>6, <2>1 DEF HInv, Owners
<1>13. \A g \in Fds : Stays(g)
  BY <1>1, <1>7 DEF Stays
<1>14. ASSUME NEW f PROVE EntriesStay(f)
  BY <1>3 DEF EntriesStay
<1> QED BY <1>3, <1>8, <1>9, <1>10, <1>11, <1>12, <1>13, <1>14 DEF HInv

\* close_connection: the row goes with the connection.
LEMMA CloseStep ==
  ASSUME HInv, build' = build, NEW fd \in Fds, owner[fd] # 0, CloseConnection(fd),
         pending' \subseteq pending, UNCHANGED <<outputs, made, backlog>>
  PROVE  HInv' /\ (\A g \in Fds : g # fd => Stays(g)) /\ EntriesStay(fd)
<1>1. /\ owner' = [owner EXCEPT ![fd] = 0]
      /\ clients' = clients \ {owner[fd]} /\ output' = output \ {owner[fd]}
      /\ DeleteFromEventLoop(fd)
  BY DEF CloseConnection
<1>2. /\ objects' \in Seq(EntryTypes(made)) /\ Sound(Width, objects')
      /\ \A r : r \in Rows(Width, objects') <=> r \in Room /\ r[1].fd # fd
      /\ ~ KQueue => \A k \in 1 .. Len(objects) : objects[k].fd = fd =>
           \A i \in 1 .. Len(objects') : i > k =>
             i \in 1 .. Len(objects) /\ objects'[i] = objects[i]
      /\ WellSized' /\ {size', capacity'} \subseteq Nat /\ denied' \in BOOLEAN
      /\ kernel' \subseteq WatchTypes /\ KernelHas'
  BY <1>1, DeletedFacts
<1>3. Width' = Width /\ Room' = Rows(Width, objects')
  BY DEF Width, KQueue, Room
<1>4. /\ owner \in [Fds -> 0 .. made] /\ owner' \in [Fds -> 0 .. made] /\ owner'[fd] = 0
      /\ \A g \in Fds : g # fd => owner'[g] = owner[g]
      /\ \A g \in Fds : g # fd => owner[g] # owner[fd]
  <2>1. owner \in [Fds -> 0 .. made] /\ made \in Nat
    BY ArrayAssumption DEF HInv, HandlerTypes, ArrayAssumption
  <2>2. 0 \in 0 .. made
    BY <2>1
  <2>3. \A g \in Fds : g # fd => owner[g] # owner[fd]
    BY DEF HInv, Owners
  <2> QED BY <1>1, <2>1, <2>2, <2>3
<1>5. HandlerTypes'
  <2>1. clients' \subseteq {owner'[g] : g \in Fds}
    <3> SUFFICES ASSUME NEW c \in clients, c # owner[fd] PROVE \E g \in Fds : c = owner'[g]
      BY <1>1
    <3>1. PICK g \in Fds : c = owner[g]
      BY DEF HInv, HandlerTypes
    <3> QED BY <1>4, <3>1
  <2>2. output' \subseteq clients' /\ 0 \notin clients'
    BY <1>1 DEF HInv, HandlerTypes
  <2> QED BY <1>2, <1>4, <2>1, <2>2 DEF HInv, HandlerTypes
<1>6. ArrayType' /\ InRows'
  BY <1>2, <1>3 DEF ArrayType, InRows, EntryTypes
<1>7. Complete'
  <2> SUFFICES ASSUME NEW g, g # -1
               PROVE  HasRow(Room', g) <=> g = Listener \/ (g \in Fds /\ owner'[g] # 0)
    BY DEF Complete
  <2>1. HasRow(Room', g) <=> HasRow(Room, g) /\ g # fd
    BY <1>2, <1>3 DEF HasRow
  <2>2. HasRow(Room, g) <=> g = Listener \/ (g \in Fds /\ owner[g] # 0)
    BY DEF HInv, Complete
  <2> QED BY <1>4, <2>1, <2>2, Numbers
<1>8. OutputsInRows'
  <2> SUFFICES ASSUME NEW r \in Room', r[1].fd \in Fds
               PROVE  r[2].out <=> owner'[r[1].fd] \in output'
    BY DEF OutputsInRows
  <2>1. r \in Room /\ r[1].fd # fd
    BY <1>2, <1>3
  <2>2. r[2].out <=> owner[r[1].fd] \in output
    BY <2>1 DEF HInv, OutputsInRows
  <2> QED BY <1>1, <1>4, <2>1, <2>2
<1>9. Owners'
  <2>1. \A f, g \in Fds : owner'[f] = owner'[g] /\ owner'[f] # 0 => f = g
    BY <1>4 DEF HInv, Owners
  <2> QED BY <2>1 DEF HInv, Owners
<1>10. \A g \in Fds : g # fd => Stays(g)
  BY <1>1, <1>4 DEF Stays
<1>11. EntriesStay(fd)
  BY <1>2 DEF EntriesStay
<1> QED BY <1>2, <1>5, <1>6, <1>7, <1>8, <1>9, <1>10, <1>11 DEF HInv

\* send_frame: the watch for room to write follows the output of its client.
LEMMA SendStep ==
  ASSUME HInv, build' = build, NEW to \in Fds, SendFrame(to),
         pending' \subseteq pending, UNCHANGED <<made, backlog>>
  PROVE  HInv' /\ (\A g \in Fds : Stays(g)) /\ \A fd : EntriesStay(fd)
<1>1. PICK b \in BOOLEAN :
        /\ owner[to] \in clients /\ UNCHANGED clients /\ outputs' \in Nat
        /\ output' = IF b THEN output \cup {owner[to]} ELSE output \ {owner[to]}
        /\ SetWriteNotify(to, b)
  <2>1. outputs \in Nat /\ outputs + 1 \in Nat
    BY DEF HInv, HandlerTypes
  <2>2. CASE /\ outputs' = outputs + 1 /\ output' = output \cup {owner[to]}
             /\ SetWriteNotify(to, TRUE)
    BY <2>1, <2>2 DEF SendFrame
  <2>3. CASE /\ outputs' = outputs /\ output' = output \ {owner[to]}
             /\ SetWriteNotify(to, FALSE)
    BY <2>1, <2>3 DEF SendFrame
  <2> QED BY <2>2, <2>3 DEF SendFrame
<1>2. owner[to] # 0
  BY <1>1 DEF HInv, HandlerTypes
<1>3. UNCHANGED <<owner, size, capacity, denied>>
  BY <1>1 DEF SetWriteNotify
<1>4. /\ objects' \in Seq(EntryTypes(made)) /\ Sound(Width, objects')
      /\ \A r \in Rows(Width, objects') : IF r[1].fd = to THEN r[2].out <=> b ELSE r \in Room
      /\ \A g : HasRow(Rows(Width, objects'), g) <=> HasRow(Room, g)
      /\ Len(objects') = Len(objects)
      /\ \A i \in 1 .. Len(objects) :
           /\ objects'[i].fd = objects[i].fd /\ objects'[i].revents = objects[i].revents
           /\ objects'[i].conn = objects[i].conn
      /\ WellSized' /\ kernel' \subseteq WatchTypes /\ KernelHas'
  BY <1>1, <1>2, SetFacts
<1>5. Width' = Width /\ Room' = Rows(Width, objects')
  BY DEF Width, KQueue, Room
<1>6. HandlerTypes'
  <2>1. output' \subseteq clients'
    BY <1>1 DEF HInv, HandlerTypes
  <2> QED BY <1>1, <1>3, <1>4, <2>1 DEF HInv, HandlerTypes
<1>7. ArrayType' /\ InRows'
  BY <1>4, <1>5 DEF ArrayType, InRows, EntryTypes
<1>8. Complete'
  BY <1>3, <1>4, <1>5 DEF HInv, Complete
<1>9. OutputsInRows'
  <2> SUFFICES ASSUME NEW r \in Room', r[1].fd \in Fds
               PROVE  r[2].out <=> owner[r[1].fd] \in output'
    BY <1>3 DEF OutputsInRows
  <2>1. CASE r[1].fd = to
    BY <1>1, <1>4, <1>5, <2>1
  <2>2. CASE r[1].fd # to
    <3>1. r[2].out <=> owner[r[1].fd] \in output
      BY <1>4, <1>5, <2>2 DEF HInv, OutputsInRows
    <3>2. owner[r[1].fd] # owner[to]
      BY <1>2, <2>2 DEF HInv, Owners
    <3> QED BY <1>1, <3>1, <3>2
  <2> QED BY <2>1, <2>2
<1>10. Owners' /\ \A g \in Fds : Stays(g)
  BY <1>1, <1>3 DEF HInv, Owners, Stays
<1>11. ASSUME NEW fd PROVE EntriesStay(fd)
  BY <1>4 DEF EntriesStay
<1> QED BY <1>4, <1>6, <1>7, <1>8, <1>9, <1>10, <1>11 DEF HInv

\* What neither closes a connection nor sends leaves the array alone.
LEMMA QuietStep ==
  ASSUME HInv, build' = build, UNCHANGED <<array, owner, output, outputs, made, backlog>>,
         pending' \subseteq pending,
         clients' = clients
           \/ \E fd \in Fds : owner[fd] # 0 /\ clients' = clients \cup {owner[fd]}
  PROVE  HInv' /\ (\A g \in Fds : Stays(g)) /\ \A fd : EntriesStay(fd)
<1>1. UNCHANGED <<objects, size, capacity, denied, kernel, owner, output, outputs, made, backlog>>
  BY DEF array
<1>2. Width' = Width /\ Room' = Room /\ (KQueue' <=> KQueue)
  BY <1>1 DEF Width, KQueue, Room
<1>3. HandlerTypes'
  BY <1>1 DEF HInv, HandlerTypes
<1>4. ArrayType' /\ InRows' /\ WellSized'
  BY <1>1, <1>2 DEF HInv, ArrayType, InRows, EntryTypes, WellSized
<1>5. Complete' /\ OutputsInRows' /\ KernelHas' /\ Owners'
  BY <1>1, <1>2 DEF HInv, Complete, OutputsInRows, KernelHas, Owners
<1>6. \A g \in Fds : Stays(g)
  BY <1>1 DEF Stays
<1>7. ASSUME NEW fd PROVE EntriesStay(fd)
  BY <1>1 DEF EntriesStay
<1> QED BY <1>3, <1>4, <1>5, <1>6, <1>7 DEF HInv

\* handle_connection and the listener's handler, whatever they do.
LEMMA HandleStep ==
  ASSUME HInv, build' = build, NEW fd \in Fds \cup {Listener}, NEW what, Handle(fd, what)
  PROVE  /\ HInv' /\ (\A g \in Fds : g # fd => Stays(g)) /\ EntriesStay(fd)
         /\ what # "in" /\ fd \in Fds /\ owner[fd] \in clients => Stays(fd)
<1>1. CASE fd = Listener
  BY <1>1, AcceptStep, Numbers DEF Handle
<1>2. CASE fd # Listener /\ HandleInput(fd) /\ UNCHANGED <<made, backlog>>
           /\ (what # "in" => owner[fd] \notin clients)
  <2>1. fd \in Fds /\ pending' \subseteq pending
    BY <1>2 DEF HandleInput
  <2>2. CASE Nothing
    <3>1. UNCHANGED <<array, owner, output, outputs, made, backlog>> /\ clients' = clients
      BY <1>2, <2>2 DEF Nothing
    <3> QED BY <1>2, <2>1, <3>1, QuietStep
  <2>3. CASE /\ owner[fd] # 0 /\ clients' = clients \cup {owner[fd]}
             /\ UNCHANGED <<array, owner, output, outputs>>
    <3>1. UNCHANGED <<array, owner, output, outputs, made, backlog>>
      BY <1>2, <2>3
    <3> QED BY <1>2, <2>1, <2>3, <3>1, QuietStep
  <2>4. CASE owner[fd] # 0 /\ CloseConnection(fd) /\ UNCHANGED outputs
    BY <1>2, <2>1, <2>4, CloseStep
  <2>5. CASE \E to \in Fds : SendFrame(to)
    BY <1>2, <2>1, <2>5, SendStep
  <2> QED BY <1>2, <2>2, <2>3, <2>4, <2>5 DEF HandleInput
<1>3. CASE fd # Listener /\ owner[fd] \in clients /\ UNCHANGED <<pending, made, backlog>>
           /\ (Nothing \/ (owner[fd] \in output /\ SendFrame(fd)))
  <2>1. fd \in Fds /\ pending' \subseteq pending
    BY <1>3
  <2>2. CASE Nothing
    <3>1. UNCHANGED <<array, owner, output, outputs, made, backlog>> /\ clients' = clients
      BY <1>3, <2>2 DEF Nothing
    <3> QED BY <1>3, <2>1, <3>1, QuietStep
  <2>3. CASE SendFrame(fd)
    BY <1>3, <2>1, <2>3, SendStep
  <2> QED BY <1>3, <2>2, <2>3
<1> QED BY <1>1, <1>2, <1>3 DEF Handle, HandleOutput

-----------------------------------------------------------------------------
\* The steps of the loop.

\* The next entry with something reported is behind the one handled.
LEMMA NextFacts ==
  ASSUME NEW S, NEW os \in Seq(S), NEW i \in Nat \ {0}, NEW n, n = NextReported(os, i)
  PROVE  /\ n \in 0 .. Len(os)
         /\ n # 0 => n >= i /\ os[n].revents # "none"
<1> DEFINE I == {j \in i .. Len(os) : os[j].revents # "none"}
<1>1. Len(os) \in Nat /\ I \in SUBSET Nat
  OBVIOUS
<1>2. n = IF I # {} THEN Min(I) ELSE 0
  BY DEF NextReported, SelectInSubSeq
<1>3. CASE I = {}
  BY <1>1, <1>2, <1>3
<1>4. CASE I # {}
  <2>1. Min(I) \in I
    <3> HIDE DEF I
    <3>1. \E x \in I : \A y \in I : x <= y
      BY <1>1, <1>4, LeastNumber
    <3> QED BY <3>1 DEF Min
  <2> QED BY <1>1, <1>2, <1>4, <2>1
<1> QED BY <1>3, <1>4

\* Peers change only who waits.
LEMMA PeersStep ==
  ASSUME HInv, UNCHANGED <<build, array, made, owner, clients, output, outputs>>,
         backlog' \in Nat, made + backlog' <= MaxConnections, 0 \notin pending'
  PROVE  HInv'
<1>1. UNCHANGED <<objects, size, capacity, denied, kernel, made, owner, clients, output, outputs>>
  BY DEF array
<1>2. Width' = Width /\ Room' = Room /\ (KQueue' <=> KQueue)
  BY <1>1 DEF Width, KQueue, Room
<1>3. HandlerTypes'
  BY <1>1 DEF HInv, HandlerTypes
<1>4. ArrayType' /\ InRows' /\ WellSized'
  BY <1>1, <1>2 DEF HInv, ArrayType, InRows, EntryTypes, WellSized
<1>5. Complete' /\ OutputsInRows' /\ KernelHas' /\ Owners'
  BY <1>1, <1>2 DEF HInv, Complete, OutputsInRows, KernelHas, Owners
<1> QED BY <1>3, <1>4, <1>5 DEF HInv

\* What the loop has to go through does not change with what peers do.
LEMMA LoopKept ==
  ASSUME BatchInOrder, WalkInOrder, UNCHANGED <<build, objects, owner, clients, batch, walk>>
  PROVE  BatchInOrder' /\ WalkInOrder'
<1>1. KQueue' <=> KQueue
  BY DEF KQueue
<1> QED BY <1>1 DEF BatchInOrder, WalkInOrder

\* A peer's connect waits for accept.
LEMMA PeerConnectsStep ==
  ASSUME EInv, PeerConnects
  PROVE  EInv'
<1>1. backlog' \in Nat /\ made + backlog' <= MaxConnections
  <2>1. made \in Nat /\ backlog \in Nat /\ MaxConnections \in Nat
    BY ArrayAssumption DEF EInv, HInv, HandlerTypes, ArrayAssumption
  <2> QED BY <2>1 DEF PeerConnects
<1>2. 0 \notin pending' /\ HInv
  BY DEF EInv, HInv, Owners, PeerConnects, people
<1>3. HInv'
  BY <1>1, <1>2, PeersStep DEF PeerConnects, people
<1>4. BatchInOrder' /\ WalkInOrder'
  BY LoopKept DEF PeerConnects, people, array, EInv
<1> QED BY <1>3, <1>4 DEF EInv

\* A peer sends, or hangs up.
LEMMA PeerActsStep ==
  ASSUME EInv, PeerActs
  PROVE  EInv'
<1>1. backlog' \in Nat /\ made + backlog' <= MaxConnections
  BY DEF PeerActs, EInv, HInv, HandlerTypes, Owners
<1>2. 0 \notin pending' /\ HInv
  BY DEF EInv, HInv, Owners, PeerActs
<1>3. HInv'
  BY <1>1, <1>2, PeersStep DEF PeerActs
<1>4. BatchInOrder' /\ WalkInOrder'
  BY LoopKept DEF PeerActs, array, EInv
<1> QED BY <1>3, <1>4 DEF EInv

\* kevent reports input of open connections, and room to write to clients.
LEMMA KEventWaitStep ==
  ASSUME EInv, KEventWait
  PROVE  EInv'
<1>1. PICK w \in SUBSET output :
        batch' = {[fd |-> k.fd, what |-> IF k.filter = "read" THEN "in" ELSE "out",
                   conn |-> Owner(k.fd)] :
                    k \in {k \in kernel : IF k.filter = "read" THEN HasInput(k.fd)
                                          ELSE k.out /\ HasRoom(k.fd, w)}}
  BY DEF KEventWait
<1>2. KQueue /\ UNCHANGED <<build, array, made, backlog, owner, people, walk>>
  BY DEF KEventWait, world
<1>3. UNCHANGED <<objects, made, backlog, owner, clients, pending, output, outputs>>
  BY <1>2 DEF array, people
<1>4. HInv'
  <2>1. backlog \in Nat /\ made + backlog <= MaxConnections /\ 0 \notin pending /\ HInv
    BY DEF EInv, HInv, HandlerTypes, Owners
  <2>2. backlog' \in Nat /\ made + backlog' <= MaxConnections /\ 0 \notin pending'
    BY <1>3, <2>1
  <2> QED BY <1>2, <1>3, <2>1, <2>2, PeersStep
<1>5. ASSUME NEW e \in batch'
      PROVE  /\ e \in [fd : Fds \cup {Listener}, what : {"in", "out"}, conn : Nat]
             /\ e.fd = Listener => e.what = "in"
             /\ e.what = "in" /\ e.fd # Listener => owner[e.fd] = e.conn /\ e.conn # 0
             /\ e.what = "out" => owner[e.fd] \in clients
  <2>1. PICK k \in kernel :
          /\ e = [fd |-> k.fd, what |-> IF k.filter = "read" THEN "in" ELSE "out",
                  conn |-> Owner(k.fd)]
          /\ IF k.filter = "read" THEN HasInput(k.fd) ELSE k.out /\ HasRoom(k.fd, w)
    BY <1>1, <1>5
  <2>2. k.fd \in Fds \cup {Listener} /\ k.filter \in {"read", "write"}
    BY DEF EInv, HInv, HandlerTypes, WatchTypes
  <2>3. Owner(k.fd) \in Nat /\ (k.fd \in Fds => Owner(k.fd) = owner[k.fd])
    <3>1. \A fd \in Fds : owner[fd] \in 0 .. made
      BY DEF EInv, HInv, HandlerTypes
    <3> QED BY <3>1 DEF Owner
  <2>4. e.fd = k.fd /\ e.conn = Owner(k.fd)
        /\ e.what = IF k.filter = "read" THEN "in" ELSE "out"
    BY <2>1
  <2>5. CASE k.filter = "read"
    <3>1. HasInput(k.fd) /\ e.what = "in"
      BY <2>1, <2>4, <2>5
    <3>2. k.fd # Listener => owner[k.fd] # 0
      BY <3>1 DEF HasInput, EInv, HInv, Owners
    <3> QED BY <2>1, <2>2, <2>3, <2>4, <3>1, <3>2
  <2>6. CASE k.filter = "write"
    <3>1. HasRoom(k.fd, w) /\ e.what = "out"
      BY <2>1, <2>4, <2>6
    <3>2. k.fd \in Fds /\ k.fd # Listener /\ owner[k.fd] \in clients
      BY <3>1, Numbers DEF HasRoom, EInv, HInv, HandlerTypes
    <3> QED BY <2>1, <2>2, <2>3, <2>4, <3>1, <3>2
  <2> QED BY <2>2, <2>5, <2>6
<1>6. BatchInOrder'
  <2>1. KQueue'
    BY <1>2 DEF KQueue
  <2>2. batch' \subseteq [fd : Fds \cup {Listener}, what : {"in", "out"}, conn : Nat]
    BY <1>5
  <2>3. \A e, d \in batch' :
          e.fd = d.fd /\ e.what = "in" /\ d.what = "out" => owner[e.fd] \in clients
    BY <1>5
  <2> QED BY <1>3, <1>5, <2>1, <2>2, <2>3 DEF BatchInOrder
<1>7. WalkInOrder'
  <2>1. KQueue' <=> KQueue
    BY <1>2 DEF KQueue
  <2> QED BY <1>2, <1>3, <2>1 DEF EInv, WalkInOrder
<1> QED BY <1>4, <1>6, <1>7 DEF EInv

\* Handling an event of kevent leaves what the others were reported for.
LEMMA KEventNextStep ==
  ASSUME EInv, KEventNext
  PROVE  EInv'
<1>1. PICK h \in batch : batch' = batch \ {h} /\ Handle(h.fd, h.what)
  BY DEF KEventNext
<1>2. build' = build /\ walk' = walk /\ KQueue /\ KQueue'
  BY <1>1 DEF KEventNext, EInv, BatchInOrder, KQueue
<1>3. /\ h \in [fd : Fds \cup {Listener}, what : {"in", "out"}, conn : Nat]
      /\ \A e \in batch : e \in [fd : Fds \cup {Listener}, what : {"in", "out"}, conn : Nat]
  BY <1>1 DEF EInv, BatchInOrder
<1>4. /\ HInv' /\ (\A g \in Fds : g # h.fd => Stays(g))
      /\ h.what # "in" /\ h.fd \in Fds /\ owner[h.fd] \in clients => Stays(h.fd)
  <2>1. HInv /\ h.fd \in Fds \cup {Listener}
    BY <1>3 DEF EInv
  <2> QED BY <1>1, <1>2, <2>1, HandleStep
<1>5. ASSUME NEW e \in batch', e.what = "in", e.fd # Listener
      PROVE  /\ owner'[e.fd] = e.conn /\ e.conn # 0
             /\ owner[e.fd] \in clients => owner'[e.fd] \in clients'
  <2>1. e \in batch /\ e # h /\ e.fd \in Fds
    BY <1>1, <1>3, <1>5
  <2>2. owner[e.fd] = e.conn /\ e.conn # 0
    BY <1>5, <2>1 DEF EInv, BatchInOrder
  <2>3. Stays(e.fd)
    <3>1. CASE h.fd # e.fd
      BY <1>4, <2>1, <3>1
    <3>2. CASE h.fd = e.fd /\ h.what = "in"
      <4>1. h.conn = e.conn
        BY <1>5, <2>1, <2>2, <3>2 DEF EInv, BatchInOrder
      <4>2. h = e
        BY <1>3, <1>5, <2>1, <3>2, <4>1
      <4> QED BY <2>1, <4>2
    <3>3. CASE h.fd = e.fd /\ h.what = "out"
      <4>1. owner[e.fd] \in clients
        BY <1>5, <2>1, <3>3 DEF EInv, BatchInOrder
      <4> QED BY <1>4, <2>1, <3>3, <4>1
    <3> QED BY <1>3, <3>1, <3>2, <3>3
  <2> QED BY <2>2, <2>3 DEF Stays
<1>6. BatchInOrder'
  <2>1. \A e \in batch' : e \in batch
    BY <1>1
  <2>2. batch' \subseteq [fd : Fds \cup {Listener}, what : {"in", "out"}, conn : Nat]
    BY <1>3, <2>1
  <2>3. \A e \in batch' : e.fd = Listener => e.what = "in"
    BY <2>1 DEF EInv, BatchInOrder
  <2>4. ASSUME NEW e \in batch', NEW d \in batch',
               e.fd = d.fd, e.what = "in", d.what = "out"
        PROVE  owner'[e.fd] \in clients'
    <3>1. owner[e.fd] \in clients
      BY <2>1, <2>4 DEF EInv, BatchInOrder
    <3>2. e.fd # Listener
      <4>1. d.what # "in"
        BY <2>4
      <4> QED BY <2>3, <2>4, <4>1
    <3> QED BY <1>5, <2>4, <3>1, <3>2
  <2> QED BY <1>2, <1>5, <2>2, <2>3, <2>4 DEF BatchInOrder
<1>7. WalkInOrder'
  <2>1. walk = 0
    BY <1>2 DEF EInv, WalkInOrder
  <2>2. Len(objects') \in Nat
    <3>1. ArrayType'
      BY <1>4 DEF HInv
    <3>2. objects' \in Seq(EntryTypes(made)')
      BY <3>1 DEF ArrayType
    <3> QED BY <3>2, LenProperties
  <2> QED BY <1>2, <2>1, <2>2 DEF WalkInOrder
<1> QED BY <1>4, <1>6, <1>7 DEF EInv

\* poll writes who was reported and for whom, and nothing else, in each entry.
LEMMA PollStep ==
  ASSUME EInv, Poll
  PROVE  EInv'
<1>1. PICK w \in SUBSET output : objects' = Polled(w)
  BY DEF Poll
<1>2. /\ ~ KQueue /\ UNCHANGED <<build, size, capacity, denied, kernel, world, batch>>
      /\ walk' = NextReported(objects', 1) /\ walk' # 0
  BY DEF Poll
<1>3. /\ UNCHANGED <<made, backlog, owner, clients, pending, output, outputs>>
      /\ Width = 1 /\ Width' = 1 /\ ~ KQueue'
  BY <1>2 DEF world, people, Width, KQueue
<1>4. PICK n \in Nat : /\ n = Len(objects) /\ objects \in [1 .. n -> EntryTypes(made)]
                       /\ objects \in Seq(EntryTypes(made)) /\ Sound(1, objects)
  <2>1. objects \in Seq(EntryTypes(made)) /\ Sound(1, objects)
    BY <1>3 DEF EInv, HInv, ArrayType, InRows
  <2> QED BY <2>1, LenProperties
<1>5. PICK u : u = Polled(w)
  OBVIOUS
<1>6. u \in [1 .. n -> EntryTypes(made)]
      /\ \A i \in 1 .. n : /\ u[i].fd = objects[i].fd /\ u[i].filter = objects[i].filter
                           /\ (u[i].out <=> objects[i].out) /\ u[i].conn = Owner(objects[i].fd)
  <2> DEFINE entry(e) ==
        [e EXCEPT !.conn = Owner(e.fd),
                  !.revents = CASE HasInput(e.fd) -> "in"
                                [] ~ HasInput(e.fd) /\ e.out /\ HasRoom(e.fd, w) -> "out"
                                [] OTHER -> "none"]
  <2>1. u = [i \in 1 .. n |-> entry(objects[i])]
    <3>1. DOMAIN objects = 1 .. n
      BY <1>4
    <3> QED BY <1>5, <3>1 DEF Polled
  <2>2. ASSUME NEW e \in EntryTypes(made)
        PROVE  /\ entry(e) \in EntryTypes(made) /\ entry(e).fd = e.fd
               /\ entry(e).filter = e.filter /\ (entry(e).out <=> e.out)
               /\ entry(e).conn = Owner(e.fd)
    <3>1. Owner(e.fd) \in 0 .. made
      <4>1. made \in Nat /\ owner \in [Fds -> 0 .. made]
        BY ArrayAssumption DEF EInv, HInv, HandlerTypes, ArrayAssumption
      <4> QED BY <4>1 DEF Owner
    <3>2. PICK r \in {"none", "in", "out"} :
            r = CASE HasInput(e.fd) -> "in"
                  [] ~ HasInput(e.fd) /\ e.out /\ HasRoom(e.fd, w) -> "out"
                  [] OTHER -> "none"
      OBVIOUS
    <3>3. PICK x : x = [e EXCEPT !.conn = Owner(e.fd), !.revents = r]
      OBVIOUS
    <3>4. /\ x \in EntryTypes(made) /\ x.fd = e.fd /\ x.filter = e.filter
          /\ (x.out <=> e.out) /\ x.conn = Owner(e.fd)
      BY <3>1, <3>3 DEF EntryTypes
    <3>5. entry(e) = x
      BY <3>2, <3>3
    <3> HIDE DEF entry
    <3> QED BY <3>4, <3>5
  <2> HIDE DEF entry
  <2> QED BY <1>4, <2>1, <2>2
<1>7. u \in Seq(EntryTypes(made)) /\ Len(u) = n /\ Sound(1, u)
  <2>1. u \in Seq(EntryTypes(made)) /\ Len(u) = n
    BY <1>6
  <2> QED BY <1>4, <1>6, <2>1, RowsRewritten
<1>8. Rows(1, u) = {<<u[i], u[i]>> : i \in 1 .. n}
      /\ Rows(1, objects) = {<<objects[i], objects[i]>> : i \in 1 .. n}
  BY <1>4, <1>7 DEF Rows, Row, Starts
<1>9. Room' = Rows(1, u) /\ Room = Rows(1, objects)
  BY <1>1, <1>3, <1>5 DEF Room
<1>10. HInv'
  <2>1. HandlerTypes' /\ Owners'
    BY <1>2, <1>3 DEF EInv, HInv, HandlerTypes, Owners
  <2>2. ArrayType' /\ InRows'
    BY <1>1, <1>3, <1>5, <1>7 DEF ArrayType, InRows, EntryTypes
  <2>3. WellSized' /\ KernelHas'
    BY <1>1, <1>2, <1>3, <1>4, <1>5, <1>7 DEF EInv, HInv, WellSized, KernelHas
  <2>4. Complete'
    <3>1. \A fd : HasRow(Rows(1, u), fd) <=> HasRow(Rows(1, objects), fd)
      <4> SUFFICES ASSUME NEW fd
                   PROVE  HasRow(Rows(1, u), fd) <=> HasRow(Rows(1, objects), fd)
        OBVIOUS
      <4>1. HasRow(Rows(1, u), fd) <=> \E i \in 1 .. n : u[i].fd = fd
        BY <1>7, RowBegins DEF Starts
      <4>2. HasRow(Rows(1, objects), fd) <=> \E i \in 1 .. n : objects[i].fd = fd
        BY <1>4, RowBegins DEF Starts
      <4> QED BY <1>6, <4>1, <4>2
    <3> QED BY <1>3, <1>9, <3>1 DEF EInv, HInv, Complete
  <2>5. OutputsInRows'
    <3> SUFFICES ASSUME NEW r \in Room', r[1].fd \in Fds
                 PROVE  r[2].out <=> owner[r[1].fd] \in output
      BY <1>3 DEF OutputsInRows
    <3>1. PICK i \in 1 .. n : r = <<u[i], u[i]>>
      BY <1>8, <1>9
    <3>2. PICK s : s = <<objects[i], objects[i]>>
      OBVIOUS
    <3>3. s \in Room /\ s[1].fd = r[1].fd /\ (s[2].out <=> r[2].out)
      BY <1>6, <1>8, <1>9, <3>1, <3>2
    <3> QED BY <3>3 DEF EInv, HInv, OutputsInRows
  <2> QED BY <2>1, <2>2, <2>3, <2>4, <2>5 DEF HInv
<1>11. BatchInOrder'
  BY <1>2, <1>3 DEF EInv, BatchInOrder
<1>12. WalkInOrder'
  <2>1. walk' \in 0 .. Len(u) /\ u[walk'].revents # "none"
    BY <1>1, <1>2, <1>5, <1>7, NextFacts
  <2>2. \A i \in walk' .. Len(u) : u[i].fd \in Fds => u[i].conn \in {0, owner[u[i].fd]}
    <3> TAKE i \in walk' .. Len(u)
    <3> HAVE u[i].fd \in Fds
    <3>1. i \in 1 .. n
      BY <1>2, <1>7, <2>1
    <3> QED BY <1>6, <3>1 DEF Owner
  <2> QED BY <1>1, <1>3, <1>5, <2>1, <2>2 DEF WalkInOrder
<1> QED BY <1>10, <1>11, <1>12 DEF EInv

\* Handling the entry the loop stands at leaves those behind it as they were reported,
\* whatever it adds to the array or deletes from it.
LEMMA PollNextStep ==
  ASSUME EInv, PollNext, ~ AtMinusOne
  PROVE  EInv'
<1>1. /\ walk # 0 /\ Handle(objects[walk].fd, objects[walk].revents)
      /\ walk' = NextReported(objects', walk + 1) /\ build' = build /\ batch' = batch
  BY DEF PollNext
<1>2. PICK n \in Nat : /\ n = Len(objects) /\ objects \in [1 .. n -> EntryTypes(made)]
                       /\ Sound(Width, objects)
  <2>1. objects \in Seq(EntryTypes(made)) /\ Sound(Width, objects)
    BY DEF EInv, HInv, ArrayType, InRows
  <2> QED BY <2>1, LenProperties
<1>3. /\ walk \in 1 .. n /\ ~ KQueue /\ ~ KQueue' /\ Width = 1
      /\ \A i \in walk .. n : objects[i].revents # "none" /\ objects[i].fd \in Fds =>
           objects[i].conn \in {0, owner[objects[i].fd]}
  <2>1. walk \in 0 .. n /\ ~ KQueue
    BY <1>1, <1>2 DEF EInv, WalkInOrder
  <2> QED BY <1>1, <1>2, <2>1 DEF EInv, WalkInOrder, KQueue, Width
<1>4. PICK h \in Fds \cup {Listener} : h = objects[walk].fd /\ h # -1
  <2>1. objects[walk] \in EntryTypes(made) /\ objects[walk].fd # -1
    BY <1>1, <1>2, <1>3 DEF AtMinusOne
  <2> QED BY <2>1 DEF EntryTypes
<1>5. HInv' /\ (\A g \in Fds : g # h => Stays(g)) /\ EntriesStay(h)
  <2>1. PICK what : what = objects[walk].revents
    OBVIOUS
  <2>2. HInv /\ Handle(h, what)
    BY <1>1, <1>4, <2>1 DEF EInv
  <2> QED BY <1>1, <2>2, HandleStep
<1>6. PICK u \in Seq(EntryTypes(made')) : u = objects' /\ Len(u) \in Nat
  <2>1. ArrayType'
    BY <1>5 DEF HInv
  <2>2. objects' \in Seq(EntryTypes(made'))
    BY <2>1 DEF ArrayType, EntryTypes
  <2> QED BY <2>2, LenProperties
<1>7. /\ walk' \in 0 .. Len(u)
      /\ walk' # 0 => walk' > walk /\ u[walk'].revents # "none"
  <2>1. PICK next : next = walk + 1 /\ next \in Nat \ {0}
    BY <1>3
  <2>2. walk' = NextReported(u, next)
    BY <1>1, <1>6, <2>1
  <2>3. /\ walk' \in 0 .. Len(u)
        /\ walk' # 0 => walk' >= next /\ u[walk'].revents # "none"
    BY <1>6, <2>1, <2>2, NextFacts
  <2> QED BY <1>3, <1>6, <2>1, <2>3
<1>8. ASSUME walk' # 0, NEW i \in walk' .. Len(u), u[i].revents # "none", u[i].fd \in Fds
      PROVE  u[i].conn \in {0, owner'[u[i].fd]}
  <2>1. i \in 1 .. Len(u) /\ i > walk
    BY <1>3, <1>6, <1>7, <1>8
  <2>2. CASE u[i].conn = 0
    BY <2>2
  <2>3. CASE /\ i \in 1 .. n /\ u[i].fd = objects[i].fd
             /\ u[i].conn = objects[i].conn /\ u[i].revents = objects[i].revents
    <3>1. objects[i].conn \in {0, owner[objects[i].fd]}
      BY <1>3, <1>8, <2>1, <2>3
    <3>2. objects[i].fd # h
      <4>1. i \in Starts(1, n) /\ walk \in Starts(1, n)
        BY <1>3, <2>3 DEF Starts
      <4> QED BY <1>2, <1>3, <1>4, <2>1, <4>1 DEF Sound
    <3>3. Stays(objects[i].fd)
      BY <1>5, <1>8, <2>3, <3>2
    <3> QED BY <2>3, <3>1, <3>3 DEF Stays
  <2> QED BY <1>2, <1>3, <1>4, <1>5, <1>6, <2>1, <2>2, <2>3 DEF EntriesStay
<1>9. WalkInOrder'
  BY <1>3, <1>6, <1>7, <1>8 DEF WalkInOrder
<1>10. BatchInOrder'
  BY <1>1, <1>3 DEF EInv, BatchInOrder
<1> QED BY <1>5, <1>9, <1>10 DEF EInv

\* The listener's row is the first.
LEMMA InitIsGood == Init => EInv
<1> SUFFICES ASSUME Init PROVE EInv
  OBVIOUS
<1>1. PICK w \in {1, 2} : w = Width /\ (KQueue <=> w = 2)
  BY Numbers
<1>2. PICK start \in Nat \ {0} :
        /\ start = Initial[build] /\ size = start /\ (w = 2 => start % 2 = 0)
        /\ capacity = IF KQueue THEN 2 * size ELSE size
  BY <1>1, ArrayAssumption DEF Init, ArrayAssumption, KQueue
<1>3. PICK a, b : a = objects[1] /\ b = objects[Width]
  OBVIOUS
<1>4. /\ objects \in Seq(EntryTypes(0)) /\ IsRow(w, objects, a, b)
      /\ a.fd = Listener /\ ~ a.out /\ ~ b.out
  BY <1>1, <1>3, NewRow DEF Init
<1>5. /\ Sound(w, objects) /\ Rows(w, objects) = {<<a, b>>}
      /\ Len(objects) = w
  <2>1. PICK os \in Seq(EntryTypes(0)) : os = <<>>
    BY EmptySeq
  <2>2. Len(os) = 0 /\ Starts(w, Len(os)) = {}
    BY <2>1 DEF Starts
  <2>3. Rows(w, os) = {}
    BY <2>2 DEF Rows
  <2>4. Sound(w, os)
    BY <2>2 DEF Sound, Whole
  <2>5. Free(Rows(w, os), a.fd)
    BY <2>3 DEF Free, HasRow
  <2>6. PICK new \in Seq(EntryTypes(0)) : new = objects /\ IsRow(w, new, a, b)
    BY <1>4
  <2>7. PICK u : u = RowAppended(os, new)
    OBVIOUS
  <2>8. Len(u) = Len(os) + w /\ Sound(w, u) /\ Rows(w, u) = Rows(w, os) \cup {<<a, b>>}
    BY <2>4, <2>5, <2>6, <2>7, RowAdded
  <2>9. u = objects
    BY <2>1, <2>6, <2>7 DEF RowAppended
  <2> QED BY <2>2, <2>3, <2>8, <2>9
<1>6. Room = {<<a, b>>}
  BY <1>1, <1>5 DEF Room
<1>7. PICK row : row = <<a, b>> /\ row[1] = a /\ row[2] = b
  <2>1. PICK row : row = <<a, b>>
    OBVIOUS
  <2> QED BY <2>1
<1>8. HandlerTypes
  <2>1. kernel \subseteq WatchTypes
    <3>1. \A f \in {"read", "write"} : [fd |-> Listener, filter |-> f, out |-> FALSE] \in WatchTypes
      BY DEF WatchTypes
    <3> QED BY <3>1 DEF Init
  <2>2. made = 0 /\ made \in 0 .. MaxConnections
    BY ArrayAssumption DEF Init, ArrayAssumption
  <2>3. owner \in [Fds -> 0 .. made]
    <3>1. 0 \in 0 .. made
      BY <2>2
    <3> QED BY <3>1 DEF Init
  <2>4. size \in Nat /\ capacity \in Nat /\ backlog \in Nat /\ outputs \in Nat
    BY <1>2 DEF Init
  <2> QED BY <2>1, <2>2, <2>3, <2>4 DEF Init, HandlerTypes
<1>9. ArrayType /\ InRows
  BY <1>1, <1>4, <1>5 DEF Init, ArrayType, InRows
<1>10. WellSized
  <2>1. Doubled(start, size)
    BY <1>2 DEF Doubled
  <2>2. Len(objects) <= size /\ size <= capacity
    BY <1>1, <1>2, <1>5
  <2> QED BY <1>2, <2>1, <2>2 DEF WellSized
<1>11. Complete
  <2>1. \A fd : HasRow(Room, fd) <=> fd = Listener
    BY <1>4, <1>6, <1>7 DEF HasRow
  <2>2. \A fd \in Fds : owner[fd] = 0
    BY DEF Init
  <2> QED BY <2>1, <2>2 DEF Complete
<1>12. OutputsInRows
  BY <1>4, <1>6, <1>7, Numbers DEF OutputsInRows
<1>13. KernelHas
  <2> SUFFICES ASSUME KQueue PROVE Watch(a) \in kernel /\ Watch(b) \in kernel
    BY <1>6, <1>7 DEF KernelHas
  <2>1. /\ a.filter = "read" /\ b.filter = "write" /\ b.fd = Listener
        /\ a.out \in BOOLEAN /\ b.out \in BOOLEAN
    <3>1. Paired(2, a, b) /\ a \in EntryTypes(0) /\ b \in EntryTypes(0)
      BY <1>1, <1>4 DEF IsRow
    <3> QED BY <1>4, <3>1 DEF Paired, EntryTypes
  <2>2. /\ Watch(a) = [fd |-> Listener, filter |-> "read", out |-> FALSE]
        /\ Watch(b) = [fd |-> Listener, filter |-> "write", out |-> FALSE]
    BY <1>4, <2>1 DEF Watch
  <2> QED BY <2>2 DEF Init
<1>14. Owners
  BY ArrayAssumption DEF Init, Owners, ArrayAssumption
<1>15. BatchInOrder /\ WalkInOrder
  BY <1>1, <1>5 DEF Init, BatchInOrder, WalkInOrder
<1> QED BY <1>8, <1>9, <1>10, <1>11, <1>12, <1>13, <1>14, <1>15 DEF EInv, HInv

\* Nothing happens.
LEMMA StutterStep ==
  ASSUME EInv, UNCHANGED vars
  PROVE  EInv'
<1>1. /\ UNCHANGED <<build, array, made, backlog, owner, clients, pending, output, outputs>>
      /\ UNCHANGED <<objects, batch, walk>>
  BY DEF vars, array, world, people
<1>2. /\ HInv /\ backlog' \in Nat /\ made + backlog' <= MaxConnections /\ 0 \notin pending'
      /\ BatchInOrder /\ WalkInOrder
  BY <1>1 DEF EInv, HInv, HandlerTypes, Owners
<1> QED BY <1>1, <1>2, PeersStep, LoopKept DEF EInv

\* The array, the kernel's copy, the events that wait and those who are connected agree
\* in every state: what each of the theorems below rests on.
THEOREM Invariance == Spec => []EInv
<1>1. EInv /\ [Next]_vars => EInv'
  BY PeerConnectsStep, PeerActsStep, KEventWaitStep, KEventNextStep, PollStep, PollNextStep,
     StutterStep DEF Next, RunEventLoop
<1> QED BY <1>1, InitIsGood, PTL DEF Spec

-----------------------------------------------------------------------------
\* What the invariant says of the loop.

\* TypeOK: each variable has its type, the entries of the array theirs, and only open
\* connections are clients.
THEOREM TypeCorrect == Spec => []TypeOK
<1>1. EInv => TypeOK
  <2> SUFFICES ASSUME EInv PROVE TypeOK
    OBVIOUS
  <2>1. objects \in Seq(EntryTypes(made)) /\ HandlerTypes
    BY DEF EInv, HInv, ArrayType
  <2>2. \A i \in DOMAIN objects : objects[i] \in EntryTypes(made)
    BY <2>1
  <2>3. walk \in 0 .. Len(objects)
    BY DEF EInv, WalkInOrder
  <2> QED BY <2>1, <2>2, <2>3 DEF TypeOK, HandlerTypes, EntryTypes, WatchTypes
<1> QED BY <1>1, Invariance, PTL

\* WithinAllocation: nothing is written behind what is allocated, unless the array could
\* not be enlarged.
THEOREM StaysAllocated == Spec => []WithinAllocation
<1>1. EInv => WithinAllocation
  <2> SUFFICES ASSUME EInv, ~ denied PROVE ~ (Len(objects) > capacity)
    BY DEF WithinAllocation
  <2>1. Len(objects) <= size /\ size <= capacity
    BY DEF EInv, HInv, WellSized
  <2>2. size \in Nat /\ capacity \in Nat /\ Len(objects) \in Nat
    <3>1. objects \in Seq(EntryTypes(made))
      BY DEF EInv, HInv, ArrayType
    <3> QED BY <3>1, LenProperties DEF EInv, HInv, HandlerTypes
  <2> QED BY <2>1, <2>2
<1> QED BY <1>1, Invariance, PTL

\* ArrayIsComplete: the listener and every open connection are watched, each once and in
\* whole rows, and nobody else.
THEOREM EveryoneIsWatched == Spec => []ArrayIsComplete
<1>1. EInv => ArrayIsComplete
  <2> SUFFICES ASSUME EInv PROVE ArrayIsComplete
    OBVIOUS
  <2>1. PICK w \in {1, 2} : w = Width /\ (KQueue <=> w = 2)
    BY Numbers
  <2>2. PICK n \in Nat : /\ n = Len(objects) /\ DOMAIN objects = 1 .. n
                         /\ Whole(w, n) /\ Sound(w, objects)
    <3>1. objects \in Seq(EntryTypes(made)) /\ Sound(w, objects)
      BY <2>1 DEF EInv, HInv, ArrayType, InRows
    <3> QED BY <3>1, LenProperties DEF Sound
  <2>3. /\ Covered(w, n)
        /\ \A i \in Starts(w, n) : i \in 1 .. n /\ i + w - 1 \in 1 .. n
    BY <2>2, StartsFacts
  <2>4. \A i \in Starts(w, n) : Paired(w, objects[i], objects[i + w - 1])
    BY <2>2 DEF Sound
  <2>5. \A fd : (\E i \in 1 .. n : objects[i].fd = fd) <=> HasRow(Room, fd)
    <3> TAKE fd
    <3>1. HasRow(Room, fd) <=> \E j \in Starts(w, n) : objects[j].fd = fd
      BY <2>1, <2>2, RowBegins DEF Room
    <3>2. ASSUME NEW i \in 1 .. n PROVE \E j \in Starts(w, n) : objects[j].fd = objects[i].fd
      <4>1. PICK j \in Starts(w, n) : i = j \/ i = j + w - 1
        BY <2>3 DEF Covered
      <4> QED BY <2>4, <4>1 DEF Paired
    <3> QED BY <2>3, <3>1, <3>2
  <2> DEFINE watched == {objects[i].fd : i \in DOMAIN objects} \ {-1}
             filters(fd) == {i \in DOMAIN objects : objects[i].fd = fd}
  <2>6. watched = {Listener} \cup {fd \in Fds : owner[fd] # 0}
    <3>1. \A fd : fd \in watched <=> fd # -1 /\ HasRow(Room, fd)
      BY <2>2, <2>5
    <3> HIDE DEF watched
    <3> QED BY <3>1, Numbers DEF EInv, HInv, Complete
  <2>7. ASSUME NEW fd \in watched
        PROVE  \E j \in Starts(w, n) : filters(fd) = {j, j + w - 1}
    <3>1. PICK i \in 1 .. n : objects[i].fd = fd /\ fd # -1
      BY <2>2, <2>7
    <3>2. PICK j \in Starts(w, n) : i = j \/ i = j + w - 1
      BY <2>3 DEF Covered
    <3>3. objects[j].fd = fd /\ objects[j + w - 1].fd = fd
      BY <2>4, <3>1, <3>2 DEF Paired
    <3>4. ASSUME NEW k \in 1 .. n, objects[k].fd = fd PROVE k = j \/ k = j + w - 1
      <4>1. PICK l \in Starts(w, n) : k = l \/ k = l + w - 1
        BY <2>3 DEF Covered
      <4>2. objects[l].fd = fd
        BY <2>4, <3>4, <4>1 DEF Paired
      <4>3. l = j
        BY <2>2, <3>1, <3>3, <4>2 DEF Sound
      <4> QED BY <4>1, <4>3
    <3> QED BY <2>2, <2>3, <3>3, <3>4
  <2>8. ASSUME NEW fd \in watched
        PROVE  IF KQueue
               THEN \E i \in DOMAIN objects : /\ filters(fd) = {i, i + 1}
                                              /\ objects[i].filter = "read"
                                              /\ objects[i + 1].filter = "write"
               ELSE \E i \in DOMAIN objects : filters(fd) = {i}
    <3>1. PICK j \in Starts(w, n) : filters(fd) = {j, j + w - 1}
      BY <2>7
    <3>2. j \in 1 .. n /\ Paired(w, objects[j], objects[j + w - 1])
      BY <2>3, <2>4
    <3> HIDE DEF filters, watched
    <3>3. CASE w = 1
      BY <2>1, <2>2, <3>1, <3>2, <3>3
    <3>4. CASE w = 2
      <4>1. j + w - 1 = j + 1
        BY <3>2, <3>4
      <4>2. objects[j].filter = "read" /\ objects[j + 1].filter = "write"
        BY <3>2, <3>4, <4>1 DEF Paired
      <4> QED BY <2>1, <2>2, <3>1, <3>2, <3>4, <4>1, <4>2
    <3> QED BY <3>3, <3>4
  <2> QED BY <2>6, <2>8 DEF ArrayIsComplete
<1> QED BY <1>1, Invariance, PTL

\* WatchesFollowOutput: a client is watched for room to write exactly while it has
\* output, in the array and in the kernel.
THEOREM WatchedWhileOutputWaits == Spec => []WatchesFollowOutput
<1>1. EInv => WatchesFollowOutput
  <2> SUFFICES ASSUME EInv, NEW fd \in Fds, owner[fd] # 0
               PROVE  /\ objects[Index(fd) + Width - 1].out = (owner[fd] \in output)
                      /\ KQueue /\ Index(-1) = 0 =>
                           {[fd |-> fd, filter |-> "read", out |-> FALSE],
                            [fd |-> fd, filter |-> "write", out |-> owner[fd] \in output]}
                             \subseteq kernel
    BY DEF WatchesFollowOutput
  <2>1. HInv /\ fd # -1 /\ HasRow(Room, fd)
    BY Numbers DEF EInv, HInv, Complete
  <2>2. PICK at : at = Index(fd)
    OBVIOUS
  <2>3. /\ at \in Starts(Width, Len(objects)) /\ objects[at].fd = fd
        /\ at + Width - 1 \in 1 .. Len(objects) /\ Row(Width, objects, at) \in Room
    BY <2>1, <2>2, IndexFacts
  <2>4. PICK a, b : a = objects[at] /\ b = objects[at + Width - 1]
    OBVIOUS
  <2>5. PICK row : row = <<a, b>>
    OBVIOUS
  <2>6. row \in Room /\ row[1] = a /\ row[2] = b /\ a.fd = fd
    BY <2>3, <2>4, <2>5 DEF Row
  <2>7. b.out <=> owner[fd] \in output
    BY <2>6 DEF EInv, HInv, OutputsInRows
  <2>8. objects \in Seq(EntryTypes(made)) /\ Sound(Width, objects)
    BY DEF EInv, HInv, ArrayType, InRows
  <2>9. a \in EntryTypes(made) /\ b \in EntryTypes(made)
    <3>1. at \in 1 .. Len(objects)
      BY <2>3 DEF Starts
    <3> QED BY <2>3, <2>4, <2>8, <3>1
  <2>10. b.out = (owner[fd] \in output)
    BY <2>7, <2>9 DEF EntryTypes
  <2>11. ASSUME KQueue, Index(-1) = 0
         PROVE  {[fd |-> fd, filter |-> "read", out |-> FALSE],
                 [fd |-> fd, filter |-> "write", out |-> owner[fd] \in output]} \subseteq kernel
    <3>1. ~ HasRow(Room, -1)
      <4>1. Find(objects, -1) = 0
        BY <2>11 DEF Find, Index
      <4>2. \A j \in 1 .. Len(objects) : objects[j].fd # -1
        BY <2>8, <4>1, FindFacts
      <4> QED BY <4>2, RowBegins DEF Room, Starts
    <3>2. Watch(a) \in kernel /\ Watch(b) \in kernel
      BY <2>6, <2>11, <3>1 DEF EInv, HInv, KernelHas
    <3>3. Paired(2, a, b)
      <4>1. Width = 2
        BY <2>11, Numbers
      <4> QED BY <2>3, <2>4, <2>8, <4>1 DEF Sound
    <3>4. a.out = FALSE /\ a.filter = "read" /\ b.filter = "write" /\ b.fd = fd
      BY <2>6, <2>9, <3>3 DEF Paired, EntryTypes
    <3>5. /\ Watch(a) = [fd |-> fd, filter |-> "read", out |-> FALSE]
          /\ Watch(b) = [fd |-> fd, filter |-> "write", out |-> owner[fd] \in output]
      BY <2>6, <2>10, <3>4 DEF Watch
    <3> QED BY <3>2, <3>5
  <2> QED BY <2>2, <2>4, <2>10, <2>11
<1> QED BY <1>1, Invariance, PTL

\* InputReachesItsConnection: the connection input was reported for has the descriptor
\* until that input is handled.
THEOREM InputIsDelivered == Spec => []InputReachesItsConnection
<1>1. EInv => InputReachesItsConnection
  BY DEF EInv, BatchInOrder, WalkInOrder, InputReachesItsConnection
<1> QED BY <1>1, Invariance, PTL

=============================================================================
