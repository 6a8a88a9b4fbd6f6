-------------------------- MODULE NegotiationProofs --------------------------
(***************************************************************************)
(* Proofs about the negotiation of extensions, for every alphabet, token   *)
(* length and set of requests.  Whatever is read, the parser's state is in  *)
(* order and both sides use the same settings (the first half).  What a    *)
(* peer writes is listed as it was meant, and answered as it was offered   *)
(* (the second half, from the functions on sequences on).                  *)
(***************************************************************************)
EXTENDS Negotiation, SequenceTheorems, WellFoundedInduction, TLAPS

-----------------------------------------------------------------------------
\* Searching, and what a recursive function computes.

\* What SelectInSeq makes of the places that fit.
First(I) == IF I # {} THEN Min(I) ELSE 0

\* A set of numbers that is not empty has a least one.
LEMMA LeastNumber ==
  ASSUME NEW T \in SUBSET Nat, T # {}
  PROVE  \E x \in T : \A y \in T : x <= y
<1> DEFINE R == {ss \in Nat \X Nat : ss[1] < ss[2]}
<1>1. IsWellFoundedOn(R, Nat)
  BY NatLessThanWellFounded DEF OpToRel
<1>2. \A x, y \in Nat : <<y, x>> \in R <=> y < x
  OBVIOUS
<1> HIDE DEF R
<1>3. PICK x \in T : \A y \in T : ~ (<<y, x>> \in R)
  BY <1>1, WFMin
<1>4. \A y \in T : x <= y
  <2> TAKE y \in T
  <2>1. x \in Nat /\ y \in Nat /\ ~ (y < x)
    BY <1>2, <1>3
  <2> QED BY <2>1
<1> QED BY <1>4

\* Induction, over a set.
LEMMA Induction ==
  ASSUME NEW X \in SUBSET Nat, 0 \in X, \A n \in X : n + 1 \in X
  PROVE  X = Nat
<1> DEFINE T == Nat \ X
<1> SUFFICES ASSUME T # {} PROVE FALSE
  OBVIOUS
<1>1. PICK n \in T : \A m \in T : n <= m
  <2> T \in SUBSET Nat
    OBVIOUS
  <2> HIDE DEF T
  <2> QED BY LeastNumber
<1>2. n - 1 \in Nat /\ n = (n - 1) + 1 /\ ~ (n <= n - 1)
  OBVIOUS
<1>3. n - 1 \in X
  BY <1>1, <1>2
<1> QED BY <1>2, <1>3

\* Induction over sequences.
LEMMA SequenceInduction ==
  ASSUME NEW S, NEW X \in SUBSET Seq(S), <<>> \in X,
         \A s \in X : \A e \in S : Append(s, e) \in X
  PROVE  X = Seq(S)
<1> DEFINE Y == {n \in Nat : \A s \in Seq(S) : Len(s) = n => s \in X}
<1>1. 0 \in Y
  OBVIOUS
<1>2. ASSUME NEW n \in Y PROVE n + 1 \in Y
  <2> SUFFICES ASSUME NEW s \in Seq(S), Len(s) = n + 1 PROVE s \in X
    OBVIOUS
  <2>1. s # <<>> /\ n \in Nat
    OBVIOUS
  <2>2. PICK t \in Seq(S), e \in S : s = Append(t, e)
    BY <2>1, SequenceEmptyOrAppend
  <2>3. Len(t) = n
    BY <2>1, <2>2
  <2> QED BY <2>2, <2>3
<1>3. Y = Nat
  <2> Y \in SUBSET Nat
    OBVIOUS
  <2> HIDE DEF Y
  <2> QED BY <1>1, <1>2, Induction
<1>4. \A s \in Seq(S) : Len(s) \in Nat
  OBVIOUS
<1> QED BY <1>3, <1>4

\* The first place is the least one, or 0.
LEMMA FirstFacts ==
  ASSUME NEW I \in SUBSET Nat
  PROVE  /\ I = {} => First(I) = 0
         /\ I # {} => First(I) \in I /\ \A y \in I : First(I) <= y
<1>1. CASE I = {}
  BY <1>1 DEF First
<1>2. CASE I # {}
  <2>1. \E x \in I : \A y \in I : x <= y
    BY <1>2, LeastNumber
  <2> QED BY <1>2, <2>1 DEF First, Min
<1> QED BY <1>1, <1>2

\* The place of a digit.
Place(c) == SelectInSeq(Digits, LAMBDA d : d = c)

\* A digit has one.
LEMMA DigitFacts ==
  ASSUME NEW d \in ToSet(Digits)
  PROVE  Place(d) \in 1 .. 10
<1> DEFINE I == {i \in 1 .. Len(Digits) : Digits[i] = d}
<1>1. Len(Digits) = 10 /\ DOMAIN Digits = 1 .. 10
  BY DEF Digits
<1>2. Place(d) = First(I)
  BY DEF Place, First, SelectInSeq
<1>3. I # {} /\ I \in SUBSET Nat
  BY <1>1 DEF ToSet
<1> HIDE DEF I
<1>4. First(I) \in I
  BY <1>3, FirstFacts
<1>5. First(I) \in 1 .. 10
  BY <1>1, <1>4 DEF I
<1> QED BY <1>2, <1>5

\* The number of the first i letters, from that of one letter less.
NumberStep(text, n, i) == IF i = 0 THEN 0 ELSE 10 * n[i - 1] + Place(text[i]) - 1

IsNumberOf(text, n, k) == n = [i \in 0 .. k |-> NumberStep(text, n, i)]

\* There are such numbers.
LEMMA NumbersExist ==
  ASSUME NEW S, NEW text \in Seq(S), NEW k \in Nat
  PROVE  \E n : IsNumberOf(text, n, k)
<1> DEFINE X == {j \in Nat : \E n : IsNumberOf(text, n, j)}
<1>1. 0 \in X
  <2> DEFINE n == [i \in 0 .. 0 |-> 0]
  <2>1. n = [i \in 0 .. 0 |-> NumberStep(text, n, i)]
    BY DEF NumberStep
  <2> QED BY <2>1 DEF IsNumberOf
<1>2. ASSUME NEW j \in X PROVE j + 1 \in X
  <2>1. j \in Nat
    OBVIOUS
  <2>2. PICK m : IsNumberOf(text, m, j)
    OBVIOUS
  <2> DEFINE n == [i \in 0 .. j + 1 |-> IF i = j + 1 THEN NumberStep(text, m, j + 1) ELSE m[i]]
  <2>3. \A i \in 0 .. j : m[i] = NumberStep(text, m, i)
    BY <2>1, <2>2 DEF IsNumberOf
  <2>4. \A i \in 0 .. j + 1 : NumberStep(text, n, i) = NumberStep(text, m, i)
    BY <2>1 DEF NumberStep
  <2>5. \A i \in 0 .. j + 1 : n[i] = NumberStep(text, n, i)
    <3> TAKE i \in 0 .. j + 1
    <3>1. CASE i = j + 1
      BY <2>4, <3>1
    <3>2. CASE i # j + 1
      <4>1. i \in 0 .. j
        BY <2>1, <3>2
      <4> QED BY <2>3, <2>4, <3>2, <4>1
    <3> QED BY <3>1, <3>2
  <2>6. n = [i \in 0 .. j + 1 |-> NumberStep(text, n, i)]
    BY <2>5
  <2>7. IsNumberOf(text, n, j + 1)
    BY <2>6 DEF IsNumberOf
  <2> QED BY <2>1, <2>7
<1>3. X \in SUBSET Nat
  OBVIOUS
<1>4. X = Nat
  <2> HIDE DEF X
  <2> QED BY <1>1, <1>2, <1>3, Induction
<1> QED BY <1>4

\* Digits are a natural number.
LEMMA NumberFacts ==
  ASSUME NEW S, NEW text \in Seq(S), IsNumber(text)
  PROVE  Number(text) \in Nat
<1> DEFINE n == CHOOSE f : f = [i \in 0 .. Len(text) |->
                  IF i = 0 THEN 0
                  ELSE 10 * f[i - 1] + SelectInSeq(Digits, LAMBDA d : d = text[i]) - 1]
<1>1. Number(text) = n[Len(text)]
  BY DEF Number
<1>2. Len(text) \in Nat
  OBVIOUS
<1>3. IsNumberOf(text, n, Len(text))
  <2>1. \A f : IsNumberOf(text, f, Len(text)) <=>
               f = [i \in 0 .. Len(text) |->
                      IF i = 0 THEN 0
                      ELSE 10 * f[i - 1] + SelectInSeq(Digits, LAMBDA d : d = text[i]) - 1]
    BY DEF IsNumberOf, NumberStep, Place
  <2>2. \E f : IsNumberOf(text, f, Len(text))
    BY NumbersExist
  <2> QED BY <2>1, <2>2
<1>4. PICK m, k : m = n /\ k = Len(text)
  OBVIOUS
<1> HIDE DEF n
<1>5. \A i \in 0 .. k : m[i] = NumberStep(text, m, i)
  BY <1>3, <1>4 DEF IsNumberOf
<1>6. \A i \in 1 .. k : Place(text[i]) \in 1 .. 10
  <2> TAKE i \in 1 .. k
  <2>1. i \in DOMAIN text
    BY <1>4
  <2> QED BY <2>1, DigitFacts DEF IsNumber
<1> DEFINE X == {i \in Nat : i <= k => m[i] \in Nat}
<1>7. X = Nat
  <2>1. 0 \in X
    BY <1>2, <1>4, <1>5 DEF NumberStep
  <2>2. ASSUME NEW i \in X PROVE i + 1 \in X
    <3>1. i \in Nat
      OBVIOUS
    <3> SUFFICES ASSUME i + 1 <= k PROVE m[i + 1] \in Nat
      BY <3>1
    <3>2. i + 1 \in 1 .. k /\ i + 1 \in 0 .. k /\ i + 1 # 0 /\ i + 1 - 1 = i
      BY <1>2, <1>4, <3>1
    <3>3. m[i] \in Nat
      BY <1>2, <1>4, <3>1
    <3>4. m[i + 1] = 10 * m[i] + Place(text[i + 1]) - 1
      BY <1>5, <3>2 DEF NumberStep
    <3>5. Place(text[i + 1]) \in 1 .. 10
      BY <1>6, <3>2
    <3>6. \A x \in Nat : \A y \in 1 .. 10 : 10 * x + y - 1 \in Nat
      OBVIOUS
    <3> QED BY <3>3, <3>4, <3>5, <3>6
  <2>3. X \in SUBSET Nat
    OBVIOUS
  <2> HIDE DEF X
  <2> QED BY <2>1, <2>2, <2>3, Induction
<1>8. m[k] \in Nat
  BY <1>2, <1>4, <1>7
<1> QED BY <1>1, <1>4, <1>8

\* Only what is written in digits is a number, and all of it is where numbers are
\* told from text.
LEMMA NumberTold ==
  ASSUME NEW t
  PROVE  /\ IsNumber(t) => IsNumeral(t)
         /\ t \in Texts /\ t # <<>> => (IsNumber(t) <=> IsNumeral(t) /\ TellsNumbers)
<1>1. IsNumber(t) => IsNumeral(t)
  BY DEF IsNumber, IsNumeral, ToSet
<1>2. IsNumeral(t) /\ TellsNumbers => IsNumber(t)
  BY DEF IsNumber, IsNumeral, ToSet
<1>3. ASSUME t \in Texts, t # <<>>, IsNumber(t) PROVE TellsNumbers
  <2>1. 1 \in DOMAIN t
    BY <1>3 DEF Texts
  <2> QED BY <1>3, <2>1 DEF IsNumber
<1> QED BY <1>1, <1>2, <1>3

-----------------------------------------------------------------------------
\* Filling the list.

Entries == [token : Texts, params : Seq(Params)]

\* Only the last parameter may wait for its value, and no offer ends with it.
OpenIsLast(params) ==
  \A i \in DOMAIN params :
    params[i].type = "EMPTY" => i = Len(params) /\ ~ params[i].isLast

Open(q) == q.type = "EMPTY"
EndsOpen(params) == params # <<>> /\ Open(params[Len(params)])

\* The parameter that stands for an extension, when c follows its name.
KeyParam(c, q) == IF c = "," THEN [q EXCEPT !.type = "BOOL", !.isLast = TRUE] ELSE q

WithLast(params, q) == [params EXCEPT ![Len(params)] = q]

\* Parameters with q added: in place of one that waits for its value, or behind.
WithParam(params, q) == IF EndsOpen(params) THEN WithLast(params, q) ELSE Append(params, q)

\* The parameter that is filled: the open one or a new one.
Pending(params) == IF EndsOpen(params) THEN params[Len(params)] ELSE NewParam

\* A new parameter has its type.
LEMMA NewParamTyped == NewParam \in Params /\ Open(NewParam) /\ ~ NewParam.isLast
<1>1. <<>> \in Texts
  BY DEF Texts
<1> QED BY <1>1 DEF NewParam, Params, Open

\* What is filled is a parameter, and has a value if it ends an offer.
LEMMA FilledTyped ==
  ASSUME NEW q \in Params, ~ q.isLast, NEW c \in Separators, NEW text \in Texts
  PROVE  /\ Filled(q, c, text) \in Params
         /\ Open(Filled(q, c, text)) => ~ Filled(q, c, text).isLast
<1>1. IsNumber(text) => Number(text) \in Nat
  BY NumberFacts DEF Texts
<1>2. \A n \in Nat : [q EXCEPT !.type = "INT", !.int = n] \in Params
  BY DEF Params
<1>3. CASE q.key = <<>> /\ ~ IsNumber(text)
  BY <1>3 DEF Filled, Params, Open, Separators
<1>4. CASE ~ (q.key = <<>> /\ ~ IsNumber(text)) /\ IsNumber(text) /\ c # "="
  <2>1. PICK n \in Nat : n = Number(text)
    BY <1>1, <1>4
  <2>2. Filled(q, c, text) =
          [[q EXCEPT !.type = "INT", !.int = n] EXCEPT !.isLast = @ \/ c = ","]
    BY <1>4, <2>1 DEF Filled
  <2> QED BY <2>2, ZenonT(60) DEF Params, Open
<1>5. CASE ~ (q.key = <<>> /\ ~ IsNumber(text)) /\ ~ (IsNumber(text) /\ c # "=")
  <2>1. Filled(q, c, text) =
          [[q EXCEPT !.type = "STRING", !.string = text] EXCEPT !.isLast = @ \/ c = ","]
    BY <1>5 DEF Filled
  <2> QED BY <2>1 DEF Params, Open
<1> QED BY <1>3, <1>4, <1>5

\* So is what stands for an extension.
LEMMA KeyParamTyped ==
  ASSUME NEW q \in Params, ~ q.isLast, NEW c
  PROVE  KeyParam(c, q) \in Params /\ (Open(KeyParam(c, q)) => ~ KeyParam(c, q).isLast)
BY ZenonT(60) DEF KeyParam, Params, Open

\* Cutting a sequence at its end and gluing it with q there, or behind.
LEMMA Glued ==
  ASSUME NEW s \in Seq(Params), NEW q \in Params
  PROVE  /\ s # <<>> => SubSeq(s, 1, Len(s) - 1) \o <<q>> \o SubSeq(s, Len(s) + 1, Len(s))
                          = [s EXCEPT ![Len(s)] = q]
         /\ SubSeq(s, 1, Len(s)) \o <<q>> \o SubSeq(s, Len(s) + 2, Len(s)) = Append(s, q)
         /\ SubSeq(s, 1, Len(s)) \o <<q>> = Append(s, q)
<1>1. SubSeq(s, 1, Len(s)) = s /\ s \o <<q>> = Append(s, q)
  BY SubSeqFull, AppendIsConcat
<1>2. SubSeq(s, Len(s) + 2, Len(s)) = <<>> /\ SubSeq(s, Len(s) + 1, Len(s)) = <<>>
  BY SubSeqEmpty
<1>3. Append(s, q) \in Seq(Params) /\ Append(s, q) \o <<>> = Append(s, q)
  BY ConcatEmptySeq
<1>4. ASSUME s # <<>>
      PROVE  SubSeq(s, 1, Len(s) - 1) \o <<q>> = [s EXCEPT ![Len(s)] = q]
  <2>1. PICK n \in Nat : n = Len(s) /\ n # 0
    BY <1>4
  <2>2. PICK r \in Seq(Params) : r = SubSeq(s, 1, n - 1) /\ Len(r) = n - 1
    <3>1. PICK k \in Nat : k = n - 1
      BY <2>1
    <3>2. \A i \in 1 .. k : s[i] \in Params
      BY <2>1, <3>1
    <3>3. /\ SubSeq(s, 1, k) \in Seq(Params)
        /\ Len(SubSeq(s, 1, k)) = IF 1 <= k THEN k - 1 + 1 ELSE 0
      BY <3>2, SubSeqProperties
    <3>4. Len(SubSeq(s, 1, k)) = k
      BY <3>1, <3>3
    <3> QED BY <3>1, <3>3, <3>4
  <2>3. \A i \in 1 .. n - 1 : r[i] = s[i]
    BY <2>1, <2>2
  <2>4. r \o <<q>> \in Seq(Params) /\ Len(r \o <<q>>) = n
    BY <2>1, <2>2
  <2>5. [s EXCEPT ![n] = q] \in Seq(Params) /\ Len([s EXCEPT ![n] = q]) = n
    BY <2>1
  <2>6. \A i \in 1 .. n : (r \o <<q>>)[i] = [s EXCEPT ![n] = q][i]
    BY <2>1, <2>2, <2>3
  <2>7. r \o <<q>> = [s EXCEPT ![n] = q]
    BY <2>4, <2>5, <2>6, SeqEqual
  <2> QED BY <2>1, <2>2, <2>7
<1>5. s # <<>> => /\ [s EXCEPT ![Len(s)] = q] \in Seq(Params)
                  /\ [s EXCEPT ![Len(s)] = q] \o <<>> = [s EXCEPT ![Len(s)] = q]
  BY ConcatEmptySeq
<1> QED BY <1>1, <1>2, <1>3, <1>4, <1>5

\* The place of the first parameter without a value.
LEMMA FirstOpen ==
  ASSUME NEW params \in Seq(Params), OpenIsLast(params)
  PROVE  SelectInSeq(params, LAMBDA q : q.type = "EMPTY")
           = IF EndsOpen(params) THEN Len(params) ELSE 0
<1> DEFINE I == {i \in 1 .. Len(params) : params[i].type = "EMPTY"}
<1>1. SelectInSeq(params, LAMBDA q : q.type = "EMPTY") = First(I)
  BY DEF First, SelectInSeq
<1>2. Len(params) \in Nat /\ I \in SUBSET Nat /\ DOMAIN params = 1 .. Len(params)
  OBVIOUS
<1>3. \A i \in I : i = Len(params) /\ EndsOpen(params)
  <2> TAKE i \in I
  <2>1. i \in DOMAIN params /\ params[i].type = "EMPTY"
    BY <1>2
  <2>2. i = Len(params)
    BY <2>1 DEF OpenIsLast
  <2> QED BY <2>1, <2>2 DEF EndsOpen, Open
<1>4. EndsOpen(params) => Len(params) \in I
  BY <1>2 DEF EndsOpen, Open
<1> HIDE DEF I
<1>5. CASE EndsOpen(params)
  BY <1>1, <1>2, <1>3, <1>4, <1>5, FirstFacts
<1>6. CASE ~ EndsOpen(params)
  BY <1>1, <1>2, <1>3, <1>6, FirstFacts
<1> QED BY <1>5, <1>6

LastIndex(params) == IF EndsOpen(params) THEN Len(params) ELSE Len(params) + 1

\* What __add_extension_param_key adds.
LEMMA AddedKeyIs ==
  ASSUME NEW params \in Seq(Params), OpenIsLast(params), NEW c
  PROVE  /\ AddedKey(c, params).params = WithParam(params, KeyParam(c, Pending(params)))
         /\ AddedKey(c, params).i = LastIndex(params)
<1>1. PICK n \in Nat : n = Len(params) /\ DOMAIN params = 1 .. n
  OBVIOUS
<1>2. PICK q \in Params : q = KeyParam(c, Pending(params))
  BY NewParamTyped, KeyParamTyped, <1>1 DEF Pending, EndsOpen, Open, OpenIsLast
<1>3. CASE EndsOpen(params)
  <2>1. n # 0 /\ params # <<>>
    BY <1>1, <1>3 DEF EndsOpen
  <2>2. AddedKey(c, params) =
          [i |-> n, params |-> SubSeq(params, 1, n - 1) \o <<q>> \o SubSeq(params, n + 1, n)]
    BY <1>1, <1>2, <1>3, <2>1, FirstOpen DEF AddedKey, KeyParam, Pending
  <2> QED BY <1>1, <1>2, <1>3, <2>1, <2>2, Glued DEF WithParam, WithLast, LastIndex
<1>4. CASE ~ EndsOpen(params)
  <2>1. n + 1 - 1 = n /\ n + 1 + 1 = n + 2
    OBVIOUS
  <2>3. AddedKey(c, params) =
          [i |-> n + 1,
           params |-> SubSeq(params, 1, n + 1 - 1) \o <<q>> \o SubSeq(params, n + 1 + 1, n)]
    <3>1. AddedKey(c, params) =
            LET i == Len(params) + 1
            IN  [i |-> i,
                 params |-> SubSeq(params, 1, i - 1) \o << KeyParam(c, NewParam) >>
                              \o SubSeq(params, i + 1, Len(params))]
      BY <1>4, FirstOpen DEF AddedKey, KeyParam
    <3>2. q = KeyParam(c, NewParam)
      BY <1>2, <1>4 DEF Pending
    <3> QED BY <1>1, <3>1, <3>2
  <2>4. SubSeq(params, 1, n) \o <<q>> \o SubSeq(params, n + 2, n) = Append(params, q)
    <3>1. SubSeq(params, 1, Len(params)) \o <<q>> \o SubSeq(params, Len(params) + 2, Len(params))
            = Append(params, q)
      BY <1>2, Glued
    <3> QED BY <1>1, <3>1
  <2>5. AddedKey(c, params) = [i |-> n + 1, params |-> Append(params, q)]
    BY <2>1, <2>3, <2>4
  <2> QED BY <1>1, <1>2, <1>4, <2>5 DEF WithParam, LastIndex
<1> QED BY <1>3, <1>4

\* What __add_extension_param_value adds behind the last parameter.
LEMMA AddedValueIs ==
  ASSUME NEW params \in Seq(Params), OpenIsLast(params), params # <<>>,
         NEW c \in Separators, NEW text \in Texts
  PROVE  /\ AddedValue(c, text, params, Len(params)).params
              = WithParam(params, Filled(Pending(params), c, text))
         /\ AddedValue(c, text, params, Len(params)).i = LastIndex(params)
<1>1. CASE EndsOpen(params)
  BY <1>1 DEF AddedValue, WithParam, WithLast, LastIndex, EndsOpen, Open, Pending
<1>2. CASE ~ EndsOpen(params)
  <2>1. Filled(NewParam, c, text) \in Params
    BY NewParamTyped, FilledTyped
  <2>2. PICK q \in Params : q = Filled(NewParam, c, text)
    BY <2>1
  <2>3. Pending(params) = NewParam /\ params[Len(params)].type # "EMPTY"
    BY <1>2 DEF Pending, EndsOpen, Open
  <2>4. AddedValue(c, text, params, Len(params)) =
          [i |-> Len(params) + 1, params |-> SubSeq(params, 1, Len(params)) \o <<q>>]
    BY <2>2, <2>3 DEF AddedValue
  <2>5. SubSeq(params, 1, Len(params)) \o <<q>> = Append(params, q)
    BY Glued
  <2>6. WithParam(params, q) = Append(params, q) /\ LastIndex(params) = Len(params) + 1
    BY <1>2 DEF WithParam, LastIndex
  <2>7. AddedValue(c, text, params, Len(params)) =
          [i |-> LastIndex(params), params |-> WithParam(params, q)]
    BY <2>4, <2>5, <2>6
  <2> QED BY <2>2, <2>3, <2>7
<1> QED BY <1>1, <1>2

\* The parameters stay in order.
LEMMA WithParamTyped ==
  ASSUME NEW params \in Seq(Params), OpenIsLast(params),
         NEW q \in Params, Open(q) => ~ q.isLast
  PROVE  /\ WithParam(params, q) \in Seq(Params)
         /\ OpenIsLast(WithParam(params, q))
         /\ Len(WithParam(params, q)) = LastIndex(params)
         /\ LastIndex(params) \in Nat \ {0}
<1>1. PICK n \in Nat : n = Len(params) /\ DOMAIN params = 1 .. n
  OBVIOUS
<1>2. CASE EndsOpen(params)
  <2>1. n # 0
    BY <1>1, <1>2 DEF EndsOpen
  <2>2. PICK s : s = WithLast(params, q)
    OBVIOUS
  <2>3. s \in Seq(Params) /\ Len(s) = n /\ DOMAIN s = 1 .. n /\ s[n] = q
    BY <1>1, <2>1, <2>2, ExceptSeq DEF WithLast
  <2>4. \A i \in 1 .. n : i # n => s[i] = params[i]
    BY <1>1, <2>1, <2>2 DEF WithLast
  <2>5. OpenIsLast(s)
    BY <1>1, <2>3, <2>4 DEF OpenIsLast, Open
  <2> QED BY <1>1, <1>2, <2>1, <2>2, <2>3, <2>5 DEF WithParam, LastIndex
<1>3. CASE ~ EndsOpen(params)
  <2>1. PICK s : s = Append(params, q)
    OBVIOUS
  <2>2. /\ s \in Seq(Params) /\ Len(s) = n + 1 /\ DOMAIN s = 1 .. n + 1
        /\ s[n + 1] = q /\ \A i \in 1 .. n : s[i] = params[i]
    BY <1>1, <2>1, AppendProperties
  <2>3. \A i \in 1 .. n : params[i].type # "EMPTY"
    BY <1>1, <1>3 DEF OpenIsLast, EndsOpen, Open
  <2>4. OpenIsLast(s)
    BY <2>2, <2>3 DEF OpenIsLast, Open
  <2> QED BY <1>1, <1>3, <2>1, <2>2, <2>4 DEF WithParam, LastIndex
<1> QED BY <1>2, <1>3

-----------------------------------------------------------------------------
\* Gluing sequences.

\* The first i sequences, from those of one less.
FlatStep(ss, f, i) == IF i = 1 THEN ss[i] ELSE f[i - 1] \o ss[i]

IsFlatOf(ss, f, k) == f = [i \in 1 .. k |-> FlatStep(ss, f, i)]

\* A further step glues the next sequence.
LEMMA FlatStepIs ==
  ASSUME NEW ss, NEW f, NEW i \in Nat, i # 0
  PROVE  FlatStep(ss, f, i + 1) = f[i] \o ss[i + 1]
<1>1. PICK j : j = i + 1 /\ j # 1 /\ j - 1 = i
  OBVIOUS
<1>2. FlatStep(ss, f, j) = f[j - 1] \o ss[j]
  BY <1>1 DEF FlatStep
<1> QED BY <1>1, <1>2

\* FlattenSeq computes such a function.
LEMMA FlatExists ==
  ASSUME NEW ss, NEW k \in Nat
  PROVE  \E f : IsFlatOf(ss, f, k)
<1> DEFINE X == {j \in Nat : \E f : IsFlatOf(ss, f, j)}
<1>1. 0 \in X
  <2> DEFINE f == [i \in 1 .. 0 |-> 0]
  <2>1. f = [i \in 1 .. 0 |-> FlatStep(ss, f, i)]
    OBVIOUS
  <2> QED BY <2>1 DEF IsFlatOf
<1>2. ASSUME NEW j \in X PROVE j + 1 \in X
  <2>1. j \in Nat
    OBVIOUS
  <2>2. PICK g : IsFlatOf(ss, g, j)
    OBVIOUS
  <2> DEFINE f == [i \in 1 .. j + 1 |-> IF i = j + 1 THEN FlatStep(ss, g, j + 1) ELSE g[i]]
  <2>3. \A i \in 1 .. j : g[i] = FlatStep(ss, g, i)
    BY <2>1, <2>2 DEF IsFlatOf
  <2>4. \A i \in 1 .. j + 1 : FlatStep(ss, f, i) = FlatStep(ss, g, i)
    BY <2>1 DEF FlatStep
  <2>5. \A i \in 1 .. j + 1 : f[i] = FlatStep(ss, f, i)
    <3> TAKE i \in 1 .. j + 1
    <3>1. CASE i = j + 1
      BY <2>4, <3>1
    <3>2. CASE i # j + 1
      <4>1. i \in 1 .. j
        BY <2>1, <3>2
      <4> QED BY <2>3, <2>4, <3>2, <4>1
    <3> QED BY <3>1, <3>2
  <2>6. f = [i \in 1 .. j + 1 |-> FlatStep(ss, f, i)]
    BY <2>5
  <2>7. IsFlatOf(ss, f, j + 1)
    BY <2>6 DEF IsFlatOf
  <2> QED BY <2>1, <2>7
<1>3. X = Nat
  <2> X \in SUBSET Nat
    OBVIOUS
  <2> HIDE DEF X
  <2> QED BY <1>1, <1>2, Induction
<1> QED BY <1>3

\* Its value at the end is the result.
LEMMA FlattenIs ==
  ASSUME NEW ss, Len(ss) \in Nat \ {0}
  PROVE  \E f : IsFlatOf(ss, f, Len(ss)) /\ FlattenSeq(ss) = f[Len(ss)]
<1> DEFINE f == CHOOSE g :
                  g = [i \in 1 .. Len(ss) |-> IF i = 1 THEN ss[i] ELSE g[i - 1] \o ss[i]]
<1>1. FlattenSeq(ss) = f[Len(ss)]
  BY DEF FlattenSeq
<1>2. \A g : IsFlatOf(ss, g, Len(ss)) <=>
               g = [i \in 1 .. Len(ss) |-> IF i = 1 THEN ss[i] ELSE g[i - 1] \o ss[i]]
  BY DEF IsFlatOf, FlatStep
<1>3. \E g : IsFlatOf(ss, g, Len(ss))
  BY FlatExists
<1>4. IsFlatOf(ss, f, Len(ss))
  BY <1>2, <1>3
<1> HIDE DEF f
<1> QED BY <1>1, <1>4

\* One sequence more is glued to the end.
LEMMA FlattenAppend ==
  ASSUME NEW S, NEW ss \in Seq(Seq(S)), NEW s \in Seq(S)
  PROVE  FlattenSeq(Append(ss, s)) = FlattenSeq(ss) \o s
<1>1. PICK n \in Nat : n = Len(ss)
  OBVIOUS
<1>2. PICK tt : tt = Append(ss, s)
  OBVIOUS
<1>3. Len(tt) = n + 1 /\ tt[n + 1] = s /\ \A i \in 1 .. n : tt[i] = ss[i]
  BY <1>1, <1>2
<1>4. n + 1 \in Nat \ {0}
  OBVIOUS
<1>5. PICK g : IsFlatOf(tt, g, n + 1) /\ FlattenSeq(tt) = g[n + 1]
  BY <1>3, <1>4, FlattenIs
<1>6. \A i \in 1 .. n + 1 : g[i] = FlatStep(tt, g, i)
  BY <1>5 DEF IsFlatOf
<1>7. CASE n = 0
  <2>1. ss = <<>>
    BY <1>1, <1>7, EmptySeq
  <2>2. FlattenSeq(ss) = <<>>
    BY <2>1 DEF FlattenSeq
  <2>3. g[1] = s
    BY <1>3, <1>6, <1>7 DEF FlatStep
  <2> QED BY <1>2, <1>5, <1>7, <2>2, <2>3, ConcatEmptySeq
<1>8. CASE n # 0
  <2>1. PICK f : IsFlatOf(ss, f, n) /\ FlattenSeq(ss) = f[n]
    BY <1>1, <1>8, FlattenIs
  <2>2. \A i \in 1 .. n : f[i] = FlatStep(ss, f, i)
    BY <2>1 DEF IsFlatOf
  <2> DEFINE X == {i \in Nat : i \in 1 .. n => f[i] = g[i]}
  <2>3. X = Nat
    <3>1. 0 \in X
      OBVIOUS
    <3>2. ASSUME NEW i \in X PROVE i + 1 \in X
      <4>1. i \in Nat /\ i + 1 \in Nat /\ i + 1 - 1 = i
        OBVIOUS
      <4> SUFFICES ASSUME i + 1 \in 1 .. n PROVE f[i + 1] = g[i + 1]
        BY <4>1
      <4>2. f[i + 1] = FlatStep(ss, f, i + 1) /\ g[i + 1] = FlatStep(tt, g, i + 1)
        BY <1>6, <2>2
      <4>3. ss[i + 1] = tt[i + 1]
        BY <1>3
      <4>4. CASE i = 0
        BY <4>2, <4>3, <4>4 DEF FlatStep
      <4>5. CASE i # 0
        <5>1. f[i] = g[i] /\ i + 1 # 1
          BY <4>1, <4>5
        <5>2. FlatStep(ss, f, i + 1) = f[i] \o ss[i + 1]
          BY <4>1, <4>5, FlatStepIs
        <5>3. FlatStep(tt, g, i + 1) = g[i] \o tt[i + 1]
          BY <4>1, <4>5, FlatStepIs
        <5> QED BY <4>2, <4>3, <5>1, <5>2, <5>3
      <4> QED BY <4>4, <4>5
    <3> X \in SUBSET Nat
      OBVIOUS
    <3> HIDE DEF X
    <3> QED BY <3>1, <3>2, Induction
  <2>4. f[n] = g[n]
    <3>1. n \in 1 .. n /\ n \in X
      BY <1>8, <2>3
    <3> QED BY <3>1
  <2>5. n + 1 \in 1 .. n + 1 /\ n + 1 # 1 /\ n + 1 - 1 = n
    BY <1>8
  <2>6. g[n + 1] = g[n] \o s
    BY <1>3, <1>6, <1>8, <2>5, FlatStepIs
  <2> QED BY <1>2, <1>5, <2>1, <2>4, <2>6
<1> QED BY <1>7, <1>8

\* Nothing glued is nothing.
LEMMA FlattenEmpty == FlattenSeq(<<>>) = <<>>
BY DEF FlattenSeq

\* Glued sequences are a sequence of the same elements.
LEMMA FlattenTyped ==
  ASSUME NEW S, NEW ss \in Seq(Seq(S))
  PROVE  FlattenSeq(ss) \in Seq(S)
<1> DEFINE X == {tt \in Seq(Seq(S)) : FlattenSeq(tt) \in Seq(S)}
<1>1. <<>> \in X
  BY FlattenEmpty, EmptySeq
<1>2. ASSUME NEW tt \in X, NEW s \in Seq(S) PROVE Append(tt, s) \in X
  <2>1. FlattenSeq(Append(tt, s)) = FlattenSeq(tt) \o s
    BY FlattenAppend
  <2>2. FlattenSeq(tt) \o s \in Seq(S)
    BY ConcatProperties
  <2>3. Append(tt, s) \in Seq(Seq(S))
    OBVIOUS
  <2> HIDE DEF X
  <2> QED BY <2>1, <2>2, <2>3 DEF X
<1>3. X = Seq(Seq(S))
  <2> X \in SUBSET Seq(Seq(S))
    OBVIOUS
  <2> HIDE DEF X
  <2> QED BY <1>1, <1>2, SequenceInduction
<1> QED BY <1>3

\* It does not matter which two of three sequences are glued first.
LEMMA Regrouped ==
  \A S : \A s, t, u \in Seq(S) : (s \o t) \o u = s \o (t \o u)
BY ConcatAssociative

\* What comes first is first in the result.
LEMMA FlattenConcat ==
  ASSUME NEW S, NEW ss \in Seq(Seq(S)), NEW rr \in Seq(Seq(S))
  PROVE  FlattenSeq(ss \o rr) = FlattenSeq(ss) \o FlattenSeq(rr)
<1> DEFINE X == {tt \in Seq(Seq(S)) : FlattenSeq(ss \o tt) = FlattenSeq(ss) \o FlattenSeq(tt)}
<1>1. <<>> \in X
  <2>1. ss \o <<>> = ss /\ FlattenSeq(ss) \o <<>> = FlattenSeq(ss)
    BY FlattenTyped, ConcatEmptySeq
  <2>2. <<>> \in Seq(Seq(S))
    OBVIOUS
  <2> QED BY <2>1, <2>2, FlattenEmpty
<1>2. ASSUME NEW tt \in X, NEW s \in Seq(S) PROVE Append(tt, s) \in X
  <2>1. tt \in Seq(Seq(S)) /\ FlattenSeq(ss \o tt) = FlattenSeq(ss) \o FlattenSeq(tt)
    OBVIOUS
  <2>2. ss \o Append(tt, s) = Append(ss \o tt, s)
    <3>1. Append(tt, s) = tt \o <<s>> /\ Append(ss \o tt, s) = (ss \o tt) \o <<s>>
      BY <2>1, ConcatProperties, AppendIsConcat
    <3>2. <<s>> \in Seq(Seq(S))
      OBVIOUS
    <3> QED BY <2>1, <3>1, <3>2, ConcatAssociative
  <2>3. ss \o tt \in Seq(Seq(S))
    BY <2>1, ConcatProperties
  <2>4. FlattenSeq(Append(ss \o tt, s)) = FlattenSeq(ss \o tt) \o s
    BY <2>3, FlattenAppend
  <2>5. FlattenSeq(Append(tt, s)) = FlattenSeq(tt) \o s
    BY <2>1, FlattenAppend
  <2>6. (FlattenSeq(ss) \o FlattenSeq(tt)) \o s = FlattenSeq(ss) \o (FlattenSeq(tt) \o s)
    <3>1. FlattenSeq(ss) \in Seq(S) /\ FlattenSeq(tt) \in Seq(S)
      BY <2>1, FlattenTyped
    <3> HIDE DEF X
    <3>2. \A a, b, d \in Seq(S) : (a \o b) \o d = a \o (b \o d)
      BY Regrouped, SMTT(30)
    <3>3. s \in Seq(S)
      OBVIOUS
    <3>4. PICK a, b : a = FlattenSeq(ss) /\ b = FlattenSeq(tt)
      OBVIOUS
    <3>5. a \in Seq(S) /\ b \in Seq(S)
      BY <3>1, <3>4
    <3>6. (a \o b) \o s = a \o (b \o s)
      BY <3>2, <3>3, <3>5, Zenon
    <3> QED BY <3>4, <3>6
  <2>7. Append(tt, s) \in Seq(Seq(S))
    BY <2>1
  <2> QED BY <2>1, <2>2, <2>4, <2>5, <2>6, <2>7
<1>3. X = Seq(Seq(S))
  <2> X \in SUBSET Seq(Seq(S))
    OBVIOUS
  <2> HIDE DEF X
  <2> QED BY <1>1, <1>2, SequenceInduction
<1> QED BY <1>3

-----------------------------------------------------------------------------
\* What peers write is text.

ParamPieces(o) == [i \in DOMAIN o.params |-> WrittenParam(o.params[i])]

OfferPiece(i, o) == (IF i = 1 THEN <<>> ELSE <<",">>) \o WrittenOffer(o)

OfferPieces(offers) == [i \in DOMAIN offers |-> OfferPiece(i, offers[i])]

\* Letters of every kind are letters.
LEMMA TextFacts ==
  /\ <<>> \in Texts /\ <<"\"">> \in Texts /\ \A c \in Separators : <<c>> \in Texts
  /\ Plain \subseteq Texts /\ Seq(Alphabet \ {"\""}) \subseteq Texts
  /\ \A n \in Nat : Spaces(n) \in Texts
<1>1. "\"" \in Alphabet /\ " " \in Alphabet /\ Separators \subseteq Alphabet
  BY DEF Alphabet
<1>2. Letters \cup ToSet(Digits) \subseteq Alphabet
  BY DEF Alphabet
<1>3. \A S \in SUBSET Alphabet : Seq(S) \subseteq Seq(Alphabet)
  BY SeqMonotonic
<1>4. Alphabet \ {"\""} \in SUBSET Alphabet
  OBVIOUS
<1>5. \A n \in Nat : Spaces(n) \in Seq(Alphabet)
  <2> TAKE n \in Nat
  <2>1. Spaces(n) \in [1 .. n -> Alphabet]
    BY <1>1 DEF Spaces
  <2> QED BY <2>1, IsASeq
<1>6. <<>> \in Seq(Alphabet) /\ <<"\"">> \in Seq(Alphabet)
      /\ \A c \in Separators : <<c>> \in Seq(Alphabet)
  <2>1. \A c \in Alphabet : <<c>> \in Seq(Alphabet)
    OBVIOUS
  <2>2. <<>> \in Seq(Alphabet)
    OBVIOUS
  <2>3. \A c \in Separators : <<c>> \in Seq(Alphabet)
    BY <1>1, <2>1
  <2> QED BY <1>1, <2>1, <2>2, <2>3
<1>7. Plain \subseteq Seq(Alphabet)
  BY <1>2, <1>3 DEF Plain
<1> QED BY <1>3, <1>4, <1>5, <1>6, <1>7 DEF Texts

\* Glued texts are a text.
LEMMA TextsGlued == \A s, t \in Texts : s \o t \in Texts
<1>1. \A s, t \in Seq(Alphabet) : s \o t \in Seq(Alphabet)
  BY ConcatProperties
<1> QED BY <1>1 DEF Texts

\* So is a written value and parameter.
LEMMA WrittenParamTyped ==
  ASSUME NEW q \in WritableParams
  PROVE  /\ QuotedIf(q.quoted, q.value) \in Texts /\ WrittenValue(q) \in Texts
         /\ WrittenParam(q) \in Texts
<1>1. /\ q.name \in Plain /\ q.value \in Seq(Alphabet \ {"\""})
      /\ q.space \in Nat /\ q.valueSpace \in Nat
  BY DEF WritableParams
<1>2. q.name \in Texts /\ q.value \in Texts /\ <<"\"">> \in Texts /\ <<>> \in Texts
      /\ Spaces(q.space) \in Texts /\ Spaces(q.valueSpace) \in Texts
  BY <1>1, TextFacts
<1>3. <<"=">> \in Texts /\ <<";">> \in Texts
  BY TextFacts DEF Separators
<1>4. QuotedIf(q.quoted, q.value) \in Texts
  <2>1. <<"\"">> \o q.value \in Texts
    BY <1>2, TextsGlued
  <2>2. <<"\"">> \o q.value \o <<"\"">> \in Texts
    BY <1>2, <2>1, TextsGlued
  <2> QED BY <1>2, <2>2 DEF QuotedIf
<1>5. WrittenValue(q) \in Texts
  <2>1. <<"=">> \o Spaces(q.valueSpace) \in Texts
    BY <1>2, <1>3, TextsGlued
  <2>2. <<"=">> \o Spaces(q.valueSpace) \o QuotedIf(q.quoted, q.value) \in Texts
    BY <1>4, <2>1, TextsGlued
  <2> QED BY <1>2, <2>2 DEF WrittenValue
<1>6. WrittenParam(q) \in Texts
  <2>1. <<";">> \o Spaces(q.space) \in Texts
    BY <1>2, <1>3, TextsGlued
  <2>2. <<";">> \o Spaces(q.space) \o q.name \in Texts
    BY <1>2, <2>1, TextsGlued
  <2>3. <<";">> \o Spaces(q.space) \o q.name \o WrittenValue(q) \in Texts
    BY <1>5, <2>2, TextsGlued
  <2> QED BY <2>3 DEF WrittenParam
<1> QED BY <1>4, <1>5, <1>6

\* So is a written offer.
LEMMA WrittenOfferTyped ==
  ASSUME NEW o \in WritableOffers
  PROVE  /\ ParamPieces(o) \in Seq(Texts) /\ Len(ParamPieces(o)) = Len(o.params)
         /\ WrittenOffer(o) \in Texts
         /\ \A i \in Nat : OfferPiece(i, o) \in Texts
         /\ WrittenOffer(o) = Spaces(o.space) \o o.token \o FlattenSeq(ParamPieces(o))
<1>1. o.token \in Plain /\ o.params \in Seq(WritableParams) /\ o.space \in Nat
  BY DEF WritableOffers
<1>2. o.token \in Texts /\ Spaces(o.space) \in Texts /\ <<",">> \in Texts /\ <<>> \in Texts
  BY <1>1, TextFacts DEF Separators
<1>3. ParamPieces(o) \in Seq(Texts) /\ Len(ParamPieces(o)) = Len(o.params)
  <2>1. PICK n \in Nat : n = Len(o.params) /\ DOMAIN o.params = 1 .. n
    BY <1>1
  <2>2. \A i \in 1 .. n : o.params[i] \in WritableParams
    BY <1>1, <2>1
  <2>3. \A i \in 1 .. n : WrittenParam(o.params[i]) \in Texts
    BY <2>2, WrittenParamTyped
  <2>4. ParamPieces(o) \in [1 .. n -> Texts]
    BY <2>1, <2>3 DEF ParamPieces
  <2> QED BY <2>1, <2>4, IsASeq, LenProperties
<1>4. FlattenSeq(ParamPieces(o)) \in Texts
  BY <1>3, FlattenTyped DEF Texts
<1>5. Spaces(o.space) \o o.token \in Texts
  BY <1>2, TextsGlued
<1>6. WrittenOffer(o) = Spaces(o.space) \o o.token \o FlattenSeq(ParamPieces(o))
  BY DEF WrittenOffer, ParamPieces
<1>7. WrittenOffer(o) \in Texts
  BY <1>4, <1>5, <1>6, TextsGlued
<1>8. \A i \in Nat : OfferPiece(i, o) \in Texts
  BY <1>2, <1>7, TextsGlued DEF OfferPiece
<1> QED BY <1>3, <1>6, <1>7, <1>8

\* And a header.
LEMMA WrittenHeaderTyped ==
  ASSUME NEW offers \in Seq(WritableOffers)
  PROVE  /\ OfferPieces(offers) \in Seq(Texts) /\ Len(OfferPieces(offers)) = Len(offers)
         /\ WrittenHeader(offers) = FlattenSeq(OfferPieces(offers))
         /\ WrittenHeader(offers) \in Texts
<1>1. PICK n \in Nat : n = Len(offers) /\ DOMAIN offers = 1 .. n
  OBVIOUS
<1>2. \A i \in 1 .. n : i \in Nat /\ offers[i] \in WritableOffers
  BY <1>1
<1>3. \A i \in 1 .. n : OfferPiece(i, offers[i]) \in Texts
  BY <1>2, WrittenOfferTyped
<1>4. OfferPieces(offers) \in [1 .. n -> Texts]
  BY <1>1, <1>3 DEF OfferPieces
<1>5. OfferPieces(offers) \in Seq(Texts) /\ Len(OfferPieces(offers)) = Len(offers)
  BY <1>1, <1>4, IsASeq, LenProperties
<1>6. WrittenHeader(offers) = FlattenSeq(OfferPieces(offers))
  BY DEF WrittenHeader, OfferPieces, OfferPiece
<1>7. FlattenSeq(OfferPieces(offers)) \in Texts
  BY <1>5, FlattenTyped DEF Texts
<1> QED BY <1>5, <1>6, <1>7

-----------------------------------------------------------------------------
\* The list, extended and changed.

\* Every extension is listed once.
Once(l) == \A d, e \in DOMAIN l : l[d].token = l[e].token => d = e

ListInOrder(l) ==
  l \in Seq(Entries) /\ Once(l) /\ \A e \in DOMAIN l : OpenIsLast(l[e].params)

Found(l, token) == SelectInSeq(l, LAMBDA e : e.token = token)

\* Where the extension is in l, or comes to be.
PlaceIn(l, token) == IF Found(l, token) # 0 THEN Found(l, token) ELSE Len(l) + 1

NewEntry(token) == [token |-> token, params |-> <<NewParam>>]

Extended(l, token) == IF PlaceIn(l, token) <= Len(l) THEN l ELSE Append(l, NewEntry(token))

\* l with other parameters at place e.
SetParams(l, e, params) == [l EXCEPT ![e].params = params]

\* An entry of the same extension with other parameters.
LEMMA SetParamsFacts ==
  ASSUME NEW l, ListInOrder(l), NEW e \in DOMAIN l,
         NEW params \in Seq(Params), OpenIsLast(params)
  PROVE  /\ ListInOrder(SetParams(l, e, params))
         /\ DOMAIN SetParams(l, e, params) = DOMAIN l
         /\ \A d \in DOMAIN l : SetParams(l, e, params)[d].token = l[d].token
         /\ SetParams(l, e, params)[e].params = params
         /\ \A d \in DOMAIN l : d # e => SetParams(l, e, params)[d] = l[d]
<1>1. PICK n \in Nat : n = Len(l) /\ DOMAIN l = 1 .. n
  BY DEF ListInOrder
<1>2. \A d \in 1 .. n : l[d] \in Entries
  BY <1>1 DEF ListInOrder
<1>3. PICK m : m = SetParams(l, e, params)
  OBVIOUS
<1>4. PICK x : x = [l[e] EXCEPT !.params = params]
  OBVIOUS
<1>5. x \in Entries /\ x.token = l[e].token /\ x.params = params
  BY <1>1, <1>2, <1>4 DEF Entries
<1>6. m = [l EXCEPT ![e] = x]
  BY <1>3, <1>4 DEF SetParams
<1>7. m \in Seq(Entries) /\ Len(m) = n /\ DOMAIN m = 1 .. n
  BY <1>1, <1>5, <1>6, ExceptSeq DEF ListInOrder
<1>8. m[e] = x /\ \A d \in 1 .. n : d # e => m[d] = l[d]
  BY <1>1, <1>6
<1>9. \A d \in 1 .. n : m[d].token = l[d].token
  BY <1>5, <1>8
<1>10. Once(m)
  BY <1>1, <1>7, <1>9 DEF ListInOrder, Once
<1>11. \A d \in 1 .. n : OpenIsLast(m[d].params)
  BY <1>1, <1>5, <1>8 DEF ListInOrder
<1> QED BY <1>1, <1>3, <1>5, <1>7, <1>8, <1>9, <1>10, <1>11 DEF ListInOrder

\* An extension is found where it is, or not at all.
LEMMA PlaceFacts ==
  ASSUME NEW l \in Seq(Entries), NEW token
  PROVE  /\ PlaceIn(l, token) \in 1 .. Len(l) + 1
         /\ PlaceIn(l, token) <= Len(l) => l[PlaceIn(l, token)].token = token
         /\ PlaceIn(l, token) > Len(l) => /\ PlaceIn(l, token) = Len(l) + 1
                                          /\ \A e \in DOMAIN l : l[e].token # token
<1> DEFINE I == {i \in 1 .. Len(l) : l[i].token = token}
<1>1. Found(l, token) = First(I)
  BY DEF First, Found, SelectInSeq
<1>2. Len(l) \in Nat /\ DOMAIN l = 1 .. Len(l) /\ I \in SUBSET Nat
  OBVIOUS
<1>3. CASE I = {}
  <2>1. First(I) = 0
    BY <1>3, FirstFacts
  <2>2. PlaceIn(l, token) = Len(l) + 1
    BY <1>1, <2>1 DEF PlaceIn
  <2> QED BY <1>2, <1>3, <2>2
<1>4. CASE I # {}
  <2>1. First(I) \in I
    <3> HIDE DEF I
    <3> QED BY <1>2, <1>4, FirstFacts
  <2>2. First(I) \in 1 .. Len(l) /\ l[First(I)].token = token
    BY <2>1
  <2>3. PlaceIn(l, token) = First(I)
    BY <1>1, <1>2, <2>2 DEF PlaceIn
  <2> QED BY <1>2, <2>2, <2>3
<1> QED BY <1>3, <1>4

\* A list with the extension is in order, too.
LEMMA ExtendedFacts ==
  ASSUME NEW l, ListInOrder(l), NEW token \in Texts
  PROVE  /\ ListInOrder(Extended(l, token))
         /\ PlaceIn(l, token) \in DOMAIN Extended(l, token)
         /\ Extended(l, token)[PlaceIn(l, token)].token = token
         /\ DOMAIN l \subseteq DOMAIN Extended(l, token)
         /\ \A e \in DOMAIN l : Extended(l, token)[e] = l[e]
         /\ PlaceIn(l, token) \notin DOMAIN l =>
              /\ Extended(l, token)[PlaceIn(l, token)].params = <<NewParam>>
              /\ DOMAIN Extended(l, token) = DOMAIN l \cup {PlaceIn(l, token)}
              /\ \A e \in DOMAIN l : l[e].token # token
         /\ PlaceIn(l, token) \in DOMAIN l => Extended(l, token) = l
<1>1. PICK n \in Nat : n = Len(l) /\ DOMAIN l = 1 .. n
  BY DEF ListInOrder
<1>2. l \in Seq(Entries)
  BY DEF ListInOrder
<1>3. CASE PlaceIn(l, token) <= Len(l)
  BY <1>1, <1>2, <1>3, PlaceFacts DEF Extended
<1>4. CASE ~ (PlaceIn(l, token) <= Len(l))
  <2>1. PlaceIn(l, token) = n + 1 /\ \A e \in DOMAIN l : l[e].token # token
    BY <1>1, <1>2, <1>4, PlaceFacts
  <2>2. PICK x : x = NewEntry(token)
    OBVIOUS
  <2>3. x \in Entries /\ x.token = token /\ x.params = <<NewParam>>
    BY <2>2, NewParamTyped DEF NewEntry, Entries
  <2>4. PICK m : m = Append(l, x)
    OBVIOUS
  <2>5. m = Extended(l, token)
    BY <1>4, <2>2, <2>4 DEF Extended
  <2>6. /\ m \in Seq(Entries) /\ Len(m) = n + 1 /\ DOMAIN m = 1 .. n + 1
        /\ m[n + 1] = x /\ \A e \in 1 .. n : m[e] = l[e]
    BY <1>1, <1>2, <2>3, <2>4, AppendProperties
  <2>7. Once(m)
    <3> SUFFICES ASSUME NEW d \in 1 .. n + 1, NEW e \in 1 .. n + 1, m[d].token = m[e].token
                 PROVE  d = e
      BY <2>6 DEF Once
    <3>1. CASE d \in 1 .. n /\ e \in 1 .. n
      BY <1>1, <2>6, <3>1 DEF ListInOrder, Once
    <3>2. CASE d = n + 1 /\ e \in 1 .. n
      BY <1>1, <2>1, <2>3, <2>6, <3>2
    <3>3. CASE e = n + 1 /\ d \in 1 .. n
      BY <1>1, <2>1, <2>3, <2>6, <3>3
    <3>4. d = n + 1 \/ d \in 1 .. n
      OBVIOUS
    <3>5. e = n + 1 \/ e \in 1 .. n
      OBVIOUS
    <3> QED BY <3>1, <3>2, <3>3, <3>4, <3>5
  <2>8. OpenIsLast(<<NewParam>>)
    BY NewParamTyped DEF OpenIsLast
  <2>9. \A e \in 1 .. n + 1 : OpenIsLast(m[e].params)
    <3> TAKE e \in 1 .. n + 1
    <3>1. e = n + 1 \/ e \in 1 .. n
      OBVIOUS
    <3> QED BY <1>1, <2>3, <2>6, <2>8, <3>1 DEF ListInOrder
  <2>10. ListInOrder(m)
    BY <2>6, <2>7, <2>9 DEF ListInOrder
  <2> QED BY <1>1, <2>1, <2>3, <2>5, <2>6, <2>10
<1> QED BY <1>3, <1>4

\* Parameters of the extension token, in a list to which it may have come.
AddedTo(l, token, c) ==
  SetParams(Extended(l, token), PlaceIn(l, token),
            AddedKey(c, Extended(l, token)[PlaceIn(l, token)].params).params)

\* An extension is offered: the list stays in order.
LEMMA AddedToFacts ==
  ASSUME NEW l, ListInOrder(l), NEW token \in Texts, NEW c,
         NEW e, e = PlaceIn(l, token),
         NEW params, params = Extended(l, token)[e].params
  PROVE  /\ ListInOrder(AddedTo(l, token, c))
         /\ e \in DOMAIN AddedTo(l, token, c)
         /\ AddedKey(c, params).i = Len(AddedTo(l, token, c)[e].params)
         /\ AddedKey(c, params).i # 0
         /\ AddedTo(l, token, c) = SetParams(Extended(l, token), e,
                                             WithParam(params, KeyParam(c, Pending(params))))
         /\ params \in Seq(Params) /\ OpenIsLast(params)
<1>1. ListInOrder(Extended(l, token)) /\ e \in DOMAIN Extended(l, token)
  BY ExtendedFacts
<1>2. Extended(l, token)[e] \in Entries
  BY <1>1 DEF ListInOrder
<1>3. params \in Seq(Params) /\ OpenIsLast(params)
  BY <1>1, <1>2 DEF ListInOrder, Entries
<1>4. Pending(params) \in Params /\ ~ Pending(params).isLast
  <2>1. DOMAIN params = 1 .. Len(params) /\ Len(params) \in Nat
    BY <1>3
  <2>2. CASE EndsOpen(params)
    BY <1>3, <2>1, <2>2 DEF Pending, EndsOpen, Open, OpenIsLast
  <2>3. CASE ~ EndsOpen(params)
    BY <2>3, NewParamTyped DEF Pending
  <2> QED BY <2>2, <2>3
<1>5. PICK q : q = KeyParam(c, Pending(params))
  OBVIOUS
<1>6. q \in Params /\ (Open(q) => ~ q.isLast)
  BY <1>4, <1>5, KeyParamTyped
<1>7. PICK ps : ps = WithParam(params, q)
  OBVIOUS
<1>8. /\ ps \in Seq(Params) /\ OpenIsLast(ps)
      /\ Len(ps) = LastIndex(params) /\ LastIndex(params) # 0
  BY <1>3, <1>6, <1>7, WithParamTyped
<1>9. AddedKey(c, params).params = ps /\ AddedKey(c, params).i = LastIndex(params)
  BY <1>3, <1>5, <1>7, AddedKeyIs
<1>10. AddedTo(l, token, c) = SetParams(Extended(l, token), e, ps)
  BY <1>9 DEF AddedTo
<1>11. /\ ListInOrder(SetParams(Extended(l, token), e, ps))
       /\ DOMAIN SetParams(Extended(l, token), e, ps) = DOMAIN Extended(l, token)
       /\ SetParams(Extended(l, token), e, ps)[e].params = ps
  BY <1>1, <1>8, SetParamsFacts
<1> QED BY <1>1, <1>3, <1>5, <1>7, <1>8, <1>9, <1>10, <1>11

\* The parameters of the entry at place e, with a name or a value added.
WithValue(l, e, c, text) ==
  SetParams(l, e, AddedValue(c, text, l[e].params, Len(l[e].params)).params)

\* A parameter is offered: the list stays in order.
LEMMA WithValueFacts ==
  ASSUME NEW l, ListInOrder(l), NEW e \in DOMAIN l,
         NEW params, params = l[e].params, params # <<>>,
         NEW c \in Separators, NEW text \in Texts
  PROVE  /\ ListInOrder(WithValue(l, e, c, text))
         /\ DOMAIN WithValue(l, e, c, text) = DOMAIN l
         /\ AddedValue(c, text, params, Len(params)).i = Len(WithValue(l, e, c, text)[e].params)
         /\ AddedValue(c, text, params, Len(params)).i # 0
         /\ WithValue(l, e, c, text)
              = SetParams(l, e, WithParam(params, Filled(Pending(params), c, text)))
         /\ params \in Seq(Params) /\ OpenIsLast(params)
<1>1. l[e] \in Entries
  BY DEF ListInOrder
<1>2. params \in Seq(Params) /\ OpenIsLast(params)
  BY <1>1 DEF ListInOrder, Entries
<1>3. Pending(params) \in Params /\ ~ Pending(params).isLast
  <2>1. DOMAIN params = 1 .. Len(params) /\ Len(params) \in Nat
    BY <1>2
  <2>2. CASE EndsOpen(params)
    BY <1>2, <2>1, <2>2 DEF Pending, EndsOpen, Open, OpenIsLast
  <2>3. CASE ~ EndsOpen(params)
    BY <2>3, NewParamTyped DEF Pending
  <2> QED BY <2>2, <2>3
<1>4. PICK q : q = Filled(Pending(params), c, text)
  OBVIOUS
<1>5. q \in Params /\ (Open(q) => ~ q.isLast)
  BY <1>3, <1>4, FilledTyped
<1>6. PICK ps : ps = WithParam(params, q)
  OBVIOUS
<1>7. /\ ps \in Seq(Params) /\ OpenIsLast(ps)
      /\ Len(ps) = LastIndex(params) /\ LastIndex(params) # 0
  BY <1>2, <1>5, <1>6, WithParamTyped
<1>8. /\ AddedValue(c, text, params, Len(params)).params = ps
      /\ AddedValue(c, text, params, Len(params)).i = LastIndex(params)
  BY <1>2, <1>4, <1>6, AddedValueIs
<1>9. WithValue(l, e, c, text) = SetParams(l, e, ps)
  BY <1>8 DEF WithValue
<1>10. /\ ListInOrder(SetParams(l, e, ps)) /\ DOMAIN SetParams(l, e, ps) = DOMAIN l
       /\ SetParams(l, e, ps)[e].params = ps
  BY <1>7, SetParamsFacts
<1> QED BY <1>2, <1>4, <1>6, <1>7, <1>8, <1>9, <1>10

-----------------------------------------------------------------------------
\* What holds whatever is read.

\* The position is on the line, the token behind it.
ScanInOrder ==
  /\ lines \in Seq(Texts) /\ line \in Texts
  /\ p \in 0 .. Len(line) + 1 /\ inQuote \in BOOLEAN /\ hasExtension \in BOOLEAN
  /\ start \in Nat /\ length \in Nat /\ (start = 0 <=> length = 0)
  /\ start # 0 => start + length <= p

\* What is filled next is the last parameter of an extension in the list.
CurrentInOrder ==
  Reading /\ hasExtension =>
    /\ current[1] \in DOMAIN list
    /\ current[2] = Len(list[current[1]].params) /\ current[2] # 0

\* Settings that zlib has.
Configs ==
  {f \in [1 .. 4 -> Nat] :
     f[1] \in 8 .. 15 /\ f[2] \in 8 .. 15 /\ f[3] \in 0 .. 1 /\ f[4] \in 0 .. 1}

Answers ==
  {NoAnswer, Refused, [kind |-> "400"], [kind |-> "unused"]}
  \cup {[kind |-> "accepted", config |-> f, response |-> Respond(f)] : f \in Configs}

NInv == ScanInOrder /\ ListInOrder(list) /\ CurrentInOrder /\ answer \in Answers

\* A text is a sequence.
LEMMA TextLength == \A t \in Texts : Len(t) \in Nat /\ DOMAIN t = 1 .. Len(t)
BY DEF Texts

\* The character at the position is on the line.
LEMMA AtOnLine ==
  ASSUME ScanInOrder, NEW c, At(c)
  PROVE  /\ Reading /\ Len(line) \in Nat /\ p \in 1 .. Len(line)
         /\ p + 1 \in 0 .. Len(line) + 1 /\ line[p] = c
<1>1. Reading /\ p \in DOMAIN line /\ line[p] = c
  BY DEF At
<1>2. Len(line) \in Nat /\ DOMAIN line = 1 .. Len(line)
  BY TextLength DEF ScanInOrder
<1> QED BY <1>1, <1>2

\* The token is a text.
LEMMA TextTyped ==
  ASSUME ScanInOrder
  PROVE  Text \in Texts
<1>1. CASE start = 0
  BY <1>1, TextFacts DEF Text
<1>2. CASE start # 0
  <2>1. PICK n \in Nat : n = Len(line) /\ DOMAIN line = 1 .. n
    BY DEF ScanInOrder, Texts
  <2>2. PICK k \in Nat : k = start + length - 1 /\ k <= n
    BY <1>2, <2>1 DEF ScanInOrder
  <2>3. \A i \in start .. k : line[i] \in Alphabet
    BY <1>2, <2>1, <2>2 DEF ScanInOrder, Texts
  <2>4. SubSeq(line, start, k) \in Seq(Alphabet)
    BY <2>2, <2>3, SubSeqProperties DEF ScanInOrder
  <2> QED BY <1>2, <2>2, <2>4 DEF Text, Texts
<1> QED BY <1>1, <1>2

\* What AddExtension does, as operations on the list.
LEMMA AddExtensionIs ==
  ASSUME NEW c, AddExtension(c)
  PROVE  /\ list' = AddedTo(list, Text, c)
         /\ current' = <<PlaceIn(list, Text),
                         AddedKey(c, Extended(list, Text)[PlaceIn(list, Text)].params).i>>
<1>1. ExtensionAt(Text) = PlaceIn(list, Text)
  BY DEF ExtensionAt, PlaceIn, Found
<1>2. WithExtension(Text) = Extended(list, Text)
  BY <1>1 DEF WithExtension, Extended, NewEntry
<1> QED BY <1>1, <1>2 DEF AddExtension, AddedTo, SetParams

\* And AddParam.
LEMMA AddParamIs ==
  ASSUME NEW c, AddParam(c), current[2] = Len(list[current[1]].params)
  PROVE  /\ list' = WithValue(list, current[1], c, Text)
         /\ current' = <<current[1],
                         AddedValue(c, Text, list[current[1]].params,
                                    Len(list[current[1]].params)).i>>
BY DEF AddParam, WithValue, SetParams

\* The list is in order, and the last parameter of an extension is current.
Filling == ListInOrder(list) /\ current[1] \in DOMAIN list
           /\ current[2] = Len(list[current[1]].params) /\ current[2] # 0

\* The name of an extension is added, or found.
LEMMA AddExtensionInOrder ==
  ASSUME NInv, NEW c, AddExtension(c)
  PROVE  Filling'
<1>1. Text \in Texts /\ ListInOrder(list)
  BY TextTyped DEF NInv
<1>2. PICK e, params : e = PlaceIn(list, Text) /\ params = Extended(list, Text)[e].params
  OBVIOUS
<1>3. PICK l : l = AddedTo(list, Text, c)
  OBVIOUS
<1>4. list' = l /\ current' = <<e, AddedKey(c, params).i>>
  BY <1>2, <1>3, AddExtensionIs
<1>5. /\ ListInOrder(l) /\ e \in DOMAIN l
      /\ AddedKey(c, params).i = Len(l[e].params) /\ AddedKey(c, params).i # 0
  BY <1>1, <1>2, <1>3, AddedToFacts
<1> QED BY <1>4, <1>5 DEF Filling

\* The name or the value of a parameter is added.
LEMMA AddParamInOrder ==
  ASSUME NInv, Reading, hasExtension, NEW c \in Separators, AddParam(c)
  PROVE  Filling'
<1>1. Text \in Texts /\ ListInOrder(list)
  BY TextTyped DEF NInv
<1>2. /\ current[1] \in DOMAIN list /\ current[2] = Len(list[current[1]].params)
      /\ current[2] # 0
  BY DEF NInv, CurrentInOrder
<1>3. PICK e, params : e = current[1] /\ params = list[e].params
  OBVIOUS
<1>4. params # <<>>
  BY <1>2, <1>3
<1>5. PICK l : l = WithValue(list, e, c, Text)
  OBVIOUS
<1>6. list' = l /\ current' = <<e, AddedValue(c, Text, params, Len(params)).i>>
  BY <1>2, <1>3, <1>5, AddParamIs
<1>7. /\ ListInOrder(l) /\ DOMAIN l = DOMAIN list
      /\ AddedValue(c, Text, params, Len(params)).i = Len(l[e].params)
      /\ AddedValue(c, Text, params, Len(params)).i # 0
  BY <1>1, <1>2, <1>3, <1>4, <1>5, WithValueFacts
<1> QED BY <1>2, <1>3, <1>6, <1>7 DEF Filling

-----------------------------------------------------------------------------
\* Every step of the parser keeps it.

\* Initially nothing is read, and all lines are texts.
LEMMA InitInOrder ==
  ASSUME Init
  PROVE  NInv
<1>1. lines \in Seq(Texts)
  <2>1. CASE lines \in OtherLines
    BY <2>1, NegotiationAssumption DEF Texts
  <2>2. ASSUME NEW r \in Requests, lines = [h \in DOMAIN r |-> WrittenHeader(r[h])]
        PROVE  lines \in Seq(Texts)
    <3>1. r \in Seq(Seq(WritableOffers))
      <4>1. r \in Seq(Seq(WritableOffers) \ {<<>>})
        BY NegotiationAssumption
      <4>2. Seq(WritableOffers) \ {<<>>} \subseteq Seq(WritableOffers)
        OBVIOUS
      <4> QED BY <4>1, <4>2, SeqMonotonic
    <3>2. PICK n \in Nat : n = Len(r) /\ DOMAIN r = 1 .. n
      BY <3>1
    <3>3. \A h \in 1 .. n : r[h] \in Seq(WritableOffers)
      BY <3>1, <3>2
    <3>4. \A h \in 1 .. n : WrittenHeader(r[h]) \in Texts
      BY <3>3, WrittenHeaderTyped
    <3>5. lines \in [1 .. n -> Texts]
      BY <2>2, <3>2, <3>4
    <3> QED BY <3>2, <3>5, IsASeq
  <2> QED BY <2>1, <2>2 DEF Init
<1>2. <<>> \in Texts
  BY TextFacts
<1>3. ListInOrder(<<>>)
  BY DEF ListInOrder, Once
<1>4. Len(<<>>) = 0
  OBVIOUS
<1>5. ScanInOrder
  <2>1. /\ line = <<>> /\ p = 0 /\ start = 0 /\ length = 0
        /\ inQuote = FALSE /\ hasExtension = FALSE
    BY DEF Init
  <2>2. p \in 0 .. Len(line) + 1
    BY <1>4, <2>1
  <2>3. line \in Texts
    BY <1>2, <2>1
  <2> QED BY <1>1, <2>1, <2>2, <2>3 DEF ScanInOrder
<1> QED BY <1>3, <1>5 DEF Init, NInv, CurrentInOrder, Answers

\* Refusing a request leaves nothing that could be out of order.
LEMMA RefuseInOrder ==
  ASSUME NInv, Refuse
  PROVE  NInv'
<1>1. ListInOrder(<<>>)
  BY DEF ListInOrder, Once
<1>2. answer' \in Answers /\ answer' # NoAnswer
  BY DEF Refuse, Answers, NoAnswer
<1> QED BY <1>1, <1>2 DEF NInv, Refuse, scan, ScanInOrder, CurrentInOrder, Reading, Answers,
                          Configs, Refused, Respond

\* A token is added and the next one begins.
LEMMA EndOfToken ==
  ASSUME NInv, Reading, Filling', NewToken, answer' = answer,
         lines' = lines, line' = line, p' \in 0 .. Len(line) + 1, hasExtension' \in BOOLEAN
  PROVE  NInv'
<1>1. ScanInOrder'
  BY DEF NInv, ScanInOrder, NewToken
<1>2. ListInOrder(list)' /\ CurrentInOrder'
  BY DEF Filling, CurrentInOrder
<1> QED BY <1>1, <1>2 DEF NInv, Answers, Configs, Respond

\* The place of the first letter.
LetterAt(t, blank) == SelectInSeq(t, LAMBDA c : c # blank)

\* The search for it stays on the line.
LEMMA LetterAtFacts ==
  ASSUME NEW t \in Texts, NEW blank
  PROVE  /\ LetterAt(t, blank) \in 0 .. Len(t)
         /\ LetterAt(t, blank) # 0 =>
              /\ t[LetterAt(t, blank)] # blank
              /\ \A i \in 1 .. LetterAt(t, blank) - 1 : t[i] = blank
         /\ LetterAt(t, blank) = 0 => \A i \in 1 .. Len(t) : t[i] = blank
<1>1. PICK n \in Nat : n = Len(t)
  BY TextLength
<1> DEFINE I == {i \in 1 .. n : t[i] # blank}
<1>2. LetterAt(t, blank) = First(I)
  BY <1>1 DEF First, SelectInSeq, LetterAt
<1>3. I \subseteq 1 .. n /\ I \in SUBSET Nat
  OBVIOUS
<1>4. CASE I = {}
  <2>1. First(I) = 0
    BY <1>4, FirstFacts
  <2> QED BY <1>1, <1>2, <1>4, <2>1
<1>5. CASE I # {}
  <2>1. First(I) \in I /\ \A i \in I : First(I) <= i
    <3> HIDE DEF I
    <3> QED BY <1>3, <1>5, FirstFacts
  <2>2. PICK k : k = First(I)
    OBVIOUS
  <2>3. k \in 1 .. n /\ t[k] # blank
    BY <2>1, <2>2
  <2>4. \A i \in 1 .. k - 1 : i \in 1 .. n /\ ~ (k <= i)
    BY <2>3
  <2>5. \A i \in 1 .. k - 1 : t[i] = blank
    BY <2>1, <2>2, <2>4
  <2> QED BY <1>1, <1>2, <2>2, <2>3, <2>5
<1> QED BY <1>4, <1>5

\* The next header.
LEMMA NextHeaderInOrder ==
  ASSUME NInv, NextHeader
  PROVE  NInv'
<1>1. line' \in Texts /\ lines' \in Seq(Texts)
  BY HeadTailProperties DEF NInv, ScanInOrder, NextHeader
<1>2. PICK first : first = LetterAt(line', " ")
  OBVIOUS
<1>3. first \in 0 .. Len(line')
  <2>1. \A t \in Texts : \A blank : LetterAt(t, blank) \in 0 .. Len(t)
    BY LetterAtFacts
  <2> QED BY <1>1, <1>2, <2>1, Zenon
<1>4. ListInOrder(<<>>)
  BY DEF ListInOrder, Once
<1>5. /\ \/ answer' = [kind |-> "400"] /\ list' = <<>> /\ p' = p
         \/ answer' = answer /\ list' = list /\ p' = first
      /\ p = 0 /\ start' = 0 /\ length' = 0 /\ inQuote' = FALSE /\ hasExtension' = FALSE
  BY <1>2 DEF NextHeader, LetterAt
<1>6. Len(line') \in Nat
  BY <1>1, TextLength
<1>7. ScanInOrder'
  <2>1. p' \in 0 .. Len(line') + 1
    BY <1>3, <1>5, <1>6
  <2> QED BY <1>1, <1>5, <2>1 DEF ScanInOrder
<1>8. ListInOrder(list)' /\ CurrentInOrder'
  BY <1>4, <1>5 DEF NInv, CurrentInOrder
<1>9. answer' \in Answers
  BY <1>5 DEF NInv, Answers
<1> QED BY <1>7, <1>8, <1>9 DEF NInv, Answers, Configs, Respond

\* One character that ends no token.
LEMMA LetterInOrder ==
  ASSUME NInv, Quote \/ SkipSpace \/ TakeLetter
  PROVE  NInv'
<1>1. PICK c : At(c)
  BY DEF Quote, SkipSpace, TakeLetter
<1>2. PICK n \in Nat : n = Len(line) /\ p \in 1 .. n
  BY <1>1, AtOnLine DEF NInv
<1>3. /\ p' = p + 1 /\ lines' = lines /\ line' = line /\ hasExtension' = hasExtension
      /\ answer' = answer /\ list' = list /\ current' = current
  BY DEF Quote, SkipSpace, TakeLetter, Step
<1>4. p' \in 0 .. Len(line') + 1
  BY <1>2, <1>3
<1>5. ScanInOrder
  BY DEF NInv
<1>6. ScanInOrder'
  <2>1. CASE Quote \/ SkipSpace
    <3>1. start' = start /\ length' = length /\ inQuote' \in BOOLEAN
      BY <1>5, <2>1 DEF ScanInOrder, Quote, SkipSpace
    <3>2. start' # 0 => start' + length' <= p'
      BY <1>2, <1>3, <1>5, <3>1 DEF ScanInOrder
    <3> QED BY <1>3, <1>4, <1>5, <3>1, <3>2 DEF ScanInOrder
  <2>2. CASE TakeLetter
    <3>1. start' = (IF start = 0 THEN p ELSE start) /\ length' = length + 1 /\ inQuote' = inQuote
      BY <2>2 DEF TakeLetter
    <3>2. start' \in Nat /\ length' \in Nat /\ start' # 0 /\ length' # 0
      BY <1>2, <1>5, <3>1 DEF ScanInOrder
    <3>3. start' + length' <= p'
      BY <1>2, <1>3, <1>5, <3>1 DEF ScanInOrder
    <3> QED BY <1>3, <1>4, <1>5, <3>1, <3>2, <3>3 DEF ScanInOrder
  <2> QED BY <2>1, <2>2
<1> QED BY <1>3, <1>6 DEF NInv, CurrentInOrder, Reading, Answers, Configs, Respond

\* The name of an extension ends.
LEMMA EndExtensionInOrder ==
  ASSUME NInv, NEW c \in Separators, EndExtension(c)
  PROVE  NInv'
<1>1. CASE Refuse
  BY <1>1, RefuseInOrder
<1>2. CASE AddExtension(c) /\ NewToken /\ Step /\ hasExtension' = (c # ",")
  <2>1. Reading /\ p + 1 \in 0 .. Len(line) + 1
    BY AtOnLine DEF EndExtension, Separator, NInv
  <2>2. Filling'
    BY <1>2, AddExtensionInOrder
  <2>3. /\ p' \in 0 .. Len(line) + 1 /\ hasExtension' \in BOOLEAN
        /\ lines' = lines /\ line' = line /\ answer' = answer
    BY <1>2, <2>1 DEF Step
  <2> QED BY <1>2, <2>1, <2>2, <2>3, EndOfToken
<1> QED BY <1>1, <1>2 DEF EndExtension

\* The name or the value of a parameter ends.
LEMMA EndParamInOrder ==
  ASSUME NInv, NEW c \in Separators, EndParam(c)
  PROVE  NInv'
<1>1. CASE Refuse
  BY <1>1, RefuseInOrder
<1>2. CASE AddParam(c) /\ NewToken /\ Step /\ hasExtension' = (c # ",")
  <2>1. Reading /\ p + 1 \in 0 .. Len(line) + 1 /\ hasExtension
    BY AtOnLine DEF EndParam, Separator, NInv
  <2>2. Filling'
    BY <1>2, <2>1, AddParamInOrder
  <2>3. /\ p' \in 0 .. Len(line) + 1 /\ hasExtension' \in BOOLEAN
        /\ lines' = lines /\ line' = line /\ answer' = answer
    BY <1>2, <2>1 DEF Step
  <2> QED BY <1>2, <2>1, <2>2, <2>3, EndOfToken
<1> QED BY <1>1, <1>2 DEF EndParam

\* The line ends.
LEMMA EndHeaderInOrder ==
  ASSUME NInv, EndHeader
  PROVE  NInv'
<1>1. CASE Refuse
  BY <1>1, RefuseInOrder
<1>2. CASE ~ Refuse
  <2>1. /\ Reading /\ p' = 0 /\ NewToken
        /\ lines' = lines /\ line' = line /\ hasExtension' = hasExtension /\ answer' = answer
    BY <1>2 DEF EndHeader
  <2>2. hasExtension' \in BOOLEAN /\ p' \in 0 .. Len(line) + 1
    <3>1. Len(line) \in Nat
      BY TextLength DEF NInv, ScanInOrder
    <3> QED BY <2>1, <3>1 DEF NInv, ScanInOrder
  <2>3. CASE start = 0 \/ inQuote
    <3>1. list' = list /\ current' = current
      BY <1>2, <2>3 DEF EndHeader
    <3>2. ScanInOrder'
      BY <2>1, <2>2 DEF NInv, ScanInOrder, NewToken
    <3> QED BY <2>1, <3>1, <3>2 DEF NInv, CurrentInOrder, Reading, Answers, Configs, Respond
  <2>4. CASE ~ (start = 0 \/ inQuote)
    <3>1. "," \in Separators
      BY DEF Separators
    <3>2. CASE hasExtension
      <4>1. AddParam(",")
        BY <1>2, <2>4, <3>2 DEF EndHeader
      <4>2. Filling'
        BY <2>1, <3>1, <3>2, <4>1, AddParamInOrder
      <4> QED BY <2>1, <2>2, <4>2, EndOfToken
    <3>3. CASE ~ hasExtension
      <4>1. AddExtension(",")
        BY <1>2, <2>4, <3>3 DEF EndHeader
      <4>2. Filling'
        BY <4>1, AddExtensionInOrder
      <4> QED BY <2>1, <2>2, <4>2, EndOfToken
    <3> QED BY <3>2, <3>3
  <2> QED BY <2>3, <2>4
<1> QED BY <1>1, <1>2

-----------------------------------------------------------------------------
\* What permessage-deflate accepts.

Indices == 1 .. 4

\* There are four settings.
LEMMA FourSettings ==
  /\ DOMAIN Names = Indices /\ Len(Names) = 4 /\ DOMAIN Defaults = Indices
  /\ Defaults[1] = 15 /\ Defaults[2] = 15 /\ Defaults[3] = 0 /\ Defaults[4] = 0
  /\ \A n \in Indices : IsWindow(n) <=> n = 1 \/ n = 2
BY DEF Names, Defaults, Indices, IsWindow

\* A name is that of a setting, or none.
LEMMA NameFacts ==
  ASSUME NEW q
  PROVE  /\ Name(q) \in 0 .. 4
         /\ Name(q) # 0 => IsPrefix(q.key, Names[Name(q)])
         /\ \A n \in Indices : IsPrefix(q.key, Names[n]) => Name(q) # 0
<1> DEFINE I == {n \in 1 .. Len(Names) : IsPrefix(q.key, Names[n])}
<1>1. Name(q) = First(I)
  BY DEF Name, First, SelectInSeq
<1>2. I = {n \in Indices : IsPrefix(q.key, Names[n])}
  BY FourSettings DEF Indices
<1>3. I \in SUBSET Nat
  BY <1>2 DEF Indices
<1> HIDE DEF I
<1>4. CASE I = {}
  <2>1. First(I) = 0
    BY <1>4, FirstFacts
  <2> QED BY <1>1, <1>2, <1>4, <2>1
<1>5. CASE I # {}
  <2>1. First(I) \in I
    BY <1>3, <1>5, FirstFacts
  <2> QED BY <1>1, <1>2, <2>1 DEF Indices
<1> QED BY <1>4, <1>5

\* What it takes to be taken.
LEMMA TakenIs ==
  ASSUME NEW q
  PROVE  IsTaken(q) <=>
           /\ Name(q) \in Indices
           /\ IsWindow(Name(q)) => q.type # "STRING" /\ (q.type = "INT" => q.int \in 8 .. 15)
           /\ ~ IsWindow(Name(q)) => q.type = "BOOL"
<1>1. PICK m \in 0 .. 4 : m = Name(q)
  BY NameFacts
<1>2. ~ IsWindow(0)
  BY DEF IsWindow
<1>3. CASE m = 0
  <2>1. Name(q) = 0 /\ ~ IsWindow(Name(q))
    BY <1>1, <1>2, <1>3
  <2>2. ~ IsTaken(q)
    BY <2>1 DEF IsTaken
  <2> QED BY <2>1, <2>2 DEF Indices
<1>4. CASE m # 0 /\ IsWindow(m)
  <2>1. IsTaken(q) <=> q.type # "STRING" /\ (q.type = "INT" => q.int \in 8 .. 15)
    BY <1>1, <1>4 DEF IsTaken
  <2> QED BY <1>1, <1>4, <2>1 DEF Indices
<1>5. CASE m # 0 /\ ~ IsWindow(m)
  <2>1. IsTaken(q) <=> q.type = "BOOL"
    BY <1>1, <1>5 DEF IsTaken
  <2> QED BY <1>1, <1>5, <2>1 DEF Indices
<1> QED BY <1>3, <1>4, <1>5

\* A parameter that is taken and has its value gives a setting a value it may have.
LEMMA ValueFacts ==
  ASSUME NEW q \in Params, IsTaken(q), ~ Open(q)
  PROVE  /\ Name(q) \in Indices
         /\ IsWindow(Name(q)) => Value(q) \in 8 .. 15
         /\ ~ IsWindow(Name(q)) => Value(q) = 1
<1>1. Name(q) \in Indices
  BY TakenIs
<1>2. ASSUME IsWindow(Name(q)) PROVE Value(q) \in 8 .. 15
  <2>1. q.type # "STRING" /\ (q.type = "INT" => q.int \in 8 .. 15)
    BY <1>2, TakenIs
  <2>2. q.type \in {"INT", "BOOL"}
    BY <2>1 DEF Params, Open
  <2>3. CASE q.type = "BOOL"
    <3>1. Value(q) = 15
      BY <1>2, <2>3 DEF Value
    <3> QED BY <3>1
  <2>4. CASE q.type = "INT"
    <3>1. Value(q) = q.int
      BY <1>2, <2>4 DEF Value
    <3> QED BY <2>1, <2>4, <3>1
  <2> QED BY <2>2, <2>3, <2>4
<1>3. ASSUME ~ IsWindow(Name(q)) PROVE Value(q) = 1
  BY <1>3 DEF Value
<1> QED BY <1>1, <1>2, <1>3

\* The parameter that gives a setting its value.
Giver(params, i, n) == SelectInSeq(SubSeq(params, 1, i), LAMBDA q : Name(q) = n)

\* It is the first of that name, up to the i-th.
LEMMA GiverFacts ==
  ASSUME NEW params \in Seq(Params), NEW i \in DOMAIN params, NEW n
  PROVE  /\ Giver(params, i, n) \in 0 .. i
         /\ Giver(params, i, n) # 0 => Name(params[Giver(params, i, n)]) = n
         /\ Giver(params, i, n) = 0 => \A j \in 1 .. i : Name(params[j]) # n
         /\ SubSeq(params, 1, i) \in Seq(Params)
         /\ \A j \in 1 .. i : SubSeq(params, 1, i)[j] = params[j]
<1>1. i \in Nat /\ i # 0 /\ i <= Len(params) /\ Len(params) \in Nat
  OBVIOUS
<1>2. PICK s : s = SubSeq(params, 1, i)
  OBVIOUS
<1>3. s \in Seq(Params) /\ Len(s) = i /\ \A j \in 1 .. i : s[j] = params[j]
  <2>1. \A j \in 1 .. i : params[j] \in Params
    BY <1>1
  <2>2. /\ SubSeq(params, 1, i) \in Seq(Params)
        /\ Len(SubSeq(params, 1, i)) = IF 1 <= i THEN i - 1 + 1 ELSE 0
        /\ \A j \in 1 .. i - 1 + 1 : SubSeq(params, 1, i)[j] = params[1 + j - 1]
    BY <1>1, <2>1, SubSeqProperties
  <2>3. i - 1 + 1 = i /\ 1 <= i
    BY <1>1
  <2>4. \A j \in 1 .. i : 1 + j - 1 = j
    BY <1>1
  <2> QED BY <1>2, <2>2, <2>3, <2>4
<1> DEFINE I == {j \in 1 .. Len(s) : Name(s[j]) = n}
<1>4. Giver(params, i, n) = First(I)
  BY <1>2 DEF Giver, First, SelectInSeq
<1>5. I = {j \in 1 .. i : Name(params[j]) = n}
  BY <1>3
<1>6. I \in SUBSET Nat
  BY <1>1, <1>5
<1> HIDE DEF I
<1>7. CASE I = {}
  <2>1. First(I) = 0
    BY <1>7, FirstFacts
  <2> QED BY <1>1, <1>2, <1>3, <1>4, <1>5, <1>7, <2>1
<1>8. CASE I # {}
  <2>1. First(I) \in I
    BY <1>6, <1>8, FirstFacts
  <2>2. First(I) \in 1 .. i /\ Name(params[First(I)]) = n
    BY <1>5, <2>1
  <2> QED BY <1>1, <1>2, <1>3, <1>4, <2>2
<1> QED BY <1>7, <1>8

\* What is collected, setting by setting.
LEMMA CollectedIs ==
  ASSUME NEW params \in Seq(Params), NEW i \in DOMAIN params
  PROVE  /\ Collected(params, i) = [n \in Indices |-> Collected(params, i)[n]]
         /\ \A n \in Indices :
              Collected(params, i)[n] =
                IF Giver(params, i, n) = 0 THEN Defaults[n]
                ELSE Value(params[Giver(params, i, n)])
<1>1. Collected(params, i) =
        [n \in DOMAIN Names |->
          LET by == Giver(params, i, n)
          IN  IF by = 0 THEN Defaults[n] ELSE Value(params[by])]
  BY DEF Collected, Giver
<1>2. Collected(params, i) =
        [n \in Indices |-> IF Giver(params, i, n) = 0 THEN Defaults[n]
                           ELSE Value(params[Giver(params, i, n)])]
  BY <1>1, FourSettings
<1> QED BY <1>2

\* Where the loop of pmd_validate_offer ends: at i, and not before.
StopsFirstAt(params, i) ==
  /\ i \in DOMAIN params /\ StopsAt(params, i)
  /\ \A j \in 1 .. i - 1 : ~ StopsAt(params, j)

\* What it decides there.
DecidedAt(params, i) ==
  IF params[i].key = <<>> THEN [kind |-> "accepted", config |-> Defaults]
  ELSE IF ~ IsTaken(params[i]) \/ Repeats(params, i) THEN Refused
  ELSE [kind |-> "accepted", config |-> Collected(params, i)]

\* An offer is decided where the loop ends, and refused if it does not.
LEMMA DecisionFacts ==
  ASSUME NEW params \in Seq(Params)
  PROVE  \/ ValidateOffer(params) = Refused
         \/ \E i \in DOMAIN params : /\ StopsFirstAt(params, i)
                                     /\ ValidateOffer(params) = DecidedAt(params, i)
<1> DEFINE stops == {i \in DOMAIN params : StopsAt(params, i)}
           i == CHOOSE k \in stops : \A j \in stops : k <= j
<1>1. ValidateOffer(params) = IF stops = {} THEN Refused ELSE DecidedAt(params, i)
  BY DEF ValidateOffer, DecidedAt
<1>2. CASE stops = {}
  BY <1>1, <1>2
<1>3. CASE stops # {}
  <2>1. DOMAIN params = 1 .. Len(params) /\ Len(params) \in Nat
    OBVIOUS
  <2>2. stops \in SUBSET Nat
    BY <2>1
  <2>3. i \in stops /\ \A j \in stops : i <= j
    <3> HIDE DEF stops
    <3>1. \E k \in stops : \A j \in stops : k <= j
      BY <1>3, <2>2, LeastNumber
    <3> QED BY <3>1
  <2>4. PICK k : k = i
    OBVIOUS
  <2>5. k \in DOMAIN params /\ StopsAt(params, k) /\ \A j \in stops : k <= j
    BY <2>3, <2>4
  <2>6. \A j \in 1 .. k - 1 : j \in DOMAIN params /\ ~ (k <= j)
    BY <2>1, <2>5
  <2>7. \A j \in 1 .. k - 1 : ~ StopsAt(params, j)
    BY <2>5, <2>6
  <2> QED BY <1>1, <1>3, <2>4, <2>5, <2>7 DEF StopsFirstAt
<1> QED BY <1>2, <1>3

\* What is accepted are settings zlib has: the loop ended at a parameter that has
\* its value, behind others that were taken and have theirs.
LEMMA AcceptedFacts ==
  ASSUME NEW params \in Seq(Params), OpenIsLast(params), ValidateOffer(params) # Refused
  PROVE  \E f \in Configs : ValidateOffer(params) = [kind |-> "accepted", config |-> f]
<1>1. PICK i \in DOMAIN params : /\ StopsFirstAt(params, i)
                                 /\ ValidateOffer(params) = DecidedAt(params, i)
  BY DecisionFacts
<1>2. CASE params[i].key = <<>>
  <2>1. Defaults \in Configs
    BY DEF Defaults, Configs
  <2> QED BY <1>1, <1>2, <2>1 DEF DecidedAt
<1>3. CASE params[i].key # <<>>
  <2>1. IsTaken(params[i]) /\ ~ Repeats(params, i)
    BY <1>1, <1>3 DEF DecidedAt
  <2>2. params[i].isLast
    BY <1>1, <1>3, <2>1 DEF StopsFirstAt, StopsAt
  <2>3. Len(params) \in Nat /\ DOMAIN params = 1 .. Len(params)
    OBVIOUS
  <2>4. \A j \in 1 .. i : j \in DOMAIN params /\ params[j] \in Params
    BY <2>3
  <2>5. \A j \in 1 .. i : IsTaken(params[j]) /\ ~ Open(params[j])
    <3> TAKE j \in 1 .. i
    <3>1. CASE j = i
      BY <2>1, <2>2, <3>1 DEF OpenIsLast, Open
    <3>2. CASE j # i
      <4>1. i \in 1 .. Len(params) /\ j \in Nat /\ 1 <= j /\ j < i
        BY <2>3, <3>2
      <4>3. j \in 1 .. i - 1 /\ j # Len(params)
        <5>1. PICK m : m = i
          OBVIOUS
        <5>2. PICK n : n = Len(params)
          OBVIOUS
        <5>3. m \in 1 .. n /\ n \in Nat /\ j \in Nat /\ 1 <= j /\ j < m
          BY <2>3, <4>1, <5>1, <5>2
        <5>4. j \in 1 .. m - 1 /\ j # n
          BY <5>3
        <5> QED BY <5>1, <5>2, <5>4
      <4>2. IsTaken(params[j])
        BY <1>1, <4>3 DEF StopsFirstAt, StopsAt
      <4> QED BY <2>4, <4>2, <4>3 DEF OpenIsLast, Open
    <3> QED BY <3>1, <3>2
  <2>6. PICK f : f = Collected(params, i)
    OBVIOUS
  <2>7. \A n \in Indices : f[n] = IF Giver(params, i, n) = 0 THEN Defaults[n]
                                  ELSE Value(params[Giver(params, i, n)])
    BY <2>6, CollectedIs
  <2>8. f = [n \in Indices |-> f[n]]
    BY <2>6, CollectedIs
  <2>9. \A n \in Indices :
          /\ IsWindow(n) => f[n] \in 8 .. 15
          /\ ~ IsWindow(n) => f[n] \in 0 .. 1
    <3> TAKE n \in Indices
    <3>1. CASE Giver(params, i, n) = 0
      BY <2>7, <3>1, FourSettings DEF Indices
    <3>2. CASE Giver(params, i, n) # 0
      <4>1. PICK g : g = Giver(params, i, n)
        OBVIOUS
      <4>2. g \in 1 .. i /\ Name(params[g]) = n
        BY <3>2, <4>1, GiverFacts
      <4>3. /\ IsWindow(n) => Value(params[g]) \in 8 .. 15
            /\ ~ IsWindow(n) => Value(params[g]) = 1
        BY <2>4, <2>5, <4>2, ValueFacts
      <4> QED BY <2>7, <3>2, <4>1, <4>3
    <3> QED BY <3>1, <3>2
  <2>10. IsWindow(1) /\ IsWindow(2) /\ ~ IsWindow(3) /\ ~ IsWindow(4)
    BY DEF IsWindow
  <2>11. f[1] \in 8 .. 15 /\ f[2] \in 8 .. 15 /\ f[3] \in 0 .. 1 /\ f[4] \in 0 .. 1
    BY <2>9, <2>10 DEF Indices
  <2>12. \A n \in Indices : f[n] \in Nat
    BY <2>11 DEF Indices
  <2>13. f \in [Indices -> Nat]
    BY <2>8, <2>12
  <2>14. f \in Configs
    BY <2>11, <2>13 DEF Configs, Indices
  <2>15. ValidateOffer(params) = [kind |-> "accepted", config |-> f]
    BY <1>1, <1>3, <2>1, <2>6 DEF DecidedAt
  <2> QED BY <2>14, <2>15
<1> QED BY <1>2, <1>3

\* A peer hears of every setting, those that are not told having their defaults.
LEMMA HeardIsConfig ==
  ASSUME NEW f \in Configs
  PROVE  Heard(Respond(f)) = f
<1> DEFINE R == Respond(f)
<1>1. f = [n \in Indices |-> f[n]]
  BY DEF Configs, Indices
<1>2. R = {<<n, f[n]>> : n \in {k \in Indices : f[k] # Defaults[k]}}
  BY FourSettings DEF Respond
<1>3. \A r \in R : r[1] \in Indices /\ r[2] = f[r[1]] /\ f[r[1]] # Defaults[r[1]]
  BY <1>2
<1>4. \A n \in Indices : f[n] # Defaults[n] => \E r \in R : r[1] = n
  <2> SUFFICES ASSUME NEW n \in Indices, f[n] # Defaults[n] PROVE \E r \in R : r[1] = n
    OBVIOUS
  <2>1. <<n, f[n]>> \in R
    BY <1>2
  <2>2. <<n, f[n]>>[1] = n
    OBVIOUS
  <2> HIDE DEF R
  <2> QED BY <2>1, <2>2
<1>5. Heard(R) = [n \in Indices |->
        IF \E r \in R : r[1] = n THEN (CHOOSE r \in R : r[1] = n)[2] ELSE Defaults[n]]
  BY FourSettings DEF Heard
<1> HIDE DEF R
<1>6. \A n \in Indices :
        (IF \E r \in R : r[1] = n THEN (CHOOSE r \in R : r[1] = n)[2] ELSE Defaults[n]) = f[n]
  <2> TAKE n \in Indices
  <2>1. CASE \E r \in R : r[1] = n
    <3>1. PICK r \in R : r = (CHOOSE s \in R : s[1] = n) /\ r[1] = n
      BY <2>1
    <3> QED BY <1>3, <2>1, <3>1
  <2>2. CASE ~ \E r \in R : r[1] = n
    BY <1>4, <2>2
  <2> QED BY <2>1, <2>2
<1> QED BY <1>1, <1>5, <1>6 DEF R

-----------------------------------------------------------------------------
\* The request is answered, and what follows for every state.

\* The answer is one of those there are.
LEMMA ValidateInOrder ==
  ASSUME NInv, Validate
  PROVE  NInv'
<1>1. PICK e : e = PlaceIn(list, Deflate)
  OBVIOUS
<1>2. ExtensionAt(Deflate) = e
  BY <1>1 DEF ExtensionAt, PlaceIn, Found
<1>3. list \in Seq(Entries) /\ Len(list) \in Nat /\ DOMAIN list = 1 .. Len(list)
  BY DEF NInv, ListInOrder
<1>4. e \in Nat /\ e # 0
  BY <1>1, <1>3, PlaceFacts
<1>5. answer' \in Answers
  <2>1. CASE e > Len(list)
    <3>1. answer' = [kind |-> "unused"]
      BY <1>2, <2>1 DEF Validate
    <3> QED BY <3>1 DEF Answers
  <2>2. CASE ~ (e > Len(list))
    <3>1. e \in DOMAIN list
      BY <1>3, <1>4, <2>2
    <3>2. PICK params : params = list[e].params
      OBVIOUS
    <3>3. params \in Seq(Params) /\ OpenIsLast(params)
      <4>1. list[e] \in Entries
        BY <1>3, <3>1
      <4>2. params \in Seq(Params)
        BY <3>2, <4>1 DEF Entries
      <4> QED BY <3>1, <3>2, <4>2 DEF NInv, ListInOrder
    <3>4. answer' = LET offer == ValidateOffer(params)
                    IN  IF offer = Refused THEN Refused
                        ELSE [kind |-> "accepted", config |-> offer.config,
                              response |-> Respond(offer.config)]
      BY <1>2, <2>2, <3>2 DEF Validate
    <3>5. CASE ValidateOffer(params) = Refused
      BY <3>4, <3>5 DEF Answers
    <3>6. CASE ValidateOffer(params) # Refused
      <4>1. PICK f \in Configs : ValidateOffer(params) = [kind |-> "accepted", config |-> f]
        BY <3>3, <3>6, AcceptedFacts
      <4>2. PICK offer : offer = ValidateOffer(params)
        OBVIOUS
      <4>3. offer.config = f
        BY <4>1, <4>2
      <4>4. answer' = [kind |-> "accepted", config |-> f, response |-> Respond(f)]
        BY <3>4, <3>6, <4>2, <4>3
      <4> QED BY <4>4 DEF Answers
    <3> QED BY <3>5, <3>6
  <2> QED BY <2>1, <2>2
<1>6. answer' # NoAnswer
  <2>1. ExtensionAt(Deflate) > Len(list) => answer'.kind = "unused"
    BY DEF Validate
  <2>2. ASSUME ~ (ExtensionAt(Deflate) > Len(list))
        PROVE  answer' = Refused \/ answer'.kind = "accepted"
    BY <2>2 DEF Validate
  <2> QED BY <2>1, <2>2 DEF NoAnswer, Refused
<1>7. ScanInOrder' /\ ListInOrder(list)'
  BY DEF NInv, Validate, scan, ScanInOrder
<1> QED BY <1>5, <1>6, <1>7 DEF NInv, CurrentInOrder, Reading

\* NInv is inductive.
LEMMA Inductive ==
  ASSUME NInv, [Next]_vars
  PROVE  NInv'
<1>1. CASE NextHeader
  BY <1>1, NextHeaderInOrder
<1>2. CASE Quote \/ SkipSpace \/ TakeLetter
  BY <1>2, LetterInOrder
<1>3. ASSUME NEW c \in Separators, EndExtension(c) PROVE NInv'
  BY <1>3, EndExtensionInOrder
<1>4. ASSUME NEW c \in Separators, EndParam(c) PROVE NInv'
  BY <1>4, EndParamInOrder
<1>5. CASE EndHeader
  BY <1>5, EndHeaderInOrder
<1>6. CASE Validate
  BY <1>6, ValidateInOrder
<1>7. CASE UNCHANGED vars
  BY <1>7 DEF vars, scan, NInv, ScanInOrder, CurrentInOrder, Reading, Answers, Configs, Respond
<1> QED BY <1>1, <1>2, <1>3, <1>4, <1>5, <1>6, <1>7 DEF Next, Parse

\* Whatever is read, the parser's state is in order and the answer one there is.
THEOREM Invariance == Spec => []NInv
<1>1. Init => NInv
  BY InitInOrder
<1>2. NInv /\ [Next]_vars => NInv'
  BY Inductive
<1> QED BY <1>1, <1>2, PTL DEF Spec

\* NInv implies TypeOK.
LEMMA TypeOKHolds ==
  ASSUME NInv
  PROVE  TypeOK
<1>1. ScanInOrder /\ ListInOrder(list) /\ CurrentInOrder /\ answer \in Answers
  BY DEF NInv
<1>2. list \in Seq([token : Texts, params : Seq(Params)])
  BY <1>1 DEF ListInOrder, Entries
<1>3. \A e \in DOMAIN list : \A i \in DOMAIN list[e].params :
        list[e].params[i].type = "EMPTY" => i = Len(list[e].params)
  BY <1>1 DEF ListInOrder, OpenIsLast, Open
<1>4. answer.kind \in {"none", "400", "unused", "refused", "accepted"}
  BY <1>1 DEF Answers, NoAnswer, Refused
<1>5. {inQuote, hasExtension} \subseteq BOOLEAN
  BY <1>1 DEF ScanInOrder
<1> QED BY <1>1, <1>2, <1>3, <1>4, <1>5 DEF TypeOK, ScanInOrder, CurrentInOrder

\* Every variable keeps its type: the token lies on the line, behind no character
\* that was not read, and only the last parameter of an extension waits for its value,
\* so that parse_extensions writes over none.
THEOREM TypeCorrect == Spec => []TypeOK
<1>1. NInv => TypeOK
  BY TypeOKHolds
<1> QED BY <1>1, Invariance, PTL

\* NInv implies PeersAgree.
LEMMA PeersAgreeHolds ==
  ASSUME NInv
  PROVE  PeersAgree
<1> SUFFICES ASSUME answer.kind = "accepted"
             PROVE  /\ Heard(answer.response) = answer.config
                    /\ answer.config[1] \in 8 .. 15 /\ answer.config[2] \in 8 .. 15
  BY DEF PeersAgree
<1>1. PICK f \in Configs : answer = [kind |-> "accepted", config |-> f, response |-> Respond(f)]
  BY DEF NInv, Answers, NoAnswer, Refused
<1>2. answer.config = f /\ answer.response = Respond(f)
  BY <1>1
<1>3. Heard(Respond(f)) = f
  BY HeardIsConfig
<1>4. f[1] \in 8 .. 15 /\ f[2] \in 8 .. 15
  BY DEF Configs
<1> QED BY <1>2, <1>3, <1>4

\* Whatever the headers hold, the settings permessage-deflate accepts are those its
\* response tells the peer, with windows of 8 to 15 bits.
THEOREM PeersUseTheSame == Spec => []PeersAgree
<1>1. NInv => PeersAgree
  BY PeersAgreeHolds
<1> QED BY <1>1, Invariance, PTL

\* However often an extension is offered, it is in the list once: all offers to it are
\* under one entry, the one validate_extension_list finds.
THEOREM ListedOnce == Spec => []Once(list)
<1>1. NInv => Once(list)
  BY DEF NInv, ListInOrder
<1> QED BY <1>1, Invariance, PTL

-----------------------------------------------------------------------------
\* A function on every element of a sequence, and what it gives glued.

Map(F, s) == [i \in DOMAIN s |-> F[s[i]]]

FlatMap(F, s) == FlattenSeq(Map(F, s))

\* F gives elements of T for those of S.
Gives(F, S, T) == \A x \in S : F[x] \in T

\* It makes a sequence of the same length.
LEMMA MapFacts ==
  ASSUME NEW S, NEW T, NEW F, Gives(F, S, T), NEW s \in Seq(S)
  PROVE  /\ Map(F, s) \in Seq(T) /\ Len(Map(F, s)) = Len(s)
         /\ \A i \in 1 .. Len(s) : Map(F, s)[i] = F[s[i]]
<1>1. PICK n \in Nat : n = Len(s) /\ DOMAIN s = 1 .. n
  OBVIOUS
<1>2. \A i \in 1 .. n : s[i] \in S
  BY <1>1
<1>3. Map(F, s) \in [1 .. n -> T] /\ \A i \in 1 .. n : Map(F, s)[i] = F[s[i]]
  BY <1>1, <1>2 DEF Map, Gives
<1> QED BY <1>1, <1>3, IsASeq, LenProperties

\* Of two sequences.
LEMMA MapConcat ==
  ASSUME NEW S, NEW T, NEW F, Gives(F, S, T), NEW s \in Seq(S), NEW t \in Seq(S)
  PROVE  Map(F, s \o t) = Map(F, s) \o Map(F, t)
<1>1. PICK st \in Seq(S) : st = s \o t
  BY ConcatProperties
<1>2. PICK a \in Seq(T) : a = Map(F, s)
  BY MapFacts
<1>3. PICK b \in Seq(T) : b = Map(F, t)
  BY MapFacts
<1>4. PICK ab \in Seq(T) : ab = Map(F, st)
  BY MapFacts
<1>5. /\ Len(a) = Len(s) /\ Len(b) = Len(t) /\ Len(ab) = Len(st)
      /\ \A i \in 1 .. Len(s) : a[i] = F[s[i]]
      /\ \A i \in 1 .. Len(t) : b[i] = F[t[i]]
      /\ \A i \in 1 .. Len(st) : ab[i] = F[st[i]]
  BY <1>2, <1>3, <1>4, MapFacts
<1>6. PICK m \in Nat, n \in Nat : m = Len(s) /\ n = Len(t)
  OBVIOUS
<1>7. /\ Len(st) = m + n
      /\ \A i \in 1 .. m + n : st[i] = IF i <= m THEN s[i] ELSE t[i - m]
  BY <1>1, <1>6, ConcatProperties
<1>8. PICK c \in Seq(T) : c = a \o b
  BY ConcatProperties
<1>9. /\ Len(c) = m + n
      /\ \A i \in 1 .. m + n : c[i] = IF i <= m THEN a[i] ELSE b[i - m]
  <2>1. Len(a) = m /\ Len(b) = n
    BY <1>5, <1>6
  <2>2. /\ Len(a \o b) = Len(a) + Len(b)
        /\ \A i \in 1 .. Len(a) + Len(b) :
             (a \o b)[i] = IF i <= Len(a) THEN a[i] ELSE b[i - Len(a)]
    BY ConcatProperties
  <2> QED BY <1>8, <2>1, <2>2
<1>10. \A i \in 1 .. m + n : ab[i] = c[i]
  <2> TAKE i \in 1 .. m + n
  <2>1. CASE i <= m
    <3>1. i \in 1 .. m
      BY <2>1
    <3>2. st[i] = s[i] /\ c[i] = a[i]
      BY <1>7, <1>9, <2>1
    <3>3. ab[i] = F[st[i]] /\ a[i] = F[s[i]]
      BY <1>5, <1>6, <1>7, <3>1
    <3> QED BY <3>2, <3>3
  <2>2. CASE ~ (i <= m)
    <3>1. PICK j : j = i - m
      OBVIOUS
    <3>2. j \in 1 .. n
      BY <2>2, <3>1
    <3>3. st[i] = t[j] /\ c[i] = b[j]
      BY <1>7, <1>9, <2>2, <3>1
    <3>4. ab[i] = F[st[i]] /\ b[j] = F[t[j]]
      BY <1>5, <1>6, <1>7, <3>2
    <3> QED BY <3>3, <3>4
  <2> QED BY <2>1, <2>2
<1>11. Len(ab) = m + n
  BY <1>5, <1>7
<1>12. ab = c
  BY <1>9, <1>10, <1>11, SeqEqual
<1> QED BY <1>1, <1>2, <1>3, <1>4, <1>8, <1>12

\* Sequences glued are a sequence.
LEMMA FlatMapTyped ==
  ASSUME NEW S, NEW T, NEW F, Gives(F, S, Seq(T)), NEW s \in Seq(S)
  PROVE  FlatMap(F, s) \in Seq(T)
<1>1. Map(F, s) \in Seq(Seq(T))
  BY MapFacts
<1> QED BY <1>1, FlattenTyped DEF FlatMap

\* Of two sequences, what comes first is first.
LEMMA FlatMapConcat ==
  ASSUME NEW S, NEW T, NEW F, Gives(F, S, Seq(T)), NEW s \in Seq(S), NEW t \in Seq(S)
  PROVE  FlatMap(F, s \o t) = FlatMap(F, s) \o FlatMap(F, t)
<1>3. Map(F, s \o t) = Map(F, s) \o Map(F, t)
  BY MapConcat
<1>1. PICK a \in Seq(Seq(T)) : a = Map(F, s)
  BY MapFacts
<1>2. PICK b \in Seq(Seq(T)) : b = Map(F, t)
  BY MapFacts
<1>4. FlattenSeq(a \o b) = FlattenSeq(a) \o FlattenSeq(b)
  BY FlattenConcat
<1> QED BY <1>1, <1>2, <1>3, <1>4 DEF FlatMap

\* Of one element, and of none.
LEMMA FlatMapOne ==
  ASSUME NEW S, NEW T, NEW F, Gives(F, S, Seq(T)), NEW x \in S
  PROVE  FlatMap(F, <<x>>) = F[x] /\ FlatMap(F, <<>>) = <<>>
<1>1. F[x] \in Seq(T)
  BY DEF Gives
<1>2. Map(F, <<x>>) = << F[x] >>
  <2>1. DOMAIN <<x>> = 1 .. 1 /\ <<x>>[1] = x
    OBVIOUS
  <2>2. Map(F, <<x>>) = [i \in 1 .. 1 |-> F[x]]
    BY <2>1 DEF Map
  <2>3. [i \in 1 .. 1 |-> F[x]] = << F[x] >>
    OBVIOUS
  <2> QED BY <2>2, <2>3
<1>3. << F[x] >> = Append(<<>>, F[x])
  OBVIOUS
<1>4. FlattenSeq(Append(<<>>, F[x])) = FlattenSeq(<<>>) \o F[x]
  BY <1>1, EmptySeq, FlattenAppend
<1>5. <<>> \o F[x] = F[x]
  BY <1>1, ConcatEmptySeq
<1>6. Map(F, <<>>) = <<>>
  BY DEF Map
<1> QED BY <1>2, <1>3, <1>4, <1>5, <1>6, FlattenEmpty DEF FlatMap

\* At the end of a sequence.
LEMMA FlatMapAppend ==
  ASSUME NEW S, NEW T, NEW F, Gives(F, S, Seq(T)), NEW s \in Seq(S), NEW x \in S
  PROVE  FlatMap(F, Append(s, x)) = FlatMap(F, s) \o F[x]
<1>1. PICK t \in Seq(S) : t = <<x>>
  <2>1. <<x>> \in Seq(S)
    OBVIOUS
  <2> QED BY <2>1
<1>2. FlatMap(F, s \o t) = FlatMap(F, s) \o FlatMap(F, t)
  BY FlatMapConcat
<1>3. FlatMap(F, <<x>>) = F[x]
  BY FlatMapOne
<1>4. Append(s, x) = s \o <<x>>
  BY AppendIsConcat
<1> QED BY <1>1, <1>2, <1>3, <1>4

\* A sequence that is not empty has a front.
LEMMA FrontFacts ==
  ASSUME NEW S, NEW s \in Seq(S), s # <<>>
  PROVE  Head(s) \in S /\ Tail(s) \in Seq(S) /\ s = <<Head(s)>> \o Tail(s)
<1>1. Head(s) \in S /\ Tail(s) \in Seq(S)
  BY HeadTailProperties
<1>2. PICK n \in Nat : n = Len(s) /\ n # 0
  BY EmptySeq
<1>3. SubSeq(s, 1, n) = <<s[1]>> \o SubSeq(s, 2, n)
  <2>1. 1 \in 1 .. Len(s) /\ n \in 1 .. Len(s)
    BY <1>2
  <2>2. SubSeq(s, 1, n) = <<s[1]>> \o SubSeq(s, 1 + 1, n)
    BY <2>1, SubSeqRecursiveFirst
  <2>3. 1 + 1 = 2
    OBVIOUS
  <2> QED BY <2>2, <2>3
<1>4. Tail(s) = SubSeq(s, 2, n) /\ Head(s) = s[1] /\ SubSeq(s, 1, n) = s
  BY <1>2, TailIsSubSeq, SubSeqFull
<1> QED BY <1>1, <1>3, <1>4

\* At its front.
LEMMA FlatMapHead ==
  ASSUME NEW S, NEW T, NEW F, Gives(F, S, Seq(T)), NEW s \in Seq(S), s # <<>>
  PROVE  FlatMap(F, s) = F[Head(s)] \o FlatMap(F, Tail(s))
<1>1. PICK x \in S, t \in Seq(S) : x = Head(s) /\ t = Tail(s) /\ s = <<x>> \o t
  BY FrontFacts
<1>2. PICK u \in Seq(S) : u = <<x>>
  <2>1. <<x>> \in Seq(S)
    OBVIOUS
  <2> QED BY <2>1
<1>3. FlatMap(F, u \o t) = FlatMap(F, u) \o FlatMap(F, t)
  BY FlatMapConcat
<1>4. FlatMap(F, <<x>>) = F[x]
  BY FlatMapOne
<1> QED BY <1>1, <1>2, <1>3, <1>4

-----------------------------------------------------------------------------
\* What is still to be read of a text.

Blank == " "
QuoteMark == "\""

\* A letter or digit is none of the characters that cut a line into tokens.
LEMMA LetterKinds ==
  /\ \A c \in Letters \cup ToSet(Digits) :
       c \in Alphabet /\ c \notin Separators /\ c # Blank /\ c # QuoteMark
  /\ Blank \notin Separators /\ QuoteMark \notin Separators /\ Blank # QuoteMark
  /\ Blank \in Alphabet /\ QuoteMark \in Alphabet /\ Separators \subseteq Alphabet
<1>1. Letters \cap (Separators \cup {Blank, QuoteMark}) = {}
  BY NegotiationAssumption, Zenon DEF Blank, QuoteMark
<1>2. ToSet(Digits) = {Digits[i] : i \in 1 .. 10}
  BY DEF ToSet, Digits
<1>3. ASSUME NEW i \in 1 .. 10
      PROVE  Digits[i] \in {"0", "1", "2", "3", "4", "5", "6", "7", "8", "9"}
  <2>1. i = 1 \/ i = 2 \/ i = 3 \/ i = 4 \/ i = 5 \/ i = 6 \/ i = 7 \/ i = 8 \/ i = 9 \/ i = 10
    OBVIOUS
  <2> QED BY <2>1 DEF Digits
<1>4. \A c \in {"0", "1", "2", "3", "4", "5", "6", "7", "8", "9"} :
        c # "," /\ c # ";" /\ c # "=" /\ c # " " /\ c # "\""
  BY Zenon
<1>5. \A c \in ToSet(Digits) : c \notin Separators /\ c # Blank /\ c # QuoteMark
  <2>1. \A c \in ToSet(Digits) : c \in {"0", "1", "2", "3", "4", "5", "6", "7", "8", "9"}
    BY <1>2, <1>3
  <2> QED BY <1>4, <2>1, Zenon DEF Separators, Blank, QuoteMark
<1>6. Blank \notin Separators /\ QuoteMark \notin Separators /\ Blank # QuoteMark
  BY Zenon DEF Separators, Blank, QuoteMark
<1>7. Alphabet = Letters \cup Separators \cup ToSet(Digits) \cup {Blank, QuoteMark}
  BY Zenon DEF Alphabet, Blank, QuoteMark
<1> QED BY <1>1, <1>5, <1>6, <1>7

\* What a text holds from position k on.
Unread(t, k) == SubSeq(t, k, Len(t))

\* It is empty behind the end, and else begins with the character at k.
LEMMA UnreadFacts ==
  ASSUME NEW t \in Texts, NEW k \in 1 .. Len(t) + 1
  PROVE  /\ Unread(t, k) \in Texts
         /\ k = Len(t) + 1 => Unread(t, k) = <<>>
         /\ k \in 1 .. Len(t) => /\ Unread(t, k) = <<t[k]>> \o Unread(t, k + 1)
                                 /\ t[k] \in Alphabet
<1>1. PICK n \in Nat : n = Len(t) /\ DOMAIN t = 1 .. n
  BY TextLength
<1>2. t \in Seq(Alphabet)
  BY DEF Texts
<1>3. \A i \in k .. n : t[i] \in Alphabet
  BY <1>1, <1>2
<1>4. SubSeq(t, k, n) \in Seq(Alphabet)
  BY <1>1, <1>3, SubSeqProperties
<1>5. k = n + 1 => SubSeq(t, k, n) = <<>>
  BY <1>1, SubSeqEmpty
<1>6. k \in 1 .. n => SubSeq(t, k, n) = <<t[k]>> \o SubSeq(t, k + 1, n)
  <2> SUFFICES ASSUME k \in 1 .. n PROVE SubSeq(t, k, n) = <<t[k]>> \o SubSeq(t, k + 1, n)
    OBVIOUS
  <2>1. k \in 1 .. Len(t) /\ n \in k .. Len(t)
    BY <1>1
  <2> QED BY <1>2, <2>1, SubSeqRecursiveFirst
<1> QED BY <1>1, <1>3, <1>4, <1>5, <1>6 DEF Unread, Texts

\* The same front can be taken off.
LEMMA CancelFront ==
  ASSUME NEW S, NEW s \in Seq(S), NEW t \in Seq(S), NEW u \in Seq(S), u \o s = u \o t
  PROVE  s = t
BY ConcatSimplifications

\* Two texts with a first character are equal only if the characters and the rest are.
LEMMA SameFront ==
  ASSUME NEW c \in Alphabet, NEW d \in Alphabet, NEW s \in Texts, NEW t \in Texts,
         <<c>> \o s = <<d>> \o t
  PROVE  c = d /\ s = t
<1>1. s \in Seq(Alphabet) /\ t \in Seq(Alphabet)
  BY DEF Texts
<1>2. (<<c>> \o s)[1] = c /\ (<<d>> \o t)[1] = d
  BY <1>1
<1>3. c = d
  BY <1>2
<1>4. PICK u \in Seq(Alphabet) : u = <<c>>
  <2>1. <<c>> \in Seq(Alphabet)
    OBVIOUS
  <2> QED BY <2>1
<1>5. u \o s = u \o t
  BY <1>3, <1>4
<1>6. s = t
  BY <1>1, <1>5, CancelFront
<1> QED BY <1>3, <1>6

\* If what is unread begins with c then c is read, and the rest is unread.
LEMMA UnreadStep ==
  ASSUME NEW t \in Texts, NEW k \in 1 .. Len(t) + 1, NEW c \in Alphabet, NEW v \in Texts,
         Unread(t, k) = <<c>> \o v
  PROVE  k \in 1 .. Len(t) /\ t[k] = c /\ Unread(t, k + 1) = v
<1>1. PICK n \in Nat : n = Len(t)
  BY TextLength
<1>2. Len(<<c>> \o v) = 1 + Len(v) /\ Len(v) \in Nat
  BY TextLength DEF Texts
<1>3. k # n + 1
  <2>1. <<c>> \o v # <<>>
    BY <1>2
  <2> QED BY <1>1, <2>1, UnreadFacts
<1>4. k \in 1 .. n
  BY <1>1, <1>3
<1>5. Unread(t, k) = <<t[k]>> \o Unread(t, k + 1) /\ t[k] \in Alphabet
  BY <1>1, <1>4, UnreadFacts
<1>6. k + 1 \in 1 .. Len(t) + 1
  BY <1>1, <1>4
<1>7. Unread(t, k + 1) \in Texts
  BY <1>6, UnreadFacts
<1> QED BY <1>1, <1>4, <1>5, <1>7, SameFront

-----------------------------------------------------------------------------
\* A token, as it is written and read.

ClosingIf(quoted) == IF quoted THEN <<QuoteMark>> ELSE <<>>

\* The text of a token, and what follows it, can be told apart.
IsWhole(t, quoted, f) ==
  /\ t \in Texts /\ t # <<>> /\ quoted \in BOOLEAN
  /\ \A i \in 1 .. Len(t) : /\ t[i] # QuoteMark
                            /\ ~ quoted => t[i] \notin Separators /\ t[i] # Blank
  /\ f \in Texts /\ (f # <<>> => f[1] \in Separators)

\* The parser is in front of it, in it, or behind it.
Before(t, quoted, f) ==
  /\ length = 0 /\ ~ inQuote
  /\ \E k \in Nat : Unread(line, p) = Spaces(k) \o (QuotedIf(quoted, t) \o f)

Inside(t, quoted, f) ==
  /\ inQuote = quoted /\ length \in 0 .. Len(t) /\ Text = SubSeq(t, 1, length)
  /\ Unread(line, p) = Unread(t, length + 1) \o (ClosingIf(quoted) \o f)
  /\ start # 0 => start + length = p

Behind(t, f) == ~ inQuote /\ length = Len(t) /\ Text = t /\ Unread(line, p) = f

AtToken(t, quoted, f) ==
  p # 0 /\ (Before(t, quoted, f) \/ Inside(t, quoted, f) \/ Behind(t, f))

\* One space more.
LEMMA SpacesFacts ==
  /\ Spaces(0) = <<>>
  /\ \A k \in Nat : Spaces(k) \in Texts /\ Spaces(k + 1) = <<Blank>> \o Spaces(k)
<1>1. \A k \in Nat : Spaces(k) = [i \in 1 .. k |-> Blank]
  BY Zenon DEF Spaces, Blank
<1>2. Spaces(0) = <<>>
  BY <1>1
<1>3. ASSUME NEW k \in Nat PROVE Spaces(k) \in Texts /\ Spaces(k + 1) = <<Blank>> \o Spaces(k)
  <2>1. PICK S : S = {Blank}
    OBVIOUS
  <2>2. PICK a : a = Spaces(k) /\ a = [i \in 1 .. k |-> Blank]
    BY <1>1
  <2>3. PICK b : b = Spaces(k + 1) /\ b = [i \in 1 .. k + 1 |-> Blank]
    BY <1>1
  <2>4. a \in Seq(S) /\ Len(a) = k /\ \A i \in 1 .. k : a[i] = Blank
    BY <2>1, <2>2
  <2>5. b \in Seq(S) /\ Len(b) = k + 1 /\ \A i \in 1 .. k + 1 : b[i] = Blank
    BY <2>1, <2>3
  <2>6. PICK u \in Seq(S) : u = <<Blank>>
    <3>1. <<Blank>> \in Seq(S)
      BY <2>1
    <3> QED BY <3>1
  <2>7. u \o a \in Seq(S) /\ Len(u \o a) = k + 1 /\ \A i \in 1 .. k + 1 : (u \o a)[i] = Blank
    <3>1. Len(u) = 1 /\ u[1] = Blank
      BY <2>6
    <3>2. u \o a \in Seq(S) /\ Len(u \o a) = k + 1
      <4>1. u \o a \in Seq(S) /\ Len(u \o a) = Len(u) + Len(a)
        <5>1. a \in Seq(S)
          BY <2>4
        <5> QED BY <5>1, ConcatProperties
      <4> QED BY <2>4, <3>1, <4>1
    <3>3. \A i \in 1 .. k + 1 : (u \o a)[i] \in S
      BY <3>2
    <3> QED BY <2>1, <3>2, <3>3
  <2>8. u \o a = b
    BY <2>5, <2>7, SeqEqual
  <2>9. Spaces(k) \in Texts
    BY TextFacts
  <2> QED BY <2>2, <2>3, <2>6, <2>8, <2>9
<1> QED BY <1>2, <1>3

\* A quoted text begins with a quote, one that is not quoted with itself.
LEMMA QuotedFront ==
  ASSUME NEW t \in Texts, NEW f \in Texts
  PROVE  /\ QuotedIf(TRUE, t) \o f = <<QuoteMark>> \o (Unread(t, 1) \o (ClosingIf(TRUE) \o f))
         /\ QuotedIf(FALSE, t) \o f = Unread(t, 1) \o (ClosingIf(FALSE) \o f)
         /\ \A quoted \in BOOLEAN : /\ QuotedIf(quoted, t) \in Texts
                                    /\ ClosingIf(quoted) \o f \in Texts
                                    /\ ClosingIf(quoted) \in Texts
         /\ ClosingIf(FALSE) \o f = f /\ ClosingIf(TRUE) \o f = <<QuoteMark>> \o f
         /\ Unread(t, 1) = t
<1>1. PICK m : m = <<QuoteMark>>
  OBVIOUS
<1>2. m \in Texts /\ t \in Texts /\ f \in Texts /\ <<>> \in Texts
  BY <1>1, TextFacts, Zenon DEF QuoteMark
<1>3. m \o t \in Texts /\ m \o f \in Texts /\ (m \o t) \o m \in Texts /\ <<>> \o f \in Texts
  BY <1>2, TextsGlued
<1>4. QuotedIf(TRUE, t) = (m \o t) \o m /\ QuotedIf(FALSE, t) = t
  BY <1>1, Zenon DEF QuotedIf, QuoteMark
<1>5. ClosingIf(TRUE) = m /\ ClosingIf(FALSE) = <<>>
  BY <1>1 DEF ClosingIf
<1>6. Unread(t, 1) = t
  BY SubSeqFull DEF Unread, Texts
<1>7. ((m \o t) \o m) \o f = (m \o t) \o (m \o f)
  BY <1>2, <1>3, ConcatAssociative DEF Texts
<1>8. (m \o t) \o (m \o f) = m \o (t \o (m \o f))
  BY <1>2, <1>3, ConcatAssociative DEF Texts
<1>9. <<>> \o f = f
  BY ConcatEmptySeq DEF Texts
<1> QED BY <1>1, <1>2, <1>3, <1>4, <1>5, <1>6, <1>7, <1>8, <1>9

-----------------------------------------------------------------------------
\* What comes next, when a token is read: a space in front of it, the quote that
\* opens it, a letter of it, the quote that closes it, or what follows.

AtSpace(t, quoted, f) ==
  /\ length = 0 /\ ~ inQuote
  /\ \E k \in Nat : Unread(line, p) = <<Blank>> \o (Spaces(k) \o (QuotedIf(quoted, t) \o f))

AtOpening(t, quoted, f) ==
  /\ length = 0 /\ ~ inQuote /\ quoted
  /\ Unread(line, p) = <<QuoteMark>> \o (Unread(t, 1) \o (ClosingIf(TRUE) \o f))

AtLetter(t, quoted, f) ==
  /\ inQuote = quoted /\ length \in Nat /\ length < Len(t) /\ Text = SubSeq(t, 1, length)
  /\ Unread(line, p) = <<t[length + 1]>> \o (Unread(t, length + 2) \o (ClosingIf(quoted) \o f))
  /\ start # 0 => start + length = p

AtClosing(t, quoted, f) ==
  /\ inQuote /\ quoted /\ length = Len(t) /\ Text = t
  /\ Unread(line, p) = <<QuoteMark>> \o f

\* Inside a token, there is a letter or its end.
LEMMA InsideCases ==
  ASSUME NEW t, NEW quoted, NEW f, IsWhole(t, quoted, f), Inside(t, quoted, f)
  PROVE  AtLetter(t, quoted, f) \/ AtClosing(t, quoted, f) \/ Behind(t, f)
<1>1. PICK n \in Nat : n = Len(t) /\ length \in 0 .. n
  BY TextLength DEF IsWhole, Inside
<1>2. t \in Texts /\ f \in Texts /\ quoted \in BOOLEAN
  BY DEF IsWhole
<1>3. PICK g \in Texts : g = ClosingIf(quoted) \o f
  BY <1>2, QuotedFront
<1>4. Unread(line, p) = Unread(t, length + 1) \o g
  BY <1>3 DEF Inside
<1>5. CASE length # n
  <2>1. PICK k \in 1 .. n : k = length + 1 /\ k + 1 = length + 2 /\ k + 1 \in 1 .. n + 1
    BY <1>1, <1>5
  <2>2. Unread(t, k) = <<t[k]>> \o Unread(t, k + 1) /\ t[k] \in Alphabet
    BY <1>1, <1>2, <2>1, UnreadFacts
  <2>3. Unread(t, k + 1) \in Texts
    BY <1>1, <1>2, <2>1, UnreadFacts
  <2>4. <<t[k]>> \in Texts
    BY <2>2 DEF Texts
  <2>5. PICK a \in Texts, b \in Texts : a = <<t[k]>> /\ b = Unread(t, k + 1)
    BY <2>3, <2>4
  <2>6. (a \o b) \o g = a \o (b \o g)
    BY ConcatAssociative DEF Texts
  <2>7. Unread(line, p) = <<t[k]>> \o (Unread(t, k + 1) \o g)
    BY <1>4, <2>1, <2>2, <2>5, <2>6
  <2>8. length \in Nat /\ length < Len(t)
    BY <1>1, <1>5
  <2>9. Unread(line, p)
          = <<t[length + 1]>> \o (Unread(t, length + 2) \o (ClosingIf(quoted) \o f))
    BY <1>3, <2>1, <2>7
  <2> QED BY <2>8, <2>9 DEF Inside, AtLetter
<1>6. CASE length = n
  <2>1. Unread(t, length + 1) = <<>>
    <3>1. PICK k : k = length + 1
      OBVIOUS
    <3>2. k \in 1 .. Len(t) + 1 /\ k = Len(t) + 1
      BY <1>1, <1>6, <3>1
    <3> QED BY <1>2, <3>1, <3>2, UnreadFacts
  <2>2. Unread(line, p) = g
    BY <1>4, <2>1, ConcatEmptySeq DEF Texts
  <2>3. Text = t
    <3>1. Text = SubSeq(t, 1, Len(t))
      BY <1>1, <1>6 DEF Inside
    <3> QED BY <1>2, <3>1, SubSeqFull DEF Texts
  <2>4. CASE quoted
    <3>1. Unread(line, p) = <<QuoteMark>> \o f /\ inQuote
      BY <1>2, <1>3, <2>2, <2>4, QuotedFront DEF Inside
    <3> QED BY <1>1, <1>6, <2>3, <2>4, <3>1 DEF AtClosing
  <2>5. CASE ~ quoted
    <3>1. Unread(line, p) = f /\ ~ inQuote
      BY <1>2, <1>3, <2>2, <2>5, QuotedFront DEF Inside
    <3> QED BY <1>1, <1>6, <2>3, <3>1 DEF Behind
  <2> QED BY <1>2, <2>4, <2>5
<1> QED BY <1>5, <1>6

\* In front of it there is a space, the quote that opens it, or its first letter.
LEMMA BeforeCases ==
  ASSUME ScanInOrder, NEW t, NEW quoted, NEW f, IsWhole(t, quoted, f), Before(t, quoted, f)
  PROVE  AtSpace(t, quoted, f) \/ AtOpening(t, quoted, f) \/ Inside(t, quoted, f)
<1>1. t \in Texts /\ f \in Texts /\ quoted \in BOOLEAN
  BY DEF IsWhole
<1>0. length = 0 /\ ~ inQuote /\ length + 1 = 1
  BY DEF Before
<1>2. PICK k \in Nat : Unread(line, p) = Spaces(k) \o (QuotedIf(quoted, t) \o f)
  BY DEF Before
<1>3. PICK g \in Texts : g = QuotedIf(quoted, t) \o f
  BY <1>1, QuotedFront, TextsGlued
<1>4. CASE k # 0
  <2>1. PICK j \in Nat : k = j + 1
    <3>1. k - 1 \in Nat /\ k = (k - 1) + 1
      BY <1>4
    <3> QED BY <3>1
  <2>2. Spaces(k) = <<Blank>> \o Spaces(j) /\ Spaces(j) \in Texts
    BY <2>1, SpacesFacts
  <2>3. <<Blank>> \in Texts
    BY LetterKinds DEF Texts
  <2>4. PICK a \in Texts, b \in Texts : a = <<Blank>> /\ b = Spaces(j)
    BY <2>2, <2>3
  <2>5. (a \o b) \o g = a \o (b \o g)
    BY ConcatAssociative DEF Texts
  <2>6. Unread(line, p) = <<Blank>> \o (Spaces(j) \o (QuotedIf(quoted, t) \o f))
    BY <1>2, <1>3, <2>2, <2>4, <2>5
  <2> QED BY <2>6 DEF Before, AtSpace
<1>5. CASE k = 0
  <2>1. Unread(line, p) = QuotedIf(quoted, t) \o f
    BY <1>2, <1>3, <1>5, SpacesFacts, ConcatEmptySeq DEF Texts
  <2>2. CASE quoted = TRUE
    <3>1. QuotedIf(quoted, t) \o f = <<QuoteMark>> \o (Unread(t, 1) \o (ClosingIf(TRUE) \o f))
      BY <1>1, <2>2, QuotedFront
    <3> QED BY <1>0, <2>1, <2>2, <3>1 DEF AtOpening
  <2>3. CASE quoted = FALSE
    <3>1. Unread(line, p) = Unread(t, length + 1) \o (ClosingIf(quoted) \o f)
      <4>1. QuotedIf(quoted, t) \o f = Unread(t, 1) \o (ClosingIf(quoted) \o f)
        BY <1>1, <2>3, QuotedFront, ZenonT(60)
      <4> QED BY <1>0, <2>1, <4>1
    <3>2. length \in 0 .. Len(t) /\ start = 0
      BY <1>0, <1>1, TextLength DEF ScanInOrder
    <3>3. Text = SubSeq(t, 1, length)
      <4>1. SubSeq(t, 1, 0) = <<>>
        BY SubSeqEmpty
      <4> QED BY <1>0, <3>2, <4>1 DEF Text
    <3>4. inQuote = quoted
      <4>1. inQuote = FALSE
        BY <1>0 DEF ScanInOrder
      <4> QED BY <2>3, <4>1
    <3>5. ~ (start # 0)
      BY <3>2
    <3> QED BY <3>1, <3>2, <3>3, <3>4, <3>5 DEF Inside
  <2> QED BY <1>1, <2>2, <2>3
<1> QED BY <1>4, <1>5

\* One of the five comes next.
LEMMA TokenCases ==
  ASSUME ScanInOrder, NEW t, NEW quoted, NEW f, IsWhole(t, quoted, f), AtToken(t, quoted, f)
  PROVE  \/ AtSpace(t, quoted, f) \/ AtOpening(t, quoted, f) \/ AtLetter(t, quoted, f)
         \/ AtClosing(t, quoted, f) \/ Behind(t, f)
BY BeforeCases, InsideCases DEF AtToken

\* What comes next is at the position.
LEMMA NextIs ==
  ASSUME ScanInOrder, p # 0, NEW c \in Alphabet, NEW v \in Texts, Unread(line, p) = <<c>> \o v
  PROVE  p \in 1 .. Len(line) /\ p \in DOMAIN line /\ line[p] = c /\ Unread(line, p + 1) = v
<1>1. line \in Texts /\ Len(line) \in Nat /\ DOMAIN line = 1 .. Len(line)
  BY TextLength DEF ScanInOrder
<1>2. p \in 1 .. Len(line) + 1
  BY <1>1 DEF ScanInOrder
<1> QED BY <1>1, <1>2, UnreadStep

-----------------------------------------------------------------------------
\* Reading a token.

\* A quote opens or closes.
LEMMA QuoteIs ==
  ASSUME Quote
  PROVE  At(QuoteMark) /\ inQuote' = ~ inQuote /\ UNCHANGED <<start, length>>
BY Zenon DEF Quote, QuoteMark

\* A space in front of a token changes nothing of it.
LEMMA SkipSpaceIs ==
  ASSUME SkipSpace
  PROVE  At(Blank) /\ start = 0 /\ ~ inQuote /\ UNCHANGED <<start, length, inQuote>>
BY Zenon DEF SkipSpace, Blank

\* A letter belongs to the token.
LEMMA TakeLetterIs ==
  ASSUME TakeLetter
  PROVE  /\ \E c \in Alphabet : /\ At(c) /\ c # QuoteMark
                                /\ ~ (c = Blank /\ start = 0 /\ ~ inQuote)
                                /\ inQuote \/ c \notin Separators
         /\ start' = (IF start = 0 THEN p ELSE start) /\ length' = length + 1
         /\ inQuote' = inQuote
<1>1. PICK c \in Alphabet : /\ c # QuoteMark /\ At(c)
                            /\ ~ (c = Blank /\ start = 0 /\ ~ inQuote)
                            /\ inQuote \/ c \notin Separators
  BY Zenon DEF TakeLetter, QuoteMark, Blank
<1>2. start' = (IF start = 0 THEN p ELSE start) /\ length' = length + 1 /\ inQuote' = inQuote
  BY DEF TakeLetter
<1> QED BY <1>1, <1>2

\* All of them move on by one.
LEMMA MovesOn ==
  ASSUME Quote \/ SkipSpace \/ TakeLetter
  PROVE  p' = p + 1 /\ UNCHANGED <<meant, lines, line, answer, hasExtension, list, current>>
BY DEF Quote, SkipSpace, TakeLetter, Step

\* Only one character is at the position.
LEMMA OneAt ==
  ASSUME NEW c, NEW d, At(c), line[p] = d
  PROVE  c = d
BY DEF At

\* A space is skipped.
LEMMA SpaceStep ==
  ASSUME ScanInOrder, p # 0, NEW t, NEW quoted, NEW f, IsWhole(t, quoted, f),
         AtSpace(t, quoted, f), Quote \/ SkipSpace \/ TakeLetter
  PROVE  Before(t, quoted, f)'
<1>1. t \in Texts /\ f \in Texts /\ quoted \in BOOLEAN
  BY DEF IsWhole
<1>2. length = 0 /\ ~ inQuote /\ start = 0
  BY DEF AtSpace, ScanInOrder
<1>3. PICK k \in Nat : Unread(line, p) = <<Blank>> \o (Spaces(k) \o (QuotedIf(quoted, t) \o f))
  BY DEF AtSpace
<1>4. PICK v \in Texts : v = Spaces(k) \o (QuotedIf(quoted, t) \o f)
  BY <1>1, QuotedFront, SpacesFacts, TextsGlued
<1>5. line[p] = Blank /\ Unread(line, p + 1) = v
  BY <1>3, <1>4, NextIs, LetterKinds
<1>6. ~ Quote
  BY <1>5, QuoteIs, OneAt, LetterKinds
<1>7. ~ TakeLetter
  BY <1>2, <1>5, TakeLetterIs, OneAt
<1>8. length' = 0 /\ ~ inQuote' /\ Unread(line, p)' = v
  <2>1. length' = length /\ inQuote' = inQuote
    BY <1>6, <1>7, SkipSpaceIs
  <2>2. line' = line /\ p' = p + 1
    BY MovesOn
  <2> QED BY <1>2, <1>5, <2>1, <2>2
<1> QED BY <1>4, <1>8 DEF Before

\* The quote in front of it is read.
LEMMA OpeningStep ==
  ASSUME ScanInOrder, p # 0, NEW t, NEW quoted, NEW f, IsWhole(t, quoted, f),
         AtOpening(t, quoted, f), Quote \/ SkipSpace \/ TakeLetter
  PROVE  Inside(t, quoted, f)'
<1>1. t \in Texts /\ f \in Texts /\ quoted = TRUE
  BY DEF IsWhole, AtOpening
<1>2. length = 0 /\ ~ inQuote /\ start = 0
  BY DEF AtOpening, ScanInOrder
<1>3. Unread(line, p) = <<QuoteMark>> \o (Unread(t, 1) \o (ClosingIf(TRUE) \o f))
  BY DEF AtOpening
<1>4. PICK v \in Texts : v = Unread(t, 1) \o (ClosingIf(TRUE) \o f)
  BY <1>1, QuotedFront, TextsGlued
<1>5. line[p] = QuoteMark /\ Unread(line, p + 1) = v
  BY <1>3, <1>4, NextIs, LetterKinds
<1>6. ~ SkipSpace
  BY <1>5, SkipSpaceIs, OneAt, LetterKinds
<1>7. ~ TakeLetter
  BY <1>5, TakeLetterIs, OneAt
<1>8. length' = 0 /\ start' = 0 /\ inQuote' = ~ inQuote
  BY <1>2, <1>6, <1>7, QuoteIs
<1>9. line' = line /\ p' = p + 1
  BY MovesOn
<1>10. Unread(line, p)' = Unread(t, length' + 1) \o (ClosingIf(quoted) \o f)
  <2>1. length' + 1 = 1
    BY <1>8
  <2> QED BY <1>1, <1>4, <1>5, <1>9, <2>1
<1>11. Text' = SubSeq(t, 1, length')
  <2>1. SubSeq(t, 1, 0) = <<>>
    BY SubSeqEmpty
  <2> QED BY <1>8, <2>1 DEF Text
<1>12. length' \in 0 .. Len(t)
  BY <1>1, <1>8, TextLength
<1>13. inQuote' = quoted
  BY <1>1, <1>2, <1>8
<1> QED BY <1>8, <1>10, <1>11, <1>12, <1>13 DEF Inside

\* A letter of it is read.
LEMMA LetterStep ==
  ASSUME ScanInOrder, p # 0, NEW t, NEW quoted, NEW f, IsWhole(t, quoted, f),
         AtLetter(t, quoted, f), Quote \/ SkipSpace \/ TakeLetter
  PROVE  Inside(t, quoted, f)'
<1>1. t \in Texts /\ f \in Texts /\ quoted \in BOOLEAN
  BY DEF IsWhole
<1>2. PICK n \in Nat : n = length
  BY DEF ScanInOrder
<1>3. PICK k : k = n + 1
  OBVIOUS
<1>4. k \in 1 .. Len(t) /\ k + 1 = n + 2 /\ k + 1 \in 1 .. Len(t) + 1
  <2>1. n < Len(t) /\ Len(t) \in Nat
    BY <1>1, <1>2, TextLength DEF AtLetter
  <2> QED BY <1>3, <2>1
<1>5. /\ t[k] \in Alphabet /\ t[k] # QuoteMark
      /\ ~ quoted => t[k] \notin Separators /\ t[k] # Blank
  <2>1. k \in 1 .. Len(t) + 1 /\ k \in 1 .. Len(t)
    BY <1>1, <1>4, TextLength
  <2>2. t[k] \in Alphabet
    BY <1>1, <2>1, UnreadFacts
  <2>3. \A i \in 1 .. Len(t) : /\ t[i] # QuoteMark
                               /\ ~ quoted => t[i] \notin Separators /\ t[i] # Blank
    BY DEF IsWhole
  <2> QED BY <2>1, <2>2, <2>3
<1>6. PICK c \in Alphabet : c = t[k]
  BY <1>5
<1>7. PICK v \in Texts : v = Unread(t, k + 1) \o (ClosingIf(quoted) \o f)
  BY <1>1, <1>4, UnreadFacts, QuotedFront, TextsGlued
<1>8. Unread(line, p) = <<c>> \o v
  BY <1>2, <1>3, <1>4, <1>6, <1>7 DEF AtLetter
<1>9. line[p] = c /\ Unread(line, p + 1) = v
  BY <1>8, NextIs
<1>10. inQuote = quoted
  BY DEF AtLetter
<1>11. ~ Quote
  BY <1>5, <1>6, <1>9, QuoteIs, OneAt
<1>12. ~ SkipSpace
  BY <1>5, <1>6, <1>9, <1>10, SkipSpaceIs, OneAt
<1>13. TakeLetter
  BY <1>11, <1>12
<1>14. start' = (IF start = 0 THEN p ELSE start) /\ length' = k /\ inQuote' = quoted
  BY <1>2, <1>3, <1>10, <1>13, TakeLetterIs
<1>15. line' = line /\ p' = p + 1
  BY MovesOn
<1>16. Unread(line, p)' = Unread(t, length' + 1) \o (ClosingIf(quoted) \o f)
  BY <1>7, <1>9, <1>14, <1>15
<1>17. start' # 0 /\ start' + length' = p'
  BY <1>2, <1>3, <1>14, <1>15 DEF ScanInOrder, AtLetter
<1>18. Text' = SubSeq(t, 1, k)
  <2>1. PICK s \in Nat : s = start' /\ s # 0 /\ s + k = p + 1 /\ s + k - 1 = p
    BY <1>2, <1>3, <1>14, <1>15, <1>17 DEF ScanInOrder
  <2>2. Text' = SubSeq(line, s, p)
    BY <1>14, <1>15, <2>1 DEF Text
  <2>3. line \in Seq(Alphabet) /\ t \in Seq(Alphabet)
    BY <1>1 DEF ScanInOrder, Texts
  <2>4. PICK m \in 1 .. Len(line) : m = p
    BY <1>8, NextIs
  <2>5. s \in 1 .. Len(line) /\ m \in s .. Len(line)
    <3>1. Len(line) \in Nat
      BY <2>3
    <3>2. k \in Nat /\ k >= 1
      BY <1>2, <1>3
    <3>3. s <= m /\ s >= 1 /\ m \in Nat
      <4>1. m \in Nat /\ s \in Nat
        BY <2>1, <2>4, <3>1
      <4>2. s + k = m + 1 /\ s # 0
        BY <2>1, <2>4
      <4> QED BY <3>2, <4>1, <4>2
    <3> QED BY <2>1, <2>4, <3>1, <3>3
  <2>6. SubSeq(line, s, m) = SubSeq(line, s, m - 1) \o << line[m] >>
    BY <2>3, <2>5, SubSeqRecursiveSecond
  <2>7. SubSeq(t, 1, k) = SubSeq(t, 1, k - 1) \o << t[k] >>
    <3>1. 1 \in 1 .. Len(t) /\ k \in 1 .. Len(t)
      BY <1>4
    <3> QED BY <2>3, <3>1, SubSeqRecursiveSecond
  <2>8. k - 1 = n
    BY <1>3
  <2>9. SubSeq(line, s, m - 1) = SubSeq(t, 1, n)
    <3>1. CASE start = 0
      <4>1. n = 0 /\ m - 1 < s
        BY <1>2, <1>14, <2>1, <2>4, <3>1 DEF ScanInOrder
      <4>2. PICK j \in Int : j = m - 1 /\ j < s
        BY <2>4, <4>1
      <4>3. SubSeq(line, s, j) = <<>>
        <5>1. s \in Int
          BY <2>1
        <5> QED BY <4>2, <5>1, SubSeqEmpty
      <4>4. SubSeq(t, 1, 0) = <<>>
        BY SubSeqEmpty
      <4> QED BY <4>1, <4>2, <4>3, <4>4
    <3>2. CASE start # 0
      <4>1. s = start /\ start + length - 1 = m - 1
        BY <1>2, <1>3, <1>14, <2>1, <2>4, <3>2, SMTT(30)
      <4>2. Text = SubSeq(line, s, m - 1)
        BY <3>2, <4>1 DEF Text
      <4> QED BY <1>2, <4>2 DEF AtLetter
    <3> QED BY <3>1, <3>2
  <2> QED BY <1>6, <1>9, <2>2, <2>4, <2>6, <2>7, <2>8, <2>9
<1>19. length' \in 0 .. Len(t)
  BY <1>1, <1>4, <1>14, TextLength
<1> QED BY <1>14, <1>16, <1>17, <1>18, <1>19 DEF Inside

\* The quote behind it is read.
LEMMA ClosingStep ==
  ASSUME ScanInOrder, p # 0, NEW t, NEW quoted, NEW f, IsWhole(t, quoted, f),
         AtClosing(t, quoted, f), Quote \/ SkipSpace \/ TakeLetter
  PROVE  Behind(t, f)'
<1>1. f \in Texts
  BY DEF IsWhole
<1>2. inQuote /\ length = Len(t) /\ Text = t /\ Unread(line, p) = <<QuoteMark>> \o f
  BY DEF AtClosing
<1>3. line[p] = QuoteMark /\ Unread(line, p + 1) = f
  BY <1>1, <1>2, NextIs, LetterKinds
<1>4. ~ SkipSpace
  BY <1>2, SkipSpaceIs
<1>5. ~ TakeLetter
  BY <1>3, TakeLetterIs, OneAt
<1>6. start' = start /\ length' = length /\ inQuote' = ~ inQuote
  BY <1>4, <1>5, QuoteIs
<1>7. line' = line /\ p' = p + 1
  BY MovesOn
<1>8. Text' = Text
  BY <1>6, <1>7 DEF Text
<1> QED BY <1>2, <1>3, <1>6, <1>7, <1>8 DEF Behind

\* Behind it there is a separator, or nothing.
LEMMA BehindIsSeparator ==
  ASSUME ScanInOrder, p # 0, NEW t, NEW quoted, NEW f, IsWhole(t, quoted, f), Behind(t, f)
  PROVE  /\ ~ inQuote
         /\ p \in DOMAIN line => f # <<>> /\ line[p] = f[1] /\ f[1] \in Separators
         /\ f = <<>> <=> p \notin DOMAIN line
<1>1. line \in Texts /\ Len(line) \in Nat /\ DOMAIN line = 1 .. Len(line)
      /\ p \in 1 .. Len(line) + 1
  BY TextLength DEF ScanInOrder
<1>2. Unread(line, p) = f /\ ~ inQuote
  BY DEF Behind
<1>3. CASE p \in DOMAIN line
  <2>1. Unread(line, p) = <<line[p]>> \o Unread(line, p + 1) /\ line[p] \in Alphabet
    BY <1>1, <1>3, UnreadFacts
  <2>2. p + 1 \in 1 .. Len(line) + 1
    BY <1>1, <1>3
  <2>3. PICK v \in Texts : v = Unread(line, p + 1)
    BY <1>1, <2>2, UnreadFacts
  <2>4. Len(<<line[p]>> \o v) = 1 + Len(v) /\ (<<line[p]>> \o v)[1] = line[p]
    BY <2>1 DEF Texts
  <2>5. Len(v) \in Nat
    BY TextLength
  <2>6. f # <<>> /\ f[1] = line[p]
    BY <1>2, <2>1, <2>3, <2>4, <2>5
  <2> QED BY <1>2, <1>3, <2>6 DEF IsWhole
<1>4. CASE p \notin DOMAIN line
  <2>1. p = Len(line) + 1
    BY <1>1, <1>4
  <2> QED BY <1>1, <1>2, <1>4, <2>1, UnreadFacts
<1> QED BY <1>3, <1>4

\* There nothing is skipped or taken.
LEMMA BehindStays ==
  ASSUME ScanInOrder, p # 0, NEW t, NEW quoted, NEW f, IsWhole(t, quoted, f), Behind(t, f)
  PROVE  ~ (Quote \/ SkipSpace \/ TakeLetter)
<1>1. ~ inQuote /\ (p \in DOMAIN line => line[p] \in Separators)
  BY BehindIsSeparator
<1>2. ASSUME NEW c, At(c) PROVE c \in Separators
  BY <1>1, <1>2 DEF At
<1>3. ~ Quote /\ ~ SkipSpace
  BY <1>2, QuoteIs, SkipSpaceIs, LetterKinds
<1>4. ~ TakeLetter
  BY <1>1, <1>2, TakeLetterIs
<1> QED BY <1>3, <1>4

\* A step that ends no token leaves the parser at the token.
LEMMA TokenStep ==
  ASSUME ScanInOrder, NEW t, NEW quoted, NEW f, IsWhole(t, quoted, f),
         AtToken(t, quoted, f), Quote \/ SkipSpace \/ TakeLetter
  PROVE  AtToken(t, quoted, f)'
<1>1. p # 0
  BY DEF AtToken
<1>2. p' # 0
  BY <1>1, MovesOn DEF ScanInOrder
<1>3. Before(t, quoted, f)' \/ Inside(t, quoted, f)' \/ Behind(t, f)'
  BY <1>1, TokenCases, SpaceStep, OpeningStep, LetterStep, ClosingStep, BehindStays
<1> QED BY <1>2, <1>3 DEF AtToken

\* A separator that is read outside of quotes is the one behind the token.
LEMMA TokenEnds ==
  ASSUME ScanInOrder, NEW t, NEW quoted, NEW f, IsWhole(t, quoted, f),
         AtToken(t, quoted, f), ~ inQuote,
         p > Len(line) \/ (p \in DOMAIN line /\ line[p] \in Separators)
  PROVE  Behind(t, f)
<1>1. p # 0 /\ quoted \in BOOLEAN /\ t \in Texts /\ f \in Texts
  BY DEF AtToken, IsWhole
<1>2. line \in Texts /\ Len(line) \in Nat /\ DOMAIN line = 1 .. Len(line) /\ p \in Nat
  BY TextLength DEF ScanInOrder
<1>3. ASSUME NEW c \in Alphabet, NEW v \in Texts, Unread(line, p) = <<c>> \o v
      PROVE  c \in Separators
  <2>1. p \in 1 .. Len(line) /\ line[p] = c
    BY <1>1, <1>3, NextIs
  <2>2. ~ (p > Len(line))
    BY <1>2, <2>1
  <2> QED BY <2>1, <2>2
<1>4. ~ AtSpace(t, quoted, f)
  <2> SUFFICES ASSUME AtSpace(t, quoted, f) PROVE FALSE
    OBVIOUS
  <2>1. PICK k \in Nat : Unread(line, p) = <<Blank>> \o (Spaces(k) \o (QuotedIf(quoted, t) \o f))
    BY DEF AtSpace
  <2>2. PICK v \in Texts : v = Spaces(k) \o (QuotedIf(quoted, t) \o f)
    BY <1>1, QuotedFront, SpacesFacts, TextsGlued
  <2> QED BY <1>3, <2>1, <2>2, LetterKinds
<1>5. ~ AtOpening(t, quoted, f)
  <2> SUFFICES ASSUME AtOpening(t, quoted, f) PROVE FALSE
    OBVIOUS
  <2>1. Unread(line, p) = <<QuoteMark>> \o (Unread(t, 1) \o (ClosingIf(TRUE) \o f))
    BY DEF AtOpening
  <2>2. PICK v \in Texts : v = Unread(t, 1) \o (ClosingIf(TRUE) \o f)
    BY <1>1, QuotedFront, TextsGlued
  <2> QED BY <1>3, <2>1, <2>2, LetterKinds
<1>6. ~ AtLetter(t, quoted, f)
  <2> SUFFICES ASSUME AtLetter(t, quoted, f) PROVE FALSE
    OBVIOUS
  <2>1. ~ quoted
    BY DEF AtLetter
  <2>2. PICK k : k = length + 1 /\ k + 1 = length + 2
    BY DEF AtLetter
  <2>3. k \in 1 .. Len(t) /\ k + 1 \in 1 .. Len(t) + 1
    BY <1>1, <2>2, TextLength DEF AtLetter
  <2>4. t[k] \notin Separators /\ t[k] \in Alphabet
    <3>1. t[k] \in Alphabet
      <4>1. k \in 1 .. Len(t) + 1
        BY <1>1, <2>3, TextLength
      <4> QED BY <1>1, <2>3, <4>1, UnreadFacts
    <3>2. \A i \in 1 .. Len(t) : ~ quoted => t[i] \notin Separators
      BY DEF IsWhole
    <3> QED BY <2>1, <2>3, <3>1, <3>2
  <2>5. PICK v \in Texts : v = Unread(t, k + 1) \o (ClosingIf(quoted) \o f)
    BY <1>1, <2>3, UnreadFacts, QuotedFront, TextsGlued
  <2>6. Unread(line, p) = <<t[k]>> \o v
    BY <2>2, <2>5 DEF AtLetter
  <2> QED BY <1>3, <2>4, <2>6
<1>7. ~ AtClosing(t, quoted, f)
  BY DEF AtClosing
<1> QED BY <1>4, <1>5, <1>6, <1>7, TokenCases

-----------------------------------------------------------------------------
\* What is written behind a token.

Semicolon == ";"
Comma == ","
Equals == "="

ParamWriter == [q \in WritableParams |-> WrittenParam(q)]
OfferWriter == [o \in WritableOffers |-> <<Comma>> \o WrittenOffer(o)]

\* The parameters that are left of an offer, the offers that are left of a header.
RestParams(params) == FlatMap(ParamWriter, params)
RestOffers(offers) == FlatMap(OfferWriter, offers)

Follow(params, offers) == RestParams(params) \o RestOffers(offers)

\* The three separators are letters, and different.
LEMMA SeparatorFacts ==
  /\ {Semicolon, Comma, Equals} = Separators
  /\ Semicolon # Comma /\ Semicolon # Equals /\ Comma # Equals
  /\ \A c \in Separators : c \in Alphabet /\ <<c>> \in Texts
<1>1. {Semicolon, Comma, Equals} = Separators
  BY Zenon DEF Separators, Semicolon, Comma, Equals
<1>2. Semicolon # Comma /\ Semicolon # Equals /\ Comma # Equals
  BY Zenon DEF Semicolon, Comma, Equals
<1> QED BY <1>1, <1>2, LetterKinds, TextFacts

\* Texts are glued in any order.
LEMMA TextsAssociate ==
  ASSUME NEW s \in Texts, NEW t \in Texts, NEW u \in Texts
  PROVE  (s \o t) \o u = s \o (t \o u)
BY ConcatAssociative DEF Texts

\* Gluing, as an operation of which only this is used.
Cat(s, t) == s \o t

\* And Cat, which is the same without being expanded.
LEMMA CatFacts ==
  ASSUME NEW s \in Texts, NEW t \in Texts
  PROVE  /\ Cat(s, t) \in Texts
         /\ \A u \in Texts : Cat(Cat(s, t), u) = Cat(s, Cat(t, u))
<1>1. Cat(s, t) \in Texts
  BY TextsGlued DEF Cat
<1>2. ASSUME NEW u \in Texts PROVE (s \o t) \o u = s \o (t \o u)
  BY TextsAssociate, ZenonT(60)
<1> QED BY <1>1, <1>2 DEF Cat

\* Four of them and what follows.
LEMMA FourAssociate ==
  ASSUME NEW a \in Texts, NEW b \in Texts, NEW c \in Texts, NEW d \in Texts, NEW g \in Texts
  PROVE  Cat(Cat(Cat(Cat(a, b), c), d), g) = Cat(a, Cat(b, Cat(c, Cat(d, g))))
<1>0. PICK ab \in Texts, dg \in Texts : ab = Cat(a, b) /\ dg = Cat(d, g)
  BY CatFacts
<1>a. PICK abc \in Texts, cdg \in Texts : abc = Cat(ab, c) /\ cdg = Cat(c, dg)
  BY CatFacts
<1>1. Cat(Cat(abc, d), g) = Cat(abc, Cat(d, g))
  BY CatFacts
<1>2. Cat(Cat(ab, c), dg) = Cat(ab, Cat(c, dg))
  BY CatFacts
<1>3. Cat(Cat(a, b), cdg) = Cat(a, Cat(b, cdg))
  BY CatFacts
<1> QED BY <1>0, <1>a, <1>1, <1>2, <1>3

\* A parameter is written with its separator first.
LEMMA WrittenParamIs ==
  ASSUME NEW q \in WritableParams, NEW g \in Texts
  PROVE  /\ WrittenParam(q) \o g
              = <<Semicolon>> \o (Spaces(q.space) \o (q.name \o (WrittenValue(q) \o g)))
         /\ q.name \in Texts /\ q.value \in Texts /\ q.space \in Nat /\ q.valueSpace \in Nat
         /\ WrittenValue(q) \in Texts
<1>1. q.space \in Nat /\ q.valueSpace \in Nat /\ q.name \in Texts /\ q.value \in Texts
  BY TextFacts DEF WritableParams
<1>2. PICK a \in Texts : a = <<Semicolon>>
  BY SeparatorFacts
<1>3. PICK b \in Texts : b = Spaces(q.space)
  BY <1>1, SpacesFacts
<1>4. PICK d \in Texts : d = WrittenValue(q)
  BY WrittenParamTyped
<1>5. WrittenParam(q) = ((a \o b) \o q.name) \o d
  BY <1>2, <1>3, <1>4, Zenon DEF WrittenParam, Semicolon
<1>6. PICK nm \in Texts : nm = q.name
  BY <1>1
<1>7. Cat(Cat(Cat(Cat(a, b), nm), d), g) = Cat(a, Cat(b, Cat(nm, Cat(d, g))))
  BY FourAssociate
<1>8. (((a \o b) \o nm) \o d) \o g = a \o (b \o (nm \o (d \o g)))
  BY <1>7, Zenon DEF Cat
<1> QED BY <1>1, <1>2, <1>3, <1>4, <1>5, <1>6, <1>8

\* So is a value.
LEMMA WrittenValueIs ==
  ASSUME NEW q \in WritableParams, NEW g \in Texts
  PROVE  /\ q.value # <<>> =>
              WrittenValue(q) \o g
                = <<Equals>> \o (Spaces(q.valueSpace) \o (QuotedIf(q.quoted, q.value) \o g))
         /\ q.value = <<>> => WrittenValue(q) \o g = g
<1>1. q.valueSpace \in Nat
  BY DEF WritableParams
<1>2. PICK a \in Texts : a = <<Equals>>
  BY SeparatorFacts
<1>3. PICK b \in Texts : b = Spaces(q.valueSpace)
  BY <1>1, SpacesFacts
<1>4. PICK d \in Texts : d = QuotedIf(q.quoted, q.value)
  BY WrittenParamTyped
<1>5. CASE q.value = <<>>
  <2>1. WrittenValue(q) = <<>>
    BY <1>5 DEF WrittenValue
  <2> QED BY <1>5, <2>1, ConcatEmptySeq DEF Texts
<1>6. CASE q.value # <<>>
  <2>1. WrittenValue(q) = (a \o b) \o d
    BY <1>2, <1>3, <1>4, <1>6, Zenon DEF WrittenValue, Equals
  <2>2. \A x \in Texts : (a \o b) \o x = a \o (b \o x)
    BY TextsAssociate
  <2>3. PICK dg \in Texts : dg = d \o g
    BY TextsGlued
  <2>4. PICK ab \in Texts : ab = a \o b
    BY TextsGlued
  <2>5. (ab \o d) \o g = ab \o (d \o g)
    BY TextsAssociate, ZenonT(60)
  <2> QED BY <1>2, <1>3, <1>4, <1>6, <2>1, <2>2, <2>3, <2>4, <2>5
<1> QED BY <1>5, <1>6

\* The writers give texts.
LEMMA WritersTyped ==
  /\ Gives(ParamWriter, WritableParams, Seq(Alphabet))
  /\ Gives(OfferWriter, WritableOffers, Seq(Alphabet))
<1>1. \A q \in WritableParams : WrittenParam(q) \in Seq(Alphabet)
  BY WrittenParamTyped DEF Texts
<1>2. \A o \in WritableOffers : <<Comma>> \o WrittenOffer(o) \in Seq(Alphabet)
  <2>1. <<Comma>> \in Texts
    BY SeparatorFacts
  <2>2. \A o \in WritableOffers : WrittenOffer(o) \in Texts
    BY WrittenOfferTyped
  <2> QED BY <2>1, <2>2, TextsGlued DEF Texts
<1> QED BY <1>1, <1>2 DEF Gives, ParamWriter, OfferWriter

\* What is left is a text, and none if nothing is left.
LEMMA FollowTyped ==
  /\ \A ps \in Seq(WritableParams) : RestParams(ps) \in Texts
  /\ \A os \in Seq(WritableOffers) : RestOffers(os) \in Texts
  /\ \A ps \in Seq(WritableParams), os \in Seq(WritableOffers) : Follow(ps, os) \in Texts
  /\ RestParams(<<>>) = <<>> /\ RestOffers(<<>>) = <<>>
<1>1. \A ps \in Seq(WritableParams) : FlatMap(ParamWriter, ps) \in Seq(Alphabet)
  BY WritersTyped, FlatMapTyped
<1>2. \A os \in Seq(WritableOffers) : FlatMap(OfferWriter, os) \in Seq(Alphabet)
  BY WritersTyped, FlatMapTyped
<1>3. FlatMap(ParamWriter, <<>>) = <<>> /\ FlatMap(OfferWriter, <<>>) = <<>>
  <2>1. Map(ParamWriter, <<>>) = <<>> /\ Map(OfferWriter, <<>>) = <<>>
    BY DEF Map
  <2> QED BY <2>1, FlattenEmpty DEF FlatMap
<1>4. /\ \A ps \in Seq(WritableParams) : RestParams(ps) \in Texts
      /\ \A os \in Seq(WritableOffers) : RestOffers(os) \in Texts
  BY <1>1, <1>2 DEF RestParams, RestOffers, Texts
<1> QED BY <1>3, <1>4, TextsGlued DEF RestParams, RestOffers, Follow

\* The parameters of an offer are what is left behind its name.
LEMMA WrittenOfferIs ==
  ASSUME NEW o \in WritableOffers, NEW g \in Texts
  PROVE  /\ WrittenOffer(o) \o g = Spaces(o.space) \o (o.token \o (RestParams(o.params) \o g))
         /\ o.token \in Texts /\ o.space \in Nat /\ o.params \in Seq(WritableParams)
<1>1. o.token \in Texts /\ o.space \in Nat /\ o.params \in Seq(WritableParams)
  BY TextFacts DEF WritableOffers
<1>2. ParamPieces(o) = Map(ParamWriter, o.params)
  <2>1. PICK n \in Nat, ps \in Seq(WritableParams) :
          ps = o.params /\ n = Len(ps) /\ DOMAIN ps = 1 .. n
    BY <1>1
  <2>2. \A i \in 1 .. n : ps[i] \in WritableParams
    BY <1>1, <2>1
  <2>3. \A i \in 1 .. n : ParamWriter[ps[i]] = WrittenParam(ps[i])
    BY <2>2 DEF ParamWriter
  <2> QED BY <2>1, <2>3 DEF ParamPieces, Map
<1>3. PICK b \in Texts : b = Spaces(o.space)
  BY <1>1, SpacesFacts
<1>4. PICK d \in Texts : d = RestParams(o.params)
  BY <1>1, FollowTyped
<1>5. WrittenOffer(o) = (b \o o.token) \o d
  BY <1>2, <1>3, <1>4, WrittenOfferTyped DEF RestParams, FlatMap
<1>6. PICK t \in Texts : t = o.token
  BY <1>1
<1>7. PICK bt \in Texts : bt = b \o t
  BY TextsGlued
<1>8. PICK dg \in Texts : dg = d \o g
  BY TextsGlued
<1>9. (bt \o d) \o g = bt \o (d \o g)
  BY TextsAssociate, ZenonT(60)
<1>10. (b \o t) \o dg = b \o (t \o dg)
  BY TextsAssociate, SMTT(30)
<1> QED BY <1>1, <1>3, <1>4, <1>5, <1>6, <1>7, <1>8, <1>9, <1>10

-----------------------------------------------------------------------------
\* A token as it is written: spaces, the token, perhaps in quotes, what follows.

\* What follows when only offers are left, or parameters too.
LEMMA FollowIs ==
  ASSUME NEW ps \in Seq(WritableParams), NEW os \in Seq(WritableOffers)
  PROVE  /\ ps # <<>> =>
              Follow(ps, os) = <<Semicolon>> \o
                (Spaces(Head(ps).space) \o (Head(ps).name \o
                  (WrittenValue(Head(ps)) \o Follow(Tail(ps), os))))
         /\ ps = <<>> /\ os # <<>> =>
              Follow(ps, os) = <<Comma>> \o
                (Spaces(Head(os).space) \o (Head(os).token \o
                  Follow(Head(os).params, Tail(os))))
         /\ ps = <<>> /\ os = <<>> => Follow(ps, os) = <<>>
<1>1. ASSUME ps # <<>>
      PROVE  Follow(ps, os) = <<Semicolon>> \o
                (Spaces(Head(ps).space) \o (Head(ps).name \o
                  (WrittenValue(Head(ps)) \o Follow(Tail(ps), os))))
  <2>1. PICK h \in WritableParams, t \in Seq(WritableParams) : h = Head(ps) /\ t = Tail(ps)
    BY <1>1, FrontFacts
  <2>2. FlatMap(ParamWriter, ps) = ParamWriter[h] \o FlatMap(ParamWriter, t)
    BY <1>1, <2>1, WritersTyped, FlatMapHead
  <2>3. ParamWriter[h] = WrittenParam(h)
    BY DEF ParamWriter
  <2>4. PICK w \in Texts : w = WrittenParam(h)
    BY WrittenParamTyped
  <2>5. PICK r \in Texts : r = RestParams(t)
    BY FollowTyped
  <2>6. PICK g \in Texts : g = RestOffers(os)
    BY FollowTyped
  <2>7. (w \o r) \o g = w \o (r \o g)
    BY TextsAssociate, ZenonT(60)
  <2>8. Follow(t, os) = r \o g /\ Follow(t, os) \in Texts
    BY <2>5, <2>6, FollowTyped DEF Follow
  <2>9. Follow(ps, os) = w \o Follow(t, os)
    <3>1. RestParams(ps) = w \o r
      BY <2>2, <2>3, <2>4, <2>5 DEF RestParams
    <3> QED BY <2>6, <2>7, <2>8, <3>1 DEF Follow
  <2>10. WrittenParam(h) \o Follow(t, os) = <<Semicolon>> \o
            (Spaces(h.space) \o (h.name \o (WrittenValue(h) \o Follow(t, os))))
    BY <2>8, WrittenParamIs
  <2> QED BY <2>1, <2>4, <2>9, <2>10
<1>2. ASSUME ps = <<>>, os # <<>>
      PROVE  Follow(ps, os) = <<Comma>> \o
                (Spaces(Head(os).space) \o (Head(os).token \o
                  Follow(Head(os).params, Tail(os))))
  <2>1. PICK o \in WritableOffers, t \in Seq(WritableOffers) : o = Head(os) /\ t = Tail(os)
    BY <1>2, FrontFacts
  <2>2. FlatMap(OfferWriter, os) = OfferWriter[o] \o FlatMap(OfferWriter, t)
    BY <1>2, <2>1, WritersTyped, FlatMapHead
  <2>3. OfferWriter[o] = <<Comma>> \o WrittenOffer(o)
    BY DEF OfferWriter
  <2>4. PICK w \in Texts, c \in Texts : w = WrittenOffer(o) /\ c = <<Comma>>
    BY WrittenOfferTyped, SeparatorFacts
  <2>5. PICK r \in Texts : r = RestOffers(t)
    BY FollowTyped
  <2>6. (c \o w) \o r = c \o (w \o r)
    BY TextsAssociate, ZenonT(60)
  <2>7. Follow(ps, os) = RestOffers(os)
    <3>1. <<>> \o RestOffers(os) = RestOffers(os)
      BY FollowTyped, ConcatEmptySeq DEF Texts
    <3> QED BY <1>2, <3>1, FollowTyped DEF Follow
  <2>8. RestOffers(os) = c \o (w \o r)
    BY <2>2, <2>3, <2>4, <2>5, <2>6 DEF RestOffers
  <2>9. w \o r = Spaces(o.space) \o (o.token \o (RestParams(o.params) \o r))
    BY <2>4, WrittenOfferIs
  <2>10. RestParams(o.params) \o r = Follow(o.params, t)
    BY <2>5 DEF Follow
  <2> QED BY <2>1, <2>4, <2>7, <2>8, <2>9, <2>10
<1>3. ps = <<>> /\ os = <<>> => Follow(ps, os) = <<>>
  <2>1. <<>> \o <<>> = <<>>
    OBVIOUS
  <2> QED BY <2>1, FollowTyped DEF Follow
<1> QED BY <1>1, <1>2, <1>3

\* A header is its first offer and what follows that.
LEMMA WrittenHeaderIs ==
  ASSUME NEW os \in Seq(WritableOffers), os # <<>>
  PROVE  WrittenHeader(os) = Spaces(Head(os).space) \o (Head(os).token \o
                               Follow(Head(os).params, Tail(os)))
<1>1. PICK o \in WritableOffers, t \in Seq(WritableOffers) : o = Head(os) /\ t = Tail(os)
  BY FrontFacts
<1>2. PICK w \in Texts : w = WrittenOffer(o)
  BY WrittenOfferTyped
<1>3. PICK pieces \in Seq(Texts) : pieces = Map(OfferWriter, t)
  <2>1. Gives(OfferWriter, WritableOffers, Texts)
    BY WritersTyped DEF Texts
  <2> QED BY <2>1, MapFacts
<1>4. PICK n \in Nat : Len(os) = n + 1 /\ Len(t) = n /\ DOMAIN os = 1 .. n + 1
  <2>1. PICK m \in Nat : m = Len(os) /\ m # 0 /\ DOMAIN os = 1 .. m
    BY EmptySeq
  <2>2. Len(t) = m - 1 /\ m - 1 \in Nat /\ m = (m - 1) + 1
    BY <1>1, <2>1
  <2> QED BY <2>1, <2>2
<1>5. os[1] = o /\ \A i \in 1 .. n : os[i + 1] = t[i]
  BY <1>1, <1>4
<1>6. PICK u \in Seq(Texts) : u = <<w>>
  <2>1. <<w>> \in Seq(Texts)
    OBVIOUS
  <2> QED BY <2>1
<1>7. Len(pieces) = n /\ \A i \in 1 .. n : pieces[i] = <<Comma>> \o WrittenOffer(t[i])
  <2>1. Gives(OfferWriter, WritableOffers, Texts)
    BY WritersTyped DEF Texts
  <2>2. Len(pieces) = Len(t) /\ \A i \in 1 .. Len(t) : pieces[i] = OfferWriter[t[i]]
    BY <1>3, <2>1, MapFacts
  <2>3. \A i \in 1 .. n : t[i] \in WritableOffers
    BY <1>4
  <2> QED BY <1>4, <2>2, <2>3 DEF OfferWriter
<1>8. OfferPieces(os) = u \o pieces
  <2>1. PICK a \in Seq(Texts) : a = OfferPieces(os)
    BY WrittenHeaderTyped
  <2>2. Len(a) = n + 1
    BY <1>4, <2>1, WrittenHeaderTyped
  <2>3. \A i \in 1 .. n + 1 : a[i] = OfferPiece(i, os[i])
    BY <1>4, <2>1 DEF OfferPieces
  <2>4. PICK b \in Seq(Texts) : b = u \o pieces
    BY ConcatProperties
  <2>5. Len(b) = n + 1 /\ \A i \in 1 .. n + 1 : b[i] = IF i <= 1 THEN u[i] ELSE pieces[i - 1]
    <3>1. Len(u) = 1
      BY <1>6
    <3>2. /\ Len(u \o pieces) = Len(u) + Len(pieces)
          /\ \A i \in 1 .. Len(u) + Len(pieces) :
               (u \o pieces)[i] = IF i <= Len(u) THEN u[i] ELSE pieces[i - Len(u)]
      BY ConcatProperties
    <3>3. 1 + n = n + 1
      OBVIOUS
    <3> QED BY <1>7, <2>4, <3>1, <3>2, <3>3
  <2>6. \A i \in 1 .. n + 1 : a[i] = b[i]
    <3> TAKE i \in 1 .. n + 1
    <3>1. CASE i = 1
      <4>1. OfferPiece(1, o) = <<>> \o w
        BY <1>2 DEF OfferPiece
      <4>2. <<>> \o w = w
        BY ConcatEmptySeq DEF Texts
      <4>3. b[1] = u[1] /\ u[1] = w
        BY <1>6, <2>5
      <4> QED BY <1>5, <2>3, <3>1, <4>1, <4>2, <4>3
    <3>2. CASE i # 1
      <4>1. PICK j \in 1 .. n : i = j + 1 /\ i - 1 = j
        <5>1. i - 1 \in 1 .. n /\ i = (i - 1) + 1
          BY <3>2
        <5> QED BY <5>1
      <4>2. OfferPiece(i, t[j]) = <<Comma>> \o WrittenOffer(t[j])
        BY <3>2, Zenon DEF OfferPiece, Comma
      <4>3. b[i] = pieces[j] /\ os[i] = t[j]
        BY <1>5, <2>5, <3>2, <4>1
      <4> QED BY <1>7, <2>3, <4>1, <4>2, <4>3
    <3> QED BY <3>1, <3>2
  <2>7. a = b
    BY <2>2, <2>5, <2>6, SeqEqual
  <2> QED BY <2>1, <2>4, <2>7
<1>9. FlattenSeq(u \o pieces) = FlattenSeq(u) \o FlattenSeq(pieces)
  <2>1. u \in Seq(Seq(Alphabet)) /\ pieces \in Seq(Seq(Alphabet))
    BY DEF Texts
  <2> QED BY <2>1, FlattenConcat
<1>10. FlattenSeq(u) = w
  <2>1. u = Append(<<>>, w)
    BY <1>6
  <2>2. FlattenSeq(Append(<<>>, w)) = FlattenSeq(<<>>) \o w
    <3>1. <<>> \in Seq(Seq(Alphabet)) /\ w \in Seq(Alphabet)
      BY EmptySeq DEF Texts
    <3> QED BY <3>1, FlattenAppend
  <2>3. <<>> \o w = w
    BY ConcatEmptySeq DEF Texts
  <2> QED BY <2>1, <2>2, <2>3, FlattenEmpty
<1>11. FlattenSeq(pieces) = RestOffers(t)
  BY <1>3 DEF RestOffers, FlatMap
<1>12. WrittenHeader(os) = w \o RestOffers(t)
  BY <1>8, <1>9, <1>10, <1>11, WrittenHeaderTyped
<1>13. w \o RestOffers(t)
         = Spaces(o.space) \o (o.token \o (RestParams(o.params) \o RestOffers(t)))
  BY <1>2, FollowTyped, WrittenOfferIs
<1> QED BY <1>1, <1>12, <1>13 DEF Follow

-----------------------------------------------------------------------------
\* From one token to the next.

BeginsNext(f) == f \in Texts /\ (f # <<>> => f[1] \in Separators)

\* A text with a separator in front.
LEMMA SeparatorInFront ==
  ASSUME NEW c \in Separators, NEW v \in Texts
  PROVE  BeginsNext(<<c>> \o v) /\ <<c>> \o v # <<>> /\ (<<c>> \o v)[1] = c
<1>1. <<c>> \in Texts /\ c \in Alphabet
  BY SeparatorFacts
<1>2. <<c>> \o v \in Texts
  BY <1>1, TextsGlued
<1>3. (<<c>> \o v)[1] = c /\ Len(<<c>> \o v) = 1 + Len(v) /\ Len(v) \in Nat
  BY <1>1, TextLength DEF Texts
<1>4. <<c>> \o v # <<>>
  BY <1>3
<1> QED BY <1>2, <1>3, <1>4 DEF BeginsNext

\* What follows an offer or a parameter begins with one.
LEMMA FollowBegins ==
  ASSUME NEW ps \in Seq(WritableParams), NEW os \in Seq(WritableOffers)
  PROVE  BeginsNext(Follow(ps, os))
<1>1. Semicolon \in Separators /\ Comma \in Separators
  BY SeparatorFacts
<1>2. CASE ps # <<>>
  <2>1. PICK h \in WritableParams, t \in Seq(WritableParams) : h = Head(ps) /\ t = Tail(ps)
    BY <1>2, FrontFacts
  <2>2. PICK v : v = Spaces(h.space) \o (h.name \o (WrittenValue(h) \o Follow(t, os)))
    OBVIOUS
  <2>3. v \in Texts
    <3>1. Follow(t, os) \in Texts /\ WrittenValue(h) \in Texts /\ h.name \in Texts
          /\ Spaces(h.space) \in Texts
      BY FollowTyped, WrittenParamIs, SpacesFacts
    <3> QED BY <2>2, <3>1, TextsGlued
  <2>4. Follow(ps, os) = <<Semicolon>> \o v
    BY <1>2, <2>1, <2>2, FollowIs
  <2> QED BY <1>1, <2>3, <2>4, SeparatorInFront
<1>3. CASE ps = <<>> /\ os # <<>>
  <2>1. PICK o \in WritableOffers, t \in Seq(WritableOffers) : o = Head(os) /\ t = Tail(os)
    BY <1>3, FrontFacts
  <2>2. PICK v : v = Spaces(o.space) \o (o.token \o Follow(o.params, t))
    OBVIOUS
  <2>3. v \in Texts
    <3>1. o.params \in Seq(WritableParams) /\ o.token \in Texts /\ o.space \in Nat
      BY FollowTyped, WrittenOfferIs
    <3>2. Follow(o.params, t) \in Texts /\ Spaces(o.space) \in Texts
      BY <3>1, FollowTyped, SpacesFacts
    <3> QED BY <2>2, <3>1, <3>2, TextsGlued
  <2>4. Follow(ps, os) = <<Comma>> \o v
    BY <1>3, <2>1, <2>2, FollowIs
  <2> QED BY <1>1, <2>3, <2>4, SeparatorInFront
<1>4. CASE ps = <<>> /\ os = <<>>
  BY <1>4, FollowIs, TextFacts DEF BeginsNext
<1> QED BY <1>2, <1>3, <1>4

\* So does what follows the name of a parameter.
LEMMA ValueBegins ==
  ASSUME NEW q \in WritableParams, NEW g, BeginsNext(g)
  PROVE  BeginsNext(WrittenValue(q) \o g)
<1>1. g \in Texts
  BY DEF BeginsNext
<1>2. CASE q.value = <<>>
  BY <1>1, <1>2, WrittenValueIs
<1>3. CASE q.value # <<>>
  <2>1. PICK v : v = Spaces(q.valueSpace) \o (QuotedIf(q.quoted, q.value) \o g)
    OBVIOUS
  <2>2. v \in Texts
    <3>1. Spaces(q.valueSpace) \in Texts /\ QuotedIf(q.quoted, q.value) \in Texts
      BY <1>1, WrittenParamTyped, WrittenParamIs, SpacesFacts
    <3> QED BY <1>1, <2>1, <3>1, TextsGlued
  <2>3. WrittenValue(q) \o g = <<Equals>> \o v
    BY <1>1, <1>3, <2>1, WrittenValueIs
  <2> QED BY <2>2, <2>3, SeparatorFacts, SeparatorInFront
<1> QED BY <1>2, <1>3

\* The letters of a plain text are in no separator, space or quote.
LEMMA PlainLetters ==
  ASSUME NEW t \in Plain, NEW i \in 1 .. Len(t)
  PROVE  t[i] # QuoteMark /\ t[i] \notin Separators /\ t[i] # Blank
<1>1. t[i] \in Letters \cup ToSet(Digits)
  BY DEF Plain
<1> QED BY <1>1, LetterKinds

\* Tokens as they are written are of a length the parser takes.
LEMMA TokenFacts ==
  ASSUME NEW t, IsToken(t), t \in Texts
  PROVE  t # <<>> /\ Len(t) # 0 /\ ~ (Len(t) > TokenLength) /\ Len(t) \in Nat
<1>1. Len(t) \in 1 .. TokenLength /\ TokenLength \in Nat
  BY NegotiationAssumption DEF IsToken
<1> QED BY <1>1

\* Those without quotes end where the next part begins.
LEMMA PlainWhole ==
  ASSUME NEW t \in Plain, IsToken(t), NEW f, BeginsNext(f)
  PROVE  IsWhole(t, FALSE, f)
<1>1. t \in Texts
  BY TextFacts
<1>2. t # <<>>
  BY <1>1, TokenFacts
<1> QED BY <1>1, <1>2, PlainLetters DEF IsWhole, BeginsNext

\* A value, too.
LEMMA ValueWhole ==
  ASSUME NEW q \in WritableParams, q.value # <<>>, NEW f, BeginsNext(f)
  PROVE  IsWhole(q.value, q.quoted, f) /\ IsToken(q.value)
<1>1. /\ q.value \in Seq(Alphabet \ {"\""}) /\ q.quoted \in BOOLEAN
      /\ IsToken(q.value) /\ (q.quoted \/ q.value \in Plain)
  BY DEF WritableParams
<1>2. q.value \in Texts
  BY WrittenParamIs, <1>1, TextFacts
<1>3. ASSUME NEW i \in 1 .. Len(q.value) PROVE q.value[i] # QuoteMark
  <2>1. PICK S : S = Alphabet \ {QuoteMark}
    OBVIOUS
  <2>2. q.value \in Seq(S)
    BY <1>1, <2>1, Zenon DEF QuoteMark
  <2>3. q.value[i] \in S
    BY <2>2
  <2> QED BY <2>1, <2>3
<1>4. ASSUME NEW i \in 1 .. Len(q.value), ~ q.quoted
      PROVE  q.value[i] \notin Separators /\ q.value[i] # Blank
  BY <1>1, <1>4, PlainLetters
<1> QED BY <1>1, <1>2, <1>3, <1>4 DEF IsWhole, BeginsNext

\* Behind the separator the next token comes.
LEMMA SeparatorStep ==
  ASSUME ScanInOrder, p # 0, NEW t, NEW f, Behind(t, f),
         NEW c \in Separators, NEW k \in Nat, NEW quoted \in BOOLEAN,
         NEW u \in Texts, NEW g \in Texts,
         NEW w, w = QuotedIf(quoted, u), f = <<c>> \o (Spaces(k) \o (w \o g)),
         p' = p + 1, line' = line, start' = 0, length' = 0, inQuote' = inQuote
  PROVE  p \in DOMAIN line /\ line[p] = c /\ AtToken(u, quoted, g)'
<1>1. ~ inQuote /\ Unread(line, p) = f
  BY DEF Behind
<1>2. w \in Texts /\ Spaces(k) \in Texts /\ c \in Alphabet
  BY QuotedFront, SpacesFacts, SeparatorFacts
<1>3. PICK v \in Texts : v = Spaces(k) \o (w \o g)
  BY <1>2, TextsGlued
<1>4. p \in DOMAIN line /\ line[p] = c /\ Unread(line, p + 1) = v
  BY <1>1, <1>2, <1>3, NextIs
<1>5. Unread(line, p)' = Spaces(k) \o (QuotedIf(quoted, u) \o g)
  BY <1>3, <1>4
<1>6. p' # 0
  BY DEF ScanInOrder
<1>7. Before(u, quoted, g)'
  BY <1>1, <1>5 DEF Before
<1> QED BY <1>4, <1>6, <1>7 DEF AtToken

\* In a header, the first letter is that of the first token.
LEMMA FirstToken ==
  ASSUME NEW text, NEW k \in Nat, NEW t, NEW f, IsWhole(t, FALSE, f),
         NEW front, front = t \o f, text = Spaces(k) \o front
  PROVE  /\ LetterAt(text, Blank) = k + 1 /\ Unread(text, k + 1) = front
         /\ text[k + 1] \notin Separators
<1>1. t \in Texts /\ f \in Texts /\ t # <<>> /\ Spaces(k) \in Texts
  BY SpacesFacts DEF IsWhole
<1>2. PICK m \in Nat : m = Len(t) /\ m # 0 /\ m >= 1
  <2>1. Len(t) \in Nat /\ Len(t) # 0
    BY <1>1, EmptySeq DEF Texts
  <2> QED BY <2>1
<1>3. t[1] \notin Separators /\ t[1] # Blank
  <2>1. 1 \in 1 .. Len(t)
    BY <1>2
  <2> QED BY <2>1 DEF IsWhole
<1>4. PICK w \in Texts : w = t \o f /\ w = front
  BY <1>1, TextsGlued
<1>5. PICK j \in Nat : Len(w) = j /\ j >= 1
  <2>1. Len(t \o f) = Len(t) + Len(f) /\ Len(f) \in Nat
    BY <1>1, TextLength DEF Texts
  <2> QED BY <1>2, <1>4, <2>1
<1>6. w[1] = t[1]
  <2>1. \A i \in 1 .. Len(t) + Len(f) : (t \o f)[i] = IF i <= Len(t) THEN t[i] ELSE f[i - Len(t)]
    BY <1>1, ConcatProperties DEF Texts
  <2>2. Len(f) \in Nat
    BY <1>1, TextLength
  <2>3. 1 \in 1 .. Len(t) + Len(f) /\ 1 <= Len(t)
    BY <1>2, <2>2
  <2> QED BY <1>4, <2>1, <2>3
<1>7. PICK a \in Texts : a = Spaces(k) /\ Len(a) = k /\ \A i \in 1 .. k : a[i] = Blank
  <2>1. Spaces(k) = [i \in 1 .. k |-> Blank]
    BY Zenon DEF Spaces, Blank
  <2> QED BY <1>1, <2>1
<1>8. PICK b \in Texts : b = a \o w /\ b = text
  BY <1>4, <1>7, TextsGlued
<1>9. Len(b) = k + j /\ \A i \in 1 .. k + j : b[i] = IF i <= k THEN a[i] ELSE w[i - k]
  <2>1. /\ Len(a \o w) = Len(a) + Len(w)
        /\ \A i \in 1 .. Len(a) + Len(w) :
             (a \o w)[i] = IF i <= Len(a) THEN a[i] ELSE w[i - Len(a)]
    BY ConcatProperties DEF Texts
  <2> QED BY <1>5, <1>7, <1>8, <2>1
<1>10. PICK n \in Nat : n = k + 1 /\ n \in 1 .. k + j /\ n - k = 1 /\ ~ (n <= k)
  <2>1. k + 1 \in 1 .. k + j /\ (k + 1) - k = 1 /\ ~ (k + 1 <= k)
    BY <1>5
  <2> QED BY <2>1
<1>11. b[n] = t[1]
  BY <1>6, <1>9, <1>10
<1>12. \A i \in 1 .. k : b[i] = Blank
  <2> TAKE i \in 1 .. k
  <2>1. i \in 1 .. k + j /\ i <= k
    BY <1>5
  <2> QED BY <1>7, <1>9, <2>1
<1>13. PICK x : x = LetterAt(b, Blank)
  OBVIOUS
<1>14. /\ x \in 0 .. k + j
       /\ x # 0 => b[x] # Blank /\ \A i \in 1 .. x - 1 : b[i] = Blank
       /\ x = 0 => \A i \in 1 .. k + j : b[i] = Blank
  BY <1>9, <1>13, LetterAtFacts
<1>15. x # 0
  BY <1>3, <1>10, <1>11, <1>14
<1>16. ~ (x <= k)
  <2>1. x \in 0 .. k + j
    BY <1>14
  <2> QED BY <1>12, <1>14, <1>15, <2>1
<1>17. ~ (x > n)
  <2>1. x \in Nat
    BY <1>14
  <2>2. x > n => n \in 1 .. x - 1
    BY <1>10, <2>1
  <2> QED BY <1>3, <1>11, <1>14, <1>15, <2>2
<1>18. x = n
  <2>1. x \in Nat
    BY <1>14
  <2> QED BY <1>10, <1>16, <1>17, <2>1
<1>19. Unread(b, n) = w
  <2>1. b \in Seq(Alphabet) /\ w \in Seq(Alphabet)
    BY DEF Texts
  <2>2. PICK s : s = SubSeq(b, n, k + j)
    OBVIOUS
  <2>3. \A i \in n .. k + j : b[i] \in Alphabet
    <3>1. \A i \in n .. k + j : i \in 1 .. Len(b)
      BY <1>9, <1>10
    <3> QED BY <2>1, <3>1
  <2>4. /\ s \in Seq(Alphabet) /\ Len(s) = IF n <= k + j THEN k + j - n + 1 ELSE 0
        /\ \A i \in 1 .. k + j - n + 1 : s[i] = b[n + i - 1]
    BY <2>2, <2>3, SubSeqProperties
  <2>5. n <= k + j /\ k + j - n + 1 = j
    BY <1>5, <1>10
  <2>6. ASSUME NEW i \in 1 .. j PROVE s[i] = w[i]
    <3>1. n + i - 1 \in 1 .. k + j /\ ~ (n + i - 1 <= k) /\ (n + i - 1) - k = i
      BY <1>5, <1>10
    <3>2. s[i] = b[n + i - 1]
      BY <2>4, <2>5
    <3>3. PICK y : y = n + i - 1
      OBVIOUS
    <3>4. b[y] = w[y - k]
      BY <1>9, <3>1, <3>3
    <3> QED BY <3>1, <3>2, <3>3, <3>4
  <2>7. Len(s) = j
    BY <2>4, <2>5
  <2>8. s = w
    BY <1>5, <2>1, <2>4, <2>6, <2>7, SeqEqual
  <2> QED BY <1>9, <2>2, <2>8 DEF Unread
<1> QED BY <1>3, <1>4, <1>8, <1>10, <1>11, <1>13, <1>18, <1>19

-----------------------------------------------------------------------------
\* What the list tells: of every extension, the parameters of all its offers.

Closed == {q \in Params : ~ Open(q)}
ClosedEntries == [token : Texts, params : Seq(Closed)]

Choice(token) == [x \in Entries |-> IF x.token = token THEN x.params ELSE <<>>]

\* Of the entries cs, what concerns one extension.
Share(cs, token) == FlatMap(Choice(token), cs)

Tells(l, cs) ==
  /\ ListInOrder(l)
  /\ \A x : (\E e \in DOMAIN l : l[e].token = x) <=> (\E i \in DOMAIN cs : cs[i].token = x)
  /\ \A e \in DOMAIN l : l[e].params = Share(cs, l[e].token)

\* Entries without open parameters are entries.
LEMMA ClosedFacts ==
  /\ Closed \subseteq Params /\ Seq(Closed) \subseteq Seq(Params)
  /\ ClosedEntries \subseteq Entries /\ Seq(ClosedEntries) \subseteq Seq(Entries)
  /\ \A s \in Seq(Closed) : ~ EndsOpen(s)
<1>1. Closed \subseteq Params /\ Seq(Closed) \subseteq Seq(Params)
  <2>1. Closed \subseteq Params
    BY DEF Closed
  <2> QED BY <2>1, SeqMonotonic
<1>2. ClosedEntries \subseteq Entries
  BY <1>1 DEF ClosedEntries, Entries
<1>3. Seq(ClosedEntries) \subseteq Seq(Entries)
  BY <1>2, SeqMonotonic
<1>4. ASSUME NEW s \in Seq(Closed) PROVE ~ EndsOpen(s)
  <2> SUFFICES ASSUME s # <<>> PROVE ~ Open(s[Len(s)])
    BY DEF EndsOpen
  <2>1. Len(s) \in 1 .. Len(s)
    BY EmptySeq
  <2>2. s[Len(s)] \in Closed
    BY <2>1
  <2> QED BY <2>2 DEF Closed
<1> QED BY <1>1, <1>2, <1>3, <1>4

\* A share is a sequence of parameters, none of them open if none is in the entries.
LEMMA ShareTyped ==
  ASSUME NEW token
  PROVE  /\ Gives(Choice(token), Entries, Seq(Params))
         /\ \A cs \in Seq(Entries) : Share(cs, token) \in Seq(Params)
         /\ \A cs \in Seq(ClosedEntries) : Share(cs, token) \in Seq(Closed)
<1>1. \A x \in Entries : Choice(token)[x] = IF x.token = token THEN x.params ELSE <<>>
  BY DEF Choice
<1>2. Gives(Choice(token), Entries, Seq(Params))
  <2>1. <<>> \in Seq(Params)
    OBVIOUS
  <2>2. \A x \in Entries : x.params \in Seq(Params)
    BY DEF Entries
  <2> QED BY <1>1, <2>1, <2>2 DEF Gives
<1>3. Gives(Choice(token), ClosedEntries, Seq(Closed))
  <2>1. \A x \in ClosedEntries : x \in Entries /\ x.params \in Seq(Closed)
    BY ClosedFacts DEF ClosedEntries
  <2>2. <<>> \in Seq(Closed)
    OBVIOUS
  <2> QED BY <1>1, <2>1, <2>2 DEF Gives
<1> QED BY <1>2, <1>3, FlatMapTyped DEF Share

\* One entry more.
LEMMA ShareAppend ==
  ASSUME NEW cs \in Seq(Entries), NEW x \in Entries, NEW token
  PROVE  /\ x.token = token => Share(Append(cs, x), token) = Share(cs, token) \o x.params
         /\ x.token # token => Share(Append(cs, x), token) = Share(cs, token)
<1>1. Choice(token)[x] = IF x.token = token THEN x.params ELSE <<>>
  BY DEF Choice
<1>2. Share(Append(cs, x), token) = Share(cs, token) \o Choice(token)[x]
  BY ShareTyped, FlatMapAppend DEF Share
<1>3. Share(cs, token) \o <<>> = Share(cs, token)
  BY ShareTyped, ConcatEmptySeq
<1> QED BY <1>1, <1>2, <1>3

\* An extension that is in no entry has nothing.
LEMMA ShareNone ==
  ASSUME NEW cs \in Seq(Entries), NEW token, \A i \in DOMAIN cs : cs[i].token # token
  PROVE  Share(cs, token) = <<>>
<1>1. PICK S : S = {x \in Entries : x.token # token}
  OBVIOUS
<1>2. cs \in Seq(S)
  <2>1. PICK n \in Nat : n = Len(cs) /\ DOMAIN cs = 1 .. n
    OBVIOUS
  <2>2. \A i \in 1 .. n : cs[i] \in S
    BY <1>1, <2>1
  <2>3. cs \in [1 .. n -> S]
    BY <2>1, <2>2
  <2> QED BY <2>1, <2>3, IsASeq
<1>3. Gives(Choice(token), S, Seq({}))
  <2>1. \A x \in S : Choice(token)[x] = <<>>
    BY <1>1 DEF Choice
  <2>2. <<>> \in Seq({})
    OBVIOUS
  <2> QED BY <2>1, <2>2 DEF Gives
<1>4. Share(cs, token) \in Seq({})
  BY <1>2, <1>3, FlatMapTyped DEF Share
<1> QED BY <1>4, EmptySeq

\* The parameter that is filled is new or open.
LEMMA PendingTyped ==
  ASSUME NEW params \in Seq(Params), OpenIsLast(params)
  PROVE  Pending(params) \in Params /\ ~ Pending(params).isLast
<1>1. DOMAIN params = 1 .. Len(params) /\ Len(params) \in Nat
  OBVIOUS
<1>2. CASE EndsOpen(params)
  BY <1>1, <1>2 DEF Pending, EndsOpen, Open, OpenIsLast
<1>3. CASE ~ EndsOpen(params)
  BY <1>3, NewParamTyped DEF Pending
<1> QED BY <1>2, <1>3

\* Only what is at the end matters for it, and changes.
LEMMA LastParts ==
  ASSUME NEW a \in Seq(Params), NEW ps \in Seq(Params), ps # <<>>, NEW q \in Params
  PROVE  /\ Pending(a \o ps) = Pending(ps)
         /\ WithParam(a \o ps, q) = a \o WithParam(ps, q)
         /\ WithParam(ps, q) \in Seq(Params) /\ WithParam(ps, q) # <<>>
<1>1. PICK m \in Nat, n \in Nat : m = Len(a) /\ n = Len(ps) /\ n # 0
  BY EmptySeq
<1>2. PICK b \in Seq(Params) : b = a \o ps
  BY ConcatProperties
<1>3. Len(b) = m + n /\ \A i \in 1 .. m + n : b[i] = IF i <= m THEN a[i] ELSE ps[i - m]
  BY <1>1, <1>2, ConcatProperties
<1>4. m + n \in 1 .. m + n /\ ~ (m + n <= m) /\ (m + n) - m = n
  BY <1>1
<1>5. b[m + n] = ps[n] /\ b # <<>>
  <2>1. b[m + n] = ps[n]
    <3>1. PICK k : k = m + n
      OBVIOUS
    <3> QED BY <1>3, <1>4, <3>1
  <2>2. m + n # 0
    BY <1>1
  <2> QED BY <1>3, <2>1, <2>2
<1>6. EndsOpen(b) <=> EndsOpen(ps)
  BY <1>1, <1>3, <1>5 DEF EndsOpen
<1>7. Pending(b) = Pending(ps)
  BY <1>1, <1>3, <1>5, <1>6 DEF Pending
<1>8. CASE EndsOpen(ps)
  <2>1. PICK w : w = [ps EXCEPT ![n] = q]
    OBVIOUS
  <2>2. w \in Seq(Params) /\ Len(w) = n /\ w[n] = q /\ \A i \in 1 .. n : i # n => w[i] = ps[i]
    BY <1>1, <2>1, ExceptSeq
  <2>3. PICK k \in Nat : k = m + n /\ k \in 1 .. k
    BY <1>4
  <2>4. PICK v : v = [b EXCEPT ![k] = q]
    OBVIOUS
  <2>5. v \in Seq(Params) /\ Len(v) = k /\ v[k] = q /\ \A i \in 1 .. k : i # k => v[i] = b[i]
    BY <1>3, <2>3, <2>4, ExceptSeq
  <2>6. PICK u \in Seq(Params) : u = a \o w
    BY <2>2, ConcatProperties
  <2>7. Len(u) = k /\ \A i \in 1 .. k : u[i] = IF i <= m THEN a[i] ELSE w[i - m]
    <3>1. /\ Len(a \o w) = Len(a) + Len(w)
          /\ \A i \in 1 .. Len(a) + Len(w) :
               (a \o w)[i] = IF i <= Len(a) THEN a[i] ELSE w[i - Len(a)]
      BY <2>2, ConcatProperties
    <3>2. Len(a) + Len(w) = k /\ Len(a) = m
      BY <1>1, <2>2, <2>3
    <3> QED BY <2>6, <3>1, <3>2
  <2>8. ASSUME NEW i \in 1 .. k PROVE u[i] = v[i]
    <3>1. CASE i = k
      <4>1. ~ (i <= m) /\ i - m = n
        BY <1>1, <2>3, <3>1
      <4> QED BY <2>2, <2>5, <2>7, <3>1, <4>1
    <3>2. CASE i # k /\ i <= m
      BY <1>3, <2>3, <2>5, <2>7, <3>2
    <3>3. CASE i # k /\ ~ (i <= m)
      <4>1. PICK j : j = i - m
        OBVIOUS
      <4>2. j \in 1 .. n /\ j # n
        BY <2>3, <3>3, <4>1
      <4>3. w[j] = ps[j]
        BY <2>2, <4>2
      <4> QED BY <1>3, <2>3, <2>5, <2>7, <3>3, <4>1, <4>3
    <3> QED BY <3>1, <3>2, <3>3
  <2>9. u = v
    BY <2>5, <2>7, <2>8, SeqEqual
  <2>10. WithParam(ps, q) = w
    BY <1>1, <1>8, <2>1 DEF WithParam, WithLast
  <2>11. WithParam(b, q) = v
    BY <1>3, <1>6, <1>8, <2>3, <2>4 DEF WithParam, WithLast
  <2>12. w # <<>>
    BY <1>1, <2>2
  <2> QED BY <1>2, <1>7, <2>2, <2>6, <2>9, <2>10, <2>11, <2>12
<1>9. CASE ~ EndsOpen(ps)
  <2>1. WithParam(ps, q) = Append(ps, q) /\ WithParam(b, q) = Append(b, q)
    BY <1>6, <1>9 DEF WithParam
  <2>2. PICK u \in Seq(Params) : u = <<q>>
    <3>1. <<q>> \in Seq(Params)
      OBVIOUS
    <3> QED BY <3>1
  <2>3. Append(ps, q) = ps \o u /\ Append(b, q) = b \o u
    BY <2>2, AppendIsConcat
  <2>4. (a \o ps) \o u = a \o (ps \o u)
    BY ConcatAssociative
  <2>5. Append(ps, q) \in Seq(Params) /\ Append(ps, q) # <<>>
    BY <1>1
  <2> QED BY <1>2, <1>7, <2>1, <2>3, <2>4, <2>5
<1> QED BY <1>8, <1>9

-----------------------------------------------------------------------------
\* One more entry is read.

Entry(token, params) == [token |-> token, params |-> params]

\* The tokens in entries to which one is appended.
LEMMA TokensAppend ==
  ASSUME NEW cs \in Seq(Entries), NEW x \in Entries, NEW token
  PROVE  (\E i \in DOMAIN Append(cs, x) : Append(cs, x)[i].token = token)
           <=> (x.token = token \/ \E i \in DOMAIN cs : cs[i].token = token)
<1>1. PICK n \in Nat : n = Len(cs) /\ DOMAIN cs = 1 .. n
  OBVIOUS
<1>2. PICK a : a = Append(cs, x)
  OBVIOUS
<1>3. DOMAIN a = 1 .. n + 1 /\ a[n + 1] = x /\ \A i \in 1 .. n : a[i] = cs[i]
  BY <1>1, <1>2, AppendProperties
<1>4. \A i \in 1 .. n : i \in 1 .. n + 1
  OBVIOUS
<1>5. n + 1 \in 1 .. n + 1
  OBVIOUS
<1>6. \A i \in 1 .. n + 1 : i = n + 1 \/ i \in 1 .. n
  OBVIOUS
<1>7. PICK k : k = n + 1
  OBVIOUS
<1> QED BY <1>1, <1>2, <1>3, <1>4, <1>5, <1>6, <1>7

\* An extension is offered: a new part begins, which holds what stands for it.
LEMMA TellsExtension ==
  ASSUME NEW l, NEW cs \in Seq(ClosedEntries), Tells(l, cs), NEW token \in Texts, NEW c,
         NEW x, x = Entry(token, << KeyParam(c, NewParam) >>)
  PROVE  /\ Tells(AddedTo(l, token, c), Append(cs, x))
         /\ AddedTo(l, token, c)[PlaceIn(l, token)].token = token
         /\ x \in Entries
<1>1. ListInOrder(l) /\ cs \in Seq(Entries)
  BY ClosedFacts DEF Tells
<1>2. PICK k \in Params : k = KeyParam(c, NewParam)
  BY NewParamTyped, KeyParamTyped
<1>3. PICK part \in Seq(Params) : part = <<k>>
  <2>1. <<k>> \in Seq(Params)
    OBVIOUS
  <2> QED BY <2>1
<1>4. x \in Entries /\ x.token = token /\ x.params = part
  BY <1>2, <1>3 DEF Entry, Entries
<1>5. PICK e, m, params : e = PlaceIn(l, token) /\ m = Extended(l, token) /\ params = m[e].params
  OBVIOUS
<1>6. PICK ps : ps = WithParam(params, KeyParam(c, Pending(params)))
  OBVIOUS
<1>7. PICK r : r = AddedTo(l, token, c)
  OBVIOUS
<1>8. r = SetParams(m, e, ps) /\ params \in Seq(Params) /\ OpenIsLast(params) /\ ListInOrder(r)
  BY <1>1, <1>5, <1>6, <1>7, AddedToFacts
<1>9. /\ ListInOrder(m) /\ e \in DOMAIN m /\ m[e].token = token
      /\ DOMAIN l \subseteq DOMAIN m /\ \A d \in DOMAIN l : m[d] = l[d]
  <2>1. /\ ListInOrder(Extended(l, token)) /\ PlaceIn(l, token) \in DOMAIN Extended(l, token)
        /\ Extended(l, token)[PlaceIn(l, token)].token = token
        /\ DOMAIN l \subseteq DOMAIN Extended(l, token)
        /\ \A d \in DOMAIN l : Extended(l, token)[d] = l[d]
    BY <1>1, ExtendedFacts, ZenonT(60)
  <2> QED BY <1>5, <2>1
<1>10. ps \in Seq(Params) /\ OpenIsLast(ps)
  <2>1. Pending(params) \in Params /\ ~ Pending(params).isLast
    BY <1>8, PendingTyped
  <2>2. PICK q : q = KeyParam(c, Pending(params))
    OBVIOUS
  <2>3. q \in Params /\ (Open(q) => ~ q.isLast)
    BY <2>1, <2>2, KeyParamTyped
  <2> QED BY <1>6, <1>8, <2>2, <2>3, WithParamTyped
<1>11. /\ DOMAIN r = DOMAIN m /\ \A d \in DOMAIN m : r[d].token = m[d].token
       /\ r[e].params = ps /\ \A d \in DOMAIN m : d # e => r[d] = m[d]
  BY <1>8, <1>9, <1>10, SetParamsFacts
<1>12. \A d \in DOMAIN m : d # e => d \in DOMAIN l /\ l[d].token # token
  <2> TAKE d \in DOMAIN m
  <2>1. CASE e \in DOMAIN l
    <3>1. m = l
      BY <1>1, <1>5, <2>1, ExtendedFacts
    <3> QED BY <1>1, <1>9, <3>1 DEF ListInOrder, Once
  <2>2. CASE e \notin DOMAIN l
    <3>1. DOMAIN m = DOMAIN l \cup {e} /\ \A f \in DOMAIN l : l[f].token # token
      BY <1>1, <1>5, <2>2, ExtendedFacts
    <3> QED BY <3>1
  <2> QED BY <2>1, <2>2
<1>13. ps = Share(cs, token) \o part
  <2>1. PICK s \in Seq(Closed) : s = Share(cs, token)
    BY ShareTyped
  <2>2. CASE e \in DOMAIN l
    <3>1. m = l
      BY <1>1, <1>5, <2>2, ExtendedFacts
    <3>2. params = s
      BY <1>5, <1>9, <2>1, <2>2, <3>1 DEF Tells
    <3>3. ~ EndsOpen(params)
      BY <3>2, ClosedFacts
    <3>4. ps = Append(params, k)
      BY <1>2, <1>6, <3>3 DEF WithParam, Pending
    <3>5. Append(params, k) = params \o part
      BY <1>3, <1>8, AppendIsConcat
    <3> QED BY <2>1, <3>2, <3>4, <3>5
  <2>3. CASE e \notin DOMAIN l
    <3>1. params = << NewParam >> /\ \A d \in DOMAIN l : l[d].token # token
      BY <1>1, <1>5, <2>3, ExtendedFacts
    <3>2. Len(params) = 1 /\ params # <<>> /\ params[1] = NewParam
      BY <3>1
    <3>3. EndsOpen(params) /\ Pending(params) = NewParam
      BY <3>2, NewParamTyped DEF EndsOpen, Pending
    <3>4. ps = [params EXCEPT ![1] = k]
      BY <1>2, <1>6, <3>2, <3>3 DEF WithParam, WithLast
    <3>5. ps = part
      <4>1. Len(ps) = 1 /\ ps[1] = k /\ Len(part) = 1 /\ part[1] = k
        BY <1>3, <1>8, <3>2, <3>4, ExceptSeq
      <4>2. \A i \in 1 .. 1 : ps[i] = part[i]
        BY <4>1
      <4> QED BY <1>10, <4>1, <4>2, SeqEqual
    <3>6. \A i \in DOMAIN cs : cs[i].token # token
      BY <3>1 DEF Tells
    <3>7. Share(cs, token) = <<>>
      BY <1>1, <3>6, ShareNone
    <3>8. <<>> \o part = part
      BY ConcatEmptySeq
    <3> QED BY <3>5, <3>7, <3>8
  <2> QED BY <2>2, <2>3
<1>14. ASSUME NEW d \in DOMAIN r PROVE r[d].params = Share(Append(cs, x), r[d].token)
  <2>1. CASE d = e
    <3>1. r[d].token = token
      BY <1>9, <1>11, <2>1
    <3>2. Share(Append(cs, x), token) = Share(cs, token) \o part
      BY <1>1, <1>4, ShareAppend
    <3> QED BY <1>11, <1>13, <2>1, <3>1, <3>2
  <2>2. CASE d # e
    <3>1. d \in DOMAIN l /\ l[d].token # token /\ r[d] = l[d]
      BY <1>9, <1>11, <1>12, <2>2
    <3>2. PICK t : t = l[d].token
      OBVIOUS
    <3>3. Share(Append(cs, x), t) = Share(cs, t)
      BY <1>1, <1>4, <3>1, <3>2, ShareAppend
    <3>4. l[d].params = Share(cs, t)
      BY <3>1, <3>2 DEF Tells
    <3> QED BY <3>1, <3>2, <3>3, <3>4
  <2> QED BY <2>1, <2>2
<1>15. ASSUME NEW y
       PROVE  (\E d \in DOMAIN r : r[d].token = y)
                <=> (\E i \in DOMAIN Append(cs, x) : Append(cs, x)[i].token = y)
  <2>1. (\E d \in DOMAIN r : r[d].token = y)
          <=> (y = token \/ \E d \in DOMAIN l : l[d].token = y)
    <3>1. ASSUME NEW d \in DOMAIN r, r[d].token = y
          PROVE  y = token \/ \E f \in DOMAIN l : l[f].token = y
      <4>1. CASE d = e
        BY <1>9, <1>11, <3>1, <4>1
      <4>2. CASE d # e
        BY <1>9, <1>11, <1>12, <3>1, <4>2
      <4> QED BY <4>1, <4>2
    <3>2. ASSUME y = token PROVE \E d \in DOMAIN r : r[d].token = y
      BY <1>9, <1>11, <3>2
    <3>3. ASSUME NEW d \in DOMAIN l, l[d].token = y PROVE \E f \in DOMAIN r : r[f].token = y
      BY <1>9, <1>11, <3>3
    <3> QED BY <3>1, <3>2, <3>3
  <2>2. (\E d \in DOMAIN l : l[d].token = y) <=> (\E i \in DOMAIN cs : cs[i].token = y)
    BY DEF Tells
  <2>3. (\E i \in DOMAIN Append(cs, x) : Append(cs, x)[i].token = y)
          <=> (x.token = y \/ \E i \in DOMAIN cs : cs[i].token = y)
    BY <1>1, <1>4, TokensAppend
  <2> QED BY <1>4, <2>1, <2>2, <2>3
<1>16. Tells(r, Append(cs, x))
  BY <1>8, <1>14, <1>15 DEF Tells
<1> QED BY <1>4, <1>5, <1>7, <1>9, <1>11, <1>16

\* A name or a value is added to the last part.
LEMMA TellsParam ==
  ASSUME NEW l, NEW cs \in Seq(ClosedEntries), NEW token \in Texts, NEW ps \in Seq(Params),
         ps # <<>>, Tells(l, Append(cs, Entry(token, ps))),
         NEW e \in DOMAIN l, l[e].token = token, NEW c \in Separators, NEW text \in Texts,
         NEW q, q = Filled(Pending(ps), c, text)
  PROVE  /\ Tells(WithValue(l, e, c, text), Append(cs, Entry(token, WithParam(ps, q))))
         /\ WithValue(l, e, c, text)[e].token = token /\ e \in DOMAIN WithValue(l, e, c, text)
<1>1. ListInOrder(l) /\ cs \in Seq(Entries)
  BY ClosedFacts DEF Tells
<1>2. PICK x \in Entries : x = Entry(token, ps) /\ x.token = token /\ x.params = ps
  <2>1. Entry(token, ps) \in Entries /\ Entry(token, ps).token = token
        /\ Entry(token, ps).params = ps
    BY DEF Entry, Entries
  <2> QED BY <2>1
<1>3. PICK a \in Seq(Params) : a = Share(cs, token)
  BY <1>1, ShareTyped
<1>4. PICK params \in Seq(Params) : params = a \o ps
  BY ConcatProperties
<1>5. l[e].params = params
  <2>1. Share(Append(cs, x), token) = a \o ps
    <3>1. Share(Append(cs, x), token) = Share(cs, token) \o x.params
      BY <1>1, <1>2, ShareAppend
    <3> QED BY <1>2, <1>3, <3>1
  <2>2. l[e].params = Share(Append(cs, x), token)
    BY <1>2 DEF Tells
  <2> QED BY <1>4, <2>1, <2>2
<1>6. OpenIsLast(params)
  BY <1>1, <1>5 DEF ListInOrder
<1>7. params # <<>>
  <2>1. Len(a \o ps) = Len(a) + Len(ps) /\ Len(a) \in Nat /\ Len(ps) \in Nat
    BY ConcatProperties
  <2>2. Len(ps) # 0
    BY EmptySeq
  <2> QED BY <1>4, <2>1, <2>2
<1>8. Pending(params) = Pending(ps)
  <2>1. NewParam \in Params
    BY NewParamTyped
  <2> QED BY <1>4, <2>1, LastParts
<1>9. q \in Params /\ (Open(q) => ~ q.isLast)
  <2>1. Pending(ps) \in Params /\ ~ Pending(ps).isLast
    BY <1>6, <1>8, PendingTyped
  <2> QED BY <2>1, FilledTyped
<1>10. PICK w \in Seq(Params) : w = WithParam(ps, q)
  BY <1>9, LastParts
<1>11. WithParam(params, q) = a \o w
  BY <1>4, <1>9, <1>10, LastParts
<1>12. PICK r : r = WithValue(l, e, c, text)
  OBVIOUS
<1>13. PICK pw : pw = WithParam(params, q)
  OBVIOUS
<1>14. r = SetParams(l, e, pw) /\ ListInOrder(r)
  BY <1>1, <1>5, <1>7, <1>8, <1>12, <1>13, WithValueFacts
<1>15. pw \in Seq(Params) /\ OpenIsLast(pw)
  BY <1>6, <1>9, <1>13, WithParamTyped
<1>16. /\ DOMAIN r = DOMAIN l /\ \A d \in DOMAIN l : r[d].token = l[d].token
       /\ r[e].params = pw /\ \A d \in DOMAIN l : d # e => r[d] = l[d]
  BY <1>1, <1>14, <1>15, SetParamsFacts
<1>17. PICK y \in Entries : y = Entry(token, w) /\ y.token = token /\ y.params = w
  <2>1. Entry(token, w) \in Entries /\ Entry(token, w).token = token
        /\ Entry(token, w).params = w
    BY DEF Entry, Entries
  <2> QED BY <2>1
<1>18. ASSUME NEW d \in DOMAIN r PROVE r[d].params = Share(Append(cs, y), r[d].token)
  <2>1. CASE d = e
    <3>1. Share(Append(cs, y), token) = a \o w
      <4>1. Share(Append(cs, y), token) = Share(cs, token) \o y.params
        BY <1>1, <1>17, ShareAppend
      <4> QED BY <1>3, <1>17, <4>1
    <3> QED BY <1>11, <1>13, <1>16, <2>1, <3>1
  <2>2. CASE d # e
    <3>1. d \in DOMAIN l /\ r[d] = l[d]
      BY <1>16, <2>2
    <3>2. PICK t : t = l[d].token
      OBVIOUS
    <3>3. t # token
      BY <1>1, <2>2, <3>1, <3>2 DEF ListInOrder, Once
    <3>4. Share(Append(cs, y), t) = Share(cs, t)
      BY <1>1, <1>17, <3>3, ShareAppend
    <3>5. Share(Append(cs, x), t) = Share(cs, t)
      BY <1>1, <1>2, <3>3, ShareAppend
    <3>6. l[d].params = Share(Append(cs, x), t)
      BY <1>2, <3>1, <3>2 DEF Tells
    <3> QED BY <3>1, <3>2, <3>4, <3>5, <3>6
  <2> QED BY <2>1, <2>2
<1>19. ASSUME NEW z
       PROVE  (\E d \in DOMAIN r : r[d].token = z)
                <=> (\E i \in DOMAIN Append(cs, y) : Append(cs, y)[i].token = z)
  <2>1. (\E d \in DOMAIN r : r[d].token = z) <=> (\E d \in DOMAIN l : l[d].token = z)
    BY <1>16
  <2>2. (\E d \in DOMAIN l : l[d].token = z)
          <=> (\E i \in DOMAIN Append(cs, x) : Append(cs, x)[i].token = z)
    BY <1>2 DEF Tells
  <2>3. (\E i \in DOMAIN Append(cs, y) : Append(cs, y)[i].token = z)
          <=> (y.token = z \/ \E i \in DOMAIN cs : cs[i].token = z)
    BY <1>1, TokensAppend, ZenonT(60)
  <2>4. (\E i \in DOMAIN Append(cs, x) : Append(cs, x)[i].token = z)
          <=> (x.token = z \/ \E i \in DOMAIN cs : cs[i].token = z)
    BY <1>1, TokensAppend, ZenonT(60)
  <2> QED BY <1>2, <1>17, <2>1, <2>2, <2>3, <2>4
<1>20. Tells(r, Append(cs, y))
  BY <1>14, <1>18, <1>19 DEF Tells
<1> QED BY <1>10, <1>12, <1>16, <1>17, <1>20

-----------------------------------------------------------------------------
\* What is read of an offer, and what it means.

NotLast == [q \in WritableParams |-> MeantParam(q, FALSE)]

\* The parameters that are ready, others follow.
MeantReady(ready) == Map(NotLast, ready)

\* What stands for an extension as long as no parameter is, or those that are ready.
PartRead(ready) == IF ready = <<>> THEN << NewParam >> ELSE MeantReady(ready)

\* A parameter with its name, that waits for its value.
Half(q) == [NewParam EXCEPT !.key = q.name]

Contribution == [o \in WritableOffers |-> Entry(o.token, MeantOffer(o))]
Contributions(offers) == Map(Contribution, offers)

\* A parameter, by its fields.
Made(key, type, int, string, isLast) ==
  [key |-> key, type |-> type, int |-> int, string |-> string, isLast |-> isLast]

\* What a name fills in a new parameter.
LEMMA FillsName ==
  ASSUME NEW t, ~ IsNumber(t)
  PROVE  /\ Filled(NewParam, Equals, t) = Made(t, "EMPTY", 0, <<>>, FALSE)
         /\ Filled(NewParam, Semicolon, t) = Made(t, "BOOL", 0, <<>>, FALSE)
         /\ Filled(NewParam, Comma, t) = Made(t, "BOOL", 0, <<>>, TRUE)
<1>1. NewParam.key = <<>>
  BY DEF NewParam
<1>2. ASSUME NEW c
      PROVE  Filled(NewParam, c, t) =
               [[NewParam EXCEPT !.key = t, !.type = IF c = Equals THEN @ ELSE "BOOL"]
                  EXCEPT !.isLast = @ \/ c = Comma]
  BY <1>1 DEF Filled, Equals, Comma
<1>3. Filled(NewParam, Equals, t) = Made(t, "EMPTY", 0, <<>>, FALSE)
  <2>1. Equals # Comma
    BY SeparatorFacts
  <2>2. Filled(NewParam, Equals, t) =
          [[NewParam EXCEPT !.key = t, !.type = IF Equals = Equals THEN @ ELSE "BOOL"]
             EXCEPT !.isLast = @ \/ Equals = Comma]
    BY <1>2
  <2> QED BY <2>1, <2>2 DEF NewParam, Made
<1>4. Filled(NewParam, Semicolon, t) = Made(t, "BOOL", 0, <<>>, FALSE)
  <2>1. Semicolon # Comma /\ Semicolon # Equals
    BY SeparatorFacts
  <2>2. Filled(NewParam, Semicolon, t) =
          [[NewParam EXCEPT !.key = t, !.type = IF Semicolon = Equals THEN @ ELSE "BOOL"]
             EXCEPT !.isLast = @ \/ Semicolon = Comma]
    BY <1>2
  <2> QED BY <2>1, <2>2 DEF NewParam, Made
<1>5. Filled(NewParam, Comma, t) = Made(t, "BOOL", 0, <<>>, TRUE)
  <2>1. Comma # Equals
    BY SeparatorFacts
  <2>2. Filled(NewParam, Comma, t) =
          [[NewParam EXCEPT !.key = t, !.type = IF Comma = Equals THEN @ ELSE "BOOL"]
             EXCEPT !.isLast = @ \/ Comma = Comma]
    BY <1>2
  <2> QED BY <2>1, <2>2 DEF NewParam, Made
<1> QED BY <1>3, <1>4, <1>5

\* What a value fills in a parameter with a name.
LEMMA FillsValue ==
  ASSUME NEW k, k # <<>>, NEW t, NEW n, n = Number(t),
         NEW h, h = Made(k, "EMPTY", 0, <<>>, FALSE)
  PROVE  /\ IsNumber(t) => /\ Filled(h, Semicolon, t) = Made(k, "INT", n, <<>>, FALSE)
                           /\ Filled(h, Comma, t) = Made(k, "INT", n, <<>>, TRUE)
         /\ ~ IsNumber(t) => /\ Filled(h, Semicolon, t) = Made(k, "STRING", 0, t, FALSE)
                             /\ Filled(h, Comma, t) = Made(k, "STRING", 0, t, TRUE)
<1>1. h.key # <<>>
  BY DEF Made
<1>2. Comma # Equals /\ Semicolon # Equals /\ Semicolon # Comma
  BY SeparatorFacts
<1>3. ASSUME NEW c, c # Equals, IsNumber(t)
      PROVE  Filled(h, c, t)
               = [[h EXCEPT !.type = "INT", !.int = n] EXCEPT !.isLast = @ \/ c = Comma]
  BY <1>1, <1>3 DEF Filled, Equals, Comma
<1>4. ASSUME NEW c, ~ IsNumber(t)
      PROVE  Filled(h, c, t)
               = [[h EXCEPT !.type = "STRING", !.string = t] EXCEPT !.isLast = @ \/ c = Comma]
  BY <1>1, <1>4 DEF Filled, Equals, Comma
<1>5. ASSUME IsNumber(t)
      PROVE  /\ Filled(h, Semicolon, t) = Made(k, "INT", n, <<>>, FALSE)
             /\ Filled(h, Comma, t) = Made(k, "INT", n, <<>>, TRUE)
  <2>1. Filled(h, Semicolon, t) =
          [[h EXCEPT !.type = "INT", !.int = n] EXCEPT !.isLast = @ \/ Semicolon = Comma]
    BY <1>2, <1>3, <1>5
  <2>2. Filled(h, Comma, t) =
          [[h EXCEPT !.type = "INT", !.int = n] EXCEPT !.isLast = @ \/ Comma = Comma]
    BY <1>2, <1>3, <1>5
  <2>3. Filled(h, Semicolon, t) = Made(k, "INT", n, <<>>, FALSE)
    BY <1>2, <2>1 DEF Made
  <2>4. Filled(h, Comma, t) = Made(k, "INT", n, <<>>, TRUE)
    BY <2>2 DEF Made
  <2> QED BY <2>3, <2>4
<1>6. ASSUME ~ IsNumber(t)
      PROVE  /\ Filled(h, Semicolon, t) = Made(k, "STRING", 0, t, FALSE)
             /\ Filled(h, Comma, t) = Made(k, "STRING", 0, t, TRUE)
  <2>1. Filled(h, Semicolon, t) =
          [[h EXCEPT !.type = "STRING", !.string = t] EXCEPT !.isLast = @ \/ Semicolon = Comma]
    BY <1>4, <1>6
  <2>2. Filled(h, Comma, t) =
          [[h EXCEPT !.type = "STRING", !.string = t] EXCEPT !.isLast = @ \/ Comma = Comma]
    BY <1>4, <1>6
  <2>3. Filled(h, Semicolon, t) = Made(k, "STRING", 0, t, FALSE)
    BY <1>2, <2>1 DEF Made
  <2>4. Filled(h, Comma, t) = Made(k, "STRING", 0, t, TRUE)
    BY <2>2 DEF Made
  <2> QED BY <2>3, <2>4
<1> QED BY <1>5, <1>6

\* What is meant, by its fields.
LEMMA MeantIs ==
  ASSUME NEW q \in WritableParams, NEW isLast
  PROVE  /\ q.value = <<>> => MeantParam(q, isLast) = Made(q.name, "BOOL", 0, <<>>, isLast)
         /\ q.value # <<>> /\ IsNumber(q.value) =>
              MeantParam(q, isLast) = Made(q.name, "INT", Number(q.value), <<>>, isLast)
         /\ q.value # <<>> /\ ~ IsNumber(q.value) =>
              MeantParam(q, isLast) = Made(q.name, "STRING", 0, q.value, isLast)
         /\ Half(q) = Made(q.name, "EMPTY", 0, <<>>, FALSE)
<1>1. PICK k, v : k = q.name /\ v = q.value
  OBVIOUS
<1>2. PICK n : n = Number(v)
  OBVIOUS
<1>7. v # <<>> => (IsNumber(v) <=> IsNumeral(v) /\ TellsNumbers)
  BY <1>1, WrittenParamIs, TextFacts, NumberTold
<1>3. ASSUME v = <<>> PROVE MeantParam(q, isLast) = Made(k, "BOOL", 0, <<>>, isLast)
  <2>1. MeantParam(q, isLast) =
          [[NewParam EXCEPT !.type = "BOOL"] EXCEPT !.key = k, !.isLast = isLast]
    BY <1>1, <1>3 DEF MeantParam
  <2> QED BY <2>1 DEF NewParam, Made
<1>4. ASSUME v # <<>>, IsNumber(v)
      PROVE  MeantParam(q, isLast) = Made(k, "INT", n, <<>>, isLast)
  <2>1. MeantParam(q, isLast) =
          [[NewParam EXCEPT !.type = "INT", !.int = n] EXCEPT !.key = k, !.isLast = isLast]
    BY <1>1, <1>2, <1>4, <1>7 DEF MeantParam
  <2> QED BY <2>1 DEF NewParam, Made
<1>5. ASSUME v # <<>>, ~ IsNumber(v)
      PROVE  MeantParam(q, isLast) = Made(k, "STRING", 0, v, isLast)
  <2>1. MeantParam(q, isLast) =
          [[NewParam EXCEPT !.type = "STRING", !.string = v] EXCEPT !.key = k, !.isLast = isLast]
    BY <1>1, <1>5, <1>7 DEF MeantParam
  <2> QED BY <2>1 DEF NewParam, Made
<1>6. Half(q) = Made(k, "EMPTY", 0, <<>>, FALSE)
  <2>1. Half(q) = [NewParam EXCEPT !.key = k]
    BY <1>1 DEF Half
  <2> QED BY <2>1 DEF NewParam, Made
<1> QED BY <1>1, <1>2, <1>3, <1>4, <1>5, <1>6, ZenonT(60)

\* Half a parameter is one that waits for its value.
LEMMA HalfTyped ==
  ASSUME NEW q \in WritableParams
  PROVE  Half(q) \in Params /\ Open(Half(q)) /\ q.name # <<>> /\ ~ IsNumber(q.name)
<1>1. q.name \in Texts /\ IsToken(q.name) /\ ~ IsNumber(q.name)
  BY WrittenParamIs, TextFacts, NumberTold DEF WritableParams
<1>2. q.name # <<>>
  BY <1>1, TokenFacts
<1>3. Half(q) = Made(q.name, "EMPTY", 0, <<>>, FALSE)
  BY MeantIs
<1>4. Half(q) \in Params /\ Half(q).type = "EMPTY"
  <2>1. PICK k \in Texts : k = q.name
    BY <1>1
  <2>2. "EMPTY" \in {"EMPTY", "INT", "BOOL", "STRING"} /\ 0 \in Nat /\ <<>> \in Texts
    BY TextFacts
  <2>3. Made(k, "EMPTY", 0, <<>>, FALSE) \in Params
        /\ Made(k, "EMPTY", 0, <<>>, FALSE).type = "EMPTY"
    BY <2>2 DEF Made, Params
  <2> QED BY <1>3, <2>1, <2>3
<1> QED BY <1>1, <1>2, <1>4 DEF Open

\* A name and a value make the parameter that is meant.
LEMMA FilledAsMeant ==
  ASSUME NEW q \in WritableParams
  PROVE  /\ Filled(NewParam, Equals, q.name) = Half(q)
         /\ q.value = <<>> => /\ Filled(NewParam, Semicolon, q.name) = MeantParam(q, FALSE)
                              /\ Filled(NewParam, Comma, q.name) = MeantParam(q, TRUE)
         /\ q.value # <<>> => /\ Filled(Half(q), Semicolon, q.value) = MeantParam(q, FALSE)
                              /\ Filled(Half(q), Comma, q.value) = MeantParam(q, TRUE)
<1>1. PICK k, v, n : k = q.name /\ v = q.value /\ n = Number(v)
  OBVIOUS
<1>2. k # <<>> /\ ~ IsNumber(k)
  BY <1>1, HalfTyped
<1>3. PICK h : h = Half(q) /\ h = Made(k, "EMPTY", 0, <<>>, FALSE)
  BY <1>1, MeantIs
<1>4. Filled(NewParam, Equals, k) = h
  BY <1>2, <1>3, FillsName
<1>5. ASSUME v = <<>>
      PROVE  /\ Filled(NewParam, Semicolon, k) = MeantParam(q, FALSE)
             /\ Filled(NewParam, Comma, k) = MeantParam(q, TRUE)
  <2>1. /\ MeantParam(q, FALSE) = Made(k, "BOOL", 0, <<>>, FALSE)
        /\ MeantParam(q, TRUE) = Made(k, "BOOL", 0, <<>>, TRUE)
    BY <1>1, <1>5, MeantIs, ZenonT(60)
  <2> QED BY <1>2, <2>1, FillsName
<1>6. ASSUME v # <<>>, IsNumber(v)
      PROVE  /\ Filled(h, Semicolon, v) = MeantParam(q, FALSE)
             /\ Filled(h, Comma, v) = MeantParam(q, TRUE)
  <2>1. /\ MeantParam(q, FALSE) = Made(k, "INT", n, <<>>, FALSE)
        /\ MeantParam(q, TRUE) = Made(k, "INT", n, <<>>, TRUE)
    BY <1>1, <1>6, MeantIs, ZenonT(60)
  <2>2. /\ Filled(h, Semicolon, v) = Made(k, "INT", n, <<>>, FALSE)
        /\ Filled(h, Comma, v) = Made(k, "INT", n, <<>>, TRUE)
    BY <1>1, <1>2, <1>3, <1>6, FillsValue, ZenonT(60)
  <2> QED BY <2>1, <2>2
<1>7. ASSUME v # <<>>, ~ IsNumber(v)
      PROVE  /\ Filled(h, Semicolon, v) = MeantParam(q, FALSE)
             /\ Filled(h, Comma, v) = MeantParam(q, TRUE)
  <2>1. /\ MeantParam(q, FALSE) = Made(k, "STRING", 0, v, FALSE)
        /\ MeantParam(q, TRUE) = Made(k, "STRING", 0, v, TRUE)
    BY <1>1, <1>7, MeantIs, ZenonT(60)
  <2>2. /\ Filled(h, Semicolon, v) = Made(k, "STRING", 0, v, FALSE)
        /\ Filled(h, Comma, v) = Made(k, "STRING", 0, v, TRUE)
    BY <1>1, <1>2, <1>3, <1>7, FillsValue
  <2> QED BY <2>1, <2>2
<1> QED BY <1>1, <1>3, <1>4, <1>5, <1>6, <1>7

\* A parameter has a value when it is read.
LEMMA MeantParamTyped ==
  ASSUME NEW q \in WritableParams, NEW isLast \in BOOLEAN
  PROVE  MeantParam(q, isLast) \in Closed
<1>1. q.name \in Texts /\ q.value \in Texts /\ <<>> \in Texts
  BY WrittenParamIs, TextFacts
<1>2. PICK n : n = Number(q.value)
  OBVIOUS
<1>3. CASE q.value = <<>>
  <2>1. MeantParam(q, isLast) = Made(q.name, "BOOL", 0, <<>>, isLast)
    BY <1>3, MeantIs, ZenonT(60)
  <2> QED BY <1>1, <2>1 DEF Closed, Open, Params, Made
<1>4. CASE q.value # <<>> /\ IsNumber(q.value)
  <2>1. n \in Nat
    BY <1>1, <1>2, <1>4, NumberFacts DEF Texts
  <2>2. MeantParam(q, isLast) = Made(q.name, "INT", n, <<>>, isLast)
    BY <1>2, <1>4, MeantIs, ZenonT(60)
  <2> QED BY <1>1, <2>1, <2>2 DEF Closed, Open, Params, Made
<1>5. CASE q.value # <<>> /\ ~ IsNumber(q.value)
  <2>1. MeantParam(q, isLast) = Made(q.name, "STRING", 0, q.value, isLast)
    BY <1>5, MeantIs, ZenonT(60)
  <2> QED BY <1>1, <2>1 DEF Closed, Open, Params, Made
<1> QED BY <1>3, <1>4, <1>5

\* Parameters that are ready are closed.
LEMMA MeantReadyTyped ==
  /\ Gives(NotLast, WritableParams, Closed)
  /\ \A ready \in Seq(WritableParams) :
       /\ MeantReady(ready) \in Seq(Closed) /\ Len(MeantReady(ready)) = Len(ready)
       /\ \A i \in 1 .. Len(ready) : MeantReady(ready)[i] = MeantParam(ready[i], FALSE)
<1>1. \A q \in WritableParams : NotLast[q] = MeantParam(q, FALSE)
  BY DEF NotLast
<1>2. Gives(NotLast, WritableParams, Closed)
  BY <1>1, MeantParamTyped DEF Gives
<1>3. ASSUME NEW ready \in Seq(WritableParams)
      PROVE  /\ MeantReady(ready) \in Seq(Closed) /\ Len(MeantReady(ready)) = Len(ready)
             /\ \A i \in 1 .. Len(ready) : MeantReady(ready)[i] = MeantParam(ready[i], FALSE)
  <2>1. /\ Map(NotLast, ready) \in Seq(Closed) /\ Len(Map(NotLast, ready)) = Len(ready)
        /\ \A i \in 1 .. Len(ready) : Map(NotLast, ready)[i] = NotLast[ready[i]]
    BY <1>2, MapFacts
  <2>2. \A i \in 1 .. Len(ready) : ready[i] \in WritableParams
    OBVIOUS
  <2> QED BY <1>1, <2>1, <2>2 DEF MeantReady
<1> QED BY <1>2, <1>3

\* What a further name fills, and what becomes of the part.
LEMMA PartReadFacts ==
  ASSUME NEW ready \in Seq(WritableParams)
  PROVE  /\ PartRead(ready) \in Seq(Params) /\ PartRead(ready) # <<>>
         /\ Pending(PartRead(ready)) = NewParam
         /\ \A x \in Params : WithParam(PartRead(ready), x) = Append(MeantReady(ready), x)
<1>1. PICK m \in Seq(Params) : m = MeantReady(ready) /\ m \in Seq(Closed) /\ Len(m) = Len(ready)
  BY MeantReadyTyped, ClosedFacts
<1>2. CASE ready = <<>>
  <2>1. PICK s \in Seq(Params) : s = << NewParam >>
    <3>1. << NewParam >> \in Seq(Params)
      BY NewParamTyped
    <3> QED BY <3>1
  <2>2. Len(s) = 1 /\ s[1] = NewParam /\ s # <<>>
    BY <2>1
  <2>3. EndsOpen(s) /\ Pending(s) = NewParam
    BY <2>2, NewParamTyped DEF EndsOpen, Pending
  <2>4. m = <<>>
    <3>1. Len(m) = 0
      BY <1>1, <1>2
    <3> QED BY <3>1, EmptySeq
  <2>5. ASSUME NEW x \in Params PROVE WithParam(s, x) = Append(m, x)
    <3>1. PICK w : w = [s EXCEPT ![1] = x]
      OBVIOUS
    <3>2. WithParam(s, x) = w
      BY <2>2, <2>3, <3>1 DEF WithParam, WithLast
    <3>3. w \in Seq(Params) /\ Len(w) = 1 /\ w[1] = x
      BY <2>2, <3>1, ExceptSeq
    <3>4. PICK v : v = Append(m, x)
      OBVIOUS
    <3>5. v \in Seq(Params) /\ Len(v) = 1 /\ v[1] = x
      BY <2>4, <3>4
    <3>6. \A i \in 1 .. 1 : w[i] = v[i]
      BY <3>3, <3>5
    <3>7. w = v
      BY <3>3, <3>5, <3>6, SeqEqual
    <3> QED BY <3>2, <3>4, <3>7
  <2> QED BY <1>1, <1>2, <2>1, <2>2, <2>3, <2>5 DEF PartRead
<1>3. CASE ready # <<>>
  <2>1. PartRead(ready) = m
    BY <1>1, <1>3 DEF PartRead
  <2>2. ~ EndsOpen(m)
    BY <1>1, ClosedFacts
  <2>3. m # <<>>
    <3>1. Len(ready) # 0
      BY <1>3, EmptySeq
    <3> QED BY <1>1, <3>1
  <2> QED BY <1>1, <2>1, <2>2, <2>3 DEF Pending, WithParam
<1> QED BY <1>2, <1>3

\* And a value.
LEMMA HalfFacts ==
  ASSUME NEW m \in Seq(Params), NEW q \in WritableParams
  PROVE  /\ Half(q) \in Params
         /\ Append(m, Half(q)) \in Seq(Params) /\ Append(m, Half(q)) # <<>>
         /\ Pending(Append(m, Half(q))) = Half(q)
         /\ \A x \in Params : WithParam(Append(m, Half(q)), x) = Append(m, x)
<1>1. PICK h \in Params : h = Half(q) /\ Open(h)
  BY HalfTyped
<1>2. PICK n \in Nat : n = Len(m)
  OBVIOUS
<1>3. PICK a : a = Append(m, h)
  OBVIOUS
<1>4. /\ a \in Seq(Params) /\ Len(a) = n + 1 /\ a[n + 1] = h /\ \A i \in 1 .. n : a[i] = m[i]
      /\ a # <<>>
  BY <1>2, <1>3, AppendProperties
<1>5. EndsOpen(a) /\ Pending(a) = h
  BY <1>1, <1>4 DEF EndsOpen, Pending
<1>6. ASSUME NEW x \in Params PROVE WithParam(a, x) = Append(m, x)
  <2>1. PICK k \in Nat : k = n + 1 /\ k \in 1 .. k /\ \A i \in 1 .. k : i # k => i \in 1 .. n
    <3>1. n + 1 \in Nat /\ n + 1 \in 1 .. n + 1
      BY <1>2
    <3>2. \A i \in 1 .. n + 1 : i # n + 1 => i \in 1 .. n
      BY <1>2
    <3> QED BY <3>1, <3>2
  <2>2. PICK w : w = [a EXCEPT ![k] = x]
    OBVIOUS
  <2>3. WithParam(a, x) = w
    BY <1>4, <1>5, <2>1, <2>2 DEF WithParam, WithLast
  <2>4. w \in Seq(Params) /\ Len(w) = k /\ w[k] = x /\ \A i \in 1 .. k : i # k => w[i] = a[i]
    BY <1>4, <2>1, <2>2, ExceptSeq
  <2>5. PICK v : v = Append(m, x)
    OBVIOUS
  <2>6. v \in Seq(Params) /\ Len(v) = k /\ v[k] = x /\ \A i \in 1 .. n : v[i] = m[i]
    BY <1>2, <2>1, <2>5, AppendProperties
  <2>7. \A i \in 1 .. k : w[i] = v[i]
    BY <1>4, <2>1, <2>4, <2>6
  <2>8. w = v
    BY <2>4, <2>6, <2>7, SeqEqual
  <2> QED BY <2>3, <2>5, <2>8
<1> QED BY <1>1, <1>3, <1>4, <1>5, <1>6

\* One parameter more that is not the last.
LEMMA ReadyAppend ==
  ASSUME NEW ready \in Seq(WritableParams), NEW q \in WritableParams
  PROVE  /\ MeantReady(Append(ready, q)) = Append(MeantReady(ready), MeantParam(q, FALSE))
         /\ PartRead(Append(ready, q)) = MeantReady(Append(ready, q))
<1>1. PICK n \in Nat : n = Len(ready)
  OBVIOUS
<1>2. PICK r : r = Append(ready, q)
  OBVIOUS
<1>3. /\ r \in Seq(WritableParams) /\ Len(r) = n + 1 /\ r[n + 1] = q /\ r # <<>>
      /\ \A i \in 1 .. n : r[i] = ready[i]
  BY <1>1, <1>2, AppendProperties
<1>4. PICK m \in Seq(Closed) : m = MeantReady(ready) /\ Len(m) = n
                               /\ \A i \in 1 .. n : m[i] = MeantParam(ready[i], FALSE)
  BY <1>1, MeantReadyTyped
<1>5. PICK x \in Closed : x = MeantParam(q, FALSE)
  BY MeantParamTyped
<1>6. PICK a : a = Append(m, x)
  OBVIOUS
<1>7. a \in Seq(Closed) /\ Len(a) = n + 1 /\ a[n + 1] = x /\ \A i \in 1 .. n : a[i] = m[i]
  BY <1>4, <1>6, AppendProperties
<1>8. PICK b \in Seq(Closed) : b = MeantReady(r) /\ Len(b) = n + 1
                               /\ \A i \in 1 .. n + 1 : b[i] = MeantParam(r[i], FALSE)
  BY <1>3, MeantReadyTyped
<1>9. \A i \in 1 .. n + 1 : b[i] = a[i]
  <2> TAKE i \in 1 .. n + 1
  <2>1. i = n + 1 \/ i \in 1 .. n
    OBVIOUS
  <2> QED BY <1>3, <1>4, <1>5, <1>7, <1>8, <2>1, ZenonT(60)
<1>10. b = a
  BY <1>7, <1>8, <1>9, SeqEqual
<1> QED BY <1>2, <1>3, <1>4, <1>5, <1>6, <1>8, <1>10 DEF PartRead

\* The last parameter makes the offer complete.
LEMMA MeantOfferIs ==
  ASSUME NEW o \in WritableOffers
  PROVE  /\ o.params = <<>> => MeantOffer(o) = << KeyParam(Comma, NewParam) >>
         /\ \A ready \in Seq(WritableParams), q \in WritableParams :
              o.params = Append(ready, q) =>
                MeantOffer(o) = Append(MeantReady(ready), MeantParam(q, TRUE))
<1>1. ASSUME o.params = <<>> PROVE MeantOffer(o) = << KeyParam(Comma, NewParam) >>
  BY <1>1 DEF MeantOffer, KeyParam, Comma
<1>2. ASSUME NEW ready \in Seq(WritableParams), NEW q \in WritableParams,
             o.params = Append(ready, q)
      PROVE  MeantOffer(o) = Append(MeantReady(ready), MeantParam(q, TRUE))
  <2>1. PICK n \in Nat : n = Len(ready)
    OBVIOUS
  <2>2. PICK r : r = o.params
    OBVIOUS
  <2>3. /\ r \in Seq(WritableParams) /\ Len(r) = n + 1 /\ r[n + 1] = q /\ r # <<>>
        /\ DOMAIN r = 1 .. n + 1 /\ \A i \in 1 .. n : r[i] = ready[i]
    BY <1>2, <2>1, <2>2, AppendProperties
  <2>4. PICK m \in Seq(Closed) : m = MeantReady(ready) /\ Len(m) = n
                                 /\ \A i \in 1 .. n : m[i] = MeantParam(ready[i], FALSE)
    BY <2>1, MeantReadyTyped
  <2>5. PICK x \in Closed : x = MeantParam(q, TRUE)
    BY MeantParamTyped
  <2>6. PICK a : a = Append(m, x)
    OBVIOUS
  <2>7. a \in Seq(Closed) /\ Len(a) = n + 1 /\ a[n + 1] = x /\ \A i \in 1 .. n : a[i] = m[i]
    BY <2>4, <2>6, AppendProperties
  <2>8. MeantOffer(o) = [i \in 1 .. n + 1 |-> MeantParam(r[i], i = n + 1)]
    BY <2>2, <2>3 DEF MeantOffer
  <2>9. PICK b : b = MeantOffer(o)
    OBVIOUS
  <2>10. \A i \in 1 .. n + 1 : b[i] = a[i]
    <3> TAKE i \in 1 .. n + 1
    <3>1. b[i] = MeantParam(r[i], i = n + 1)
      BY <2>8, <2>9
    <3>2. CASE i = n + 1
      <4>1. b[i] = MeantParam(q, TRUE)
        BY <2>3, <3>1, <3>2
      <4> QED BY <2>5, <2>7, <3>2, <4>1
    <3>3. CASE i # n + 1
      <4>1. i \in 1 .. n
        BY <3>3
      <4>2. b[i] = MeantParam(ready[i], FALSE)
        BY <2>3, <3>1, <3>3, <4>1
      <4> QED BY <2>4, <2>7, <4>1, <4>2
    <3> QED BY <3>2, <3>3
  <2>11. b \in Seq(Closed) /\ Len(b) = n + 1
    <3>1. DOMAIN b = 1 .. n + 1
      BY <2>8, <2>9
    <3>2. \A i \in 1 .. n + 1 : a[i] \in Closed
      BY <2>7
    <3>3. b \in [1 .. n + 1 -> Closed]
      BY <2>8, <2>9, <2>10, <3>1, <3>2
    <3>4. n + 1 \in Nat
      OBVIOUS
    <3> QED BY <3>3, <3>4, IsASeq, LenProperties
  <2>12. b = a
    BY <2>7, <2>10, <2>11, SeqEqual
  <2> QED BY <2>4, <2>5, <2>6, <2>9, <2>12
<1> QED BY <1>1, <1>2

-----------------------------------------------------------------------------
\* How far the request is read.

Headers == Seq(WritableOffers) \ {<<>>}
HeaderWriter == [offers \in Headers |-> WrittenHeader(offers)]

\* The offers in done are read, those in os are left of the header, and then
\* the headers in rest.
Ahead(done, os, rest) ==
  /\ done \in Seq(WritableOffers) /\ os \in Seq(WritableOffers) /\ rest \in Seq(Headers)
  /\ lines = Map(HeaderWriter, rest) /\ meant = done \o (os \o FlattenSeq(rest))

\* One sequence glued in front.
LEMMA FlattenHead ==
  ASSUME NEW S, NEW ss \in Seq(Seq(S)), ss # <<>>
  PROVE  FlattenSeq(ss) = Head(ss) \o FlattenSeq(Tail(ss))
<1>1. PICK x \in Seq(S), t \in Seq(Seq(S)) : x = Head(ss) /\ t = Tail(ss) /\ ss = <<x>> \o t
  BY FrontFacts
<1>2. PICK u \in Seq(Seq(S)) : u = <<x>>
  <2>1. <<x>> \in Seq(Seq(S))
    OBVIOUS
  <2> QED BY <2>1
<1>3. FlattenSeq(u \o t) = FlattenSeq(u) \o FlattenSeq(t)
  BY FlattenConcat
<1>4. FlattenSeq(u) = x
  <2>1. u = Append(<<>>, x)
    BY <1>2
  <2>2. FlattenSeq(Append(<<>>, x)) = FlattenSeq(<<>>) \o x
    BY EmptySeq, FlattenAppend
  <2>3. <<>> \o x = x
    BY ConcatEmptySeq
  <2> QED BY <2>1, <2>2, <2>3, FlattenEmpty
<1> QED BY <1>1, <1>2, <1>3, <1>4

\* An element at the end of a sequence.
LEMMA MapAppend ==
  ASSUME NEW S, NEW T, NEW F, Gives(F, S, T), NEW s \in Seq(S), NEW x \in S
  PROVE  Map(F, Append(s, x)) = Append(Map(F, s), F[x])
<1>1. PICK u \in Seq(S) : u = <<x>>
  <2>1. <<x>> \in Seq(S)
    OBVIOUS
  <2> QED BY <2>1
<1>2. Map(F, s \o u) = Map(F, s) \o Map(F, u)
  BY MapConcat
<1>3. Map(F, u) = << F[x] >>
  <2>1. DOMAIN u = 1 .. 1 /\ u[1] = x
    BY <1>1
  <2>2. Map(F, u) = [i \in 1 .. 1 |-> F[x]]
    BY <2>1 DEF Map
  <2>3. [i \in 1 .. 1 |-> F[x]] = << F[x] >>
    OBVIOUS
  <2> QED BY <2>2, <2>3
<1>4. Append(s, x) = s \o u
  BY <1>1, AppendIsConcat
<1>5. Map(F, s) \o << F[x] >> = Append(Map(F, s), F[x])
  <2>1. Map(F, s) \in Seq(T) /\ F[x] \in T
    BY MapFacts DEF Gives
  <2> QED BY <2>1, AppendIsConcat
<1> QED BY <1>2, <1>3, <1>4, <1>5

\* What offers mean, with every parameter closed.
LEMMA ContributionFacts ==
  /\ Gives(Contribution, WritableOffers, ClosedEntries)
  /\ \A ds \in Seq(WritableOffers) : Contributions(ds) \in Seq(ClosedEntries)
  /\ \A ds \in Seq(WritableOffers), o \in WritableOffers :
       Contributions(Append(ds, o)) = Append(Contributions(ds), Entry(o.token, MeantOffer(o)))
<1>1. ASSUME NEW o \in WritableOffers PROVE MeantOffer(o) \in Seq(Closed)
  <2>1. PICK ps \in Seq(WritableParams) : ps = o.params
    BY WrittenOfferIs, TextFacts
  <2>2. CASE ps = <<>>
    <3>1. PICK k : k = KeyParam(Comma, NewParam)
      OBVIOUS
    <3>2. k \in Closed
      <4>1. k = [NewParam EXCEPT !.type = "BOOL", !.isLast = TRUE]
        BY <3>1 DEF KeyParam, Comma
      <4> QED BY <4>1, NewParamTyped DEF Closed, Open, Params
    <3>3. << k >> \in Seq(Closed)
      BY <3>2
    <3> QED BY <2>1, <2>2, <3>1, <3>3, MeantOfferIs
  <2>3. CASE ps # <<>>
    <3>1. PICK n \in Nat : n = Len(ps) /\ DOMAIN ps = 1 .. n
      OBVIOUS
    <3>2. MeantOffer(o) = [i \in 1 .. n |-> MeantParam(ps[i], i = n)]
      BY <2>1, <2>3, <3>1 DEF MeantOffer
    <3>3. ASSUME NEW i \in 1 .. n PROVE MeantParam(ps[i], i = n) \in Closed
      <4>1. ps[i] \in WritableParams
        BY <3>1
      <4>2. PICK b \in BOOLEAN : b = (i = n)
        OBVIOUS
      <4> QED BY <4>1, <4>2, MeantParamTyped
    <3> QED BY <3>2, <3>3, IsASeq
  <2> QED BY <2>2, <2>3
<1>2. ASSUME NEW o \in WritableOffers
      PROVE  Contribution[o] = Entry(o.token, MeantOffer(o)) /\ Contribution[o] \in ClosedEntries
  <2>1. Contribution[o] = Entry(o.token, MeantOffer(o))
    BY DEF Contribution
  <2>2. o.token \in Texts
    BY WrittenOfferIs, TextFacts
  <2> QED BY <1>1, <2>1, <2>2 DEF Entry, ClosedEntries
<1>3. Gives(Contribution, WritableOffers, ClosedEntries)
  BY <1>2 DEF Gives
<1>4. \A ds \in Seq(WritableOffers) : Contributions(ds) \in Seq(ClosedEntries)
  BY <1>3, MapFacts DEF Contributions
<1>5. ASSUME NEW ds \in Seq(WritableOffers), NEW o \in WritableOffers
      PROVE  Contributions(Append(ds, o))
               = Append(Contributions(ds), Entry(o.token, MeantOffer(o)))
  <2>1. Map(Contribution, Append(ds, o)) = Append(Map(Contribution, ds), Contribution[o])
    BY <1>3, MapAppend
  <2> QED BY <1>2, <2>1 DEF Contributions
<1> QED BY <1>3, <1>4, <1>5

\* An offer is read.
LEMMA AheadOffer ==
  ASSUME NEW done, NEW os, NEW rest, Ahead(done, os, rest), os # <<>>
  PROVE  /\ Ahead(Append(done, Head(os)), Tail(os), rest)
         /\ Head(os) \in WritableOffers /\ Tail(os) \in Seq(WritableOffers)
<1>1. done \in Seq(WritableOffers) /\ os \in Seq(WritableOffers) /\ rest \in Seq(Headers)
  BY DEF Ahead
<1>2. PICK o \in WritableOffers, t \in Seq(WritableOffers) :
        o = Head(os) /\ t = Tail(os) /\ os = <<o>> \o t
  BY <1>1, FrontFacts
<1>3. PICK u \in Seq(WritableOffers) : u = <<o>>
  <2>1. <<o>> \in Seq(WritableOffers)
    OBVIOUS
  <2> QED BY <2>1
<1>4. PICK r \in Seq(WritableOffers) : r = FlattenSeq(rest)
  <2>1. rest \in Seq(Seq(WritableOffers))
    <3>1. Headers \subseteq Seq(WritableOffers)
      BY DEF Headers
    <3> QED BY <1>1, <3>1, SeqMonotonic
  <2> QED BY <2>1, FlattenTyped
<1>5. (u \o t) \o r = u \o (t \o r)
  BY ConcatAssociative
<1>6. PICK tr \in Seq(WritableOffers) : tr = t \o r
  BY ConcatProperties
<1>7. done \o (u \o tr) = (done \o u) \o tr
  <2>1. PICK d \in Seq(WritableOffers) : d = done
    BY <1>1
  <2>2. (d \o u) \o tr = d \o (u \o tr)
    BY ConcatAssociative, SMTT(30)
  <2> QED BY <2>1, <2>2
<1>8. Append(done, o) = done \o u /\ Append(done, o) \in Seq(WritableOffers)
  BY <1>1, <1>3, AppendIsConcat
<1>9. meant = Append(done, o) \o (t \o r)
  BY <1>2, <1>3, <1>4, <1>5, <1>6, <1>7, <1>8 DEF Ahead
<1> QED BY <1>1, <1>2, <1>4, <1>8, <1>9 DEF Ahead

\* A header is taken: it is written, and its first offer is in front of the parser.
LEMMA AheadHeader ==
  ASSUME NEW done, NEW rest, Ahead(done, <<>>, rest), rest # <<>>
  PROVE  /\ lines # <<>> /\ Head(rest) \in Seq(WritableOffers) /\ Head(rest) # <<>>
         /\ Head(lines) = WrittenHeader(Head(rest)) /\ Tail(rest) \in Seq(Headers)
         /\ Tail(lines) = Map(HeaderWriter, Tail(rest))
         /\ meant = done \o (Head(rest) \o FlattenSeq(Tail(rest)))
<1>1. done \in Seq(WritableOffers) /\ rest \in Seq(Headers)
  BY DEF Ahead
<1>2. PICK h \in Headers, t \in Seq(Headers) : h = Head(rest) /\ t = Tail(rest)
  BY <1>1, FrontFacts
<1>3. h \in Seq(WritableOffers) /\ h # <<>>
  BY DEF Headers
<1>4. rest \in Seq(Seq(WritableOffers)) /\ t \in Seq(Seq(WritableOffers))
  <2>1. Headers \subseteq Seq(WritableOffers)
    BY DEF Headers
  <2> QED BY <1>1, <2>1, SeqMonotonic
<1>5. FlattenSeq(rest) = h \o FlattenSeq(t)
  BY <1>2, <1>4, FlattenHead
<1>6. meant = done \o FlattenSeq(rest)
  <2>1. <<>> \o FlattenSeq(rest) = FlattenSeq(rest)
    BY <1>4, FlattenTyped, ConcatEmptySeq
  <2> QED BY <2>1 DEF Ahead
<1>7. Gives(HeaderWriter, Headers, Texts)
  <2>1. \A x \in Headers : x \in Seq(WritableOffers) /\ HeaderWriter[x] = WrittenHeader(x)
    BY DEF Headers, HeaderWriter
  <2> QED BY <2>1, WrittenHeaderTyped DEF Gives
<1>8. lines \in Seq(Texts) /\ Len(lines) = Len(rest)
      /\ \A i \in 1 .. Len(rest) : lines[i] = HeaderWriter[rest[i]]
  BY <1>1, <1>7, MapFacts, SMTT(30) DEF Ahead
<1>9. PICK n \in Nat : Len(rest) = n + 1
  <2>1. Len(rest) \in Nat /\ Len(rest) # 0
    BY <1>1, EmptySeq
  <2>2. Len(rest) - 1 \in Nat /\ Len(rest) = (Len(rest) - 1) + 1
    BY <2>1
  <2> QED BY <2>2
<1>10. lines # <<>> /\ Head(lines) = WrittenHeader(h)
  <2>1. 1 \in 1 .. n + 1
    OBVIOUS
  <2>2. lines[1] = HeaderWriter[h]
    BY <1>1, <1>2, <1>8, <1>9, <2>1
  <2>3. lines # <<>>
    BY <1>8, <1>9
  <2>4. HeaderWriter[h] = WrittenHeader(h)
    BY DEF HeaderWriter
  <2> QED BY <1>8, <2>2, <2>3, <2>4
<1>11. Tail(lines) = Map(HeaderWriter, t)
  <2>1. PICK a : a = Tail(lines)
    OBVIOUS
  <2>2. a \in Seq(Texts) /\ Len(a) = n /\ \A i \in 1 .. n : a[i] = lines[i + 1]
    BY <1>8, <1>9, <1>10, <2>1
  <2>3. PICK b \in Seq(Texts) : b = Map(HeaderWriter, t)
    BY <1>7, MapFacts
  <2>4. Len(t) = n /\ \A i \in 1 .. n : t[i] = rest[i + 1]
    BY <1>1, <1>2, <1>9
  <2>5. Len(b) = n /\ \A i \in 1 .. n : b[i] = HeaderWriter[t[i]]
    BY <1>7, <2>3, <2>4, MapFacts
  <2>6. \A i \in 1 .. n : i + 1 \in 1 .. n + 1
    OBVIOUS
  <2>7. \A i \in 1 .. n : a[i] = b[i]
    BY <1>8, <1>9, <2>2, <2>4, <2>5, <2>6
  <2> QED BY <2>1, <2>2, <2>3, <2>5, <2>7, SeqEqual
<1> QED BY <1>2, <1>3, <1>5, <1>6, <1>10, <1>11

\* No header is left when no line is.
LEMMA AheadNone ==
  ASSUME NEW done, NEW rest, Ahead(done, <<>>, rest), lines = <<>>
  PROVE  meant = done
<1>1. rest = <<>>
  BY AheadHeader
<1>2. done \o (<<>> \o <<>>) = done
  <2>1. <<>> \o <<>> = <<>>
    OBVIOUS
  <2>2. done \in Seq(WritableOffers)
    BY DEF Ahead
  <2>3. done \o <<>> = done
    BY <2>2, ConcatEmptySeq
  <2> QED BY <2>1, <2>3
<1> QED BY <1>1, <1>2, FlattenEmpty DEF Ahead

-----------------------------------------------------------------------------
\* Where the parser is in a request, and what the list holds of it.

\* Between two headers.
AtHeader(done, rest) ==
  p = 0 /\ Ahead(done, <<>>, rest) /\ Tells(list, Contributions(done))

\* At the name of the extension that is first in os.
AtName(done, os, rest) ==
  /\ ~ hasExtension /\ os # <<>> /\ Ahead(done, os, rest) /\ Tells(list, Contributions(done))
  /\ AtToken(Head(os).token, FALSE, Follow(Head(os).params, Tail(os)))

\* In the parameters of that offer: some are ready, some are left.
InOffer(done, os, rest, ready, left) ==
  /\ hasExtension /\ os # <<>> /\ Ahead(done, os, rest)
  /\ ready \in Seq(WritableParams) /\ left \in Seq(WritableParams) /\ left # <<>>
  /\ Head(os).params = ready \o left
  /\ current[1] \in DOMAIN list /\ list[current[1]].token = Head(os).token

\* What is told of the request, when params are what is read of the first of os.
SoFar(done, os, params) == Append(Contributions(done), Entry(Head(os).token, params))

\* At the name of a parameter.
AtParam(done, os, rest, ready, left) ==
  /\ InOffer(done, os, rest, ready, left) /\ Tells(list, SoFar(done, os, PartRead(ready)))
  /\ AtToken(Head(left).name, FALSE, WrittenValue(Head(left)) \o Follow(Tail(left), Tail(os)))

\* At the value of one.
AtValue(done, os, rest, ready, left) ==
  /\ InOffer(done, os, rest, ready, left) /\ Head(left).value # <<>>
  /\ Tells(list, SoFar(done, os, Append(MeantReady(ready), Half(Head(left)))))
  /\ AtToken(Head(left).value, Head(left).quoted, Follow(Tail(left), Tail(os)))

\* The name of an extension at which it is is whole.
LEMMA NameWhole ==
  ASSUME NEW done, NEW os, NEW rest, Ahead(done, os, rest), os # <<>>
  PROVE  /\ IsWhole(Head(os).token, FALSE, Follow(Head(os).params, Tail(os)))
         /\ IsToken(Head(os).token) /\ Head(os).token \in Texts
         /\ Head(os).params \in Seq(WritableParams)
<1>1. PICK o \in WritableOffers, t \in Seq(WritableOffers) : o = Head(os) /\ t = Tail(os)
  BY AheadOffer
<1>2. o.token \in Plain /\ IsToken(o.token)
  BY DEF WritableOffers
<1>3. o.params \in Seq(WritableParams) /\ o.token \in Texts
  BY <1>2, TextFacts DEF WritableOffers
<1>4. BeginsNext(Follow(o.params, t))
  BY <1>3, FollowBegins
<1>5. IsWhole(o.token, FALSE, Follow(o.params, t))
  BY <1>2, <1>4, PlainWhole
<1> QED BY <1>1, <1>2, <1>3, <1>5

\* So are the name and the value of a parameter.
LEMMA PartsWhole ==
  ASSUME NEW done, NEW os, NEW rest, NEW ready, NEW left, InOffer(done, os, rest, ready, left)
  PROVE  /\ Head(left) \in WritableParams /\ Tail(left) \in Seq(WritableParams)
         /\ IsWhole(Head(left).name, FALSE,
                    WrittenValue(Head(left)) \o Follow(Tail(left), Tail(os)))
         /\ IsToken(Head(left).name)
         /\ Head(left).value # <<>> =>
              /\ IsWhole(Head(left).value, Head(left).quoted, Follow(Tail(left), Tail(os)))
              /\ IsToken(Head(left).value)
<1>1. left \in Seq(WritableParams) /\ left # <<>> /\ Ahead(done, os, rest) /\ os # <<>>
  BY DEF InOffer
<1>2. PICK h \in WritableParams, tl \in Seq(WritableParams) : h = Head(left) /\ tl = Tail(left)
  BY <1>1, FrontFacts
<1>3. PICK t \in Seq(WritableOffers) : t = Tail(os)
  BY <1>1, AheadOffer
<1>4. PICK f : f = Follow(tl, t) /\ BeginsNext(f)
  BY FollowBegins
<1>5. BeginsNext(WrittenValue(h) \o f)
  BY <1>4, ValueBegins
<1>6. h.name \in Plain /\ IsToken(h.name)
  BY DEF WritableParams
<1>7. IsWhole(h.name, FALSE, WrittenValue(h) \o f)
  BY <1>5, <1>6, PlainWhole
<1>8. h.value # <<>> => IsWhole(h.value, h.quoted, f) /\ IsToken(h.value)
  BY <1>4, ValueWhole
<1> QED BY <1>2, <1>3, <1>4, <1>6, <1>7, <1>8

\* A token that is not quoted is written as it is.
LEMMA NotQuoted == \A t : QuotedIf(FALSE, t) = t
BY Zenon DEF QuotedIf

\* A header of the peer is not refused: the parser is at the first name.
LEMMA HeaderTaken ==
  ASSUME NInv, NextHeader, NEW done, NEW rest, AtHeader(done, rest)
  PROVE  Reading' /\ AtName(done, Head(rest), Tail(rest))'
<1>1. lines # <<>> /\ line' = Head(lines) /\ lines' = Tail(lines) /\ meant' = meant
      /\ start' = 0 /\ length' = 0 /\ inQuote' = FALSE /\ hasExtension' = FALSE
  BY DEF NextHeader
<1>2. done \in Seq(WritableOffers) /\ rest \in Seq(Headers) /\ lines = Map(HeaderWriter, rest)
  BY DEF AtHeader, Ahead
<1>3. rest # <<>>
  <2> SUFFICES ASSUME rest = <<>> PROVE FALSE
    OBVIOUS
  <2>1. Map(HeaderWriter, <<>>) = <<>>
    BY DEF Map
  <2> QED BY <1>1, <1>2, <2>1
<1>4. /\ Head(rest) \in Seq(WritableOffers) /\ Head(rest) # <<>>
      /\ Head(lines) = WrittenHeader(Head(rest)) /\ Tail(rest) \in Seq(Headers)
      /\ Tail(lines) = Map(HeaderWriter, Tail(rest))
      /\ meant = done \o (Head(rest) \o FlattenSeq(Tail(rest)))
  BY <1>3, AheadHeader DEF AtHeader
<1>5. PICK os \in Seq(WritableOffers) : os = Head(rest) /\ os # <<>>
  BY <1>4
<1>6. PICK tl \in Seq(Headers) : tl = Tail(rest)
  BY <1>4
<1>7. PICK o \in WritableOffers, t \in Seq(WritableOffers) : o = Head(os) /\ t = Tail(os)
  BY <1>5, FrontFacts
<1>8. /\ o.token \in Plain /\ IsToken(o.token) /\ o.params \in Seq(WritableParams)
      /\ o.token \in Texts /\ o.space \in Nat
  BY TextFacts DEF WritableOffers
<1>9. PICK f : f = Follow(o.params, t)
  OBVIOUS
<1>10. BeginsNext(f)
  BY <1>8, <1>9, FollowBegins
<1>11. IsWhole(o.token, FALSE, f)
  BY <1>8, <1>10, PlainWhole
<1>12. line' = Spaces(o.space) \o (o.token \o f)
  BY <1>1, <1>4, <1>5, <1>7, <1>9, WrittenHeaderIs
<1>13. PICK first : first = LetterAt(line', Blank)
  OBVIOUS
<1>14. first = o.space + 1 /\ Unread(line', o.space + 1) = o.token \o f
       /\ line'[o.space + 1] \notin Separators
  <2>1. PICK k \in Nat : k = o.space
    BY <1>8
  <2>2. PICK w : w = o.token
    OBVIOUS
  <2>3. PICK text : text = line'
    OBVIOUS
  <2>4. PICK front : front = w \o f
    OBVIOUS
  <2>5. IsWhole(w, FALSE, f) /\ text = Spaces(k) \o front
    BY <1>11, <1>12, <2>1, <2>2, <2>3, <2>4
  <2>6. LetterAt(text, Blank) = k + 1
    BY <2>4, <2>5, FirstToken
  <2>7. Unread(text, k + 1) = front
    BY <2>4, <2>5, FirstToken
  <2>8. text[k + 1] \notin Separators
    BY <2>4, <2>5, FirstToken
  <2> QED BY <1>13, <2>1, <2>2, <2>3, <2>4, <2>6, <2>7, <2>8
<1>15. p' = first /\ list' = list /\ answer' = answer
  <2>1. first = LetterAt(line', " ")
    BY <1>13, Zenon DEF Blank
  <2>2. IsInvalid(first) \/ (p' = first /\ list' = list /\ answer' = answer)
    BY <2>1 DEF NextHeader, LetterAt
  <2>3. ~ IsInvalid(first)
    <3>1. first # 0 /\ line'[first] \notin Separators
      BY <1>8, <1>14
    <3>2. "," \in Separators /\ ";" \in Separators
      BY DEF Separators
    <3> QED BY <3>1, <3>2, Zenon DEF IsInvalid
  <2> QED BY <2>2, <2>3
<1>16. AtToken(o.token, FALSE, f)'
  <2>1. p' # 0 /\ Unread(line', p') = o.token \o f
    BY <1>8, <1>14, <1>15
  <2>2. QuotedIf(FALSE, o.token) = o.token
    BY NotQuoted
  <2>3. Spaces(0) \o (o.token \o f) = o.token \o f
    <3>1. o.token \o f \in Texts
      BY <1>8, <1>10, TextsGlued DEF BeginsNext
    <3> QED BY <3>1, SpacesFacts, ConcatEmptySeq DEF Texts
  <2>4. Unread(line', p') = Spaces(0) \o (QuotedIf(FALSE, o.token) \o f)
    BY <2>1, <2>2, <2>3
  <2>5. Before(o.token, FALSE, f)'
    BY <1>1, <2>4 DEF Before
  <2> QED BY <2>1, <2>5 DEF AtToken
<1>17. Ahead(done, os, tl)'
  BY <1>1, <1>2, <1>4, <1>5, <1>6 DEF Ahead
<1>18. Tells(list, Contributions(done))'
  BY <1>15 DEF AtHeader
<1>19. AtName(done, os, tl)'
  BY <1>1, <1>5, <1>7, <1>9, <1>16, <1>17, <1>18 DEF AtName
<1>20. Reading'
  BY <1>15 DEF NextHeader, Reading
<1> QED BY <1>5, <1>6, <1>19, <1>20

\* A step that ends no token stays where it is.
LEMMA LetterTaken ==
  ASSUME NInv, Quote \/ SkipSpace \/ TakeLetter,
         NEW done, NEW os, NEW rest, NEW ready, NEW left
  PROVE  /\ AtName(done, os, rest) => AtName(done, os, rest)'
         /\ AtParam(done, os, rest, ready, left) => AtParam(done, os, rest, ready, left)'
         /\ AtValue(done, os, rest, ready, left) => AtValue(done, os, rest, ready, left)'
<1>1. /\ meant' = meant /\ lines' = lines /\ hasExtension' = hasExtension
      /\ list' = list /\ current' = current
  BY MovesOn
<1>2. ScanInOrder
  BY DEF NInv
<1>3. Ahead(done, os, rest) => Ahead(done, os, rest)'
  BY <1>1 DEF Ahead
<1>4. InOffer(done, os, rest, ready, left) => InOffer(done, os, rest, ready, left)'
  BY <1>1, <1>3 DEF InOffer
<1>5. ASSUME NEW t, NEW quoted, NEW f, IsWhole(t, quoted, f), AtToken(t, quoted, f)
      PROVE  AtToken(t, quoted, f)'
  BY <1>2, <1>5, TokenStep
<1>6. AtName(done, os, rest) => AtName(done, os, rest)'
  <2> SUFFICES ASSUME AtName(done, os, rest) PROVE AtName(done, os, rest)'
    OBVIOUS
  <2>1. AtToken(Head(os).token, FALSE, Follow(Head(os).params, Tail(os)))'
    BY <1>5, NameWhole DEF AtName
  <2> QED BY <1>1, <1>3, <2>1 DEF AtName
<1>7. AtParam(done, os, rest, ready, left) => AtParam(done, os, rest, ready, left)'
  <2> SUFFICES ASSUME AtParam(done, os, rest, ready, left)
               PROVE  AtParam(done, os, rest, ready, left)'
    OBVIOUS
  <2>1. AtToken(Head(left).name, FALSE,
                WrittenValue(Head(left)) \o Follow(Tail(left), Tail(os)))'
    BY <1>5, PartsWhole DEF AtParam
  <2> QED BY <1>1, <1>4, <2>1 DEF AtParam
<1>8. AtValue(done, os, rest, ready, left) => AtValue(done, os, rest, ready, left)'
  <2> SUFFICES ASSUME AtValue(done, os, rest, ready, left)
               PROVE  AtValue(done, os, rest, ready, left)'
    OBVIOUS
  <2>1. AtToken(Head(left).value, Head(left).quoted, Follow(Tail(left), Tail(os)))'
    BY <1>5, PartsWhole DEF AtValue
  <2> QED BY <1>1, <1>4, <2>1 DEF AtValue
<1> QED BY <1>6, <1>7, <1>8

-----------------------------------------------------------------------------
\* The end of a name or a value.

\* A line does not end within a token.
LEMMA LineEndsOutside ==
  ASSUME ScanInOrder, NEW t, NEW quoted, NEW f, IsWhole(t, quoted, f),
         AtToken(t, quoted, f), p > Len(line)
  PROVE  ~ inQuote
<1>1. p # 0 /\ quoted \in BOOLEAN /\ t \in Texts /\ f \in Texts
  BY DEF AtToken, IsWhole
<1>2. Len(line) \in Nat /\ p \in Nat
  BY TextLength DEF ScanInOrder
<1>3. ASSUME NEW c \in Alphabet, NEW v \in Texts, Unread(line, p) = <<c>> \o v
      PROVE  FALSE
  <2>1. p \in 1 .. Len(line)
    BY <1>1, <1>3, NextIs
  <2> QED BY <1>2, <2>1
<1>4. CASE Inside(t, quoted, f)
  <2>1. ~ AtLetter(t, quoted, f)
    <3> SUFFICES ASSUME AtLetter(t, quoted, f) PROVE FALSE
      OBVIOUS
    <3>1. PICK k : k = length + 1 /\ k + 1 = length + 2
      BY DEF AtLetter
    <3>2. k \in 1 .. Len(t) /\ k + 1 \in 1 .. Len(t) + 1 /\ k \in 1 .. Len(t) + 1
      BY <1>1, <3>1, TextLength DEF AtLetter
    <3>3. t[k] \in Alphabet
      BY <1>1, <3>2, UnreadFacts
    <3>4. PICK v \in Texts : v = Unread(t, k + 1) \o (ClosingIf(quoted) \o f)
      BY <1>1, <3>2, UnreadFacts, QuotedFront, TextsGlued
    <3>5. Unread(line, p) = <<t[k]>> \o v
      BY <3>1, <3>4 DEF AtLetter
    <3> QED BY <1>3, <3>3, <3>5
  <2>2. ~ AtClosing(t, quoted, f)
    BY <1>1, <1>3, LetterKinds DEF AtClosing
  <2> QED BY <1>4, <2>1, <2>2, InsideCases DEF Behind
<1> QED BY <1>4 DEF AtToken, Before, Behind

\* A token that ends is what was written, and neither empty nor too long; it ends
\* at the first character of what follows it, or at the end of the line.
LEMMA TokenRead ==
  ASSUME ScanInOrder, NEW t, NEW quoted, NEW f, IsWhole(t, quoted, f), IsToken(t),
         AtToken(t, quoted, f),
         p > Len(line) \/ (~ inQuote /\ p \in DOMAIN line /\ line[p] \in Separators)
  PROVE  /\ Behind(t, f) /\ p # 0 /\ ~ inQuote /\ Text = t /\ t \in Texts /\ t # <<>>
         /\ start # 0 /\ length # 0 /\ ~ TooLong
         /\ p \in DOMAIN line => f # <<>> /\ line[p] = f[1]
         /\ p > Len(line) => f = <<>>
<1>1. t \in Texts /\ p # 0
  BY DEF IsWhole, AtToken
<1>2. ~ inQuote
  BY LineEndsOutside
<1>3. Behind(t, f)
  BY <1>2, TokenEnds
<1>4. t # <<>> /\ Len(t) # 0 /\ ~ (Len(t) > TokenLength)
  BY <1>1, TokenFacts
<1>5. length = Len(t) /\ Text = t
  BY <1>3 DEF Behind
<1>6. length # 0 /\ start # 0 /\ ~ TooLong
  BY <1>4, <1>5 DEF ScanInOrder, TooLong
<1>7. /\ p \in DOMAIN line => f # <<>> /\ line[p] = f[1]
      /\ f = <<>> <=> p \notin DOMAIN line
  BY <1>1, <1>3, BehindIsSeparator
<1>8. p > Len(line) => p \notin DOMAIN line
  <2>1. DOMAIN line = 1 .. Len(line) /\ Len(line) \in Nat /\ p \in Nat
    BY TextLength DEF ScanInOrder
  <2> QED BY <2>1
<1> QED BY <1>1, <1>2, <1>3, <1>4, <1>5, <1>6, <1>7, <1>8

\* A separator outside of quotes.
LEMMA SeparatorIs ==
  ASSUME NEW c, Separator(c)
  PROVE  /\ c \in Separators /\ ~ inQuote
         /\ p \in DOMAIN line /\ line[p] = c /\ line[p] \in Separators
BY DEF Separator, At

\* What follows the parameters ps and the offers os begins with a semicolon if
\* there are parameters, with a comma if there are only offers.
LEMMA FollowFirst ==
  ASSUME NEW ps \in Seq(WritableParams), NEW os \in Seq(WritableOffers)
  PROVE  /\ Follow(ps, os) # <<>> /\ Follow(ps, os)[1] = Semicolon => ps # <<>>
         /\ Follow(ps, os) # <<>> /\ Follow(ps, os)[1] = Comma => ps = <<>> /\ os # <<>>
         /\ Follow(ps, os) # <<>> => Follow(ps, os)[1] # Equals
         /\ Follow(ps, os) = <<>> => ps = <<>> /\ os = <<>>
<1>1. CASE ps # <<>>
  <2>1. PICK h \in WritableParams, tl \in Seq(WritableParams) : h = Head(ps) /\ tl = Tail(ps)
    BY <1>1, FrontFacts
  <2>2. PICK g \in Texts : g = Follow(tl, os)
    BY FollowTyped
  <2>3. PICK w \in Texts : w = WrittenValue(h) \o g
    BY WrittenParamIs, TextsGlued
  <2>4. PICK v \in Texts : v = h.name \o w
    BY WrittenParamIs, TextsGlued, ZenonT(60)
  <2>5. PICK u \in Texts : u = Spaces(h.space) \o v
    BY WrittenParamIs, SpacesFacts, TextsGlued, ZenonT(60)
  <2>6. Follow(ps, os) = <<Semicolon>> \o u
    BY <1>1, <2>1, <2>2, <2>3, <2>4, <2>5, FollowIs
  <2>7. Follow(ps, os) # <<>> /\ Follow(ps, os)[1] = Semicolon
    BY <2>6, SeparatorInFront, SeparatorFacts
  <2> QED BY <1>1, <2>7, SeparatorFacts
<1>2. CASE ps = <<>> /\ os # <<>>
  <2>1. PICK o \in WritableOffers, tl \in Seq(WritableOffers) : o = Head(os) /\ tl = Tail(os)
    BY <1>2, FrontFacts
  <2>2. o.params \in Seq(WritableParams) /\ o.token \in Texts /\ o.space \in Nat
    BY WrittenOfferIs, TextFacts
  <2>3. PICK g \in Texts : g = Follow(o.params, tl)
    BY <2>2, FollowTyped
  <2>4. PICK v \in Texts : v = o.token \o g
    BY <2>2, TextsGlued, ZenonT(60)
  <2>5. PICK u \in Texts : u = Spaces(o.space) \o v
    BY <2>2, SpacesFacts, TextsGlued
  <2>6. Follow(ps, os) = <<Comma>> \o u
    BY <1>2, <2>1, <2>3, <2>4, <2>5, FollowIs
  <2>7. Follow(ps, os) # <<>> /\ Follow(ps, os)[1] = Comma
    BY <2>6, SeparatorInFront, SeparatorFacts
  <2> QED BY <1>2, <2>7, SeparatorFacts
<1>3. CASE ps = <<>> /\ os = <<>>
  BY <1>3, FollowIs
<1> QED BY <1>1, <1>2, <1>3

\* Behind a semicolon the name of the first parameter comes.
LEMMA AfterSemicolon ==
  ASSUME ScanInOrder, p # 0, NEW t, NEW ps \in Seq(WritableParams), ps # <<>>,
         NEW os \in Seq(WritableOffers), Behind(t, Follow(ps, os)),
         p' = p + 1, line' = line, start' = 0, length' = 0, inQuote' = inQuote
  PROVE  AtToken(Head(ps).name, FALSE, WrittenValue(Head(ps)) \o Follow(Tail(ps), os))'
<1>1. PICK h \in WritableParams, tl \in Seq(WritableParams) : h = Head(ps) /\ tl = Tail(ps)
  BY FrontFacts
<1>2. PICK w \in Texts : w = WrittenValue(h) \o Follow(tl, os)
  <2>1. PICK g \in Texts : g = Follow(tl, os)
    BY FollowTyped
  <2>2. WrittenValue(h) \o g \in Texts
    BY WrittenParamIs, TextsGlued
  <2> QED BY <2>1, <2>2
<1>3. PICK k \in Nat : k = h.space
  BY WrittenParamIs, TextFacts
<1>4. PICK u \in Texts : u = h.name
  BY WrittenParamIs, TextFacts
<1>5. PICK f : f = Follow(ps, os)
  OBVIOUS
<1>6. f = <<Semicolon>> \o (Spaces(k) \o (u \o w))
  BY <1>1, <1>2, <1>3, <1>4, <1>5, FollowIs
<1>7. u = QuotedIf(FALSE, u)
  BY NotQuoted
<1>8. AtToken(u, FALSE, w)'
  <2>1. Semicolon \in Separators /\ FALSE \in BOOLEAN
    BY SeparatorFacts
  <2> QED BY <1>5, <1>6, <1>7, <2>1, SeparatorStep
<1> QED BY <1>1, <1>2, <1>4, <1>8

\* Behind a comma, the name of the next extension.
LEMMA AfterComma ==
  ASSUME ScanInOrder, p # 0, NEW t, NEW os \in Seq(WritableOffers), os # <<>>,
         Behind(t, Follow(<<>>, os)),
         p' = p + 1, line' = line, start' = 0, length' = 0, inQuote' = inQuote
  PROVE  AtToken(Head(os).token, FALSE, Follow(Head(os).params, Tail(os)))'
<1>1. PICK o \in WritableOffers, tl \in Seq(WritableOffers) : o = Head(os) /\ tl = Tail(os)
  BY FrontFacts
<1>2. o.params \in Seq(WritableParams) /\ o.token \in Texts /\ o.space \in Nat
  BY WrittenOfferIs, TextFacts
<1>3. PICK w \in Texts : w = Follow(o.params, tl)
  BY <1>2, FollowTyped
<1>4. PICK k \in Nat : k = o.space
  BY <1>2
<1>5. PICK u \in Texts : u = o.token
  BY <1>2
<1>6. PICK f : f = Follow(<<>>, os)
  OBVIOUS
<1>7. f = <<Comma>> \o (Spaces(k) \o (u \o w))
  <2>1. <<>> \in Seq(WritableParams)
    OBVIOUS
  <2> QED BY <1>1, <1>3, <1>4, <1>5, <1>6, <2>1, FollowIs
<1>8. u = QuotedIf(FALSE, u)
  BY NotQuoted
<1>9. AtToken(u, FALSE, w)'
  <2>1. Comma \in Separators /\ FALSE \in BOOLEAN
    BY SeparatorFacts
  <2> QED BY <1>6, <1>7, <1>8, <2>1, SeparatorStep
<1> QED BY <1>1, <1>3, <1>5, <1>9

\* Behind the "=" the value.
LEMMA AfterEquals ==
  ASSUME ScanInOrder, p # 0, NEW t, NEW q \in WritableParams, q.value # <<>>, NEW g \in Texts,
         NEW f, f = WrittenValue(q) \o g, Behind(t, f),
         p' = p + 1, line' = line, start' = 0, length' = 0, inQuote' = inQuote
  PROVE  AtToken(q.value, q.quoted, g)'
<1>1. PICK k \in Nat : k = q.valueSpace
  BY WrittenParamIs, TextFacts
<1>2. PICK u \in Texts : u = q.value
  BY WrittenParamIs, TextFacts
<1>3. PICK quoted \in BOOLEAN : quoted = q.quoted
  BY DEF WritableParams
<1>4. PICK w \in Texts : w = QuotedIf(quoted, u)
  BY QuotedFront
<1>5. f = <<Equals>> \o (Spaces(k) \o (w \o g))
  BY <1>1, <1>2, <1>3, <1>4, WrittenValueIs
<1>6. AtToken(u, quoted, g)'
  <2>1. Equals \in Separators
    BY SeparatorFacts
  <2>2. CASE quoted = TRUE
    <3>1. w = QuotedIf(TRUE, u)
      BY <1>4, <2>2
    <3>2. AtToken(u, TRUE, g)'
      <4>1. TRUE \in BOOLEAN
        OBVIOUS
      <4> QED BY <1>5, <2>1, <3>1, <4>1, SeparatorStep
    <3> QED BY <2>2, <3>2
  <2>3. CASE quoted = FALSE
    <3>1. w = QuotedIf(FALSE, u)
      BY <1>4, <2>3
    <3>2. AtToken(u, FALSE, g)'
      <4>1. FALSE \in BOOLEAN
        OBVIOUS
      <4> QED BY <1>5, <2>1, <3>1, <4>1, SeparatorStep
    <3> QED BY <2>3, <3>2
  <2> QED BY <2>2, <2>3
<1> QED BY <1>2, <1>3, <1>6

-----------------------------------------------------------------------------
\* The end of the name of an extension.

\* What a separator behind a name does.
LEMMA EndExtensionIs ==
  ASSUME NEW c, EndExtension(c), ~ TooLong, length # 0, c # Equals
  PROVE  /\ AddExtension(c) /\ NewToken /\ Step /\ Separator(c)
         /\ c = Comma => ~ hasExtension'
         /\ c # Comma => hasExtension'
BY DEF EndExtension, Equals, Comma

\* The extension is listed, with what stands for it.
LEMMA ExtensionListed ==
  ASSUME NInv, NEW done, NEW os, NEW rest, AtName(done, os, rest), NEW c, AddExtension(c),
         Text = Head(os).token
  PROVE  /\ Tells(list', Append(Contributions(done),
                                Entry(Head(os).token, << KeyParam(c, NewParam) >>)))
         /\ current'[1] \in DOMAIN list' /\ list'[current'[1]].token = Head(os).token
<1>1. done \in Seq(WritableOffers) /\ Tells(list, Contributions(done)) /\ ListInOrder(list)
  BY DEF AtName, Ahead, Tells
<1>2. PICK cs \in Seq(ClosedEntries) : cs = Contributions(done)
  BY <1>1, ContributionFacts
<1>3. PICK token \in Texts : token = Text /\ token = Head(os).token
  BY NameWhole DEF AtName
<1>4. PICK x : x = Entry(token, << KeyParam(c, NewParam) >>)
  OBVIOUS
<1>5. PICK l : l = list
  OBVIOUS
<1>6. Tells(l, cs)
  BY <1>1, <1>2, <1>5
<1>7. /\ Tells(AddedTo(l, token, c), Append(cs, x))
      /\ AddedTo(l, token, c)[PlaceIn(l, token)].token = token
  BY <1>4, <1>6, TellsExtension
<1>8. PICK e, params : e = PlaceIn(l, token) /\ params = Extended(l, token)[e].params
  OBVIOUS
<1>9. e \in DOMAIN AddedTo(l, token, c)
  BY <1>1, <1>5, <1>8, AddedToFacts
<1>10. list' = AddedTo(l, token, c) /\ current'[1] = e
  <2>1. list' = AddedTo(list, Text, c)
        /\ current' = <<PlaceIn(list, Text),
                        AddedKey(c, Extended(list, Text)[PlaceIn(list, Text)].params).i>>
    BY AddExtensionIs
  <2> QED BY <1>3, <1>5, <1>8, <2>1
<1> QED BY <1>2, <1>3, <1>4, <1>7, <1>8, <1>9, <1>10

\* One that has no parameters is complete.
LEMMA OfferNamed ==
  ASSUME NEW done \in Seq(WritableOffers), NEW o \in WritableOffers, o.params = <<>>
  PROVE  Append(Contributions(done), Entry(o.token, << KeyParam(Comma, NewParam) >>))
           = Contributions(Append(done, o))
<1>1. MeantOffer(o) = << KeyParam(Comma, NewParam) >>
  BY MeantOfferIs
<1>2. Contributions(Append(done, o)) = Append(Contributions(done), Entry(o.token, MeantOffer(o)))
  BY ContributionFacts
<1> QED BY <1>1, <1>2

\* The name of an extension is read and a separator follows.
LEMMA NameTaken ==
  ASSUME NInv, NEW c \in Separators, EndExtension(c),
         NEW done, NEW os, NEW rest, AtName(done, os, rest)
  PROVE  /\ Reading'
         /\ \/ AtParam(done, os, rest, <<>>, Head(os).params)'
            \/ AtName(Append(done, Head(os)), Tail(os), rest)'
<1>1. ScanInOrder /\ Ahead(done, os, rest) /\ os # <<>> /\ done \in Seq(WritableOffers)
  BY DEF NInv, AtName, Ahead
<1>2. PICK o \in WritableOffers, t \in Seq(WritableOffers) : o = Head(os) /\ t = Tail(os)
  BY <1>1, AheadOffer
<1>3. PICK w : w = o.token /\ w \in Texts
  BY WrittenOfferIs, TextFacts
<1>4. PICK ps \in Seq(WritableParams) : ps = o.params
  BY WrittenOfferIs, TextFacts
<1>5. PICK f : f = Follow(ps, t)
  OBVIOUS
<1>6. IsWhole(w, FALSE, f) /\ IsToken(w) /\ AtToken(w, FALSE, f)
  BY <1>1, <1>2, <1>3, <1>4, <1>5, NameWhole DEF AtName
<1>7. Separator(c)
  BY DEF EndExtension
<1>8. ~ inQuote /\ p \in DOMAIN line /\ line[p] = c /\ line[p] \in Separators
  BY <1>7, SeparatorIs
<1>9. Behind(w, f) /\ p # 0 /\ Text = w /\ length # 0 /\ ~ TooLong /\ f # <<>> /\ f[1] = c
  BY <1>1, <1>6, <1>8, TokenRead
<1>10. c # Equals
  BY <1>5, <1>9, FollowFirst
<1>11. /\ AddExtension(c) /\ NewToken /\ Step
       /\ c = Comma => ~ hasExtension'
       /\ c # Comma => hasExtension'
  BY <1>9, <1>10, EndExtensionIs
<1>12. /\ p' = p + 1 /\ line' = line /\ start' = 0 /\ length' = 0 /\ inQuote' = inQuote
       /\ meant' = meant /\ lines' = lines
  BY <1>11 DEF NewToken, Step
<1>13. /\ Tells(list', Append(Contributions(done), Entry(w, << KeyParam(c, NewParam) >>)))
       /\ current'[1] \in DOMAIN list' /\ list'[current'[1]].token = w
  BY <1>2, <1>3, <1>9, <1>11, ExtensionListed
<1>14. Reading'
  BY <1>7, <1>11 DEF Separator, At, Step, Reading
<1>15. CASE c = Semicolon
  <2>1. ps # <<>> /\ hasExtension'
    BY <1>5, <1>9, <1>11, <1>15, FollowFirst, SeparatorFacts
  <2>2. AtToken(Head(ps).name, FALSE, WrittenValue(Head(ps)) \o Follow(Tail(ps), t))'
    BY <1>1, <1>5, <1>9, <1>12, <2>1, AfterSemicolon
  <2>3. Ahead(done, os, rest)'
    BY <1>1, <1>12 DEF Ahead
  <2>4. InOffer(done, os, rest, <<>>, ps)'
    <3>1. <<>> \in Seq(WritableParams) /\ <<>> \o ps = ps
      BY ConcatEmptySeq
    <3> QED BY <1>1, <1>2, <1>3, <1>4, <1>13, <2>1, <2>3, <3>1 DEF InOffer
  <2>5. << KeyParam(c, NewParam) >> = PartRead(<<>>)
    <3>1. c # ","
      BY <1>15, SeparatorFacts DEF Comma
    <3> QED BY <3>1 DEF KeyParam, PartRead
  <2>6. Tells(list', SoFar(done, os, PartRead(<<>>)))
    BY <1>2, <1>3, <1>13, <2>5 DEF SoFar
  <2>7. AtParam(done, os, rest, <<>>, ps)'
    BY <1>2, <2>2, <2>4, <2>6 DEF AtParam
  <2> QED BY <1>2, <1>4, <1>14, <2>7
<1>16. CASE c = Comma
  <2>1. ps = <<>> /\ t # <<>> /\ ~ hasExtension'
    BY <1>5, <1>9, <1>11, <1>16, FollowFirst, SeparatorFacts
  <2>2. AtToken(Head(t).token, FALSE, Follow(Head(t).params, Tail(t)))'
    BY <1>1, <1>5, <1>9, <1>12, <2>1, AfterComma
  <2>3. Ahead(Append(done, o), t, rest)'
    <3>1. Ahead(Append(done, o), t, rest)
      BY <1>1, <1>2, AheadOffer
    <3> QED BY <1>12, <3>1 DEF Ahead
  <2>4. Tells(list', Contributions(Append(done, o)))
    BY <1>1, <1>3, <1>4, <1>13, <1>16, <2>1, OfferNamed
  <2>5. AtName(Append(done, o), t, rest)'
    BY <2>1, <2>2, <2>3, <2>4 DEF AtName
  <2> QED BY <1>2, <1>14, <2>5
<1> QED BY <1>10, <1>15, <1>16, SeparatorFacts

\* The name of an extension is read and the header ends.
LEMMA LastNameTaken ==
  ASSUME NInv, EndHeader, NEW done, NEW os, NEW rest, AtName(done, os, rest)
  PROVE  Reading' /\ AtHeader(Append(done, Head(os)), rest)'
<1>1. ScanInOrder /\ Ahead(done, os, rest) /\ os # <<>> /\ done \in Seq(WritableOffers)
      /\ ~ hasExtension
  BY DEF NInv, AtName, Ahead
<1>2. PICK o \in WritableOffers, t \in Seq(WritableOffers) : o = Head(os) /\ t = Tail(os)
  BY <1>1, AheadOffer
<1>3. PICK w : w = o.token /\ w \in Texts
  BY WrittenOfferIs, TextFacts
<1>4. PICK ps \in Seq(WritableParams) : ps = o.params
  BY WrittenOfferIs, TextFacts
<1>5. PICK f : f = Follow(ps, t)
  OBVIOUS
<1>6. IsWhole(w, FALSE, f) /\ IsToken(w) /\ AtToken(w, FALSE, f)
  BY <1>1, <1>2, <1>3, <1>4, <1>5, NameWhole DEF AtName
<1>7. p > Len(line)
  BY DEF EndHeader
<1>8. Text = w /\ start # 0 /\ ~ TooLong /\ ~ inQuote /\ f = <<>>
  BY <1>1, <1>6, <1>7, TokenRead
<1>9. ps = <<>> /\ t = <<>>
  BY <1>5, <1>8, FollowFirst
<1>10. AddExtension(Comma) /\ p' = 0 /\ meant' = meant /\ lines' = lines
       /\ Reading'
  BY <1>1, <1>8 DEF EndHeader, Comma, Reading
<1>11. Tells(list', Append(Contributions(done), Entry(w, << KeyParam(Comma, NewParam) >>)))
  BY <1>2, <1>3, <1>8, <1>10, ExtensionListed
<1>12. Tells(list', Contributions(Append(done, o)))
  BY <1>1, <1>3, <1>4, <1>9, <1>11, OfferNamed
<1>13. Ahead(Append(done, o), <<>>, rest)'
  <2>1. Ahead(Append(done, o), <<>>, rest)
    BY <1>1, <1>2, <1>9, AheadOffer
  <2> QED BY <1>10, <2>1 DEF Ahead
<1> QED BY <1>2, <1>10, <1>12, <1>13 DEF AtHeader

-----------------------------------------------------------------------------
\* The end of the name or the value of a parameter.

\* A name or a value that is not too long is added.
LEMMA EndParamIs ==
  ASSUME NEW c, EndParam(c), ~ TooLong
  PROVE  /\ AddParam(c) /\ NewToken /\ Step /\ Separator(c) /\ Reading
         /\ c = Comma => ~ hasExtension'
         /\ c # Comma => hasExtension'
BY DEF EndParam, Separator, At, Comma

\* What is read of the offer changes as its last parameter is filled.
LEMMA ParamAdded ==
  ASSUME NInv, Reading, NEW done, NEW os, NEW rest, NEW ready, NEW left,
         InOffer(done, os, rest, ready, left),
         NEW ps \in Seq(Params), ps # <<>>, Tells(list, SoFar(done, os, ps)),
         NEW c \in Separators, AddParam(c), NEW x, x = Filled(Pending(ps), c, Text)
  PROVE  /\ Tells(list', SoFar(done, os, WithParam(ps, x)))
         /\ current'[1] \in DOMAIN list' /\ list'[current'[1]].token = Head(os).token
<1>1. /\ hasExtension /\ Ahead(done, os, rest) /\ os # <<>> /\ done \in Seq(WritableOffers)
      /\ current[1] \in DOMAIN list /\ list[current[1]].token = Head(os).token
  BY DEF InOffer, Ahead
<1>2. PICK cs \in Seq(ClosedEntries) : cs = Contributions(done)
  BY <1>1, ContributionFacts
<1>3. PICK token \in Texts : token = Head(os).token
  BY <1>1, NameWhole
<1>4. PICK l : l = list
  OBVIOUS
<1>5. PICK e \in DOMAIN l : e = current[1] /\ l[e].token = token
  BY <1>1, <1>3, <1>4
<1>6. PICK text \in Texts : text = Text
  BY TextTyped DEF NInv
<1>7. Tells(l, Append(cs, Entry(token, ps)))
  BY <1>2, <1>3, <1>4 DEF SoFar
<1>8. x = Filled(Pending(ps), c, text)
  BY <1>6
<1>9. Tells(WithValue(l, e, c, text), Append(cs, Entry(token, WithParam(ps, x))))
  BY <1>5, <1>7, <1>8, TellsParam
<1>10. WithValue(l, e, c, text)[e].token = token /\ e \in DOMAIN WithValue(l, e, c, text)
  BY <1>5, <1>7, <1>8, TellsParam
<1>11. list' = WithValue(l, e, c, text) /\ current'[1] = e
  <2>1. current[2] = Len(list[current[1]].params)
    BY <1>1 DEF NInv, CurrentInOrder
  <2>2. /\ list' = WithValue(list, current[1], c, Text)
        /\ current' = <<current[1],
                        AddedValue(c, Text, list[current[1]].params,
                                   Len(list[current[1]].params)).i>>
    BY <2>1, AddParamIs
  <2> QED BY <1>4, <1>5, <1>6, <2>2
<1> QED BY <1>2, <1>3, <1>9, <1>10, <1>11 DEF SoFar

\* A token completes the first parameter that is left, whatever follows it.
Completes(done, os, ready, left, ps, t) ==
  /\ ps \in Seq(Params) /\ ps # <<>> /\ Tells(list, SoFar(done, os, ps))
  /\ \A x \in Params : WithParam(ps, x) = Append(MeantReady(ready), x)
  /\ Filled(Pending(ps), Semicolon, t) = MeantParam(Head(left), FALSE)
  /\ Filled(Pending(ps), Comma, t) = MeantParam(Head(left), TRUE)

\* It does so with the name of one that has no value.
LEMMA NameCompletes ==
  ASSUME NEW done, NEW os, NEW rest, NEW ready, NEW left,
         AtParam(done, os, rest, ready, left), Head(left).value = <<>>
  PROVE  Completes(done, os, ready, left, PartRead(ready), Head(left).name)
<1>1. PICK h \in WritableParams : h = Head(left)
  BY PartsWhole DEF AtParam
<1>2. ready \in Seq(WritableParams)
  BY DEF AtParam, InOffer
<1>3. /\ Filled(NewParam, Semicolon, h.name) = MeantParam(h, FALSE)
      /\ Filled(NewParam, Comma, h.name) = MeantParam(h, TRUE)
  BY <1>1, FilledAsMeant
<1>4. /\ PartRead(ready) \in Seq(Params) /\ PartRead(ready) # <<>>
      /\ Pending(PartRead(ready)) = NewParam
      /\ \A x \in Params : WithParam(PartRead(ready), x) = Append(MeantReady(ready), x)
  BY <1>2, PartReadFacts
<1>5. Tells(list, SoFar(done, os, PartRead(ready)))
  BY DEF AtParam
<1> QED BY <1>1, <1>3, <1>4, <1>5 DEF Completes

\* And with a value.
LEMMA ValueCompletes ==
  ASSUME NEW done, NEW os, NEW rest, NEW ready, NEW left,
         AtValue(done, os, rest, ready, left)
  PROVE  Completes(done, os, ready, left, Append(MeantReady(ready), Half(Head(left))),
                   Head(left).value)
<1>1. PICK h \in WritableParams : h = Head(left)
  BY PartsWhole DEF AtValue
<1>2. ready \in Seq(WritableParams) /\ h.value # <<>>
  BY <1>1 DEF AtValue, InOffer
<1>3. /\ Filled(Half(h), Semicolon, h.value) = MeantParam(h, FALSE)
      /\ Filled(Half(h), Comma, h.value) = MeantParam(h, TRUE)
  BY <1>2, FilledAsMeant
<1>4. PICK m \in Seq(Params) : m = MeantReady(ready)
  BY <1>2, MeantReadyTyped, ClosedFacts
<1>5. /\ Append(m, Half(h)) \in Seq(Params) /\ Append(m, Half(h)) # <<>>
      /\ Pending(Append(m, Half(h))) = Half(h)
      /\ \A x \in Params : WithParam(Append(m, Half(h)), x) = Append(m, x)
  BY HalfFacts
<1>6. Tells(list, SoFar(done, os, Append(m, Half(h))))
  BY <1>1, <1>4 DEF AtValue
<1> QED BY <1>1, <1>3, <1>4, <1>5, <1>6 DEF Completes

\* A parameter that is complete is one of those that are ready.
LEMMA OneMoreReady ==
  ASSUME NEW done, NEW os, NEW rest, NEW ready, NEW left,
         InOffer(done, os, rest, ready, left)
  PROVE  /\ Append(ready, Head(left)) \in Seq(WritableParams)
         /\ Head(os).params = Cat(Append(ready, Head(left)), Tail(left))
<1>1. /\ ready \in Seq(WritableParams) /\ left \in Seq(WritableParams) /\ left # <<>>
      /\ Head(os).params = ready \o left
  BY DEF InOffer
<1>2. PICK r \in Seq(WritableParams) : r = ready
  BY <1>1
<1>3. PICK h \in WritableParams, t \in Seq(WritableParams) :
        h = Head(left) /\ t = Tail(left) /\ left = <<h>> \o t
  <2>1. PICK l \in Seq(WritableParams) : l = left /\ l # <<>>
    BY <1>1
  <2>2. PICK h \in WritableParams, t \in Seq(WritableParams) :
          h = Head(l) /\ t = Tail(l) /\ l = <<h>> \o t
    BY <2>1, FrontFacts
  <2> QED BY <2>1, <2>2
<1>4. PICK u \in Seq(WritableParams) : u = <<h>>
  <2>1. <<h>> \in Seq(WritableParams)
    OBVIOUS
  <2> QED BY <2>1
<1>5. (r \o u) \o t = r \o (u \o t)
  BY ConcatAssociative
<1>6. Append(r, h) = r \o u /\ Append(r, h) \in Seq(WritableParams)
  BY <1>4, AppendIsConcat
<1>7. PICK a \in Seq(WritableParams) : a = Append(r, h)
  BY <1>6
<1>8. Head(os).params = a \o t
  BY <1>1, <1>2, <1>3, <1>4, <1>5, <1>6, <1>7
<1> QED BY <1>2, <1>3, <1>7, <1>8 DEF Cat

\* With the last parameter the offer is complete.
LEMMA OfferCompleted ==
  ASSUME NInv, Reading, NEW done, NEW os, NEW rest, NEW ready, NEW left, NEW ps, NEW t,
         InOffer(done, os, rest, ready, left), Completes(done, os, ready, left, ps, t),
         Tail(left) = <<>>, AddParam(Comma), Text = t
  PROVE  Tells(list', Contributions(Append(done, Head(os))))
<1>1. done \in Seq(WritableOffers) /\ ready \in Seq(WritableParams) /\ Ahead(done, os, rest)
      /\ os # <<>>
  BY DEF InOffer, Ahead
<1>2. PICK o \in WritableOffers : o = Head(os)
  BY <1>1, AheadOffer
<1>3. PICK h \in WritableParams : h = Head(left)
  BY PartsWhole
<1>4. PICK m \in Params : m = MeantParam(h, TRUE)
  <2>1. TRUE \in BOOLEAN
    OBVIOUS
  <2> QED BY <2>1, MeantParamTyped, ClosedFacts
<1>5. m = Filled(Pending(ps), Comma, Text) /\ WithParam(ps, m) = Append(MeantReady(ready), m)
  BY <1>3, <1>4 DEF Completes
<1>6. Comma \in Separators
  BY SeparatorFacts
<1>7. Tells(list', SoFar(done, os, WithParam(ps, m)))
  BY <1>5, <1>6, ParamAdded DEF Completes
<1>8. o.params = Append(ready, h)
  <2>1. PICK more \in Seq(WritableParams) : more = Append(ready, Head(left))
    BY OneMoreReady
  <2>2. Head(os).params = Cat(Append(ready, Head(left)), Tail(left))
    BY OneMoreReady
  <2>3. more \o <<>> = more
    BY ConcatEmptySeq
  <2> QED BY <1>2, <1>3, <2>1, <2>2, <2>3 DEF Cat
<1>9. MeantOffer(o) = Append(MeantReady(ready), m)
  BY <1>1, <1>4, <1>8, MeantOfferIs
<1>10. Contributions(Append(done, o))
         = Append(Contributions(done), Entry(o.token, MeantOffer(o)))
  BY <1>1, ContributionFacts
<1> QED BY <1>2, <1>5, <1>7, <1>9, <1>10 DEF SoFar

\* A parameter is complete and a separator follows.
LEMMA ParamCompleted ==
  ASSUME NInv, NEW c \in Separators, EndParam(c),
         NEW done, NEW os, NEW rest, NEW ready, NEW left, NEW ps, NEW t, NEW quoted, NEW f,
         InOffer(done, os, rest, ready, left), Completes(done, os, ready, left, ps, t),
         IsWhole(t, quoted, f), IsToken(t), AtToken(t, quoted, f),
         f = Follow(Tail(left), Tail(os))
  PROVE  /\ Reading'
         /\ \/ AtParam(done, os, rest, Append(ready, Head(left)), Tail(left))'
            \/ AtName(Append(done, Head(os)), Tail(os), rest)'
<1>1. /\ ScanInOrder /\ Ahead(done, os, rest) /\ os # <<>> /\ done \in Seq(WritableOffers)
      /\ ready \in Seq(WritableParams)
  BY DEF NInv, InOffer, Ahead
<1>2. PICK o \in WritableOffers, tl \in Seq(WritableOffers) : o = Head(os) /\ tl = Tail(os)
  BY <1>1, AheadOffer
<1>3. PICK h \in WritableParams, rs \in Seq(WritableParams) : h = Head(left) /\ rs = Tail(left)
  BY PartsWhole
<1>4. f = Follow(rs, tl)
  BY <1>2, <1>3
<1>5. Separator(c)
  BY DEF EndParam
<1>6. ~ inQuote /\ p \in DOMAIN line /\ line[p] = c /\ line[p] \in Separators
  BY <1>5, SeparatorIs
<1>7. Behind(t, f) /\ p # 0 /\ Text = t /\ ~ TooLong /\ f # <<>> /\ f[1] = c
  BY <1>1, <1>6, TokenRead
<1>8. c # Equals
  BY <1>4, <1>7, FollowFirst
<1>9. /\ AddParam(c) /\ NewToken /\ Step /\ Reading
      /\ c = Comma => ~ hasExtension'
      /\ c # Comma => hasExtension'
  BY <1>7, EndParamIs
<1>10. /\ p' = p + 1 /\ line' = line /\ start' = 0 /\ length' = 0 /\ inQuote' = inQuote
       /\ meant' = meant /\ lines' = lines
  BY <1>9 DEF NewToken, Step
<1>11. PICK more \in Seq(WritableParams) :
         more = Append(ready, h) /\ o.params = more \o rs
  <2>1. PICK more \in Seq(WritableParams) : more = Append(ready, Head(left))
    BY OneMoreReady
  <2>2. Head(os).params = Cat(Append(ready, Head(left)), Tail(left))
    BY OneMoreReady
  <2> QED BY <1>2, <1>3, <2>1, <2>2 DEF Cat
<1>12. Reading'
  BY <1>9 DEF Step, Reading
<1>13. CASE c = Semicolon
  <2>1. rs # <<>> /\ hasExtension'
    BY <1>4, <1>7, <1>9, <1>13, FollowFirst, SeparatorFacts
  <2>2. PICK m \in Params : m = MeantParam(h, FALSE)
    <3>1. FALSE \in BOOLEAN
      OBVIOUS
    <3> QED BY <3>1, MeantParamTyped, ClosedFacts
  <2>3. m = Filled(Pending(ps), c, Text) /\ WithParam(ps, m) = Append(MeantReady(ready), m)
    BY <1>3, <1>7, <1>13, <2>2 DEF Completes
  <2>4. /\ Tells(list', SoFar(done, os, WithParam(ps, m)))
        /\ current'[1] \in DOMAIN list' /\ list'[current'[1]].token = Head(os).token
    BY <1>9, <2>3, ParamAdded DEF Completes
  <2>5. PartRead(more) = Append(MeantReady(ready), m)
    BY <1>1, <1>11, <2>2, ReadyAppend
  <2>6. Tells(list', SoFar(done, os, PartRead(more)))
    BY <2>3, <2>4, <2>5
  <2>7. AtToken(Head(rs).name, FALSE, WrittenValue(Head(rs)) \o Follow(Tail(rs), tl))'
    BY <1>1, <1>4, <1>7, <1>10, <2>1, AfterSemicolon
  <2>8. Ahead(done, os, rest)'
    BY <1>1, <1>10 DEF Ahead
  <2>9. InOffer(done, os, rest, more, rs)'
    BY <1>1, <1>2, <1>11, <2>1, <2>4, <2>8 DEF InOffer
  <2>10. AtParam(done, os, rest, more, rs)'
    BY <1>2, <2>6, <2>7, <2>9 DEF AtParam
  <2> QED BY <1>3, <1>11, <1>12, <2>10
<1>14. CASE c = Comma
  <2>1. rs = <<>> /\ tl # <<>> /\ ~ hasExtension'
    BY <1>4, <1>7, <1>9, <1>14, FollowFirst, SeparatorFacts
  <2>2. Tells(list', Contributions(Append(done, Head(os))))
    BY <1>3, <1>7, <1>9, <1>14, <2>1, OfferCompleted
  <2>3. AtToken(Head(tl).token, FALSE, Follow(Head(tl).params, Tail(tl)))'
    BY <1>1, <1>4, <1>7, <1>10, <2>1, AfterComma
  <2>4. Ahead(Append(done, o), tl, rest)'
    <3>1. Ahead(Append(done, o), tl, rest)
      BY <1>1, <1>2, AheadOffer
    <3> QED BY <1>10, <3>1 DEF Ahead
  <2>5. AtName(Append(done, o), tl, rest)'
    BY <1>2, <2>1, <2>2, <2>3, <2>4 DEF AtName
  <2> QED BY <1>2, <1>12, <2>5
<1> QED BY <1>8, <1>13, <1>14, SeparatorFacts

\* A parameter is complete and the header ends.
LEMMA LastParamCompleted ==
  ASSUME NInv, EndHeader,
         NEW done, NEW os, NEW rest, NEW ready, NEW left, NEW ps, NEW t, NEW quoted, NEW f,
         InOffer(done, os, rest, ready, left), Completes(done, os, ready, left, ps, t),
         IsWhole(t, quoted, f), IsToken(t), AtToken(t, quoted, f),
         f = Follow(Tail(left), Tail(os))
  PROVE  Reading' /\ AtHeader(Append(done, Head(os)), rest)'
<1>1. /\ ScanInOrder /\ Ahead(done, os, rest) /\ os # <<>> /\ done \in Seq(WritableOffers)
      /\ ready \in Seq(WritableParams) /\ hasExtension
  BY DEF NInv, InOffer, Ahead
<1>2. PICK o \in WritableOffers, tl \in Seq(WritableOffers) : o = Head(os) /\ tl = Tail(os)
  BY <1>1, AheadOffer
<1>3. PICK h \in WritableParams, rs \in Seq(WritableParams) : h = Head(left) /\ rs = Tail(left)
  BY PartsWhole
<1>4. f = Follow(rs, tl)
  BY <1>2, <1>3
<1>5. p > Len(line) /\ Reading
  BY DEF EndHeader
<1>6. Text = t /\ start # 0 /\ ~ TooLong /\ ~ inQuote /\ f = <<>>
  BY <1>1, <1>5, TokenRead
<1>7. rs = <<>> /\ tl = <<>>
  BY <1>4, <1>6, FollowFirst
<1>8. AddParam(Comma) /\ p' = 0 /\ meant' = meant /\ lines' = lines
      /\ Reading'
  BY <1>1, <1>6 DEF EndHeader, Comma, Reading
<1>9. Tells(list', Contributions(Append(done, Head(os))))
  BY <1>3, <1>5, <1>6, <1>7, <1>8, OfferCompleted
<1>10. Ahead(Append(done, o), <<>>, rest)'
  <2>1. Ahead(Append(done, o), <<>>, rest)
    BY <1>1, <1>2, <1>7, AheadOffer
  <2> QED BY <1>8, <2>1 DEF Ahead
<1> QED BY <1>2, <1>8, <1>9, <1>10 DEF AtHeader

\* Behind a name with a value an equals sign follows: the parameter waits for it.
LEMMA ValueFollows ==
  ASSUME NInv, NEW c \in Separators, EndParam(c),
         NEW done, NEW os, NEW rest, NEW ready, NEW left,
         AtParam(done, os, rest, ready, left), Head(left).value # <<>>
  PROVE  Reading' /\ AtValue(done, os, rest, ready, left)'
<1>1. /\ ScanInOrder /\ Ahead(done, os, rest) /\ os # <<>> /\ done \in Seq(WritableOffers)
      /\ ready \in Seq(WritableParams) /\ InOffer(done, os, rest, ready, left)
  BY DEF NInv, AtParam, InOffer, Ahead
<1>2. PICK tl \in Seq(WritableOffers) : tl = Tail(os)
  BY <1>1, AheadOffer
<1>3. PICK h \in WritableParams, rs \in Seq(WritableParams) : h = Head(left) /\ rs = Tail(left)
  BY <1>1, PartsWhole
<1>4. PICK g \in Texts : g = Follow(rs, tl)
  BY FollowTyped
<1>5. PICK f : f = WrittenValue(h) \o g
  OBVIOUS
<1>6. PICK t : t = h.name
  OBVIOUS
<1>7. IsWhole(t, FALSE, f) /\ IsToken(t) /\ AtToken(t, FALSE, f)
  BY <1>1, <1>2, <1>3, <1>4, <1>5, <1>6, PartsWhole DEF AtParam
<1>8. Separator(c)
  BY DEF EndParam
<1>9. ~ inQuote /\ p \in DOMAIN line /\ line[p] = c /\ line[p] \in Separators
  BY <1>8, SeparatorIs
<1>10. Behind(t, f) /\ p # 0 /\ Text = t /\ ~ TooLong /\ f # <<>> /\ f[1] = c
  BY <1>1, <1>7, <1>9, TokenRead
<1>11. c = Equals
  <2>1. PICK w \in Texts : w = QuotedIf(h.quoted, h.value) \o g
    BY WrittenParamTyped, TextsGlued
  <2>2. PICK u \in Texts : u = Spaces(h.valueSpace) \o w
    BY WrittenParamIs, TextFacts, SpacesFacts, TextsGlued
  <2>3. f = <<Equals>> \o u
    BY <1>3, <1>5, <2>1, <2>2, WrittenValueIs
  <2>4. f[1] = Equals
    BY <2>3, SeparatorInFront, SeparatorFacts
  <2> QED BY <1>10, <2>4
<1>12. AddParam(c) /\ NewToken /\ Step /\ Reading /\ hasExtension'
  BY <1>10, <1>11, EndParamIs, SeparatorFacts
<1>13. /\ p' = p + 1 /\ line' = line /\ start' = 0 /\ length' = 0 /\ inQuote' = inQuote
       /\ meant' = meant /\ lines' = lines
  BY <1>12 DEF NewToken, Step
<1>14. PICK x \in Params : x = Half(h)
  BY HalfTyped
<1>15. PICK ps \in Seq(Params) : ps = PartRead(ready) /\ ps # <<>>
  BY <1>1, PartReadFacts
<1>16. Pending(ps) = NewParam /\ WithParam(ps, x) = Append(MeantReady(ready), x)
  BY <1>1, <1>15, PartReadFacts
<1>17. x = Filled(Pending(ps), c, Text)
  <2>1. Filled(NewParam, Equals, h.name) = Half(h)
    BY FilledAsMeant
  <2> QED BY <1>6, <1>10, <1>11, <1>14, <1>16, <2>1
<1>18. /\ Tells(list', SoFar(done, os, WithParam(ps, x)))
       /\ current'[1] \in DOMAIN list' /\ list'[current'[1]].token = Head(os).token
  BY <1>1, <1>12, <1>15, <1>17, ParamAdded DEF AtParam
<1>19. AtToken(h.value, h.quoted, g)'
  BY <1>1, <1>3, <1>5, <1>10, <1>13, AfterEquals
<1>20. InOffer(done, os, rest, ready, left)'
  <2>1. Ahead(done, os, rest)'
    BY <1>1, <1>13 DEF Ahead
  <2> QED BY <1>1, <1>12, <1>18, <2>1 DEF InOffer
<1>21. AtValue(done, os, rest, ready, left)'
  BY <1>2, <1>3, <1>4, <1>14, <1>16, <1>18, <1>19, <1>20 DEF AtValue
<1>22. Reading'
  BY <1>12 DEF Step, Reading
<1> QED BY <1>21, <1>22

\* There the header does not end.
LEMMA ValueAhead ==
  ASSUME NInv, EndHeader, NEW done, NEW os, NEW rest, NEW ready, NEW left,
         AtParam(done, os, rest, ready, left)
  PROVE  Head(left).value = <<>>
<1> SUFFICES ASSUME Head(left).value # <<>> PROVE FALSE
  OBVIOUS
<1>1. /\ ScanInOrder /\ Ahead(done, os, rest) /\ os # <<>>
      /\ InOffer(done, os, rest, ready, left)
  BY DEF NInv, AtParam, InOffer
<1>2. PICK tl \in Seq(WritableOffers) : tl = Tail(os)
  BY <1>1, AheadOffer
<1>3. PICK h \in WritableParams, rs \in Seq(WritableParams) : h = Head(left) /\ rs = Tail(left)
  BY <1>1, PartsWhole
<1>4. PICK g \in Texts : g = Follow(rs, tl)
  BY FollowTyped
<1>5. PICK f : f = WrittenValue(h) \o g
  OBVIOUS
<1>6. IsWhole(h.name, FALSE, f) /\ IsToken(h.name) /\ AtToken(h.name, FALSE, f)
  BY <1>1, <1>2, <1>3, <1>4, <1>5, PartsWhole DEF AtParam
<1>7. p > Len(line)
  BY DEF EndHeader
<1>8. f = <<>>
  BY <1>1, <1>6, <1>7, TokenRead
<1>9. PICK w \in Texts : w = QuotedIf(h.quoted, h.value) \o g
  BY WrittenParamTyped, TextsGlued
<1>10. PICK u \in Texts : u = Spaces(h.valueSpace) \o w
  BY WrittenParamIs, TextFacts, SpacesFacts, TextsGlued
<1>11. f = <<Equals>> \o u
  BY <1>3, <1>5, <1>9, <1>10, WrittenValueIs
<1> QED BY <1>8, <1>11, SeparatorInFront, SeparatorFacts

-----------------------------------------------------------------------------
\* What is read is what was meant, as long as it is read and when it is answered.

Position(done, os, rest, ready, left) ==
  \/ AtHeader(done, rest)
  \/ AtName(done, os, rest)
  \/ AtParam(done, os, rest, ready, left)
  \/ AtValue(done, os, rest, ready, left)

Somewhere == \E done, os, rest, ready, left : Position(done, os, rest, ready, left)

\* What Validate answers, from the list.
Verdict(l) ==
  LET offer == ValidateOffer(l[PlaceIn(l, Deflate)].params)
  IN  IF PlaceIn(l, Deflate) > Len(l) THEN [kind |-> "unused"]
      ELSE IF offer = Refused THEN Refused
      ELSE [kind |-> "accepted", config |-> offer.config, response |-> Respond(offer.config)]

Told ==
  /\ meant \in Seq(WritableOffers) /\ Tells(list, Contributions(meant))
  /\ answer = Verdict(list)

ReadAsMeant == meant # Unknown => (Reading => Somewhere) /\ (~ Reading => Told)

\* At first nothing is read.
LEMMA InitAsMeant ==
  ASSUME Init
  PROVE  ReadAsMeant
<1> SUFFICES ASSUME meant # Unknown PROVE Reading /\ Somewhere
  BY DEF ReadAsMeant
<1>1. PICK r : r \in Requests /\ lines = [h \in DOMAIN r |-> WrittenHeader(r[h])]
                 /\ meant = FlattenSeq(r)
  BY DEF Init
<1>2. r \in Seq(Headers)
  BY <1>1, NegotiationAssumption DEF Headers
<1>3. lines = Map(HeaderWriter, r)
  <2>1. \A h \in DOMAIN r : r[h] \in Headers
    BY <1>2
  <2>2. \A h \in DOMAIN r : HeaderWriter[r[h]] = WrittenHeader(r[h])
    BY <2>1 DEF HeaderWriter
  <2> QED BY <1>1, <2>2 DEF Map
<1>4. meant = <<>> \o (<<>> \o FlattenSeq(r))
  <2>1. r \in Seq(Seq(WritableOffers))
    <3>1. Headers \subseteq Seq(WritableOffers)
      BY DEF Headers
    <3> QED BY <1>2, <3>1, SeqMonotonic
  <2>2. PICK m \in Seq(WritableOffers) : m = FlattenSeq(r)
    BY <2>1, FlattenTyped
  <2>3. <<>> \o m = m
    BY ConcatEmptySeq
  <2> QED BY <1>1, <2>2, <2>3
<1>5. Ahead(<<>>, <<>>, r)
  <2>1. <<>> \in Seq(WritableOffers)
    OBVIOUS
  <2> QED BY <1>2, <1>3, <1>4, <2>1 DEF Ahead
<1>6. Contributions(<<>>) = <<>>
  BY DEF Contributions, Map
<1>7. Tells(<<>>, <<>>)
  <2>1. DOMAIN <<>> = {}
    OBVIOUS
  <2>2. ListInOrder(<<>>)
    BY <2>1 DEF ListInOrder, Once
  <2> QED BY <2>1, <2>2, Zenon DEF Tells
<1>8. AtHeader(<<>>, r)
  BY <1>5, <1>6, <1>7 DEF AtHeader, Init
<1>9. Reading
  BY DEF Init, Reading
<1> QED BY <1>8, <1>9 DEF Somewhere, Position

\* A position is one of the four, of which the step at hand keeps to one.
LEMMA SomewhereStep ==
  ASSUME NInv, Parse, NEW done, NEW os, NEW rest, NEW ready, NEW left,
         Position(done, os, rest, ready, left)
  PROVE  Reading' /\ Somewhere'
<1>1. /\ ScanInOrder /\ (AtHeader(done, rest) => p = 0)
      /\ AtName(done, os, rest) => p # 0 /\ ~ hasExtension
      /\ AtParam(done, os, rest, ready, left) => p # 0 /\ hasExtension
      /\ AtValue(done, os, rest, ready, left) => p # 0 /\ hasExtension
  BY DEF NInv, AtHeader, AtName, AtParam, AtValue, InOffer, AtToken
<1>2. ASSUME NEW c, At(c) PROVE p # 0
  BY <1>1, <1>2, AtOnLine
<1>3. CASE NextHeader
  <2>1. p = 0
    BY <1>3 DEF NextHeader
  <2>2. AtHeader(done, rest)
    BY <1>1, <2>1 DEF Position
  <2>3. Reading' /\ AtName(done, Head(rest), Tail(rest))'
    BY <1>3, <2>2, HeaderTaken
  <2> QED BY <2>3 DEF Somewhere, Position
<1>4. CASE Quote \/ SkipSpace \/ TakeLetter
  <2>1. p # 0
    BY <1>2, <1>4 DEF Quote, SkipSpace, TakeLetter
  <2>2. Reading'
    BY <1>4 DEF Quote, SkipSpace, TakeLetter, At, Step, Reading
  <2>3. Position(done, os, rest, ready, left)'
    BY <1>1, <1>4, <2>1, LetterTaken DEF Position
  <2> QED BY <2>2, <2>3 DEF Somewhere
<1>5. ASSUME NEW c \in Separators, EndExtension(c) PROVE Reading' /\ Somewhere'
  <2>1. p # 0 /\ ~ hasExtension
    BY <1>2, <1>5 DEF EndExtension, Separator
  <2>2. AtName(done, os, rest)
    BY <1>1, <2>1 DEF Position
  <2>3. /\ Reading'
        /\ \/ AtParam(done, os, rest, <<>>, Head(os).params)'
           \/ AtName(Append(done, Head(os)), Tail(os), rest)'
    BY <1>5, <2>2, NameTaken
  <2> QED BY <2>3 DEF Somewhere, Position
<1>6. ASSUME NEW c \in Separators, EndParam(c) PROVE Reading' /\ Somewhere'
  <2>1. p # 0 /\ hasExtension
    BY <1>2, <1>6 DEF EndParam, Separator
  <2>2. CASE AtParam(done, os, rest, ready, left) /\ Head(left).value # <<>>
    <3>1. Reading' /\ AtValue(done, os, rest, ready, left)'
      BY <1>6, <2>2, ValueFollows
    <3> QED BY <3>1 DEF Somewhere, Position
  <2>3. CASE AtParam(done, os, rest, ready, left) /\ Head(left).value = <<>>
    <3>1. /\ InOffer(done, os, rest, ready, left)
          /\ Completes(done, os, ready, left, PartRead(ready), Head(left).name)
      BY <2>3, NameCompletes DEF AtParam
    <3>2. PICK f : f = Follow(Tail(left), Tail(os)) /\ f \in Texts
      BY <3>1, PartsWhole, AheadOffer, FollowTyped DEF InOffer
    <3>3. WrittenValue(Head(left)) \o f = f
      <4>1. Head(left) \in WritableParams
        BY <3>1, PartsWhole
      <4> QED BY <2>3, <3>2, <4>1, WrittenValueIs
    <3>4. /\ IsWhole(Head(left).name, FALSE, f) /\ IsToken(Head(left).name)
          /\ AtToken(Head(left).name, FALSE, f)
      BY <2>3, <3>1, <3>2, <3>3, PartsWhole DEF AtParam
    <3>5. /\ Reading'
          /\ \/ AtParam(done, os, rest, Append(ready, Head(left)), Tail(left))'
             \/ AtName(Append(done, Head(os)), Tail(os), rest)'
      BY <1>6, <3>1, <3>2, <3>4, ParamCompleted
    <3> QED BY <3>5 DEF Somewhere, Position
  <2>4. CASE AtValue(done, os, rest, ready, left)
    <3>1. PICK ps : ps = Append(MeantReady(ready), Half(Head(left)))
      OBVIOUS
    <3>2. /\ InOffer(done, os, rest, ready, left)
          /\ Completes(done, os, ready, left, ps, Head(left).value)
      BY <2>4, <3>1, ValueCompletes DEF AtValue
    <3>3. PICK f : f = Follow(Tail(left), Tail(os))
      OBVIOUS
    <3>4. PICK quoted : quoted = Head(left).quoted
      OBVIOUS
    <3>5. /\ IsWhole(Head(left).value, quoted, f) /\ IsToken(Head(left).value)
          /\ AtToken(Head(left).value, quoted, f)
      BY <2>4, <3>2, <3>3, <3>4, PartsWhole DEF AtValue
    <3>6. /\ Reading'
          /\ \/ AtParam(done, os, rest, Append(ready, Head(left)), Tail(left))'
             \/ AtName(Append(done, Head(os)), Tail(os), rest)'
      BY <1>6, <3>2, <3>3, <3>5, ParamCompleted
    <3> QED BY <3>6 DEF Somewhere, Position
  <2> QED BY <1>1, <2>1, <2>2, <2>3, <2>4 DEF Position
<1>7. CASE EndHeader
  <2>1. p # 0
    <3>1. p > Len(line)
      BY <1>7 DEF EndHeader
    <3>2. Len(line) \in Nat
      BY <1>1, TextLength DEF ScanInOrder
    <3> QED BY <3>1, <3>2
  <2>2. CASE AtName(done, os, rest)
    <3>1. Reading' /\ AtHeader(Append(done, Head(os)), rest)'
      BY <1>7, <2>2, LastNameTaken
    <3> QED BY <3>1 DEF Somewhere, Position
  <2>3. CASE AtParam(done, os, rest, ready, left)
    <3>1. Head(left).value = <<>>
      BY <1>7, <2>3, ValueAhead
    <3>2. /\ InOffer(done, os, rest, ready, left)
          /\ Completes(done, os, ready, left, PartRead(ready), Head(left).name)
      BY <2>3, <3>1, NameCompletes DEF AtParam
    <3>3. PICK f : f = Follow(Tail(left), Tail(os)) /\ f \in Texts
      BY <3>2, PartsWhole, AheadOffer, FollowTyped DEF InOffer
    <3>4. WrittenValue(Head(left)) \o f = f
      <4>1. Head(left) \in WritableParams
        BY <3>2, PartsWhole
      <4> QED BY <3>1, <3>3, <4>1, WrittenValueIs
    <3>5. /\ IsWhole(Head(left).name, FALSE, f) /\ IsToken(Head(left).name)
          /\ AtToken(Head(left).name, FALSE, f)
      BY <2>3, <3>2, <3>3, <3>4, PartsWhole DEF AtParam
    <3>6. Reading' /\ AtHeader(Append(done, Head(os)), rest)'
      BY <1>7, <3>2, <3>3, <3>5, LastParamCompleted
    <3> QED BY <3>6 DEF Somewhere, Position
  <2>4. CASE AtValue(done, os, rest, ready, left)
    <3>1. PICK ps : ps = Append(MeantReady(ready), Half(Head(left)))
      OBVIOUS
    <3>2. /\ InOffer(done, os, rest, ready, left)
          /\ Completes(done, os, ready, left, ps, Head(left).value)
      BY <2>4, <3>1, ValueCompletes DEF AtValue
    <3>3. PICK f : f = Follow(Tail(left), Tail(os))
      OBVIOUS
    <3>4. PICK quoted : quoted = Head(left).quoted
      OBVIOUS
    <3>5. /\ IsWhole(Head(left).value, quoted, f) /\ IsToken(Head(left).value)
          /\ AtToken(Head(left).value, quoted, f)
      BY <2>4, <3>2, <3>3, <3>4, PartsWhole DEF AtValue
    <3>6. Reading' /\ AtHeader(Append(done, Head(os)), rest)'
      BY <1>7, <3>2, <3>3, <3>5, LastParamCompleted
    <3> QED BY <3>6 DEF Somewhere, Position
  <2> QED BY <1>1, <2>1, <2>2, <2>3, <2>4 DEF Position
<1> QED BY <1>3, <1>4, <1>5, <1>6, <1>7 DEF Parse

\* Then nothing is left to be read, and the list is judged.
LEMMA JudgedAsMeant ==
  ASSUME NInv, Validate, NEW done, NEW os, NEW rest, NEW ready, NEW left,
         Position(done, os, rest, ready, left)
  PROVE  ~ Reading' /\ Told'
<1>1. p = 0 /\ lines = <<>> /\ meant' = meant /\ list' = list
  BY DEF Validate
<1>2. AtHeader(done, rest)
  BY <1>1 DEF Position, AtName, AtParam, AtValue, InOffer, AtToken
<1>3. Ahead(done, <<>>, rest) /\ Tells(list, Contributions(done)) /\ done \in Seq(WritableOffers)
  BY <1>2 DEF AtHeader, Ahead
<1>4. meant = done
  BY <1>1, <1>3, AheadNone
<1>5. answer' = Verdict(list)
  <2>1. ExtensionAt(Deflate) = PlaceIn(list, Deflate)
    BY DEF ExtensionAt, PlaceIn, Found
  <2> QED BY <2>1 DEF Validate, Verdict
<1>6. Verdict(list) # NoAnswer
  BY DEF Verdict, NoAnswer, Refused
<1> QED BY <1>1, <1>3, <1>4, <1>5, <1>6 DEF Told, Reading

\* It is inductive together with NInv.
LEMMA InductiveAsMeant ==
  ASSUME NInv, ReadAsMeant, [Next]_vars
  PROVE  ReadAsMeant'
<1>1. CASE UNCHANGED vars
  <2>1. /\ meant' = meant /\ lines' = lines /\ line' = line /\ p' = p /\ start' = start
        /\ length' = length /\ inQuote' = inQuote /\ hasExtension' = hasExtension
        /\ list' = list /\ current' = current /\ answer' = answer
    BY <1>1 DEF vars, scan
  <2>2. ASSUME NEW done, NEW os, NEW rest PROVE Ahead(done, os, rest)' = Ahead(done, os, rest)
    BY <2>1 DEF Ahead
  <2>3. ASSUME NEW t, NEW quoted, NEW f PROVE AtToken(t, quoted, f)' = AtToken(t, quoted, f)
    BY <2>1 DEF AtToken, Before, Inside, Behind, Text
  <2>4. Reading => Reading' /\ (Somewhere => Somewhere')
    <3> SUFFICES ASSUME Reading, NEW done, NEW os, NEW rest, NEW ready, NEW left,
                        Position(done, os, rest, ready, left)
                 PROVE  Position(done, os, rest, ready, left)'
      BY <2>1 DEF Somewhere, Reading
    <3> QED BY <2>1, <2>2, <2>3 DEF Position, AtHeader, AtName, AtParam, AtValue, InOffer
  <2>5. ~ Reading => ~ Reading' /\ (Told => Told')
    BY <2>1 DEF Reading, Told
  <2> QED BY <2>1, <2>4, <2>5 DEF ReadAsMeant
<1>2. CASE Next
  <2>1. Reading /\ meant' = meant
    BY <1>2 DEF Next, Parse, Validate, NextHeader, Quote, SkipSpace, TakeLetter, EndExtension,
                EndParam, EndHeader, Separator, At, Step, Refuse
  <2> SUFFICES ASSUME meant # Unknown PROVE (Reading' /\ Somewhere') \/ (~ Reading' /\ Told')
    BY <2>1 DEF ReadAsMeant
  <2>2. PICK done, os, rest, ready, left : Position(done, os, rest, ready, left)
    BY <2>1 DEF ReadAsMeant, Somewhere
  <2>3. CASE Parse
    BY <2>2, <2>3, SomewhereStep
  <2>4. CASE Validate
    BY <2>2, <2>4, JudgedAsMeant
  <2> QED BY <1>2, <2>3, <2>4 DEF Next
<1> QED BY <1>1, <1>2

\* In every state of a request that a peer wrote, the list holds what was read of it.
THEOREM ReadInOrder == Spec => []ReadAsMeant
<1>1. Init => NInv /\ ReadAsMeant
  BY InitInOrder, InitAsMeant
<1>2. NInv /\ ReadAsMeant /\ [Next]_vars => (NInv /\ ReadAsMeant)'
  BY Inductive, InductiveAsMeant
<1> QED BY <1>1, <1>2, PTL DEF Spec

-----------------------------------------------------------------------------
\* What the list holds is what was meant.

Meaning == [o \in WritableOffers |-> MeantOffer(o)]

\* Of offers, those to one extension.
Mine(token) == [o \in WritableOffers |-> IF o.token = token THEN << o >> ELSE <<>>]
Chosen(ds, token) == FlatMap(Mine(token), ds)

\* An offer more.
LEMMA ChosenFacts ==
  ASSUME NEW token
  PROVE  /\ Gives(Mine(token), WritableOffers, Seq(WritableOffers))
         /\ Chosen(<<>>, token) = <<>>
         /\ \A ds \in Seq(WritableOffers) :
              /\ Chosen(ds, token) \in Seq(WritableOffers)
              /\ \A o \in WritableOffers :
                   /\ o.token = token =>
                        Chosen(Append(ds, o), token) = Append(Chosen(ds, token), o)
                   /\ o.token # token => Chosen(Append(ds, o), token) = Chosen(ds, token)
<1>1. Gives(Mine(token), WritableOffers, Seq(WritableOffers))
  <2>1. ASSUME NEW o \in WritableOffers PROVE Mine(token)[o] \in Seq(WritableOffers)
    <3>1. << o >> \in Seq(WritableOffers) /\ <<>> \in Seq(WritableOffers)
      OBVIOUS
    <3> QED BY <3>1 DEF Mine
  <2> QED BY <2>1 DEF Gives
<1>2. Chosen(<<>>, token) = <<>>
  <2>1. Map(Mine(token), <<>>) = <<>>
    BY DEF Map
  <2> QED BY <2>1, FlattenEmpty DEF Chosen, FlatMap
<1>3. ASSUME NEW ds \in Seq(WritableOffers)
      PROVE  Chosen(ds, token) \in Seq(WritableOffers)
  BY <1>1, FlatMapTyped DEF Chosen
<1>4. ASSUME NEW ds \in Seq(WritableOffers), NEW o \in WritableOffers
      PROVE  /\ o.token = token =>
                  Chosen(Append(ds, o), token) = Append(Chosen(ds, token), o)
             /\ o.token # token => Chosen(Append(ds, o), token) = Chosen(ds, token)
  <2>1. Chosen(Append(ds, o), token) = Chosen(ds, token) \o Mine(token)[o]
    BY <1>1, FlatMapAppend DEF Chosen
  <2>2. PICK c \in Seq(WritableOffers) : c = Chosen(ds, token)
    BY <1>3
  <2>3. c \o <<>> = c
    BY ConcatEmptySeq
  <2>4. c \o << o >> = Append(c, o)
    BY AppendIsConcat
  <2>5. Mine(token)[o] = IF o.token = token THEN << o >> ELSE <<>>
    BY DEF Mine
  <2>6. CASE o.token = token
    BY <2>1, <2>2, <2>4, <2>5, <2>6
  <2>7. CASE o.token # token
    BY <2>1, <2>2, <2>3, <2>5, <2>7
  <2> QED BY <2>6, <2>7
<1> QED BY <1>1, <1>2, <1>3, <1>4

\* What a peer means by an offer is a sequence of parameters.
LEMMA MeaningTyped ==
  /\ Gives(Meaning, WritableOffers, Seq(Closed)) /\ Seq(Closed) \subseteq Seq(Params)
  /\ \A o \in WritableOffers :
       /\ Meaning[o] = MeantOffer(o) /\ MeantOffer(o) \in Seq(Closed)
       /\ Entry(o.token, MeantOffer(o)) \in ClosedEntries
       /\ Entry(o.token, MeantOffer(o)) \in Entries
<1>1. ASSUME NEW o \in WritableOffers
      PROVE  /\ Meaning[o] = MeantOffer(o) /\ MeantOffer(o) \in Seq(Closed)
             /\ Entry(o.token, MeantOffer(o)) \in ClosedEntries
  <2>1. Contribution[o] \in ClosedEntries
    BY ContributionFacts DEF Gives
  <2>2. Contribution[o] = Entry(o.token, MeantOffer(o))
    BY DEF Contribution
  <2>3. PICK m : m = MeantOffer(o)
    OBVIOUS
  <2>4. m \in Seq(Closed)
    BY <2>1, <2>2, <2>3 DEF Entry, ClosedEntries
  <2> QED BY <2>1, <2>2, <2>3, <2>4 DEF Meaning
<1> QED BY <1>1, ClosedFacts DEF Gives

\* The share of an extension is what is meant by the offers to it.
LEMMA ShareIsChosen ==
  ASSUME NEW token, NEW ds \in Seq(WritableOffers)
  PROVE  Share(Contributions(ds), token) = FlatMap(Meaning, Chosen(ds, token))
<1> DEFINE Same(s) == Share(Contributions(s), token) = FlatMap(Meaning, Chosen(s, token))
           X == {s \in Seq(WritableOffers) : Same(s)}
<1>1. <<>> \in X
  <2>1. /\ Contributions(<<>>) = <<>>
        /\ Map(Choice(token), <<>>) = <<>> /\ Map(Meaning, <<>>) = <<>>
    BY DEF Contributions, Map
  <2>2. Share(<<>>, token) = <<>> /\ FlatMap(Meaning, <<>>) = <<>>
    BY <2>1, FlattenEmpty DEF Share, FlatMap
  <2> QED BY <2>1, <2>2, ChosenFacts
<1>2. ASSUME NEW s \in X, NEW o \in WritableOffers
      PROVE  Append(s, o) \in X
  <2>1. s \in Seq(WritableOffers) /\ Same(s)
    OBVIOUS
  <2>2. PICK cs \in Seq(Entries) : cs = Contributions(s)
    BY <2>1, ContributionFacts, ClosedFacts
  <2>3. PICK x \in Entries : x = Entry(o.token, MeantOffer(o))
    BY MeaningTyped
  <2>4. Contributions(Append(s, o)) = Append(cs, x)
    BY <2>1, <2>2, <2>3, ContributionFacts
  <2>5. x.token = o.token /\ x.params = MeantOffer(o)
    BY <2>3 DEF Entry
  <2>6. PICK c \in Seq(WritableOffers) : c = Chosen(s, token)
    BY <2>1, ChosenFacts
  <2>7. Share(cs, token) = FlatMap(Meaning, c)
    BY <2>1, <2>2, <2>6
  <2>8. CASE o.token = token
    <3>1. Share(Append(cs, x), token) = Share(cs, token) \o x.params
      BY <2>5, <2>8, ShareAppend
    <3>2. Chosen(Append(s, o), token) = Append(c, o)
      BY <2>1, <2>6, <2>8, ChosenFacts
    <3>3. FlatMap(Meaning, Append(c, o)) = FlatMap(Meaning, c) \o Meaning[o]
      BY MeaningTyped, FlatMapAppend
    <3>4. Meaning[o] = x.params
      BY <2>5, MeaningTyped
    <3>5. Same(Append(s, o))
      BY <2>4, <2>7, <3>1, <3>2, <3>3, <3>4
    <3> QED BY <2>1, <3>5
  <2>9. CASE o.token # token
    <3>1. Share(Append(cs, x), token) = Share(cs, token)
      BY <2>5, <2>9, ShareAppend
    <3>2. Chosen(Append(s, o), token) = c
      BY <2>1, <2>6, <2>9, ChosenFacts
    <3>3. Same(Append(s, o))
      BY <2>4, <2>7, <3>1, <3>2
    <3> QED BY <2>1, <3>3
  <2> QED BY <2>8, <2>9
<1>3. X = Seq(WritableOffers)
  <2> HIDE DEF X
  <2>1. X \in SUBSET Seq(WritableOffers)
    BY DEF X
  <2> QED BY <1>1, <1>2, <2>1, SequenceInduction
<1> QED BY <1>3

\* In the words of the property.
LEMMA OffersToIs ==
  ASSUME meant \in Seq(WritableOffers), NEW token
  PROVE  /\ OffersTo(token) = Chosen(meant, token)
         /\ FlattenSeq([i \in DOMAIN OffersTo(token) |-> MeantOffer(OffersTo(token)[i])])
              = Share(Contributions(meant), token)
<1>1. \A i \in DOMAIN meant : meant[i] \in WritableOffers
  OBVIOUS
<1>2. OffersTo(token) = Chosen(meant, token)
  <2>1. \A i \in DOMAIN meant :
          Mine(token)[meant[i]] = IF meant[i].token = token THEN << meant[i] >> ELSE <<>>
    BY <1>1 DEF Mine
  <2>2. Map(Mine(token), meant)
          = [i \in DOMAIN meant |-> IF meant[i].token = token THEN << meant[i] >> ELSE <<>>]
    BY <2>1 DEF Map
  <2> QED BY <2>2 DEF OffersTo, Chosen, FlatMap
<1>3. PICK c \in Seq(WritableOffers) : c = OffersTo(token)
  BY <1>2, ChosenFacts
<1>4. Map(Meaning, c) = [i \in DOMAIN c |-> MeantOffer(c[i])]
  <2>1. \A i \in DOMAIN c : Meaning[c[i]] = MeantOffer(c[i])
    BY MeaningTyped
  <2> QED BY <2>1 DEF Map
<1>5. Share(Contributions(meant), token) = FlattenSeq(Map(Meaning, c))
  BY <1>2, <1>3, ShareIsChosen DEF FlatMap
<1> QED BY <1>2, <1>3, <1>4, <1>5

\* ReadAsMeant says so of every request that is answered.
LEMMA ParsedAsMeantHolds ==
  ASSUME ReadAsMeant
  PROVE  ParsedAsMeant
<1> SUFFICES ASSUME meant \in Seq(WritableOffers), Tells(list, Contributions(meant))
             PROVE  /\ {list[e].token : e \in DOMAIN list} = {meant[i].token : i \in DOMAIN meant}
                    /\ IsInjective([e \in DOMAIN list |-> list[e].token])
                    /\ \A e \in DOMAIN list :
                         list[e].params = FlattenSeq([i \in DOMAIN OffersTo(list[e].token) |->
                                            MeantOffer(OffersTo(list[e].token)[i])])
  BY DEF ReadAsMeant, Told, ParsedAsMeant
<1>1. PICK cs : cs = Contributions(meant)
  OBVIOUS
<1>2. DOMAIN cs = DOMAIN meant /\ \A i \in DOMAIN meant : cs[i].token = meant[i].token
  <2>1. \A i \in DOMAIN meant : meant[i] \in WritableOffers
    OBVIOUS
  <2>2. cs = [i \in DOMAIN meant |-> Contribution[meant[i]]]
    BY <1>1 DEF Contributions, Map
  <2>3. \A i \in DOMAIN meant : Contribution[meant[i]].token = meant[i].token
    BY <2>1 DEF Contribution, Entry
  <2> QED BY <2>2, <2>3
<1>3. \A x : (\E e \in DOMAIN list : list[e].token = x)
               <=> (\E i \in DOMAIN cs : cs[i].token = x)
  BY <1>1 DEF Tells
<1>4. {list[e].token : e \in DOMAIN list} = {meant[i].token : i \in DOMAIN meant}
  <2>1. \A x : (\E e \in DOMAIN list : list[e].token = x)
                 <=> (\E i \in DOMAIN meant : meant[i].token = x)
    BY <1>2, <1>3
  <2> QED BY <2>1, Zenon
<1>5. IsInjective([e \in DOMAIN list |-> list[e].token])
  BY DEF IsInjective, Tells, ListInOrder, Once
<1>6. ASSUME NEW e \in DOMAIN list
      PROVE  list[e].params = FlattenSeq([i \in DOMAIN OffersTo(list[e].token) |->
                                MeantOffer(OffersTo(list[e].token)[i])])
  <2>1. list[e].params = Share(Contributions(meant), list[e].token)
    BY DEF Tells
  <2> QED BY <2>1, OffersToIs
<1> QED BY <1>4, <1>5, <1>6

\* Whatever a peer writes, however it is spread over headers, spaced and quoted, is
\* listed as it was meant when the request is judged, a number as INT by a build that
\* tells numbers and as text by one that does not (ParsedAsMeant).
THEOREM ListedAsMeant == Spec => []ParsedAsMeant
<1>1. ReadAsMeant => ParsedAsMeant
  BY ParsedAsMeantHolds
<1> QED BY <1>1, ReadInOrder, PTL

-----------------------------------------------------------------------------
\* The names permessage-deflate knows, and what is acceptable.

\* One writes such a name whole.
WholeName(q) == \A n \in Indices : IsPrefix(q.name, Names[n]) => q.name = Names[n]

WholeOffers == {o \in WritableOffers : \A i \in DOMAIN o.params : WholeName(o.params[i])}

\* The names differ; those of windows can be told.
LEMMA NamesDiffer ==
  /\ \A m, n \in Indices : Names[m] = Names[n] => m = n
  /\ \A n \in Indices : Names[n][2] = "max_window_bits" <=> IsWindow(n)
  /\ \A n \in Indices : IsPrefix(Names[n], Names[n])
<1>1. /\ Names[1][1] = "client_" /\ Names[1][2] = "max_window_bits" /\ Len(Names[1]) = 2
      /\ Names[2][1] = "server_" /\ Names[2][2] = "max_window_bits" /\ Len(Names[2]) = 2
      /\ Names[3][1] = "client_" /\ Names[3][2] = "no_context_takeover" /\ Len(Names[3]) = 2
      /\ Names[4][1] = "server_" /\ Names[4][2] = "no_context_takeover" /\ Len(Names[4]) = 2
  BY DEF Names
<1>2. \A n \in Indices : n = 1 \/ n = 2 \/ n = 3 \/ n = 4
  BY DEF Indices
<1>3. \A m, n \in Indices : Names[m] = Names[n] => m = n
  BY <1>1, <1>2
<1>4. \A n \in Indices : Names[n][2] = "max_window_bits" <=> IsWindow(n)
  BY <1>1, <1>2 DEF IsWindow
<1>5. \A n \in Indices : IsPrefix(Names[n], Names[n])
  BY <1>1, <1>2 DEF IsPrefix
<1> QED BY <1>3, <1>4, <1>5

\* A whole name is the one that is found.
LEMMA WholeNameIs ==
  ASSUME NEW q, WholeName(q), NEW m, m.key = q.name
  PROVE  /\ Name(m) \in 0 .. 4
         /\ Name(m) # 0 => Name(m) \in Indices /\ q.name = Names[Name(m)]
         /\ \A n \in Indices : q.name = Names[n] => Name(m) = n
<1>1. PICK k \in 0 .. 4 : k = Name(m)
  BY NameFacts
<1>2. k # 0 => k \in Indices /\ q.name = Names[k]
  BY <1>1, NameFacts DEF Indices, WholeName
<1>3. ASSUME NEW n \in Indices, q.name = Names[n] PROVE k = n
  <2>1. IsPrefix(m.key, Names[n])
    BY <1>3, NamesDiffer
  <2>2. k # 0
    BY <1>1, <2>1, NameFacts
  <2> QED BY <1>2, <1>3, <2>2, NamesDiffer
<1> QED BY <1>1, <1>2, <1>3

\* The fields of a parameter as it is meant.
LEMMA MeantFields ==
  ASSUME NEW q \in WritableParams, NEW isLast, NEW m, m = MeantParam(q, isLast)
  PROVE  /\ m.key = q.name /\ m.isLast = isLast
         /\ q.value = <<>> => m.type = "BOOL"
         /\ q.value # <<>> /\ IsNumber(q.value) => m.type = "INT" /\ m.int = Number(q.value)
         /\ q.value # <<>> /\ ~ IsNumber(q.value) => m.type = "STRING"
<1>1. PICK k : k = q.name
  OBVIOUS
<1>2. PICK v : v = q.value
  OBVIOUS
<1>3. CASE v = <<>>
  <2>1. m = Made(k, "BOOL", 0, <<>>, isLast)
    BY <1>1, <1>2, <1>3, MeantIs, ZenonT(60)
  <2> QED BY <1>1, <1>2, <1>3, <2>1 DEF Made
<1>4. CASE v # <<>> /\ IsNumber(v)
  <2>1. PICK n : n = Number(v)
    OBVIOUS
  <2>2. m = Made(k, "INT", n, <<>>, isLast)
    BY <1>1, <1>2, <1>4, <2>1, MeantIs, ZenonT(60)
  <2> QED BY <1>1, <1>2, <1>4, <2>1, <2>2 DEF Made
<1>5. CASE v # <<>> /\ ~ IsNumber(v)
  <2>1. m = Made(k, "STRING", 0, v, isLast)
    BY <1>1, <1>2, <1>5, MeantIs, ZenonT(60)
  <2> QED BY <1>1, <1>2, <1>5, <2>1 DEF Made
<1> QED BY <1>3, <1>4, <1>5

\* What is acceptable: a name that is known, and with it a window or no value.
LEMMA AcceptableIs ==
  ASSUME NEW q \in WritableParams
  PROVE  IsAcceptable(q) <=>
           \E n \in Indices : /\ q.name = Names[n]
                              /\ q.value # <<>> =>
                                   /\ IsWindow(n) /\ IsNumber(q.value)
                                   /\ Number(q.value) \in 8 .. 15
<1>1. PICK k, v : k = q.name /\ v = q.value
  OBVIOUS
<1>2. PICK x : x = Number(v)
  OBVIOUS
<1>3. v # <<>> => (IsNumber(v) <=> IsNumeral(v) /\ TellsNumbers)
  BY <1>1, WrittenParamIs, TextFacts, NumberTold
<1>4. IsWindowName(k) <=> k = Names[1] \/ k = Names[2]
  BY DEF IsWindowName
<1>5. \A n \in Indices : n = 1 \/ n = 2 \/ n = 3 \/ n = 4
  BY DEF Indices
<1>6. 1 \in Indices /\ 2 \in Indices /\ 3 \in Indices /\ 4 \in Indices
  BY DEF Indices
<1>7. IsWindow(1) /\ IsWindow(2) /\ ~ IsWindow(3) /\ ~ IsWindow(4)
  BY DEF IsWindow
<1>8. IsAcceptable(q) <=>
        /\ \/ (k = Names[3] \/ k = Names[4]) /\ v = <<>>
           \/ (k = Names[1] \/ k = Names[2]) /\ v = <<>>
           \/ IsWindowName(k) /\ v # <<>> /\ IsNumeral(v) /\ x \in 8 .. 15
        /\ v # <<>> => TellsNumbers
  BY <1>1, <1>2 DEF IsAcceptable, IsLegal, IsLax, IsWindowValue
<1>9. CASE v = <<>>
  <2>1. IsAcceptable(q) <=> \E n \in Indices : k = Names[n]
    BY <1>5, <1>6, <1>8, <1>9
  <2> QED BY <1>1, <1>9, <2>1
<1>10. CASE v # <<>>
  <2>1. IsAcceptable(q) <=> IsWindowName(k) /\ IsNumber(v) /\ x \in 8 .. 15
    BY <1>3, <1>8, <1>10
  <2>2. IsWindowName(k) <=> \E n \in Indices : k = Names[n] /\ IsWindow(n)
    BY <1>4, <1>5, <1>6, <1>7
  <2> QED BY <1>1, <1>2, <1>10, <2>1, <2>2
<1> QED BY <1>9, <1>10

\* What is acceptable is taken, with the value that was asked for, and nothing
\* else is.
LEMMA AcceptableIsTaken ==
  ASSUME NEW q \in WritableParams, WholeName(q), NEW isLast, NEW m, m = MeantParam(q, isLast)
  PROVE  /\ IsTaken(m) <=> IsAcceptable(q)
         /\ IsTaken(m) => Value(m) = (IF ~ IsWindow(Name(m)) THEN 1
                                      ELSE IF q.value = <<>> THEN 15 ELSE Number(q.value))
<1>1. /\ m.key = q.name
      /\ q.value = <<>> => m.type = "BOOL"
      /\ q.value # <<>> /\ IsNumber(q.value) => m.type = "INT" /\ m.int = Number(q.value)
      /\ q.value # <<>> /\ ~ IsNumber(q.value) => m.type = "STRING"
  BY MeantFields
<1>2. PICK x : x = Number(q.value)
  OBVIOUS
<1>3. PICK n : n = Name(m)
  OBVIOUS
<1>4. /\ n # 0 => n \in Indices /\ q.name = Names[n]
      /\ \A k \in Indices : q.name = Names[k] => n = k
      /\ n \in 0 .. 4 /\ 0 \notin Indices
  BY <1>1, <1>3, WholeNameIs DEF Indices
<1>5. IsTaken(m) <=> /\ n \in Indices
                     /\ IsWindow(n) => m.type # "STRING" /\ (m.type = "INT" => m.int \in 8 .. 15)
                     /\ ~ IsWindow(n) => m.type = "BOOL"
  BY <1>3, TakenIs
<1>6. IsAcceptable(q) <=>
        /\ n \in Indices
        /\ q.value # <<>> => IsWindow(n) /\ IsNumber(q.value) /\ x \in 8 .. 15
  BY <1>2, <1>4, AcceptableIs
<1>7. IsTaken(m) <=> IsAcceptable(q)
  <2>1. CASE q.value = <<>>
    BY <1>1, <1>5, <1>6, <2>1
  <2>2. CASE q.value # <<>> /\ IsNumber(q.value)
    BY <1>1, <1>2, <1>5, <1>6, <2>2
  <2>3. CASE q.value # <<>> /\ ~ IsNumber(q.value)
    BY <1>1, <1>5, <1>6, <2>3
  <2> QED BY <2>1, <2>2, <2>3
<1>8. ASSUME IsTaken(m)
      PROVE  Value(m) = (IF ~ IsWindow(n) THEN 1 ELSE IF q.value = <<>> THEN 15 ELSE x)
  <2>1. IsWindow(n) => q.value = <<>> \/ IsNumber(q.value)
    BY <1>1, <1>5, <1>8
  <2>2. Value(m) = IF ~ IsWindow(n) THEN 1 ELSE IF m.type = "BOOL" THEN 15 ELSE m.int
    BY <1>3 DEF Value
  <2>3. CASE ~ IsWindow(n)
    BY <2>2, <2>3
  <2>4. CASE IsWindow(n) /\ q.value = <<>>
    BY <1>1, <2>2, <2>4
  <2>5. CASE IsWindow(n) /\ q.value # <<>>
    <3>1. m.type = "INT" /\ m.int = x
      BY <1>1, <1>2, <2>1, <2>5
    <3> QED BY <2>2, <2>5, <3>1
  <2> QED BY <2>3, <2>4, <2>5
<1> QED BY <1>2, <1>3, <1>7, <1>8

-----------------------------------------------------------------------------
\* How an offer is decided.

\* The offer is decided where the loop ends first.
LEMMA FirstStopDecides ==
  ASSUME NEW params \in Seq(Params), NEW i, StopsFirstAt(params, i)
  PROVE  ValidateOffer(params) = DecidedAt(params, i)
<1> DEFINE stops == {k \in DOMAIN params : StopsAt(params, k)}
           first == CHOOSE k \in stops : \A j \in stops : k <= j
<1>1. ValidateOffer(params) = IF stops = {} THEN Refused ELSE DecidedAt(params, first)
  BY DEF ValidateOffer, DecidedAt
<1>2. PICK n \in Nat : n = Len(params) /\ DOMAIN params = 1 .. n
  OBVIOUS
<1>3. PICK m \in 1 .. n : m = i
  BY <1>2 DEF StopsFirstAt
<1>4. m \in stops
  BY <1>3 DEF StopsFirstAt
<1>5. \A j \in stops : m <= j
  <2> SUFFICES ASSUME NEW j \in stops, ~ (m <= j) PROVE FALSE
    OBVIOUS
  <2>1. j \in 1 .. n /\ StopsAt(params, j)
    BY <1>2
  <2>2. j \in 1 .. m - 1
    BY <2>1
  <2> QED BY <1>3, <2>1, <2>2 DEF StopsFirstAt
<1>6. \A j \in stops : j \in Nat
  BY <1>2
<1>7. first = m
  <2> HIDE DEF stops
  <2>1. first \in stops /\ \A j \in stops : first <= j
    BY <1>4, <1>5
  <2>2. first \in Nat /\ m \in Nat /\ first <= m /\ m <= first
    BY <1>4, <1>5, <1>6, <2>1
  <2> HIDE DEF first
  <2> QED BY <2>2
<1> QED BY <1>1, <1>3, <1>4, <1>7

\* The parameters begin with what is meant by first.
Leads(params, first) ==
  /\ params \in Seq(Params) /\ first \in Seq(WritableParams) /\ first # <<>>
  /\ Len(first) <= Len(params)
  /\ \A i \in 1 .. Len(first) :
       /\ WholeName(first[i]) /\ params[i] = MeantParam(first[i], i = Len(first))

\* The loop takes all of them.
AllTaken(params, n) == \A i \in 1 .. n : IsTaken(params[i]) /\ ~ Repeats(params, i)

\* Each of them has a name, and the last is marked.
LEMMA LeadsFacts ==
  ASSUME NEW params, NEW first, Leads(params, first), NEW i \in 1 .. Len(first)
  PROVE  /\ i \in DOMAIN params /\ params[i].key # <<>> /\ params[i].key = first[i].name
         /\ params[i].isLast <=> i = Len(first)
         /\ IsTaken(params[i]) <=> IsAcceptable(first[i])
         /\ IsTaken(params[i]) =>
              Value(params[i]) = (IF ~ IsWindow(Name(params[i])) THEN 1
                                  ELSE IF first[i].value = <<>> THEN 15
                                  ELSE Number(first[i].value))
         /\ Name(params[i]) # 0 =>
              Name(params[i]) \in Indices /\ first[i].name = Names[Name(params[i])]
         /\ \A n \in Indices : first[i].name = Names[n] => Name(params[i]) = n
         /\ IsTaken(params[i]) => Name(params[i]) # 0
<1>1. PICK q : q = first[i]
  OBVIOUS
<1>2. PICK isLast : isLast = (i = Len(first))
  OBVIOUS
<1>3. PICK m : m = params[i]
  OBVIOUS
<1>4. m = MeantParam(q, isLast) /\ WholeName(q)
  BY <1>1, <1>2, <1>3 DEF Leads
<1>5. q \in WritableParams
  BY <1>1 DEF Leads
<1>6. q.name # <<>>
  BY <1>5, HalfTyped
<1>7. m.key = q.name /\ m.isLast = isLast
  BY <1>4, <1>5, MeantFields
<1>8. IsTaken(m) <=> IsAcceptable(q)
  BY <1>4, <1>5, AcceptableIsTaken
<1>9. IsTaken(m) => Value(m) = (IF ~ IsWindow(Name(m)) THEN 1
                                 ELSE IF q.value = <<>> THEN 15 ELSE Number(q.value))
  BY <1>4, <1>5, AcceptableIsTaken
<1>10. /\ Name(m) # 0 => Name(m) \in Indices /\ q.name = Names[Name(m)]
       /\ \A n \in Indices : q.name = Names[n] => Name(m) = n
  BY <1>4, <1>7, WholeNameIs
<1>11. IsTaken(m) => Name(m) # 0
  BY TakenIs DEF Indices
<1>12. i \in DOMAIN params
  <2>1. Len(params) \in Nat /\ Len(first) \in Nat /\ Len(first) <= Len(params)
        /\ DOMAIN params = 1 .. Len(params)
    BY DEF Leads
  <2> QED BY <2>1
<1>13. m.isLast <=> i = Len(first)
  BY <1>2, <1>7
<1> QED BY <1>1, <1>3, <1>6, <1>7, <1>8, <1>9, <1>10, <1>11, <1>12, <1>13

\* All are taken if the offer is acceptable: its parameters are, and their names differ.
LEMMA TakenIfAcceptable ==
  ASSUME NEW params, NEW first, Leads(params, first)
  PROVE  AllTaken(params, Len(first))
           <=> /\ \A i \in DOMAIN first : IsAcceptable(first[i])
               /\ IsInjective([i \in DOMAIN first |-> first[i].name])
<1>1. PICK n \in Nat : n = Len(first) /\ DOMAIN first = 1 .. n
  BY DEF Leads
<1>2. ASSUME NEW i \in 1 .. n PROVE IsTaken(params[i]) <=> IsAcceptable(first[i])
  BY <1>1, LeadsFacts
<1>3. IsInjective([i \in DOMAIN first |-> first[i].name])
        <=> \A i, j \in 1 .. n : first[i].name = first[j].name => i = j
  BY <1>1 DEF IsInjective
<1>4. ASSUME \A i \in 1 .. n : IsTaken(params[i]), NEW i \in 1 .. n, NEW j \in 1 .. n
      PROVE  Name(params[i]) = Name(params[j]) <=> first[i].name = first[j].name
  <2>1. /\ Name(params[i]) \in Indices /\ first[i].name = Names[Name(params[i])]
        /\ \A k \in Indices : first[i].name = Names[k] => Name(params[i]) = k
    BY <1>1, <1>4, LeadsFacts
  <2>2. /\ Name(params[j]) \in Indices /\ first[j].name = Names[Name(params[j])]
    BY <1>1, <1>4, LeadsFacts
  <2> QED BY <2>1, <2>2
<1>5. ASSUME \A i \in 1 .. n : IsTaken(params[i])
      PROVE  (\A i \in 1 .. n : ~ Repeats(params, i))
               <=> \A i, j \in 1 .. n : first[i].name = first[j].name => i = j
  <2>1. ASSUME \A i \in 1 .. n : ~ Repeats(params, i), NEW i \in 1 .. n, NEW j \in 1 .. n,
               first[i].name = first[j].name
        PROVE  i = j
    <3>1. Name(params[i]) = Name(params[j])
      BY <1>4, <1>5, <2>1
    <3>2. i < j => i \in 1 .. j - 1
      OBVIOUS
    <3>3. j < i => j \in 1 .. i - 1
      OBVIOUS
    <3>4. ~ (i < j) /\ ~ (j < i)
      BY <2>1, <3>1, <3>2, <3>3 DEF Repeats
    <3> QED BY <3>4
  <2>2. ASSUME \A i, j \in 1 .. n : first[i].name = first[j].name => i = j,
               NEW i \in 1 .. n, Repeats(params, i)
        PROVE  FALSE
    <3>1. PICK j \in 1 .. i - 1 : Name(params[j]) = Name(params[i])
      BY <2>2 DEF Repeats
    <3>2. j \in 1 .. n /\ j # i
      OBVIOUS
    <3>3. first[j].name = first[i].name
      BY <1>4, <1>5, <3>1, <3>2
    <3> QED BY <2>2, <3>2, <3>3
  <2> QED BY <2>1, <2>2
<1>6. AllTaken(params, n) <=> /\ \A i \in 1 .. n : IsTaken(params[i])
                              /\ \A i \in 1 .. n : ~ Repeats(params, i)
  BY DEF AllTaken
<1>7. (\A i \in DOMAIN first : IsAcceptable(first[i])) <=> \A i \in 1 .. n : IsTaken(params[i])
  BY <1>1, <1>2
<1> QED BY <1>1, <1>3, <1>5, <1>6, <1>7

\* Then what they ask for is collected, else the offer is refused.
LEMMA DecidedByFirst ==
  ASSUME NEW params, NEW first, Leads(params, first)
  PROVE  /\ AllTaken(params, Len(first)) =>
              ValidateOffer(params)
                = [kind |-> "accepted", config |-> Collected(params, Len(first))]
         /\ ~ AllTaken(params, Len(first)) => ValidateOffer(params) = Refused
<1>1. PICK n \in Nat : n = Len(first) /\ n # 0 /\ n \in 1 .. n
  <2>1. Len(first) \in Nat /\ Len(first) # 0
    BY EmptySeq DEF Leads
  <2> QED BY <2>1
<1>2. params \in Seq(Params)
  BY DEF Leads
<1>3. ASSUME NEW i \in 1 .. n
      PROVE  i \in DOMAIN params /\ params[i].key # <<>> /\ (params[i].isLast <=> i = n)
  BY <1>1, LeadsFacts
<1>4. ASSUME AllTaken(params, n)
      PROVE  ValidateOffer(params) = [kind |-> "accepted", config |-> Collected(params, n)]
  <2>1. \A i \in 1 .. n : IsTaken(params[i]) /\ ~ Repeats(params, i)
    BY <1>4 DEF AllTaken
  <2>2. \A i \in 1 .. n - 1 : i \in 1 .. n /\ i # n
    OBVIOUS
  <2>3. \A i \in 1 .. n - 1 : ~ StopsAt(params, i)
    BY <1>3, <2>1, <2>2 DEF StopsAt
  <2>4. StopsFirstAt(params, n)
    BY <1>1, <1>3, <2>3 DEF StopsFirstAt, StopsAt
  <2>5. ValidateOffer(params) = DecidedAt(params, n)
    BY <1>2, <2>4, FirstStopDecides
  <2> QED BY <1>1, <1>3, <2>1, <2>5 DEF DecidedAt
<1>5. ASSUME ~ AllTaken(params, n) PROVE ValidateOffer(params) = Refused
  <2> SUFFICES ASSUME ValidateOffer(params) # Refused PROVE FALSE
    OBVIOUS
  <2>1. PICK i \in DOMAIN params : /\ StopsFirstAt(params, i)
                                   /\ ValidateOffer(params) = DecidedAt(params, i)
    BY <1>2, DecisionFacts
  <2>2. i \in Nat /\ i # 0 /\ i >= 1
    BY <1>2
  <2>3. i <= n
    <3> SUFFICES ASSUME ~ (i <= n) PROVE FALSE
      OBVIOUS
    <3>1. n \in 1 .. i - 1
      BY <1>1, <2>2
    <3> QED BY <1>1, <1>3, <2>1, <3>1 DEF StopsFirstAt, StopsAt
  <2>4. i \in 1 .. n
    BY <2>2, <2>3
  <2>5. IsTaken(params[i]) /\ ~ Repeats(params, i)
    BY <1>3, <2>1, <2>4 DEF DecidedAt
  <2>6. params[i].isLast
    BY <1>3, <2>1, <2>4, <2>5 DEF StopsFirstAt, StopsAt
  <2>7. i = n
    BY <1>3, <2>4, <2>6
  <2>8. \A j \in 1 .. n : j = n \/ j \in 1 .. n - 1
    OBVIOUS
  <2>9. \A j \in 1 .. n - 1 : IsTaken(params[j]) /\ ~ Repeats(params, j)
    BY <2>1, <2>7 DEF StopsFirstAt, StopsAt
  <2> QED BY <1>5, <2>5, <2>7, <2>8, <2>9 DEF AllTaken
<1> QED BY <1>1, <1>4, <1>5

-----------------------------------------------------------------------------
\* What is collected is what was asked for.

\* What an offer asks for one setting.
AskedFor(first, n) ==
  LET by == {i \in DOMAIN first : first[i].name = Names[n]}
      i == CHOOSE k \in by : TRUE
  IN  CASE by = {} -> Defaults[n]
        [] by # {} /\ ~ IsWindow(n) -> 1
        [] OTHER -> IF first[i].value = <<>> THEN 15 ELSE Number(first[i].value)

\* Nothing, or what the one parameter of that name says.
LEMMA AskedForIs ==
  ASSUME NEW first, NEW n
  PROVE  /\ (\A i \in DOMAIN first : first[i].name # Names[n]) =>
              AskedFor(first, n) = Defaults[n]
         /\ \A g \in DOMAIN first :
              /\ first[g].name = Names[n]
              /\ \A i \in DOMAIN first : first[i].name = Names[n] => i = g
              => AskedFor(first, n) =
                   (IF ~ IsWindow(n) THEN 1
                    ELSE IF first[g].value = <<>> THEN 15 ELSE Number(first[g].value))
<1> DEFINE by == {i \in DOMAIN first : first[i].name = Names[n]}
           c == CHOOSE k \in by : TRUE
<1>1. AskedFor(first, n) =
        CASE by = {} -> Defaults[n]
          [] by # {} /\ ~ IsWindow(n) -> 1
          [] OTHER -> IF first[c].value = <<>> THEN 15 ELSE Number(first[c].value)
  BY DEF AskedFor
<1>2. ASSUME \A i \in DOMAIN first : first[i].name # Names[n]
      PROVE  AskedFor(first, n) = Defaults[n]
  <2>1. by = {}
    BY <1>2
  <2> HIDE DEF by
  <2> QED BY <1>1, <2>1
<1>3. ASSUME NEW g \in DOMAIN first, first[g].name = Names[n],
             \A i \in DOMAIN first : first[i].name = Names[n] => i = g
      PROVE  AskedFor(first, n) =
               (IF ~ IsWindow(n) THEN 1
                ELSE IF first[g].value = <<>> THEN 15 ELSE Number(first[g].value))
  <2>1. by = {g}
    BY <1>3
  <2>2. c = g
    BY <2>1
  <2>3. by # {}
    BY <2>1
  <2> HIDE DEF by, c
  <2>4. PICK x : x = Number(first[g].value)
    OBVIOUS
  <2>5. CASE IsWindow(n)
    <3>1. AskedFor(first, n) = IF first[c].value = <<>> THEN 15 ELSE Number(first[c].value)
      BY <1>1, <2>3, <2>5
    <3> QED BY <2>2, <2>5, <3>1
  <2>6. CASE ~ IsWindow(n)
    BY <1>1, <2>3, <2>6
  <2> QED BY <2>5, <2>6
<1> QED BY <1>2, <1>3

\* If all are taken, every setting is collected as it was asked for.
LEMMA CollectedAsAsked ==
  ASSUME NEW params, NEW first, Leads(params, first), AllTaken(params, Len(first)),
         NEW o, o.params = first
  PROVE  Collected(params, Len(first)) = Asked(o)
<1>1. PICK n \in Nat : n = Len(first) /\ n # 0 /\ DOMAIN first = 1 .. n /\ n \in 1 .. n
  <2>1. Len(first) \in Nat /\ Len(first) # 0 /\ DOMAIN first = 1 .. Len(first)
    BY EmptySeq DEF Leads
  <2> QED BY <2>1
<1>2. params \in Seq(Params) /\ n \in DOMAIN params
  BY <1>1, LeadsFacts DEF Leads
<1>3. ASSUME NEW i \in 1 .. n
      PROVE  /\ Name(params[i]) \in Indices /\ first[i].name = Names[Name(params[i])]
             /\ \A k \in Indices : first[i].name = Names[k] => Name(params[i]) = k
             /\ Value(params[i]) = (IF ~ IsWindow(Name(params[i])) THEN 1
                                    ELSE IF first[i].value = <<>> THEN 15
                                    ELSE Number(first[i].value))
  <2>1. IsTaken(params[i])
    BY <1>1 DEF AllTaken
  <2>2. Name(params[i]) # 0
    BY <1>1, <2>1, LeadsFacts
  <2>3. /\ Name(params[i]) \in Indices /\ first[i].name = Names[Name(params[i])]
        /\ \A k \in Indices : first[i].name = Names[k] => Name(params[i]) = k
    BY <1>1, <2>2, LeadsFacts
  <2>4. Value(params[i]) = (IF ~ IsWindow(Name(params[i])) THEN 1
                            ELSE IF first[i].value = <<>> THEN 15
                            ELSE Number(first[i].value))
    BY <1>1, <2>1, LeadsFacts
  <2> QED BY <2>3, <2>4
<1>4. ASSUME NEW i \in 1 .. n, NEW j \in 1 .. n, Name(params[i]) = Name(params[j])
      PROVE  i = j
  <2>1. i < j => i \in 1 .. j - 1
    OBVIOUS
  <2>2. j < i => j \in 1 .. i - 1
    OBVIOUS
  <2>3. ~ Repeats(params, i) /\ ~ Repeats(params, j)
    BY <1>1 DEF AllTaken
  <2>4. ~ (i < j) /\ ~ (j < i)
    BY <1>4, <2>1, <2>2, <2>3 DEF Repeats
  <2> QED BY <2>4
<1>5. ASSUME NEW k \in Indices PROVE Collected(params, n)[k] = AskedFor(first, k)
  <2>1. PICK g : g = Giver(params, n, k)
    OBVIOUS
  <2>2. /\ g \in 0 .. n /\ (g # 0 => Name(params[g]) = k)
        /\ g = 0 => \A j \in 1 .. n : Name(params[j]) # k
    BY <1>2, <2>1, GiverFacts
  <2>3. Collected(params, n)[k] = IF g = 0 THEN Defaults[k] ELSE Value(params[g])
    BY <1>2, <2>1, CollectedIs
  <2>4. CASE g = 0
    <3>1. \A i \in DOMAIN first : first[i].name # Names[k]
      BY <1>1, <1>3, <2>2, <2>4
    <3>2. AskedFor(first, k) = Defaults[k]
      BY <3>1, AskedForIs
    <3> QED BY <2>3, <2>4, <3>2
  <2>5. CASE g # 0
    <3>1. g \in DOMAIN first /\ g \in 1 .. n
      BY <1>1, <2>2, <2>5
    <3>2. Name(params[g]) = k
      BY <2>2, <2>5
    <3>3. first[g].name = Names[k]
      BY <1>3, <3>1, <3>2
    <3>4. \A i \in DOMAIN first : first[i].name = Names[k] => i = g
      BY <1>1, <1>3, <1>4, <3>1, <3>2
    <3>5. PICK x : x = Number(first[g].value)
      OBVIOUS
    <3>6. AskedFor(first, k) =
            (IF ~ IsWindow(k) THEN 1 ELSE IF first[g].value = <<>> THEN 15 ELSE x)
      BY <3>1, <3>3, <3>4, <3>5, AskedForIs
    <3>7. Value(params[g]) =
            (IF ~ IsWindow(k) THEN 1 ELSE IF first[g].value = <<>> THEN 15 ELSE x)
      BY <1>3, <3>1, <3>2, <3>5
    <3> QED BY <2>3, <2>5, <3>6, <3>7
  <2> QED BY <2>4, <2>5
<1>6. Asked(o) = [k \in Indices |-> AskedFor(first, k)]
  <2>1. Asked(o) = [k \in DOMAIN Names |-> AskedFor(o.params, k)]
    BY DEF Asked, AskedFor
  <2> QED BY <2>1, FourSettings
<1>7. PICK f : f = Collected(params, n)
  OBVIOUS
<1>8. f = [k \in Indices |-> f[k]]
  BY <1>2, <1>7, CollectedIs
<1> QED BY <1>1, <1>5, <1>6, <1>7, <1>8

-----------------------------------------------------------------------------
\* The offers to permessage-deflate.

\* There is none if no token is the one looked for.
LEMMA ChosenNone ==
  ASSUME NEW token, NEW ds \in Seq(WritableOffers)
  PROVE  Chosen(ds, token) = <<>> <=> \A i \in DOMAIN ds : ds[i].token # token
<1> DEFINE None(s) == Chosen(s, token) = <<>> <=> \A i \in DOMAIN s : s[i].token # token
           X == {s \in Seq(WritableOffers) : None(s)}
<1>1. <<>> \in X
  <2>1. DOMAIN <<>> = {}
    OBVIOUS
  <2>2. Chosen(<<>>, token) = <<>>
    BY ChosenFacts
  <2> QED BY <2>1, <2>2
<1>2. ASSUME NEW s \in X, NEW o \in WritableOffers
      PROVE  Append(s, o) \in X
  <2>1. s \in Seq(WritableOffers) /\ None(s)
    OBVIOUS
  <2>2. PICK c \in Seq(WritableOffers) : c = Chosen(s, token)
    BY <2>1, ChosenFacts
  <2>3. PICK t \in Seq(WritableOffers) : t = Append(s, o)
    BY <2>1, AppendProperties
  <2>4. PICK n \in Nat : n = Len(s) /\ DOMAIN s = 1 .. n
    BY <2>1
  <2>5. DOMAIN t = 1 .. n + 1 /\ t[n + 1] = o /\ \A i \in 1 .. n : t[i] = s[i]
    BY <2>1, <2>3, <2>4, AppendProperties
  <2>6. CASE o.token = token
    <3>1. Chosen(t, token) = Append(c, o)
      BY <2>1, <2>2, <2>3, <2>6, ChosenFacts
    <3>2. PICK d \in Seq(WritableOffers) : d = Append(c, o) /\ d # <<>>
      BY AppendProperties, EmptySeq
    <3>3. n + 1 \in DOMAIN t
      BY <2>4, <2>5
    <3>4. None(t)
      BY <2>5, <2>6, <3>1, <3>2, <3>3
    <3> QED BY <2>3, <3>4
  <2>7. CASE o.token # token
    <3>1. Chosen(t, token) = c
      BY <2>1, <2>2, <2>3, <2>7, ChosenFacts
    <3>2. \A i \in 1 .. n + 1 : i \in 1 .. n \/ i = n + 1
      BY <2>4
    <3>3. \A i \in 1 .. n : i \in 1 .. n + 1
      BY <2>4
    <3>4. (\A i \in DOMAIN t : t[i].token # token) <=> \A i \in DOMAIN s : s[i].token # token
      BY <2>4, <2>5, <2>7, <3>2, <3>3
    <3>5. None(t)
      BY <2>1, <2>2, <3>1, <3>4
    <3> QED BY <2>3, <3>5
  <2> QED BY <2>6, <2>7
<1>3. X = Seq(WritableOffers)
  <2> HIDE DEF X
  <2>1. X \in SUBSET Seq(WritableOffers)
    BY DEF X
  <2> QED BY <1>1, <1>2, <2>1, SequenceInduction
<1> QED BY <1>3

\* Every name permessage-deflate knows is meant whole.
MeantWhole == meant \in Seq(WholeOffers)

\* What is asked for in the requests is.
LEMMA InitIsWhole ==
  ASSUME Init
  PROVE  MeantWhole
<1>1. CASE meant = Unknown
  <2>1. <<>> \in Seq(WholeOffers)
    OBVIOUS
  <2> QED BY <1>1, <2>1 DEF MeantWhole, Unknown
<1>2. CASE meant # Unknown
  <2>1. PICK r \in Requests : meant = FlattenSeq(r)
    BY <1>2 DEF Init
  <2>2. r \in Seq(Seq(WritableOffers) \ {<<>>})
    BY NegotiationAssumption
  <2>3. \A h \in DOMAIN r : r[h] \in Seq(WritableOffers)
    BY <2>2
  <2>4. ASSUME NEW h \in DOMAIN r, NEW i \in DOMAIN r[h] PROVE r[h][i] \in WholeOffers
    <3>1. PICK o \in WritableOffers : o = r[h][i]
      BY <2>3, <2>4
    <3>2. r[h] \in ToSet(r) /\ o \in ToSet(r[h])
      BY <2>4, <3>1 DEF ToSet
    <3>3. \A j \in DOMAIN o.params : o.params[j] \in ToSet(o.params)
      BY DEF ToSet
    <3>4. \A q \in ToSet(o.params) : WholeName(q)
      BY <3>2, NamesAreWhole, FourSettings DEF WholeName
    <3> QED BY <3>1, <3>3, <3>4 DEF WholeOffers
  <2>5. \A h \in DOMAIN r : r[h] \in Seq(WholeOffers)
    <3> TAKE h \in DOMAIN r
    <3>1. PICK s \in Seq(WritableOffers) : s = r[h]
      BY <2>3
    <3>2. \A i \in 1 .. Len(s) : s[i] \in WholeOffers
      BY <2>4, <3>1
    <3>3. s \in Seq(WholeOffers)
      BY <3>2
    <3> QED BY <3>1, <3>3
  <2>6. r \in Seq(Seq(WholeOffers))
    <3>1. DOMAIN r = 1 .. Len(r) /\ Len(r) \in Nat
          /\ r = [h \in 1 .. Len(r) |-> r[h]]
      BY <2>2
    <3>2. r \in [1 .. Len(r) -> Seq(WholeOffers)]
      BY <2>5, <3>1
    <3> QED BY <3>1, <3>2, IsASeq
  <2>7. FlattenSeq(r) \in Seq(WholeOffers)
    BY <2>6, FlattenTyped
  <2> QED BY <2>1, <2>7 DEF MeantWhole
<1> QED BY <1>1, <1>2

\* And what was meant stays.
LEMMA WholeIsKept ==
  ASSUME MeantWhole, [Next]_vars
  PROVE  MeantWhole'
<1>1. meant' = meant
  BY DEF vars, Next, Parse, NextHeader, Quote, SkipSpace, TakeLetter, EndExtension, EndParam,
         EndHeader, Validate, Refuse, Step
<1> QED BY <1>1 DEF MeantWhole

\* So are the offers to one extension.
LEMMA ChosenWhole ==
  ASSUME NEW ds \in Seq(WholeOffers), NEW token
  PROVE  ds \in Seq(WritableOffers) /\ Chosen(ds, token) \in Seq(WholeOffers)
<1>1. WholeOffers \subseteq WritableOffers
  BY DEF WholeOffers
<1>2. ds \in Seq(WritableOffers)
  BY <1>1, SeqMonotonic
<1>3. ASSUME NEW o \in WholeOffers PROVE Mine(token)[o] \in Seq(WholeOffers)
  <2>1. << o >> \in Seq(WholeOffers) /\ <<>> \in Seq(WholeOffers)
    OBVIOUS
  <2> QED BY <1>1, <2>1 DEF Mine
<1>4. Gives(Mine(token), WholeOffers, Seq(WholeOffers))
  BY <1>3 DEF Gives
<1> QED BY <1>2, <1>4, FlatMapTyped DEF Chosen

-----------------------------------------------------------------------------
\* The first offer decides.

AcceptableOffer(o) ==
  /\ \A i \in DOMAIN o.params : IsAcceptable(o.params[i])
  /\ IsInjective([i \in DOMAIN o.params |-> o.params[i].name])

\* The first of the parameters params are those of the offer o.
Begins(params, o) ==
  \E rest \in Seq(Params) : params = Cat(MeantOffer(o), rest)

\* As they do where an offer with parameters is the first.
LEMMA OfferLeads ==
  ASSUME NEW o \in WholeOffers, o.params # <<>>, NEW params, Begins(params, o)
  PROVE  Leads(params, o.params)
<1>1. o \in WritableOffers /\ \A i \in DOMAIN o.params : WholeName(o.params[i])
  BY DEF WholeOffers
<1>2. PICK first \in Seq(WritableParams) : first = o.params
  BY <1>1 DEF WritableOffers
<1>3. PICK n \in Nat : n = Len(first) /\ DOMAIN first = 1 .. n
  OBVIOUS
<1>4. PICK m \in Seq(Params) : m = MeantOffer(o)
  BY <1>1, MeaningTyped
<1>5. m = [i \in 1 .. n |-> MeantParam(first[i], i = n)]
  BY <1>2, <1>3, <1>4 DEF MeantOffer
<1>6. Len(m) = n /\ \A i \in 1 .. n : m[i] = MeantParam(first[i], i = n)
  <2>1. DOMAIN m = 1 .. n
    BY <1>5
  <2>2. DOMAIN m = 1 .. Len(m) /\ Len(m) \in Nat
    OBVIOUS
  <2>3. Len(m) = n
    BY <1>3, <2>1, <2>2
  <2> QED BY <1>5, <2>3
<1>7. PICK rest \in Seq(Params) : params = Cat(m, rest)
  BY <1>4 DEF Begins
<1>8. PICK k \in Nat : k = Len(rest)
  OBVIOUS
<1>9. /\ m \o rest \in Seq(Params) /\ Len(m \o rest) = Len(m) + Len(rest)
      /\ \A i \in 1 .. Len(m) + Len(rest) :
           (m \o rest)[i] = IF i <= Len(m) THEN m[i] ELSE rest[i - Len(m)]
  BY ConcatProperties
<1>10. /\ params \in Seq(Params) /\ Len(params) = n + k
       /\ \A i \in 1 .. n + k : params[i] = IF i <= n THEN m[i] ELSE rest[i - n]
  BY <1>6, <1>7, <1>8, <1>9 DEF Cat
<1>11. \A i \in 1 .. n : i \in 1 .. n + k /\ i <= n
  BY <1>3, <1>8
<1>12. \A i \in 1 .. n : params[i] = MeantParam(first[i], i = n)
  BY <1>6, <1>10, <1>11
<1>13. n <= n + k
  BY <1>3, <1>8
<1>14. Leads(params, first)
  BY <1>1, <1>2, <1>3, <1>10, <1>12, <1>13 DEF Leads
<1> QED BY <1>2, <1>14

\* What the offer asks for, setting by setting.
LEMMA AskedIs ==
  ASSUME NEW o
  PROVE  Asked(o) = [k \in Indices |-> AskedFor(o.params, k)]
<1>1. Asked(o) = [k \in DOMAIN Names |-> AskedFor(o.params, k)]
  BY DEF Asked, AskedFor
<1> QED BY <1>1, FourSettings

\* An offer without parameters asks for the defaults, and has them.
LEMMA BareOfferDecides ==
  ASSUME NEW o \in WholeOffers, o.params = <<>>, NEW params, Begins(params, o)
  PROVE  /\ AcceptableOffer(o)
         /\ ValidateOffer(params) = [kind |-> "accepted", config |-> Asked(o)]
<1>1. o \in WritableOffers
  BY DEF WholeOffers
<1>2. DOMAIN o.params = {}
  OBVIOUS
<1>3. AcceptableOffer(o)
  BY <1>2 DEF AcceptableOffer, IsInjective
<1>4. Asked(o) = Defaults
  <2>1. \A k \in Indices : AskedFor(o.params, k) = Defaults[k]
    BY <1>2, AskedForIs
  <2>2. PICK d : d = Defaults
    OBVIOUS
  <2>3. d \in [Indices -> Nat]
    BY <2>2 DEF Defaults, Indices
  <2>4. d = [k \in Indices |-> d[k]]
    BY <2>3
  <2> QED BY <2>1, <2>2, <2>4, AskedIs
<1>5. PICK q \in Params : q = KeyParam(Comma, NewParam) /\ q.key = <<>>
  <2>1. KeyParam(Comma, NewParam) \in Params
    BY NewParamTyped, KeyParamTyped
  <2>2. KeyParam(Comma, NewParam).key = <<>>
    BY DEF KeyParam, NewParam, Comma
  <2> QED BY <2>1, <2>2
<1>6. PICK m \in Seq(Params) : m = << q >>
  <2>1. << q >> \in Seq(Params)
    OBVIOUS
  <2> QED BY <2>1
<1>7. m = MeantOffer(o)
  BY <1>1, <1>5, <1>6, MeantOfferIs
<1>8. Len(m) = 1 /\ m[1] = q
  BY <1>6
<1>9. PICK rest \in Seq(Params) : params = Cat(m, rest)
  BY <1>7 DEF Begins
<1>10. PICK k \in Nat : k = Len(rest)
  OBVIOUS
<1>11. /\ m \o rest \in Seq(Params) /\ Len(m \o rest) = Len(m) + Len(rest)
       /\ \A i \in 1 .. Len(m) + Len(rest) :
            (m \o rest)[i] = IF i <= Len(m) THEN m[i] ELSE rest[i - Len(m)]
  BY ConcatProperties
<1>12. 1 \in 1 .. 1 + k
  BY <1>10
<1>13. /\ params \in Seq(Params) /\ Len(params) = 1 + k /\ params[1] = q
  BY <1>8, <1>9, <1>10, <1>11, <1>12 DEF Cat
<1>14. params[1].key = <<>>
  BY <1>5, <1>13
<1>15. StopsFirstAt(params, 1)
  <2>1. 1 \in DOMAIN params
    BY <1>12, <1>13
  <2>2. StopsAt(params, 1)
    BY <1>14 DEF StopsAt
  <2>3. 1 .. 1 - 1 = {}
    OBVIOUS
  <2> QED BY <2>1, <2>2, <2>3 DEF StopsFirstAt
<1>16. ValidateOffer(params) = DecidedAt(params, 1)
  BY <1>13, <1>15, FirstStopDecides
<1>17. ValidateOffer(params) = [kind |-> "accepted", config |-> Defaults]
  BY <1>14, <1>16 DEF DecidedAt
<1> QED BY <1>3, <1>4, <1>17

\* What is acceptable is accepted as it was asked for, anything else refused.
LEMMA FirstOfferDecides ==
  ASSUME NEW o \in WholeOffers, NEW params, Begins(params, o)
  PROVE  /\ AcceptableOffer(o) => ValidateOffer(params) = [kind |-> "accepted", config |-> Asked(o)]
         /\ ~ AcceptableOffer(o) => ValidateOffer(params) = Refused
<1>1. CASE o.params = <<>>
  BY <1>1, BareOfferDecides
<1>2. CASE o.params # <<>>
  <2>1. PICK first : first = o.params
    OBVIOUS
  <2>2. Leads(params, first)
    BY <1>2, <2>1, OfferLeads
  <2>3. AllTaken(params, Len(first)) <=> AcceptableOffer(o)
    BY <2>1, <2>2, TakenIfAcceptable DEF AcceptableOffer
  <2>4. CASE AcceptableOffer(o)
    <3>1. AllTaken(params, Len(first))
      BY <2>3, <2>4
    <3>2. Collected(params, Len(first)) = Asked(o)
      BY <2>1, <2>2, <3>1, CollectedAsAsked
    <3>3. ValidateOffer(params)
            = [kind |-> "accepted", config |-> Collected(params, Len(first))]
      BY <2>2, <3>1, DecidedByFirst
    <3> QED BY <2>4, <3>2, <3>3
  <2>5. CASE ~ AcceptableOffer(o)
    <3>1. ~ AllTaken(params, Len(first))
      BY <2>3, <2>5
    <3> QED BY <2>2, <2>5, <3>1, DecidedByFirst
  <2> QED BY <2>4, <2>5
<1> QED BY <1>1, <1>2

-----------------------------------------------------------------------------
\* The request is answered as it was meant.

\* What is listed for an extension begins with the first offer to it.
LEMMA ListedBeginsWithFirst ==
  ASSUME NEW offers \in Seq(WholeOffers), offers # <<>>
  PROVE  offers[1] \in WholeOffers /\ Begins(FlatMap(Meaning, offers), offers[1])
<1>1. offers[1] \in WholeOffers /\ Head(offers) = offers[1] /\ Tail(offers) \in Seq(WholeOffers)
  <2>1. Len(offers) \in Nat /\ Len(offers) # 0
    BY EmptySeq
  <2>2. 1 \in 1 .. Len(offers)
    BY <2>1
  <2>3. offers[1] \in WholeOffers
    BY <2>2
  <2> QED BY <2>3, HeadTailProperties
<1>2. PICK o \in WholeOffers : o = offers[1]
  BY <1>1
<1>3. WholeOffers \subseteq WritableOffers
  BY DEF WholeOffers
<1>4. offers \in Seq(WritableOffers) /\ Tail(offers) \in Seq(WritableOffers)
  BY <1>1, <1>3, SeqMonotonic
<1>5. PICK rest \in Seq(Params) : rest = FlatMap(Meaning, Tail(offers))
  <2>1. FlatMap(Meaning, Tail(offers)) \in Seq(Closed)
    BY <1>4, MeaningTyped, FlatMapTyped
  <2> QED BY <2>1, MeaningTyped
<1>6. FlatMap(Meaning, offers) = Meaning[Head(offers)] \o FlatMap(Meaning, Tail(offers))
  BY <1>4, MeaningTyped, FlatMapHead
<1>7. Meaning[Head(offers)] = MeantOffer(o)
  BY <1>1, <1>2, <1>3, MeaningTyped
<1>8. FlatMap(Meaning, offers) = Cat(MeantOffer(o), rest)
  BY <1>5, <1>6, <1>7 DEF Cat
<1> QED BY <1>2, <1>5, <1>8 DEF Begins

\* What is accepted is heard as it was decided.
LEMMA VerdictIs ==
  ASSUME NEW l, ListInOrder(l), NEW e \in DOMAIN l, e = PlaceIn(l, Deflate),
         NEW o, NEW params, params = l[e].params
  PROVE  /\ ValidateOffer(params) = [kind |-> "accepted", config |-> Asked(o)] =>
              /\ Verdict(l).kind = "accepted"
              /\ Heard(Verdict(l).response) = Asked(o)
         /\ ValidateOffer(params) = Refused => Verdict(l).kind = "refused"
<1>1. l \in Seq(Entries) /\ OpenIsLast(params)
  BY DEF ListInOrder
<1>2. params \in Seq(Params)
  <2>1. l[e] \in Entries
    BY <1>1
  <2> QED BY <2>1 DEF Entries
<1>3. ~ (PlaceIn(l, Deflate) > Len(l))
  <2>1. Len(l) \in Nat /\ DOMAIN l = 1 .. Len(l)
    BY <1>1
  <2> QED BY <2>1
<1>4. PICK offer : offer = ValidateOffer(params)
  OBVIOUS
<1>5. Verdict(l) = IF offer = Refused THEN Refused
                   ELSE [kind |-> "accepted", config |-> offer.config,
                         response |-> Respond(offer.config)]
  BY <1>3, <1>4 DEF Verdict
<1>6. ASSUME offer = [kind |-> "accepted", config |-> Asked(o)]
      PROVE  Verdict(l).kind = "accepted" /\ Heard(Verdict(l).response) = Asked(o)
  <2>1. offer.kind = "accepted" /\ Refused.kind = "refused" /\ offer.config = Asked(o)
    BY <1>6 DEF Refused
  <2>2. offer # Refused
    BY <2>1
  <2>3. PICK f \in Configs : offer = [kind |-> "accepted", config |-> f]
    BY <1>1, <1>2, <1>4, <2>2, AcceptedFacts
  <2>4. offer.config = f
    BY <2>3
  <2>5. PICK r : r = Respond(f)
    OBVIOUS
  <2>6. Verdict(l) = [kind |-> "accepted", config |-> f, response |-> r]
    BY <1>5, <2>2, <2>4, <2>5
  <2>7. Heard(r) = f
    BY <2>5, HeardIsConfig
  <2>8. Verdict(l).kind = "accepted" /\ Verdict(l).response = r
    BY <2>6
  <2> QED BY <2>1, <2>4, <2>7, <2>8
<1>7. ASSUME offer = Refused PROVE Verdict(l).kind = "refused"
  BY <1>5, <1>7 DEF Refused
<1> QED BY <1>4, <1>6, <1>7

\* What is told and whole is answered as it was offered.
LEMMA AcceptedAsOfferedHolds ==
  ASSUME ReadAsMeant, MeantWhole
  PROVE  AcceptedAsOffered
<1> SUFFICES ASSUME Told, NEW offers, offers = OffersTo(Deflate)
             PROVE  /\ offers = <<>> => answer.kind = "unused"
                    /\ offers # <<>> /\ ~ AcceptableOffer(offers[1]) => answer.kind = "refused"
                    /\ offers # <<>> /\ AcceptableOffer(offers[1]) =>
                         /\ answer.kind = "accepted"
                         /\ Heard(answer.response) = Asked(offers[1])
  BY DEF ReadAsMeant, AcceptedAsOffered, AcceptableOffer
<1>1. PICK ds \in Seq(WholeOffers) : ds = meant
  BY DEF MeantWhole
<1>2. ds \in Seq(WritableOffers) /\ offers \in Seq(WholeOffers) /\ offers = Chosen(ds, Deflate)
  <2>1. ds \in Seq(WritableOffers) /\ Chosen(ds, Deflate) \in Seq(WholeOffers)
    BY ChosenWhole
  <2>2. OffersTo(Deflate) = Chosen(ds, Deflate)
    BY <1>1, <2>1, OffersToIs
  <2> QED BY <2>1, <2>2
<1>3. PICK cs : cs = Contributions(ds)
  OBVIOUS
<1>4. Tells(list, cs) /\ answer = Verdict(list)
  BY <1>1, <1>3 DEF Told
<1>5. DOMAIN cs = DOMAIN ds /\ \A i \in DOMAIN ds : cs[i].token = ds[i].token
  <2>1. \A i \in DOMAIN ds : ds[i] \in WritableOffers
    BY <1>2
  <2>2. cs = [i \in DOMAIN ds |-> Contribution[ds[i]]]
    BY <1>3 DEF Contributions, Map
  <2>3. \A i \in DOMAIN ds : Contribution[ds[i]].token = ds[i].token
    BY <2>1 DEF Contribution, Entry
  <2> QED BY <2>2, <2>3
<1>6. PICK e : e = PlaceIn(list, Deflate)
  OBVIOUS
<1>7. /\ ListInOrder(list) /\ list \in Seq(Entries)
      /\ Len(list) \in Nat /\ DOMAIN list = 1 .. Len(list)
  BY <1>4 DEF Tells, ListInOrder
<1>8. /\ e \in 1 .. Len(list) + 1
      /\ e \in DOMAIN list => list[e].token = Deflate
      /\ e > Len(list) => \A d \in DOMAIN list : list[d].token # Deflate
  BY <1>6, <1>7, PlaceFacts
<1>9. (\E d \in DOMAIN list : list[d].token = Deflate)
        <=> \E i \in DOMAIN ds : ds[i].token = Deflate
  BY <1>4, <1>5 DEF Tells
<1>10. CASE offers = <<>>
  <2>1. \A i \in DOMAIN ds : ds[i].token # Deflate
    BY <1>2, <1>10, ChosenNone
  <2>2. ~ (e \in DOMAIN list)
    BY <1>8, <1>9, <2>1
  <2>3. e > Len(list)
    BY <1>7, <1>8, <2>2
  <2>4. Verdict(list) = [kind |-> "unused"]
    BY <1>6, <2>3 DEF Verdict
  <2>5. answer.kind = "unused"
    BY <1>4, <2>4
  <2> QED BY <1>10, <2>5
<1>11. CASE offers # <<>>
  <2>1. \E i \in DOMAIN ds : ds[i].token = Deflate
    BY <1>2, <1>11, ChosenNone
  <2>2. ~ (e > Len(list))
    BY <1>8, <1>9, <2>1
  <2>3. e \in DOMAIN list
    BY <1>7, <1>8, <2>2
  <2>4. PICK params : params = list[e].params
    OBVIOUS
  <2>5. params = FlatMap(Meaning, offers)
    <3>1. params = Share(cs, Deflate)
      BY <1>4, <1>8, <2>3, <2>4 DEF Tells
    <3> QED BY <1>2, <1>3, <3>1, ShareIsChosen
  <2>6. PICK o \in WholeOffers : o = offers[1] /\ Begins(params, o)
    BY <1>2, <1>11, <2>5, ListedBeginsWithFirst
  <2>7. CASE AcceptableOffer(o)
    <3>1. ValidateOffer(params) = [kind |-> "accepted", config |-> Asked(o)]
      BY <2>6, <2>7, FirstOfferDecides
    <3>2. Verdict(list).kind = "accepted" /\ Heard(Verdict(list).response) = Asked(o)
      BY <1>6, <1>7, <2>3, <2>4, <3>1, VerdictIs
    <3> QED BY <1>4, <1>11, <2>6, <2>7, <3>2
  <2>8. CASE ~ AcceptableOffer(o)
    <3>1. ValidateOffer(params) = Refused
      BY <2>6, <2>8, FirstOfferDecides
    <3>2. Verdict(list).kind = "refused"
      BY <1>6, <1>7, <2>3, <2>4, <3>1, VerdictIs
    <3> QED BY <1>4, <1>11, <2>6, <2>8, <3>2
  <2> QED BY <2>7, <2>8
<1> QED BY <1>10, <1>11

\* Whatever else is offered, the first offer to permessage-deflate decides: if it is
\* acceptable, that is legal by RFC 7692 or with one of the two liberties of IsLax and,
\* where the build does not tell numbers, without values, the peer is told the settings
\* it asked for; if not the request is refused; and without an offer the extension is
\* not used (AcceptedAsOffered).
THEOREM AnsweredAsOffered == Spec => []AcceptedAsOffered
<1>1. Init => MeantWhole
  BY InitIsWhole
<1>2. MeantWhole /\ [Next]_vars => MeantWhole'
  BY WholeIsKept
<1>3. ReadAsMeant /\ MeantWhole => AcceptedAsOffered
  BY AcceptedAsOfferedHolds
<1> QED BY <1>1, <1>2, <1>3, ReadInOrder, PTL DEF Spec
=============================================================================
