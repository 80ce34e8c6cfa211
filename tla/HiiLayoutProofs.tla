--------------------------- MODULE HiiLayoutProofs ---------------------------
(***************************************************************************)
(* What read_db makes of the bytes a firmware lays its database out in,    *)
(* for databases of any size: a listing says what the database means.      *)
(***************************************************************************)
EXTENDS HiiLayout, BytesProofs
-----------------------------------------------------------------------------
(* RECURSION                                                               *)

(* Counting up from 0 reaches every number.                                *)
LEMMA CountUp ==
  ASSUME NEW n \in Nat, NEW S, 0 \in S, \A i \in 1..n : i - 1 \in S => i \in S
  PROVE  \A i \in 0..n : i \in S
<1> DEFINE Bad == {i \in 0..n : i \notin S}
<1>1. SUFFICES ASSUME Bad # {} PROVE FALSE
  OBVIOUS
<1>2. Bad \in SUBSET Nat
  OBVIOUS
<1>3. PICK i \in Bad : \A j \in Bad : i <= j
  <2> HIDE DEF Bad
  <2>1. QED
    BY <1>1, <1>2, LeastNumber
<1>4. i \in 1..n /\ i - 1 \in 0..n /\ ~(i <= i - 1) /\ i \notin S
  BY <1>3
<1>5. i - 1 \in S
  BY <1>3, <1>4
<1>6. QED
  BY <1>4, <1>5

(* A function may be defined from the end to the beginning.                *)
LooksOnward(step, n, V) ==
  /\ step \in [(1..n) \X [1..n -> V] -> V]
  /\ \A at \in 1..n : \A f, g \in [1..n -> V] :
       (\A b \in at + 1..n : f[b] = g[b]) => step[<<at, f>>] = step[<<at, g>>]

Defines(step, n, V, f) ==
  f \in [1..n -> V] /\ \A at \in 1..n : f[at] = step[<<at, f>>]

LEMMA DownwardRecursion ==
  ASSUME NEW n \in Nat, NEW V, NEW v \in V,
         NEW step, LooksOnward(step, n, V)
  PROVE  \E f : Defines(step, n, V, f)
<1> USE DEF LooksOnward
<1> DEFINE Good(m) == \E f \in [1..n -> V] :
                        \A at \in n - m + 1..n : f[at] = step[<<at, f>>]
           S == {m \in 0..n : Good(m)}
<1>1. 0 \in S
  <2>1. [at \in 1..n |-> v] \in [1..n -> V]
    OBVIOUS
  <2>2. n - 0 + 1..n = {} /\ 0 \in 0..n
    OBVIOUS
  <2>3. QED
    BY <2>1, <2>2
<1>2. ASSUME NEW m \in 1..n, m - 1 \in S PROVE m \in S
  <2>1. n - (m - 1) + 1 = n - m + 2
    OBVIOUS
  <2>2. PICK f \in [1..n -> V] : \A at \in n - m + 2..n : f[at] = step[<<at, f>>]
    BY <1>2, <2>1
  <2> DEFINE k == n - m + 1
             g == [f EXCEPT ![k] = step[<<k, f>>]]
  <2>3. k \in 1..n /\ <<k, f>> \in (1..n) \X [1..n -> V]
    OBVIOUS
  <2>4. g \in [1..n -> V]
    BY <2>3
  <2>5. g[k] = step[<<k, f>>] /\ \A b \in k + 1..n : g[b] = f[b]
    BY <2>3
  <2>6. k + 1 = n - m + 2 /\ k \in Nat
    BY <2>3
  <2> HIDE DEF g
  <2>7. ASSUME NEW at \in k..n PROVE g[at] = step[<<at, g>>]
    <3>1. at \in 1..n
      BY <2>3
    <3>2. \A b \in at + 1..n : f[b] = g[b]
      BY <2>3, <2>5
    <3>3. step[<<at, f>>] = step[<<at, g>>]
      BY <2>4, <3>1, <3>2
    <3>4. CASE at = k
      BY <2>5, <3>3, <3>4
    <3>5. CASE at # k
      <4>1. at \in k + 1..n
        BY <2>6, <3>5
      <4>2. QED
        BY <2>2, <2>5, <2>6, <3>3, <4>1
    <3>6. QED
      BY <3>4, <3>5
  <2>8. Good(m)
    BY <2>4, <2>7
  <2>9. m \in 0..n
    OBVIOUS
  <2> HIDE DEF Good
  <2>10. QED
    BY <2>8, <2>9
<1>3. n \in S
  <2> HIDE DEF S
  <2>1. \A i \in 0..n : i \in S
    BY <1>1, <1>2, CountUp
  <2>2. QED
    BY <2>1
<1>4. n - n + 1 = 1
  OBVIOUS
<1>5. QED
  BY <1>3, <1>4 DEF Defines

(* A sequence may be put together element by element, each saying where    *)
(* the next one is.                                                        *)
Chained(from, last, end, rec, next) ==
  \A at \in DOMAIN from :
    from[at] = IF last[at] THEN end[at] ELSE <<rec[at]>> \o from[next[at]]

LEMMA ChainExists ==
  ASSUME NEW R, NEW n \in Nat,
         NEW last \in [1..n -> BOOLEAN], NEW end \in [1..n -> Seq(R)],
         NEW rec \in [1..n -> R], NEW next \in [1..n -> Nat],
         \A at \in 1..n : ~last[at] => next[at] \in at + 1..n
  PROVE  \E from \in [1..n -> Seq(R)] : Chained(from, last, end, rec, next)
<1> DEFINE V == Seq(R)
           Step(at, f) == IF last[at] THEN end[at] ELSE <<rec[at]>> \o f[next[at]]
           step == [x \in (1..n) \X [1..n -> V] |-> Step(x[1], x[2])]
<1>1. ASSUME NEW at \in 1..n, NEW f \in [1..n -> V] PROVE Step(at, f) \in V
  <2>1. CASE last[at]
    BY <2>1
  <2>2. CASE ~last[at]
    <3>1. next[at] \in 1..n
      BY <2>2
    <3>2. f[next[at]] \in Seq(R) /\ <<rec[at]>> \in Seq(R)
      BY <3>1
    <3>3. <<rec[at]>> \o f[next[at]] \in Seq(R)
      BY <3>2, ConcatProperties
    <3>4. QED
      BY <2>2, <3>3
  <2>3. QED
    BY <2>1, <2>2
<1>2. ASSUME NEW at \in 1..n, NEW f \in [1..n -> V] PROVE step[<<at, f>>] = Step(at, f)
  OBVIOUS
<1>3. step \in [(1..n) \X [1..n -> V] -> V]
  <2>1. ASSUME NEW x \in (1..n) \X [1..n -> V] PROVE Step(x[1], x[2]) \in V
    <3>1. x[1] \in 1..n /\ x[2] \in [1..n -> V]
      OBVIOUS
    <3> HIDE DEF Step, V
    <3>2. QED
      BY <1>1, <3>1
  <2> HIDE DEF Step, V
  <2>2. QED
    BY <2>1
<1>4. ASSUME NEW at \in 1..n, NEW f \in [1..n -> V], NEW g \in [1..n -> V],
             \A b \in at + 1..n : f[b] = g[b]
      PROVE  step[<<at, f>>] = step[<<at, g>>]
  <2>1. Step(at, f) = Step(at, g)
    BY <1>4
  <2> HIDE DEF Step, step
  <2>2. QED
    BY <1>2, <2>1
<1>5. <<>> \in V
  BY EmptySeq
<1>6. LooksOnward(step, n, V)
  <2> HIDE DEF step, V
  <2>1. QED
    BY <1>3, <1>4 DEF LooksOnward
<1>7. PICK from : Defines(step, n, V, from)
  <2> HIDE DEF step, V
  <2>1. QED
    BY <1>5, <1>6, DownwardRecursion
<1>8. from \in [1..n -> V] /\ \A at \in 1..n : from[at] = Step(at, from)
  <2> HIDE DEF step, V, Step
  <2>1. QED
    BY <1>2, <1>7 DEF Defines
<1>9. QED
  BY <1>8 DEF Chained

(* A sequence has the first i of these elements before the rest.           *)
Begins(whole, recs, i, rest) == whole = SubSeq(recs, 1, i) \o rest

Precedes(x, rest, whole) == whole = <<x>> \o rest

(* Three sequences join the same way from either end.                      *)
Associates(a, b, c) == (a \o b) \o c = a \o (b \o c)

LEMMA JoinsAssociate ==
  ASSUME NEW R, NEW a \in Seq(R), NEW b \in Seq(R), NEW c \in Seq(R)
  PROVE  Associates(a, b, c)
  BY ConcatAssociative DEF Associates

LEMMA BeginsWithNone ==
  ASSUME NEW R, NEW recs \in Seq(R), NEW whole \in Seq(R)
  PROVE  Begins(whole, recs, 0, whole)
<1>1. SubSeq(recs, 1, 0) = <<>>
  BY SubSeqEmpty
<1>2. QED
  BY <1>1, ConcatEmptySeq DEF Begins

LEMMA BeginsWithNext ==
  ASSUME NEW R, NEW recs \in Seq(R), NEW i \in 1..Len(recs), NEW rest \in Seq(R),
         NEW more, NEW whole, Precedes(recs[i], rest, more), Begins(whole, recs, i - 1, more)
  PROVE  Begins(whole, recs, i, rest)
<1>1. Len(recs) \in Nat /\ 1 \in 1..Len(recs) /\ recs[i] \in R
  BY LenProperties, ElementOfSeq
<1>2. SubSeq(recs, 1, i) = SubSeq(recs, 1, i - 1) \o <<recs[i]>>
  BY <1>1, SubSeqRecursiveSecond
<1>3. PICK a \in Seq(R) : a = SubSeq(recs, 1, i - 1)
  <2>1. \A j \in 1..i - 1 : recs[j] \in R
    BY <1>1, ElementOfSeq
  <2>2. SubSeq(recs, 1, i - 1) \in Seq(R)
    BY <2>1, SubSeqProperties
  <2>3. QED
    BY <2>2
<1>4. PICK b \in Seq(R) : b = <<recs[i]>>
  <2>1. PICK e \in R : e = recs[i]
    BY <1>1
  <2>2. <<e>> \in Seq(R)
    OBVIOUS
  <2>3. QED
    BY <2>1, <2>2
<1>5. Associates(a, b, rest)
  BY JoinsAssociate
<1>6. QED
  BY <1>2, <1>3, <1>4, <1>5 DEF Begins, Precedes, Associates

(* What a chain of k elements begins with.                                 *)
LEMMA ChainUnrolled ==
  ASSUME NEW R, NEW n \in Nat, NEW from \in [1..n -> Seq(R)], NEW k \in Nat,
         NEW pos \in [0..k -> 1..n], NEW recs \in Seq(R), k <= Len(recs),
         \A i \in 1..k : Precedes(recs[i], from[pos[i]], from[pos[i - 1]])
  PROVE  Begins(from[pos[0]], recs, k, from[pos[k]])
<1> DEFINE S == {i \in 0..k : Begins(from[pos[0]], recs, i, from[pos[i]])}
<1>1. 0 \in S
  <2>1. from[pos[0]] \in Seq(R) /\ 0 \in 0..k
    OBVIOUS
  <2>2. QED
    BY <2>1, BeginsWithNone
<1>2. ASSUME NEW i \in 1..k, i - 1 \in S PROVE i \in S
  <2>1. Len(recs) \in Nat
    BY LenProperties
  <2>2. i \in 1..Len(recs) /\ i \in 0..k /\ from[pos[i]] \in Seq(R)
    BY <2>1
  <2>3. Begins(from[pos[0]], recs, i - 1, from[pos[i - 1]])
    BY <1>2
  <2>4. Begins(from[pos[0]], recs, i, from[pos[i]])
    BY <2>2, <2>3, BeginsWithNext
  <2>5. QED
    BY <2>2, <2>4
<1>3. k \in S
  <2> HIDE DEF S
  <2>1. \A i \in 0..k : i \in S
    BY <1>1, <1>2, CountUp
  <2>2. QED
    BY <2>1
<1>4. QED
  BY <1>3
-----------------------------------------------------------------------------
(* BYTES AT A POSITION                                                     *)

(* These bytes are in s, from position at on.                              *)
Holds(s, at, bytes) ==
  /\ at + Len(bytes) - 1 <= Len(s)
  /\ \A i \in 1..Len(bytes) : s[at + i - 1] = bytes[i]

LEMMA HoldsItself ==
  ASSUME NEW T, NEW s \in Seq(T)
  PROVE  Holds(s, 1, s)
  BY LenProperties DEF Holds

(* What holds a concatenation holds its parts one behind the other.        *)
LEMMA HoldsParts ==
  ASSUME NEW T, NEW s \in Seq(T), NEW a \in Seq(T), NEW b \in Seq(T),
         NEW at \in Nat, Holds(s, at, a \o b)
  PROVE  Holds(s, at, a) /\ Holds(s, at + Len(a), b)
<1>1. /\ Len(a \o b) = Len(a) + Len(b) /\ Len(a) \in Nat /\ Len(b) \in Nat /\ Len(s) \in Nat
      /\ \A i \in 1..Len(a) + Len(b) :
           (a \o b)[i] = IF i <= Len(a) THEN a[i] ELSE b[i - Len(a)]
  BY ConcatProperties, LenProperties
<1> DEFINE ab == a \o b
<1>2. /\ at + Len(a) + Len(b) - 1 <= Len(s)
      /\ \A i \in 1..Len(a) + Len(b) : s[at + i - 1] = ab[i]
  BY <1>1 DEF Holds
<1> HIDE DEF ab
<1>3. ASSUME NEW i \in 1..Len(a) PROVE s[at + i - 1] = a[i]
  <2>1. i \in 1..Len(a) + Len(b) /\ i <= Len(a)
    BY <1>1
  <2>2. ab[i] = a[i]
    BY <1>1, <2>1 DEF ab
  <2>3. QED
    BY <1>2, <2>1, <2>2
<1>4. ASSUME NEW i \in 1..Len(b) PROVE s[(at + Len(a)) + i - 1] = b[i]
  <2> DEFINE j == Len(a) + i
  <2>1. j \in 1..Len(a) + Len(b) /\ ~(j <= Len(a)) /\ j - Len(a) = i
        /\ at + j - 1 = (at + Len(a)) + i - 1
    BY <1>1
  <2> HIDE DEF j
  <2>2. ab[j] = b[i]
    BY <1>1, <2>1 DEF ab
  <2>3. QED
    BY <1>2, <2>1, <2>2
<1>5. QED
  BY <1>1, <1>2, <1>3, <1>4 DEF Holds

(* What is held by what is held.                                           *)
LEMMA HoldsWithin ==
  ASSUME NEW T, NEW s \in Seq(T), NEW t \in Seq(T), NEW u \in Seq(T),
         NEW at \in Nat, NEW k \in Nat, k > 0, Holds(s, at, t), Holds(t, k, u)
  PROVE  Holds(s, at + k - 1, u)
<1>1. Len(s) \in Nat /\ Len(t) \in Nat /\ Len(u) \in Nat
  BY LenProperties
<1>2. ASSUME NEW i \in 1..Len(u) PROVE s[(at + k - 1) + i - 1] = u[i]
  <2> DEFINE j == k + i - 1
  <2>1. j \in 1..Len(t) /\ at + j - 1 = (at + k - 1) + i - 1
    BY <1>1 DEF Holds
  <2> HIDE DEF j
  <2>2. t[j] = u[i]
    BY DEF Holds, j
  <2>3. s[at + j - 1] = t[j]
    BY <2>1 DEF Holds
  <2>4. QED
    BY <2>1, <2>2, <2>3
<1>3. (at + k - 1) + Len(u) - 1 <= Len(s)
  BY <1>1 DEF Holds
<1>4. QED
  BY <1>2, <1>3 DEF Holds

(* What is held can be cut out again.                                      *)
LEMMA HeldPart ==
  ASSUME NEW T, NEW s \in Seq(T), NEW t \in Seq(T), NEW at \in Nat, at > 0,
         Holds(s, at, t)
  PROVE  SubSeq(s, at, at + Len(t) - 1) = t
<1>1. Len(s) \in Nat /\ Len(t) \in Nat
  BY LenProperties
<1> DEFINE to == at + Len(t) - 1
           sub == SubSeq(s, at, to)
<1>2. to \in Int /\ \A i \in at..to : s[i] \in T
  <2>1. \A i \in at..to : i \in 1..Len(s)
    BY <1>1 DEF Holds
  <2> HIDE DEF to
  <2>2. \A i \in at..to : s[i] \in T
    BY <2>1, ElementOfSeq
  <2>3. QED
    BY <1>1, <2>2 DEF to
<1>3. to - at + 1 = Len(t)
  BY <1>1
<1> HIDE DEF to
<1>4. /\ sub \in Seq(T) /\ Len(sub) = IF at <= to THEN to - at + 1 ELSE 0
      /\ \A i \in 1..to - at + 1 : sub[i] = s[at + i - 1]
  BY <1>2, SubSeqProperties
<1>5. Len(sub) = Len(t)
  BY <1>1, <1>2, <1>3, <1>4
<1>6. \A i \in 1..Len(sub) : sub[i] = t[i]
  BY <1>3, <1>4, <1>5 DEF Holds
<1>7. sub = t
  <2> HIDE DEF sub
  <2>1. QED
    BY <1>4, <1>5, <1>6, SeqEqual
<1>8. QED
  BY <1>7 DEF to

(* A field holds the number that is laid out in it.                        *)
LEMMA HeldNumber ==
  ASSUME NEW s \in Seq(Byte), NEW at \in Nat, at > 0, NEW n \in Nat,
         NEW width \in FieldWidths, Fits(n, width), Holds(s, at, Encode(n, width))
  PROVE  Within(s, at, width) /\ NumberAt(s, at, width) = n
<1>1. Encode(n, width) \in Seq(Byte) /\ Len(Encode(n, width)) = width
  BY EncodeTyped
<1>2. SubSeq(s, at, at + width - 1) = Encode(n, width)
  <2>1. PICK e \in Seq(Byte) : e = Encode(n, width)
    BY <1>1
  <2>2. SubSeq(s, at, at + Len(e) - 1) = e
    BY <2>1, HeldPart
  <2>3. QED
    BY <1>1, <2>1, <2>2
<1>3. Decode(Encode(n, width)) = n
  BY DecodeEncode
<1>4. QED
  BY <1>1, <1>2, <1>3 DEF NumberAt, Within, Holds

(* What a field holds is a number.                                         *)
LEMMA NumberTyped ==
  ASSUME NEW s \in Seq(Byte), NEW at \in Nat, at > 0, NEW width \in FieldWidths,
         Within(s, at, width)
  PROVE  NumberAt(s, at, width) \in Nat
<1>1. width \in Nat /\ width > 0 /\ Len(s) \in Nat
  BY LenProperties DEF FieldWidths
<1> DEFINE to == at + width - 1
           sub == SubSeq(s, at, to)
<1>2. to \in Int /\ at <= to /\ to <= Len(s) /\ to - at + 1 = width
  BY <1>1 DEF Within
<1> HIDE DEF to
<1>3. \A i \in at..to : s[i] \in Byte
  <2>1. \A i \in at..to : i \in 1..Len(s)
    BY <1>1, <1>2
  <2>2. QED
    BY <2>1, ElementOfSeq
<1>4. sub \in Seq(Byte) /\ Len(sub) = width
  BY <1>2, <1>3, SubSeqProperties
<1> HIDE DEF sub
<1>5. Decode(sub) \in Nat
  BY <1>4, EncodeDecode
<1>6. QED
  BY <1>5 DEF NumberAt, sub, to
-----------------------------------------------------------------------------
(* SEQUENCES OF SEQUENCES                                                  *)

Flattens(f, seqs, T) ==
  /\ f \in [0..Len(seqs) -> Seq(T)]
  /\ f[0] = <<>>
  /\ \A i \in 1..Len(seqs) : f[i] = f[i - 1] \o seqs[i]

(* A flattened sequence has grown by one element after the other.          *)
LEMMA FlattenIs ==
  ASSUME NEW T, NEW seqs \in Seq(Seq(T))
  PROVE  \E f : Flattens(f, seqs, T) /\ FlattenSeq(seqs) = f[Len(seqs)]
<1> DEFINE n == Len(seqs)
<1>1. n \in Nat /\ \A i \in 1..n : seqs[i] \in Seq(T)
  BY LenProperties, ElementOfSeq
<1>2. <<>> \in Seq(T)
  BY EmptySeq
<1>3. CASE n = 0
  <2> DEFINE f == [i \in 0..0 |-> <<>>]
  <2>1. seqs = <<>>
    BY <1>3, EmptySeq
  <2>2. FlattenSeq(seqs) = f[n]
    BY <1>3, <2>1 DEF FlattenSeq
  <2>3. f \in [0..n -> Seq(T)] /\ f[0] = <<>>
    BY <1>2, <1>3
  <2> HIDE DEF f
  <2>4. Flattens(f, seqs, T)
    BY <1>3, <2>3 DEF Flattens
  <2>5. QED
    BY <2>2, <2>4
<1>4. CASE n # 0
  <2> DEFINE S == Seq(T)
             step == [x \in (2..n) \X S |-> x[2] \o seqs[x[1]]]
             Flat(f) == f = [i \in 1..n |-> IF i = 1 THEN seqs[i] ELSE f[i - 1] \o seqs[i]]
  <2>1. n > 0 /\ 1 \in 1..n /\ \A i \in 1..n : seqs[i] \in S
    BY <1>1, <1>4
  <2>2. step \in [(2..n) \X S -> S]
    <3>1. ASSUME NEW x \in (2..n) \X S PROVE x[2] \o seqs[x[1]] \in S
      <4>1. x[1] \in 1..n /\ x[2] \in S
        BY <1>1
      <4>2. QED
        BY <2>1, <4>1, ConcatProperties
    <3>2. QED
      BY <3>1
  <2> HIDE DEF S
  <2>3. PICK f \in [1..n -> S] : /\ f[1] = seqs[1]
                                 /\ \A i \in 2..n : f[i] = step[<<i, f[i - 1]>>]
    <3>1. seqs[1] \in S
      BY <2>1
    <3> HIDE DEF n, step
    <3>2. \E f : Stepped(f, S, n, seqs[1], step)
      BY <1>1, <2>1, <2>2, <3>1, StepByStep
    <3>3. QED
      BY <3>2 DEF Stepped
  <2>4. ASSUME NEW i \in 2..n PROVE f[i] = f[i - 1] \o seqs[i]
    <3>1. i - 1 \in 1..n
      BY <1>1
    <3>2. <<i, f[i - 1]>> \in (2..n) \X S
      BY <3>1
    <3>3. QED
      BY <2>3, <3>2
  <2> HIDE DEF step
  <2>5. ASSUME NEW i \in 1..n
        PROVE  f[i] = IF i = 1 THEN seqs[i] ELSE f[i - 1] \o seqs[i]
    <3>1. CASE i = 1
      BY <2>3, <3>1
    <3>2. CASE i # 1
      <4>1. i \in 2..n
        BY <1>1, <3>2
      <4>2. QED
        BY <2>4, <3>2, <4>1
    <3>3. QED
      BY <3>1, <3>2
  <2>6. Flat(f)
    BY <2>3, <2>5
  <2> DEFINE flatten == CHOOSE g : Flat(g)
  <2>7. Flat(flatten)
    BY <2>6
  <2>8. FlattenSeq(seqs) = flatten[n]
    BY <1>4 DEF FlattenSeq
  <2> HIDE DEF flatten
  <2>9. /\ flatten[1] = seqs[1]
        /\ \A i \in 2..n : flatten[i] = flatten[i - 1] \o seqs[i]
    <3>1. \A i \in 2..n : i \in 1..n /\ i # 1
      BY <1>1
    <3>2. QED
      BY <2>1, <2>7, <3>1
  <2> HIDE DEF Flat
  <2> DEFINE h == [i \in 0..n |-> IF i = 0 THEN <<>> ELSE flatten[i]]
             Typed == {i \in 0..n : i # 0 => flatten[i] \in S}
  <2>10. ASSUME NEW i \in 1..n, i - 1 \in Typed PROVE i \in Typed
    <3>1. CASE i = 1
      BY <2>1, <2>9, <3>1
    <3>2. CASE i # 1
      <4>1. i \in 2..n /\ i - 1 # 0 /\ i \in 0..n
        BY <1>1, <3>2
      <4>2. flatten[i - 1] \in Seq(T) /\ seqs[i] \in Seq(T)
        BY <1>1, <2>10, <4>1 DEF S
      <4>3. flatten[i - 1] \o seqs[i] \in Seq(T)
        BY <4>2, ConcatProperties
      <4>4. flatten[i] \in S
        BY <2>9, <4>1, <4>3 DEF S
      <4>5. QED
        BY <4>1, <4>4
    <3>3. QED
      BY <3>1, <3>2
  <2>11. \A i \in 1..n : flatten[i] \in S
    <3>1. 0 \in Typed
      BY <1>1
    <3> HIDE DEF Typed
    <3>2. \A i \in 0..n : i \in Typed
      BY <1>1, <2>10, <3>1, CountUp
    <3>3. QED
      BY <1>1, <3>2 DEF Typed
  <2>12. h \in [0..n -> Seq(T)] /\ h[0] = <<>>
    BY <1>1, <1>2, <2>11 DEF S
  <2>13. ASSUME NEW i \in 1..n PROVE h[i] = h[i - 1] \o seqs[i]
    <3>1. CASE i = 1
      <4>1. h[1] = seqs[1] /\ h[1 - 1] = <<>>
        BY <1>1, <2>1, <2>9
      <4>2. <<>> \o seqs[1] = seqs[1]
        <5>1. PICK a \in Seq(T) : a = seqs[1]
          BY <1>1, <2>1
        <5>2. QED
          BY <5>1, ConcatEmptySeq
      <4> HIDE DEF h
      <4>3. QED
        BY <3>1, <4>1, <4>2
    <3>2. CASE i # 1
      <4>1. i \in 2..n /\ i - 1 # 0 /\ i - 1 \in 0..n /\ i \in 0..n /\ i # 0
        BY <1>1, <3>2
      <4>2. h[i] = flatten[i] /\ h[i - 1] = flatten[i - 1]
        BY <4>1
      <4> HIDE DEF h
      <4>3. QED
        BY <2>9, <4>1, <4>2
    <3>3. QED
      BY <3>1, <3>2
  <2>14. FlattenSeq(seqs) = h[n]
    BY <1>1, <1>4, <2>8
  <2> HIDE DEF h
  <2>15. Flattens(h, seqs, T)
    BY <2>12, <2>13 DEF Flattens
  <2>16. QED
    BY <2>14, <2>15
<1>5. QED
  BY <1>3, <1>4

(* The first k of some sequences, flattened.                               *)
UpTo(seqs, k) == FlattenSeq(SubSeq(seqs, 1, k))

LEMMA UpToIs ==
  ASSUME NEW T, NEW seqs \in Seq(Seq(T)), NEW f, Flattens(f, seqs, T), NEW k \in 0..Len(seqs)
  PROVE  UpTo(seqs, k) = f[k]
<1> DEFINE p == SubSeq(seqs, 1, k)
<1>1. Len(seqs) \in Nat /\ k \in Nat /\ \A i \in 1..k : seqs[i] \in Seq(T)
  BY LenProperties, ElementOfSeq
<1>2. p \in Seq(Seq(T)) /\ Len(p) = k /\ \A i \in 1..k : p[i] = seqs[i]
  <2>1. /\ p \in Seq(Seq(T)) /\ Len(p) = (IF 1 <= k THEN k - 1 + 1 ELSE 0)
        /\ \A i \in 1..k - 1 + 1 : p[i] = seqs[1 + i - 1]
    BY <1>1, SubSeqProperties
  <2> HIDE DEF p
  <2>2. k - 1 + 1 = k /\ \A i \in 1..k : 1 + i - 1 = i
    OBVIOUS
  <2>3. QED
    BY <2>1, <2>2
<1> HIDE DEF p
<1>3. PICK g : Flattens(g, p, T) /\ FlattenSeq(p) = g[Len(p)]
  BY <1>2, FlattenIs
<1> DEFINE S == {i \in 0..k : g[i] = f[i]}
<1>4. 0 \in S
  BY <1>3 DEF Flattens
<1>5. ASSUME NEW i \in 1..k, i - 1 \in S PROVE i \in S
  <2>1. g[i] = g[i - 1] \o p[i] /\ p[i] = seqs[i]
    BY <1>2, <1>3 DEF Flattens
  <2>2. f[i] = f[i - 1] \o seqs[i]
    <3>1. i \in 1..Len(seqs)
      BY <1>1
    <3>2. QED
      BY <3>1 DEF Flattens
  <2>3. i \in 0..k
    OBVIOUS
  <2>4. QED
    BY <1>5, <2>1, <2>2, <2>3
<1>6. k \in S
  <2> HIDE DEF S
  <2>1. \A i \in 0..k : i \in S
    BY <1>1, <1>4, <1>5, CountUp
  <2>2. QED
    BY <2>1
<1>7. QED
  BY <1>2, <1>3, <1>6 DEF UpTo, p

(* Up to the k-th sequence there is what there was before, and the k-th.   *)
LEMMA UpToSteps ==
  ASSUME NEW T, NEW seqs \in Seq(Seq(T))
  PROVE  /\ UpTo(seqs, 0) = <<>> /\ UpTo(seqs, Len(seqs)) = FlattenSeq(seqs)
         /\ \A k \in 0..Len(seqs) : UpTo(seqs, k) \in Seq(T)
         /\ \A k \in 1..Len(seqs) : /\ UpTo(seqs, k) = UpTo(seqs, k - 1) \o seqs[k]
                                    /\ seqs[k] \in Seq(T)
<1>1. Len(seqs) \in Nat
  BY LenProperties
<1>2. PICK f : Flattens(f, seqs, T) /\ FlattenSeq(seqs) = f[Len(seqs)]
  BY FlattenIs
<1>3. \A k \in 0..Len(seqs) : UpTo(seqs, k) = f[k]
  BY <1>2, UpToIs
<1>4. 0 \in 0..Len(seqs) /\ Len(seqs) \in 0..Len(seqs)
      /\ \A k \in 1..Len(seqs) : k \in 0..Len(seqs) /\ k - 1 \in 0..Len(seqs)
  BY <1>1
<1>5. \A k \in 1..Len(seqs) : seqs[k] \in Seq(T)
  BY ElementOfSeq
<1>6. QED
  BY <1>2, <1>3, <1>4, <1>5 DEF Flattens

LEMMA HoldsLonger ==
  ASSUME NEW T, NEW a \in Seq(T), NEW b \in Seq(T), NEW x \in Seq(T), Holds(a, 1, x)
  PROVE  Holds(a \o b, 1, x)
<1>1. /\ Len(a \o b) = Len(a) + Len(b) /\ Len(a) \in Nat /\ Len(b) \in Nat /\ Len(x) \in Nat
      /\ \A i \in 1..Len(a) + Len(b) :
           (a \o b)[i] = IF i <= Len(a) THEN a[i] ELSE b[i - Len(a)]
  BY ConcatProperties, LenProperties
<1>2. Len(x) <= Len(a)
  BY <1>1 DEF Holds
<1>3. ASSUME NEW i \in 1..Len(x) PROVE (a \o b)[1 + i - 1] = x[i]
  <2>1. 1 + i - 1 = i /\ i \in 1..Len(a) + Len(b) /\ i <= Len(a)
    BY <1>1, <1>2
  <2>2. (a \o b)[i] = a[i]
    BY <1>1, <2>1
  <2>3. a[1 + i - 1] = x[i]
    BY DEF Holds
  <2>4. QED
    BY <2>1, <2>2, <2>3
<1>4. 1 + Len(x) - 1 <= Len(a \o b)
  BY <1>1, <1>2
<1>5. QED
  BY <1>3, <1>4 DEF Holds

(* Each sequence lies behind those before it.                              *)
LEMMA UpToHeld ==
  ASSUME NEW T, NEW seqs \in Seq(Seq(T))
  PROVE  /\ \A k \in 0..Len(seqs) : Holds(FlattenSeq(seqs), 1, UpTo(seqs, k))
         /\ \A k \in 1..Len(seqs) :
              /\ Holds(FlattenSeq(seqs), Len(UpTo(seqs, k - 1)) + 1, seqs[k])
              /\ Len(UpTo(seqs, k)) = Len(UpTo(seqs, k - 1)) + Len(seqs[k])
<1> DEFINE n == Len(seqs)
           u(k) == UpTo(seqs, k)
<1>1. /\ n \in Nat /\ u(n) = FlattenSeq(seqs)
      /\ \A k \in 0..n : u(k) \in Seq(T)
      /\ \A k \in 1..n : u(k) = u(k - 1) \o seqs[k] /\ seqs[k] \in Seq(T)
  BY UpToSteps, LenProperties
<1> HIDE DEF u, n
<1>2. ASSUME NEW k \in 0..n PROVE Holds(u(n), 1, u(k))
  <2> DEFINE S == {m \in 0..n : k <= m => Holds(u(m), 1, u(k))}
  <2>1. 0 \in S
    <3>1. CASE k = 0
      BY <1>1, <3>1, HoldsItself
    <3>2. CASE k # 0
      BY <1>1, <3>2
    <3>3. QED
      BY <3>1, <3>2
  <2>2. ASSUME NEW m \in 1..n, m - 1 \in S PROVE m \in S
    <3>0. m \in 0..n /\ m - 1 \in 0..n /\ k \in Nat
      BY <1>1
    <3>1. CASE k = m
      <4>1. Holds(u(m), 1, u(m))
        BY <1>1, <3>0, HoldsItself
      <4>2. QED
        BY <3>0, <3>1, <4>1
    <3>2. CASE k <= m - 1
      <4>1. Holds(u(m - 1), 1, u(k))
        BY <2>2, <3>2
      <4>2. PICK a \in Seq(T), b \in Seq(T), x \in Seq(T) :
              a = u(m - 1) /\ b = seqs[m] /\ x = u(k)
        BY <1>1, <3>0
      <4>3. Holds(a \o b, 1, x)
        BY <4>1, <4>2, HoldsLonger
      <4>4. u(m) = a \o b
        BY <1>1, <4>2
      <4>5. QED
        BY <3>0, <4>2, <4>3, <4>4
    <3>3. CASE ~(k <= m)
      BY <3>0, <3>3
    <3>4. QED
      BY <3>0, <3>1, <3>2, <3>3
  <2>3. n \in S
    <3> HIDE DEF S
    <3>1. \A m \in 0..n : m \in S
      BY <1>1, <2>1, <2>2, CountUp
    <3>2. QED
      BY <1>1, <3>1
  <2>4. QED
    BY <1>1, <2>3
<1>3. ASSUME NEW k \in 1..n
      PROVE  Holds(u(n), Len(u(k - 1)) + 1, seqs[k]) /\ Len(u(k)) = Len(u(k - 1)) + Len(seqs[k])
  <2>1. k \in 0..n /\ k - 1 \in 0..n /\ n \in 0..n
    BY <1>1
  <2>2. PICK w \in Seq(T), a \in Seq(T), b \in Seq(T) :
          w = u(n) /\ a = u(k - 1) /\ b = seqs[k]
    BY <1>1, <2>1
  <2>3. u(k) = a \o b
    BY <1>1, <2>2
  <2>4. Holds(w, 1, a \o b)
    BY <1>2, <2>1, <2>2, <2>3
  <2>5. Holds(w, 1 + Len(a), b) /\ Len(a) \in Nat
    BY <2>4, HoldsParts, LenProperties
  <2>6. 1 + Len(a) = Len(a) + 1
    BY <2>5
  <2>7. Len(a \o b) = Len(a) + Len(b)
    BY ConcatProperties
  <2>8. QED
    BY <2>2, <2>3, <2>5, <2>6, <2>7
<1>4. QED
  BY <1>1, <1>2, <1>3 DEF u, n
(* Whatever is chained like this is made of such sequences.                *)
LEMMA ChainTyped ==
  ASSUME NEW R, NEW n \in Nat,
         NEW last \in [1..n -> BOOLEAN], NEW end \in [1..n -> Seq(R)],
         NEW rec \in [1..n -> R], NEW next \in [1..n -> Nat],
         \A at \in 1..n : ~last[at] => next[at] \in at + 1..n,
         NEW from, DOMAIN from = 1..n, from = [at \in 1..n |-> from[at]],
         Chained(from, last, end, rec, next)
  PROVE  from \in [1..n -> Seq(R)]
<1> DEFINE S == {m \in 0..n : \A at \in n - m + 1..n : from[at] \in Seq(R)}
<1>1. 0 \in S
  OBVIOUS
<1>2. ASSUME NEW m \in 1..n, m - 1 \in S PROVE m \in S
  <2> DEFINE k == n - m + 1
  <2>1. k \in 1..n /\ n - (m - 1) + 1 = k + 1 /\ m \in 0..n
    OBVIOUS
  <2>2. \A at \in k + 1..n : from[at] \in Seq(R)
    BY <1>2, <2>1
  <2> HIDE DEF k
  <2>3. from[k] \in Seq(R)
    <3>1. from[k] = IF last[k] THEN end[k] ELSE <<rec[k]>> \o from[next[k]]
      BY <2>1 DEF Chained
    <3>2. CASE last[k]
      BY <2>1, <3>1, <3>2
    <3>3. CASE ~last[k]
      <4>1. next[k] \in k + 1..n
        BY <2>1, <3>3
      <4>2. PICK a \in Seq(R) : a = <<rec[k]>>
        <5>1. PICK e \in R : e = rec[k]
          BY <2>1
        <5>2. <<e>> \in Seq(R)
          OBVIOUS
        <5>3. QED
          BY <5>1, <5>2
      <4>3. PICK b \in Seq(R) : b = from[next[k]]
        BY <2>2, <4>1
      <4>4. a \o b \in Seq(R)
        BY ConcatProperties
      <4>5. QED
        BY <3>1, <3>3, <4>2, <4>3, <4>4
    <3>4. QED
      BY <3>2, <3>3
  <2>4. \A at \in k..n : from[at] \in Seq(R)
    <3>1. ASSUME NEW at \in k..n PROVE from[at] \in Seq(R)
      <4>1. at = k \/ at \in k + 1..n
        BY <2>1
      <4>2. QED
        BY <2>2, <2>3, <4>1
    <3>2. QED
      BY <3>1
  <2>5. QED
    BY <2>1, <2>4 DEF k
<1>3. n \in S
  <2> HIDE DEF S
  <2>1. \A i \in 0..n : i \in S
    BY <1>1, <1>2, CountUp
  <2>2. QED
    BY <2>1
<1>4. \A at \in 1..n : from[at] \in Seq(R)
  <2>1. n - n + 1 = 1
    OBVIOUS
  <2>2. QED
    BY <1>3, <2>1
<1>5. QED
  BY <1>4
-----------------------------------------------------------------------------
(* LENGTHS                                                                 *)

(* A length that is shorter than its header goes beyond every database.    *)
Roomy == ListHeaderLen + PackageHeaderLen <= Greatest(ListLengthLen)

LEMMA HeaderLengths ==
  /\ ListLengthLen \in FieldWidths /\ PackageLengthLen \in FieldWidths
  /\ GuidLen \in Nat /\ GuidLen > 0 /\ ListLengthLen \in Nat /\ ListLengthLen > 0
  /\ PackageLengthLen \in Nat /\ PackageLengthLen > 0
  /\ ListHeaderLen \in Nat /\ ListHeaderLen > 0
  /\ PackageHeaderLen \in Nat /\ PackageHeaderLen > 0
  /\ StringHeaderLen \in Nat
  BY WidthsAssumption DEF FieldWidths, ListHeaderLen, PackageHeaderLen

LEMMA GreatestTyped ==
  ASSUME NEW width \in FieldWidths
  PROVE  Greatest(width) \in Nat
<1> DEFINE bytes == [i \in 1..width |-> 255]
<1>1. width \in Nat
  BY DEF FieldWidths
<1>2. bytes \in [1..width -> Byte]
  BY DEF Byte
<1>3. bytes \in Seq(Byte)
  BY <1>1, <1>2, SeqDef
<1>4. DOMAIN bytes = 1..width
  BY <1>2
<1>5. Len(bytes) = width
  BY <1>1, <1>3, <1>4, LenProperties
<1> HIDE DEF bytes
<1>6. Decode(bytes) \in Nat
  BY <1>3, <1>5, EncodeDecode
<1>7. QED
  BY <1>6 DEF Greatest, bytes

LEMMA DataLenIs ==
  ASSUME Roomy, NEW length \in Nat, NEW header \in Nat,
         header <= ListHeaderLen \/ header <= PackageHeaderLen
  PROVE  /\ DataLen(length, header) \in Nat
         /\ length >= header => DataLen(length, header) = length - header
         /\ length < header => DataLen(length, header) > Greatest(ListLengthLen) - header
<1>1. /\ ListHeaderLen \in Nat /\ PackageHeaderLen \in Nat
      /\ Greatest(ListLengthLen) \in Nat
  BY HeaderLengths, GreatestTyped
<1>2. header <= Greatest(ListLengthLen)
  BY <1>1 DEF Roomy
<1>3. QED
  BY <1>1, <1>2 DEF DataLen

LEMMA PieceTyped ==
  ASSUME NEW T, NEW s \in Seq(T), NEW m \in Nat, m > 0, NEW n \in Int, n <= Len(s)
  PROVE  SubSeq(s, m, n) \in Seq(T)
<1>1. \A i \in m..n : i \in 1..Len(s)
  BY LenProperties
<1>2. \A i \in m..n : s[i] \in T
  BY <1>1, ElementOfSeq
<1>3. QED
  BY <1>2, SubSeqProperties

-----------------------------------------------------------------------------
(* PACKAGE LISTS                                                           *)

NextList(s, at) == at + ListHeaderLen + ListDataLen(s, at)

ListAt(s, at) ==
  [ok |-> TRUE, guid |-> SubSeq(s, at, at + GuidLen - 1),
   data |-> SubSeq(s, at + ListHeaderLen, NextList(s, at) - 1)]

ListRecords == {Unreadable} \cup [ok : {TRUE}, guid : Seq(Byte), data : Seq(Byte)]

(* What get_package_lists finds from each position on.                     *)
ListsFrom(from, s) ==
  /\ from \in [1..Len(s) + 1 -> Seq(ListRecords)]
  /\ PackageLists(s) = from[1]
  /\ from[Len(s) + 1] = <<>>
  /\ \A at \in 1..Len(s) :
       IF ListReadable(s, at)
       THEN /\ NextList(s, at) \in at + 1..Len(s) + 1
            /\ Precedes(ListAt(s, at), from[NextList(s, at)], from[at])
       ELSE from[at] = Cut

(* A list that can be read lies in the source, and the next one behind it. *)
LEMMA ReadableList ==
  ASSUME Roomy, NEW s \in Seq(Byte), NEW at \in 1..Len(s), ListReadable(s, at)
  PROVE  NextList(s, at) \in at + 1..Len(s) + 1 /\ ListAt(s, at) \in ListRecords
<1>1. Len(s) \in Nat /\ at \in Nat /\ at > 0
  BY LenProperties
<1>2. /\ at + ListHeaderLen - 1 <= Len(s)
      /\ at + ListHeaderLen + ListDataLen(s, at) - 1 <= Len(s)
  BY DEF ListReadable, Within
<1>3. at + GuidLen \in Nat /\ at + GuidLen > 0 /\ Within(s, at + GuidLen, ListLengthLen)
  BY <1>1, <1>2, HeaderLengths DEF ListHeaderLen, Within
<1>4. NumberAt(s, at + GuidLen, ListLengthLen) \in Nat
  BY <1>3, HeaderLengths, NumberTyped
<1>5. ListDataLen(s, at) \in Nat
  <2>1. PICK length \in Nat : length = NumberAt(s, at + GuidLen, ListLengthLen)
    BY <1>4
  <2>2. DataLen(length, ListHeaderLen) \in Nat
    <3>1. ListHeaderLen \in Nat /\ ListHeaderLen <= ListHeaderLen
      BY HeaderLengths
    <3>2. PICK header \in Nat : header = ListHeaderLen
      BY <3>1
    <3>3. header <= ListHeaderLen
      BY <3>1, <3>2
    <3>4. DataLen(length, header) \in Nat
      BY <3>3, DataLenIs
    <3>5. QED
      BY <3>2, <3>4
  <2>3. QED
    BY <2>1, <2>2 DEF ListDataLen
<1>6. NextList(s, at) \in at + 1..Len(s) + 1
  BY <1>1, <1>2, <1>5, HeaderLengths DEF NextList
<1>7. SubSeq(s, at, at + GuidLen - 1) \in Seq(Byte)
  <2>1. at + GuidLen - 1 \in Int /\ at + GuidLen - 1 <= Len(s)
    BY <1>1, <1>2, HeaderLengths DEF ListHeaderLen
  <2>2. QED
    BY <1>1, <2>1, PieceTyped
<1>8. SubSeq(s, at + ListHeaderLen, NextList(s, at) - 1) \in Seq(Byte)
  <2>1. /\ at + ListHeaderLen \in Nat /\ at + ListHeaderLen > 0
        /\ NextList(s, at) - 1 \in Int /\ NextList(s, at) - 1 <= Len(s)
    BY <1>1, <1>6, HeaderLengths
  <2>2. QED
    BY <2>1, PieceTyped
<1>9. QED
  BY <1>6, <1>7, <1>8 DEF ListAt, ListRecords

(* The loop of get_package_lists, unrolled by a step at every position.    *)
LEMMA ListsChained ==
  ASSUME Roomy, NEW s \in Seq(Byte)
  PROVE  \E from : ListsFrom(from, s)
<1> DEFINE n == Len(s) + 1
           over(at) == at > Len(s) \/ ~ListReadable(s, at)
           last == [at \in 1..n |-> over(at)]
           end == [at \in 1..n |-> IF at > Len(s) THEN <<>> ELSE Cut]
           rec == [at \in 1..n |-> IF over(at) THEN Unreadable ELSE ListAt(s, at)]
           next == [at \in 1..n |-> IF over(at) THEN 0 ELSE NextList(s, at)]
           Body(at, f) == IF at > Len(s) THEN <<>>
                          ELSE IF ~ListReadable(s, at) THEN Cut
                          ELSE <<ListAt(s, at)>> \o f[NextList(s, at)]
           Lists(f) == f = [at \in 1..n |-> Body(at, f)]
<1>1. Len(s) \in Nat /\ n \in Nat /\ 1 \in 1..n /\ n \in 1..n
  BY LenProperties
<1>2. \A at \in 1..n : ~over(at) => at \in 1..Len(s) /\ ListReadable(s, at)
  BY <1>1
<1>3. \A at \in 1..n : ~over(at) => /\ NextList(s, at) \in at + 1..n
                                    /\ ListAt(s, at) \in ListRecords
  <2> HIDE DEF over
  <2>1. QED
    BY <1>2, ReadableList
<1>4. last \in [1..n -> BOOLEAN]
  BY DEF ListReadable
<1>5. end \in [1..n -> Seq(ListRecords)]
  <2>1. <<>> \in Seq(ListRecords) /\ Cut \in Seq(ListRecords)
    BY EmptySeq DEF Cut, ListRecords
  <2>2. QED
    BY <2>1
<1>6. rec \in [1..n -> ListRecords]
  <2>1. Unreadable \in ListRecords
    BY DEF ListRecords
  <2> HIDE DEF over
  <2>2. QED
    BY <1>3, <2>1
<1>7. next \in [1..n -> Nat]
  <2> HIDE DEF over
  <2>1. \A at \in 1..n : ~over(at) => NextList(s, at) \in Nat
    BY <1>1, <1>3
  <2>2. QED
    BY <2>1
<1>8. \A at \in 1..n : ~last[at] => next[at] \in at + 1..n
  <2> HIDE DEF over
  <2>1. QED
    BY <1>3
<1>9. PICK from \in [1..n -> Seq(ListRecords)] : Chained(from, last, end, rec, next)
  <2> HIDE DEF last, end, rec, next, n
  <2>1. QED
    BY <1>1, <1>4, <1>5, <1>6, <1>7, <1>8, ChainExists
<1>10. ASSUME NEW at \in 1..n PROVE from[at] = Body(at, from)
  <2>1. from[at] = IF last[at] THEN end[at] ELSE <<rec[at]>> \o from[next[at]]
    BY <1>9 DEF Chained
  <2>2. CASE over(at)
    <3>1. last[at] /\ end[at] = Body(at, from)
      BY <2>2
    <3>2. QED
      BY <2>1, <3>1
  <2>3. CASE ~over(at)
    <3>1. ~last[at] /\ rec[at] = ListAt(s, at) /\ next[at] = NextList(s, at)
      BY <2>3
    <3>2. Body(at, from) = <<ListAt(s, at)>> \o from[NextList(s, at)]
      BY <2>3
    <3> HIDE DEF Body, last, rec, next, end
    <3>3. QED
      BY <2>1, <3>1, <3>2
  <2>4. QED
    BY <2>2, <2>3
<1>11. from = [at \in 1..n |-> Body(at, from)]
  <2> HIDE DEF Body
  <2>1. QED
    BY <1>9, <1>10
<1> DEFINE lists == CHOOSE f : Lists(f)
<1>12. Lists(lists)
  <2>1. Lists(from)
    BY <1>11
  <2> HIDE DEF Lists
  <2>2. QED
    BY <2>1
<1>13. PackageLists(s) = lists[1]
  BY DEF PackageLists, NextList, ListAt
<1> HIDE DEF lists
<1>14. DOMAIN lists = 1..n /\ \A at \in 1..n : lists[at] = Body(at, lists)
  <2> HIDE DEF Body
  <2>1. QED
    BY <1>12
<1>15. lists = [at \in 1..n |-> lists[at]]
  <2> HIDE DEF Body
  <2>1. QED
    BY <1>12
<1>16. Chained(lists, last, end, rec, next)
  <2>1. ASSUME NEW at \in 1..n
        PROVE  lists[at] = IF last[at] THEN end[at] ELSE <<rec[at]>> \o lists[next[at]]
    <3>1. CASE over(at)
      <4>1. last[at] /\ end[at] = Body(at, lists)
        BY <3>1
      <4> HIDE DEF Body, last, rec, next, end
      <4>2. QED
        BY <1>14, <4>1
    <3>2. CASE ~over(at)
      <4>1. ~last[at] /\ rec[at] = ListAt(s, at) /\ next[at] = NextList(s, at)
        BY <3>2
      <4>2. Body(at, lists) = <<ListAt(s, at)>> \o lists[NextList(s, at)]
        BY <3>2
      <4> HIDE DEF Body, last, rec, next, end
      <4>3. QED
        BY <1>14, <4>1, <4>2
    <3>3. QED
      BY <3>1, <3>2
  <2> HIDE DEF last, end, rec, next
  <2>2. QED
    BY <1>14, <2>1 DEF Chained
<1>17. lists \in [1..n -> Seq(ListRecords)]
  <2> HIDE DEF last, end, rec, next, n
  <2>1. QED
    BY <1>1, <1>4, <1>5, <1>6, <1>7, <1>8, <1>14, <1>15, <1>16, ChainTyped
<1>18. lists[Len(s) + 1] = <<>>
  <2>1. lists[n] = Body(n, lists)
    BY <1>1, <1>14
  <2>2. n > Len(s)
    BY <1>1
  <2>3. QED
    BY <2>1, <2>2
<1>19. ASSUME NEW at \in 1..Len(s)
       PROVE  IF ListReadable(s, at)
              THEN /\ NextList(s, at) \in at + 1..Len(s) + 1
                   /\ Precedes(ListAt(s, at), lists[NextList(s, at)], lists[at])
              ELSE lists[at] = Cut
  <2>1. at \in 1..n /\ ~(at > Len(s))
    BY <1>1
  <2>2. lists[at] = Body(at, lists)
    BY <1>14, <2>1
  <2>3. ListReadable(s, at) => NextList(s, at) \in at + 1..Len(s) + 1
    BY <1>3, <2>1
  <2>4. QED
    BY <2>1, <2>2, <2>3 DEF Precedes
<1>20. QED
  BY <1>13, <1>17, <1>18, <1>19 DEF ListsFrom
-----------------------------------------------------------------------------
(* PACKAGES                                                                *)

NextPackage(s, at) == at + PackageHeaderLen + PackageDataLen(s, at)

PackageAt(s, at) ==
  [ok |-> TRUE, type |-> s[at + PackageLengthLen],
   data |-> SubSeq(s, at + PackageHeaderLen, NextPackage(s, at) - 1)]

PackageRecords == {Unreadable} \cup [ok : {TRUE}, type : Byte, data : Seq(Byte)]

LastPackage(s, at) == ~PackageReadable(s, at) \/ s[at + PackageLengthLen] = End

(* What get_packages finds from each position on.                          *)
PackagesFrom(from, s) ==
  /\ from \in [1..Len(s) + 1 -> Seq(PackageRecords)]
  /\ Packages(s) = from[1]
  /\ \A at \in 1..Len(s) + 1 :
       IF LastPackage(s, at)
       THEN from[at] = IF PackageReadable(s, at) THEN <<>> ELSE Cut
       ELSE /\ NextPackage(s, at) \in at + 1..Len(s) + 1
            /\ Precedes(PackageAt(s, at), from[NextPackage(s, at)], from[at])

(* A package that can be read lies in its list, and the next one behind    *)
(* it.                                                                     *)
LEMMA ReadablePackage ==
  ASSUME Roomy, NEW s \in Seq(Byte), NEW at \in 1..Len(s) + 1, PackageReadable(s, at)
  PROVE  NextPackage(s, at) \in at + 1..Len(s) + 1 /\ PackageAt(s, at) \in PackageRecords
<1>1. Len(s) \in Nat /\ at \in Nat /\ at > 0
  BY LenProperties
<1>2. /\ at + PackageHeaderLen - 1 <= Len(s)
      /\ at + PackageHeaderLen + PackageDataLen(s, at) - 1 <= Len(s)
  BY DEF PackageReadable, Within
<1>3. Within(s, at, PackageLengthLen) /\ at + PackageLengthLen \in 1..Len(s)
  BY <1>1, <1>2, HeaderLengths DEF PackageHeaderLen, Within
<1>4. NumberAt(s, at, PackageLengthLen) \in Nat
  BY <1>1, <1>3, HeaderLengths, NumberTyped
<1>5. PackageDataLen(s, at) \in Nat
  <2>1. PICK length \in Nat : length = NumberAt(s, at, PackageLengthLen)
    BY <1>4
  <2>2. DataLen(length, PackageHeaderLen) \in Nat
    <3>1. PackageHeaderLen \in Nat /\ PackageHeaderLen <= PackageHeaderLen
      BY HeaderLengths
    <3>2. PICK header \in Nat : header = PackageHeaderLen
      BY <3>1
    <3>3. header <= PackageHeaderLen
      BY <3>1, <3>2
    <3>4. DataLen(length, header) \in Nat
      BY <3>3, DataLenIs
    <3>5. QED
      BY <3>2, <3>4
  <2>3. QED
    BY <2>1, <2>2 DEF PackageDataLen
<1>6. NextPackage(s, at) \in at + 1..Len(s) + 1
  BY <1>1, <1>2, <1>5, HeaderLengths DEF NextPackage
<1>7. s[at + PackageLengthLen] \in Byte
  BY <1>3, ElementOfSeq
<1>8. SubSeq(s, at + PackageHeaderLen, NextPackage(s, at) - 1) \in Seq(Byte)
  <2>1. /\ at + PackageHeaderLen \in Nat /\ at + PackageHeaderLen > 0
        /\ NextPackage(s, at) - 1 \in Int /\ NextPackage(s, at) - 1 <= Len(s)
    BY <1>1, <1>6, HeaderLengths
  <2>2. QED
    BY <2>1, PieceTyped
<1>9. QED
  BY <1>6, <1>7, <1>8 DEF PackageAt, PackageRecords

(* The loop of get_packages, likewise.                                     *)
LEMMA PackagesChained ==
  ASSUME Roomy, NEW s \in Seq(Byte)
  PROVE  \E from : PackagesFrom(from, s)
<1> DEFINE n == Len(s) + 1
           over(at) == LastPackage(s, at)
           last == [at \in 1..n |-> over(at)]
           end == [at \in 1..n |-> IF PackageReadable(s, at) THEN <<>> ELSE Cut]
           rec == [at \in 1..n |-> IF over(at) THEN Unreadable ELSE PackageAt(s, at)]
           next == [at \in 1..n |-> IF over(at) THEN 0 ELSE NextPackage(s, at)]
           Body(at, f) == IF ~PackageReadable(s, at) THEN Cut
                          ELSE IF s[at + PackageLengthLen] = End THEN <<>>
                          ELSE <<PackageAt(s, at)>> \o f[NextPackage(s, at)]
           Lists(f) == f = [at \in 1..n |-> Body(at, f)]
<1>1. Len(s) \in Nat /\ n \in Nat /\ 1 \in 1..n /\ n \in 1..n
  BY LenProperties
<1>2. \A at \in 1..n : ~over(at) => PackageReadable(s, at)
  BY DEF LastPackage
<1>3. \A at \in 1..n : ~over(at) => /\ NextPackage(s, at) \in at + 1..n
                                    /\ PackageAt(s, at) \in PackageRecords
  <2> HIDE DEF over
  <2>1. QED
    BY <1>2, ReadablePackage
<1>4. last \in [1..n -> BOOLEAN]
  BY DEF LastPackage
<1>5. end \in [1..n -> Seq(PackageRecords)]
  <2>1. <<>> \in Seq(PackageRecords) /\ Cut \in Seq(PackageRecords)
    BY EmptySeq DEF Cut, PackageRecords
  <2>2. QED
    BY <2>1
<1>6. rec \in [1..n -> PackageRecords]
  <2>1. Unreadable \in PackageRecords
    BY DEF PackageRecords
  <2> HIDE DEF over
  <2>2. QED
    BY <1>3, <2>1
<1>7. next \in [1..n -> Nat]
  <2> HIDE DEF over
  <2>1. \A at \in 1..n : ~over(at) => NextPackage(s, at) \in Nat
    BY <1>1, <1>3
  <2>2. QED
    BY <2>1
<1>8. \A at \in 1..n : ~last[at] => next[at] \in at + 1..n
  <2> HIDE DEF over
  <2>1. QED
    BY <1>3
<1>9. PICK from \in [1..n -> Seq(PackageRecords)] : Chained(from, last, end, rec, next)
  <2> HIDE DEF last, end, rec, next, n
  <2>1. QED
    BY <1>1, <1>4, <1>5, <1>6, <1>7, <1>8, ChainExists
<1>10. ASSUME NEW at \in 1..n, NEW f
       PROVE  Body(at, f) = IF last[at] THEN end[at] ELSE <<rec[at]>> \o f[next[at]]
  <2>1. CASE over(at)
    <3>1. last[at] /\ end[at] = Body(at, f)
      BY <2>1 DEF LastPackage
    <3> HIDE DEF Body, last, rec, next, end
    <3>2. QED
      BY <3>1
  <2>2. CASE ~over(at)
    <3>1. ~last[at] /\ rec[at] = PackageAt(s, at) /\ next[at] = NextPackage(s, at)
      BY <2>2
    <3>2. Body(at, f) = <<PackageAt(s, at)>> \o f[NextPackage(s, at)]
      BY <2>2 DEF LastPackage
    <3> HIDE DEF Body, last, rec, next, end
    <3>3. QED
      BY <3>1, <3>2
  <2>3. QED
    BY <2>1, <2>2
<1>11. from = [at \in 1..n |-> Body(at, from)]
  <2>1. DOMAIN from = 1..n
    BY <1>9
  <2> HIDE DEF Body, last, end, rec, next
  <2>2. \A at \in 1..n : from[at] = Body(at, from)
    BY <1>9, <1>10, <2>1 DEF Chained
  <2>3. QED
    BY <1>9, <2>2
<1> DEFINE lists == CHOOSE f : Lists(f)
<1>12. Lists(lists)
  <2>1. Lists(from)
    BY <1>11
  <2> HIDE DEF Lists
  <2>2. QED
    BY <2>1
<1>13. Packages(s) = lists[1]
  BY DEF Packages, NextPackage, PackageAt
<1> HIDE DEF lists
<1>14. DOMAIN lists = 1..n /\ \A at \in 1..n : lists[at] = Body(at, lists)
  <2> HIDE DEF Body
  <2>1. QED
    BY <1>12
<1>15. lists = [at \in 1..n |-> lists[at]]
  <2> HIDE DEF Body
  <2>1. QED
    BY <1>12
<1>16. Chained(lists, last, end, rec, next)
  <2> HIDE DEF Body, last, end, rec, next
  <2>1. QED
    BY <1>10, <1>14 DEF Chained
<1>17. lists \in [1..n -> Seq(PackageRecords)]
  <2> HIDE DEF last, end, rec, next, n
  <2>1. QED
    BY <1>1, <1>4, <1>5, <1>6, <1>7, <1>8, <1>14, <1>15, <1>16, ChainTyped
<1>18. ASSUME NEW at \in 1..n
       PROVE  IF LastPackage(s, at)
              THEN lists[at] = IF PackageReadable(s, at) THEN <<>> ELSE Cut
              ELSE /\ NextPackage(s, at) \in at + 1..n
                   /\ Precedes(PackageAt(s, at), lists[NextPackage(s, at)], lists[at])
  <2>1. lists[at] = Body(at, lists)
    BY <1>14
  <2>2. ~LastPackage(s, at) => NextPackage(s, at) \in at + 1..n
    BY <1>3
  <2>3. QED
    BY <2>1, <2>2 DEF Precedes, LastPackage
<1>19. QED
  BY <1>13, <1>17, <1>18 DEF PackagesFrom
-----------------------------------------------------------------------------
(* A PACKAGE THAT IS LAID OUT                                              *)

PackageData(package) ==
  IF package.type = Strings THEN EncodeStrings(package.blocks) ELSE package.data

(* A concatenation as one value, for the solvers to do arithmetic with.    *)
LEMMA Joined ==
  ASSUME NEW T, NEW a \in Seq(T), NEW b \in Seq(T)
  PROVE  \E c \in Seq(T) : c = a \o b /\ Len(c) = Len(a) + Len(b)
  BY ConcatProperties

(* What it takes to be read, also of the End package.                      *)
Encodable(package) ==
  /\ package.type \in Byte
  /\ PackageData(package) \in Seq(Byte)
  /\ LengthFits(package, Len(EncodePackage(package)), PackageHeaderLen, PackageLengthLen)

PackageLength(package) == Stated(package, PackageHeaderLen + Len(PackageData(package)))

(* The fields of a package that is laid out, one behind the other.         *)
LEMMA PackageEncoded ==
  ASSUME NEW package, Encodable(package)
  PROVE  /\ PackageLength(package) \in Nat
         /\ EncodePackage(package)
              = Encode(PackageLength(package), PackageLengthLen)
                  \o <<package.type>> \o PackageData(package)
         /\ EncodePackage(package) \in Seq(Byte)
         /\ Len(EncodePackage(package)) = PackageHeaderLen + Len(PackageData(package))
         /\ Fits(PackageLength(package), PackageLengthLen)
<1> DEFINE length == PackageLength(package)
           data == PackageData(package)
<1>1. EncodePackage(package) = Encode(length, PackageLengthLen) \o <<package.type>> \o data
  BY DEF EncodePackage, PackageLength, PackageData
<1>2. data \in Seq(Byte) /\ Len(data) \in Nat /\ package.type \in Byte
  BY LenProperties DEF Encodable
<1>3. length \in Nat
  BY <1>2, HeaderLengths DEF PackageLength, Stated, Encodable, LengthFits
<1> HIDE DEF length, data
<1>4. PICK e \in Seq(Byte) : e = Encode(length, PackageLengthLen) /\ Len(e) = PackageLengthLen
  BY <1>3, HeaderLengths, EncodeTyped
<1>5. PICK t \in Seq(Byte) : t = <<package.type>> /\ Len(t) = 1
  <2>1. PICK x \in Byte : x = package.type
    BY <1>2
  <2>2. <<x>> \in Seq(Byte) /\ Len(<<x>>) = 1
    OBVIOUS
  <2>3. QED
    BY <2>1, <2>2
<1>6. PICK f \in Seq(Byte) : f = e \o t /\ Len(f) = PackageLengthLen + 1
  <2>1. \E c \in Seq(Byte) : c = e \o t /\ Len(c) = Len(e) + Len(t)
    BY Joined
  <2>2. QED
    BY <1>4, <1>5, <2>1
<1>7. PICK g \in Seq(Byte) : g = f \o data /\ Len(g) = PackageLengthLen + 1 + Len(data)
  <2>1. \E c \in Seq(Byte) : c = f \o data /\ Len(c) = Len(f) + Len(data)
    BY <1>2, Joined
  <2>2. QED
    BY <1>6, <2>1
<1>8. EncodePackage(package) = g
  BY <1>1, <1>4, <1>5, <1>6, <1>7
<1>9. Len(g) = PackageHeaderLen + Len(data)
  BY <1>2, <1>7, HeaderLengths DEF PackageHeaderLen
<1>10. Fits(length, PackageLengthLen)
  <2>1. CASE Lies(package)
    BY <2>1 DEF Encodable, LengthFits, length, PackageLength, Stated
  <2>2. CASE ~Lies(package)
    BY <2>2, <1>8, <1>9 DEF Encodable, LengthFits, length, data, PackageLength, Stated
  <2>3. QED
    BY <2>1, <2>2
<1>11. QED
  BY <1>1, <1>3, <1>7, <1>8, <1>9, <1>10 DEF length, data

(* What a reader finds where such a package lies.                          *)
LEMMA PackageHeld ==
  ASSUME NEW package, Encodable(package), NEW s \in Seq(Byte), NEW at \in Nat, at > 0,
         Holds(s, at, EncodePackage(package))
  PROVE  /\ Within(s, at, PackageHeaderLen)
         /\ s[at + PackageLengthLen] = package.type
         /\ NumberAt(s, at, PackageLengthLen) = PackageLength(package)
         /\ Holds(s, at + PackageHeaderLen, PackageData(package))
<1> DEFINE length == PackageLength(package)
           data == PackageData(package)
<1>1. /\ length \in Nat /\ Fits(length, PackageLengthLen)
      /\ EncodePackage(package) = Encode(length, PackageLengthLen) \o <<package.type>> \o data
      /\ Len(EncodePackage(package)) = PackageHeaderLen + Len(data)
  BY PackageEncoded
<1>2. data \in Seq(Byte) /\ Len(data) \in Nat /\ package.type \in Byte
  BY LenProperties DEF Encodable
<1> HIDE DEF length, data
<1>3. PICK e \in Seq(Byte) : e = Encode(length, PackageLengthLen) /\ Len(e) = PackageLengthLen
  BY <1>1, HeaderLengths, EncodeTyped
<1>4. PICK t \in Seq(Byte) : t = <<package.type>> /\ Len(t) = 1 /\ t[1] = package.type
  <2>1. PICK x \in Byte : x = package.type
    BY <1>2
  <2>2. <<x>> \in Seq(Byte) /\ Len(<<x>>) = 1 /\ <<x>>[1] = x
    OBVIOUS
  <2>3. QED
    BY <2>1, <2>2
<1>5. PICK f \in Seq(Byte) : f = e \o t /\ Len(f) = PackageLengthLen + 1
  <2>1. \E c \in Seq(Byte) : c = e \o t /\ Len(c) = Len(e) + Len(t)
    BY Joined
  <2>2. QED
    BY <1>3, <1>4, <2>1
<1>6. EncodePackage(package) = f \o data
  BY <1>1, <1>3, <1>4, <1>5
<1>7. Holds(s, at, f) /\ Holds(s, at + Len(f), data)
  <2>1. Holds(s, at, f \o data)
    BY <1>6
  <2>2. QED
    BY <1>2, <2>1, HoldsParts
<1>8. Holds(s, at, e) /\ Holds(s, at + Len(e), t)
  <2>1. Holds(s, at, e \o t)
    BY <1>5, <1>7
  <2>2. QED
    BY <2>1, HoldsParts
<1>9. at + Len(f) = at + PackageHeaderLen /\ at + Len(e) = at + PackageLengthLen
  BY <1>3, <1>5, HeaderLengths DEF PackageHeaderLen
<1>10. s[at + PackageLengthLen] = package.type
  <2>1. 1 \in 1..Len(t) /\ at + PackageLengthLen + 1 - 1 = at + PackageLengthLen
    BY <1>4, HeaderLengths
  <2>2. s[at + PackageLengthLen + 1 - 1] = t[1]
    BY <1>8, <1>9, <2>1 DEF Holds
  <2>3. QED
    BY <1>4, <2>1, <2>2
<1>11. NumberAt(s, at, PackageLengthLen) = length
  BY <1>1, <1>3, <1>8, HeaderLengths, HeldNumber
<1>12. Within(s, at, PackageHeaderLen)
  BY <1>5, <1>7, <1>9, HeaderLengths DEF Within, Holds, PackageHeaderLen
<1>13. QED
  BY <1>7, <1>9, <1>10, <1>11, <1>12 DEF length, data

(* A package that states its length is read as it is.                      *)
LEMMA PackageRead ==
  ASSUME Roomy, NEW package, Encodable(package), ~Lies(package),
         NEW s \in Seq(Byte), NEW at \in Nat, at > 0, Holds(s, at, EncodePackage(package))
  PROVE  /\ PackageReadable(s, at) /\ s[at + PackageLengthLen] = package.type
         /\ NextPackage(s, at) = at + Len(EncodePackage(package))
         /\ PackageAt(s, at) = [ok |-> TRUE, type |-> package.type, data |-> PackageData(package)]
<1> DEFINE data == PackageData(package)
           length == PackageHeaderLen + Len(data)
<1>1. data \in Seq(Byte) /\ Len(data) \in Nat
  BY LenProperties DEF Encodable
<1>2. /\ Within(s, at, PackageHeaderLen) /\ s[at + PackageLengthLen] = package.type
      /\ NumberAt(s, at, PackageLengthLen) = PackageLength(package)
      /\ Holds(s, at + PackageHeaderLen, data)
  BY PackageHeld
<1>3. PackageLength(package) = length /\ Len(EncodePackage(package)) = length
  BY PackageEncoded DEF PackageLength, Stated
<1> HIDE DEF data
<1>4. PackageDataLen(s, at) = Len(data)
  <2>1. PICK l \in Nat, h \in Nat : l = length /\ h = PackageHeaderLen /\ l >= h
    BY <1>1, HeaderLengths
  <2>2. h <= PackageHeaderLen
    BY <2>1
  <2>3. DataLen(l, h) = l - h
    BY <2>1, <2>2, DataLenIs
  <2>4. l - h = Len(data)
    BY <1>1, <2>1
  <2>5. QED
    BY <1>2, <1>3, <2>1, <2>3, <2>4 DEF PackageDataLen
<1>5. PackageReadable(s, at)
  BY <1>2, <1>4 DEF PackageReadable, Holds, Within
<1>6. NextPackage(s, at) = at + length
  BY <1>1, <1>4, HeaderLengths DEF NextPackage
<1>7. SubSeq(s, at + PackageHeaderLen, NextPackage(s, at) - 1) = data
  <2>1. at + PackageHeaderLen \in Nat /\ at + PackageHeaderLen > 0
        /\ NextPackage(s, at) - 1 = (at + PackageHeaderLen) + Len(data) - 1
    BY <1>1, <1>6, HeaderLengths
  <2>2. PICK from \in Nat : from = at + PackageHeaderLen /\ from > 0
    BY <2>1
  <2>3. SubSeq(s, from, from + Len(data) - 1) = data
    BY <1>1, <1>2, <2>2, HeldPart
  <2>4. QED
    BY <2>1, <2>2, <2>3
<1>8. QED
  BY <1>2, <1>3, <1>5, <1>6, <1>7 DEF PackageAt, data

(* One that states less than its header cannot be read.                    *)
LEMMA PackageRefused ==
  ASSUME Roomy, NEW package, Encodable(package), Lies(package),
         NEW s \in Seq(Byte), NEW at \in Nat, at > 0, Holds(s, at, EncodePackage(package)),
         Len(s) + PackageHeaderLen <= Greatest(ListLengthLen)
  PROVE  ~PackageReadable(s, at)
<1>1. NumberAt(s, at, PackageLengthLen) = PackageLength(package)
  BY PackageHeld
<1>2. PICK l \in Nat, h \in Nat :
        l = PackageLength(package) /\ h = PackageHeaderLen /\ l < h
  BY HeaderLengths DEF PackageLength, Stated, Encodable, LengthFits
<1>3. DataLen(l, h) \in Nat /\ DataLen(l, h) > Greatest(ListLengthLen) - h
  <2>1. h <= PackageHeaderLen
    BY <1>2
  <2>2. QED
    BY <1>2, <2>1, DataLenIs
<1>4. PackageDataLen(s, at) = DataLen(l, h)
  BY <1>1, <1>2 DEF PackageDataLen
<1>5. Len(s) \in Nat /\ Greatest(ListLengthLen) \in Nat
  BY LenProperties, GreatestTyped, HeaderLengths
<1>6. QED
  BY <1>2, <1>3, <1>4, <1>5 DEF PackageReadable, Within
-----------------------------------------------------------------------------
(* THE PACKAGES OF A LIST                                                  *)

EndPackage == [type |-> End, data |-> <<>>]

WithEnd(packages) == packages \o <<EndPackage>>

PackageBytes(packages) ==
  [i \in DOMAIN WithEnd(packages) |-> EncodePackage(WithEnd(packages)[i])]

LEMMA WithEndIs ==
  ASSUME NEW R, NEW ps \in Seq(R)
  PROVE  /\ DOMAIN WithEnd(ps) = 1..Len(ps) + 1
         /\ \A i \in 1..Len(ps) : WithEnd(ps)[i] = ps[i]
         /\ WithEnd(ps)[Len(ps) + 1] = EndPackage
<1> DEFINE T == R \cup {EndPackage}
<1>1. ps \in Seq(T) /\ Len(ps) \in Nat
  BY SeqMonotonic, LenProperties
<1>2. PICK e \in Seq(T) : e = <<EndPackage>> /\ Len(e) = 1 /\ e[1] = EndPackage
  <2>1. PICK x \in T : x = EndPackage
    OBVIOUS
  <2> HIDE DEF T
  <2>2. <<x>> \in Seq(T) /\ Len(<<x>>) = 1 /\ <<x>>[1] = x
    OBVIOUS
  <2>3. QED
    BY <2>1, <2>2
<1> HIDE DEF T
<1>3. /\ ps \o e \in Seq(T) /\ Len(ps \o e) = Len(ps) + Len(e)
      /\ \A i \in 1..Len(ps) + Len(e) :
           (ps \o e)[i] = IF i <= Len(ps) THEN ps[i] ELSE e[i - Len(ps)]
  BY <1>1, ConcatProperties
<1>4. DOMAIN (ps \o e) = 1..Len(ps) + 1
  BY <1>2, <1>3, LenProperties
<1>5. \A i \in 1..Len(ps) : (ps \o e)[i] = ps[i]
  BY <1>1, <1>2, <1>3
<1>6. (ps \o e)[Len(ps) + 1] = EndPackage
  <2>1. Len(ps) + 1 \in 1..Len(ps) + Len(e) /\ ~(Len(ps) + 1 <= Len(ps))
        /\ (Len(ps) + 1) - Len(ps) = 1
    BY <1>1, <1>2
  <2>2. QED
    BY <1>2, <1>3, <2>1
<1>7. QED
  BY <1>2, <1>4, <1>5, <1>6 DEF WithEnd

(* A number of one byte fits any field.                                    *)
LEMMA SmallFits ==
  ASSUME NEW n \in Nat, n < 256, NEW width \in FieldWidths
  PROVE  Fits(n, width)
<1> DEFINE rest == Shifted(n)
<1>1. Shifts(rest, n)
  BY ShiftedShifts
<1> HIDE DEF rest
<1>2. n \div 256 = 0
  OBVIOUS
<1>3. 0 \div 256 = 0
  OBVIOUS
<1> DEFINE S == {i \in 0..8 : i # 0 => rest[i] = 0}
<1>4. 0 \in S
  OBVIOUS
<1>5. ASSUME NEW i \in 1..8, i - 1 \in S PROVE i \in S
  <2>1. rest[i] = rest[i - 1] \div 256
    BY <1>1, Zenon DEF Shifts
  <2>2. rest[0] = n
    BY <1>1, Zenon DEF Shifts
  <2>3. rest[i - 1] \in {0, n}
    BY <1>5, <2>2
  <2>4. rest[i] = 0
    BY <1>2, <1>3, <2>1, <2>3
  <2>5. QED
    BY <2>4
<1>6. \A i \in 0..8 : i \in S
  <2> HIDE DEF S
  <2>1. PICK eight \in Nat : eight = 8
    OBVIOUS
  <2>2. \A i \in 1..eight : i - 1 \in S => i \in S
    BY <1>5, <2>1
  <2>3. \A i \in 0..eight : i \in S
    BY <1>4, <2>2, CountUp
  <2>4. QED
    BY <2>1, <2>3
<1>7. rest[width] = 0
  BY <1>6 DEF FieldWidths
<1>8. QED
  BY <1>7 DEF Fits, rest

LEMMA EndEncodable == Encodable(EndPackage) /\ ~Lies(EndPackage)
<1>1. DOMAIN EndPackage = {"type", "data"} /\ EndPackage.type = End /\ EndPackage.data = <<>>
  BY DEF EndPackage
<1>2. ~Lies(EndPackage)
  BY <1>1 DEF Lies
<1>3. PackageData(EndPackage) = <<>>
  BY <1>1 DEF PackageData, Strings, End
<1>4. <<>> \in Seq(Byte) /\ Len(<<>>) = 0
  BY EmptySeq
<1>5. EndPackage.type \in Byte
  BY <1>1 DEF Byte, End
<1>6. PackageHeaderLen \in Nat /\ PackageHeaderLen < 256
  BY HeaderLengths DEF PackageHeaderLen, FieldWidths
<1>7. Fits(PackageHeaderLen, PackageLengthLen)
  BY <1>6, HeaderLengths, SmallFits
<1>8. Len(EncodePackage(EndPackage)) = PackageHeaderLen
  <2>1. EncodePackage(EndPackage) = Encode(PackageHeaderLen, PackageLengthLen) \o <<End>> \o <<>>
    <3>1. EndPackage.type # Strings /\ PackageHeaderLen + 0 = PackageHeaderLen
      BY <1>1, <1>6 DEF Strings, End
    <3>2. QED
      BY <1>1, <1>2, <1>4, <3>1 DEF EncodePackage, Stated
  <2>2. PICK e \in Seq(Byte) :
          e = Encode(PackageHeaderLen, PackageLengthLen) /\ Len(e) = PackageLengthLen
    BY <1>6, HeaderLengths, EncodeTyped
  <2>3. PICK t \in Seq(Byte) : t = <<End>> /\ Len(t) = 1
    <3>1. PICK x \in Byte : x = End
      BY DEF Byte, End
    <3>2. <<x>> \in Seq(Byte) /\ Len(<<x>>) = 1
      OBVIOUS
    <3>3. QED
      BY <3>1, <3>2
  <2>4. PICK f \in Seq(Byte) : f = e \o t /\ Len(f) = Len(e) + Len(t)
    BY Joined
  <2>5. f \o <<>> = f
    BY ConcatEmptySeq
  <2>6. QED
    BY <2>1, <2>2, <2>3, <2>4, <2>5 DEF PackageHeaderLen
<1>9. LengthFits(EndPackage, Len(EncodePackage(EndPackage)), PackageHeaderLen, PackageLengthLen)
  BY <1>2, <1>7, <1>8 DEF LengthFits
<1>10. QED
  BY <1>2, <1>3, <1>4, <1>5, <1>9 DEF Encodable

PackagesEncodable(ps) ==
  \A i \in 1..Len(ps) : Encodable(ps[i]) /\ ps[i].type # End

(* The bytes of the packages, and where each begins.                       *)
LEMMA PackageBytesHeld ==
  ASSUME NEW R, NEW ps \in Seq(R), PackagesEncodable(ps), NEW padding \in Seq(Byte)
  PROVE  LET encs == PackageBytes(ps)
             s == FlattenSeq(encs) \o padding
         IN  /\ encs \in Seq(Seq(Byte)) /\ Len(encs) = Len(ps) + 1
             /\ FlattenSeq(encs) \in Seq(Byte) /\ s \in Seq(Byte)
             /\ \A i \in 1..Len(ps) + 1 :
                  /\ encs[i] = EncodePackage(WithEnd(ps)[i])
                  /\ Len(UpTo(encs, i - 1)) \in Nat
                  /\ Holds(s, Len(UpTo(encs, i - 1)) + 1, encs[i])
                  /\ Len(UpTo(encs, i)) = Len(UpTo(encs, i - 1)) + Len(encs[i])
<1> DEFINE encs == PackageBytes(ps)
           n == Len(ps) + 1
<1>1. Len(ps) \in Nat /\ n \in Nat
  BY LenProperties
<1>2. \A i \in 1..n : Encodable(WithEnd(ps)[i])
  <2>1. ASSUME NEW i \in 1..n PROVE Encodable(WithEnd(ps)[i])
    <3>1. CASE i = n
      BY <3>1, WithEndIs, EndEncodable
    <3>2. CASE i # n
      <4>1. i \in 1..Len(ps)
        BY <1>1, <3>2
      <4>2. QED
        BY <4>1, WithEndIs DEF PackagesEncodable
    <3>3. QED
      BY <3>1, <3>2
  <2>2. QED
    BY <2>1
<1>3. \A i \in 1..n : EncodePackage(WithEnd(ps)[i]) \in Seq(Byte)
  BY <1>2, PackageEncoded
<1>4. encs = [i \in 1..n |-> EncodePackage(WithEnd(ps)[i])]
  BY WithEndIs DEF PackageBytes
<1>5. encs \in [1..n -> Seq(Byte)]
  BY <1>3, <1>4
<1>6. encs \in Seq(Seq(Byte))
  BY <1>1, <1>5, SeqDef
<1>7. Len(encs) = n
  <2>1. DOMAIN encs = 1..n
    BY <1>4
  <2>2. QED
    BY <1>1, <1>6, <2>1, LenProperties
<1>8. \A i \in 1..n : encs[i] = EncodePackage(WithEnd(ps)[i])
  BY <1>4
<1> HIDE DEF encs, n
<1>9. /\ \A i \in 0..n : UpTo(encs, i) \in Seq(Byte)
      /\ UpTo(encs, n) = FlattenSeq(encs)
  BY <1>6, <1>7, UpToSteps
<1>10. PICK flat \in Seq(Byte) : flat = FlattenSeq(encs)
  <2>1. n \in 0..n
    BY <1>1
  <2>2. QED
    BY <1>9, <2>1
<1> DEFINE s == flat \o padding
<1>11. s \in Seq(Byte) /\ Holds(s, 1, flat)
  <2>1. PICK w \in Seq(Byte) : w = flat \o padding
    BY Joined
  <2>2. Holds(w, 1, w)
    BY HoldsItself
  <2>3. Holds(w, 1, flat)
    <3>1. Holds(w, 1, flat \o padding) /\ 1 \in Nat
      BY <2>1, <2>2
    <3>2. QED
      BY <3>1, HoldsParts
  <2>4. QED
    BY <2>1, <2>3
<1> HIDE DEF s
<1>12. ASSUME NEW i \in 1..n
       PROVE  /\ Len(UpTo(encs, i - 1)) \in Nat
              /\ Holds(s, Len(UpTo(encs, i - 1)) + 1, encs[i])
              /\ Len(UpTo(encs, i)) = Len(UpTo(encs, i - 1)) + Len(encs[i])
  <2>1. i - 1 \in 0..n /\ encs[i] \in Seq(Byte)
    BY <1>1, <1>3, <1>8
  <2>2. PICK e \in Seq(Byte), at \in Nat :
          e = encs[i] /\ at = Len(UpTo(encs, i - 1)) + 1 /\ at > 0
    <3>1. Len(UpTo(encs, i - 1)) \in Nat
      BY <1>9, <2>1, LenProperties
    <3>2. QED
      BY <2>1, <3>1
  <2>3. Holds(flat, at, e) /\ Len(UpTo(encs, i)) = Len(UpTo(encs, i - 1)) + Len(encs[i])
    BY <1>6, <1>7, <1>10, <2>2, UpToHeld
  <2>4. Holds(s, 1 + at - 1, e)
    BY <1>11, <2>2, <2>3, HoldsWithin
  <2>5. 1 + at - 1 = at
    OBVIOUS
  <2>6. Len(UpTo(encs, i - 1)) \in Nat
    BY <1>9, <2>1, LenProperties
  <2>7. QED
    BY <2>2, <2>3, <2>4, <2>5, <2>6
<1>13. QED
  BY <1>6, <1>7, <1>8, <1>10, <1>11, <1>12 DEF s, encs, n

(* What get_packages makes of a package, where it begins in its list, and  *)
(* the bytes of the list behind its header.                                *)
PackageRecord(package) ==
  [ok |-> TRUE, type |-> package.type, data |-> PackageData(package)]

PackageBegin(ps, i) == Len(UpTo(PackageBytes(ps), i)) + 1

PackagesLaid(ps, padding) == FlattenSeq(PackageBytes(ps)) \o padding

(* Each package of a list lies where the ones before it end, the End       *)
(* package behind the last one.                                            *)
LEMMA PackageBegins ==
  ASSUME NEW R, NEW ps \in Seq(R), PackagesEncodable(ps), NEW padding \in Seq(Byte)
  PROVE  LET s == PackagesLaid(ps, padding)
         IN  /\ s \in Seq(Byte)
             /\ PackageBegin(ps, 0) = 1
             /\ \A i \in 0..Len(ps) : PackageBegin(ps, i) \in 1..Len(s) + 1
             /\ \A i \in 1..Len(ps) + 1 :
                  Holds(s, PackageBegin(ps, i - 1), EncodePackage(WithEnd(ps)[i]))
             /\ \A i \in 1..Len(ps) :
                  PackageBegin(ps, i) = PackageBegin(ps, i - 1) + Len(EncodePackage(ps[i]))
<1> DEFINE encs == PackageBytes(ps)
           s == PackagesLaid(ps, padding)
<1>1. Len(ps) \in Nat
  BY LenProperties
<1>2. /\ encs \in Seq(Seq(Byte)) /\ Len(encs) = Len(ps) + 1
      /\ s \in Seq(Byte)
      /\ \A i \in 1..Len(ps) + 1 :
           /\ encs[i] = EncodePackage(WithEnd(ps)[i])
           /\ Len(UpTo(encs, i - 1)) \in Nat
           /\ Holds(s, Len(UpTo(encs, i - 1)) + 1, encs[i])
           /\ Len(UpTo(encs, i)) = Len(UpTo(encs, i - 1)) + Len(encs[i])
  BY PackageBytesHeld DEF PackagesLaid
<1> HIDE DEF encs, s
<1>3. PackageBegin(ps, 0) = 1
  <2>1. UpTo(encs, 0) = <<>> /\ Len(<<>>) = 0
    BY <1>2, UpToSteps, EmptySeq
  <2>2. QED
    BY <2>1 DEF PackageBegin, encs
<1>4. \A i \in 1..Len(ps) + 1 : PackageBegin(ps, i - 1) = Len(UpTo(encs, i - 1)) + 1
                                /\ PackageBegin(ps, i) = Len(UpTo(encs, i)) + 1
  BY DEF PackageBegin, encs
<1>5. ASSUME NEW i \in 1..Len(ps) + 1
      PROVE  /\ Holds(s, PackageBegin(ps, i - 1), EncodePackage(WithEnd(ps)[i]))
             /\ PackageBegin(ps, i - 1) \in Nat /\ PackageBegin(ps, i - 1) > 0
  BY <1>2, <1>4
<1>6. ASSUME NEW i \in 1..Len(ps)
      PROVE  PackageBegin(ps, i) = PackageBegin(ps, i - 1) + Len(EncodePackage(ps[i]))
  <2>1. i \in 1..Len(ps) + 1
    BY <1>1
  <2>2. encs[i] = EncodePackage(ps[i])
    BY <1>2, <2>1, WithEndIs
  <2>3. Len(UpTo(encs, i - 1)) \in Nat /\ Len(encs[i]) \in Nat
    <3>1. encs[i] \in Seq(Byte)
      BY <1>2, <2>1, ElementOfSeq
    <3>2. QED
      BY <1>2, <2>1, <3>1, LenProperties
  <2>4. /\ Len(UpTo(encs, i)) = Len(UpTo(encs, i - 1)) + Len(encs[i])
        /\ PackageBegin(ps, i - 1) = Len(UpTo(encs, i - 1)) + 1
        /\ PackageBegin(ps, i) = Len(UpTo(encs, i)) + 1
    BY <1>2, <1>4, <2>1
  <2>5. QED
    BY <2>2, <2>3, <2>4
<1>7. ASSUME NEW i \in 0..Len(ps)
      PROVE  PackageBegin(ps, i) \in 1..Len(s) + 1
  <2>1. i + 1 \in 1..Len(ps) + 1 /\ (i + 1) - 1 = i
    BY <1>1
  <2>2. PICK at \in Nat, e \in Seq(Byte) :
          at = PackageBegin(ps, i) /\ at > 0 /\ e = EncodePackage(WithEnd(ps)[i + 1])
          /\ Holds(s, at, e)
    <3>1. EncodePackage(WithEnd(ps)[i + 1]) \in Seq(Byte)
      <4>1. encs[i + 1] \in Seq(Byte)
        BY <1>2, <2>1, ElementOfSeq
      <4>2. QED
        BY <1>2, <2>1, <4>1
    <3>2. QED
      BY <1>5, <2>1, <3>1
  <2>3. Len(e) \in Nat /\ Len(s) \in Nat
    BY <1>2, LenProperties
  <2>4. QED
    BY <2>2, <2>3 DEF Holds
<1>8. QED
  BY <1>2, <1>3, <1>5, <1>6, <1>7 DEF s

(* Up to a package that does not state its length, they are read in order. *)
LEMMA PackagesInOrder ==
  ASSUME Roomy, NEW R, NEW ps \in Seq(R), PackagesEncodable(ps), NEW padding \in Seq(Byte),
         NEW from, PackagesFrom(from, PackagesLaid(ps, padding)),
         NEW k \in 0..Len(ps), \A i \in 1..k : ~Lies(ps[i]),
         NEW recs \in Seq(PackageRecords), k <= Len(recs),
         \A i \in 1..k : recs[i] = PackageRecord(ps[i])
  PROVE  Begins(Packages(PackagesLaid(ps, padding)), recs, k, from[PackageBegin(ps, k)])
<1> DEFINE s == PackagesLaid(ps, padding)
           pos == [i \in 0..k |-> PackageBegin(ps, i)]
           n == Len(s) + 1
<1>1. Len(ps) \in Nat /\ k \in Nat
  BY LenProperties
<1>2. /\ s \in Seq(Byte)
      /\ PackageBegin(ps, 0) = 1
      /\ \A i \in 0..Len(ps) : PackageBegin(ps, i) \in 1..n
      /\ \A i \in 1..Len(ps) + 1 :
           Holds(s, PackageBegin(ps, i - 1), EncodePackage(WithEnd(ps)[i]))
      /\ \A i \in 1..Len(ps) :
           PackageBegin(ps, i) = PackageBegin(ps, i - 1) + Len(EncodePackage(ps[i]))
  BY PackageBegins
<1>3. /\ from \in [1..n -> Seq(PackageRecords)]
      /\ Packages(s) = from[1]
      /\ \A at \in 1..n :
           ~LastPackage(s, at) =>
             Precedes(PackageAt(s, at), from[NextPackage(s, at)], from[at])
  BY DEF PackagesFrom
<1> HIDE DEF s
<1>4. n \in Nat
  BY <1>2, LenProperties
<1> HIDE DEF n
<1>5. pos \in [0..k -> 1..n]
  <2>1. \A i \in 0..k : PackageBegin(ps, i) \in 1..n
    BY <1>1, <1>2
  <2>2. QED
    BY <2>1
<1>6. ASSUME NEW i \in 1..k
      PROVE  Precedes(recs[i], from[pos[i]], from[pos[i - 1]])
  <2>1. i \in 1..Len(ps) /\ i \in 1..Len(ps) + 1 /\ i - 1 \in 0..Len(ps)
        /\ i \in 0..k /\ i - 1 \in 0..k
    BY <1>1
  <2>2. PICK at \in 1..n : at = PackageBegin(ps, i - 1) /\ at \in Nat /\ at > 0
    <3>1. PackageBegin(ps, i - 1) \in 1..n
      BY <1>2, <2>1
    <3>2. QED
      BY <1>4, <3>1
  <2>3. Holds(s, at, EncodePackage(ps[i])) /\ Encodable(ps[i]) /\ ps[i].type # End
    BY <1>2, <2>1, <2>2, WithEndIs DEF PackagesEncodable
  <2>4. ~Lies(ps[i])
    OBVIOUS
  <2>5. /\ PackageReadable(s, at) /\ s[at + PackageLengthLen] = ps[i].type
        /\ NextPackage(s, at) = at + Len(EncodePackage(ps[i]))
        /\ PackageAt(s, at) = PackageRecord(ps[i])
    BY <1>2, <2>2, <2>3, <2>4, PackageRead DEF PackageRecord
  <2>6. ~LastPackage(s, at)
    BY <2>3, <2>5 DEF LastPackage
  <2>7. NextPackage(s, at) = PackageBegin(ps, i)
    BY <1>2, <2>1, <2>2, <2>5
  <2>8. pos[i] = PackageBegin(ps, i) /\ pos[i - 1] = at
    BY <2>1, <2>2
  <2>9. QED
    BY <1>3, <2>2, <2>5, <2>6, <2>7, <2>8
<1>7. pos[0] = 1 /\ pos[k] = PackageBegin(ps, k)
  BY <1>1, <1>2
<1> HIDE DEF pos
<1>8. Begins(from[pos[0]], recs, k, from[pos[k]])
  BY <1>1, <1>3, <1>4, <1>5, <1>6, ChainUnrolled
<1>9. QED
  BY <1>3, <1>7, <1>8 DEF s

(* A list whose packages all state their lengths is read as it is.         *)
LEMMA PackagesParsed ==
  ASSUME Roomy, NEW R, NEW ps \in Seq(R), PackagesEncodable(ps), NEW padding \in Seq(Byte),
         \A i \in 1..Len(ps) : ~Lies(ps[i])
  PROVE  Packages(PackagesLaid(ps, padding)) = [i \in 1..Len(ps) |-> PackageRecord(ps[i])]
<1> DEFINE s == PackagesLaid(ps, padding)
           k == Len(ps)
           recs == [i \in 1..k |-> PackageRecord(ps[i])]
<1>1. k \in Nat /\ k \in 0..k /\ k + 1 \in 1..k + 1 /\ (k + 1) - 1 = k
  BY LenProperties
<1>2. s \in Seq(Byte)
  BY PackageBegins
<1>3. PICK from : PackagesFrom(from, s)
  BY <1>2, PackagesChained
<1>4. recs \in Seq(PackageRecords) /\ Len(recs) = k
  <2>1. \A i \in 1..k : PackageRecord(ps[i]) \in PackageRecords
    BY DEF PackageRecord, PackageRecords, PackagesEncodable, Encodable
  <2>2. recs \in [1..k -> PackageRecords]
    BY <2>1
  <2>3. recs \in Seq(PackageRecords) /\ DOMAIN recs = 1..k
    BY <1>1, <2>2, SeqDef
  <2> HIDE DEF recs
  <2>4. QED
    BY <1>1, <2>3, LenProperties
<1>5. \A i \in 1..k : recs[i] = PackageRecord(ps[i])
  OBVIOUS
<1> HIDE DEF recs
<1>6. Begins(Packages(s), recs, k, from[PackageBegin(ps, k)])
  BY <1>1, <1>3, <1>4, <1>5, PackagesInOrder
<1>7. from[PackageBegin(ps, k)] = <<>>
  <2>1. PICK at \in 1..Len(s) + 1 : at = PackageBegin(ps, k) /\ at \in Nat /\ at > 0
    <3>1. PackageBegin(ps, k) \in 1..Len(s) + 1
      BY <1>1, PackageBegins
    <3>2. Len(s) \in Nat
      BY <1>2, LenProperties
    <3>3. QED
      BY <3>1, <3>2
  <2>2. Holds(s, at, EncodePackage(EndPackage))
    <3>1. Holds(s, PackageBegin(ps, (k + 1) - 1), EncodePackage(WithEnd(ps)[k + 1]))
      BY <1>1, PackageBegins
    <3>2. QED
      BY <1>1, <2>1, <3>1, WithEndIs
  <2>3. PackageReadable(s, at) /\ s[at + PackageLengthLen] = EndPackage.type
    BY <1>2, <2>1, <2>2, EndEncodable, PackageRead
  <2>4. LastPackage(s, at)
    BY <2>3 DEF LastPackage, EndPackage
  <2>5. QED
    BY <1>3, <2>1, <2>3, <2>4 DEF PackagesFrom
<1>8. SubSeq(recs, 1, k) = recs
  BY <1>4, SubSeqFull
<1>9. Packages(s) = recs
  BY <1>4, <1>6, <1>7, <1>8, ConcatEmptySeq DEF Begins
<1>10. QED
  BY <1>9 DEF recs

(* What the parsers make of a sequence with this at its end.               *)
LEMMA EndsUnreadable ==
  ASSUME NEW R, NEW recs \in Seq(R), NEW k \in 0..Len(recs), Unreadable \in R,
         NEW whole, Begins(whole, recs, k, Cut)
  PROVE  whole \in Seq(R) /\ \E i \in DOMAIN whole : whole[i] = Unreadable
<1>1. k \in Nat /\ Len(recs) \in Nat
  BY LenProperties
<1>2. PICK a \in Seq(R) : a = SubSeq(recs, 1, k)
  <2>1. PICK m \in Nat : m = 1 /\ m > 0
    OBVIOUS
  <2>2. k \in Int /\ k <= Len(recs)
    BY <1>1
  <2>3. SubSeq(recs, m, k) \in Seq(R)
    BY <2>1, <2>2, PieceTyped
  <2>4. QED
    BY <2>1, <2>3
<1>3. PICK c \in Seq(R) : c = Cut /\ Len(c) = 1 /\ c[1] = Unreadable
  <2>1. PICK x \in R : x = Unreadable
    OBVIOUS
  <2>2. <<x>> \in Seq(R) /\ Len(<<x>>) = 1 /\ <<x>>[1] = x
    OBVIOUS
  <2>3. QED
    BY <2>1, <2>2 DEF Cut
<1>4. whole = a \o c
  BY <1>2, <1>3 DEF Begins
<1>5. Len(a) \in Nat
  BY LenProperties
<1>6. /\ whole \in Seq(R) /\ Len(whole) = Len(a) + Len(c)
      /\ \A i \in 1..Len(a) + Len(c) : whole[i] = IF i <= Len(a) THEN a[i] ELSE c[i - Len(a)]
  BY <1>4, ConcatProperties
<1> DEFINE l == Len(a) + 1
<1>7. l \in 1..Len(a) + Len(c) /\ ~(l <= Len(a)) /\ l - Len(a) = 1
  BY <1>3, <1>5
<1>8. whole[l] = Unreadable
  BY <1>3, <1>6, <1>7
<1>9. l \in DOMAIN whole
  BY <1>6, <1>7, LenProperties
<1>10. QED
  BY <1>6, <1>8, <1>9

(* The first of the numbers up to n with a property is after numbers       *)
(* without it.                                                             *)
LEMMA FirstOf ==
  ASSUME NEW n \in Nat, NEW S, NEW j \in 1..n, j \in S
  PROVE  \E m \in 0..n : m + 1 \in 1..n /\ m + 1 \in S /\ \A i \in 1..m : i \notin S
<1> DEFINE W == {i \in 0..n : i + 1 \in 1..n /\ i + 1 \in S}
<1> SUFFICES ASSUME \A m \in 0..n : ~(m + 1 \in 1..n /\ m + 1 \in S /\ \A i \in 1..m : i \notin S)
             PROVE  FALSE
  OBVIOUS
<1> DEFINE G == {k \in 0..n : \A i \in 1..k : i \notin S}
<1>1. 0 \in G
  OBVIOUS
<1>2. ASSUME NEW k \in 1..n, k - 1 \in G PROVE k \in G
  <2>1. k - 1 \in 0..n /\ (k - 1) + 1 = k
    OBVIOUS
  <2>2. \A i \in 1..k - 1 : i \notin S
    BY <1>2
  <2>3. k \notin S
    BY <2>1, <2>2
  <2>4. \A i \in 1..k : i \in 1..k - 1 \/ i = k
    OBVIOUS
  <2>5. QED
    BY <2>2, <2>3, <2>4
<1>3. \A k \in 0..n : k \in G
  <2> HIDE DEF G
  <2>1. QED
    BY <1>1, <1>2, CountUp
<1>4. QED
  BY <1>3

(* One with a package that does not is not read without error.             *)
LEMMA PackagesRefused ==
  ASSUME Roomy, NEW R, NEW ps \in Seq(R), PackagesEncodable(ps), NEW padding \in Seq(Byte),
         NEW j \in 1..Len(ps), Lies(ps[j]),
         Len(PackagesLaid(ps, padding)) + PackageHeaderLen <= Greatest(ListLengthLen)
  PROVE  \E i \in DOMAIN Packages(PackagesLaid(ps, padding)) :
           Packages(PackagesLaid(ps, padding))[i] = Unreadable
<1> DEFINE s == PackagesLaid(ps, padding)
           liars == {i \in 1..Len(ps) : Lies(ps[i])}
<1>1. Len(ps) \in Nat
  BY LenProperties
<1>2. PICK k \in 0..Len(ps) : /\ k + 1 \in 1..Len(ps) /\ k + 1 \in liars
                              /\ \A i \in 1..k : i \notin liars
  <2>1. j \in liars
    OBVIOUS
  <2> HIDE DEF liars
  <2>2. QED
    BY <1>1, <2>1, FirstOf
<1>3. Lies(ps[k + 1]) /\ \A i \in 1..k : ~Lies(ps[i])
  BY <1>1, <1>2
<1>4. s \in Seq(Byte)
  BY PackageBegins
<1>5. PICK from : PackagesFrom(from, s)
  BY <1>4, PackagesChained
<1> DEFINE recs == [i \in 1..k |-> PackageRecord(ps[i])]
<1>6. recs \in Seq(PackageRecords) /\ Len(recs) = k
  <2>0. \A i \in 1..k : Encodable(ps[i])
    BY <1>1 DEF PackagesEncodable
  <2>1. \A i \in 1..k : PackageRecord(ps[i]) \in PackageRecords
    BY <2>0 DEF PackageRecord, PackageRecords, Encodable
  <2>2. recs \in [1..k -> PackageRecords]
    BY <2>1
  <2>3. recs \in Seq(PackageRecords) /\ DOMAIN recs = 1..k
    BY <1>1, <2>2, SeqDef
  <2> HIDE DEF recs
  <2>4. QED
    BY <1>1, <2>3, LenProperties
<1>7. \A i \in 1..k : recs[i] = PackageRecord(ps[i])
  OBVIOUS
<1> HIDE DEF recs
<1>8. Begins(Packages(s), recs, k, from[PackageBegin(ps, k)])
  <2>1. k <= Len(recs)
    BY <1>1, <1>6
  <2>2. QED
    BY <1>3, <1>5, <1>6, <1>7, <2>1, PackagesInOrder
<1>9. from[PackageBegin(ps, k)] = Cut
  <2>1. PICK at \in 1..Len(s) + 1 : at = PackageBegin(ps, k) /\ at \in Nat /\ at > 0
    <3>1. PackageBegin(ps, k) \in 1..Len(s) + 1
      BY PackageBegins
    <3>2. Len(s) \in Nat
      BY <1>4, LenProperties
    <3>3. QED
      BY <3>1, <3>2
  <2>2. Holds(s, at, EncodePackage(ps[k + 1])) /\ Encodable(ps[k + 1])
    <3>1. k + 1 \in 1..Len(ps) + 1 /\ (k + 1) - 1 = k
      BY <1>1, <1>2
    <3>2. Holds(s, PackageBegin(ps, (k + 1) - 1), EncodePackage(WithEnd(ps)[k + 1]))
      BY <3>1, PackageBegins
    <3>3. QED
      BY <1>2, <2>1, <3>1, <3>2, WithEndIs DEF PackagesEncodable
  <2>3. ~PackageReadable(s, at)
    BY <1>3, <1>4, <2>1, <2>2, PackageRefused
  <2>4. LastPackage(s, at)
    BY <2>3 DEF LastPackage
  <2>5. QED
    BY <1>5, <2>1, <2>3, <2>4 DEF PackagesFrom
<1>10. Unreadable \in PackageRecords
  BY DEF PackageRecords
<1>11. Begins(Packages(s), recs, k, Cut)
  BY <1>8, <1>9
<1>12. k \in 0..Len(recs)
  BY <1>1, <1>6
<1>13. QED
  BY <1>6, <1>10, <1>11, <1>12, EndsUnreadable
-----------------------------------------------------------------------------
(* A PACKAGE LIST THAT IS LAID OUT                                         *)

(* These bytes are in s from position at on, as far as s goes.             *)
Matches(s, at, bytes) ==
  \A i \in 1..Len(bytes) : at + i - 1 <= Len(s) => s[at + i - 1] = bytes[i]

LEMMA HoldsMatches ==
  ASSUME NEW s, NEW at \in Nat, NEW T, NEW bytes \in Seq(T), Len(s) \in Nat
  PROVE  Holds(s, at, bytes) <=> Within(s, at, Len(bytes)) /\ Matches(s, at, bytes)
<1>1. Len(bytes) \in Nat
  BY LenProperties
<1>2. \A i \in 1..Len(bytes) : at + Len(bytes) - 1 <= Len(s) => at + i - 1 <= Len(s)
  BY <1>1
<1>3. QED
  BY <1>1, <1>2 DEF Holds, Within, Matches

(* HoldsParts, in a source that may end before.                            *)
LEMMA MatchesParts ==
  ASSUME NEW T, NEW s \in Seq(T), NEW a \in Seq(T), NEW b \in Seq(T),
         NEW at \in Nat, Matches(s, at, a \o b)
  PROVE  Matches(s, at, a) /\ Matches(s, at + Len(a), b)
<1>1. /\ Len(a) \in Nat /\ Len(b) \in Nat /\ Len(s) \in Nat /\ Len(a \o b) = Len(a) + Len(b)
      /\ \A i \in 1..Len(a) + Len(b) :
           (a \o b)[i] = IF i <= Len(a) THEN a[i] ELSE b[i - Len(a)]
  BY ConcatProperties, LenProperties
<1> DEFINE ab == a \o b
<1>2. \A i \in 1..Len(a) + Len(b) : at + i - 1 <= Len(s) => s[at + i - 1] = ab[i]
  BY <1>1 DEF Matches
<1> HIDE DEF ab
<1>3. ASSUME NEW i \in 1..Len(a), at + i - 1 <= Len(s) PROVE s[at + i - 1] = a[i]
  <2>1. i \in 1..Len(a) + Len(b) /\ i <= Len(a)
    BY <1>1
  <2>2. ab[i] = a[i]
    BY <1>1, <2>1 DEF ab
  <2>3. QED
    BY <1>2, <1>3, <2>1, <2>2
<1>4. ASSUME NEW i \in 1..Len(b), (at + Len(a)) + i - 1 <= Len(s)
      PROVE  s[(at + Len(a)) + i - 1] = b[i]
  <2> DEFINE j == Len(a) + i
  <2>1. /\ j \in 1..Len(a) + Len(b) /\ ~(j <= Len(a)) /\ j - Len(a) = i
        /\ at + j - 1 = (at + Len(a)) + i - 1
    BY <1>1
  <2>2. ab[j] = b[i]
    BY <1>1, <2>1 DEF ab
  <2> HIDE DEF j
  <2>3. QED
    BY <1>2, <1>4, <2>1, <2>2
<1>5. QED
  BY <1>3, <1>4 DEF Matches

ListData(list) == PackagesLaid(list.packages, list.padding)

ListLength(list) == Stated(list, ListHeaderLen + Len(ListData(list)))

ListEncodable(list) ==
  /\ list.guid \in Seq(Byte) /\ Len(list.guid) = GuidLen
  /\ ListData(list) \in Seq(Byte)
  /\ LengthFits(list, Len(EncodeList(list)), ListHeaderLen, ListLengthLen)

(* The fields of a package list that is laid out, one behind the other.    *)
LEMMA ListEncoded ==
  ASSUME NEW list, ListEncodable(list)
  PROVE  /\ ListLength(list) \in Nat
         /\ EncodeList(list)
              = list.guid \o Encode(ListLength(list), ListLengthLen) \o ListData(list)
         /\ EncodeList(list) \in Seq(Byte)
         /\ Len(EncodeList(list)) = ListHeaderLen + Len(ListData(list))
         /\ Fits(ListLength(list), ListLengthLen)
<1> DEFINE length == ListLength(list)
           data == ListData(list)
           guid == list.guid
<1>1. EncodeList(list) = guid \o Encode(length, ListLengthLen) \o data
  BY DEF EncodeList, ListLength, ListData, PackagesLaid, PackageBytes, WithEnd, EndPackage
<1>2. data \in Seq(Byte) /\ Len(data) \in Nat /\ guid \in Seq(Byte) /\ Len(guid) = GuidLen
  BY LenProperties DEF ListEncodable
<1>3. length \in Nat
  BY <1>2, HeaderLengths DEF ListLength, Stated, ListEncodable, LengthFits
<1> HIDE DEF length, data, guid
<1>4. PICK e \in Seq(Byte) : e = Encode(length, ListLengthLen) /\ Len(e) = ListLengthLen
  BY <1>3, HeaderLengths, EncodeTyped
<1>6. PICK f \in Seq(Byte) : f = guid \o e /\ Len(f) = GuidLen + ListLengthLen
  <2>1. \E c \in Seq(Byte) : c = guid \o e /\ Len(c) = Len(guid) + Len(e)
    BY <1>2, Joined
  <2>2. QED
    BY <1>2, <1>4, <2>1
<1>7. PICK g \in Seq(Byte) : g = f \o data /\ Len(g) = GuidLen + ListLengthLen + Len(data)
  <2>1. \E c \in Seq(Byte) : c = f \o data /\ Len(c) = Len(f) + Len(data)
    BY <1>2, Joined
  <2>2. QED
    BY <1>6, <2>1
<1>8. EncodeList(list) = g
  BY <1>1, <1>4, <1>6, <1>7
<1>9. Len(g) = ListHeaderLen + Len(data)
  BY <1>2, <1>7, HeaderLengths DEF ListHeaderLen
<1>10. Fits(length, ListLengthLen)
  <2>1. CASE Lies(list)
    BY <2>1 DEF ListEncodable, LengthFits, length, ListLength, Stated
  <2>2. CASE ~Lies(list)
    BY <2>2, <1>8, <1>9 DEF ListEncodable, LengthFits, length, data, ListLength, Stated
  <2>3. QED
    BY <2>1, <2>2
<1>11. QED
  BY <1>1, <1>3, <1>7, <1>8, <1>9, <1>10 DEF length, data, guid

(* What the header says, if it is there, whatever there is of the rest.    *)
LEMMA ListHeader ==
  ASSUME NEW list, ListEncodable(list), NEW s \in Seq(Byte), NEW at \in Nat, at > 0,
         Matches(s, at, EncodeList(list)), Within(s, at, ListHeaderLen)
  PROVE  /\ NumberAt(s, at + GuidLen, ListLengthLen) = ListLength(list)
         /\ SubSeq(s, at, at + GuidLen - 1) = list.guid
         /\ Matches(s, at + ListHeaderLen, ListData(list))
<1> DEFINE length == ListLength(list)
           data == ListData(list)
           guid == list.guid
<1>1. /\ length \in Nat /\ Fits(length, ListLengthLen)
      /\ EncodeList(list) = guid \o Encode(length, ListLengthLen) \o data
  BY ListEncoded
<1>2. data \in Seq(Byte) /\ Len(data) \in Nat /\ guid \in Seq(Byte) /\ Len(guid) = GuidLen
  BY LenProperties DEF ListEncodable
<1> HIDE DEF length, data, guid
<1>3. PICK e \in Seq(Byte) : e = Encode(length, ListLengthLen) /\ Len(e) = ListLengthLen
  BY <1>1, HeaderLengths, EncodeTyped
<1>4. PICK f \in Seq(Byte) : f = guid \o e /\ Len(f) = GuidLen + ListLengthLen
  <2>1. \E c \in Seq(Byte) : c = guid \o e /\ Len(c) = Len(guid) + Len(e)
    BY <1>2, Joined
  <2>2. QED
    BY <1>2, <1>3, <2>1
<1>5. Matches(s, at, f) /\ Matches(s, at + Len(f), data)
  <2>1. Matches(s, at, f \o data)
    BY <1>1, <1>3, <1>4
  <2>2. QED
    BY <1>2, <2>1, MatchesParts
<1>6. Len(f) = ListHeaderLen /\ Len(s) \in Nat
  BY <1>4, LenProperties DEF ListHeaderLen
<1>7. Holds(s, at, f)
  BY <1>5, <1>6, HoldsMatches
<1>8. Holds(s, at, guid) /\ Holds(s, at + Len(guid), e)
  <2>1. Holds(s, at, guid \o e)
    BY <1>4, <1>7
  <2>2. QED
    BY <1>2, <2>1, HoldsParts
<1>9. NumberAt(s, at + GuidLen, ListLengthLen) = length
  <2>1. PICK g \in Nat : g = at + GuidLen /\ g > 0
    BY HeaderLengths
  <2>2. Holds(s, g, Encode(length, ListLengthLen))
    BY <1>2, <1>3, <1>8, <2>1
  <2>3. NumberAt(s, g, ListLengthLen) = length
    BY <1>1, <2>1, <2>2, HeaderLengths, HeldNumber
  <2>4. QED
    BY <2>1, <2>3
<1>10. SubSeq(s, at, at + GuidLen - 1) = guid
  <2>1. SubSeq(s, at, at + Len(guid) - 1) = guid
    BY <1>2, <1>8, HeldPart
  <2>2. QED
    BY <1>2, <2>1
<1>11. QED
  BY <1>5, <1>6, <1>9, <1>10 DEF length, data, guid

ListRecord(list) == [ok |-> TRUE, guid |-> list.guid, data |-> ListData(list)]

(* The length its data has, as its header states it.                       *)
LEMMA ListDataLength ==
  ASSUME Roomy, NEW list, ListEncodable(list), NEW s \in Seq(Byte), NEW at \in Nat, at > 0,
         Matches(s, at, EncodeList(list)), Within(s, at, ListHeaderLen)
  PROVE  /\ ~Lies(list) => ListDataLen(s, at) = Len(ListData(list))
         /\ Lies(list) => /\ ListDataLen(s, at) \in Nat
                          /\ ListDataLen(s, at) > Greatest(ListLengthLen) - ListHeaderLen
<1> DEFINE data == ListData(list)
<1>1. data \in Seq(Byte) /\ Len(data) \in Nat
  BY LenProperties DEF ListEncodable
<1>2. NumberAt(s, at + GuidLen, ListLengthLen) = ListLength(list)
  BY ListHeader
<1>3. CASE ~Lies(list)
  <2>1. ListLength(list) = ListHeaderLen + Len(data)
    BY <1>3 DEF ListLength, Stated
  <2> HIDE DEF data
  <2>2. PICK l \in Nat, h \in Nat : l = ListLength(list) /\ h = ListHeaderLen /\ l >= h
    BY <1>1, <2>1, HeaderLengths
  <2>3. h <= ListHeaderLen
    BY <2>2
  <2>4. DataLen(l, h) = l - h
    BY <2>2, <2>3, DataLenIs
  <2>5. l - h = Len(data)
    BY <1>1, <2>1, <2>2
  <2>6. QED
    BY <1>2, <1>3, <2>2, <2>4, <2>5 DEF ListDataLen, data
<1>4. CASE Lies(list)
  <2>1. PICK l \in Nat, h \in Nat :
          l = ListLength(list) /\ h = ListHeaderLen /\ l < h
    BY <1>4, HeaderLengths DEF ListLength, Stated, ListEncodable, LengthFits
  <2>2. h <= ListHeaderLen
    BY <2>1
  <2>3. DataLen(l, h) \in Nat /\ DataLen(l, h) > Greatest(ListLengthLen) - h
    BY <2>1, <2>2, DataLenIs
  <2>4. QED
    BY <1>2, <1>4, <2>1, <2>3 DEF ListDataLen
<1>5. QED
  BY <1>3, <1>4

(* A list that states its length is read as it is.                         *)
LEMMA ListRead ==
  ASSUME Roomy, NEW list, ListEncodable(list), ~Lies(list),
         NEW s \in Seq(Byte), NEW at \in Nat, at > 0, Holds(s, at, EncodeList(list))
  PROVE  /\ ListReadable(s, at)
         /\ NextList(s, at) = at + Len(EncodeList(list))
         /\ ListAt(s, at) = ListRecord(list)
<1> DEFINE data == ListData(list)
<1>1. data \in Seq(Byte) /\ Len(data) \in Nat /\ Len(s) \in Nat
  BY LenProperties DEF ListEncodable
<1>2. /\ EncodeList(list) \in Seq(Byte)
      /\ Len(EncodeList(list)) = ListHeaderLen + Len(data)
  BY ListEncoded
<1>3. Matches(s, at, EncodeList(list)) /\ at + ListHeaderLen + Len(data) - 1 <= Len(s)
  <2>1. Within(s, at, Len(EncodeList(list))) /\ Matches(s, at, EncodeList(list))
    BY <1>1, <1>2, HoldsMatches
  <2>2. QED
    BY <1>1, <1>2, <2>1, HeaderLengths DEF Within
<1>4. Within(s, at, ListHeaderLen)
  BY <1>1, <1>3, HeaderLengths DEF Within
<1>5. ListDataLen(s, at) = Len(data)
  BY <1>3, <1>4, ListDataLength
<1>6. /\ SubSeq(s, at, at + GuidLen - 1) = list.guid
      /\ Matches(s, at + ListHeaderLen, data)
  BY <1>3, <1>4, ListHeader
<1> HIDE DEF data
<1>7. ListReadable(s, at)
  BY <1>1, <1>3, <1>4, <1>5, HeaderLengths DEF ListReadable, Within
<1>8. NextList(s, at) = at + ListHeaderLen + Len(data)
  BY <1>5 DEF NextList
<1>9. SubSeq(s, at + ListHeaderLen, NextList(s, at) - 1) = data
  <2>1. PICK g \in Nat : g = at + ListHeaderLen /\ g > 0
    BY HeaderLengths
  <2>2. Within(s, g, Len(data)) /\ Matches(s, g, data)
    BY <1>1, <1>3, <1>6, <2>1, HeaderLengths DEF Within
  <2>3. Holds(s, g, data)
    BY <1>1, <2>2, HoldsMatches
  <2>4. SubSeq(s, g, g + Len(data) - 1) = data
    BY <1>1, <2>1, <2>3, HeldPart
  <2>5. NextList(s, at) - 1 = g + Len(data) - 1
    BY <1>8, <2>1
  <2>6. QED
    BY <2>1, <2>4, <2>5
<1>10. at + ListHeaderLen + Len(data) = at + Len(EncodeList(list))
  BY <1>1, <1>2, HeaderLengths
<1>11. QED
  BY <1>6, <1>7, <1>8, <1>9, <1>10 DEF ListAt, ListRecord, data

(* One that states less than its header, or is cut off, cannot be read.    *)
LEMMA ListRefused ==
  ASSUME Roomy, NEW list, ListEncodable(list),
         NEW s \in Seq(Byte), NEW at \in Nat, at > 0, Matches(s, at, EncodeList(list)),
         Lies(list) \/ Len(s) < at + Len(EncodeList(list)) - 1,
         Len(s) + ListHeaderLen <= Greatest(ListLengthLen)
  PROVE  ~ListReadable(s, at)
<1> SUFFICES ASSUME ListReadable(s, at) PROVE FALSE
  OBVIOUS
<1>1. Within(s, at, ListHeaderLen) /\ Within(s, at + ListHeaderLen, ListDataLen(s, at))
  BY DEF ListReadable
<1>2. Len(s) \in Nat /\ Greatest(ListLengthLen) \in Nat /\ ListHeaderLen \in Nat
  BY LenProperties, GreatestTyped, HeaderLengths
<1>3. CASE Lies(list)
  <2>1. /\ ListDataLen(s, at) \in Nat
        /\ ListDataLen(s, at) > Greatest(ListLengthLen) - ListHeaderLen
    BY <1>1, <1>3, ListDataLength
  <2>2. QED
    BY <1>1, <1>2, <2>1 DEF Within
<1>4. CASE ~Lies(list)
  <2>1. ListDataLen(s, at) = Len(ListData(list))
    BY <1>1, <1>4, ListDataLength
  <2>2. Len(EncodeList(list)) = ListHeaderLen + Len(ListData(list))
    BY ListEncoded
  <2>3. Len(ListData(list)) \in Nat
    BY LenProperties DEF ListEncodable
  <2>4. QED
    BY <1>1, <1>2, <1>4, <2>1, <2>2, <2>3 DEF Within
<1>5. QED
  BY <1>3, <1>4
-----------------------------------------------------------------------------
(* A BEGINNING OF A DATABASE                                               *)

ListBytes(db) == [i \in DOMAIN db |-> EncodeList(db[i])]

ListBegin(db, i) == Len(UpTo(ListBytes(db), i)) + 1

(* What is in a file that begins like the database.                        *)
BeginningOf(b, db) ==
  /\ b \in Seq(Byte) /\ Len(b) <= Len(EncodeDb(db))
  /\ \A i \in 1..Len(b) : b[i] = EncodeDb(db)[i]

ListsEncodable(db) == \A i \in 1..Len(db) : ListEncodable(db[i])

LEMMA ListBytesIs ==
  ASSUME NEW R, NEW db \in Seq(R), ListsEncodable(db)
  PROVE  /\ ListBytes(db) \in Seq(Seq(Byte)) /\ Len(ListBytes(db)) = Len(db)
         /\ \A i \in 1..Len(db) : ListBytes(db)[i] = EncodeList(db[i])
         /\ EncodeDb(db) = FlattenSeq(ListBytes(db))
<1> DEFINE encs == ListBytes(db)
           n == Len(db)
<1>1. n \in Nat /\ DOMAIN db = 1..n
  BY LenProperties
<1>2. \A i \in 1..n : EncodeList(db[i]) \in Seq(Byte)
  BY ListEncoded DEF ListsEncodable
<1>3. encs = [i \in 1..n |-> EncodeList(db[i])]
  BY <1>1 DEF ListBytes
<1>4. encs \in [1..n -> Seq(Byte)]
  BY <1>2, <1>3
<1>5. encs \in Seq(Seq(Byte))
  BY <1>1, <1>4, SeqDef
<1>6. Len(encs) = n
  <2>1. DOMAIN encs = 1..n
    BY <1>3
  <2>2. QED
    BY <1>1, <1>5, <2>1, LenProperties
<1>7. EncodeDb(db) = FlattenSeq(encs)
  BY DEF EncodeDb, ListBytes
<1>8. QED
  BY <1>3, <1>5, <1>6, <1>7

(* Where each list begins in the bytes of the database.                    *)
LEMMA ListBegins ==
  ASSUME NEW R, NEW db \in Seq(R), ListsEncodable(db)
  PROVE  /\ EncodeDb(db) \in Seq(Byte)
         /\ ListBegin(db, 0) = 1 /\ ListBegin(db, Len(db)) = Len(EncodeDb(db)) + 1
         /\ \A i \in 0..Len(db) : ListBegin(db, i) \in Nat /\ ListBegin(db, i) > 0
         /\ \A i \in 1..Len(db) :
              /\ EncodeList(db[i]) \in Seq(Byte)
              /\ Holds(EncodeDb(db), ListBegin(db, i - 1), EncodeList(db[i]))
              /\ ListBegin(db, i) = ListBegin(db, i - 1) + Len(EncodeList(db[i]))
<1> DEFINE encs == ListBytes(db)
<1>1. /\ encs \in Seq(Seq(Byte)) /\ Len(encs) = Len(db)
      /\ \A i \in 1..Len(db) : encs[i] = EncodeList(db[i])
      /\ EncodeDb(db) = FlattenSeq(encs)
  BY ListBytesIs
<1>2. Len(db) \in Nat /\ Len(db) \in 0..Len(db)
  BY LenProperties
<1>3. \A i \in 0..Len(db) : ListBegin(db, i) = Len(UpTo(encs, i)) + 1
  BY DEF ListBegin
<1> HIDE DEF encs
<1>4. /\ UpTo(encs, 0) = <<>> /\ UpTo(encs, Len(db)) = EncodeDb(db)
      /\ \A i \in 0..Len(db) : UpTo(encs, i) \in Seq(Byte)
  BY <1>1, UpToSteps
<1>5. ListBegin(db, 0) = 1
  <2>1. Len(<<>>) = 0 /\ 0 \in 0..Len(db)
    BY <1>2, EmptySeq
  <2>2. QED
    BY <1>3, <1>4, <2>1
<1>6. \A i \in 0..Len(db) : ListBegin(db, i) \in Nat /\ ListBegin(db, i) > 0
                            /\ Len(UpTo(encs, i)) \in Nat
  <2>1. \A i \in 0..Len(db) : Len(UpTo(encs, i)) \in Nat
    BY <1>4, LenProperties
  <2>2. QED
    BY <1>3, <2>1
<1>7. ASSUME NEW i \in 1..Len(db)
      PROVE  /\ EncodeList(db[i]) \in Seq(Byte)
             /\ Holds(EncodeDb(db), ListBegin(db, i - 1), EncodeList(db[i]))
             /\ ListBegin(db, i) = ListBegin(db, i - 1) + Len(EncodeList(db[i]))
  <2>1. /\ Holds(FlattenSeq(encs), Len(UpTo(encs, i - 1)) + 1, encs[i])
        /\ Len(UpTo(encs, i)) = Len(UpTo(encs, i - 1)) + Len(encs[i])
    BY <1>1, UpToHeld
  <2>2. i \in 0..Len(db) /\ i - 1 \in 0..Len(db)
    BY <1>2
  <2>3. ListBegin(db, i) = Len(UpTo(encs, i)) + 1
        /\ ListBegin(db, i - 1) = Len(UpTo(encs, i - 1)) + 1
    BY <1>3, <2>2
  <2>4. EncodeList(db[i]) \in Seq(Byte)
    BY <1>1, ElementOfSeq
  <2>5. encs[i] = EncodeList(db[i])
    BY <1>1
  <2>6. Len(encs[i]) \in Nat
    BY <2>4, <2>5, LenProperties
  <2>7. ListBegin(db, i) = ListBegin(db, i - 1) + Len(encs[i])
    <3>1. PICK u \in Nat : u = Len(UpTo(encs, i - 1))
      BY <1>6, <2>2
    <3>2. PICK w \in Nat : w = Len(encs[i])
      BY <2>6
    <3>3. Len(UpTo(encs, i)) = u + w
      BY <2>1, <3>1, <3>2
    <3>4. ListBegin(db, i) = (u + w) + 1 /\ ListBegin(db, i - 1) = u + 1
      BY <2>3, <3>1, <3>3
    <3>5. (u + w) + 1 = (u + 1) + w
      OBVIOUS
    <3>6. QED
      BY <3>2, <3>4, <3>5
  <2>8. QED
    BY <1>1, <2>1, <2>3, <2>4, <2>5, <2>7
<1>8. QED
  BY <1>1, <1>2, <1>3, <1>4, <1>5, <1>6, <1>7

(* In a database that is cut off each list lies at its place as far as     *)
(* there is anything.                                                      *)
LEMMA BeginningMatches ==
  ASSUME NEW R, NEW db \in Seq(R), ListsEncodable(db), NEW b, BeginningOf(b, db),
         NEW i \in 1..Len(db)
  PROVE  Matches(b, ListBegin(db, i - 1), EncodeList(db[i]))
<1>1. /\ EncodeDb(db) \in Seq(Byte)
      /\ EncodeList(db[i]) \in Seq(Byte)
      /\ Holds(EncodeDb(db), ListBegin(db, i - 1), EncodeList(db[i]))
  BY ListBegins
<1>2. PICK at \in Nat : at = ListBegin(db, i - 1) /\ at > 0
  <2>1. i - 1 \in 0..Len(db)
    BY LenProperties
  <2>2. QED
    BY <2>1, ListBegins
<1>3. Len(b) \in Nat /\ Len(EncodeList(db[i])) \in Nat /\ Len(EncodeDb(db)) \in Nat
  BY <1>1, LenProperties DEF BeginningOf
<1>4. ASSUME NEW j \in 1..Len(EncodeList(db[i])), at + j - 1 <= Len(b)
      PROVE  b[at + j - 1] = EncodeList(db[i])[j]
  <2>1. at + j - 1 \in 1..Len(b)
    BY <1>2, <1>3, <1>4
  <2>2. b[at + j - 1] = EncodeDb(db)[at + j - 1]
    BY <2>1 DEF BeginningOf
  <2>3. EncodeDb(db)[at + j - 1] = EncodeList(db[i])[j]
    BY <1>1, <1>2 DEF Holds
  <2>4. QED
    BY <2>2, <2>3
<1>5. QED
  BY <1>2, <1>4 DEF Matches

LEMMA ListRecordsTyped ==
  ASSUME NEW R, NEW db \in Seq(R), ListsEncodable(db), NEW k \in 0..Len(db)
  PROVE  LET recs == [i \in 1..k |-> ListRecord(db[i])]
         IN  recs \in Seq(ListRecords) /\ Len(recs) = k
<1> DEFINE recs == [i \in 1..k |-> ListRecord(db[i])]
<1>1. Len(db) \in Nat /\ k \in Nat
  BY LenProperties
<1>2. \A i \in 1..k : ListEncodable(db[i])
  BY <1>1 DEF ListsEncodable
<1>3. \A i \in 1..k : ListRecord(db[i]) \in ListRecords
  BY <1>2 DEF ListRecord, ListRecords, ListEncodable
<1>4. recs \in [1..k -> ListRecords]
  BY <1>3
<1>5. recs \in Seq(ListRecords) /\ DOMAIN recs = 1..k
  BY <1>1, <1>4, SeqDef
<1> HIDE DEF recs
<1>6. recs \in Seq(ListRecords) /\ Len(recs) = k
  BY <1>1, <1>5, LenProperties
<1>7. QED
  BY <1>6 DEF recs

(* The lists that are there and state their lengths are read in order.     *)
LEMMA ListsInOrder ==
  ASSUME Roomy, NEW R, NEW db \in Seq(R), ListsEncodable(db), NEW b, BeginningOf(b, db),
         NEW from, ListsFrom(from, b),
         NEW k \in 0..Len(db), \A i \in 1..k : ~Lies(db[i]), ListBegin(db, k) <= Len(b) + 1
  PROVE  /\ ListBegin(db, k) \in 1..Len(b) + 1
         /\ Begins(PackageLists(b), [i \in 1..k |-> ListRecord(db[i])], k, from[ListBegin(db, k)])
<1> DEFINE pos == [i \in 0..k |-> ListBegin(db, i)]
           recs == [i \in 1..k |-> ListRecord(db[i])]
           n == Len(b) + 1
<1>1. Len(db) \in Nat /\ k \in Nat /\ b \in Seq(Byte) /\ n \in Nat /\ Len(b) \in Nat
  BY LenProperties DEF BeginningOf
<1>2. recs \in Seq(ListRecords) /\ Len(recs) = k
  BY ListRecordsTyped
<1>3. \A i \in 1..k : recs[i] = ListRecord(db[i])
  OBVIOUS
<1>4. /\ from \in [1..n -> Seq(ListRecords)]
      /\ PackageLists(b) = from[1]
      /\ \A at \in 1..Len(b) :
           ListReadable(b, at) => Precedes(ListAt(b, at), from[NextList(b, at)], from[at])
  BY DEF ListsFrom
<1>5. /\ ListBegin(db, 0) = 1
      /\ \A i \in 0..Len(db) : ListBegin(db, i) \in Nat /\ ListBegin(db, i) > 0
      /\ \A i \in 1..Len(db) :
           /\ EncodeList(db[i]) \in Seq(Byte)
           /\ ListBegin(db, i) = ListBegin(db, i - 1) + Len(EncodeList(db[i]))
  BY ListBegins
<1> HIDE DEF recs, n
<1>6. \A i \in 1..k : /\ ListBegin(db, i) \in Nat /\ ListBegin(db, i - 1) \in Nat
                      /\ ListBegin(db, i - 1) > 0
                      /\ ListBegin(db, i - 1) < ListBegin(db, i)
                      /\ ListBegin(db, i) = ListBegin(db, i - 1) + Len(EncodeList(db[i]))
  <2>1. ASSUME NEW i \in 1..k
        PROVE  /\ ListBegin(db, i) \in Nat /\ ListBegin(db, i - 1) \in Nat
               /\ ListBegin(db, i - 1) > 0
               /\ ListBegin(db, i - 1) < ListBegin(db, i)
               /\ ListBegin(db, i) = ListBegin(db, i - 1) + Len(EncodeList(db[i]))
    <3>1. i \in 1..Len(db) /\ i \in 0..Len(db) /\ i - 1 \in 0..Len(db)
      BY <1>1
    <3>2. Len(EncodeList(db[i])) \in Nat /\ Len(EncodeList(db[i])) > 0
      <4>1. ListEncodable(db[i])
        BY <3>1 DEF ListsEncodable
      <4>2. Len(EncodeList(db[i])) = ListHeaderLen + Len(ListData(db[i]))
        BY <4>1, ListEncoded
      <4>3. Len(ListData(db[i])) \in Nat
        BY <4>1, LenProperties DEF ListEncodable
      <4>4. QED
        BY <4>2, <4>3, HeaderLengths
    <3>3. ListBegin(db, i) \in Nat /\ ListBegin(db, i - 1) \in Nat /\ ListBegin(db, i - 1) > 0
      BY <1>5, <3>1
    <3>4. ListBegin(db, i) = ListBegin(db, i - 1) + Len(EncodeList(db[i]))
      BY <1>5, <3>1
    <3>5. QED
      BY <3>2, <3>3, <3>4
  <2>2. QED
    BY <2>1
<1>7. \A i \in 0..k : ListBegin(db, i) \in 1..n
  <2> DEFINE S == {j \in 0..k : ListBegin(db, k - j) <= n}
  <2>1. 0 \in S
    <3>1. k - 0 = k
      BY <1>1
    <3>2. QED
      BY <1>1, <3>1 DEF n
  <2>2. ASSUME NEW j \in 1..k, j - 1 \in S PROVE j \in S
    <3>1. PICK i \in 1..k : i = k - (j - 1) /\ i - 1 = k - j
      BY <1>1
    <3>2. ListBegin(db, i) <= n
      BY <2>2, <3>1
    <3>3. ListBegin(db, i - 1) <= n
      <4>1. n \in Nat
        BY <1>1 DEF n
      <4>2. QED
        BY <1>6, <3>2, <4>1
    <3>4. j \in 0..k
      BY <1>1
    <3>5. QED
      BY <3>1, <3>3, <3>4
  <2>3. \A j \in 0..k : j \in S
    <3> HIDE DEF S
    <3>1. QED
      BY <1>1, <2>1, <2>2, CountUp
  <2>4. ASSUME NEW i \in 0..k PROVE ListBegin(db, i) \in 1..n
    <3>1. PICK j \in 0..k : j = k - i /\ k - j = i
      BY <1>1
    <3>2. ListBegin(db, i) <= n
      BY <2>3, <3>1
    <3>3. i \in 0..Len(db)
      BY <1>1
    <3>4. ListBegin(db, i) \in Nat /\ ListBegin(db, i) > 0
      BY <1>5, <3>3
    <3>5. QED
      BY <1>1, <3>2, <3>4 DEF n
  <2>5. QED
    BY <2>4
<1>8. pos \in [0..k -> 1..n]
  BY <1>7
<1>9. ASSUME NEW i \in 1..k
      PROVE  Precedes(recs[i], from[pos[i]], from[pos[i - 1]])
  <2>1. i \in 0..k /\ i - 1 \in 0..k /\ i \in 1..Len(db)
    BY <1>1
  <2>2. PICK at \in Nat : at = ListBegin(db, i - 1) /\ at > 0
    BY <1>6
  <2>3. ListBegin(db, i) = at + Len(EncodeList(db[i])) /\ at < ListBegin(db, i)
    BY <1>6, <2>2
  <2>4. ListBegin(db, i) \in 1..n
    BY <1>7, <2>1
  <2>5. Len(EncodeList(db[i])) \in Nat /\ EncodeList(db[i]) \in Seq(Byte)
    BY <1>5, <2>1, LenProperties
  <2>6. Within(b, at, Len(EncodeList(db[i]))) /\ at \in 1..Len(b)
    BY <1>1, <2>2, <2>3, <2>4, <2>5 DEF Within, n
  <2>7. Holds(b, at, EncodeList(db[i]))
    <3>1. Matches(b, at, EncodeList(db[i]))
      BY <2>1, <2>2, BeginningMatches
    <3>2. QED
      BY <1>1, <2>5, <2>6, <3>1, HoldsMatches
  <2>8. ListEncodable(db[i]) /\ ~Lies(db[i])
    BY <2>1 DEF ListsEncodable
  <2>9. /\ ListReadable(b, at)
        /\ NextList(b, at) = at + Len(EncodeList(db[i]))
        /\ ListAt(b, at) = ListRecord(db[i])
    BY <1>1, <2>2, <2>7, <2>8, ListRead
  <2>10. pos[i] = NextList(b, at) /\ pos[i - 1] = at /\ recs[i] = ListAt(b, at)
    BY <1>3, <2>1, <2>2, <2>3, <2>9
  <2>11. QED
    BY <1>4, <2>6, <2>9, <2>10
<1>10. pos[0] = 1 /\ pos[k] = ListBegin(db, k)
  BY <1>1, <1>5
<1> HIDE DEF pos
<1>11. 1..n = 1..Len(b) + 1 /\ n \in Nat
  BY <1>1 DEF n
<1>12. Begins(from[pos[0]], recs, k, from[pos[k]])
  <2>1. k <= Len(recs) /\ k \in Nat /\ n \in Nat
    BY <1>1, <1>2, <1>11
  <2>2. from \in [1..n -> Seq(ListRecords)] /\ recs \in Seq(ListRecords)
    BY <1>2, <1>4
  <2>3. QED
    BY <1>8, <1>9, <2>1, <2>2, ChainUnrolled
<1>13. ListBegin(db, k) \in 1..n
  BY <1>1, <1>7
<1>14. QED
  BY <1>4, <1>10, <1>11, <1>12, <1>13 DEF recs

LEMMA WholeIsBeginning ==
  ASSUME NEW R, NEW db \in Seq(R), ListsEncodable(db)
  PROVE  BeginningOf(EncodeDb(db), db)
<1>1. EncodeDb(db) \in Seq(Byte)
  BY ListBegins
<1>2. Len(EncodeDb(db)) \in Nat
  BY <1>1, LenProperties
<1>3. QED
  BY <1>1, <1>2 DEF BeginningOf

(* A database whose lists all state their lengths is read as it is.        *)
LEMMA ListsParsed ==
  ASSUME Roomy, NEW R, NEW db \in Seq(R), ListsEncodable(db),
         \A i \in 1..Len(db) : ~Lies(db[i])
  PROVE  PackageLists(EncodeDb(db)) = [i \in 1..Len(db) |-> ListRecord(db[i])]
<1> DEFINE b == EncodeDb(db)
           k == Len(db)
           recs == [i \in 1..k |-> ListRecord(db[i])]
<1>1. k \in Nat /\ k \in 0..k
  BY LenProperties
<1>2. /\ b \in Seq(Byte) /\ BeginningOf(b, db) /\ ListBegin(db, k) = Len(b) + 1
      /\ Len(b) \in Nat
  BY ListBegins, WholeIsBeginning, LenProperties
<1> HIDE DEF b
<1>3. PICK from : ListsFrom(from, b)
  BY <1>2, ListsChained
<1>4. recs \in Seq(ListRecords) /\ Len(recs) = k
  BY <1>1, ListRecordsTyped
<1>5. ListBegin(db, k) <= Len(b) + 1
  BY <1>2
<1>6. Begins(PackageLists(b), recs, k, from[ListBegin(db, k)])
  BY <1>1, <1>2, <1>3, <1>5, ListsInOrder
<1> HIDE DEF recs
<1>7. from[ListBegin(db, k)] = <<>>
  BY <1>2, <1>3 DEF ListsFrom
<1>8. SubSeq(recs, 1, k) = recs
  BY <1>4, SubSeqFull
<1>9. PackageLists(b) = recs
  BY <1>4, <1>6, <1>7, <1>8, ConcatEmptySeq DEF Begins
<1>10. QED
  BY <1>9 DEF recs, b

(* One with a list that does not, or that is cut off inside a list, is not *)
(* read without error.                                                     *)
LEMMA ListsRefused ==
  ASSUME Roomy, NEW R, NEW db \in Seq(R), ListsEncodable(db), NEW b, BeginningOf(b, db),
         Len(b) + ListHeaderLen <= Greatest(ListLengthLen),
         \A i \in 1..Len(db) : ListBegin(db, i - 1) # Len(b) + 1,
         NEW j \in 1..Len(db), Lies(db[j]) \/ ListBegin(db, j) > Len(b) + 1
  PROVE  \E i \in DOMAIN PackageLists(b) : PackageLists(b)[i] = Unreadable
<1> DEFINE Stop(i) == Lies(db[i]) \/ ListBegin(db, i) > Len(b) + 1
           stops == {i \in 1..Len(db) : Stop(i)}
<1>1. Len(db) \in Nat /\ b \in Seq(Byte) /\ Len(b) \in Nat
  BY LenProperties DEF BeginningOf
<1>2. PICK k \in 0..Len(db) : /\ k + 1 \in 1..Len(db) /\ k + 1 \in stops
                              /\ \A i \in 1..k : i \notin stops
  <2>1. j \in stops
    OBVIOUS
  <2> HIDE DEF stops
  <2>2. QED
    BY <1>1, <2>1, FirstOf
<1>3. Stop(k + 1) /\ k \in Nat /\ (k + 1) - 1 = k /\ \A i \in 1..k : ~Stop(i)
  BY <1>1, <1>2
<1>4. /\ ListBegin(db, 0) = 1
      /\ \A i \in 0..Len(db) : ListBegin(db, i) \in Nat /\ ListBegin(db, i) > 0
      /\ ListBegin(db, k + 1) = ListBegin(db, k) + Len(EncodeList(db[k + 1]))
      /\ EncodeList(db[k + 1]) \in Seq(Byte)
  <2>1. ListBegin(db, k + 1) = ListBegin(db, (k + 1) - 1) + Len(EncodeList(db[k + 1]))
    BY <1>2, ListBegins
  <2>2. EncodeList(db[k + 1]) \in Seq(Byte)
    BY <1>2, ListBegins
  <2>3. ListBegin(db, 0) = 1 /\ \A i \in 0..Len(db) : ListBegin(db, i) \in Nat /\ ListBegin(db, i) > 0
    BY ListBegins
  <2>4. QED
    BY <1>3, <2>1, <2>2, <2>3
<1>5. ListBegin(db, k) <= Len(b) + 1 /\ ListBegin(db, k) # Len(b) + 1
  <2>1. ListBegin(db, (k + 1) - 1) # Len(b) + 1
    BY <1>2
  <2>2. CASE k = 0
    BY <1>1, <1>3, <1>4, <2>1, <2>2
  <2>3. CASE k # 0
    <3>1. k \in 1..k /\ k \in 0..Len(db)
      BY <1>2, <1>3, <2>3
    <3>2. ~(ListBegin(db, k) > Len(b) + 1)
      BY <1>3, <3>1
    <3>3. ListBegin(db, k) \in Nat
      BY <1>4, <3>1
    <3>4. QED
      BY <1>1, <1>3, <2>1, <3>2, <3>3
  <2>4. QED
    BY <2>2, <2>3
<1>6. PICK from : ListsFrom(from, b)
  BY <1>1, ListsChained
<1> DEFINE recs == [i \in 1..k |-> ListRecord(db[i])]
<1>7. recs \in Seq(ListRecords) /\ Len(recs) = k
  BY ListRecordsTyped
<1>8. \A i \in 1..k : ~Lies(db[i])
  BY <1>3
<1> HIDE DEF stops, Stop
<1>9. /\ ListBegin(db, k) \in 1..Len(b) + 1
      /\ Begins(PackageLists(b), recs, k, from[ListBegin(db, k)])
  BY <1>5, <1>6, <1>8, ListsInOrder
<1> HIDE DEF recs
<1>10. PICK at \in Nat : at = ListBegin(db, k) /\ at > 0 /\ at \in 1..Len(b)
  BY <1>1, <1>5, <1>9
<1>11. ~ListReadable(b, at)
  <2>1. ListEncodable(db[k + 1])
    BY <1>2 DEF ListsEncodable
  <2>2. Matches(b, at, EncodeList(db[k + 1]))
    <3>1. Matches(b, ListBegin(db, (k + 1) - 1), EncodeList(db[k + 1]))
      BY <1>2, BeginningMatches
    <3>2. QED
      BY <1>3, <1>10, <3>1
  <2>3. Lies(db[k + 1]) \/ Len(b) < at + Len(EncodeList(db[k + 1])) - 1
    <3>1. Len(EncodeList(db[k + 1])) \in Nat
      BY <1>4, LenProperties
    <3>2. ListBegin(db, k + 1) = at + Len(EncodeList(db[k + 1]))
      BY <1>4, <1>10
    <3>3. Lies(db[k + 1]) \/ ListBegin(db, k + 1) > Len(b) + 1
      BY <1>3 DEF Stop
    <3>4. QED
      BY <1>1, <1>10, <3>1, <3>2, <3>3
  <2>4. QED
    BY <1>1, <1>10, <2>1, <2>2, <2>3, ListRefused
<1>12. from[at] = Cut
  BY <1>6, <1>10, <1>11 DEF ListsFrom
<1>13. Unreadable \in ListRecords /\ k \in 0..Len(recs) /\ Begins(PackageLists(b), recs, k, Cut)
  BY <1>3, <1>7, <1>9, <1>10, <1>12 DEF ListRecords
<1>14. QED
  BY <1>7, <1>13, EndsUnreadable

(* Where a list begins, the bytes before it are those of a database.       *)
LEMMA BeginningOfLists ==
  ASSUME NEW R, NEW db \in Seq(R), ListsEncodable(db), NEW b, BeginningOf(b, db),
         NEW k \in 0..Len(db), ListBegin(db, k) = Len(b) + 1
  PROVE  b = EncodeDb(SubSeq(db, 1, k))
<1> DEFINE encs == ListBytes(db)
           some == SubSeq(db, 1, k)
           whole == EncodeDb(db)
<1>1. Len(db) \in Nat /\ k \in Nat /\ b \in Seq(Byte) /\ Len(b) \in Nat
  BY LenProperties DEF BeginningOf
<1>2. /\ encs \in Seq(Seq(Byte)) /\ Len(encs) = Len(db)
      /\ \A i \in 1..Len(db) : encs[i] = EncodeList(db[i])
      /\ whole = FlattenSeq(encs)
  BY ListBytesIs
<1> HIDE DEF whole
<1>3. /\ \A i \in 1..Len(db) : db[i] \in R
      /\ \A i \in 1..Len(encs) : encs[i] \in Seq(Byte)
  <2> HIDE DEF encs
  <2>1. QED
    BY <1>2, ElementOfSeq
<1>4. /\ some \in Seq(R) /\ Len(some) = k /\ \A i \in 1..k : some[i] = db[i]
  <2>1. \A i \in 1..k : i \in 1..Len(db)
    BY <1>1
  <2>2. /\ some \in Seq(R) /\ Len(some) = IF 1 <= k THEN k - 1 + 1 ELSE 0
        /\ \A i \in 1..k - 1 + 1 : some[i] = db[1 + i - 1]
    BY <1>1, <1>3, <2>1, SubSeqProperties
  <2>3. k - 1 + 1 = k /\ \A i \in 1..k : 1 + i - 1 = i
    BY <1>1
  <2>4. QED
    BY <1>1, <2>2, <2>3
<1> HIDE DEF some
<1>5. SubSeq(encs, 1, k) = ListBytes(some)
  <2> HIDE DEF encs
  <2> DEFINE part == SubSeq(encs, 1, k)
  <2>1. \A i \in 1..k : i \in 1..Len(db)
    BY <1>1
  <2>2. /\ part \in Seq(Seq(Byte)) /\ Len(part) = IF 1 <= k THEN k - 1 + 1 ELSE 0
        /\ \A i \in 1..k - 1 + 1 : part[i] = encs[1 + i - 1]
    BY <1>1, <1>2, <1>3, <2>1, SubSeqProperties
  <2>3. k - 1 + 1 = k /\ \A i \in 1..k : 1 + i - 1 = i
    BY <1>1
  <2>4. part \in Seq(Seq(Byte)) /\ Len(part) = k /\ \A i \in 1..k : part[i] = encs[i]
    BY <1>1, <2>2, <2>3
  <2>5. ListsEncodable(some)
    BY <1>4, <2>1 DEF ListsEncodable
  <2>6. /\ ListBytes(some) \in Seq(Seq(Byte)) /\ Len(ListBytes(some)) = k
        /\ \A i \in 1..k : ListBytes(some)[i] = EncodeList(some[i])
    BY <1>4, <2>5, ListBytesIs
  <2>7. \A i \in 1..k : part[i] = ListBytes(some)[i]
    BY <1>2, <1>4, <2>1, <2>4, <2>6
  <2> HIDE DEF part
  <2>8. part = ListBytes(some)
    BY <2>4, <2>6, <2>7, SeqEqual
  <2>9. QED
    BY <2>8 DEF part
<1>6. PICK u \in Seq(Byte) : u = UpTo(encs, k) /\ Holds(whole, 1, u) /\ Len(u) = Len(b)
  <2> HIDE DEF encs
  <2>1. UpTo(encs, k) \in Seq(Byte)
    BY <1>2, UpToSteps
  <2>2. Holds(whole, 1, UpTo(encs, k))
    BY <1>2, UpToHeld
  <2>3. ListBegin(db, k) = Len(UpTo(encs, k)) + 1
    BY DEF ListBegin, encs
  <2>4. Len(UpTo(encs, k)) \in Nat
    BY <2>1, LenProperties
  <2>5. Len(UpTo(encs, k)) = Len(b)
    BY <1>1, <2>3, <2>4
  <2>6. QED
    BY <2>1, <2>2, <2>5
<1>7. u = EncodeDb(some)
  <2>1. UpTo(encs, k) = FlattenSeq(ListBytes(some))
    BY <1>5 DEF UpTo
  <2>2. QED
    BY <1>6, <2>1 DEF EncodeDb, ListBytes
<1>8. \A i \in 1..Len(b) : b[i] = u[i]
  <2>1. ASSUME NEW i \in 1..Len(b) PROVE b[i] = u[i]
    <3>1. 1 + i - 1 = i /\ i \in 1..Len(u)
      BY <1>6
    <3>2. whole[1 + i - 1] = u[i]
      BY <1>6, <3>1 DEF Holds
    <3>3. b[i] = whole[i]
      BY DEF BeginningOf, whole
    <3>4. QED
      BY <3>1, <3>2, <3>3
  <2>2. QED
    BY <2>1
<1>9. b = u
  BY <1>1, <1>6, <1>8, SeqEqual
<1>10. QED
  BY <1>7, <1>9 DEF some
-----------------------------------------------------------------------------
(* TEXTS                                                                   *)

(* Characters are of one byte or of two.                                   *)
CharWidths == {1, 2}

(* A text whose characters are not zero and fit.                           *)
Text(text, width) ==
  /\ text \in Seq(Nat)
  /\ \A i \in 1..Len(text) : text[i] > 0 /\ Fits(text[i], width)

CharAt(text, i) == IF i > Len(text) THEN 0 ELSE text[i]

CharBytes(text, width) == [i \in 1..(Len(text) + 1) |-> Encode(CharAt(text, i), width)]

(* The bytes of a text, character by character, and a zero.                *)
LEMMA CharBytesIs ==
  ASSUME NEW width \in CharWidths, NEW text, Text(text, width)
  PROVE  /\ Len(text) \in Nat
         /\ \A i \in 1..Len(text) + 1 : CharAt(text, i) \in Nat /\ Fits(CharAt(text, i), width)
         /\ CharBytes(text, width) \in Seq(Seq(Byte))
         /\ Len(CharBytes(text, width)) = Len(text) + 1
         /\ \A i \in 1..Len(text) + 1 :
              /\ CharBytes(text, width)[i] = Encode(CharAt(text, i), width)
              /\ CharBytes(text, width)[i] \in Seq(Byte)
              /\ Len(CharBytes(text, width)[i]) = width
         /\ EncodeText(text, width) = FlattenSeq(CharBytes(text, width))
<1> DEFINE n == Len(text) + 1
           bytes == CharBytes(text, width)
<1>1. text \in Seq(Nat) /\ Len(text) \in Nat /\ n \in Nat
  BY LenProperties DEF Text
<1>2. width \in FieldWidths
  BY DEF CharWidths, FieldWidths
<1>3. \A i \in 1..n : CharAt(text, i) \in Nat /\ Fits(CharAt(text, i), width)
  <2>1. Fits(0, width)
    BY <1>2, SmallFits
  <2>2. ASSUME NEW i \in 1..n PROVE CharAt(text, i) \in Nat /\ Fits(CharAt(text, i), width)
    <3>1. CASE i > Len(text)
      BY <2>1, <3>1 DEF CharAt
    <3>2. CASE ~(i > Len(text))
      <4>1. i \in 1..Len(text) /\ CharAt(text, i) = text[i]
        BY <1>1, <3>2 DEF CharAt
      <4>2. QED
        BY <1>1, <4>1, ElementOfSeq DEF Text
    <3>3. QED
      BY <3>1, <3>2
  <2>3. QED
    BY <2>2
<1>4. \A i \in 1..n : /\ Encode(CharAt(text, i), width) \in Seq(Byte)
                      /\ Len(Encode(CharAt(text, i), width)) = width
  BY <1>2, <1>3, EncodeTyped
<1>5. bytes \in [1..n -> Seq(Byte)] /\ \A i \in 1..n : bytes[i] = Encode(CharAt(text, i), width)
  BY <1>4 DEF CharBytes
<1>6. bytes \in Seq(Seq(Byte)) /\ DOMAIN bytes = 1..n
  BY <1>1, <1>5, SeqDef
<1> HIDE DEF bytes
<1>7. Len(bytes) = n
  BY <1>1, <1>6, LenProperties
<1>8. EncodeText(text, width) = FlattenSeq(bytes)
  BY DEF EncodeText, CharBytes, CharAt, bytes
<1>9. QED
  BY <1>1, <1>3, <1>4, <1>5, <1>6, <1>7, <1>8 DEF bytes

(* The characters are where they belong.                                   *)
LEMMA TextEncoded ==
  ASSUME NEW width \in CharWidths, NEW text, Text(text, width)
  PROVE  /\ EncodeText(text, width) \in Seq(Byte)
         /\ Len(EncodeText(text, width)) = (Len(text) + 1) * width
         /\ \A i \in 1..Len(text) + 1 :
              Holds(EncodeText(text, width), (i - 1) * width + 1, Encode(CharAt(text, i), width))
<1> DEFINE n == Len(text) + 1
           bytes == CharBytes(text, width)
<1>1. /\ Len(text) \in Nat /\ n \in Nat
      /\ bytes \in Seq(Seq(Byte)) /\ Len(bytes) = n
      /\ \A i \in 1..n : /\ bytes[i] = Encode(CharAt(text, i), width)
                         /\ Len(bytes[i]) = width
      /\ EncodeText(text, width) = FlattenSeq(bytes)
  BY CharBytesIs
<1> HIDE DEF bytes, n
<1>2. /\ UpTo(bytes, 0) = <<>> /\ UpTo(bytes, n) = EncodeText(text, width)
      /\ \A i \in 0..n : UpTo(bytes, i) \in Seq(Byte)
  BY <1>1, UpToSteps
<1>3. \A i \in 1..n : /\ Holds(EncodeText(text, width), Len(UpTo(bytes, i - 1)) + 1, bytes[i])
                      /\ Len(UpTo(bytes, i)) = Len(UpTo(bytes, i - 1)) + Len(bytes[i])
  BY <1>1, UpToHeld
<1> DEFINE S == {i \in 0..n : Len(UpTo(bytes, i)) = i * width}
<1>4. 0 \in S
  <2>1. Len(<<>>) = 0 /\ 0 * width = 0 /\ 0 \in 0..n
    BY <1>1, EmptySeq DEF CharWidths
  <2>2. QED
    BY <1>2, <2>1
<1>5. ASSUME NEW i \in 1..n, i - 1 \in S PROVE i \in S
  <2>1. Len(UpTo(bytes, i)) = (i - 1) * width + width
    BY <1>1, <1>3, <1>5
  <2>2. CASE width = 1
    BY <1>1, <2>1, <2>2
  <2>3. CASE width = 2
    BY <1>1, <2>1, <2>3
  <2>4. QED
    BY <2>2, <2>3 DEF CharWidths
<1>6. \A i \in 0..n : Len(UpTo(bytes, i)) = i * width
  <2>1. \A i \in 0..n : i \in S
    <3> HIDE DEF S
    <3>1. QED
      BY <1>1, <1>4, <1>5, CountUp
  <2>2. QED
    BY <2>1
<1>7. EncodeText(text, width) \in Seq(Byte) /\ Len(EncodeText(text, width)) = n * width
  <2>1. n \in 0..n
    BY <1>1
  <2>2. QED
    BY <1>2, <1>6, <2>1
<1>8. ASSUME NEW i \in 1..n
      PROVE  Holds(EncodeText(text, width), (i - 1) * width + 1, Encode(CharAt(text, i), width))
  <2>1. i - 1 \in 0..n
    BY <1>1
  <2>2. Len(UpTo(bytes, i - 1)) = (i - 1) * width
    BY <1>6, <2>1
  <2>3. QED
    BY <1>1, <1>3, <2>2
<1>9. QED
  BY <1>7, <1>8 DEF n

(* A text is read as it is, and one of two-byte characters is read to its  *)
(* terminator, however many bytes are zero.                                *)
LEMMA TextRead ==
  ASSUME NEW width \in CharWidths, NEW text, Text(text, width),
         NEW s \in Seq(Byte), NEW at \in Nat, at > 0, Holds(s, at, EncodeText(text, width))
  PROVE  /\ HasText(s, at, width) /\ TextLen(s, at, width) = Len(text)
         /\ TextAt(s, at, width) = text
<1> DEFINE n == Len(text)
           t == EncodeText(text, width)
           ends == Terminators(s, at, width)
<1>1. /\ n \in Nat /\ text \in Seq(Nat) /\ Len(s) \in Nat
      /\ t \in Seq(Byte) /\ Len(t) = (n + 1) * width
      /\ \A i \in 1..n + 1 :
           /\ Holds(t, (i - 1) * width + 1, Encode(CharAt(text, i), width))
           /\ CharAt(text, i) \in Nat /\ Fits(CharAt(text, i), width)
  BY LenProperties, CharBytesIs, TextEncoded DEF Text
<1>2. width \in FieldWidths
  BY DEF CharWidths, FieldWidths
<1> HIDE DEF t
<1>3. ASSUME NEW k \in 0..n
      PROVE  /\ Within(s, at + k * width, width)
             /\ NumberAt(s, at + k * width, width) = CharAt(text, k + 1)
  <2>1. PICK i \in 1..n + 1 : i = k + 1 /\ i - 1 = k
    BY <1>1
  <2>2. PICK e \in Seq(Byte), c \in Nat :
          /\ c = CharAt(text, i) /\ e = Encode(c, width) /\ Fits(c, width)
          /\ Holds(t, (i - 1) * width + 1, e)
    <3>1. CharAt(text, i) \in Nat /\ Fits(CharAt(text, i), width)
          /\ Holds(t, (i - 1) * width + 1, Encode(CharAt(text, i), width))
      BY <1>1
    <3>2. Encode(CharAt(text, i), width) \in Seq(Byte)
      BY <1>2, <3>1, EncodeTyped
    <3>3. QED
      BY <3>1, <3>2
  <2>3. PICK j \in Nat : j = k * width
    BY DEF CharWidths
  <2>4. PICK p \in Nat : p = j + 1 /\ p > 0
    BY <2>3
  <2>5. Holds(t, p, e)
    BY <2>1, <2>2, <2>3, <2>4
  <2>6. Holds(s, at, t)
    BY DEF t
  <2>7. Holds(s, at + p - 1, e)
    BY <1>1, <2>4, <2>5, <2>6, HoldsWithin
  <2>8. PICK q \in Nat : q = at + k * width /\ q > 0 /\ q = at + p - 1
    <3>1. PICK q \in Nat : q = at + j
      OBVIOUS
    <3>2. q > 0 /\ q = at + p - 1
      BY <2>4, <3>1
    <3>3. q = at + k * width
      BY <2>3, <3>1
    <3>4. QED
      BY <3>2, <3>3
  <2>9. Within(s, q, width) /\ NumberAt(s, q, width) = c
    BY <1>2, <2>2, <2>7, <2>8, HeldNumber
  <2>10. QED
    BY <2>1, <2>2, <2>8, <2>9
<1>4. n \in ends
  <2>1. CharAt(text, n + 1) = 0 /\ n \in 0..n
    BY <1>1 DEF CharAt
  <2>2. n <= Len(s)
    <3>1. at + Len(t) - 1 <= Len(s)
      BY DEF Holds, t
    <3>2. (n + 1) * width >= n
      <4>1. CASE width = 1
        BY <1>1, <4>1
      <4>2. CASE width = 2
        BY <1>1, <4>2
      <4>3. QED
        BY <4>1, <4>2 DEF CharWidths
    <3>3. PICK l \in Nat : l = (n + 1) * width
      BY <1>1 DEF CharWidths
    <3>4. QED
      BY <1>1, <3>1, <3>2, <3>3
  <2>3. n \in 0..Len(s)
    BY <1>1, <2>2
  <2>4. Within(s, at + n * width, width) /\ NumberAt(s, at + n * width, width) = 0
    BY <1>3, <2>1
  <2>5. QED
    BY <2>3, <2>4 DEF Terminators
<1>5. \A k \in ends : n <= k
  <2>1. ASSUME NEW k \in ends, k < n PROVE FALSE
    <3>1. k \in Nat /\ NumberAt(s, at + k * width, width) = 0
      BY DEF Terminators
    <3>2. k \in 0..n /\ k + 1 \in 1..n
      BY <1>1, <2>1, <3>1
    <3>3. CharAt(text, k + 1) = text[k + 1] /\ text[k + 1] > 0
      BY <1>1, <3>2 DEF CharAt, Text
    <3>4. NumberAt(s, at + k * width, width) = text[k + 1]
      BY <1>3, <3>2, <3>3
    <3>5. QED
      BY <3>1, <3>3, <3>4
  <2>2. ends \subseteq Nat
    BY DEF Terminators
  <2>3. QED
    BY <1>1, <2>1, <2>2
<1>6. TextLen(s, at, width) = n
  <2> DEFINE min == Min(ends)
  <2> HIDE DEF ends
  <2>1. min \in ends /\ \A k \in ends : min <= k
    <3>1. \E m \in ends : \A k \in ends : m <= k
      BY <1>4, <1>5
    <3>2. QED
      BY <3>1 DEF Min
  <2>2. min <= n /\ n <= min
    BY <1>4, <1>5, <2>1
  <2>3. min \in Nat
    BY <2>1 DEF ends, Terminators
  <2> HIDE DEF min
  <2>4. min = n
    BY <1>1, <2>2, <2>3
  <2>5. QED
    BY <2>4 DEF TextLen, ends, min
<1>7. TextAt(s, at, width) = text
  <2> DEFINE read == [k \in 1..n |-> NumberAt(s, at + (k - 1) * width, width)]
  <2>1. TextAt(s, at, width) = read
    BY <1>6 DEF TextAt
  <2>2. \A k \in 1..n : NumberAt(s, at + (k - 1) * width, width) = text[k]
    <3>1. ASSUME NEW k \in 1..n PROVE NumberAt(s, at + (k - 1) * width, width) = text[k]
      <4>1. k - 1 \in 0..n /\ (k - 1) + 1 = k
        BY <1>1
      <4>2. NumberAt(s, at + (k - 1) * width, width) = CharAt(text, (k - 1) + 1)
        BY <1>3, <4>1
      <4>3. CharAt(text, k) = text[k]
        BY <1>1 DEF CharAt
      <4>4. QED
        BY <4>1, <4>2, <4>3
    <3>2. QED
      BY <3>1
  <2>3. read = [k \in 1..n |-> text[k]]
    BY <2>2
  <2>4. text = [k \in 1..n |-> text[k]]
    BY <1>1, LenProperties
  <2>5. QED
    BY <2>1, <2>3, <2>4
<1>8. QED
  BY <1>4, <1>6, <1>7 DEF HasText
-----------------------------------------------------------------------------
(* STRING BLOCKS                                                           *)

(* A table of sets that depends on a position and on a number: each entry  *)
(* adds something to one further on.                                       *)
Tabled(f, n, stop, end, add, next, number) ==
  \A at \in 1..n :
    f[at] = [id \in Nat |->
               IF stop[at] THEN end[at]
               ELSE add[<<at, id>>] \cup f[next[at]][number[<<at, id>>]]]

(* There is such a table: what BlocksFrom is defined by is a function.     *)
LEMMA TableExists ==
  ASSUME NEW n \in Nat, NEW W,
         NEW stop \in [1..n -> BOOLEAN], NEW end \in [1..n -> SUBSET W],
         NEW add \in [(1..n) \X Nat -> SUBSET W],
         NEW next \in [1..n -> Nat], NEW number \in [(1..n) \X Nat -> Nat],
         \A at \in 1..n : ~stop[at] => next[at] \in at + 1..n
  PROVE  \E f : f = [at \in 1..n |-> f[at]] /\ Tabled(f, n, stop, end, add, next, number)
<1> DEFINE V == [Nat -> SUBSET W]
           Row(at, g) ==
             [id \in Nat |-> IF stop[at] THEN end[at]
                             ELSE add[<<at, id>>] \cup g[next[at]][number[<<at, id>>]]]
           step == [x \in (1..n) \X [1..n -> V] |-> Row(x[1], x[2])]
<1>1. ASSUME NEW at \in 1..n, NEW g \in [1..n -> V] PROVE Row(at, g) \in V
  <2>1. ASSUME NEW id \in Nat
        PROVE  (IF stop[at] THEN end[at]
                ELSE add[<<at, id>>] \cup g[next[at]][number[<<at, id>>]]) \in SUBSET W
    <3>1. CASE stop[at]
      BY <3>1
    <3>2. CASE ~stop[at]
      <4>1. next[at] \in 1..n
        BY <3>2
      <4>2. g[next[at]] \in V
        BY <4>1
      <4>3. number[<<at, id>>] \in Nat /\ add[<<at, id>>] \in SUBSET W
        OBVIOUS
      <4>4. g[next[at]][number[<<at, id>>]] \in SUBSET W
        BY <4>2, <4>3
      <4>5. QED
        BY <3>2, <4>3, <4>4
    <3>3. QED
      BY <3>1, <3>2
  <2>2. QED
    BY <2>1
<1>2. step \in [(1..n) \X [1..n -> V] -> V]
  <2> HIDE DEF Row, V
  <2>1. QED
    BY <1>1
<1>3. ASSUME NEW at \in 1..n, NEW g \in [1..n -> V] PROVE step[<<at, g>>] = Row(at, g)
  OBVIOUS
<1>4. ASSUME NEW at \in 1..n, NEW g \in [1..n -> V], NEW h \in [1..n -> V],
             \A b \in at + 1..n : g[b] = h[b]
      PROVE  step[<<at, g>>] = step[<<at, h>>]
  <2>1. ~stop[at] => g[next[at]] = h[next[at]]
    BY <1>4
  <2>2. Row(at, g) = Row(at, h)
    BY <2>1
  <2> HIDE DEF Row, step
  <2>3. QED
    BY <1>3, <2>2
<1>5. [id \in Nat |-> {}] \in V
  OBVIOUS
<1> HIDE DEF V, step
<1>6. LooksOnward(step, n, V)
  BY <1>2, <1>4 DEF LooksOnward
<1>7. PICK g : Defines(step, n, V, g)
  BY <1>5, <1>6, DownwardRecursion
<1>8. \A at \in 1..n : g[at] = Row(at, g)
  <2> HIDE DEF Row
  <2>1. QED
    BY <1>3, <1>7 DEF Defines
<1>9. g = [at \in 1..n |-> g[at]]
  BY <1>7 DEF Defines
<1>10. Tabled(g, n, stop, end, add, next, number)
  BY <1>8 DEF Tabled
<1>11. QED
  BY <1>9, <1>10

(* The blocks of a string package, from each position and id on.           *)
IsText(s, at) == IsBlock(s, at, Ucs2) /\ HasText(s, at + 1, CharLen)

Skips(s, at) == IsSkip(s, at) /\ Within(s, at + 1, SkipLen(s[at]))

TextOf(s, at, id) == Parsed([id |-> id, text |-> TextAt(s, at + 1, CharLen)])

AfterText(s, at) == at + 1 + (Len(TextAt(s, at + 1, CharLen)) + 1) * CharLen

AfterSkip(s, at) == at + 1 + SkipLen(s[at])

IdSkipped(s, at, id) == IdAfterSkip(id, NumberAt(s, at + 1, SkipLen(s[at])))

BlockTable(from, s) ==
  \A at \in 1..Len(s) + 1, id \in Nat :
    /\ IsBlock(s, at, EndBlock) => from[at][id] = {}
    /\ IsText(s, at) => from[at][id] = {TextOf(s, at, id)} \cup from[AfterText(s, at)][id + 1]
    /\ Skips(s, at) => from[at][id] = from[AfterSkip(s, at)][IdSkipped(s, at, id)]
    /\ ~IsBlock(s, at, EndBlock) /\ ~IsText(s, at) /\ ~Skips(s, at) => from[at][id] = {Failed}

(* The branches of the loop over blocks exclude each other.                *)
LEMMA OneBlockKind ==
  ASSUME NEW s, NEW at
  PROVE  /\ IsText(s, at) => ~IsBlock(s, at, EndBlock) /\ ~Skips(s, at)
         /\ Skips(s, at) => ~IsBlock(s, at, EndBlock)
  BY DEF IsText, Skips, IsSkip, IsBlock, EndBlock, Ucs2, Skip1, Skip2

(* A text that has an end lies in the package.                             *)
LEMMA TextInside ==
  ASSUME NEW s \in Seq(Byte), NEW at \in 1..Len(s) + 1, IsText(s, at)
  PROVE  AfterText(s, at) \in at + 1..Len(s) + 1
<1> DEFINE ends == Terminators(s, at + 1, CharLen)
           k == TextLen(s, at + 1, CharLen)
<1>1. ends # {} /\ ends \subseteq Nat
  BY DEF IsText, HasText, Terminators
<1>2. k \in ends
  <2> HIDE DEF ends
  <2>1. PICK m \in ends : \A j \in ends : m <= j
    <3>1. PICK e \in ends : TRUE
      BY <1>1
    <3>2. QED
      BY <1>1, <3>1, LeastNumber
  <2>2. Min(ends) \in ends
    BY <2>1 DEF Min
  <2>3. QED
    BY <2>2 DEF TextLen, ends
<1>3. k \in Nat /\ Within(s, at + 1 + k * CharLen, CharLen)
  BY <1>2 DEF Terminators
<1> HIDE DEF k
<1>4. Len(TextAt(s, at + 1, CharLen)) = k
  <2> DEFINE text == [i \in 1..k |-> NumberAt(s, at + 1 + (i - 1) * CharLen, CharLen)]
  <2>1. TextAt(s, at + 1, CharLen) = text
    BY DEF TextAt, k
  <2>2. DOMAIN text = 1..k
    OBVIOUS
  <2>3. Len(text) = k
    <3> DEFINE T == {text[i] : i \in 1..k}
    <3>1. text \in [1..k -> T]
      OBVIOUS
    <3> HIDE DEF text, T
    <3>2. text \in Seq(T)
      BY <1>3, <3>1, SeqDef
    <3>3. QED
      BY <1>3, <2>2, <3>2, LenProperties
  <2>4. QED
    BY <2>1, <2>3
<1>5. Len(s) \in Nat /\ at \in Nat
  BY LenProperties
<1>6. QED
  BY <1>3, <1>4, <1>5 DEF AfterText, Within, CharLen

LEMMA SkipInside ==
  ASSUME NEW s \in Seq(Byte), NEW at \in 1..Len(s) + 1, Skips(s, at)
  PROVE  /\ AfterSkip(s, at) \in at + 1..Len(s) + 1
         /\ NumberAt(s, at + 1, SkipLen(s[at])) \in Nat
<1>1. Len(s) \in Nat /\ at \in Nat
  BY LenProperties
<1>2. PICK w \in FieldWidths : w = SkipLen(s[at]) /\ w \in {1, 2}
  BY DEF SkipLen, FieldWidths
<1>3. Within(s, at + 1, w)
  BY <1>2 DEF Skips
<1>4. AfterSkip(s, at) \in at + 1..Len(s) + 1
  BY <1>1, <1>2, <1>3 DEF AfterSkip, Within
<1>5. NumberAt(s, at + 1, w) \in Nat
  <2>1. PICK p \in Nat : p = at + 1 /\ p > 0
    BY <1>1
  <2>2. QED
    BY <1>2, <1>3, <2>1, NumberTyped
<1>6. QED
  BY <1>2, <1>4, <1>5

(* The loop of handle_string_package, unrolled by a step at every position *)
(* and id.                                                                 *)
LEMMA BlocksTabled ==
  ASSUME NEW s \in Seq(Byte)
  PROVE  \E from : BlockTable(from, s) /\ \A first : BlocksFrom(s, first) = from[first][1]
<1> DEFINE n == Len(s) + 1
           goesOn(at) == IsText(s, at) \/ Skips(s, at)
           W == {Failed} \cup {TextOf(s, at, id) : at \in 1..n, id \in Nat}
           stop == [at \in 1..n |-> ~goesOn(at)]
           end == [at \in 1..n |-> IF IsBlock(s, at, EndBlock) THEN {} ELSE {Failed}]
           add == [x \in (1..n) \X Nat |-> IF IsText(s, x[1]) THEN {TextOf(s, x[1], x[2])} ELSE {}]
           next == [at \in 1..n |-> IF IsText(s, at) THEN AfterText(s, at)
                                    ELSE IF Skips(s, at) THEN AfterSkip(s, at) ELSE 0]
           number == [x \in (1..n) \X Nat |-> IF Skips(s, x[1]) THEN IdSkipped(s, x[1], x[2])
                                              ELSE x[2] + 1]
           Body(at, id, f) ==
             IF IsBlock(s, at, EndBlock) THEN {}
             ELSE IF IsText(s, at)
             THEN {TextOf(s, at, id)} \cup f[AfterText(s, at)][id + 1]
             ELSE IF Skips(s, at) THEN f[AfterSkip(s, at)][IdSkipped(s, at, id)]
             ELSE {Failed}
           Table(f) == f = [at \in 1..n |-> [id \in Nat |-> Body(at, id, f)]]
<1>1. Len(s) \in Nat /\ n \in Nat
  BY LenProperties
<1>2. ASSUME NEW at \in 1..n, IsText(s, at)
      PROVE  AfterText(s, at) \in at + 1..n /\ AfterText(s, at) \in Nat
  <2>1. AfterText(s, at) \in at + 1..n
    BY <1>2, TextInside
  <2>2. QED
    BY <1>1, <2>1
<1>3. ASSUME NEW at \in 1..n, Skips(s, at)
      PROVE  /\ AfterSkip(s, at) \in at + 1..n /\ AfterSkip(s, at) \in Nat
             /\ \A id \in Nat : IdSkipped(s, at, id) \in Nat
  <2>1. AfterSkip(s, at) \in at + 1..n /\ NumberAt(s, at + 1, SkipLen(s[at])) \in Nat
    BY <1>3, SkipInside
  <2>2. QED
    BY <1>1, <2>1 DEF IdSkipped, IdAfterSkip
<1>4. stop \in [1..n -> BOOLEAN] /\ end \in [1..n -> SUBSET W]
  OBVIOUS
<1>5. add \in [(1..n) \X Nat -> SUBSET W]
  OBVIOUS
<1>6. next \in [1..n -> Nat]
  BY <1>2, <1>3
<1>7. number \in [(1..n) \X Nat -> Nat]
  <2>1. ASSUME NEW x \in (1..n) \X Nat
        PROVE  (IF Skips(s, x[1]) THEN IdSkipped(s, x[1], x[2]) ELSE x[2] + 1) \in Nat
    <3>1. x[1] \in 1..n /\ x[2] \in Nat
      OBVIOUS
    <3>2. Skips(s, x[1]) => IdSkipped(s, x[1], x[2]) \in Nat
      BY <1>3, <3>1
    <3>3. QED
      BY <3>1, <3>2
  <2>2. QED
    BY <2>1
<1>8. \A at \in 1..n : ~stop[at] => next[at] \in at + 1..n
  <2>1. ASSUME NEW at \in 1..n, goesOn(at) PROVE next[at] \in at + 1..n
    <3>1. CASE IsText(s, at)
      BY <1>2, <3>1
    <3>2. CASE ~IsText(s, at)
      BY <1>3, <2>1, <3>2
    <3>3. QED
      BY <3>1, <3>2
  <2>2. QED
    BY <2>1
<1>9. \A at \in 1..n, id \in Nat :
        /\ stop[at] <=> ~goesOn(at)
        /\ end[at] = IF IsBlock(s, at, EndBlock) THEN {} ELSE {Failed}
        /\ IsText(s, at) => /\ add[<<at, id>>] = {TextOf(s, at, id)}
                            /\ next[at] = AfterText(s, at)
                            /\ ~Skips(s, at) => number[<<at, id>>] = id + 1
  OBVIOUS
<1>9a. \A at \in 1..n, id \in Nat :
         Skips(s, at) /\ ~IsText(s, at) =>
           /\ add[<<at, id>>] = {} /\ next[at] = AfterSkip(s, at)
           /\ number[<<at, id>>] = IdSkipped(s, at, id)
  OBVIOUS
<1> HIDE DEF stop, end, add, next, number, W, n
<1>10. PICK f : f = [at \in 1..n |-> f[at]] /\ Tabled(f, n, stop, end, add, next, number)
  BY <1>1, <1>4, <1>5, <1>6, <1>7, <1>8, TableExists
<1>11. ASSUME NEW at \in 1..n PROVE f[at] = [id \in Nat |-> Body(at, id, f)]
  <2>1. f[at] = [id \in Nat |-> IF stop[at] THEN end[at]
                                 ELSE add[<<at, id>>] \cup f[next[at]][number[<<at, id>>]]]
    BY <1>10 DEF Tabled
  <2>2. ASSUME NEW id \in Nat
        PROVE  (IF stop[at] THEN end[at] ELSE add[<<at, id>>] \cup f[next[at]][number[<<at, id>>]])
                 = Body(at, id, f)
    <3>1. CASE IsText(s, at)
      <4>1. ~IsBlock(s, at, EndBlock) /\ ~Skips(s, at)
        BY <3>1, OneBlockKind
      <4>2. /\ ~stop[at] /\ add[<<at, id>>] = {TextOf(s, at, id)}
            /\ next[at] = AfterText(s, at) /\ number[<<at, id>>] = id + 1
        BY <1>9, <3>1, <4>1
      <4>3. Body(at, id, f) = {TextOf(s, at, id)} \cup f[AfterText(s, at)][id + 1]
        BY <3>1, <4>1
      <4> HIDE DEF Body
      <4>4. QED
        BY <4>2, <4>3
    <3>2. CASE Skips(s, at)
      <4>1. ~IsBlock(s, at, EndBlock) /\ ~IsText(s, at)
        BY <3>2, OneBlockKind
      <4>2. /\ ~stop[at] /\ add[<<at, id>>] = {}
            /\ next[at] = AfterSkip(s, at) /\ number[<<at, id>>] = IdSkipped(s, at, id)
        <5>1. ~stop[at]
          BY <1>9, <3>2
        <5>2. add[<<at, id>>] = {} /\ next[at] = AfterSkip(s, at)
              /\ number[<<at, id>>] = IdSkipped(s, at, id)
          BY <1>9a, <3>2, <4>1
        <5>3. QED
          BY <5>1, <5>2
      <4>3. Body(at, id, f) = f[AfterSkip(s, at)][IdSkipped(s, at, id)]
        BY <3>2, <4>1
      <4>4. PICK rest : rest = f[AfterSkip(s, at)][IdSkipped(s, at, id)]
        OBVIOUS
      <4>5. {} \cup rest = rest
        OBVIOUS
      <4> HIDE DEF Body
      <4>6. QED
        BY <4>2, <4>3, <4>4, <4>5
    <3>3. CASE ~goesOn(at)
      <4>1. stop[at] /\ end[at] = IF IsBlock(s, at, EndBlock) THEN {} ELSE {Failed}
        BY <1>9, <3>3
      <4>2. QED
        BY <3>3, <4>1
    <3>4. QED
      BY <3>1, <3>2, <3>3
  <2> HIDE DEF Body
  <2>3. QED
    BY <2>1, <2>2
<1>12. Table(f)
  <2> HIDE DEF Body
  <2>1. f = [at \in 1..n |-> f[at]]
    BY <1>10
  <2>2. QED
    BY <1>11, <2>1
<1> DEFINE from == CHOOSE g : Table(g)
<1>13. Table(from)
  <2> HIDE DEF Table
  <2>1. QED
    BY <1>12
<1>14. \A first : BlocksFrom(s, first) = from[first][1]
  BY DEF BlocksFrom, IsBlock, IsText, Skips, TextOf, AfterText, AfterSkip, IdSkipped, n
<1> HIDE DEF from
<1>15. \A at \in 1..n, id \in Nat : from[at][id] = Body(at, id, from)
  <2> HIDE DEF Body
  <2>1. \A at \in 1..n : from[at] = [id \in Nat |-> Body(at, id, from)]
    BY <1>13
  <2>2. QED
    BY <2>1
<1>16. BlockTable(from, s)
  <2>1. ASSUME NEW at \in 1..n, NEW id \in Nat
        PROVE  /\ IsBlock(s, at, EndBlock) => from[at][id] = {}
               /\ IsText(s, at) =>
                    from[at][id] = {TextOf(s, at, id)} \cup from[AfterText(s, at)][id + 1]
               /\ Skips(s, at) => from[at][id] = from[AfterSkip(s, at)][IdSkipped(s, at, id)]
               /\ ~IsBlock(s, at, EndBlock) /\ ~IsText(s, at) /\ ~Skips(s, at)
                    => from[at][id] = {Failed}
    BY <1>15, OneBlockKind
  <2>2. QED
    BY <2>1 DEF BlockTable, n
<1>17. QED
  BY <1>14, <1>16

(* What follows the byte that says a block's kind.                         *)
BlockBody(b) ==
  IF b.kind = "text" THEN EncodeText(b.text, CharLen) ELSE Encode(b.count, CountLen(b))

LEMMA BlockFields ==
  ASSUME NEW b, BlockLaidOut(b)
  PROVE  /\ EncodeBlock(b) = <<BlockTag(b)>> \o BlockBody(b)
         /\ b.kind = "text" => Text(b.text, CharLen)
         /\ b.kind # "text" =>
              /\ b.count \in Nat /\ CountLen(b) \in FieldWidths /\ Fits(b.count, CountLen(b))
         /\ BlockBody(b) \in Seq(Byte)
         /\ Len(BlockBody(b)) = IF b.kind = "text" THEN (Len(b.text) + 1) * CharLen ELSE CountLen(b)
<1>1. CharLen \in CharWidths /\ CountLen(b) \in FieldWidths
  BY DEF CharLen, CharWidths, CountLen, FieldWidths
<1>2. EncodeBlock(b) = <<BlockTag(b)>> \o BlockBody(b)
  BY DEF EncodeBlock, BlockBody
<1>3. CASE b.kind = "text"
  <2>1. PICK t \in Seq(Nat) :
          t = b.text /\ \A c \in Range(t) : c > 0 /\ Fits(c, CharLen)
    BY <1>3 DEF BlockLaidOut
  <2>2. \A i \in 1..Len(t) : t[i] \in Range(t)
    BY LenProperties DEF Range
  <2>3. \A i \in 1..Len(t) : t[i] > 0 /\ Fits(t[i], CharLen)
    BY <2>1, <2>2
  <2>4. Text(b.text, CharLen)
    BY <2>1, <2>3 DEF Text
  <2>5. /\ EncodeText(b.text, CharLen) \in Seq(Byte)
        /\ Len(EncodeText(b.text, CharLen)) = (Len(b.text) + 1) * CharLen
    BY <1>1, <2>4, TextEncoded
  <2>6. QED
    BY <1>1, <1>2, <1>3, <2>4, <2>5 DEF BlockBody
<1>4. CASE b.kind # "text"
  <2>1. b.count \in Nat /\ Fits(b.count, CountLen(b))
    BY <1>4 DEF BlockLaidOut
  <2>3. /\ Encode(b.count, CountLen(b)) \in Seq(Byte)
        /\ Len(Encode(b.count, CountLen(b))) = CountLen(b)
    BY <1>1, <2>1, EncodeTyped
  <2>4. QED
    BY <1>1, <1>2, <1>4, <2>1, <2>3 DEF BlockBody
<1>5. QED
  BY <1>3, <1>4

(* A block that is laid out is a tag and what the tag announces.           *)
LEMMA BlockEncoded ==
  ASSUME NEW b, BlockLaidOut(b)
  PROVE  /\ EncodeBlock(b) \in Seq(Byte) /\ Len(EncodeBlock(b)) = 1 + Len(BlockBody(b))
         /\ \A s \in Seq(Byte), at \in Nat \ {0} :
              Holds(s, at, EncodeBlock(b)) =>
                IsBlock(s, at, BlockTag(b)) /\ Holds(s, at + 1, BlockBody(b))
<1>1. EncodeBlock(b) = <<BlockTag(b)>> \o BlockBody(b) /\ BlockBody(b) \in Seq(Byte)
  BY BlockFields
<1>2. PICK t \in Seq(Byte) : t = <<BlockTag(b)>> /\ Len(t) = 1 /\ t[1] = BlockTag(b)
  <2>1. PICK x \in Byte : x = BlockTag(b)
    BY DEF BlockTag, Byte, Ucs2, Skip1, Skip2
  <2>2. <<x>> \in Seq(Byte) /\ Len(<<x>>) = 1 /\ <<x>>[1] = x
    OBVIOUS
  <2>3. QED
    BY <2>1, <2>2
<1>3. PICK e \in Seq(Byte) : e = t \o BlockBody(b) /\ Len(e) = Len(t) + Len(BlockBody(b))
  BY <1>1, Joined
<1>4. EncodeBlock(b) = e
  BY <1>1, <1>2, <1>3
<1>5. ASSUME NEW s \in Seq(Byte), NEW at \in Nat \ {0}, Holds(s, at, EncodeBlock(b))
      PROVE  IsBlock(s, at, BlockTag(b)) /\ Holds(s, at + 1, BlockBody(b))
  <2>1. Holds(s, at, t \o BlockBody(b))
    BY <1>3, <1>4, <1>5
  <2>2. Holds(s, at, t) /\ Holds(s, at + Len(t), BlockBody(b))
    BY <1>1, <2>1, HoldsParts
  <2>3. Within(s, at, 1) /\ s[at] = BlockTag(b)
    <3>1. at + 1 - 1 = at /\ 1 \in 1..Len(t)
      BY <1>2
    <3>2. s[at + 1 - 1] = t[1] /\ at + Len(t) - 1 <= Len(s)
      BY <2>2, <3>1 DEF Holds
    <3>3. QED
      BY <1>2, <3>1, <3>2 DEF Within
  <2>4. QED
    BY <1>2, <2>2, <2>3 DEF IsBlock
<1>6. QED
  BY <1>2, <1>3, <1>4, <1>5

(* What is read of a block that is laid out.                               *)
LEMMA BlockRead ==
  ASSUME NEW b, BlockLaidOut(b), NEW s \in Seq(Byte), NEW at \in Nat \ {0},
         Holds(s, at, EncodeBlock(b))
  PROVE  /\ b.kind = "text" =>
              /\ IsText(s, at) /\ TextAt(s, at + 1, CharLen) = b.text
              /\ AfterText(s, at) = at + Len(EncodeBlock(b))
         /\ b.kind \in {"skip1", "skip2"} =>
              /\ Skips(s, at) /\ NumberAt(s, at + 1, SkipLen(s[at])) = b.count
              /\ AfterSkip(s, at) = at + Len(EncodeBlock(b))
         /\ b.kind = "other" =>
              ~IsBlock(s, at, EndBlock) /\ ~IsText(s, at) /\ ~Skips(s, at)
<1>1. /\ Len(EncodeBlock(b)) = 1 + Len(BlockBody(b))
      /\ IsBlock(s, at, BlockTag(b)) /\ Holds(s, at + 1, BlockBody(b))
  BY BlockEncoded
<1>2. PICK p \in Nat : p = at + 1 /\ p > 0
  OBVIOUS
<1>3. CASE b.kind = "text"
  <2>1. Text(b.text, CharLen) /\ Len(BlockBody(b)) = (Len(b.text) + 1) * CharLen
        /\ BlockBody(b) = EncodeText(b.text, CharLen) /\ BlockTag(b) = Ucs2
    BY <1>3, BlockFields DEF BlockBody, BlockTag
  <2>2. HasText(s, p, CharLen) /\ TextAt(s, p, CharLen) = b.text
    <3>1. CharLen \in CharWidths
      BY DEF CharLen, CharWidths
    <3>2. Holds(s, p, EncodeText(b.text, CharLen))
      BY <1>1, <1>2, <2>1
    <3>3. QED
      BY <1>2, <2>1, <3>1, <3>2, TextRead
  <2>3. AfterText(s, at) = at + (1 + Len(BlockBody(b)))
    <3>1. PICK l \in Nat : l = Len(BlockBody(b))
      BY BlockFields, LenProperties
    <3>2. AfterText(s, at) = at + 1 + l
      BY <1>2, <2>1, <2>2, <3>1 DEF AfterText
    <3>3. QED
      BY <3>1, <3>2
  <2>4. QED
    BY <1>1, <1>2, <1>3, <2>1, <2>2, <2>3 DEF IsText
<1>4. CASE b.kind \in {"skip1", "skip2"}
  <2>1. /\ b.count \in Nat /\ CountLen(b) \in FieldWidths /\ Fits(b.count, CountLen(b))
        /\ Len(BlockBody(b)) = CountLen(b) /\ BlockBody(b) = Encode(b.count, CountLen(b))
        /\ BlockTag(b) = IF b.kind = "skip1" THEN Skip1 ELSE Skip2
    BY <1>4, BlockFields DEF BlockBody, BlockTag
  <2>2. SkipLen(s[at]) = CountLen(b)
    BY <1>1, <1>4, <2>1 DEF IsBlock, SkipLen, CountLen, Skip1, Skip2
  <2>3. Within(s, p, CountLen(b)) /\ NumberAt(s, p, CountLen(b)) = b.count
    BY <1>1, <1>2, <2>1, HeldNumber
  <2>4. Skips(s, at)
    BY <1>1, <1>2, <1>4, <2>1, <2>2, <2>3 DEF Skips, IsSkip
  <2>5. AfterSkip(s, at) = at + (1 + Len(BlockBody(b)))
    BY <2>1, <2>2 DEF AfterSkip, CountLen
  <2>6. QED
    BY <1>1, <1>2, <1>4, <2>2, <2>3, <2>4, <2>5
<1>5. CASE b.kind = "other"
  <2>1. s[at] = Ucs2 + 1
    BY <1>1, <1>5 DEF IsBlock, BlockTag
  <2>2. QED
    BY <1>5, <2>1 DEF IsText, Skips, IsSkip, IsBlock, EndBlock, Ucs2, Skip1, Skip2
<1>6. QED
  BY <1>3, <1>4, <1>5

BlockBytes(blocks) == [i \in DOMAIN blocks |-> EncodeBlock(blocks[i])]

BlocksLaidOut(blocks) == \A i \in 1..Len(blocks) : BlockLaidOut(blocks[i])

(* Where a block begins: behind the header and the language's name.        *)
FirstBlock == StringHeaderLen + 3

BlockBegin(blocks, i) == FirstBlock + Len(UpTo(BlockBytes(blocks), i))

LEMMA BlockBytesIs ==
  ASSUME NEW R, NEW blocks \in Seq(R), BlocksLaidOut(blocks)
  PROVE  /\ Len(blocks) \in Nat
         /\ BlockBytes(blocks) \in Seq(Seq(Byte)) /\ Len(BlockBytes(blocks)) = Len(blocks)
         /\ \A i \in 1..Len(blocks) : BlockBytes(blocks)[i] = EncodeBlock(blocks[i])
         /\ FlattenSeq(BlockBytes(blocks)) \in Seq(Byte)
         /\ BlockBegin(blocks, 0) = FirstBlock
         /\ BlockBegin(blocks, Len(blocks)) = FirstBlock + Len(FlattenSeq(BlockBytes(blocks)))
         /\ \A i \in 0..Len(blocks) : BlockBegin(blocks, i) \in Nat /\ BlockBegin(blocks, i) > 0
<1> DEFINE encs == BlockBytes(blocks)
           n == Len(blocks)
<1>1. n \in Nat /\ DOMAIN blocks = 1..n /\ FirstBlock \in Nat /\ FirstBlock > 0
  BY LenProperties, HeaderLengths DEF FirstBlock
<1>2. \A i \in 1..n : EncodeBlock(blocks[i]) \in Seq(Byte)
  BY BlockEncoded DEF BlocksLaidOut
<1>3. encs = [i \in 1..n |-> EncodeBlock(blocks[i])]
  BY <1>1 DEF BlockBytes
<1>4. encs \in [1..n -> Seq(Byte)]
  BY <1>2, <1>3
<1>5. encs \in Seq(Seq(Byte))
  BY <1>1, <1>4, SeqDef
<1>6. Len(encs) = n
  <2>1. DOMAIN encs = 1..n
    BY <1>3
  <2>2. QED
    BY <1>1, <1>5, <2>1, LenProperties
<1>7. \A i \in 1..n : encs[i] = EncodeBlock(blocks[i])
  BY <1>3
<1>8. \A i \in 0..n : BlockBegin(blocks, i) = FirstBlock + Len(UpTo(encs, i))
  BY DEF BlockBegin
<1> HIDE DEF encs, n
<1>9. /\ UpTo(encs, 0) = <<>> /\ UpTo(encs, n) = FlattenSeq(encs)
      /\ \A i \in 0..n : UpTo(encs, i) \in Seq(Byte)
  BY <1>5, <1>6, UpToSteps
<1>10. \A i \in 0..n : BlockBegin(blocks, i) \in Nat /\ BlockBegin(blocks, i) > 0
  <2>1. ASSUME NEW i \in 0..n PROVE BlockBegin(blocks, i) \in Nat /\ BlockBegin(blocks, i) > 0
    <3>1. PICK l \in Nat : l = Len(UpTo(encs, i))
      BY <1>9, LenProperties
    <3>2. BlockBegin(blocks, i) = FirstBlock + l
      BY <1>8, <3>1
    <3>3. QED
      BY <1>1, <3>2
  <2>2. QED
    BY <2>1
<1>11. 0 \in 0..n /\ n \in 0..n
  BY <1>1
<1>12. FlattenSeq(encs) \in Seq(Byte)
  BY <1>9, <1>11
<1>13. BlockBegin(blocks, 0) = FirstBlock
  <2>1. Len(<<>>) = 0
    BY EmptySeq
  <2>2. BlockBegin(blocks, 0) = FirstBlock + Len(UpTo(encs, 0))
    BY <1>8, <1>11
  <2>3. BlockBegin(blocks, 0) = FirstBlock + 0
    BY <1>9, <2>1, <2>2
  <2>4. QED
    BY <1>1, <2>3
<1>14. BlockBegin(blocks, n) = FirstBlock + Len(FlattenSeq(encs))
  BY <1>8, <1>9, <1>11
<1>15. QED
  BY <1>1, <1>5, <1>6, <1>7, <1>10, <1>12, <1>13, <1>14 DEF encs, n

(* The bytes of a string package, and where each block begins.             *)
LEMMA StringsEncoded ==
  ASSUME NEW R, NEW blocks \in Seq(R), BlocksLaidOut(blocks)
  PROVE  LET s == EncodeStrings(blocks)
         IN  /\ s \in Seq(Byte)
             /\ HasText(s, StringHeaderLen + 1, 1) /\ TextLen(s, StringHeaderLen + 1, 1) = 1
             /\ IsBlock(s, BlockBegin(blocks, Len(blocks)), EndBlock)
             /\ Holds(s, FirstBlock, FlattenSeq(BlockBytes(blocks)))
<1> DEFINE flat == FlattenSeq(BlockBytes(blocks))
           zeros == [i \in 1..StringHeaderLen |-> 0]
           name == EncodeText(<<101>>, 1)
           s == EncodeStrings(blocks)
<1>1. flat \in Seq(Byte) /\ Len(flat) \in Nat /\ BlockBegin(blocks, Len(blocks)) = FirstBlock + Len(flat)
  BY BlockBytesIs, LenProperties
<1>2. zeros \in Seq(Byte) /\ Len(zeros) = StringHeaderLen
  <2>1. zeros \in [1..StringHeaderLen -> Byte] /\ DOMAIN zeros = 1..StringHeaderLen
    BY DEF Byte
  <2> HIDE DEF zeros
  <2>2. zeros \in Seq(Byte)
    BY <2>1, HeaderLengths, SeqDef
  <2>3. QED
    BY <2>1, <2>2, HeaderLengths, LenProperties
<1>3. Text(<<101>>, 1) /\ Len(<<101>>) = 1
  <2>1. PICK c \in Nat : c = 101
    OBVIOUS
  <2>2. <<c>> \in Seq(Nat) /\ Len(<<c>>) = 1 /\ <<c>>[1] = c
    OBVIOUS
  <2>3. Fits(c, 1) /\ c > 0
    <3>1. c < 256 /\ 1 \in FieldWidths /\ c > 0
      BY <2>1 DEF FieldWidths
    <3>2. QED
      BY <3>1, SmallFits
  <2>4. \A i \in 1..Len(<<c>>) : <<c>>[i] > 0 /\ Fits(<<c>>[i], 1)
    <3>1. ASSUME NEW i \in 1..Len(<<c>>) PROVE <<c>>[i] > 0 /\ Fits(<<c>>[i], 1)
      <4>1. i = 1
        BY <2>2
      <4>2. QED
        BY <2>2, <2>3, <4>1
    <3>2. QED
      BY <3>1
  <2>5. QED
    BY <2>1, <2>2, <2>4 DEF Text
<1>4. name \in Seq(Byte) /\ Len(name) = 2
  <2>1. 1 \in CharWidths
    BY DEF CharWidths
  <2>2. name \in Seq(Byte) /\ Len(name) = (Len(<<101>>) + 1) * 1
    BY <1>3, <2>1, TextEncoded
  <2>3. QED
    BY <1>3, <2>2
<1>5. s = zeros \o name \o flat \o <<EndBlock>>
  BY DEF EncodeStrings, BlockBytes
<1>6. PICK t \in Seq(Byte) : t = <<EndBlock>> /\ Len(t) = 1 /\ t[1] = EndBlock
  <2>1. PICK x \in Byte : x = EndBlock
    BY DEF Byte, EndBlock
  <2>2. <<x>> \in Seq(Byte) /\ Len(<<x>>) = 1 /\ <<x>>[1] = x
    OBVIOUS
  <2>3. QED
    BY <2>1, <2>2
<1> HIDE DEF flat, zeros, name, s
<1>7. PICK f \in Seq(Byte) : f = zeros \o name /\ Len(f) = Len(zeros) + Len(name)
  BY <1>2, <1>4, Joined
<1>8. PICK g \in Seq(Byte) : g = f \o flat /\ Len(g) = Len(f) + Len(flat)
  BY <1>1, Joined
<1>9. PICK h \in Seq(Byte) : h = g \o t /\ Len(h) = Len(g) + Len(t)
  BY Joined
<1>10. s = h
  BY <1>5, <1>6, <1>7, <1>8, <1>9
<1>11. Holds(h, 1, g) /\ Holds(h, 1 + Len(g), t)
  <2>1. Holds(h, 1, g \o t)
    BY <1>9, HoldsItself
  <2>2. QED
    BY <2>1, HoldsParts
<1>12. Holds(h, 1, f) /\ Holds(h, 1 + Len(f), flat)
  <2>1. Holds(h, 1, f \o flat)
    BY <1>8, <1>11
  <2>2. QED
    BY <1>1, <2>1, HoldsParts
<1>13. Holds(h, 1 + Len(zeros), name)
  <2>1. Holds(h, 1, zeros \o name)
    BY <1>7, <1>12
  <2>2. QED
    BY <1>2, <1>4, <2>1, HoldsParts
<1>14. /\ 1 + Len(zeros) = StringHeaderLen + 1 /\ 1 + Len(f) = FirstBlock
       /\ 1 + Len(g) = FirstBlock + Len(flat)
  BY <1>1, <1>2, <1>4, <1>7, <1>8, HeaderLengths DEF FirstBlock
<1>15. HasText(h, StringHeaderLen + 1, 1) /\ TextLen(h, StringHeaderLen + 1, 1) = 1
  <2>1. PICK p \in Nat : p = StringHeaderLen + 1 /\ p > 0
    BY HeaderLengths
  <2>2. Holds(h, p, EncodeText(<<101>>, 1)) /\ 1 \in CharWidths
    BY <1>13, <1>14, <2>1 DEF name, CharWidths
  <2>3. HasText(h, p, 1) /\ TextLen(h, p, 1) = Len(<<101>>)
    <3>1. PICK width \in CharWidths : width = 1
      BY <2>2
    <3>2. PICK text : text = <<101>> /\ Text(text, width)
      BY <1>3, <3>1
    <3>3. Holds(h, p, EncodeText(text, width))
      BY <2>2, <3>1, <3>2
    <3>4. HasText(h, p, width) /\ TextLen(h, p, width) = Len(text)
      BY <2>1, <3>2, <3>3, TextRead
    <3>5. QED
      BY <3>1, <3>2, <3>4
  <2>4. QED
    BY <1>3, <2>1, <2>3
<1>16. IsBlock(h, FirstBlock + Len(flat), EndBlock)
  <2>1. PICK p \in Nat : p = FirstBlock + Len(flat)
    BY <1>1, HeaderLengths DEF FirstBlock
  <2>2. Holds(h, p, t)
    BY <1>11, <1>14, <2>1
  <2>3. p + 1 - 1 = p /\ 1 \in 1..Len(t)
    BY <1>6
  <2>4. h[p + 1 - 1] = t[1] /\ p + Len(t) - 1 <= Len(h)
    BY <2>2, <2>3 DEF Holds
  <2>5. QED
    BY <1>6, <2>1, <2>3, <2>4 DEF IsBlock, Within
<1>17. QED
  BY <1>1, <1>10, <1>12, <1>14, <1>15, <1>16 DEF s, flat

(* Each block of a string package lies where the ones before it end.       *)
LEMMA BlockBegins ==
  ASSUME NEW R, NEW blocks \in Seq(R), BlocksLaidOut(blocks), NEW i \in 1..Len(blocks)
  PROVE  LET s == EncodeStrings(blocks)
         IN  /\ BlockBegin(blocks, i - 1) \in 1..Len(s) + 1
             /\ Holds(s, BlockBegin(blocks, i - 1), EncodeBlock(blocks[i]))
             /\ BlockBegin(blocks, i) = BlockBegin(blocks, i - 1) + Len(EncodeBlock(blocks[i]))
<1> DEFINE flat == FlattenSeq(BlockBytes(blocks))
           encs == BlockBytes(blocks)
           s == EncodeStrings(blocks)
<1>1. /\ encs \in Seq(Seq(Byte)) /\ Len(encs) = Len(blocks) /\ Len(blocks) \in Nat
      /\ encs[i] = EncodeBlock(blocks[i])
  BY BlockBytesIs
<1>2. s \in Seq(Byte) /\ Holds(s, FirstBlock, flat)
  BY StringsEncoded
<1>3. /\ Holds(flat, Len(UpTo(encs, i - 1)) + 1, encs[i])
      /\ Len(UpTo(encs, i)) = Len(UpTo(encs, i - 1)) + Len(encs[i])
  BY <1>1, UpToHeld
<1>4. flat \in Seq(Byte)
  BY BlockBytesIs
<1>5. BlockBegin(blocks, i - 1) = FirstBlock + Len(UpTo(encs, i - 1))
      /\ BlockBegin(blocks, i) = FirstBlock + Len(UpTo(encs, i))
  BY DEF BlockBegin
<1> HIDE DEF flat, encs, s
<1>6. PICK u \in Nat : u = Len(UpTo(encs, i - 1))
  <2>1. i - 1 \in 0..Len(encs)
    BY <1>1
  <2>2. UpTo(encs, i - 1) \in Seq(Byte)
    BY <1>1, <2>1, UpToSteps
  <2>3. QED
    BY <2>2, LenProperties
<1>7. PICK e \in Seq(Byte) : e = encs[i]
  <2>1. BlockLaidOut(blocks[i])
    BY DEF BlocksLaidOut
  <2>2. QED
    BY <1>1, <2>1, BlockEncoded
<1>8. PICK k \in Nat, at \in Nat, first \in Nat :
        /\ k = u + 1 /\ k > 0 /\ first = FirstBlock /\ at = first + u /\ at = first + k - 1 /\ first > 0
  <2>1. PICK first \in Nat : first = FirstBlock /\ first > 0
    BY HeaderLengths DEF FirstBlock
  <2>2. PICK k \in Nat, at \in Nat : k = u + 1 /\ at = first + u
    OBVIOUS
  <2>3. k > 0 /\ at = first + k - 1
    BY <2>2
  <2>4. QED
    BY <2>1, <2>2, <2>3
<1>9. Holds(s, at, e)
  <2>1. Holds(flat, k, e) /\ Holds(s, first, flat)
    BY <1>2, <1>3, <1>6, <1>7, <1>8
  <2>2. Holds(s, first + k - 1, e)
    BY <1>2, <1>4, <1>8, <2>1, HoldsWithin
  <2>3. QED
    BY <1>8, <2>2
<1>10. at \in 1..Len(s) + 1
  <2>1. Len(e) \in Nat /\ Len(s) \in Nat
    BY <1>2, LenProperties
  <2>2. at + Len(e) - 1 <= Len(s)
    BY <1>9 DEF Holds
  <2>3. QED
    BY <1>8, <2>1, <2>2
<1>11. BlockBegin(blocks, i - 1) = at
  BY <1>5, <1>6, <1>8
<1>12. BlockBegin(blocks, i) = at + Len(e)
  <2>1. PICK l \in Nat : l = Len(e)
    BY LenProperties
  <2>2. BlockBegin(blocks, i) = first + (u + l)
    BY <1>3, <1>5, <1>6, <1>7, <1>8, <2>1
  <2>3. first + (u + l) = at + l
    BY <1>8
  <2>4. QED
    BY <2>1, <2>2, <2>3
<1>13. QED
  BY <1>1, <1>7, <1>9, <1>10, <1>11, <1>12 DEF s

(* The ids of the blocks, and the one that comes after the k-th.           *)
NextId(blocks, k) == IF k = 0 THEN 1 ELSE IdOf(blocks, k) + Ids(blocks[k])

(* Ids as the reader counts them: from 1, by one for a text, by the count  *)
(* of a skip.                                                              *)
LEMMA IdsCounted ==
  ASSUME NEW R, NEW blocks \in Seq(R), BlocksLaidOut(blocks)
  PROVE  \A k \in 1..Len(blocks) :
           /\ Ids(blocks[k]) \in Nat
           /\ IdOf(blocks, k) \in Nat
           /\ IdOf(blocks, k) = NextId(blocks, k - 1)
<1> DEFINE n == Len(blocks)
           Body(j, f) == IF j = 1 THEN 1 ELSE f[j - 1] + Ids(blocks[j - 1])
           Counts(f) == f = [j \in DOMAIN blocks |-> Body(j, f)]
           step == [x \in (2..n) \X Nat |-> x[2] + Ids(blocks[x[1] - 1])]
<1>1. n \in Nat /\ DOMAIN blocks = 1..n
  BY LenProperties
<1>2. \A k \in 1..n : Ids(blocks[k]) \in Nat
  BY DEF BlocksLaidOut, BlockLaidOut, Ids
<1>3. CASE n = 0
  BY <1>1, <1>3
<1>4. CASE n > 0
  <2>1. step \in [(2..n) \X Nat -> Nat]
    <3>1. \A x \in (2..n) \X Nat : x[2] \in Nat /\ Ids(blocks[x[1] - 1]) \in Nat
      BY <1>1, <1>2
    <3>2. QED
      BY <3>1
  <2> HIDE DEF n
  <2>2. PICK f : Stepped(f, Nat, n, 1, step)
    <3> HIDE DEF step
    <3>1. QED
      BY <1>1, <1>4, <2>1, StepByStep
  <2>3. /\ f \in [1..n -> Nat] /\ f[1] = 1
        /\ \A j \in 2..n : f[j] = f[j - 1] + Ids(blocks[j - 1])
    <3>1. f \in [1..n -> Nat] /\ f[1] = 1 /\ \A j \in 2..n : f[j] = step[<<j, f[j - 1]>>]
      BY <2>2 DEF Stepped
    <3>2. ASSUME NEW j \in 2..n PROVE f[j] = f[j - 1] + Ids(blocks[j - 1])
      <4>1. f[j - 1] \in Nat
        BY <1>1, <3>1
      <4>2. step[<<j, f[j - 1]>>] = f[j - 1] + Ids(blocks[j - 1])
        BY <4>1
      <4> HIDE DEF step
      <4>3. QED
        BY <3>1, <4>2
    <3>3. QED
      BY <3>1, <3>2
  <2>4. f = [j \in 1..n |-> Body(j, f)]
    <3>1. \A j \in 1..n : f[j] = Body(j, f)
      BY <1>1, <2>3
    <3> HIDE DEF Body
    <3>2. QED
      BY <2>3, <3>1
  <2>5. Counts(f)
    BY <1>1, <2>4
  <2> DEFINE id == CHOOSE g : Counts(g)
  <2>6. Counts(id)
    <3> HIDE DEF Counts
    <3>1. QED
      BY <2>5
  <2>7. \A k : IdOf(blocks, k) = id[k]
    BY DEF IdOf
  <2> HIDE DEF id
  <2>8. \A j \in 1..n : id[j] = Body(j, id)
    <3> HIDE DEF Body
    <3>1. QED
      BY <1>1, <2>6
  <2> DEFINE S == {j \in 0..n : j # 0 => id[j] \in Nat}
  <2>9. 0 \in S
    BY <1>1
  <2>10. ASSUME NEW j \in 1..n, j - 1 \in S PROVE j \in S
    <3>1. j \in 0..n /\ id[j] = Body(j, id)
      BY <2>8
    <3>2. CASE j = 1
      BY <3>1, <3>2
    <3>3. CASE j # 1
      <4>1. j - 1 \in 1..n /\ j - 1 # 0
        BY <1>1, <3>3
      <4>2. id[j - 1] \in Nat /\ Ids(blocks[j - 1]) \in Nat
        BY <1>2, <2>10, <4>1 DEF n
      <4>3. QED
        BY <3>1, <3>3, <4>2
    <3>4. QED
      BY <3>2, <3>3
  <2>11. \A j \in 0..n : j \in S
    <3> HIDE DEF S
    <3>1. QED
      BY <1>1, <2>9, <2>10, CountUp
  <2>12. ASSUME NEW k \in 1..n
         PROVE  /\ Ids(blocks[k]) \in Nat /\ IdOf(blocks, k) \in Nat
                /\ IdOf(blocks, k) = NextId(blocks, k - 1)
    <3>1. k \in 0..n /\ k # 0
      BY <1>1
    <3>2. id[k] \in Nat /\ id[k] = Body(k, id)
      BY <2>8, <2>11, <3>1
    <3>3. IdOf(blocks, k) = NextId(blocks, k - 1)
      <4>1. CASE k = 1
        BY <2>7, <3>2, <4>1 DEF NextId
      <4>2. CASE k # 1
        <5>1. k - 1 # 0
          BY <1>1, <4>2
        <5>2. id[k] = id[k - 1] + Ids(blocks[k - 1])
          BY <3>2, <4>2
        <5>3. NextId(blocks, k - 1) = IdOf(blocks, k - 1) + Ids(blocks[k - 1])
          BY <5>1 DEF NextId
        <5>4. QED
          BY <2>7, <5>2, <5>3
      <4>3. QED
        BY <4>1, <4>2
    <3>4. Ids(blocks[k]) \in Nat
      BY <1>2 DEF n
    <3>5. QED
      BY <2>7, <3>2, <3>3, <3>4
  <2>13. QED
    BY <2>12 DEF n
<1>5. QED
  BY <1>1, <1>3, <1>4

(* The texts of the first k blocks, with their ids.                        *)
TextItem(blocks, i) == Parsed([id |-> IdOf(blocks, i), text |-> blocks[i].text])

TextItems(blocks, k) ==
  {TextItem(blocks, i) : i \in {j \in 1..k : blocks[j].kind = "text"}}

(* Up to a block of another type the texts are read with their ids.        *)
LEMMA BlocksInOrder ==
  ASSUME NEW R, NEW blocks \in Seq(R), BlocksLaidOut(blocks),
         NEW from, BlockTable(from, EncodeStrings(blocks)),
         NEW n \in 0..Len(blocks), \A i \in 1..n : blocks[i].kind # "other"
  PROVE  /\ NextId(blocks, n) \in Nat
         /\ from[FirstBlock][1]
              = TextItems(blocks, n) \cup from[BlockBegin(blocks, n)][NextId(blocks, n)]
<1> DEFINE s == EncodeStrings(blocks)
           S == {k \in 0..n :
                   /\ NextId(blocks, k) \in Nat
                   /\ from[FirstBlock][1]
                        = TextItems(blocks, k) \cup from[BlockBegin(blocks, k)][NextId(blocks, k)]}
<1>1. Len(blocks) \in Nat /\ n \in Nat /\ BlockBegin(blocks, 0) = FirstBlock
  BY BlockBytesIs
<1>2. 0 \in S
  <2>1. TextItems(blocks, 0) = {}
    BY DEF TextItems
  <2>2. NextId(blocks, 0) = 1 /\ 0 \in 0..n
    BY <1>1 DEF NextId
  <2>3. QED
    BY <1>1, <2>1, <2>2
<1>3. ASSUME NEW i \in 1..n, i - 1 \in S PROVE i \in S
  <2>1. i \in 1..Len(blocks) /\ i \in 0..n
    BY <1>1
  <2>2. PICK at \in 1..Len(s) + 1 :
          /\ at = BlockBegin(blocks, i - 1) /\ at \in Nat \ {0}
          /\ Holds(s, at, EncodeBlock(blocks[i]))
          /\ BlockBegin(blocks, i) = at + Len(EncodeBlock(blocks[i]))
    <3>1. /\ BlockBegin(blocks, i - 1) \in 1..Len(s) + 1
          /\ Holds(s, BlockBegin(blocks, i - 1), EncodeBlock(blocks[i]))
          /\ BlockBegin(blocks, i) = BlockBegin(blocks, i - 1) + Len(EncodeBlock(blocks[i]))
      BY <2>1, BlockBegins
    <3>2. i - 1 \in 0..Len(blocks)
      BY <2>1
    <3>3. BlockBegin(blocks, i - 1) \in Nat /\ BlockBegin(blocks, i - 1) > 0
      BY <3>2, BlockBytesIs
    <3>4. QED
      BY <3>1, <3>3
  <2>3. s \in Seq(Byte) /\ BlockLaidOut(blocks[i]) /\ blocks[i].kind # "other"
    BY <2>1, StringsEncoded DEF BlocksLaidOut
  <2>4. blocks[i].kind \in {"text", "skip1", "skip2"}
    BY <2>3 DEF BlockLaidOut
  <2>5. PICK id \in Nat : id = IdOf(blocks, i) /\ id = NextId(blocks, i - 1)
    BY <2>1, IdsCounted
  <2>6. Ids(blocks[i]) \in Nat /\ NextId(blocks, i) = id + Ids(blocks[i])
    <3>1. i # 0
      BY <1>1
    <3>2. QED
      BY <2>1, <2>5, <3>1, IdsCounted DEF NextId
  <2>7. from[FirstBlock][1] = TextItems(blocks, i - 1) \cup from[at][id]
    BY <1>3, <2>2, <2>5
  <2>8. from[at][id] = (IF blocks[i].kind = "text" THEN {TextItem(blocks, i)} ELSE {})
                         \cup from[BlockBegin(blocks, i)][NextId(blocks, i)]
    <3>1. CASE blocks[i].kind = "text"
      <4>1. /\ IsText(s, at) /\ TextAt(s, at + 1, CharLen) = blocks[i].text
            /\ AfterText(s, at) = at + Len(EncodeBlock(blocks[i]))
        BY <2>2, <2>3, <3>1, BlockRead
      <4>2. from[at][id] = {TextOf(s, at, id)} \cup from[AfterText(s, at)][id + 1]
        BY <2>2, <4>1 DEF BlockTable
      <4>3. TextOf(s, at, id) = TextItem(blocks, i)
        BY <2>5, <4>1 DEF TextOf, TextItem
      <4>4. NextId(blocks, i) = id + 1
        BY <2>6, <3>1 DEF Ids
      <4>5. QED
        BY <2>2, <3>1, <4>1, <4>2, <4>3, <4>4
    <3>2. CASE blocks[i].kind \in {"skip1", "skip2"}
      <4>1. /\ Skips(s, at) /\ NumberAt(s, at + 1, SkipLen(s[at])) = blocks[i].count
            /\ AfterSkip(s, at) = at + Len(EncodeBlock(blocks[i]))
        BY <2>2, <2>3, <3>2, BlockRead
      <4>2. from[at][id] = from[AfterSkip(s, at)][IdSkipped(s, at, id)]
        BY <2>2, <4>1 DEF BlockTable
      <4>3. IdSkipped(s, at, id) = NextId(blocks, i)
        BY <2>6, <3>2, <4>1 DEF IdSkipped, IdAfterSkip, Ids
      <4>4. blocks[i].kind # "text"
        BY <3>2
      <4>5. from[at][id] = from[BlockBegin(blocks, i)][NextId(blocks, i)]
        BY <2>2, <4>1, <4>2, <4>3
      <4>6. QED
        BY <4>4, <4>5
    <3>3. QED
      BY <2>4, <3>1, <3>2
  <2>9. TextItems(blocks, i)
          = TextItems(blocks, i - 1)
              \cup (IF blocks[i].kind = "text" THEN {TextItem(blocks, i)} ELSE {})
    <3>1. \A j : j \in 1..i <=> j \in 1..i - 1 \/ j = i
      BY <1>1
    <3>2. QED
      BY <3>1 DEF TextItems
  <2>10. from[FirstBlock][1]
           = TextItems(blocks, i) \cup from[BlockBegin(blocks, i)][NextId(blocks, i)]
    BY <2>7, <2>8, <2>9
  <2>11. NextId(blocks, i) \in Nat
    BY <2>6
  <2>12. QED
    BY <2>1, <2>10, <2>11
<1>4. \A k \in 0..n : k \in S
  <2> HIDE DEF S
  <2>1. QED
    BY <1>1, <1>2, <1>3, CountUp
<1>5. n \in 0..n
  BY <1>1
<1>6. QED
  BY <1>4, <1>5

(* Behind a text the ids are greater.                                      *)
LEMMA IdsGrow ==
  ASSUME NEW R, NEW blocks \in Seq(R), BlocksLaidOut(blocks),
         NEW i \in 1..Len(blocks), blocks[i].kind = "text", NEW j \in 1..Len(blocks), i < j
  PROVE  IdOf(blocks, i) < IdOf(blocks, j)
<1> DEFINE n == Len(blocks)
           S == {k \in 0..n : k > i => IdOf(blocks, i) < IdOf(blocks, k)}
<1>1. n \in Nat /\ i \in 1..n /\ j \in 0..n
  BY LenProperties
<1>2. \A k \in 1..n : Ids(blocks[k]) \in Nat /\ IdOf(blocks, k) \in Nat
                      /\ IdOf(blocks, k) = NextId(blocks, k - 1)
  BY IdsCounted
<1> HIDE DEF n
<1>3. 0 \in S
  BY <1>1
<1>4. ASSUME NEW k \in 1..n, k - 1 \in S PROVE k \in S
  <2>1. CASE k > i
    <3>1. k - 1 \in 1..n /\ k - 1 # 0
      BY <1>1, <2>1
    <3>2. IdOf(blocks, k) = IdOf(blocks, k - 1) + Ids(blocks[k - 1])
      BY <1>2, <3>1 DEF NextId
    <3>3. CASE k - 1 = i
      <4>1. Ids(blocks[i]) = 1
        BY DEF Ids
      <4>2. IdOf(blocks, k) = IdOf(blocks, i) + 1
        BY <3>2, <3>3, <4>1
      <4>3. IdOf(blocks, i) < IdOf(blocks, k)
        BY <1>1, <1>2, <4>2
      <4>4. QED
        BY <1>1, <4>3
    <3>4. CASE k - 1 # i
      <4>1. k - 1 > i
        BY <1>1, <2>1, <3>4
      <4>2. IdOf(blocks, i) < IdOf(blocks, k - 1)
        BY <1>4, <4>1
      <4>3. PICK a \in Nat, b \in Nat, c \in Nat :
              a = IdOf(blocks, i) /\ b = IdOf(blocks, k - 1) /\ c = Ids(blocks[k - 1])
        BY <1>1, <1>2, <3>1
      <4>4. a < b + c /\ IdOf(blocks, k) = b + c
        BY <3>2, <4>2, <4>3
      <4>5. QED
        BY <1>1, <4>3, <4>4
    <3>5. QED
      BY <3>3, <3>4
  <2>2. CASE ~(k > i)
    BY <1>1, <2>2
  <2>3. QED
    BY <2>1, <2>2
<1>5. \A k \in 0..n : k \in S
  <2> HIDE DEF S
  <2>1. QED
    BY <1>1, <1>3, <1>4, CountUp
<1>6. QED
  BY <1>1, <1>5

(* No two texts of a package have one id, so that a map holds all of them. *)
LEMMA IdsDiffer ==
  ASSUME NEW R, NEW blocks \in Seq(R), BlocksLaidOut(blocks),
         NEW i \in 1..Len(blocks), blocks[i].kind = "text",
         NEW j \in 1..Len(blocks), blocks[j].kind = "text", IdOf(blocks, i) = IdOf(blocks, j)
  PROVE  i = j
<1>1. IdOf(blocks, i) \in Nat /\ IdOf(blocks, j) \in Nat
  BY IdsCounted
<1>2. ~(i < j) /\ ~(j < i)
  <2>1. i < j => IdOf(blocks, i) < IdOf(blocks, j)
    BY IdsGrow
  <2>2. j < i => IdOf(blocks, j) < IdOf(blocks, i)
    BY IdsGrow
  <2>3. QED
    BY <1>1, <2>1, <2>2
<1>3. i \in Nat /\ j \in Nat
  OBVIOUS
<1>4. QED
  BY <1>2, <1>3

(* What the blocks of a string package are read as.                        *)
LEMMA BlocksParsed ==
  ASSUME NEW R, NEW blocks \in Seq(R), BlocksLaidOut(blocks)
  PROVE  LET read == BlocksFrom(EncodeStrings(blocks), FirstBlock)
         IN  /\ (\A i \in 1..Len(blocks) : blocks[i].kind # "other")
                  => read = TextItems(blocks, Len(blocks))
             /\ (\E i \in 1..Len(blocks) : blocks[i].kind = "other") => Failed \in read
<1> DEFINE s == EncodeStrings(blocks)
           n == Len(blocks)
<1>1. n \in Nat /\ n \in 0..n
  BY LenProperties
<1>2. s \in Seq(Byte)
  BY StringsEncoded
<1>3. PICK from : BlockTable(from, s) /\ \A first : BlocksFrom(s, first) = from[first][1]
  BY <1>2, BlocksTabled
<1>4. ASSUME \A i \in 1..n : blocks[i].kind # "other"
      PROVE  BlocksFrom(s, FirstBlock) = TextItems(blocks, n)
  <2>1. /\ NextId(blocks, n) \in Nat
        /\ from[FirstBlock][1] = TextItems(blocks, n) \cup from[BlockBegin(blocks, n)][NextId(blocks, n)]
    BY <1>1, <1>3, <1>4, BlocksInOrder
  <2>2. IsBlock(s, BlockBegin(blocks, n), EndBlock)
    BY StringsEncoded
  <2>3. BlockBegin(blocks, n) \in 1..Len(s) + 1
    <3>1. BlockBegin(blocks, n) \in Nat /\ BlockBegin(blocks, n) > 0
      BY <1>1, BlockBytesIs
    <3>2. BlockBegin(blocks, n) <= Len(s) /\ Len(s) \in Nat
      <4>1. Within(s, BlockBegin(blocks, n), 1) /\ Len(s) \in Nat
        BY <1>2, <2>2, LenProperties DEF IsBlock
      <4>2. QED
        BY <3>1, <4>1 DEF Within
    <3>3. QED
      BY <3>1, <3>2
  <2>4. from[BlockBegin(blocks, n)][NextId(blocks, n)] = {}
    BY <1>3, <2>1, <2>2, <2>3 DEF BlockTable
  <2>5. QED
    BY <1>3, <2>1, <2>4
<1>5. ASSUME NEW j \in 1..n, blocks[j].kind = "other"
      PROVE  Failed \in BlocksFrom(s, FirstBlock)
  <2> DEFINE S == {i \in 1..n : blocks[i].kind = "other"}
  <2>1. PICK m \in 0..n : m + 1 \in 1..n /\ m + 1 \in S /\ \A i \in 1..m : i \notin S
    <3>1. j \in S
      BY <1>5
    <3> HIDE DEF S
    <3>2. QED
      BY <1>1, <3>1, FirstOf
  <2>2. \A i \in 1..m : blocks[i].kind # "other"
    BY <1>1, <2>1
  <2>3. /\ NextId(blocks, m) \in Nat
        /\ from[FirstBlock][1] = TextItems(blocks, m) \cup from[BlockBegin(blocks, m)][NextId(blocks, m)]
    BY <1>1, <1>3, <2>1, <2>2, BlocksInOrder
  <2>4. PICK k \in 1..n : k = m + 1 /\ blocks[k].kind = "other"
    BY <2>1
  <2>5. k - 1 = m
    BY <2>1, <2>4
  <2>6. BlockBegin(blocks, m) \in 1..Len(s) + 1 /\ Holds(s, BlockBegin(blocks, m), EncodeBlock(blocks[k]))
    <3>1. k \in 1..Len(blocks)
      BY <2>4
    <3>2. /\ BlockBegin(blocks, k - 1) \in 1..Len(s) + 1
          /\ Holds(s, BlockBegin(blocks, k - 1), EncodeBlock(blocks[k]))
      BY <3>1, BlockBegins
    <3>3. QED
      BY <2>5, <3>2
  <2>7. BlockBegin(blocks, m) \in Nat \ {0}
    <3>1. BlockBegin(blocks, m) \in Nat /\ BlockBegin(blocks, m) > 0
      BY <2>1, BlockBytesIs
    <3>2. QED
      BY <3>1
  <2>8. BlockLaidOut(blocks[k])
    BY <2>4 DEF BlocksLaidOut
  <2>9. /\ ~IsBlock(s, BlockBegin(blocks, m), EndBlock) /\ ~IsText(s, BlockBegin(blocks, m))
        /\ ~Skips(s, BlockBegin(blocks, m))
    BY <1>2, <2>4, <2>6, <2>7, <2>8, BlockRead
  <2>10. from[BlockBegin(blocks, m)][NextId(blocks, m)] = {Failed}
    BY <1>3, <2>3, <2>6, <2>9 DEF BlockTable
  <2>11. QED
    BY <1>3, <2>3, <2>10
<1>6. QED
  BY <1>4, <1>5


(* The texts of items by their ids.                                        *)
TextsById(items) ==
  [id \in {b.value.id : b \in items} |-> (CHOOSE b \in items : b.value.id = id).value.text]

(* What a string package is read as, by its blocks.                        *)
LEMMA StringsOfBlocks ==
  ASSUME NEW s, NEW first, HasText(s, StringHeaderLen + 1, 1),
         StringHeaderLen + 1 + TextLen(s, StringHeaderLen + 1, 1) + 1 = first
  PROVE  StringsOf(s) = IF Failed \in BlocksFrom(s, first) THEN Failed
                        ELSE Parsed(TextsById(BlocksFrom(s, first)))
<1> DEFINE at == StringHeaderLen + 1 + TextLen(s, StringHeaderLen + 1, 1) + 1
<1>1. StringsOf(s) = IF ~HasText(s, StringHeaderLen + 1, 1) \/ Failed \in BlocksFrom(s, at) THEN Failed
                     ELSE Parsed(TextsById(BlocksFrom(s, at)))
  BY DEF StringsOf, TextsById
<1> HIDE DEF at
<1>2. at = first
  BY DEF at
<1>3. QED
  BY <1>1, <1>2

(* A string package that is laid out is read as its texts with their ids,  *)
(* and refused if it has a block of another type.                          *)
LEMMA StringsParsed ==
  ASSUME NEW R, NEW blocks \in Seq(R), BlocksLaidOut(blocks)
  PROVE  /\ (\A i \in 1..Len(blocks) : blocks[i].kind # "other")
              => StringsOf(EncodeStrings(blocks)) = Parsed(TextsOf(blocks))
         /\ (\E i \in 1..Len(blocks) : blocks[i].kind = "other")
              => StringsOf(EncodeStrings(blocks)) = Failed
<1> DEFINE s == EncodeStrings(blocks)
           n == Len(blocks)
           read == BlocksFrom(s, FirstBlock)
<1>1. n \in Nat /\ DOMAIN blocks = 1..n
  BY LenProperties
<1>2. StringsOf(s) = IF Failed \in read THEN Failed ELSE Parsed(TextsById(read))
  <2>1. HasText(s, StringHeaderLen + 1, 1) /\ TextLen(s, StringHeaderLen + 1, 1) = 1
    BY StringsEncoded
  <2>2. StringHeaderLen + 1 + 1 + 1 = FirstBlock
    BY HeaderLengths DEF FirstBlock
  <2>3. StringHeaderLen + 1 + TextLen(s, StringHeaderLen + 1, 1) + 1 = FirstBlock
    BY <2>1, <2>2
  <2> HIDE DEF s
  <2>4. QED
    BY <2>1, <2>3, StringsOfBlocks
<1>3. ASSUME \E i \in 1..n : blocks[i].kind = "other" PROVE StringsOf(s) = Failed
  BY <1>2, <1>3, BlocksParsed
<1>4. ASSUME \A i \in 1..n : blocks[i].kind # "other" PROVE StringsOf(s) = Parsed(TextsOf(blocks))
  <2> DEFINE items == TextItems(blocks, n)
             texts == {k \in 1..n : blocks[k].kind = "text"}
  <2>1. read = items
    BY <1>4, BlocksParsed
  <2>2. Failed \notin items
    <3>1. \A i : TextItem(blocks, i).ok = TRUE
      BY DEF TextItem, Parsed
    <3>2. Failed.ok = FALSE
      BY DEF Failed
    <3>3. QED
      BY <3>1, <3>2 DEF TextItems
  <2>3. /\ \A k \in texts : /\ TextItem(blocks, k) \in items
                            /\ TextItem(blocks, k).value.id = IdOf(blocks, k)
                            /\ TextItem(blocks, k).value.text = blocks[k].text
        /\ \A b \in items : \E k \in texts : b = TextItem(blocks, k)
    BY DEF TextItems, TextItem, Parsed
  <2>4. \A k, l \in texts : IdOf(blocks, k) = IdOf(blocks, l) => k = l
    BY IdsDiffer
  <2>5. TextsOf(blocks) = [id \in {IdOf(blocks, k) : k \in texts} |->
                             blocks[CHOOSE k \in texts : IdOf(blocks, k) = id].text]
    BY <1>1 DEF TextsOf
  <2> HIDE DEF items, texts
  <2>6. {b.value.id : b \in items} = {IdOf(blocks, k) : k \in texts}
    BY <2>3
  <2>7. ASSUME NEW id \in {IdOf(blocks, k) : k \in texts}
        PROVE  (CHOOSE b \in items : b.value.id = id).value.text
                 = blocks[CHOOSE k \in texts : IdOf(blocks, k) = id].text
    <3>1. PICK k \in texts : IdOf(blocks, k) = id
      OBVIOUS
    <3>2. (CHOOSE l \in texts : IdOf(blocks, l) = id) = k
      BY <2>4, <3>1
    <3>3. (CHOOSE b \in items : b.value.id = id) = TextItem(blocks, k)
      <4> DEFINE b == CHOOSE b \in items : b.value.id = id
      <4>1. b \in items /\ b.value.id = id
        BY <2>3, <3>1
      <4> HIDE DEF b
      <4>2. PICK l \in texts : b = TextItem(blocks, l)
        BY <2>3, <4>1
      <4>3. l = k
        BY <2>3, <2>4, <3>1, <4>1, <4>2
      <4>4. QED
        BY <4>2, <4>3 DEF b
    <3>4. QED
      BY <2>3, <3>1, <3>2, <3>3
  <2>8. TextsById(items) = TextsOf(blocks)
    <3> DEFINE byItem(id) == (CHOOSE b \in items : b.value.id = id).value.text
               byBlock(id) == blocks[CHOOSE k \in texts : IdOf(blocks, k) = id].text
               ids == {IdOf(blocks, k) : k \in texts}
    <3>1. TextsById(items) = [id \in ids |-> byItem(id)]
      BY <2>6 DEF TextsById
    <3>2. TextsOf(blocks) = [id \in ids |-> byBlock(id)]
      BY <2>5
    <3>3. \A id \in ids : byItem(id) = byBlock(id)
      BY <2>7
    <3> HIDE DEF byItem, byBlock, ids
    <3>4. QED
      BY <3>1, <3>2, <3>3
  <2> HIDE DEF read, s
  <2>9. QED
    BY <1>2, <2>1, <2>2, <2>8
<1>5. QED
  BY <1>3, <1>4

-----------------------------------------------------------------------------
(* WHAT IS LAID OUT CAN BE READ                                            *)

LEMMA RangeIs ==
  ASSUME NEW s, s \in Seq(Range(s))
  PROVE  /\ Len(s) \in Nat /\ DOMAIN s = 1..Len(s)
         /\ \A x : x \in Range(s) <=> \E i \in 1..Len(s) : x = s[i]
<1>1. Len(s) \in Nat /\ DOMAIN s = 1..Len(s)
  BY LenProperties
<1>2. QED
  BY <1>1 DEF Range

LEMMA LaidOutPackage ==
  ASSUME NEW package, PackageLaidOut(package)
  PROVE  /\ Encodable(package) /\ package.type # End
         /\ package.type = Strings =>
              package.blocks \in Seq(Range(package.blocks)) /\ BlocksLaidOut(package.blocks)
<1>1. /\ package.type \in Byte \ {End}
      /\ LengthFits(package, Len(EncodePackage(package)), PackageHeaderLen, PackageLengthLen)
  BY DEF PackageLaidOut
<1>2. ASSUME package.type = Strings
      PROVE  package.blocks \in Seq(Range(package.blocks)) /\ BlocksLaidOut(package.blocks)
  <2>1. /\ package.blocks \in Seq(Range(package.blocks))
        /\ \A b \in Range(package.blocks) : BlockLaidOut(b)
    BY <1>2 DEF PackageLaidOut
  <2>2. QED
    BY <2>1, RangeIs DEF BlocksLaidOut
<1>3. PackageData(package) \in Seq(Byte)
  <2>1. CASE package.type = Strings
    <3>1. EncodeStrings(package.blocks) \in Seq(Byte)
      BY <1>2, <2>1, StringsEncoded
    <3>2. QED
      BY <2>1, <3>1 DEF PackageData
  <2>2. CASE package.type # Strings
    BY <2>2 DEF PackageLaidOut, PackageData
  <2>3. QED
    BY <2>1, <2>2
<1>4. QED
  BY <1>1, <1>2, <1>3 DEF Encodable

LEMMA LaidOutList ==
  ASSUME NEW list, ListLaidOut(list)
  PROVE  /\ list.packages \in Seq(Range(list.packages)) /\ list.padding \in Seq(Byte)
         /\ PackagesEncodable(list.packages)
         /\ \A i \in 1..Len(list.packages) : PackageLaidOut(list.packages[i])
         /\ ListEncodable(list)
<1>1. /\ list.guid \in Seq(Byte) /\ Len(list.guid) = GuidLen
      /\ list.padding \in Seq(Byte)
      /\ list.packages \in Seq(Range(list.packages))
      /\ \A package \in Range(list.packages) : PackageLaidOut(package)
      /\ LengthFits(list, Len(EncodeList(list)), ListHeaderLen, ListLengthLen)
  BY DEF ListLaidOut
<1>2. \A i \in 1..Len(list.packages) : PackageLaidOut(list.packages[i])
  BY <1>1, RangeIs
<1>3. PackagesEncodable(list.packages)
  BY <1>2, LaidOutPackage DEF PackagesEncodable
<1>4. ListData(list) \in Seq(Byte)
  BY <1>1, <1>3, PackageBegins DEF ListData
<1>5. QED
  BY <1>1, <1>2, <1>3, <1>4 DEF ListEncodable

(* All a database that is laid out provides for.                           *)
LEMMA LaidOutDb ==
  ASSUME NEW db, LaidOut(db)
  PROVE  /\ Roomy /\ db \in Seq(Range(db)) /\ ListsEncodable(db)
         /\ \A i \in 1..Len(db) :
              /\ ListLaidOut(db[i])
              /\ Len(ListData(db[i])) + PackageHeaderLen <= Greatest(ListLengthLen)
         /\ Len(EncodeDb(db)) \in Nat
         /\ Len(EncodeDb(db)) + ListHeaderLen <= Greatest(ListLengthLen)
<1>1. /\ db \in Seq(Range(db)) /\ \A list \in Range(db) : ListLaidOut(list)
      /\ Len(EncodeDb(db)) + ListHeaderLen + PackageHeaderLen <= Greatest(ListLengthLen)
  BY DEF LaidOut
<1>2. \A i \in 1..Len(db) : ListLaidOut(db[i])
  BY <1>1, RangeIs
<1>3. ListsEncodable(db)
  BY <1>2, LaidOutList DEF ListsEncodable
<1>4. EncodeDb(db) \in Seq(Byte)
  BY <1>1, <1>3, ListBegins
<1>5. PICK n \in Nat, h \in Nat, p \in Nat, g \in Nat :
        n = Len(EncodeDb(db)) /\ h = ListHeaderLen /\ p = PackageHeaderLen
        /\ g = Greatest(ListLengthLen) /\ n + h + p <= g
  BY <1>1, <1>4, LenProperties, HeaderLengths, GreatestTyped
<1>6. Roomy
  <2>1. h + p <= g
    BY <1>5
  <2>2. QED
    BY <1>5, <2>1 DEF Roomy
<1>7. n + h <= g
  BY <1>5
<1>8. ASSUME NEW i \in 1..Len(db)
      PROVE  Len(ListData(db[i])) + PackageHeaderLen <= Greatest(ListLengthLen)
  <2>1. ListEncodable(db[i])
    BY <1>3 DEF ListsEncodable
  <2>2. PICK l \in Nat : l = Len(ListData(db[i]))
    BY <2>1, LenProperties DEF ListEncodable
  <2>3. Len(EncodeList(db[i])) = h + l
    BY <1>5, <2>1, <2>2, ListEncoded
  <2>4. Holds(EncodeDb(db), ListBegin(db, i - 1), EncodeList(db[i]))
    BY <1>1, <1>3, ListBegins
  <2>5. PICK at \in Nat : at = ListBegin(db, i - 1) /\ at > 0
    <3>1. i - 1 \in 0..Len(db)
      BY <1>1, LenProperties
    <3>2. QED
      BY <1>1, <1>3, <3>1, ListBegins
  <2>6. at + (h + l) - 1 <= n
    BY <1>5, <2>3, <2>4, <2>5 DEF Holds
  <2>7. l + p <= g
    BY <1>5, <2>5, <2>6
  <2>8. QED
    BY <1>5, <2>2, <2>7
<1>9. QED
  BY <1>1, <1>2, <1>3, <1>5, <1>6, <1>7, <1>8

(* A database that is laid out is so up to any of its lists.               *)
LEMMA LaidOutPrefix ==
  ASSUME NEW db, LaidOut(db), NEW k \in 0..Len(db)
  PROVE  LaidOut(SubSeq(db, 1, k))
<1> DEFINE R == Range(db)
           part == SubSeq(db, 1, k)
<1>1. /\ db \in Seq(R) /\ ListsEncodable(db) /\ \A i \in 1..Len(db) : ListLaidOut(db[i])
      /\ Len(db) \in Nat /\ Len(EncodeDb(db)) \in Nat
  BY LaidOutDb, LenProperties
<1>2. part \in Seq(R) /\ Len(part) = k /\ \A i \in 1..k : part[i] = db[i]
  <2> HIDE DEF R
  <2>1. CASE k = 0
    <3>1. part = <<>>
      BY <1>1, <2>1
    <3>2. QED
      BY <2>1, <3>1
  <2>2. CASE k # 0
    <3>1. 1 \in 1..Len(db) /\ k \in 1..Len(db)
      BY <1>1, <2>2
    <3>2. QED
      BY <1>1, <3>1, SubSeqProperties
  <2>3. QED
    BY <2>1, <2>2
<1> HIDE DEF part
<1>3. part \in Seq(Range(part))
  <2>1. DOMAIN part = 1..k /\ k \in Nat
    BY <1>1, <1>2, LenProperties
  <2>2. \A i \in 1..k : part[i] \in Range(part)
    BY <2>1 DEF Range
  <2>3. part = [i \in 1..k |-> part[i]]
    BY <1>2, <2>1, LenProperties
  <2>4. QED
    BY <1>2, <2>1, <2>2, <2>3, SeqDef
<1>4. \A i \in 1..k : ListLaidOut(part[i])
  BY <1>1, <1>2
<1>5. \A list \in Range(part) : ListLaidOut(list)
  BY <1>2, <1>3, <1>4, RangeIs
<1>6. ListsEncodable(part)
  BY <1>2, <1>4, LaidOutList DEF ListsEncodable
<1>7. \E b \in Seq(Byte) : EncodeDb(part) = b /\ Len(b) <= Len(EncodeDb(db))
  <2> DEFINE bytes == ListBytes(db)
  <2>1. bytes \in Seq(Seq(Byte)) /\ Len(bytes) = Len(db) /\ EncodeDb(db) = FlattenSeq(bytes)
        /\ \A i \in 1..Len(db) : bytes[i] = EncodeList(db[i])
    BY <1>1, ListBytesIs
  <2>2. EncodeDb(part) = UpTo(bytes, k)
    <3>1. ListBytes(part) \in Seq(Seq(Byte)) /\ Len(ListBytes(part)) = k
          /\ EncodeDb(part) = FlattenSeq(ListBytes(part))
          /\ \A i \in 1..k : ListBytes(part)[i] = EncodeList(db[i])
      BY <1>2, <1>6, ListBytesIs
    <3>2. SubSeq(bytes, 1, k) = ListBytes(part)
      <4>1. SubSeq(bytes, 1, k) \in Seq(Seq(Byte)) /\ Len(SubSeq(bytes, 1, k)) = k
            /\ \A i \in 1..k : SubSeq(bytes, 1, k)[i] = bytes[i]
        <5> HIDE DEF bytes
        <5>1. CASE k = 0
          <6>1. SubSeq(bytes, 1, k) = <<>>
            BY <2>1, <5>1
          <6>2. QED
            BY <5>1, <6>1
        <5>2. CASE k # 0
          <6>1. 1 \in 1..Len(bytes) /\ k \in 1..Len(bytes)
            BY <1>1, <2>1, <5>2
          <6>2. QED
            BY <2>1, <6>1, SubSeqProperties
        <5>3. QED
          BY <5>1, <5>2
      <4>2. \A i \in 1..k : SubSeq(bytes, 1, k)[i] = ListBytes(part)[i]
        BY <1>1, <2>1, <3>1, <4>1
      <4> HIDE DEF bytes
      <4>3. QED
        BY <3>1, <4>1, <4>2, SeqEqual
    <3>3. QED
      BY <3>1, <3>2 DEF UpTo
  <2> HIDE DEF bytes
  <2>3. Holds(FlattenSeq(bytes), 1, UpTo(bytes, k)) /\ UpTo(bytes, k) \in Seq(Byte)
    BY <2>1, UpToHeld, UpToSteps
  <2>4. PICK l \in Nat : l = Len(UpTo(bytes, k))
    BY <2>3, LenProperties
  <2>5. PICK n \in Nat : n = Len(EncodeDb(db)) /\ 1 + l - 1 <= n
    BY <1>1, <2>1, <2>3, <2>4 DEF Holds
  <2>6. l <= n
    BY <2>5
  <2>7. QED
    BY <2>2, <2>3, <2>4, <2>5, <2>6
<1>8. Len(EncodeDb(part)) + ListHeaderLen + PackageHeaderLen <= Greatest(ListLengthLen)
  <2>1. PICK l \in Nat, n \in Nat : l = Len(EncodeDb(part)) /\ n = Len(EncodeDb(db)) /\ l <= n
    BY <1>1, <1>7, LenProperties
  <2>2. PICK h \in Nat, p \in Nat, g \in Nat :
          h = ListHeaderLen /\ p = PackageHeaderLen /\ g = Greatest(ListLengthLen)
    BY HeaderLengths, GreatestTyped
  <2>3. n + h + p <= g
    BY <2>1, <2>2 DEF LaidOut
  <2>4. l + h + p <= g
    BY <2>1, <2>2, <2>3
  <2>5. QED
    BY <2>1, <2>2, <2>4
<1>9. QED
  BY <1>3, <1>5, <1>8 DEF LaidOut, part

-----------------------------------------------------------------------------
(* PACKAGES OF A TYPE                                                      *)

(* The packages of the type among the first i.                             *)
Gathers(f, ps, type, R) ==
  /\ f \in [0..Len(ps) -> Seq(R)] /\ f[0] = <<>> /\ OfType(ps, type) = f[Len(ps)]
  /\ \A i \in 1..Len(ps) :
       f[i] = IF ps[i].type = type THEN Append(f[i - 1], ps[i]) ELSE f[i - 1]

(* The packages of a type are gathered one by one.                         *)
LEMMA OfTypeSteps ==
  ASSUME NEW R, NEW ps \in Seq(R), NEW type
  PROVE  \E f : Gathers(f, ps, type, R)
<1> DEFINE n == Len(ps)
           Body(i, f) == IF i = 0 THEN <<>>
                         ELSE IF ps[i].type = type THEN Append(f[i - 1], ps[i])
                         ELSE f[i - 1]
           Collects(f) == f = [i \in 0..n |-> Body(i, f)]
           Next(i, v) == IF ps[i].type = type THEN Append(v, ps[i]) ELSE v
           step == [x \in (2..n + 1) \X Seq(R) |-> Next(x[1] - 1, x[2])]
<1>1. n \in Nat /\ \A i \in 1..n : ps[i] \in R
  BY LenProperties
<1>2. ASSUME NEW i \in 1..n, NEW v \in Seq(R) PROVE Next(i, v) \in Seq(R)
  BY <1>1, <1>2
<1>3. step \in [(2..n + 1) \X Seq(R) -> Seq(R)]
  <2>1. \A x \in (2..n + 1) \X Seq(R) : x[1] - 1 \in 1..n /\ x[2] \in Seq(R)
    BY <1>1
  <2> HIDE DEF Next
  <2>2. \A x \in (2..n + 1) \X Seq(R) : Next(x[1] - 1, x[2]) \in Seq(R)
    BY <1>2, <2>1
  <2>3. QED
    BY <2>2
<1>4. PICK g : Stepped(g, Seq(R), n + 1, <<>>, step)
  <2>1. <<>> \in Seq(R) /\ n + 1 \in Nat /\ n + 1 > 0
    BY <1>1, EmptySeq
  <2> HIDE DEF step, n
  <2>2. QED
    BY <1>3, <2>1, StepByStep
<1>5. /\ g \in [1..n + 1 -> Seq(R)] /\ g[1] = <<>>
      /\ \A j \in 2..n + 1 : g[j] = step[<<j, g[j - 1]>>]
  BY <1>4 DEF Stepped
<1> DEFINE f == [i \in 0..n |-> g[i + 1]]
<1>6. f \in [0..n -> Seq(R)] /\ f[0] = <<>>
  BY <1>1, <1>5
<1>7. ASSUME NEW i \in 1..n PROVE f[i] = Next(i, f[i - 1])
  <2>1. i + 1 \in 2..n + 1 /\ (i + 1) - 1 = i /\ i \in 1..n + 1 /\ i - 1 \in 0..n /\ (i - 1) + 1 = i
    BY <1>1
  <2>2. f[i] = g[i + 1] /\ f[i - 1] = g[i]
    BY <2>1
  <2>3. g[i + 1] = step[<<i + 1, g[i]>>] /\ g[i] \in Seq(R)
    BY <1>5, <2>1
  <2>4. step[<<i + 1, g[i]>>] = Next(i, g[i])
    <3> HIDE DEF Next
    <3>1. QED
      BY <2>1, <2>3
  <2> HIDE DEF f, step, Next
  <2>5. QED
    BY <2>2, <2>3, <2>4
<1> HIDE DEF f
<1>8. f = [i \in 0..n |-> Body(i, f)]
  <2>1. \A i \in 0..n : f[i] = Body(i, f)
    <3>1. ASSUME NEW i \in 0..n PROVE f[i] = Body(i, f)
      <4>1. CASE i = 0
        BY <1>6, <4>1
      <4>2. CASE i # 0
        <5>1. i \in 1..n
          BY <1>1, <4>2
        <5>2. QED
          BY <1>7, <4>2, <5>1
      <4>3. QED
        BY <4>1, <4>2
    <3>2. QED
      BY <3>1
  <2> HIDE DEF Body
  <2>2. QED
    BY <1>6, <2>1
<1> DEFINE upTo == CHOOSE h : Collects(h)
<1>9. Collects(upTo)
  <2> HIDE DEF Collects
  <2>1. Collects(f)
    BY <1>8 DEF Collects
  <2>2. QED
    BY <2>1
<1>10. OfType(ps, type) = upTo[n]
  BY DEF OfType
<1> HIDE DEF upTo
<1>11. upTo = f
  <2> DEFINE S == {i \in 0..n : upTo[i] = f[i]}
  <2>1. \A i \in 0..n : upTo[i] = Body(i, upTo) /\ f[i] = Body(i, f)
    <3> HIDE DEF Body
    <3>1. QED
      BY <1>8, <1>9
  <2>2. 0 \in S
    BY <1>1, <2>1
  <2>3. ASSUME NEW i \in 1..n, i - 1 \in S PROVE i \in S
    <3>1. i \in 0..n /\ i # 0 /\ upTo[i - 1] = f[i - 1]
      BY <1>1, <2>3
    <3>2. Body(i, upTo) = Body(i, f)
      BY <3>1
    <3> HIDE DEF Body
    <3>3. QED
      BY <2>1, <3>1, <3>2
  <2>4. \A i \in 0..n : i \in S
    <3> HIDE DEF S, n
    <3>1. QED
      BY <1>1, <2>2, <2>3, CountUp
  <2>5. \A i \in 0..n : upTo[i] = f[i]
    BY <2>4
  <2>6. upTo = [i \in 0..n |-> upTo[i]] /\ f = [i \in 0..n |-> f[i]]
    <3> HIDE DEF Body
    <3>1. QED
      BY <1>8, <1>9
  <2> HIDE DEF n, Collects
  <2>7. QED
    BY <2>5, <2>6
<1>12. QED
  BY <1>6, <1>7, <1>10, <1>11 DEF Gathers

(* They are of that type and in the sequence.                              *)
LEMMA OfTypePicks ==
  ASSUME NEW R, NEW ps \in Seq(R), NEW type
  PROVE  /\ OfType(ps, type) \in Seq(R) /\ Len(OfType(ps, type)) \in Nat
         /\ DOMAIN OfType(ps, type) = 1..Len(OfType(ps, type))
         /\ \A i \in 1..Len(OfType(ps, type)) :
              /\ OfType(ps, type)[i].type = type
              /\ \E j \in 1..Len(ps) : OfType(ps, type)[i] = ps[j]
<1> DEFINE n == Len(ps)
           T == {p \in R : p.type = type /\ \E j \in 1..n : p = ps[j]}
<1>1. n \in Nat /\ \A i \in 1..n : ps[i] \in R
  BY LenProperties
<1>. PICK f : Gathers(f, ps, type, R)
  BY OfTypeSteps
<1>2. /\ f[0] = <<>> /\ OfType(ps, type) = f[n]
      /\ \A i \in 1..n : f[i] = IF ps[i].type = type THEN Append(f[i - 1], ps[i]) ELSE f[i - 1]
  BY DEF Gathers
<1> DEFINE S == {i \in 0..n : f[i] \in Seq(T)}
<1>3. 0 \in S
  <2>1. <<>> \in Seq(T)
    <3> HIDE DEF T
    <3>1. QED
      BY EmptySeq
  <2> HIDE DEF T, n
  <2>2. 0 \in 0..n /\ f[0] \in Seq(T)
    BY <1>1, <1>2, <2>1
  <2>3. QED
    BY <2>2
<1>4. ASSUME NEW i \in 1..n, i - 1 \in S PROVE i \in S
  <2>1. i \in 0..n /\ f[i - 1] \in Seq(T)
    BY <1>1, <1>4
  <2>2. ps[i].type = type => ps[i] \in T
    BY <1>1
  <2> HIDE DEF T
  <2>3. f[i] \in Seq(T)
    BY <1>2, <2>1, <2>2, AppendProperties
  <2>4. QED
    BY <2>1, <2>3
<1>5. \A i \in 0..n : i \in S
  <2> HIDE DEF S, n
  <2>1. QED
    BY <1>1, <1>3, <1>4, CountUp
<1>6. OfType(ps, type) \in Seq(T)
  <2>1. n \in S
    BY <1>1, <1>5
  <2>2. QED
    BY <1>2, <2>1
<1>7. \A p \in T : p \in R /\ p.type = type /\ \E j \in 1..n : p = ps[j]
  OBVIOUS
<1> HIDE DEF T, n
<1>8. /\ Len(OfType(ps, type)) \in Nat /\ DOMAIN OfType(ps, type) = 1..Len(OfType(ps, type))
      /\ \A i \in 1..Len(OfType(ps, type)) : OfType(ps, type)[i] \in T
  BY <1>6, LenProperties
<1>9. OfType(ps, type) \in Seq(R)
  <2> DEFINE a == OfType(ps, type)
  <2>1. \A i \in 1..Len(a) : a[i] \in R
    BY <1>7, <1>8
  <2> HIDE DEF a
  <2>2. a \in Seq(T) /\ Len(a) \in Nat
    BY <1>6, <1>8 DEF a
  <2>3. a = [i \in 1..Len(a) |-> a[i]]
    BY <2>2, LenProperties
  <2>4. a \in [1..Len(a) -> R]
    BY <2>1, <2>3
  <2>5. QED
    BY <2>2, <2>4, SeqDef DEF a
<1>10. QED
  BY <1>7, <1>8, <1>9 DEF n

(* The records of packages, in the same order.                             *)
Recorded(a, b) ==
  Len(a) = Len(b) /\ \A i \in 1..Len(a) : b[i] = PackageRecord(a[i])

LEMMA AppendedLast ==
  ASSUME NEW R, NEW a \in Seq(R), NEW p \in R, NEW n \in Nat, n = Len(a)
  PROVE  /\ Len(Append(a, p)) = n + 1 /\ \A i \in 1..n : Append(a, p)[i] = a[i]
         /\ Append(a, p)[n + 1] = p
  BY AppendProperties

LEMMA AppendRecorded ==
  ASSUME NEW R, NEW a \in Seq(R), NEW p \in R, NEW Q, NEW b \in Seq(Q), PackageRecord(p) \in Q,
         Recorded(a, b)
  PROVE  Recorded(Append(a, p), Append(b, PackageRecord(p)))
<1>1. PICK q \in Q : q = PackageRecord(p)
  OBVIOUS
<1>2. PICK n \in Nat : n = Len(a) /\ n = Len(b) /\ \A i \in 1..n : b[i] = PackageRecord(a[i])
  BY LenProperties DEF Recorded
<1>3. /\ Len(Append(a, p)) = n + 1 /\ \A i \in 1..n : Append(a, p)[i] = a[i]
      /\ Append(a, p)[n + 1] = p
  <2>1. n \in Nat /\ n = Len(a)
    BY <1>2
  <2>2. QED
    BY <2>1, AppendedLast
<1>4. /\ Len(Append(b, q)) = n + 1 /\ \A i \in 1..n : Append(b, q)[i] = b[i]
      /\ Append(b, q)[n + 1] = q
  BY <1>2, AppendedLast
<1>5. \A i \in 1..n + 1 : i \in 1..n \/ i = n + 1
  BY <1>2
<1>6. QED
  BY <1>1, <1>2, <1>3, <1>4, <1>5 DEF Recorded

LEMMA OfTypeRecorded ==
  ASSUME NEW R, NEW ps \in Seq(R), NEW Q, NEW recs \in Seq(Q), Recorded(ps, recs), NEW type
  PROVE  Recorded(OfType(ps, type), OfType(recs, type))
<1> DEFINE n == Len(ps)
<1>1. n \in Nat /\ Len(recs) = n
      /\ \A i \in 1..n : ps[i] \in R /\ recs[i] \in Q /\ recs[i] = PackageRecord(ps[i])
  BY LenProperties DEF Recorded
<1>. PICK f : Gathers(f, ps, type, R)
  BY OfTypeSteps
<1>. PICK g : Gathers(g, recs, type, Q)
  BY OfTypeSteps
<1>2. /\ f \in [0..n -> Seq(R)] /\ f[0] = <<>> /\ OfType(ps, type) = f[n]
      /\ \A i \in 1..n : f[i] = IF ps[i].type = type THEN Append(f[i - 1], ps[i]) ELSE f[i - 1]
  BY DEF Gathers
<1>3. /\ g \in [0..n -> Seq(Q)] /\ g[0] = <<>> /\ OfType(recs, type) = g[n]
      /\ \A i \in 1..n : g[i] = IF recs[i].type = type THEN Append(g[i - 1], recs[i]) ELSE g[i - 1]
  <2> HIDE DEF n
  <2>1. QED
    BY <1>1 DEF Gathers
<1> DEFINE S == {i \in 0..n : Recorded(f[i], g[i])}
<1> HIDE DEF n
<1>4. 0 \in S
  <2>1. Recorded(<<>>, <<>>)
    BY EmptySeq DEF Recorded
  <2>2. QED
    BY <1>1, <1>2, <1>3, <2>1
<1>5. ASSUME NEW i \in 1..n, i - 1 \in S PROVE i \in S
  <2>1. i \in 0..n /\ i - 1 \in 0..n /\ Recorded(f[i - 1], g[i - 1])
    BY <1>1, <1>5
  <2>2. PICK a \in Seq(R), b \in Seq(Q), p \in R :
          a = f[i - 1] /\ b = g[i - 1] /\ p = ps[i] /\ recs[i] = PackageRecord(p)
          /\ PackageRecord(p) \in Q
    BY <1>1, <1>2, <1>3, <2>1
  <2>3. recs[i].type = p.type
    BY <2>2 DEF PackageRecord
  <2>4. CASE p.type = type
    <3>1. f[i] = Append(a, p) /\ g[i] = Append(b, PackageRecord(p))
      BY <1>2, <1>3, <2>2, <2>3, <2>4
    <3>2. Recorded(Append(a, p), Append(b, PackageRecord(p)))
      BY <2>1, <2>2, AppendRecorded
    <3>3. QED
      BY <2>1, <3>1, <3>2
  <2>5. CASE p.type # type
    BY <1>2, <1>3, <2>1, <2>2, <2>3, <2>5
  <2>6. QED
    BY <2>4, <2>5
<1>6. \A i \in 0..n : i \in S
  <2> HIDE DEF S
  <2>1. QED
    BY <1>1, <1>4, <1>5, CountUp
<1>7. QED
  BY <1>1, <1>2, <1>3, <1>6

-----------------------------------------------------------------------------
(* WHAT A LIST IS READ AS                                                  *)

PackageSound(package) ==
  /\ ~Lies(package)
  /\ package.type = Strings => \A b \in Range(package.blocks) : b.kind # "other"
  /\ package.type = Form => FormOf(package.data).ok

(* A string package that is laid out is read as its texts, or refused for  *)
(* a block the code does not know.                                         *)
LEMMA ContentsParsed ==
  ASSUME NEW package, PackageLaidOut(package)
  PROVE  LET contents == Contents(PackageRecord(package))
         IN  /\ package.type = Strings /\ (\A b \in Range(package.blocks) : b.kind # "other")
                  => contents = Parsed(TextsOf(package.blocks))
             /\ package.type = Strings /\ ~(\A b \in Range(package.blocks) : b.kind # "other")
                  => contents = Failed
             /\ package.type = Form => contents = FormOf(package.data)
<1>1. CASE package.type = Strings
  <2>1. package.blocks \in Seq(Range(package.blocks)) /\ BlocksLaidOut(package.blocks)
    BY <1>1, LaidOutPackage
  <2>2. Contents(PackageRecord(package)) = StringsOf(EncodeStrings(package.blocks))
    BY <1>1 DEF Contents, PackageRecord, PackageData
  <2>3. \A x : x \in Range(package.blocks) <=> \E i \in 1..Len(package.blocks) : x = package.blocks[i]
    BY <2>1, RangeIs
  <2>4. package.type # Form
    BY <1>1 DEF Strings, Form
  <2>5. CASE \A b \in Range(package.blocks) : b.kind # "other"
    <3>1. \A i \in 1..Len(package.blocks) : package.blocks[i].kind # "other"
      BY <2>3, <2>5
    <3>2. StringsOf(EncodeStrings(package.blocks)) = Parsed(TextsOf(package.blocks))
      BY <2>1, <3>1, StringsParsed
    <3>3. QED
      BY <2>2, <2>4, <2>5, <3>2
  <2>6. CASE ~(\A b \in Range(package.blocks) : b.kind # "other")
    <3>1. \E i \in 1..Len(package.blocks) : package.blocks[i].kind = "other"
      BY <2>3, <2>6
    <3>2. StringsOf(EncodeStrings(package.blocks)) = Failed
      BY <2>1, <3>1, StringsParsed
    <3>3. QED
      BY <2>2, <2>4, <2>6, <3>2
  <2>7. QED
    BY <2>5, <2>6
<1>2. CASE package.type = Form
  <2>1. package.type # Strings
    BY <1>2 DEF Strings, Form
  <2>2. QED
    BY <1>2, <2>1 DEF Contents, PackageRecord, PackageData
<1>3. QED
  BY <1>1, <1>2

(* It is an error of the whole that a package cannot be read, as           *)
(* WellFormed has it.                                                      *)
LEMMA SoundPackage ==
  ASSUME NEW package, PackageLaidOut(package), ~Lies(package)
  PROVE  LET rec == PackageRecord(package)
         IN  rec.ok /\ (Interesting(rec) => Contents(rec).ok) <=> PackageSound(package)
<1> DEFINE rec == PackageRecord(package)
<1>1. rec.ok = TRUE /\ rec.type = package.type
  BY DEF PackageRecord
<1>2. Interesting(rec) <=> package.type = Form \/ package.type = Strings
  BY <1>1 DEF Interesting
<1>3. Failed.ok = FALSE /\ Parsed(TextsOf(package.blocks)).ok = TRUE
  BY DEF Failed, Parsed
<1> DEFINE contents == Contents(rec)
           plain == \A b \in Range(package.blocks) : b.kind # "other"
<1>4. /\ package.type = Strings /\ plain => contents = Parsed(TextsOf(package.blocks))
      /\ package.type = Strings /\ ~plain => contents = Failed
      /\ package.type = Form => contents = FormOf(package.data)
  BY ContentsParsed
<1>5. PackageSound(package) <=> /\ package.type = Strings => plain
                                /\ package.type = Form => FormOf(package.data).ok
  BY DEF PackageSound
<1> HIDE DEF rec, contents, plain
<1>6. CASE package.type = Strings
  <2>1. package.type # Form
    BY <1>6 DEF Strings, Form
  <2>2. contents.ok <=> plain
    BY <1>3, <1>4, <1>6
  <2>3. QED
    BY <1>1, <1>2, <1>5, <1>6, <2>1, <2>2 DEF contents, rec
<1>7. CASE package.type = Form
  <2>1. package.type # Strings
    BY <1>7 DEF Strings, Form
  <2>2. contents.ok <=> FormOf(package.data).ok
    BY <1>4, <1>7
  <2>3. QED
    BY <1>1, <1>2, <1>5, <1>7, <2>1, <2>2 DEF contents, rec
<1>8. CASE package.type # Strings /\ package.type # Form
  BY <1>1, <1>2, <1>5, <1>8 DEF contents, rec
<1>9. QED
  BY <1>6, <1>7, <1>8

ListSound(list) == \A i \in 1..Len(list.packages) : PackageSound(list.packages[i])

(* So for a package list: its packages are sound, and none is missed.      *)
LEMMA SoundList ==
  ASSUME Roomy, NEW list, ListLaidOut(list),
         Len(ListData(list)) + PackageHeaderLen <= Greatest(ListLengthLen)
  PROVE  Sound(ListRecord(list)) <=> ListSound(list)
<1> DEFINE ps == list.packages
           n == Len(ps)
           found == Packages(ListData(list))
           Good(package) == package.ok /\ (Interesting(package) => Contents(package).ok)
<1>1. /\ ps \in Seq(Range(ps)) /\ list.padding \in Seq(Byte) /\ PackagesEncodable(ps)
      /\ \A i \in 1..n : PackageLaidOut(ps[i])
  BY LaidOutList
<1>2. Sound(ListRecord(list)) <=> \A package \in Range(found) : Good(package)
  <2>1. ListRecord(list).ok = TRUE /\ ListRecord(list).data = ListData(list)
    BY DEF ListRecord
  <2>2. QED
    BY <2>1 DEF Sound
<1>3. CASE \E j \in 1..n : Lies(ps[j])
  <2>1. PICK j \in 1..n : Lies(ps[j])
    BY <1>3
  <2>2. ~ListSound(list)
    BY <2>1 DEF ListSound, PackageSound
  <2>3. PICK i \in DOMAIN found : found[i] = Unreadable
    BY <1>1, <2>1, PackagesRefused DEF ListData
  <2>4. Unreadable \in Range(found) /\ Unreadable.ok = FALSE
    BY <2>3 DEF Range, Unreadable
  <2> HIDE DEF found
  <2>5. ~Sound(ListRecord(list))
    BY <1>2, <2>4
  <2>6. QED
    BY <2>2, <2>5
<1>4. CASE \A i \in 1..n : ~Lies(ps[i])
  <2>1. found = [i \in 1..n |-> PackageRecord(ps[i])]
    BY <1>1, <1>4, PackagesParsed DEF ListData
  <2>2. \A x : x \in Range(found) <=> \E i \in 1..n : x = PackageRecord(ps[i])
    <3> HIDE DEF found
    <3>1. QED
      BY <2>1 DEF Range
  <2>3. \A i \in 1..n : Good(PackageRecord(ps[i])) <=> PackageSound(ps[i])
    BY <1>1, <1>4, SoundPackage
  <2> HIDE DEF found, Good
  <2>4. QED
    BY <1>2, <2>2, <2>3 DEF ListSound
<1>5. QED
  BY <1>3, <1>4

(* The packages of each type, as they are kept.                            *)
LEMMA KeptList ==
  ASSUME Roomy, NEW list, ListLaidOut(list), ListSound(list)
  PROVE  LET of(type) == OfType(list.packages, type)
         IN  /\ Kept(ListRecord(list), Strings)
                  = [i \in DOMAIN of(Strings) |-> TextsOf(of(Strings)[i].blocks)]
             /\ Kept(ListRecord(list), Form)
                  = [i \in DOMAIN of(Form) |-> FormOf(of(Form)[i].data).value]
<1> DEFINE ps == list.packages
           n == Len(ps)
           found == Packages(ListData(list))
<1>1. /\ ps \in Seq(Range(ps)) /\ list.padding \in Seq(Byte) /\ PackagesEncodable(ps)
      /\ \A i \in 1..n : PackageLaidOut(ps[i])
      /\ \A i \in 1..n : PackageSound(ps[i]) /\ ~Lies(ps[i])
  BY LaidOutList DEF ListSound, PackageSound
<1>2. n \in Nat
  BY <1>1, LenProperties
<1>3. found = [i \in 1..n |-> PackageRecord(ps[i])]
  BY <1>1, PackagesParsed DEF ListData
<1> DEFINE Q == {PackageRecord(ps[i]) : i \in 1..n}
<1>4. found \in Seq(Q) /\ Len(found) = n
  <2>1. found \in [1..n -> Q]
    BY <1>3
  <2> HIDE DEF found, Q, n
  <2>2. found \in Seq(Q)
    BY <1>2, <2>1, SeqDef
  <2>3. QED
    BY <1>2, <2>1, <2>2, LenProperties
<1> HIDE DEF Q
<1>5. Recorded(ps, found)
  <2>1. \A i \in 1..n : found[i] = PackageRecord(ps[i])
    BY <1>3
  <2> HIDE DEF found
  <2>2. QED
    BY <1>4, <2>1 DEF Recorded
<1> HIDE DEF found
<1>6. ASSUME NEW type, type \in {Form, Strings}
      PROVE  /\ Kept(ListRecord(list), type)
                  = [i \in 1..Len(OfType(ps, type)) |->
                       Contents(PackageRecord(OfType(ps, type)[i])).value]
             /\ DOMAIN OfType(ps, type) = 1..Len(OfType(ps, type))
             /\ \A i \in 1..Len(OfType(ps, type)) :
                  /\ OfType(ps, type)[i].type = type /\ PackageLaidOut(OfType(ps, type)[i])
                  /\ PackageSound(OfType(ps, type)[i])
  <2> DEFINE a == OfType(ps, type)
             b == OfType(found, type)
  <2>1. Recorded(a, b)
    <3> HIDE DEF ps
    <3>1. QED
      BY <1>1, <1>4, <1>5, OfTypeRecorded
  <2>2. Len(b) \in Nat /\ DOMAIN b = 1..Len(b)
    BY <1>4, OfTypePicks
  <2>3. /\ Len(a) \in Nat /\ DOMAIN a = 1..Len(a)
        /\ \A i \in 1..Len(a) : a[i].type = type /\ \E j \in 1..n : a[i] = ps[j]
    <3> HIDE DEF ps
    <3>1. QED
      BY <1>1, OfTypePicks
  <2>4. Kept(ListRecord(list), type) = [i \in DOMAIN b |-> Contents(b[i]).value]
    <3>1. ListRecord(list).data = ListData(list)
      BY DEF ListRecord
    <3>2. OfType(Packages(ListRecord(list).data), type) = b
      BY <3>1 DEF found
    <3> HIDE DEF b
    <3>3. QED
      BY <3>2 DEF Kept
  <2>5. \A i \in 1..Len(a) : PackageLaidOut(a[i]) /\ PackageSound(a[i])
    BY <1>1, <2>3
  <2> HIDE DEF a, b
  <2>6. DOMAIN b = 1..Len(a) /\ \A i \in 1..Len(a) : b[i] = PackageRecord(a[i])
    BY <2>1, <2>2 DEF Recorded
  <2>7. [i \in DOMAIN b |-> Contents(b[i]).value]
          = [i \in 1..Len(a) |-> Contents(PackageRecord(a[i])).value]
    BY <2>6
  <2>8. QED
    BY <2>3, <2>4, <2>5, <2>7 DEF a
<1>7. ASSUME NEW package, PackageLaidOut(package), PackageSound(package)
      PROVE  /\ package.type = Strings =>
                  Contents(PackageRecord(package)).value = TextsOf(package.blocks)
             /\ package.type = Form =>
                  Contents(PackageRecord(package)).value = FormOf(package.data).value
  <2>1. Parsed(TextsOf(package.blocks)).value = TextsOf(package.blocks)
    BY DEF Parsed
  <2>2. QED
    BY <1>7, <2>1, ContentsParsed DEF PackageSound
<1>8. Kept(ListRecord(list), Strings)
        = [i \in DOMAIN OfType(ps, Strings) |-> TextsOf(OfType(ps, Strings)[i].blocks)]
  <2> DEFINE a == OfType(ps, Strings)
  <2>1. /\ Kept(ListRecord(list), Strings)
             = [i \in 1..Len(a) |-> Contents(PackageRecord(a[i])).value]
        /\ DOMAIN a = 1..Len(a)
        /\ \A i \in 1..Len(a) : a[i].type = Strings /\ PackageLaidOut(a[i]) /\ PackageSound(a[i])
    BY <1>6
  <2> HIDE DEF a, ps
  <2>2. \A i \in 1..Len(a) : Contents(PackageRecord(a[i])).value = TextsOf(a[i].blocks)
    BY <1>7, <2>1
  <2>3. Kept(ListRecord(list), Strings) = [i \in DOMAIN a |-> TextsOf(a[i].blocks)]
    BY <2>1, <2>2
  <2>4. QED
    BY <2>3 DEF a
<1>9. Kept(ListRecord(list), Form)
        = [i \in DOMAIN OfType(ps, Form) |-> FormOf(OfType(ps, Form)[i].data).value]
  <2> DEFINE a == OfType(ps, Form)
  <2>1. /\ Kept(ListRecord(list), Form)
             = [i \in 1..Len(a) |-> Contents(PackageRecord(a[i])).value]
        /\ DOMAIN a = 1..Len(a)
        /\ \A i \in 1..Len(a) : a[i].type = Form /\ PackageLaidOut(a[i]) /\ PackageSound(a[i])
    BY <1>6
  <2> HIDE DEF a, ps
  <2>2. \A i \in 1..Len(a) : Contents(PackageRecord(a[i])).value = FormOf(a[i].data).value
    BY <1>7, <2>1
  <2>3. Kept(ListRecord(list), Form) = [i \in DOMAIN a |-> FormOf(a[i].data).value]
    BY <2>1, <2>2
  <2>4. QED
    BY <2>3 DEF a
<1>10. QED
  BY <1>8, <1>9

-----------------------------------------------------------------------------
(* WHAT A DATABASE IS READ AS                                              *)

(* What read_db's maps hold for a GUID: of the lists that have it, the     *)
(* packages of the last with packages of the type.                         *)
GuidsWith(db, type) ==
  {list.guid : list \in {l \in Range(db) : OfType(l.packages, type) # <<>>}}

PackagesOf(db, guid, type) ==
  LET last == CHOOSE i \in DOMAIN db :
                /\ db[i].guid = guid /\ OfType(db[i].packages, type) # <<>>
                /\ \A j \in (i + 1)..Len(db) :
                     db[j].guid # guid \/ OfType(db[j].packages, type) = <<>>
  IN  OfType(db[last].packages, type)

GuidStrings(db, guid) ==
  [i \in DOMAIN PackagesOf(db, guid, Strings) |->
     TextsOf(PackagesOf(db, guid, Strings)[i].blocks)]

GuidPrompt(db, guid, id) ==
  LET maps == GuidStrings(db, guid)
      with == {i \in DOMAIN maps : id \in DOMAIN maps[i]}
  IN  IF with = {} THEN <<>> ELSE maps[CHOOSE i \in with : \A j \in with : i <= j][id]

(* The lists with a GUID that have packages of a type, and the last one.   *)
Having(db, guid, type) ==
  {i \in 1..Len(db) : db[i].guid = guid /\ OfType(db[i].packages, type) # <<>>}

(* Of the lists with a GUID the greatest index is the one that PackagesOf  *)
(* chooses.                                                                *)
LEMMA LastHaving ==
  ASSUME NEW db, db \in Seq(Range(db)), NEW guid, NEW type, Having(db, guid, type) # {}
  PROVE  /\ Max(Having(db, guid, type)) \in Having(db, guid, type)
         /\ PackagesOf(db, guid, type) = OfType(db[Max(Having(db, guid, type))].packages, type)
<1> DEFINE having == Having(db, guid, type)
           n == Len(db)
           IsLast(i) == /\ db[i].guid = guid /\ OfType(db[i].packages, type) # <<>>
                        /\ \A j \in (i + 1)..n :
                             db[j].guid # guid \/ OfType(db[j].packages, type) = <<>>
<1>1. n \in Nat /\ DOMAIN db = 1..n
  BY LenProperties
<1>2. /\ \A i \in 1..n : i \in having <=> db[i].guid = guid /\ OfType(db[i].packages, type) # <<>>
      /\ having \subseteq 1..n /\ having # {}
  BY DEF Having
<1> HIDE DEF having
<1>3. Max(having) \in having /\ \A i \in having : i <= Max(having)
  <2>1. having \in SUBSET (0..n)
    BY <1>1, <1>2
  <2> HIDE DEF n
  <2>2. QED
    BY <1>1, <1>2, <2>1, MaxIsGreatest
<1>4. PICK m \in 1..n : m = Max(having)
  BY <1>2, <1>3
<1>5. IsLast(m)
  <2>1. ASSUME NEW j \in (m + 1)..n
        PROVE  db[j].guid # guid \/ OfType(db[j].packages, type) = <<>>
    <3>1. j \in 1..n /\ ~(j <= m)
      BY <1>1
    <3>2. j \notin having
      BY <1>3, <1>4, <3>1
    <3>3. QED
      BY <1>2, <3>1, <3>2
  <2>2. db[m].guid = guid /\ OfType(db[m].packages, type) # <<>>
    BY <1>2, <1>3, <1>4
  <2>3. QED
    BY <2>1, <2>2
<1>6. ASSUME NEW i \in 1..n, IsLast(i) PROVE i = m
  <2>1. i \in having
    BY <1>2, <1>6
  <2>2. i <= m
    BY <1>3, <1>4, <2>1
  <2>3. ~(m \in (i + 1)..n)
    <3>1. m \in having
      BY <1>3, <1>4
    <3>2. QED
      BY <1>2, <1>6, <3>1
  <2>4. QED
    BY <1>1, <2>2, <2>3
<1> DEFINE last == CHOOSE i \in 1..n : IsLast(i)
<1>7. last = m
  <2> HIDE DEF IsLast, n
  <2>1. QED
    BY <1>5, <1>6
<1>8. PackagesOf(db, guid, type) = OfType(db[last].packages, type)
  BY <1>1 DEF PackagesOf
<1> HIDE DEF last
<1>9. QED
  BY <1>3, <1>4, <1>7, <1>8 DEF having

(* The GUIDs of a map, by lists and by packages.                           *)
LEMMA GuidsHaving ==
  ASSUME NEW db, db \in Seq(Range(db)), NEW type
  PROVE  GuidsWith(db, type)
           = {g \in {db[i].guid : i \in 1..Len(db)} : Having(db, g, type) # {}}
<1>1. \A x : x \in Range(db) <=> \E i \in 1..Len(db) : x = db[i]
  BY RangeIs
<1>2. ASSUME NEW g \in GuidsWith(db, type)
      PROVE  g \in {db[i].guid : i \in 1..Len(db)} /\ Having(db, g, type) # {}
  <2>1. PICK l \in Range(db) : OfType(l.packages, type) # <<>> /\ g = l.guid
    BY DEF GuidsWith
  <2>2. PICK i \in 1..Len(db) : l = db[i]
    BY <1>1, <2>1
  <2>3. i \in Having(db, g, type)
    BY <2>1, <2>2 DEF Having
  <2>4. QED
    BY <2>1, <2>2, <2>3
<1>3. ASSUME NEW g, Having(db, g, type) # {} PROVE g \in GuidsWith(db, type)
  <2>1. PICK i \in 1..Len(db) : db[i].guid = g /\ OfType(db[i].packages, type) # <<>>
    BY <1>3 DEF Having
  <2>2. db[i] \in Range(db)
    BY <1>1
  <2>3. QED
    BY <2>1, <2>2 DEF GuidsWith
<1>4. QED
  BY <1>2, <1>3

DbSound(db) == \A i \in 1..Len(db) : ~Lies(db[i]) /\ ListSound(db[i])

(* WellFormed, list by list and package by package.                        *)
LEMMA WellFormedIsSound ==
  ASSUME NEW db, LaidOut(db)
  PROVE  WellFormed(db) <=> DbSound(db)
<1>1. db \in Seq(Range(db)) /\ \A i \in 1..Len(db) : ListLaidOut(db[i])
  BY LaidOutDb
<1>2. \A x : x \in Range(db) <=> \E i \in 1..Len(db) : x = db[i]
  BY <1>1, RangeIs
<1>3. ASSUME NEW i \in 1..Len(db)
      PROVE  ListSound(db[i]) <=> \A package \in Range(db[i].packages) : PackageSound(package)
  <2>1. db[i].packages \in Seq(Range(db[i].packages))
    BY <1>1, LaidOutList
  <2>2. QED
    BY <2>1, RangeIs DEF ListSound
<1>4. WellFormed(db) <=>
        \A list \in Range(db) :
          ~Lies(list) /\ \A package \in Range(list.packages) : PackageSound(package)
  BY DEF WellFormed, PackageSound
<1>5. QED
  BY <1>2, <1>3, <1>4 DEF DbSound

(* The lists of a type by their GUIDs, given what each is kept as.         *)
LEMMA ByGuidIs ==
  ASSUME NEW db, LaidOut(db), NEW type,
         NEW kept, \A i \in 1..Len(db) : Kept(ListRecord(db[i]), type) = kept[i],
         \A i \in 1..Len(db) : kept[i] # <<>> <=> OfType(db[i].packages, type) # <<>>
  PROVE  ByGuid([i \in 1..Len(db) |-> ListRecord(db[i])], type)
           = [guid \in GuidsWith(db, type) |-> kept[Max(Having(db, guid, type))]]
<1> DEFINE n == Len(db)
           lists == [i \in 1..n |-> ListRecord(db[i])]
           having(guid) == {i \in DOMAIN lists : lists[i].guid = guid /\ Kept(lists[i], type) # <<>>}
           guids == {g \in {lists[i].guid : i \in DOMAIN lists} : having(g) # {}}
<1>1. db \in Seq(Range(db))
  BY LaidOutDb
<1>2. DOMAIN lists = 1..n /\ \A i \in 1..n : lists[i] = ListRecord(db[i]) /\ lists[i].guid = db[i].guid
  BY DEF ListRecord
<1>3. ByGuid(lists, type) = [guid \in guids |-> Kept(lists[Max(having(guid))], type)]
  <2> HIDE DEF lists
  <2>1. QED
    BY DEF ByGuid, Inserted
<1> HIDE DEF lists
<1>4. \A guid : having(guid) = Having(db, guid, type)
  BY <1>2 DEF Having
<1>5. guids = GuidsWith(db, type)
  <2> HIDE DEF having
  <2>1. {lists[i].guid : i \in DOMAIN lists} = {db[i].guid : i \in 1..n}
    BY <1>2
  <2>2. guids = {g \in {db[i].guid : i \in 1..n} : Having(db, g, type) # {}}
    BY <1>4, <2>1
  <2>3. GuidsWith(db, type) = {g \in {db[i].guid : i \in 1..n} : Having(db, g, type) # {}}
    BY <1>1, GuidsHaving
  <2>4. QED
    BY <2>2, <2>3
<1>6. \A guid \in guids : Having(db, guid, type) # {}
  BY <1>4
<1> HIDE DEF having, guids
<1>7. ASSUME NEW guid \in guids
      PROVE  Kept(lists[Max(having(guid))], type) = kept[Max(Having(db, guid, type))]
  <2>1. Max(Having(db, guid, type)) \in 1..n
    <3>1. Max(Having(db, guid, type)) \in Having(db, guid, type)
      BY <1>1, <1>6, LastHaving
    <3>2. QED
      BY <3>1 DEF Having
  <2>2. QED
    BY <1>2, <1>4, <2>1
<1>8. QED
  BY <1>3, <1>5, <1>7 DEF lists

LEMMA SameEmptiness ==
  ASSUME NEW R, NEW a \in Seq(R), NEW f, f = [i \in DOMAIN a |-> f[i]]
  PROVE  f # <<>> <=> a # <<>>
<1> DEFINE n == Len(a)
           T == {f[i] : i \in 1..n}
<1>1. n \in Nat /\ DOMAIN a = 1..n
  BY LenProperties
<1>2. f \in [1..n -> T]
  BY <1>1
<1>3. a = <<>> <=> n = 0
  BY EmptySeq
<1> HIDE DEF T, n
<1>4. f \in Seq(T)
  BY <1>1, <1>2, SeqDef
<1>5. Len(f) = n
  BY <1>1, <1>2, <1>4, LenProperties
<1>6. f = <<>> <=> Len(f) = 0
  BY <1>4, EmptySeq
<1>7. QED
  BY <1>3, <1>5, <1>6

GuidForms(db, guid) ==
  [i \in DOMAIN PackagesOf(db, guid, Form) |->
     FormOf(PackagesOf(db, guid, Form)[i].data).value]

DbContents(db) ==
  [strings |-> [guid \in GuidsWith(db, Strings) |-> GuidStrings(db, guid)],
   forms |-> [guid \in GuidsWith(db, Form) |-> GuidForms(db, guid)]]

(* The map of strings that read_db fills is the database's.                *)
LEMMA StringsByGuid ==
  ASSUME NEW db, LaidOut(db), DbSound(db)
  PROVE  ByGuid([i \in 1..Len(db) |-> ListRecord(db[i])], Strings)
           = [guid \in GuidsWith(db, Strings) |-> GuidStrings(db, guid)]
<1> DEFINE n == Len(db)
           of(i) == OfType(db[i].packages, Strings)
           kept == [i \in 1..n |-> [j \in DOMAIN of(i) |-> TextsOf(of(i)[j].blocks)]]
<1>1. Roomy /\ db \in Seq(Range(db)) /\ \A i \in 1..n : ListLaidOut(db[i]) /\ ListSound(db[i])
  BY LaidOutDb DEF DbSound
<1>2. ASSUME NEW i \in 1..n
      PROVE  Kept(ListRecord(db[i]), Strings) = kept[i] /\ (kept[i] # <<>> <=> of(i) # <<>>)
  <2>1. kept[i] = [j \in DOMAIN of(i) |-> TextsOf(of(i)[j].blocks)]
    OBVIOUS
  <2>2. Kept(ListRecord(db[i]), Strings) = kept[i]
    <3> HIDE DEF kept
    <3>1. QED
      BY <1>1, <2>1, KeptList
  <2>3. of(i) \in Seq(Range(db[i].packages))
    <3>1. db[i].packages \in Seq(Range(db[i].packages))
      BY <1>1, LaidOutList
    <3>2. QED
      BY <3>1, OfTypePicks
  <2> HIDE DEF kept, of
  <2>4. kept[i] = [j \in DOMAIN of(i) |-> kept[i][j]]
    BY <2>1
  <2>5. QED
    BY <2>2, <2>3, <2>4, SameEmptiness
<1> HIDE DEF kept
<1>3. ByGuid([i \in 1..n |-> ListRecord(db[i])], Strings)
        = [guid \in GuidsWith(db, Strings) |-> kept[Max(Having(db, guid, Strings))]]
  BY <1>2, ByGuidIs
<1>4. ASSUME NEW guid \in GuidsWith(db, Strings)
      PROVE  kept[Max(Having(db, guid, Strings))] = GuidStrings(db, guid)
  <2>1. Having(db, guid, Strings) # {}
    BY <1>1, GuidsHaving
  <2>2. PICK m \in 1..n : m = Max(Having(db, guid, Strings)) /\ PackagesOf(db, guid, Strings) = of(m)
    <3>1. /\ Max(Having(db, guid, Strings)) \in Having(db, guid, Strings)
          /\ PackagesOf(db, guid, Strings)
               = OfType(db[Max(Having(db, guid, Strings))].packages, Strings)
      BY <1>1, <2>1, LastHaving
    <3>2. Having(db, guid, Strings) \subseteq 1..n
      BY DEF Having
    <3>3. QED
      BY <3>1, <3>2
  <2>3. kept[m] = [j \in DOMAIN of(m) |-> TextsOf(of(m)[j].blocks)]
    BY DEF kept
  <2> HIDE DEF of
  <2>4. GuidStrings(db, guid) = [j \in DOMAIN of(m) |-> TextsOf(of(m)[j].blocks)]
    BY <2>2 DEF GuidStrings
  <2>5. QED
    BY <2>2, <2>3, <2>4
<1>5. QED
  BY <1>3, <1>4

(* The map of forms that read_db fills is the database's.                  *)
LEMMA FormsByGuid ==
  ASSUME NEW db, LaidOut(db), DbSound(db)
  PROVE  ByGuid([i \in 1..Len(db) |-> ListRecord(db[i])], Form)
           = [guid \in GuidsWith(db, Form) |-> GuidForms(db, guid)]
<1> DEFINE n == Len(db)
           of(i) == OfType(db[i].packages, Form)
           kept == [i \in 1..n |-> [j \in DOMAIN of(i) |-> FormOf(of(i)[j].data).value]]
<1>1. Roomy /\ db \in Seq(Range(db)) /\ \A i \in 1..n : ListLaidOut(db[i]) /\ ListSound(db[i])
  BY LaidOutDb DEF DbSound
<1>2. ASSUME NEW i \in 1..n
      PROVE  Kept(ListRecord(db[i]), Form) = kept[i] /\ (kept[i] # <<>> <=> of(i) # <<>>)
  <2>1. kept[i] = [j \in DOMAIN of(i) |-> FormOf(of(i)[j].data).value]
    OBVIOUS
  <2>2. Kept(ListRecord(db[i]), Form) = kept[i]
    <3> HIDE DEF kept
    <3>1. QED
      BY <1>1, <2>1, KeptList
  <2>3. of(i) \in Seq(Range(db[i].packages))
    <3>1. db[i].packages \in Seq(Range(db[i].packages))
      BY <1>1, LaidOutList
    <3>2. QED
      BY <3>1, OfTypePicks
  <2> HIDE DEF kept, of
  <2>4. kept[i] = [j \in DOMAIN of(i) |-> kept[i][j]]
    BY <2>1
  <2>5. QED
    BY <2>2, <2>3, <2>4, SameEmptiness
<1> HIDE DEF kept
<1>3. ByGuid([i \in 1..n |-> ListRecord(db[i])], Form)
        = [guid \in GuidsWith(db, Form) |-> kept[Max(Having(db, guid, Form))]]
  BY <1>2, ByGuidIs
<1>4. ASSUME NEW guid \in GuidsWith(db, Form)
      PROVE  kept[Max(Having(db, guid, Form))] = GuidForms(db, guid)
  <2>1. Having(db, guid, Form) # {}
    BY <1>1, GuidsHaving
  <2>2. PICK m \in 1..n : m = Max(Having(db, guid, Form)) /\ PackagesOf(db, guid, Form) = of(m)
    <3>1. /\ Max(Having(db, guid, Form)) \in Having(db, guid, Form)
          /\ PackagesOf(db, guid, Form) = OfType(db[Max(Having(db, guid, Form))].packages, Form)
      BY <1>1, <2>1, LastHaving
    <3>2. Having(db, guid, Form) \subseteq 1..n
      BY DEF Having
    <3>3. QED
      BY <3>1, <3>2
  <2>3. kept[m] = [j \in DOMAIN of(m) |-> FormOf(of(m)[j].data).value]
    BY DEF kept
  <2> HIDE DEF of
  <2>4. GuidForms(db, guid) = [j \in DOMAIN of(m) |-> FormOf(of(m)[j].data).value]
    BY <2>2 DEF GuidForms
  <2>5. QED
    BY <2>2, <2>3, <2>4
<1>5. QED
  BY <1>3, <1>4

(* What a list that does not end where it says makes of the whole.         *)
LEMMA UnreadableRefused ==
  ASSUME NEW b, NEW i \in DOMAIN PackageLists(b), ~Sound(PackageLists(b)[i])
  PROVE  ReadDb(b) = Failed
  BY DEF ReadDb

(* read_db gives the contents of a well-formed database, and an error for  *)
(* another.                                                                *)
LEMMA DbRead ==
  ASSUME NEW db, LaidOut(db)
  PROVE  ReadDb(EncodeDb(db)) = IF WellFormed(db) THEN Parsed(DbContents(db)) ELSE Failed
<1> DEFINE n == Len(db)
           b == EncodeDb(db)
           recs == [i \in 1..n |-> ListRecord(db[i])]
<1>1. /\ Roomy /\ db \in Seq(Range(db)) /\ ListsEncodable(db)
      /\ \A i \in 1..n : /\ ListLaidOut(db[i])
                         /\ Len(ListData(db[i])) + PackageHeaderLen <= Greatest(ListLengthLen)
      /\ Len(b) \in Nat /\ Len(b) + ListHeaderLen <= Greatest(ListLengthLen)
  BY LaidOutDb
<1>2. WellFormed(db) <=> DbSound(db)
  BY WellFormedIsSound
<1>3. \A i \in 1..n : Sound(ListRecord(db[i])) <=> ListSound(db[i])
  BY <1>1, SoundList
<1>4. CASE \E j \in 1..n : Lies(db[j])
  <2>1. PICK j \in 1..n : Lies(db[j])
    BY <1>4
  <2>2. ~WellFormed(db)
    BY <1>2, <2>1 DEF DbSound
  <2>3. BeginningOf(b, db)
    BY <1>1, WholeIsBeginning
  <2>4. ASSUME NEW i \in 1..n PROVE ListBegin(db, i - 1) # Len(b) + 1
    <3>1. Holds(b, ListBegin(db, i - 1), EncodeList(db[i]))
      BY <1>1, ListBegins
    <3>2. PICK at \in Nat : at = ListBegin(db, i - 1)
      <4>1. i - 1 \in 0..n
        BY <1>1, LenProperties
      <4>2. QED
        BY <1>1, <4>1, ListBegins
    <3>3. PICK l \in Nat : l = Len(EncodeList(db[i])) /\ l > 0
      <4>1. ListEncodable(db[i])
        BY <1>1 DEF ListsEncodable
      <4>2. Len(EncodeList(db[i])) = ListHeaderLen + Len(ListData(db[i]))
        BY <4>1, ListEncoded
      <4>3. Len(ListData(db[i])) \in Nat
        BY <4>1, LenProperties DEF ListEncodable
      <4>4. QED
        BY <4>2, <4>3, HeaderLengths
    <3>4. at + l - 1 <= Len(b)
      BY <3>1, <3>2, <3>3 DEF Holds
    <3>5. QED
      BY <1>1, <3>2, <3>3, <3>4
  <2>5. PICK i \in DOMAIN PackageLists(b) : PackageLists(b)[i] = Unreadable
    <3> HIDE DEF b
    <3>1. QED
      BY <1>1, <2>1, <2>3, <2>4, ListsRefused
  <2>6. ~Sound(Unreadable)
    BY DEF Sound, Unreadable
  <2>7. ReadDb(b) = Failed
    BY <2>5, <2>6, UnreadableRefused
  <2>8. QED
    BY <2>2, <2>7
<1>5. CASE \A i \in 1..n : ~Lies(db[i])
  <2>1. PackageLists(b) = recs
    BY <1>1, <1>5, ListsParsed
  <2>2. DOMAIN recs = 1..n /\ \A i \in 1..n : recs[i] = ListRecord(db[i])
    OBVIOUS
  <2> HIDE DEF recs, b
  <2>3. CASE DbSound(db)
    <3>1. ~ \E i \in DOMAIN recs : ~Sound(recs[i])
      BY <1>3, <2>2, <2>3 DEF DbSound
    <3>2. ReadDb(b) = Parsed([strings |-> ByGuid(recs, Strings), forms |-> ByGuid(recs, Form)])
      BY <2>1, <3>1 DEF ReadDb
    <3>3. /\ ByGuid(recs, Strings) = [guid \in GuidsWith(db, Strings) |-> GuidStrings(db, guid)]
          /\ ByGuid(recs, Form) = [guid \in GuidsWith(db, Form) |-> GuidForms(db, guid)]
      BY <2>3, StringsByGuid, FormsByGuid DEF recs
    <3>4. ReadDb(b) = Parsed(DbContents(db))
      BY <3>2, <3>3 DEF DbContents
    <3>5. QED
      BY <1>2, <2>3, <3>4 DEF b
  <2>4. CASE ~DbSound(db)
    <3>1. PICK i \in 1..n : ~Sound(recs[i])
      BY <1>3, <1>5, <2>2, <2>4 DEF DbSound
    <3>2. i \in DOMAIN PackageLists(b) /\ ~Sound(PackageLists(b)[i])
      BY <2>1, <2>2, <3>1
    <3>3. ReadDb(b) = Failed
      BY <3>2, UnreadableRefused
    <3>4. QED
      BY <1>2, <2>4, <3>3 DEF b
  <2>5. QED
    BY <2>3, <2>4
<1>6. QED
  BY <1>4, <1>5

(* A database that is cut off inside a list is refused.                    *)
LEMMA CutRefused ==
  ASSUME NEW db, LaidOut(db), NEW b, BeginningOf(b, db),
         \A k \in 0..Len(db) : b # EncodeDb(SubSeq(db, 1, k))
  PROVE  ReadDb(b) = Failed
<1> DEFINE n == Len(db)
<1>1. /\ Roomy /\ db \in Seq(Range(db)) /\ ListsEncodable(db)
      /\ Len(EncodeDb(db)) \in Nat /\ Len(EncodeDb(db)) + ListHeaderLen <= Greatest(ListLengthLen)
  BY LaidOutDb
<1>2. n \in Nat /\ n \in 0..n
  BY <1>1, LenProperties
<1>3. Len(b) \in Nat /\ Len(b) <= Len(EncodeDb(db))
  BY LenProperties DEF BeginningOf
<1>4. \A k \in 0..n : ListBegin(db, k) # Len(b) + 1
  BY <1>1, BeginningOfLists
<1>5. ListBegin(db, n) > Len(b) + 1
  <2>1. ListBegin(db, n) = Len(EncodeDb(db)) + 1 /\ ListBegin(db, n) # Len(b) + 1
    BY <1>1, <1>2, <1>4, ListBegins
  <2>2. QED
    BY <1>1, <1>3, <2>1
<1>6. n \in 1..n
  <2>1. n # 0
    <3>1. ListBegin(db, 0) = 1
      BY <1>1, ListBegins
    <3>2. ASSUME n = 0 PROVE FALSE
      <4>1. 1 > Len(b) + 1
        BY <1>5, <3>1, <3>2
      <4>2. QED
        BY <1>3, <4>1
    <3>3. QED
      BY <3>2
  <2>2. QED
    BY <1>2, <2>1
<1>7. \A i \in 1..n : ListBegin(db, i - 1) # Len(b) + 1
  <2>1. \A i \in 1..n : i - 1 \in 0..n
    BY <1>2
  <2>2. QED
    BY <1>4, <2>1
<1>8. Len(b) + ListHeaderLen <= Greatest(ListLengthLen)
  BY <1>1, <1>3, HeaderLengths, GreatestTyped
<1>9. PICK i \in DOMAIN PackageLists(b) : PackageLists(b)[i] = Unreadable
  BY <1>1, <1>5, <1>6, <1>7, <1>8, ListsRefused
<1>10. ~Sound(Unreadable)
  BY DEF Sound, Unreadable
<1>11. QED
  BY <1>9, <1>10, UnreadableRefused

(* find_corresponding_string finds the prompt in the first language that   *)
(* has one.                                                                *)
LEMMA PromptFound ==
  ASSUME NEW db, NEW guid, NEW id, NEW n \in Nat, DOMAIN GuidStrings(db, guid) = 1..n
  PROVE  FindString(id, GuidStrings(db, guid)) = GuidPrompt(db, guid, id)
<1> DEFINE maps == GuidStrings(db, guid)
           with == {i \in DOMAIN maps : id \in DOMAIN maps[i]}
           first == CHOOSE i \in with : \A j \in with : i <= j
<1>1. GuidPrompt(db, guid, id) = IF with = {} THEN <<>> ELSE maps[first][id]
  BY DEF GuidPrompt
<1>2. FindString(id, maps) = IF with = {} THEN <<>> ELSE maps[Min(with)][id]
  BY DEF FindString
<1>3. with \subseteq Nat
  BY DEF maps
<1> HIDE DEF maps, with
<1>4. ASSUME with # {} PROVE first = Min(with)
  <2>1. Min(with) \in with /\ \A j \in with : Min(with) <= j
    BY <1>3, <1>4, MinIsLeast
  <2>2. \A i \in with : i \in Nat
    BY <1>3
  <2>3. ASSUME NEW i \in with, \A j \in with : i <= j PROVE i = Min(with)
    <3>1. i <= Min(with) /\ Min(with) <= i /\ i \in Nat /\ Min(with) \in Nat
      BY <2>1, <2>2, <2>3
    <3>2. QED
      BY <3>1
  <2>4. QED
    BY <2>1, <2>3
<1> HIDE DEF first
<1>5. QED
  BY <1>1, <1>2, <1>4 DEF maps

(* A list of its own GUID is the last one with it: what the maps hold for  *)
(* the GUID is this list's.                                                *)
LEMMA OwnGuid ==
  ASSUME NEW db, db \in Seq(Range(db)), UniqueGuids(db), NEW type,
         NEW list \in ListsWith(db, type)
  PROVE  /\ list.guid \in GuidsWith(db, type)
         /\ PackagesOf(db, list.guid, type) = OfType(list.packages, type)
<1>1. list \in Range(db) /\ OfType(list.packages, type) # <<>>
  BY DEF ListsWith
<1>2. PICK i \in 1..Len(db) : list = db[i]
  BY <1>1, RangeIs
<1>3. DOMAIN db = 1..Len(db)
  BY LenProperties
<1>4. Having(db, list.guid, type) = {i}
  <2>1. \A j \in 1..Len(db) : db[j].guid = list.guid => j = i
    BY <1>2, <1>3 DEF UniqueGuids
  <2>2. QED
    BY <1>1, <1>2, <2>1 DEF Having
<1>5. /\ Max(Having(db, list.guid, type)) \in Having(db, list.guid, type)
      /\ PackagesOf(db, list.guid, type)
           = OfType(db[Max(Having(db, list.guid, type))].packages, type)
  BY <1>4, LastHaving
<1>6. PackagesOf(db, list.guid, type) = OfType(list.packages, type)
  BY <1>2, <1>4, <1>5
<1>7. list.guid \in GuidsWith(db, type)
  BY <1>1 DEF GuidsWith
<1>8. QED
  BY <1>6, <1>7

(* Every GUID of a map is that of a list.                                  *)
LEMMA GuidOfList ==
  ASSUME NEW db, NEW type, NEW guid \in GuidsWith(db, type)
  PROVE  \E list \in ListsWith(db, type) : list.guid = guid
  BY DEF GuidsWith, ListsWith

(* What a map shows for every GUID is what its list shows.                 *)
ByGuids(db, type, shown) == {Listed(guid, shown[guid]) : guid \in GuidsWith(db, type)}

ByLists(db, type, means) == {Listed(list.guid, means[list]) : list \in ListsWith(db, type)}

LEMMA ShownByLists ==
  ASSUME NEW db, db \in Seq(Range(db)), UniqueGuids(db), NEW type,
         NEW shown, NEW means,
         \A list \in ListsWith(db, type) : shown[list.guid] = means[list]
  PROVE  ByGuids(db, type, shown) = ByLists(db, type, means)
<1>1. ASSUME NEW guid \in GuidsWith(db, type)
      PROVE  \E list \in ListsWith(db, type) :
               Listed(guid, shown[guid]) = Listed(list.guid, means[list])
  BY GuidOfList
<1>2. ASSUME NEW list \in ListsWith(db, type)
      PROVE  \E guid \in GuidsWith(db, type) :
               Listed(guid, shown[guid]) = Listed(list.guid, means[list])
  BY OwnGuid
<1>3. QED
  BY <1>1, <1>2 DEF ByGuids, ByLists

(* Strings and prompts of a GUID are those of its list.                    *)
LEMMA OwnStrings ==
  ASSUME NEW db, db \in Seq(Range(db)), UniqueGuids(db),
         NEW list \in ListsWith(db, Strings)
  PROVE  /\ GuidStrings(db, list.guid) = StringsIn(list)
         /\ \A id : GuidPrompt(db, list.guid, id) = PromptIn(list, id)
<1>1. PackagesOf(db, list.guid, Strings) = OfType(list.packages, Strings)
  BY OwnGuid
<1>2. GuidStrings(db, list.guid) = StringsIn(list)
  BY <1>1 DEF GuidStrings, StringsIn
<1>3. QED
  BY <1>2 DEF GuidPrompt, PromptIn

(* What list_questions makes of the forms and strings of a GUID are the    *)
(* questions of its list.                                                  *)
LEMMA OwnQuestions ==
  ASSUME NEW db, LaidOut(db), UniqueGuids(db),
         NEW list \in ListsWith(db, Form), list \in ListsWith(db, Strings)
  PROVE  [f \in DOMAIN GuidForms(db, list.guid) |->
           [q \in DOMAIN GuidForms(db, list.guid)[f] |->
              FindString(GuidForms(db, list.guid)[f][q], GuidStrings(db, list.guid))]]
           = QuestionsIn(list)
<1> DEFINE forms == OfType(list.packages, Form)
<1>1. db \in Seq(Range(db)) /\ \A i \in 1..Len(db) : ListLaidOut(db[i])
  BY LaidOutDb
<1>2. PackagesOf(db, list.guid, Form) = forms
  BY <1>1, OwnGuid
<1>3. GuidForms(db, list.guid) = [f \in DOMAIN forms |-> IdsIn(forms[f])]
  BY <1>2 DEF GuidForms, IdsIn
<1>4. \A id : FindString(id, GuidStrings(db, list.guid)) = PromptIn(list, id)
  <2>1. PICK i \in 1..Len(db) : list = db[i]
    <3>1. list \in Range(db)
      BY DEF ListsWith
    <3>2. QED
      BY <1>1, <3>1, RangeIs
  <2>2. list.packages \in Seq(Range(list.packages))
    BY <1>1, <2>1, LaidOutList
  <2>3. PICK n \in Nat : DOMAIN OfType(list.packages, Strings) = 1..n
    BY <2>2, OfTypePicks
  <2>4. DOMAIN GuidStrings(db, list.guid) = 1..n
    <3>1. PackagesOf(db, list.guid, Strings) = OfType(list.packages, Strings)
      BY <1>1, OwnGuid
    <3>2. QED
      BY <2>3, <3>1 DEF GuidStrings
  <2>5. \A id : FindString(id, GuidStrings(db, list.guid)) = GuidPrompt(db, list.guid, id)
    BY <2>4, PromptFound
  <2>6. \A id : GuidPrompt(db, list.guid, id) = PromptIn(list, id)
    BY <1>1, OwnStrings
  <2>7. QED
    BY <2>5, <2>6
<1>5. QuestionsIn(list) = [f \in DOMAIN forms |->
                             [q \in DOMAIN IdsIn(forms[f]) |-> PromptIn(list, IdsIn(forms[f])[q])]]
  BY DEF QuestionsIn
<1> HIDE DEF forms
<1>6. QED
  BY <1>3, <1>4, <1>5

(* With unique GUIDs, a list with forms has strings if its GUID has.       *)
LEMMA FormsHaveStrings ==
  ASSUME NEW db, db \in Seq(Range(db)), UniqueGuids(db)
  PROVE  GuidsWith(db, Form) \subseteq GuidsWith(db, Strings)
           <=> ListsWith(db, Form) \subseteq ListsWith(db, Strings)
<1>1. ASSUME GuidsWith(db, Form) \subseteq GuidsWith(db, Strings),
             NEW list \in ListsWith(db, Form)
      PROVE  list \in ListsWith(db, Strings)
  <2>1. list.guid \in GuidsWith(db, Strings)
    BY <1>1, OwnGuid
  <2>2. PICK other \in ListsWith(db, Strings) : other.guid = list.guid
    BY <2>1, GuidOfList
  <2>3. PICK i \in 1..Len(db), j \in 1..Len(db) : list = db[i] /\ other = db[j]
    <3>1. list \in Range(db) /\ other \in Range(db)
      BY DEF ListsWith
    <3>2. QED
      BY <3>1, RangeIs
  <2>4. DOMAIN db = 1..Len(db)
    BY LenProperties
  <2>5. i = j
    BY <2>2, <2>3, <2>4 DEF UniqueGuids
  <2>6. QED
    BY <2>3, <2>5
<1>2. ASSUME ListsWith(db, Form) \subseteq ListsWith(db, Strings),
             NEW guid \in GuidsWith(db, Form)
      PROVE  guid \in GuidsWith(db, Strings)
  <2>1. PICK list \in ListsWith(db, Form) : list.guid = guid
    BY GuidOfList
  <2>2. QED
    BY <1>2, <2>1, OwnGuid
<1>3. QED
  BY <1>1, <1>2

(* A database that cannot be read as a whole is refused.                   *)
LEMMA BrokenIsRefused ==
  ASSUME NEW db, LaidOut(db), ~WellFormed(db), NEW what
  PROVE  Listing(EncodeDb(db), what) = Meaning(db, what)
<1>1. ReadDb(EncodeDb(db)) = Failed
  BY DbRead
<1>2. Failed.ok = FALSE
  BY DEF Failed
<1>3. QED
  BY <1>1, <1>2 DEF Listing, Meaning

(* The strings listed for a GUID are those of a list, whatever GUIDs the   *)
(* lists have.                                                             *)
LEMMA StringsOfLists ==
  ASSUME NEW db, LaidOut(db), WellFormed(db)
  PROVE  LET listing == Listing(EncodeDb(db), "strings")
         IN  /\ listing.ok
             /\ listing.value \subseteq
                  {Listed(list.guid, StringsIn(list)) : list \in ListsWith(db, Strings)}
<1> DEFINE shown == {Listed(guid, GuidStrings(db, guid)) : guid \in GuidsWith(db, Strings)}
           means == {Listed(list.guid, StringsIn(list)) : list \in ListsWith(db, Strings)}
<1>1. Listing(EncodeDb(db), "strings") = Parsed(shown)
  <2> DEFINE c == DbContents(db)
  <2>1. ReadDb(EncodeDb(db)) = Parsed(c)
    BY DbRead
  <2>2. c.strings = [guid \in GuidsWith(db, Strings) |-> GuidStrings(db, guid)]
    BY DEF DbContents
  <2> HIDE DEF c
  <2>3. Parsed(c).ok = TRUE /\ Parsed(c).value = c
    BY DEF Parsed
  <2>4. Listing(EncodeDb(db), "strings") = ListStrings(c)
    BY <2>1, <2>3 DEF Listing
  <2>5. ListStrings(c) = Parsed(shown)
    BY <2>2 DEF ListStrings
  <2>6. QED
    BY <2>4, <2>5
<1>2. ASSUME NEW guid \in GuidsWith(db, Strings)
      PROVE  \E list \in ListsWith(db, Strings) :
               Listed(guid, GuidStrings(db, guid)) = Listed(list.guid, StringsIn(list))
  <2>1. db \in Seq(Range(db)) /\ Len(db) \in Nat
    BY LaidOutDb, RangeIs
  <2>2. PICK some \in ListsWith(db, Strings) : some.guid = guid
    BY GuidOfList
  <2>3. PICK i \in 1..Len(db) : some = db[i]
    BY <2>1, RangeIs DEF ListsWith
  <2>4. i \in Having(db, guid, Strings)
    BY <2>2, <2>3 DEF Having, ListsWith
  <2>5. PICK last : /\ last \in Having(db, guid, Strings)
                    /\ PackagesOf(db, guid, Strings) = OfType(db[last].packages, Strings)
    BY <2>1, <2>4, LastHaving
  <2>6. db[last].guid = guid /\ db[last] \in ListsWith(db, Strings)
    BY <2>1, <2>5, RangeIs DEF Having, ListsWith
  <2>7. GuidStrings(db, guid) = StringsIn(db[last])
    BY <2>5 DEF GuidStrings, StringsIn
  <2>8. QED
    BY <2>6, <2>7
<1>3. shown \subseteq means
  BY <1>2
<1> HIDE DEF shown, means
<1>4. Parsed(shown).ok = TRUE /\ Parsed(shown).value = shown
  BY DEF Parsed
<1>5. QED
  BY <1>1, <1>3, <1>4 DEF means

(* With GUIDs of their own, all lists are listed.                          *)
LEMMA UniqueIsListed ==
  ASSUME NEW db, LaidOut(db), UniqueGuids(db), NEW what
  PROVE  Listing(EncodeDb(db), what) = Meaning(db, what)
<1> DEFINE c == DbContents(db)
<1>1. ReadDb(EncodeDb(db)) = IF WellFormed(db) THEN Parsed(c) ELSE Failed
  BY DbRead
<1>2. /\ c.strings = [guid \in GuidsWith(db, Strings) |-> GuidStrings(db, guid)]
      /\ c.forms = [guid \in GuidsWith(db, Form) |-> GuidForms(db, guid)]
  BY DEF DbContents
<1>3. Failed.ok = FALSE /\ Parsed(c).ok = TRUE /\ Parsed(c).value = c
  BY DEF Failed, Parsed
<1>4. db \in Seq(Range(db))
  BY LaidOutDb
<1> HIDE DEF c
<1>5. CASE ~WellFormed(db)
  BY <1>1, <1>3, <1>5 DEF Listing, Meaning
<1>6. CASE WellFormed(db)
  <2>1. Listing(EncodeDb(db), what) = IF what = "strings" THEN ListStrings(c) ELSE ListQuestions(c)
    BY <1>1, <1>3, <1>6 DEF Listing
  <2>2. CASE what = "strings"
    <3> DEFINE all == {Listed(guid, c.strings[guid]) : guid \in GuidsWith(db, Strings)}
               means == [list \in ListsWith(db, Strings) |-> StringsIn(list)]
    <3>1. ASSUME NEW list \in ListsWith(db, Strings) PROVE c.strings[list.guid] = means[list]
      BY <1>2, <1>4, OwnGuid, OwnStrings
    <3>2. all = {Listed(list.guid, StringsIn(list)) : list \in ListsWith(db, Strings)}
      <4>1. /\ all = ByGuids(db, Strings, c.strings)
            /\ ByLists(db, Strings, means)
                 = {Listed(list.guid, StringsIn(list)) : list \in ListsWith(db, Strings)}
        BY DEF ByGuids, ByLists
      <4> HIDE DEF means, all
      <4>2. ByGuids(db, Strings, c.strings) = ByLists(db, Strings, means)
        BY <1>4, <3>1, ShownByLists
      <4>3. QED
        BY <4>1, <4>2
    <3>3. ListStrings(c) = Parsed(all)
      BY <1>2 DEF ListStrings
    <3>4. Meaning(db, what)
            = Parsed({Listed(list.guid, StringsIn(list)) : list \in ListsWith(db, Strings)})
      BY <1>6, <2>2 DEF Meaning
    <3>5. QED
      BY <2>1, <2>2, <3>2, <3>3, <3>4
  <2>3. CASE what # "strings"
    <3> DEFINE shown(guid) ==
                 [f \in DOMAIN c.forms[guid] |->
                   [q \in DOMAIN c.forms[guid][f] |->
                      FindString(c.forms[guid][f][q], c.strings[guid])]]
               all == {Listed(guid, shown(guid)) : guid \in GuidsWith(db, Form)}
               showing == [guid \in GuidsWith(db, Form) |-> shown(guid)]
               means == [list \in ListsWith(db, Form) |-> QuestionsIn(list)]
    <3>1. DOMAIN c.forms = GuidsWith(db, Form) /\ DOMAIN c.strings = GuidsWith(db, Strings)
      BY <1>2
    <3>2. CASE ~(ListsWith(db, Form) \subseteq ListsWith(db, Strings))
      <4>1. ListQuestions(c) = Failed
        BY <1>4, <3>1, <3>2, FormsHaveStrings DEF ListQuestions
      <4>2. Meaning(db, what) = Failed
        BY <1>6, <2>3, <3>2 DEF Meaning
      <4>3. QED
        BY <2>1, <2>3, <4>1, <4>2
    <3>3. CASE ListsWith(db, Form) \subseteq ListsWith(db, Strings)
      <4>1. ListQuestions(c) = Parsed(all)
        <5>1. DOMAIN c.forms \subseteq DOMAIN c.strings
          BY <1>4, <3>1, <3>3, FormsHaveStrings
        <5>2. QED
          BY <3>1, <5>1 DEF ListQuestions
      <4>2. ASSUME NEW list \in ListsWith(db, Form) PROVE shown(list.guid) = QuestionsIn(list)
        <5>1. list \in ListsWith(db, Strings)
          BY <3>3
        <5>2. /\ c.forms[list.guid] = GuidForms(db, list.guid)
              /\ c.strings[list.guid] = GuidStrings(db, list.guid)
          BY <1>2, <1>4, <5>1, OwnGuid
        <5>3. QED
          BY <5>1, <5>2, OwnQuestions
      <4> HIDE DEF shown
      <4>3. all = {Listed(list.guid, QuestionsIn(list)) : list \in ListsWith(db, Form)}
        <5>1. /\ all = ByGuids(db, Form, showing)
              /\ ByLists(db, Form, means)
                   = {Listed(list.guid, QuestionsIn(list)) : list \in ListsWith(db, Form)}
          BY DEF ByGuids, ByLists
        <5>2. \A list \in ListsWith(db, Form) : showing[list.guid] = means[list]
          BY <1>4, <4>2, OwnGuid
        <5> HIDE DEF showing, means, all
        <5>3. ByGuids(db, Form, showing) = ByLists(db, Form, means)
          BY <1>4, <5>2, ShownByLists
        <5>4. QED
          BY <5>1, <5>3
      <4>4. Meaning(db, what)
              = Parsed({Listed(list.guid, QuestionsIn(list)) : list \in ListsWith(db, Form)})
        BY <1>6, <2>3, <3>3 DEF Meaning
      <4>5. QED
        BY <2>1, <2>3, <4>1, <4>3, <4>4
    <3>4. QED
      BY <3>2, <3>3
  <2>4. QED
    BY <2>2, <2>3
<1>7. QED
  BY <1>5, <1>6

(* A listing of a database's bytes says what the database means: all of    *)
(* it or an error, given that its package lists have GUIDs of their own,   *)
(* and else strings of single lists.                                       *)
THEOREM ListingIsMeaning ==
  ASSUME NEW db, LaidOut(db), NEW what
  PROVE  Says(Listing(EncodeDb(db), what), db, what)
<1>1. ASSUME UniqueGuids(db) \/ ~WellFormed(db)
      PROVE  Listing(EncodeDb(db), what) = Meaning(db, what)
  BY <1>1, UniqueIsListed, BrokenIsRefused
<1>2. ASSUME what = "strings", WellFormed(db)
      PROVE  /\ Listing(EncodeDb(db), what).ok
             /\ Listing(EncodeDb(db), what).value \subseteq Meaning(db, what).value
  <2> DEFINE means == {Listed(list.guid, StringsIn(list)) : list \in ListsWith(db, Strings)}
  <2>1. Meaning(db, what) = Parsed(means)
    BY <1>2 DEF Meaning
  <2>2. /\ Listing(EncodeDb(db), what).ok
        /\ Listing(EncodeDb(db), what).value \subseteq means
    BY <1>2, StringsOfLists
  <2> HIDE DEF means
  <2>3. Parsed(means).value = means
    BY DEF Parsed
  <2>4. QED
    BY <2>1, <2>2, <2>3
<1>3. QED
  BY <1>1, <1>2 DEF Says

(* A database cut off inside a package list is refused, whatever is to be  *)
(* listed.                                                                 *)
THEOREM CutIsRefused ==
  ASSUME NEW db, LaidOut(db), NEW b, BeginningOf(b, db),
         \A k \in 0..Len(db) : b # EncodeDb(SubSeq(db, 1, k)), NEW what
  PROVE  Listing(b, what) = Failed
<1>1. ReadDb(b) = Failed /\ Failed.ok = FALSE
  BY CutRefused DEF Failed
<1>2. QED
  BY <1>1 DEF Listing

=============================================================================
