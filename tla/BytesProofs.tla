----------------------------- MODULE BytesProofs -----------------------------
(* What the proofs of several components need to know of numbers and of    *)
(* byte sequences.                                                         *)
EXTENDS Bytes, SequencesExt, SequenceTheorems, WellFoundedInduction, TLAPS

(* Of a set of numbers there is a least.                                   *)
LEMMA LeastNumber ==
  ASSUME NEW S \in SUBSET Nat, S # {}
  PROVE  \E x \in S : \A y \in S : x <= y
<1> DEFINE less == {ss \in Nat \X Nat : ss[1] < ss[2]}
<1>1. IsWellFoundedOn(less, Nat)
  BY NatLessThanWellFounded DEF OpToRel
<1> HIDE DEF less
<1>2. PICK x \in S : \A y \in S : ~(<<y, x>> \in less)
  BY <1>1, WFMin
<1>3. \A y \in S : ~(y < x)
  BY <1>2 DEF less
<1>4. QED
  BY <1>3

(* The least and the greatest of some numbers.                             *)
LEMMA MinIsLeast ==
  ASSUME NEW S \in SUBSET Nat, S # {}
  PROVE  Min(S) \in S /\ \A y \in S : Min(S) <= y
BY LeastNumber DEF Min

LEMMA MaxIsGreatest ==
  ASSUME NEW n \in Nat, NEW S \in SUBSET (0..n), S # {}
  PROVE  Max(S) \in S /\ \A y \in S : y <= Max(S)
<1> DEFINE U == {k \in 0..n : \A y \in S : y <= k}
<1>1. n \in U
  OBVIOUS
<1>2. U \in SUBSET Nat /\ U # {}
  BY <1>1
<1>3. PICK x \in U : \A k \in U : x <= k
  <2> HIDE DEF U
  <2>1. QED
    BY <1>2, LeastNumber
<1>4. x \in S
  <2>1. SUFFICES ASSUME x \notin S PROVE FALSE
    OBVIOUS
  <2>2. \A y \in S : y <= x - 1
    BY <1>3, <2>1
  <2>3. PICK y \in S : y <= x - 1
    BY <2>2
  <2>4. x \in 0..n /\ y \in 0..n
    BY <1>3
  <2>5. x - 1 \in U
    BY <2>2, <2>3, <2>4
  <2>6. QED
    BY <1>3, <2>4, <2>5
<1>5. \A y \in S : y <= x
  BY <1>3
<1>6. QED
  BY <1>4, <1>5 DEF Max

(* Patching a byte sequence gives a byte sequence.                         *)
LEMMA PatchType ==
  ASSUME NEW bytes \in Seq(Byte), NEW pos \in Nat, NEW data \in Seq(Byte)
  PROVE  Patch(bytes, pos, data) \in Seq(Byte)
<1> DEFINE end == pos + Len(data)
           n == IF end > Len(bytes) THEN end ELSE Len(bytes)
           s == [i \in 1..n |-> IF i \in (pos + 1)..end THEN data[i - pos]
                                ELSE IF i <= Len(bytes) THEN bytes[i] ELSE 0]
<1>1. n \in Nat
  OBVIOUS
<1>2. ASSUME NEW i \in 1..n PROVE s[i] \in Byte
  <2>1. CASE i \in (pos + 1)..end
    <3>1. i - pos \in 1..Len(data)
      BY <2>1
    <3>2. data[i - pos] \in Byte
      BY <3>1, ElementOfSeq
    <3>3. QED
      BY <2>1, <3>2
  <2>2. CASE i \notin (pos + 1)..end /\ i <= Len(bytes)
    <3>1. bytes[i] \in Byte
      BY <2>2, ElementOfSeq
    <3>2. QED
      BY <2>2, <3>1
  <2>3. CASE i \notin (pos + 1)..end /\ ~(i <= Len(bytes))
    BY <2>3 DEF Byte
  <2>4. QED
    BY <2>1, <2>2, <2>3
<1>3. s \in Seq(Byte)
  <2>1. s \in [1..n -> Byte]
    BY <1>2
  <2>2. QED
    BY <1>1, <2>1, SeqDef
<1>4. QED
  BY <1>3 DEF Patch

(* The bytes of a patched sequence.                                        *)
LEMMA PatchBytes ==
  ASSUME NEW bytes \in Seq(Byte), NEW pos \in Nat, NEW data \in Seq(Byte),
         data # <<>>
  PROVE  LET new == Patch(bytes, pos, data)
             end == pos + Len(data)
         IN  /\ Len(new) = IF end > Len(bytes) THEN end ELSE Len(bytes)
             /\ \A i \in 1..Len(new) :
                  new[i] = IF i \in (pos + 1)..end THEN data[i - pos]
                           ELSE IF i <= Len(bytes) THEN bytes[i] ELSE 0
<1> DEFINE end == pos + Len(data)
           n == IF end > Len(bytes) THEN end ELSE Len(bytes)
           new == [i \in 1..n |-> IF i \in (pos + 1)..end THEN data[i - pos]
                                  ELSE IF i <= Len(bytes) THEN bytes[i] ELSE 0]
<1>1. Patch(bytes, pos, data) = new
  BY DEF Patch
<1>2. n \in Nat /\ DOMAIN new = 1..n
  OBVIOUS
<1>3. Patch(bytes, pos, data) \in Seq(Byte)
  BY PatchType
<1>4. Len(new) = n
  BY <1>1, <1>2, <1>3, LenProperties
<1>5. QED
  BY <1>1, <1>2, <1>4

(* The bytes from one position to another.                                 *)
LEMMA PartBytes ==
  ASSUME NEW s \in Seq(Byte), NEW from \in Nat, NEW to \in Nat,
         from <= to, to <= Len(s)
  PROVE  /\ SubSeq(s, from + 1, to) \in Seq(Byte)
         /\ Len(SubSeq(s, from + 1, to)) = to - from
         /\ \A i \in 1..to - from : SubSeq(s, from + 1, to)[i] = s[from + i]
<1>1. \A i \in from + 1..to : s[i] \in Byte
  BY ElementOfSeq, LenProperties
<1>2. /\ SubSeq(s, from + 1, to) \in Seq(Byte)
      /\ Len(SubSeq(s, from + 1, to))
           = IF from + 1 <= to THEN to - (from + 1) + 1 ELSE 0
      /\ \A i \in 1..to - (from + 1) + 1 :
           SubSeq(s, from + 1, to)[i] = s[(from + 1) + i - 1]
  BY <1>1, SubSeqProperties
<1>3. to - (from + 1) + 1 = to - from
      /\ \A i \in 1..to - from : (from + 1) + i - 1 = from + i
  OBVIOUS
<1>4. QED
  BY <1>2, <1>3

(* A chunk of a text at its own place: the bytes of the chunk are those of *)
(* the text, the others stay.                                              *)
LEMMA ChunkBytes ==
  ASSUME NEW old \in Seq(Byte), NEW text \in Seq(Byte), NEW from \in Nat,
         NEW n \in Nat, from < n, n <= Len(text)
  PROVE  LET new == Patch(old, from, SubSeq(text, from + 1, n))
         IN  /\ Len(new) = IF n > Len(old) THEN n ELSE Len(old)
             /\ \A i \in 1..Len(new) :
                  new[i] = IF i \in from + 1..n THEN text[i]
                           ELSE IF i <= Len(old) THEN old[i] ELSE 0
<1> DEFINE chunk == SubSeq(text, from + 1, n)
<1>1. /\ chunk \in Seq(Byte) /\ Len(chunk) = n - from
      /\ \A i \in 1..n - from : chunk[i] = text[from + i]
  BY PartBytes
<1> HIDE DEF chunk
<1>2. chunk # <<>>
  BY <1>1
<1>3. Len(old) \in Nat /\ from + Len(chunk) = n
  BY <1>1, LenProperties
<1> DEFINE new == Patch(old, from, chunk)
<1>4. /\ Len(new) = IF from + Len(chunk) > Len(old) THEN from + Len(chunk) ELSE Len(old)
      /\ \A i \in 1..Len(new) :
           new[i] = IF i \in (from + 1)..(from + Len(chunk)) THEN chunk[i - from]
                    ELSE IF i <= Len(old) THEN old[i] ELSE 0
  <2>1. chunk \in Seq(Byte)
    BY <1>1
  <2>2. LET nw == Patch(old, from, chunk)
            e  == from + Len(chunk)
        IN  /\ Len(nw) = IF e > Len(old) THEN e ELSE Len(old)
            /\ \A i \in 1..Len(nw) :
                 nw[i] = IF i \in (from + 1)..e THEN chunk[i - from]
                         ELSE IF i <= Len(old) THEN old[i] ELSE 0
    BY <1>2, <2>1, PatchBytes
  <2>3. QED
    BY <2>2
<1> HIDE DEF new
<1>5. ASSUME NEW i \in from + 1..n PROVE chunk[i - from] = text[i]
  <2>1. i - from \in 1..n - from /\ from + (i - from) = i
    OBVIOUS
  <2>2. QED
    BY <1>1, <2>1
<1>6. /\ Len(new) = IF n > Len(old) THEN n ELSE Len(old)
      /\ \A i \in 1..Len(new) :
           new[i] = IF i \in from + 1..n THEN text[i]
                    ELSE IF i <= Len(old) THEN old[i] ELSE 0
  BY <1>3, <1>4, <1>5
<1>7. QED
  BY <1>6 DEF new, chunk

-----------------------------------------------------------------------------
(* RECURSION                                                               *)

(* A function may be defined step by step, from 1 to n.                    *)
Stepped(f, S, n, first, step) ==
  /\ f \in [1..n -> S]
  /\ f[1] = first
  /\ \A i \in 2..n : f[i] = step[<<i, f[i - 1]>>]

LEMMA StepByStep ==
  ASSUME NEW S, NEW n \in Nat, n > 0, NEW first \in S, NEW step \in [(2..n) \X S -> S]
  PROVE  \E f : Stepped(f, S, n, first, step)
<1> DEFINE Good(k) == \E f : Stepped(f, S, k, first, step)
           Bad == {k \in 1..n : ~Good(k)}
<1>1. SUFFICES ASSUME ~Good(n) PROVE FALSE
  OBVIOUS
<1>2. n \in Bad
  BY <1>1
<1>3. PICK k \in Bad : \A j \in Bad : k <= j
  <2>1. Bad \in SUBSET Nat /\ Bad # {}
    BY <1>2
  <2> HIDE DEF Bad
  <2>2. QED
    BY <2>1, LeastNumber
<1>4. k \in 1..n /\ ~Good(k)
  BY <1>3
<1>5. CASE k = 1
  <2> DEFINE f == [i \in 1..1 |-> first]
  <2>1. f \in [1..k -> S] /\ f[1] = first /\ \A i \in 2..k : f[i] = step[<<i, f[i - 1]>>]
    BY <1>5
  <2>2. QED
    BY <1>4, <2>1 DEF Stepped
<1>6. CASE k # 1
  <2>1. k - 1 \in 1..n /\ k \in 2..n
    BY <1>4, <1>6
  <2>2. Good(k - 1)
    BY <1>3, <2>1
  <2>3. PICK f \in [1..k - 1 -> S] : /\ f[1] = first
                                     /\ \A i \in 2..k - 1 : f[i] = step[<<i, f[i - 1]>>]
    BY <2>2 DEF Stepped
  <2> DEFINE g == [i \in 1..k |-> IF i = k THEN step[<<k, f[k - 1]>>] ELSE f[i]]
  <2>4. f[k - 1] \in S
    BY <2>1, <2>3
  <2>5. step[<<k, f[k - 1]>>] \in S
    BY <2>1, <2>4
  <2>6. g \in [1..k -> S]
    <3>1. ASSUME NEW i \in 1..k PROVE g[i] \in S
      BY <1>4, <2>3, <2>5
    <3>2. QED
      BY <3>1
  <2>7. g[1] = first
    BY <1>4, <1>6, <2>3
  <2>8. ASSUME NEW i \in 2..k PROVE g[i] = step[<<i, g[i - 1]>>]
    <3>1. CASE i = k
      <4>1. i - 1 \in 1..k /\ i - 1 # k
        BY <2>1, <3>1
      <4>2. g[i - 1] = f[k - 1]
        BY <3>1, <4>1
      <4>3. k \in 1..k
        BY <1>4
      <4>4. g[k] = step[<<k, f[k - 1]>>]
        BY <4>3
      <4> HIDE DEF g
      <4>5. QED
        BY <3>1, <4>2, <4>4
    <3>2. CASE i # k
      <4>1. i \in 2..k - 1 /\ i - 1 \in 1..k - 1 /\ i \in 1..k /\ i - 1 \in 1..k
            /\ i - 1 # k
        BY <2>1, <3>2
      <4>2. g[i] = f[i] /\ g[i - 1] = f[i - 1]
        BY <3>2, <4>1
      <4>3. QED
        BY <2>3, <4>1, <4>2
    <3>3. QED
      BY <3>1, <3>2
  <2> HIDE DEF g
  <2>9. Good(k)
    BY <2>6, <2>7, <2>8 DEF Stepped
  <2>10. QED
    BY <1>4, <2>9
<1>7. QED
  BY <1>5, <1>6

(* The elements of a flattened sequence are those of its sequences.        *)
LEMMA FlattenType ==
  ASSUME NEW T, NEW seqs \in Seq(Seq(T))
  PROVE  FlattenSeq(seqs) \in Seq(T)
<1>1. CASE Len(seqs) = 0
  BY <1>1, EmptySeq DEF FlattenSeq
<1>2. CASE Len(seqs) # 0
  <2> DEFINE n == Len(seqs)
             S == Seq(T)
             step == [x \in (2..n) \X S |-> x[2] \o seqs[x[1]]]
             Flat(f) == f = [i \in 1..n |-> IF i = 1 THEN seqs[i] ELSE f[i - 1] \o seqs[i]]
  <2>1. n \in Nat /\ n > 0 /\ \A i \in 1..n : seqs[i] \in S
    BY <1>2, LenProperties, ElementOfSeq
  <2>2. step \in [(2..n) \X S -> S]
    <3>1. ASSUME NEW x \in (2..n) \X S PROVE x[2] \o seqs[x[1]] \in S
      <4>1. x[1] \in 1..n /\ x[2] \in S
        BY <2>1
      <4>2. QED
        BY <2>1, <4>1, ConcatProperties
    <3>2. QED
      BY <3>1
  <2> HIDE DEF S
  <2>3. PICK f \in [1..n -> S] : /\ f[1] = seqs[1]
                                 /\ \A i \in 2..n : f[i] = step[<<i, f[i - 1]>>]
    <3>1. seqs[1] \in S
      BY <2>1
    <3> HIDE DEF n, step
    <3>2. \E f : Stepped(f, S, n, seqs[1], step)
      BY <2>1, <2>2, <3>1, StepByStep
    <3>3. QED
      BY <3>2 DEF Stepped
  <2>4. ASSUME NEW i \in 2..n PROVE f[i] = f[i - 1] \o seqs[i]
    <3>1. i - 1 \in 1..n
      BY <2>1
    <3>2. <<i, f[i - 1]>> \in (2..n) \X S
      BY <3>1
    <3>3. QED
      BY <2>3, <3>2
  <2> HIDE DEF step
  <2>5. ASSUME NEW i \in 1..n
        PROVE  f[i] = IF i = 1 THEN seqs[i] ELSE f[i - 1] \o seqs[i]
    <3>1. CASE i = 1
      BY <2>3, <3>1
    <3>2. CASE i # 1
      <4>1. i \in 2..n
        BY <2>1, <3>2
      <4>2. QED
        BY <2>4, <3>2, <4>1
    <3>3. QED
      BY <3>1, <3>2
  <2>6. Flat(f)
    BY <2>3, <2>5
  <2> DEFINE flatten == CHOOSE g : Flat(g)
  <2>7. Flat(flatten)
    BY <2>6
  <2>8. FlattenSeq(seqs) = flatten[n]
    BY <1>2 DEF FlattenSeq
  <2> HIDE DEF flatten
  <2>9. /\ flatten[1] = seqs[1]
        /\ \A i \in 2..n : flatten[i] = flatten[i - 1] \o seqs[i]
    <3>1. 1 \in 1..n
      BY <2>1
    <3>2. \A i \in 2..n : i \in 1..n /\ i # 1
      BY <2>1
    <3>3. QED
      BY <2>7, <3>1, <3>2
  <2> HIDE DEF Flat, n
  <2> DEFINE Bad == {k \in 1..n : flatten[k] \notin S}
  <2>10. Bad = {}
    <3>1. SUFFICES ASSUME Bad # {} PROVE FALSE
      OBVIOUS
    <3>2. PICK k \in Bad : \A j \in Bad : k <= j
      <4>1. Bad \in SUBSET Nat
        BY <2>1
      <4> HIDE DEF Bad
      <4>2. QED
        BY <3>1, <4>1, LeastNumber
    <3>3. k \in 1..n /\ flatten[k] \notin S
      BY <3>2
    <3>4. k # 1
      BY <2>1, <2>9, <3>3
    <3>5. k \in 2..n /\ k - 1 \in 1..n /\ ~(k <= k - 1)
      BY <2>1, <3>3, <3>4
    <3>6. flatten[k - 1] \in S
      BY <3>2, <3>5
    <3>7. flatten[k] = flatten[k - 1] \o seqs[k] /\ seqs[k] \in S
      BY <2>1, <2>9, <3>3, <3>5
    <3>8. QED
      BY <3>3, <3>6, <3>7, ConcatProperties DEF S
  <2>11. flatten[n] \in S
    BY <2>1, <2>10
  <2>12. QED
    BY <2>8, <2>11 DEF S
<1>3. QED
  BY <1>1, <1>2

-----------------------------------------------------------------------------
(* NUMBERS AND BYTES                                                       *)

(* How many bytes a number may have.                                      *)
FieldWidths == 1..8

(* Shifting by one more byte divides by 256.                               *)
LEMMA ShiftedSteps ==
  ASSUME NEW n \in Nat
  PROVE  /\ Shifted(n)[0] = n
         /\ \A i \in 1..8 : Shifted(n)[i] = Shifted(n)[i - 1] \div 256
         /\ \A i \in 0..8 : Shifted(n)[i] \in Nat
<1> DEFINE Rest(f) == f = [i \in 0..8 |-> IF i = 0 THEN n ELSE f[i - 1] \div 256]
           step == [x \in (2..9) \X Nat |-> x[2] \div 256]
<1>1. step \in [(2..9) \X Nat -> Nat]
  <2>1. ASSUME NEW x \in (2..9) \X Nat PROVE x[2] \div 256 \in Nat
    <3>1. x[2] \in Nat
      OBVIOUS
    <3>2. QED
      BY <3>1
  <2>2. QED
    BY <2>1
<1>2. PICK f : Stepped(f, Nat, 9, n, step)
  <2>1. PICK nine \in Nat : nine = 9 /\ nine > 0
    OBVIOUS
  <2>2. step \in [(2..nine) \X Nat -> Nat]
    BY <1>1, <2>1
  <2> HIDE DEF step
  <2>3. \E f : Stepped(f, Nat, nine, n, step)
    BY <2>1, <2>2, StepByStep
  <2>4. QED
    BY <2>1, <2>3
<1> DEFINE g == [i \in 0..8 |-> f[i + 1]]
<1>3. ASSUME NEW i \in 1..8 PROVE g[i] = g[i - 1] \div 256
  <2>1. i + 1 \in 2..9 /\ i \in 1..9 /\ (i + 1) - 1 = i /\ i - 1 \in 0..8 /\ (i - 1) + 1 = i
    OBVIOUS
  <2>2. f[i + 1] = step[<<i + 1, f[i]>>] /\ f[i] \in Nat
    <3> HIDE DEF step
    <3>1. f[i + 1] = step[<<i + 1, f[(i + 1) - 1]>>] /\ f[i] \in Nat
      BY <1>2, <2>1 DEF Stepped
    <3>2. QED
      BY <2>1, <3>1
  <2>3. <<i + 1, f[i]>> \in (2..9) \X Nat
    BY <2>1, <2>2
  <2>4. step[<<i + 1, f[i]>>] = f[i] \div 256
    BY <2>1, <2>3
  <2>5. g[i] = f[i + 1] /\ g[i - 1] = f[i]
    BY <2>1
  <2> HIDE DEF step, g
  <2>6. QED
    BY <2>2, <2>4, <2>5
<1>4. g[0] = n
  BY <1>2 DEF Stepped
<1>5. \A i \in 0..8 : g[i] \in Nat
  <2>1. \A i \in 1..9 : f[i] \in Nat
    BY <1>2 DEF Stepped
  <2>2. \A i \in 0..8 : i + 1 \in 1..9
    OBVIOUS
  <2>3. QED
    BY <2>1, <2>2
<1>6. g = [i \in 0..8 |-> g[i]]
  OBVIOUS
<1> HIDE DEF g
<1>7. ASSUME NEW i \in 0..8 PROVE g[i] = IF i = 0 THEN n ELSE g[i - 1] \div 256
  <2>1. CASE i = 0
    BY <1>4, <2>1
  <2>2. CASE i # 0
    <3>1. i \in 1..8
      BY <2>2
    <3>2. QED
      BY <1>3, <2>2, <3>1
  <2>3. QED
    BY <2>1, <2>2
<1>8. Rest(g)
  BY <1>6, <1>7
<1> DEFINE rest == CHOOSE s : Rest(s)
<1>9. Rest(rest)
  <2> HIDE DEF Rest
  <2>1. QED
    BY <1>8
<1>10. Shifted(n) = rest
  BY DEF Shifted
<1> HIDE DEF rest
<1>11. \A i \in 0..8 : rest[i] = IF i = 0 THEN n ELSE rest[i - 1] \div 256
  BY <1>9
<1>12. rest[0] = n /\ \A i \in 1..8 : rest[i] = rest[i - 1] \div 256
  BY <1>11
<1>13. ASSUME NEW i \in 0..8, i > 0 => rest[i - 1] \in Nat PROVE rest[i] \in Nat
  <2>1. CASE i = 0
    BY <1>12, <2>1
  <2>2. CASE i # 0
    <3>1. i \in 1..8 /\ i > 0
      BY <2>2
    <3>2. PICK k \in Nat : k = rest[i - 1]
      BY <1>13, <3>1
    <3>3. k \div 256 \in Nat
      OBVIOUS
    <3>4. QED
      BY <1>12, <3>1, <3>2, <3>3
  <2>3. QED
    BY <2>1, <2>2
<1> DEFINE Bad == {i \in 0..8 : rest[i] \notin Nat}
<1>14. Bad = {}
  <2>1. SUFFICES ASSUME Bad # {} PROVE FALSE
    OBVIOUS
  <2>2. PICK i \in Bad : \A j \in Bad : i <= j
    <3>1. Bad \in SUBSET Nat
      OBVIOUS
    <3> HIDE DEF Bad
    <3>2. QED
      BY <2>1, <3>1, LeastNumber
  <2>3. i > 0 => rest[i - 1] \in Nat
    <3>1. i > 0 => i - 1 \in 0..8 /\ ~(i <= i - 1)
      BY <2>2
    <3>2. QED
      BY <2>2, <3>1
  <2>4. QED
    BY <1>13, <2>2, <2>3
<1>15. QED
  BY <1>10, <1>12, <1>14

Shifts(rest, n) == rest[0] = n /\ \A i \in 1..8 : rest[i] = rest[i - 1] \div 256

LEMMA ShiftedShifts ==
  ASSUME NEW n \in Nat
  PROVE  Shifts(Shifted(n), n)
  BY ShiftedSteps, Zenon DEF Shifts

(* A number's digits to the base 256.                                      *)
LEMMA EncodeTyped ==
  ASSUME NEW n \in Nat, NEW width \in FieldWidths
  PROVE  /\ Encode(n, width) \in Seq(Byte) /\ Len(Encode(n, width)) = width
         /\ \A i \in 1..width : Encode(n, width)[i] = Shifted(n)[i - 1] % 256
<1>1. width \in Nat /\ width <= 8
  BY DEF FieldWidths
<1>2. ASSUME NEW i \in 1..width PROVE Shifted(n)[i - 1] % 256 \in Byte
  <2>1. i - 1 \in 0..8
    BY <1>1
  <2>2. PICK k \in Nat : k = Shifted(n)[i - 1]
    BY <2>1, ShiftedSteps
  <2>3. k % 256 \in 0..255
    OBVIOUS
  <2>4. QED
    BY <2>2, <2>3 DEF Byte
<1>3. Encode(n, width) \in [1..width -> Byte]
  BY <1>2 DEF Encode
<1>4. Encode(n, width) \in Seq(Byte)
  BY <1>1, <1>3, SeqDef
<1>5. Len(Encode(n, width)) = width
  <2>1. DOMAIN Encode(n, width) = 1..width
    BY <1>3
  <2>2. QED
    BY <1>1, <1>4, <2>1, LenProperties
<1>6. QED
  BY <1>4, <1>5 DEF Encode

(* Decoding adds the digits up, from the last to the first.                *)
LEMMA DecodeAdds ==
  ASSUME NEW bytes \in Seq(Byte), Len(bytes) > 0
  PROVE  \E from : /\ from[Len(bytes) + 1] = 0
                   /\ \A i \in 1..Len(bytes) : from[i] = bytes[i] + 256 * from[i + 1]
                   /\ Decode(bytes) = from[1]
<1> DEFINE n == Len(bytes)
           From(f) == f = [i \in 1..n + 1 |-> IF i > n THEN 0
                                              ELSE bytes[i] + 256 * f[i + 1]]
           step == [x \in (2..n + 1) \X Int |-> bytes[n + 2 - x[1]] + 256 * x[2]]
<1>1. n \in Nat /\ n > 0
  BY LenProperties
<1>2. step \in [(2..n + 1) \X Int -> Int]
  <2>1. ASSUME NEW x \in (2..n + 1) \X Int
        PROVE  bytes[n + 2 - x[1]] + 256 * x[2] \in Int
    <3>1. x[1] \in 2..n + 1 /\ x[2] \in Int
      OBVIOUS
    <3>2. n + 2 - x[1] \in 1..n
      BY <1>1, <3>1
    <3>3. bytes[n + 2 - x[1]] \in Byte
      BY <3>2, ElementOfSeq
    <3>4. PICK b \in Byte : b = bytes[n + 2 - x[1]]
      BY <3>3
    <3>5. b + 256 * x[2] \in Int
      BY <3>1 DEF Byte
    <3>6. QED
      BY <3>4, <3>5
  <2>2. QED
    BY <2>1
<1>3. PICK f : Stepped(f, Int, n + 1, 0, step)
  <2>1. n + 1 \in Nat /\ n + 1 > 0 /\ 0 \in Int
    BY <1>1
  <2> HIDE DEF step, n
  <2>2. QED
    BY <1>2, <2>1, StepByStep
<1> DEFINE g == [i \in 1..n + 1 |-> f[n + 2 - i]]
<1>4. ASSUME NEW i \in 1..n PROVE g[i] = bytes[i] + 256 * g[i + 1]
  <2> DEFINE j == n + 2 - i
  <2>1. /\ j \in 2..n + 1 /\ j - 1 \in 1..n + 1 /\ n + 2 - j = i
        /\ i \in 1..n + 1 /\ i + 1 \in 1..n + 1 /\ n + 2 - (i + 1) = j - 1
    BY <1>1
  <2>2. g[i] = f[j] /\ g[i + 1] = f[j - 1]
    BY <2>1
  <2> HIDE DEF g, j
  <2>3. f[j] = step[<<j, f[j - 1]>>] /\ f[j - 1] \in Int
    <3> HIDE DEF step, n
    <3>1. QED
      BY <1>3, <2>1 DEF Stepped
  <2>4. <<j, f[j - 1]>> \in (2..n + 1) \X Int
    BY <2>1, <2>3
  <2>5. step[<<j, f[j - 1]>>] = bytes[n + 2 - j] + 256 * f[j - 1]
    BY <2>4
  <2> HIDE DEF step
  <2>6. QED
    BY <2>1, <2>2, <2>3, <2>5
<1>5. g[n + 1] = 0
  <2>1. n + 1 \in 1..n + 1 /\ n + 2 - (n + 1) = 1
    BY <1>1
  <2>2. f[1] = 0
    BY <1>3 DEF Stepped
  <2>3. QED
    BY <2>1, <2>2
<1>6. g = [i \in 1..n + 1 |-> g[i]]
  OBVIOUS
<1> HIDE DEF g
<1>7. ASSUME NEW i \in 1..n + 1
      PROVE  g[i] = IF i > n THEN 0 ELSE bytes[i] + 256 * g[i + 1]
  <2>1. CASE i = n + 1
    BY <1>1, <1>5, <2>1
  <2>2. CASE i # n + 1
    <3>1. i \in 1..n /\ ~(i > n)
      BY <1>1, <2>2
    <3>2. QED
      BY <1>4, <3>1
  <2>3. QED
    BY <2>1, <2>2
<1>8. From(g)
  BY <1>6, <1>7
<1> DEFINE from == CHOOSE s : From(s)
<1>9. From(from)
  <2> HIDE DEF From
  <2>1. QED
    BY <1>8
<1>10. Decode(bytes) = from[1]
  BY DEF Decode
<1> HIDE DEF from
<1>11. \A i \in 1..n + 1 : from[i] = IF i > n THEN 0 ELSE bytes[i] + 256 * from[i + 1]
  BY <1>9
<1>12. from[n + 1] = 0 /\ \A i \in 1..n : from[i] = bytes[i] + 256 * from[i + 1]
  <2>1. n + 1 \in 1..n + 1 /\ n + 1 > n
        /\ \A i \in 1..n : i \in 1..n + 1 /\ ~(i > n)
    BY <1>1
  <2> HIDE DEF n
  <2>2. QED
    BY <1>11, <2>1
<1>13. QED
  BY <1>10, <1>12

(* What is encoded is decoded again, if it fits.                           *)
LEMMA DecodeEncode ==
  ASSUME NEW n \in Nat, NEW width \in FieldWidths, Fits(n, width)
  PROVE  Decode(Encode(n, width)) = n
<1> DEFINE bytes == Encode(n, width)
           rest == Shifted(n)
<1>1. width \in Nat /\ width > 0 /\ width <= 8
  BY DEF FieldWidths
<1>2. bytes \in Seq(Byte) /\ Len(bytes) = width
      /\ \A i \in 1..width : bytes[i] = rest[i - 1] % 256
  BY EncodeTyped
<1>3. /\ rest[0] = n /\ rest[width] = 0
      /\ \A i \in 1..8 : rest[i] = rest[i - 1] \div 256
      /\ \A i \in 0..8 : rest[i] \in Nat
  BY ShiftedSteps DEF Fits
<1> HIDE DEF bytes, rest
<1>4. PICK from : /\ from[width + 1] = 0
                  /\ \A i \in 1..width : from[i] = bytes[i] + 256 * from[i + 1]
                  /\ Decode(bytes) = from[1]
  <2>1. Len(bytes) > 0
    BY <1>1, <1>2
  <2>2. QED
    BY <1>2, <2>1, DecodeAdds
(* from[k + 1] = rest[k], from the last byte to the first.                 *)
<1> DEFINE Bad == {j \in 0..width : from[width - j + 1] # rest[width - j]}
<1>5. Bad = {}
  <2>1. SUFFICES ASSUME Bad # {} PROVE FALSE
    OBVIOUS
  <2>2. PICK j \in Bad : \A k \in Bad : j <= k
    <3>1. Bad \in SUBSET Nat
      BY <1>1
    <3> HIDE DEF Bad
    <3>2. QED
      BY <2>1, <3>1, LeastNumber
  <2>3. j \in 0..width /\ from[width - j + 1] # rest[width - j]
    BY <2>2
  <2>4. j # 0
    <3>1. width - 0 + 1 = width + 1 /\ width - 0 = width
      BY <1>1
    <3>2. QED
      BY <1>3, <1>4, <2>3, <3>1
  <2>5. PICK i \in 1..width : i = width - j + 1
    BY <1>1, <2>3, <2>4
  <2>6. /\ j - 1 \in 0..width /\ ~(j <= j - 1) /\ width - (j - 1) + 1 = i + 1
        /\ width - (j - 1) = i /\ width - j = i - 1 /\ i \in 1..8 /\ i - 1 \in 0..8
    BY <1>1, <2>3, <2>4, <2>5
  <2>7. from[i + 1] = rest[i]
    <3>1. j - 1 \notin Bad
      BY <2>2, <2>6
    <3>2. from[width - (j - 1) + 1] = rest[width - (j - 1)]
      BY <2>6, <3>1
    <3>3. QED
      BY <2>6, <3>2
  <2>8. PICK k \in Nat : k = rest[i - 1]
    BY <1>3, <2>6
  <2>9. rest[i] = k \div 256 /\ bytes[i] = k % 256
    <3>1. rest[i] = rest[i - 1] \div 256
      BY <1>3, <2>6
    <3>2. bytes[i] = rest[i - 1] % 256
      BY <1>2, <2>5
    <3>3. QED
      BY <2>8, <3>1, <3>2
  <2>10. (k % 256) + 256 * (k \div 256) = k
    OBVIOUS
  <2>11. from[i] = k
    BY <1>4, <2>7, <2>9, <2>10
  <2>12. QED
    BY <2>3, <2>5, <2>6, <2>8, <2>11
<1>6. from[1] = rest[0]
  <2>1. width \in 0..width /\ width - width + 1 = 1 /\ width - width = 0
    BY <1>1
  <2>2. from[width - width + 1] = rest[width - width]
    BY <1>5, <2>1
  <2>3. QED
    BY <2>1, <2>2
<1>7. QED
  BY <1>3, <1>4, <1>6 DEF bytes

(* The low byte of a number and the rest.                                 *)
Splits(k, b, n) == k % 256 = b /\ k \div 256 = n

LEMMA LowByte ==
  ASSUME NEW b \in 0..255, NEW n \in Nat, NEW k, k = b + 256 * n
  PROVE  Splits(k, b, n)
<1>1. k \in Nat
  OBVIOUS
<1>2. k % 256 \in 0..255 /\ k \div 256 \in Nat /\ k = (k % 256) + 256 * (k \div 256)
  BY <1>1
<1>3. PICK c \in 0..255, m \in Nat : c = k % 256 /\ m = k \div 256
  BY <1>2
<1>4. b + 256 * n = c + 256 * m
  BY <1>2, <1>3
<1>5. b = c /\ n = m
  BY <1>4
<1>6. QED
  BY <1>3, <1>5 DEF Splits

(* Decoding and encoding again gives the same bytes, and every number that *)
(* is decoded fits.                                                        *)
LEMMA EncodeDecode ==
  ASSUME NEW width \in FieldWidths, NEW bytes \in Seq(Byte), Len(bytes) = width
  PROVE  /\ Decode(bytes) \in Nat /\ Fits(Decode(bytes), width)
         /\ Encode(Decode(bytes), width) = bytes
<1>1. width \in Nat /\ width > 0 /\ width <= 8
  BY DEF FieldWidths
<1>2. PICK from : /\ from[width + 1] = 0
                  /\ \A i \in 1..width : from[i] = bytes[i] + 256 * from[i + 1]
                  /\ Decode(bytes) = from[1]
  BY <1>1, DecodeAdds
<1>3. \A i \in 1..width : bytes[i] \in Byte
  BY ElementOfSeq
<1> DEFINE Bad == {j \in 0..width : from[width - j + 1] \notin Nat}
<1>4. Bad = {}
  <2>1. SUFFICES ASSUME Bad # {} PROVE FALSE
    OBVIOUS
  <2>2. PICK j \in Bad : \A k \in Bad : j <= k
    <3>1. Bad \in SUBSET Nat
      BY <1>1
    <3> HIDE DEF Bad
    <3>2. QED
      BY <2>1, <3>1, LeastNumber
  <2>3. j \in 0..width /\ from[width - j + 1] \notin Nat
    BY <2>2
  <2>4. j # 0
    <3>1. width - 0 + 1 = width + 1
      BY <1>1
    <3>2. QED
      BY <1>2, <2>3, <3>1
  <2>5. PICK i \in 1..width : i = width - j + 1
    BY <1>1, <2>3, <2>4
  <2>6. j - 1 \in 0..width /\ ~(j <= j - 1) /\ width - (j - 1) + 1 = i + 1
    BY <1>1, <2>3, <2>4, <2>5
  <2>7. from[i + 1] \in Nat
    <3>1. j - 1 \notin Bad
      BY <2>2, <2>6
    <3>2. QED
      BY <2>6, <3>1
  <2>8. from[i] = bytes[i] + 256 * from[i + 1] /\ bytes[i] \in Byte
    BY <1>2, <1>3
  <2>9. from[i] \in Nat
    <3>1. PICK b \in Byte : b = bytes[i]
      BY <2>8
    <3>2. PICK f \in Nat : f = from[i + 1]
      BY <2>7
    <3>3. b + 256 * f \in Nat
      BY DEF Byte
    <3>4. QED
      BY <2>8, <3>1, <3>2, <3>3
  <2>10. QED
    BY <2>3, <2>5, <2>9
<1>5. \A i \in 1..width + 1 : from[i] \in Nat
  <2>1. ASSUME NEW i \in 1..width + 1 PROVE from[i] \in Nat
    <3>1. width - i + 1 \in 0..width /\ width - (width - i + 1) + 1 = i
      BY <1>1
    <3>2. from[width - (width - i + 1) + 1] \in Nat
      BY <1>4, <3>1
    <3>3. QED
      BY <3>1, <3>2
  <2>2. QED
    BY <2>1
<1>6. Decode(bytes) \in Nat
  <2>1. 1 \in 1..width + 1
    BY <1>1
  <2>2. QED
    BY <1>2, <1>5, <2>1
<1> DEFINE rest == Shifted(from[1])
<1>7. Shifts(rest, from[1])
  <2>1. from[1] \in Nat
    BY <1>2, <1>6
  <2>2. QED
    BY <2>1, ShiftedShifts
<1> HIDE DEF rest
(* rest[j] = from[j + 1], from the first byte to the last.                 *)
<1>8. ASSUME NEW i \in 1..width, rest[i - 1] = from[i]
      PROVE  rest[i - 1] % 256 = bytes[i] /\ rest[i] = from[i + 1]
  <2>1. i \in 1..8 /\ i + 1 \in 1..width + 1
    BY <1>1
  <2>2. PICK b \in 0..255, f \in Nat : b = bytes[i] /\ f = from[i + 1]
    BY <1>3, <1>5, <2>1 DEF Byte
  <2>3. from[i] = b + 256 * f
    BY <1>2, <2>2
  <2>4. Splits(from[i], b, f)
    BY <2>3, LowByte
  <2>5. rest[i - 1] % 256 = b
    BY <1>8, <2>4 DEF Splits
  <2>6. rest[i] = f
    <3>1. rest[i] = rest[i - 1] \div 256
      BY <1>7, <2>1, Zenon DEF Shifts
    <3>2. QED
      BY <1>8, <2>4, <3>1 DEF Splits
  <2>7. QED
    BY <2>2, <2>5, <2>6
<1> DEFINE Wrong == {j \in 0..width : rest[j] # from[j + 1]}
<1>9. Wrong = {}
  <2>1. SUFFICES ASSUME Wrong # {} PROVE FALSE
    OBVIOUS
  <2>2. PICK j \in Wrong : \A k \in Wrong : j <= k
    <3>1. Wrong \in SUBSET Nat
      BY <1>1
    <3> HIDE DEF Wrong
    <3>2. QED
      BY <2>1, <3>1, LeastNumber
  <2>3. j \in 0..width /\ rest[j] # from[j + 1]
    BY <2>2
  <2>4. j # 0
    BY <1>7, <2>3 DEF Shifts
  <2>5. j \in 1..width /\ j - 1 \in 0..width /\ ~(j <= j - 1) /\ (j - 1) + 1 = j
    BY <1>1, <2>3, <2>4
  <2>6. rest[j - 1] = from[j]
    BY <2>2, <2>5
  <2>7. QED
    BY <1>8, <2>3, <2>5, <2>6
<1>10. rest[width] = 0
  BY <1>1, <1>2, <1>9
<1>11. ASSUME NEW i \in 1..width PROVE Encode(Decode(bytes), width)[i] = bytes[i]
  <2>1. i - 1 \in 0..width /\ (i - 1) + 1 = i
    BY <1>1
  <2>2. rest[i - 1] = from[i]
    BY <1>9, <2>1
  <2>3. rest[i - 1] % 256 = bytes[i]
    BY <1>8, <2>2
  <2>4. QED
    BY <1>2, <2>3 DEF Encode, rest
<1>12. Encode(Decode(bytes), width) = bytes
  <2>1. DOMAIN Encode(Decode(bytes), width) = 1..width
        /\ Encode(Decode(bytes), width) = [i \in 1..width |-> Encode(Decode(bytes), width)[i]]
    BY DEF Encode
  <2>2. bytes = [i \in 1..width |-> bytes[i]]
    BY LenProperties
  <2>3. QED
    BY <1>11, <2>1, <2>2
<1>13. QED
  BY <1>2, <1>6, <1>10, <1>12 DEF Fits, rest
-----------------------------------------------------------------------------
(* SPELLINGS                                                               *)

=============================================================================
