----------------------------- MODULE WordsProofs ----------------------------
(***************************************************************************)
(* Facts about words that their definitions by bits do not show: the laws  *)
(* of arithmetic modulo 2^n, the number a word stands for with and without *)
(* a sign, and what each operation does to it.                             *)
(***************************************************************************)
EXTENDS Words, WellFoundedInduction, TLAPS

\* Truncation yields a word of the width asked for, whatever it truncates.
LEMMA TruncIsWord ==
  ASSUME NEW n, NEW x
  PROVE  Trunc(n, x) \in Words(n)
  BY DEF Trunc, Words

\* So do addition and subtraction: they wrap.
LEMMA AddIsWord ==
  ASSUME NEW n, NEW x, NEW y
  PROVE  Add(n, x, y) \in Words(n)
<1>1. \A a, b : Sum3(n, a, b, FALSE) \subseteq Bits(n)
  BY DEF Sum3
<1> QED BY <1>1 DEF Add, Words

\* Zero is a word of any width.
LEMMA ZeroIsWord == \A n : {} \in Words(n)
  BY DEF Words

\* The pairs that + and - are defined with hold one pair each.
LEMMA SumsAreSum3 ==
  ASSUME NEW n, NEW x, NEW y
  PROVE  /\ Add(n, x, y) = Sum3(n, x, y, FALSE)
         /\ Sub(n, x, y) = Sum3(n, x, Not(n, y), TRUE)
<1>1. \A p, c : UNION {Sum3(n, q[1], q[2], c) : q \in {p}} = Sum3(n, p[1], p[2], c)
  <2> TAKE p, c
  <2>1. {Sum3(n, q[1], q[2], c) : q \in {p}} = {Sum3(n, p[1], p[2], c)}
    BY Zenon
  <2>2. \A S : UNION {S} = S
    BY Zenon
  <2> QED BY <2>1, <2>2, Zenon
<1>2. <<x, y>>[1] = x /\ <<x, y>>[2] = y /\ <<x, Not(n, y)>>[1] = x /\ <<x, Not(n, y)>>[2] = Not(n, y)
  OBVIOUS
<1>3. Add(n, x, y) = Sum3(n, <<x, y>>[1], <<x, y>>[2], FALSE)
  BY <1>1, Zenon DEF Add
<1>4. Sub(n, x, y) = Sum3(n, <<x, Not(n, y)>>[1], <<x, Not(n, y)>>[2], TRUE)
  BY <1>1, Zenon DEF Sub
<1> QED BY <1>2, <1>3, <1>4, Zenon

\* A difference wraps to a word as well.
LEMMA SubIsWord ==
  ASSUME NEW n, NEW x, NEW y
  PROVE  Sub(n, x, y) \in Words(n)
<1>1. \A a, b : Sum3(n, a, b, TRUE) \subseteq Bits(n)
  BY DEF Sum3
<1> QED BY <1>1, SumsAreSum3 DEF Words

-----------------------------------------------------------------------------
(* Carries *)

\* Bits are naturals, so a property that passes from each bit to the next
\* one holds up to the width of the word.
LEMMA UpToTheWidth ==
  ASSUME NEW n \in Nat, NEW S, 0 \in S, \A i \in Bits(n) : i \in S => i + 1 \in S
  PROVE  \A i \in 0..n : i \in S
<1> SUFFICES ASSUME NEW b \in 0..n, b \notin S
             PROVE  FALSE
  OBVIOUS
<1> DEFINE T == {i \in 0..n : i \notin S}
           R == OpToRel(<, Nat)
<1>1. IsWellFoundedOn(R, Nat)
  BY NatLessThanWellFounded
<1>2. T \subseteq Nat /\ T # {}
  OBVIOUS
<1> HIDE DEF R
<1>3. PICK m \in T : \A k \in T : ~(<<k, m>> \in R)
  BY <1>1, <1>2, WFMin
<1>4. m # 0 /\ m - 1 \in Bits(n) /\ m - 1 \in Nat
  BY <1>3 DEF Bits
<1>5. m - 1 \in T
  BY <1>3, <1>4
<1>6. <<m - 1, m>> \in R
  BY <1>2, <1>3, <1>4 DEF R, OpToRel
<1> QED BY <1>3, <1>5, <1>6

\* The carry into bit i of x + y + cin.
Carry(n, x, y, cin, i) ==
  \/ \E j \in x \cap y : j < i /\ \A k \in Bits(n) \ (x \cup y) : k < j \/ k >= i
  \/ cin /\ \A k \in Bits(n) \ (x \cup y) : k >= i

\* No bit carries into bit 0: what does is the carry in.
LEMMA CarryStart ==
  ASSUME NEW n \in Nat, NEW x \in Words(n), NEW y, NEW cin \in BOOLEAN
  PROVE  Carry(n, x, y, cin, 0) <=> cin
  BY DEF Carry, Words, Bits

\* A bit carries on what at least two of the three bits added there are.
LEMMA CarryStep ==
  ASSUME NEW n \in Nat, NEW x \in Words(n), NEW y \in Words(n), NEW cin \in BOOLEAN,
         NEW i \in Bits(n)
  PROVE  Carry(n, x, y, cin, i + 1)
           <=> (i \in x /\ i \in y) \/ ((i \in x \/ i \in y) /\ Carry(n, x, y, cin, i))
  BY DEF Carry, Words, Bits

\* A bit of the sum is the exclusive or of these three.
LEMMA SumBit ==
  ASSUME NEW n, NEW x, NEW y, NEW cin, NEW i \in Bits(n)
  PROVE  i \in Sum3(n, x, y, cin)
           <=> ((i \in x <=> i \in y) <=> Carry(n, x, y, cin, i))
<1>1. i \in Sum3(n, x, y, cin) <=> (((i \in x) # (i \in y)) # Carry(n, x, y, cin, i))
  BY Zenon DEF Sum3, Carry
<1>2. \A a, b, c \in BOOLEAN : ((a # b) # c) <=> ((a <=> b) <=> c)
  OBVIOUS
<1>3. Carry(n, x, y, cin, i) \in BOOLEAN
  BY DEF Carry
<1>4. (i \in x) \in BOOLEAN /\ (i \in y) \in BOOLEAN
  OBVIOUS
<1> QED BY <1>1, <1>2, <1>3, <1>4, Zenon

-----------------------------------------------------------------------------
(* The laws of + and - *)

\* The bits of a sum and of a difference.
LEMMA AddBit ==
  ASSUME NEW n, NEW x, NEW y, NEW i \in Bits(n)
  PROVE  i \in Add(n, x, y) <=> ((i \in x <=> i \in y) <=> Carry(n, x, y, FALSE, i))
<1>1. Add(n, x, y) = Sum3(n, x, y, FALSE)
  BY SumsAreSum3
<1>2. i \in Sum3(n, x, y, FALSE) <=> ((i \in x <=> i \in y) <=> Carry(n, x, y, FALSE, i))
  BY SumBit, Zenon
<1> QED BY <1>1, <1>2, Zenon

\* The bits of a difference: those of x plus not y with a carry in.
LEMMA SubBit ==
  ASSUME NEW n, NEW x, NEW y, NEW i \in Bits(n)
  PROVE  i \in Sub(n, x, y) <=> ((i \in x <=> i \in Not(n, y)) <=> Carry(n, x, Not(n, y), TRUE, i))
<1> DEFINE w == Not(n, y)
<1>1. Sub(n, x, y) = Sum3(n, x, w, TRUE)
  BY SumsAreSum3
<1> HIDE DEF w
<1>2. i \in Sum3(n, x, w, TRUE) <=> ((i \in x <=> i \in w) <=> Carry(n, x, w, TRUE, i))
  BY SumBit, Zenon
<1> QED BY <1>1, <1>2, Zenon DEF w

\* Words with the same bits are the same.
LEMMA SameBits ==
  ASSUME NEW n, NEW x \in Words(n), NEW y \in Words(n), \A i \in Bits(n) : i \in x <=> i \in y
  PROVE  x = y
  BY DEF Words

\* ~x has the width it is taken at.
LEMMA NotIsWord ==
  ASSUME NEW n, NEW x
  PROVE  Not(n, x) \in Words(n)
  BY DEF Not, Words

\* What is subtracted can be added again.
LEMMA SubThenAdd ==
  ASSUME NEW n \in Nat, NEW x \in Words(n), NEW y \in Words(n)
  PROVE  Add(n, Sub(n, x, y), y) = x
<1> DEFINE w == Not(n, y)
           z == Sub(n, x, y)
           C(i) == Carry(n, x, w, TRUE, i)
           D(i) == Carry(n, z, y, FALSE, i)
           S == {i \in 0..n : D(i) <=> ~C(i)}
<1>1. w \in Words(n) /\ z \in Words(n) /\ \A i \in Bits(n) : i \in w <=> i \notin y
  BY NotIsWord, SubIsWord DEF Not
<1>2. \A i \in Bits(n) : i \in z <=> ((i \in x <=> i \in w) <=> C(i))
  BY SubBit, Zenon
<1> HIDE DEF w, z
<1>3. \A i \in Bits(n) : C(i + 1) <=> (i \in x /\ i \in w) \/ ((i \in x \/ i \in w) /\ C(i))
  BY <1>1, CarryStep
<1>4. \A i \in Bits(n) : D(i + 1) <=> (i \in z /\ i \in y) \/ ((i \in z \/ i \in y) /\ D(i))
  BY <1>1, CarryStep
<1>5. C(0) /\ ~D(0)
  BY <1>1, CarryStart
<1>6. \A i \in Bits(n) : i \in Add(n, z, y) <=> ((i \in z <=> i \in y) <=> D(i))
  BY AddBit, Zenon
<1> HIDE DEF C, D
<1>7. 0 \in S
  BY <1>5
<1>8. ASSUME NEW i \in Bits(n), i \in S
      PROVE  i + 1 \in S
  <2>1. D(i + 1) <=> ~C(i + 1)
    BY <1>1, <1>2, <1>3, <1>4, <1>8
  <2> QED BY <2>1 DEF Bits
<1>9. \A i \in Bits(n) : i \in S
  <2> HIDE DEF S
  <2> QED BY <1>7, <1>8, UpToTheWidth DEF Bits
<1>10. \A i \in Bits(n) : i \in Add(n, z, y) <=> i \in x
  BY <1>1, <1>2, <1>6, <1>9
<1> QED BY <1>10, AddIsWord, SameBits DEF z

\* What is added can be subtracted again.
LEMMA AddThenSub ==
  ASSUME NEW n \in Nat, NEW x \in Words(n), NEW y \in Words(n)
  PROVE  Sub(n, Add(n, x, y), y) = x
<1> DEFINE w == Not(n, y)
           z == Add(n, x, y)
           C(i) == Carry(n, x, y, FALSE, i)
           D(i) == Carry(n, z, w, TRUE, i)
           S == {i \in 0..n : D(i) <=> ~C(i)}
<1>1. w \in Words(n) /\ z \in Words(n) /\ \A i \in Bits(n) : i \in w <=> i \notin y
  BY NotIsWord, AddIsWord DEF Not
<1>2. \A i \in Bits(n) : i \in z <=> ((i \in x <=> i \in y) <=> C(i))
  BY AddBit, Zenon
<1>3. \A i \in Bits(n) : i \in Sub(n, z, y) <=> ((i \in z <=> i \in w) <=> D(i))
  BY SubBit, Zenon
<1> HIDE DEF w, z
<1>4. \A i \in Bits(n) : C(i + 1) <=> (i \in x /\ i \in y) \/ ((i \in x \/ i \in y) /\ C(i))
  BY <1>1, CarryStep
<1>5. \A i \in Bits(n) : D(i + 1) <=> (i \in z /\ i \in w) \/ ((i \in z \/ i \in w) /\ D(i))
  BY <1>1, CarryStep
<1>6. D(0) /\ ~C(0)
  BY <1>1, CarryStart
<1> HIDE DEF C, D
<1>7. 0 \in S
  BY <1>6
<1>8. ASSUME NEW i \in Bits(n), i \in S
      PROVE  i + 1 \in S
  <2>1. D(i + 1) <=> ~C(i + 1)
    BY <1>1, <1>2, <1>4, <1>5, <1>8
  <2> QED BY <2>1 DEF Bits
<1>9. \A i \in Bits(n) : i \in S
  <2> HIDE DEF S
  <2> QED BY <1>7, <1>8, UpToTheWidth DEF Bits
<1>10. \A i \in Bits(n) : i \in Sub(n, z, y) <=> i \in x
  BY <1>1, <1>2, <1>3, <1>9
<1> QED BY <1>10, SubIsWord, SameBits DEF z

\* Sums may be regrouped: in each bit the two carries of either grouping add
\* up to the same number.
LEMMA AddAssociates ==
  ASSUME NEW n \in Nat, NEW x \in Words(n), NEW y \in Words(n), NEW z \in Words(n)
  PROVE  Add(n, Add(n, x, y), z) = Add(n, x, Add(n, y, z))
<1> DEFINE l == Add(n, x, y)
           r == Add(n, y, z)
           A(i) == Carry(n, x, y, FALSE, i)
           B(i) == Carry(n, l, z, FALSE, i)
           C(i) == Carry(n, y, z, FALSE, i)
           D(i) == Carry(n, x, r, FALSE, i)
           S == {i \in 0..n : ((A(i) /\ B(i)) <=> (C(i) /\ D(i))) /\ ((A(i) \/ B(i)) <=> (C(i) \/ D(i)))}
<1>1. l \in Words(n) /\ r \in Words(n)
  BY AddIsWord
<1>2. \A i \in Bits(n) : /\ i \in l <=> ((i \in x <=> i \in y) <=> A(i))
                         /\ i \in r <=> ((i \in y <=> i \in z) <=> C(i))
                         /\ i \in Add(n, l, z) <=> ((i \in l <=> i \in z) <=> B(i))
                         /\ i \in Add(n, x, r) <=> ((i \in x <=> i \in r) <=> D(i))
  BY AddBit, Zenon
<1> HIDE DEF l, r
<1>3. \A i \in Bits(n) : /\ A(i + 1) <=> (i \in x /\ i \in y) \/ ((i \in x \/ i \in y) /\ A(i))
                         /\ B(i + 1) <=> (i \in l /\ i \in z) \/ ((i \in l \/ i \in z) /\ B(i))
  BY <1>1, CarryStep
<1>4. \A i \in Bits(n) : /\ C(i + 1) <=> (i \in y /\ i \in z) \/ ((i \in y \/ i \in z) /\ C(i))
                         /\ D(i + 1) <=> (i \in x /\ i \in r) \/ ((i \in x \/ i \in r) /\ D(i))
  BY <1>1, CarryStep
<1>5. ~A(0) /\ ~B(0) /\ ~C(0) /\ ~D(0)
  BY <1>1, CarryStart
<1> HIDE DEF A, B, C, D
<1>6. 0 \in S
  BY <1>5
<1>7. ASSUME NEW i \in Bits(n), i \in S
      PROVE  i + 1 \in S
  <2>1. /\ (A(i + 1) /\ B(i + 1)) <=> (C(i + 1) /\ D(i + 1))
        /\ (A(i + 1) \/ B(i + 1)) <=> (C(i + 1) \/ D(i + 1))
    BY <1>2, <1>3, <1>4, <1>7
  <2> QED BY <2>1 DEF Bits
<1>8. \A i \in Bits(n) : i \in S
  <2> HIDE DEF S
  <2> QED BY <1>6, <1>7, UpToTheWidth DEF Bits
<1>9. \A i \in Bits(n) : i \in Add(n, l, z) <=> i \in Add(n, x, r)
  BY <1>2, <1>8
<1> QED BY <1>9, AddIsWord, SameBits DEF l, r

\* Zero is neutral.
LEMMA AddZero ==
  ASSUME NEW n \in Nat, NEW x \in Words(n)
  PROVE  Add(n, x, {}) = x
<1>1. \A i : ~Carry(n, x, {}, FALSE, i)
  BY DEF Carry
<1>2. \A i \in Bits(n) : i \in Add(n, x, {}) <=> ((i \in x <=> i \in {}) <=> FALSE)
  BY <1>1, AddBit, Zenon
<1>3. \A i \in Bits(n) : i \in Add(n, x, {}) <=> i \in x
  BY <1>2
<1> QED BY <1>3, AddIsWord, SameBits

\* The low m bits of a sum or difference depend on the low m bits only.
LEMMA LowCarries ==
  ASSUME NEW n \in Nat, NEW m \in 0..n, NEW x \in Words(n), NEW y \in Words(n), NEW cin \in BOOLEAN
  PROVE  \A i \in Bits(m) : Carry(n, x, y, cin, i) <=> Carry(m, Trunc(m, x), Trunc(m, y), cin, i)
<1> DEFINE u == Trunc(m, x)
           v == Trunc(m, y)
           C(i) == Carry(n, x, y, cin, i)
           D(i) == Carry(m, u, v, cin, i)
           S == {i \in 0..m : C(i) <=> D(i)}
<1>1. /\ u \in Words(m) /\ v \in Words(m) /\ m \in Nat
      /\ \A i \in Bits(m) : i \in Bits(n) /\ (i \in u <=> i \in x) /\ (i \in v <=> i \in y)
  <2>1. u \in Words(m) /\ v \in Words(m) /\ m \in Nat
    BY TruncIsWord
  <2>2. \A i \in Bits(m) : (i \in u <=> i \in x) /\ (i \in v <=> i \in y)
    BY DEF Trunc
  <2>3. \A i \in Bits(m) : i \in Bits(n)
    BY DEF Bits
  <2> QED BY <2>1, <2>2, <2>3
<1> HIDE DEF u, v
<1>2. \A i \in Bits(m) : C(i + 1) <=> (i \in x /\ i \in y) \/ ((i \in x \/ i \in y) /\ C(i))
  BY <1>1, CarryStep
<1>3. \A i \in Bits(m) : D(i + 1) <=> (i \in u /\ i \in v) \/ ((i \in u \/ i \in v) /\ D(i))
  BY <1>1, CarryStep
<1>4. C(0) <=> D(0)
  <2>1. C(0) <=> cin
    BY CarryStart, Zenon
  <2>2. D(0) <=> cin
    BY <1>1, CarryStart, Zenon
  <2> QED BY <2>1, <2>2, Zenon
<1> HIDE DEF C, D
<1>5. 0 \in S
  BY <1>1, <1>4
<1>6. ASSUME NEW i \in Bits(m), i \in S
      PROVE  i + 1 \in S
  <2>1. C(i + 1) <=> D(i + 1)
    BY <1>1, <1>2, <1>3, <1>6
  <2> QED BY <1>1, <2>1 DEF Bits
<1>7. \A i \in Bits(m) : i \in S
  <2> HIDE DEF S
  <2> QED BY <1>1, <1>5, <1>6, UpToTheWidth DEF Bits
<1> QED BY <1>7 DEF C, D, u, v

\* The low bits of a sum depend on the low bits of the operands alone.
LEMMA TruncAdd ==
  ASSUME NEW n \in Nat, NEW m \in 0..n, NEW x \in Words(n), NEW y \in Words(n)
  PROVE  Trunc(m, Add(n, x, y)) = Add(m, Trunc(m, x), Trunc(m, y))
<1>1. \A i \in Bits(m) : i \in Bits(n)
  BY DEF Bits
<1>2. \A i \in Bits(m) : i \in Add(n, x, y) <=> ((i \in x <=> i \in y) <=> Carry(n, x, y, FALSE, i))
  BY <1>1, AddBit, Zenon
<1>3. \A i \in Bits(m) : i \in Add(m, Trunc(m, x), Trunc(m, y))
        <=> ((i \in Trunc(m, x) <=> i \in Trunc(m, y)) <=> Carry(m, Trunc(m, x), Trunc(m, y), FALSE, i))
  BY AddBit, Zenon
<1>4. \A i \in Bits(m) : Carry(n, x, y, FALSE, i) <=> Carry(m, Trunc(m, x), Trunc(m, y), FALSE, i)
  BY LowCarries
<1>5. \A a : \A i \in Bits(m) : i \in Trunc(m, a) <=> i \in a
  BY DEF Trunc
<1>6. \A i \in Bits(m) : i \in Trunc(m, Add(n, x, y)) <=> i \in Add(m, Trunc(m, x), Trunc(m, y))
  BY <1>2, <1>3, <1>4, <1>5, Zenon
<1> QED BY <1>6, TruncIsWord, AddIsWord, SameBits

\* So do those of a difference.
LEMMA TruncSub ==
  ASSUME NEW n \in Nat, NEW m \in 0..n, NEW x \in Words(n), NEW y \in Words(n)
  PROVE  Trunc(m, Sub(n, x, y)) = Sub(m, Trunc(m, x), Trunc(m, y))
<1>1. Trunc(m, y) \in Words(m) /\ Trunc(m, Sub(n, x, y)) \in Words(m) /\ Trunc(m, x) \in Words(m)
  BY TruncIsWord
<1>2. Trunc(m, Add(n, Sub(n, x, y), y)) = Trunc(m, x)
  BY SubThenAdd
<1>3. Add(m, Trunc(m, Sub(n, x, y)), Trunc(m, y)) = Trunc(m, x)
  BY <1>2, SubIsWord, TruncAdd
<1>4. m \in Nat
  OBVIOUS
<1> QED BY <1>1, <1>3, <1>4, AddThenSub

-----------------------------------------------------------------------------
(* Literals *)

\* The increments of pc as words.
LEMMA NumLiterals == Num(0) = {} /\ Num(2) = {1} /\ Num(4) = {2}
<1> DEFINE P(i) == /\ (0 \div 2^i) % 2 # 1
                   /\ (2 \div 2^i) % 2 = 1 <=> i = 1
                   /\ (4 \div 2^i) % 2 = 1 <=> i = 2
<1>1. /\ P(0) /\ P(1) /\ P(2) /\ P(3) /\ P(4) /\ P(5) /\ P(6) /\ P(7) /\ P(8) /\ P(9) /\ P(10)
      /\ P(11) /\ P(12) /\ P(13) /\ P(14) /\ P(15) /\ P(16) /\ P(17) /\ P(18) /\ P(19) /\ P(20)
      /\ P(21) /\ P(22) /\ P(23) /\ P(24) /\ P(25) /\ P(26) /\ P(27) /\ P(28) /\ P(29) /\ P(30)
  OBVIOUS
<1> HIDE DEF P
<1>2. \A i \in 0..30 : P(i)
  BY <1>1
<1> HIDE DEF P
<1>3. \A i \in 0..30 : (i \in Num(0) <=> i \in {}) /\ (i \in Num(2) <=> i = 1) /\ (i \in Num(4) <=> i = 2)
  BY <1>2, Zenon DEF P, Num
<1>4. \A k : Num(k) \subseteq 0..30
  BY DEF Num
<1> QED BY <1>3, <1>4

\* 2 + 2 = 4, on words wide enough for it.
LEMMA TwiceTwo ==
  ASSUME NEW n \in Nat, n > 2
  PROVE  Add(n, {1}, {1}) = {2}
<1> DEFINE C(i) == Carry(n, {1}, {1}, FALSE, i)
<1>1. {0, 1, 2} \subseteq Bits(n) /\ {1} \in Words(n) /\ {2} \in Words(n)
  BY DEF Bits, Words
<1>2. \A i \in Bits(n) : C(i + 1) <=> i = 1
  BY <1>1, CarryStep
<1>3. ~C(0)
  BY <1>1, CarryStart
<1>4. \A i \in Bits(n) : C(i) <=> i = 2
  <2> TAKE i \in Bits(n)
  <2>1. i # 0 => i - 1 \in Bits(n) /\ (i - 1) + 1 = i
    BY DEF Bits
  <2> HIDE DEF C
  <2> QED BY <1>2, <1>3, <2>1 DEF Bits
<1>5. \A i \in Bits(n) : i \in Add(n, {1}, {1}) <=> ((i \in {1} <=> i \in {1}) <=> C(i))
  BY <1>1, AddBit, Zenon
<1>6. \A i \in Bits(n) : i \in Add(n, {1}, {1}) <=> i \in {2}
  BY <1>4, <1>5, Zenon
<1> QED BY <1>1, <1>6, AddIsWord, SameBits

-----------------------------------------------------------------------------
(* The numbers words stand for. Val is a natural below 2^n, the order of   *)
(* words is that of their numbers, and + and - of words are those of       *)
(* numbers modulo 2^n. 2^n is Val({n}).                                    *)


\* The bit of x at position i as a number, and the step of From.
Digit(x, i) == IF i \in x THEN 1 ELSE 0
Step(x, f, i) == IF \A j \in x : j < i THEN 0 ELSE 2 * f[i + 1] + IF i \in x THEN 1 ELSE 0

\* Bits are as well reached from the top of the word downwards.
LEMMA DownToZero ==
  ASSUME NEW n \in Nat, NEW S, n \in S, \A i \in Bits(n) : i + 1 \in S => i \in S
  PROVE  \A i \in 0..n : i \in S
<1> DEFINE T == {d \in 0..n : n - d \in S}
<1>1. 0 \in T
  OBVIOUS
<1>2. \A d \in Bits(n) : d \in T => d + 1 \in T
  <2> SUFFICES ASSUME NEW d \in Bits(n), d \in T
               PROVE  d + 1 \in T
    OBVIOUS
  <2>1. n - (d + 1) \in Bits(n) /\ (n - (d + 1)) + 1 = n - d /\ d + 1 \in 0..n
    BY DEF Bits
  <2> QED BY <2>1
<1>3. \A d \in 0..n : d \in T
  <2> HIDE DEF T
  <2> QED BY <1>1, <1>2, UpToTheWidth
<1> SUFFICES ASSUME NEW i \in 0..n PROVE i \in S
  OBVIOUS
<1>4. n - i \in 0..n /\ n - (n - i) = i
  OBVIOUS
<1> QED BY <1>3, <1>4

\* The recursion of From has a solution: from the width of the word down to
\* bit 0, each value is given by the one above it.
LEMMA FromExists ==
  ASSUME NEW n \in Nat, NEW x \in Words(n)
  PROVE  \E f : f = [i \in Nat |-> Step(x, f, i)]
<1> DEFINE Solves(f, d) == \A i \in Nat : i >= n - d => f[i] = Step(x, f, i)
           S == {d \in 0..n : \E f \in [Nat -> Nat] : Solves(f, d)}
<1>1. \A i \in Nat : i >= n => \A j \in x : j < i
  BY DEF Words, Bits
<1>2. 0 \in S
  <2> DEFINE f == [i \in Nat |-> 0]
  <2>1. f \in [Nat -> Nat] /\ Solves(f, 0)
    BY <1>1 DEF Step
  <2> QED BY <2>1
<1>3. \A d \in Bits(n) : d \in S => d + 1 \in S
  <2> SUFFICES ASSUME NEW d \in Bits(n), d \in S
               PROVE  d + 1 \in S
    OBVIOUS
  <2>1. PICK f \in [Nat -> Nat] : Solves(f, d)
    OBVIOUS
  <2> DEFINE m == n - d - 1
             g == [f EXCEPT ![m] = Step(x, f, m)]
  <2>2. m \in Nat /\ d + 1 \in 0..n /\ n - (d + 1) = m /\ n - d = m + 1
    BY DEF Bits
  <2>3. Step(x, f, m) \in Nat
    BY <2>2 DEF Step
  <2>4. g \in [Nat -> Nat]
    BY <2>2, <2>3
  <2>5. \A i \in Nat : i >= m => Step(x, g, i) = Step(x, f, i)
    BY <2>2 DEF Step
  <2>6. \A i \in Nat : i >= m + 1 => g[i] = f[i]
    BY <2>2
  <2>7. g[m] = Step(x, f, m)
    BY <2>2
  <2> HIDE DEF g, m
  <2>8. \A i \in Nat : i >= m => g[i] = Step(x, g, i)
    <3> TAKE i \in Nat
    <3>1. CASE i = m
      BY <2>2, <2>5, <2>7, <3>1
    <3>2. CASE i >= m + 1
      BY <2>1, <2>2, <2>5, <2>6, <3>2
    <3> QED BY <2>2, <3>1, <3>2
  <2>9. Solves(g, d + 1)
    BY <2>2, <2>8
  <2> QED BY <2>2, <2>4, <2>9
<1>4. n \in S
  <2> HIDE DEF S
  <2>1. \A i \in 0..n : i \in S
    BY <1>2, <1>3, UpToTheWidth
  <2> QED BY <2>1
<1>5. PICK f \in [Nat -> Nat] : Solves(f, n)
  BY <1>4
<1>6. \A i \in Nat : f[i] = Step(x, f, i)
  BY <1>5
<1>7. f = [i \in Nat |-> f[i]]
  OBVIOUS
<1> QED BY <1>6, <1>7

\* So From is one.
LEMMA FromSolves ==
  ASSUME NEW n \in Nat, NEW x \in Words(n)
  PROVE  From(x) = [i \in Nat |-> Step(x, From(x), i)]
<1>1. From(x) = CHOOSE f : f = [i \in Nat |-> Step(x, f, i)]
  BY Zenon DEF From, Step
<1> QED BY <1>1, FromExists, Zenon

\* From by one bit: twice what is above it, and the bit.
LEMMA FromStep ==
  ASSUME NEW n \in Nat, NEW x \in Words(n)
  PROVE  /\ \A i \in Nat : i >= n => From(x)[i] = 0
         /\ \A i \in Nat : From(x)[i] \in Nat
         /\ \A i \in Bits(n) : From(x)[i] = 2 * From(x)[i + 1] + Digit(x, i)
<1>1. \A i \in Nat : From(x)[i] = Step(x, From(x), i)
  BY FromSolves
<1>2. \A i \in Nat : i >= n => \A j \in x : j < i
  BY DEF Words, Bits
<1>3. \A i \in Nat : i >= n => From(x)[i] = 0
  BY <1>1, <1>2 DEF Step
<1> DEFINE S == {i \in 0..n : From(x)[i] \in Nat}
<1>4. n \in S
  BY <1>3
<1>5. \A i \in Bits(n) : i + 1 \in S => i \in S
  BY <1>1 DEF Step, Bits
<1>6. \A i \in 0..n : i \in S
  <2> HIDE DEF S
  <2> QED BY <1>4, <1>5, DownToZero
<1>7. \A i \in Nat : From(x)[i] \in Nat
  BY <1>3, <1>6
<1>8. ASSUME NEW i \in Bits(n)
      PROVE  From(x)[i] = 2 * From(x)[i + 1] + Digit(x, i)
  <2>1. i \in Nat /\ i + 1 \in Nat
    BY DEF Bits
  <2>2. CASE \A j \in x : j < i
    <3>1. i \notin x /\ (\A j \in x : j < i + 1)
      BY <2>1, <2>2 DEF Words, Bits
    <3>2. From(x)[i] = 0 /\ From(x)[i + 1] = 0
      BY <1>1, <2>1, <2>2, <3>1 DEF Step
    <3> QED BY <3>1, <3>2 DEF Digit
  <2>3. CASE ~\A j \in x : j < i
    BY <1>1, <2>1, <2>3 DEF Step, Digit
  <2> QED BY <2>2, <2>3
<1> QED BY <1>3, <1>7, <1>8

-----------------------------------------------------------------------------
(* Order *)

\* Equal bits from i upwards, equal numbers.
LEMMA FromInjective ==
  ASSUME NEW n \in Nat, NEW x \in Words(n), NEW y \in Words(n)
  PROVE  \A i \in 0..n : From(x)[i] = From(y)[i] <=> \A k \in i..(n - 1) : k \in x <=> k \in y
<1> DEFINE S == {i \in 0..n : From(x)[i] = From(y)[i] <=> \A k \in i..(n - 1) : k \in x <=> k \in y}
<1>1. n \in S
  BY FromStep
<1>2. ASSUME NEW i \in Bits(n), i + 1 \in S
      PROVE  i \in S
  <2>1. /\ From(x)[i] = 2 * From(x)[i + 1] + Digit(x, i) /\ From(x)[i + 1] \in Nat
        /\ From(y)[i] = 2 * From(y)[i + 1] + Digit(y, i) /\ From(y)[i + 1] \in Nat
    BY FromStep DEF Bits
  <2>2. i..(n - 1) = {i} \cup ((i + 1)..(n - 1)) /\ i \in 0..n
    BY DEF Bits
  <2>3. (i \in x <=> i \in y) <=> Digit(x, i) = Digit(y, i)
    BY DEF Digit
  <2>4. Digit(x, i) \in {0, 1} /\ Digit(y, i) \in {0, 1}
    BY DEF Digit
  <2>5. From(x)[i] = From(y)[i] <=> From(x)[i + 1] = From(y)[i + 1] /\ Digit(x, i) = Digit(y, i)
    BY <2>1, <2>4
  <2> QED BY <1>2, <2>2, <2>3, <2>5
<1>3. \A i \in 0..n : i \in S
  <2> HIDE DEF S
  <2> QED BY <1>1, <1>2, DownToZero
<1> QED BY <1>3

\* Val is one to one.
LEMMA ValInjective ==
  ASSUME NEW n \in Nat, NEW x \in Words(n), NEW y \in Words(n), Val(x) = Val(y)
  PROVE  x = y
<1>1. \A k \in 0..(n - 1) : k \in x <=> k \in y
  BY FromInjective DEF Val
<1> QED BY <1>1, SameBits DEF Bits

\* The highest bit in which two words differ decides, from any bit upwards.
LEMMA FromOrder ==
  ASSUME NEW n \in Nat, NEW x \in Words(n), NEW y \in Words(n)
  PROVE  \A i \in 0..n : From(x)[i] < From(y)[i]
           <=> \E k \in (y \ x) \cap (i..(n - 1)) : \A j \in x \ y : j < k
<1> DEFINE Above(a, b, i) == \E k \in (b \ a) \cap (i..(n - 1)) : \A j \in a \ b : j < k
           S == {i \in 0..n : /\ From(x)[i] < From(y)[i] <=> Above(x, y, i)
                              /\ From(y)[i] < From(x)[i] <=> Above(y, x, i)}
<1>1. n \in S
  BY FromStep
<1>2. ASSUME NEW i \in Bits(n), i + 1 \in S
      PROVE  i \in S
  <2>1. /\ From(x)[i] = 2 * From(x)[i + 1] + Digit(x, i) /\ From(x)[i + 1] \in Nat
        /\ From(y)[i] = 2 * From(y)[i + 1] + Digit(y, i) /\ From(y)[i + 1] \in Nat
    BY FromStep DEF Bits
  <2>2. i..(n - 1) = {i} \cup ((i + 1)..(n - 1)) /\ i \in 0..n /\ i \in Nat /\ i + 1 \in 0..n
    BY DEF Bits
  <2>3. x \subseteq Nat /\ y \subseteq Nat /\ \A k \in x \cup y : k <= n - 1
    BY DEF Words, Bits
  <2>4. CASE Above(x, y, i + 1)
    <3>1. Above(x, y, i) /\ ~Above(y, x, i)
      BY <2>2, <2>3, <2>4
    <3> QED BY <1>2, <2>1, <2>2, <2>4, <3>1 DEF Digit
  <2>5. CASE Above(y, x, i + 1)
    <3>1. Above(y, x, i) /\ ~Above(x, y, i)
      BY <2>2, <2>3, <2>5
    <3> QED BY <1>2, <2>1, <2>2, <2>5, <3>1 DEF Digit
  <2>6. CASE ~Above(x, y, i + 1) /\ ~Above(y, x, i + 1)
    <3>1. From(x)[i + 1] = From(y)[i + 1]
      BY <1>2, <2>1, <2>6
    <3>2. \A k \in (i + 1)..(n - 1) : k \in x <=> k \in y
      BY <2>2, <3>1, FromInjective
    <3>3. /\ Above(x, y, i) <=> i \in y \ x
          /\ Above(y, x, i) <=> i \in x \ y
      BY <2>2, <2>3, <3>2
    <3> QED BY <2>1, <2>2, <3>1, <3>3 DEF Digit
  <2> QED BY <2>4, <2>5, <2>6
<1>3. \A i \in 0..n : i \in S
  <2> HIDE DEF S
  <2> QED BY <1>1, <1>2, DownToZero
<1> QED BY <1>3

\* The order of words is that of the numbers they stand for.
LEMMA ValOrder ==
  ASSUME NEW n \in Nat, NEW x \in Words(n), NEW y \in Words(n)
  PROVE  LtU(x, y) <=> Val(x) < Val(y)
<1>1. y \ x \subseteq 0..(n - 1)
  BY DEF Words, Bits
<1>2. Val(x) < Val(y) <=> \E k \in (y \ x) \cap (0..(n - 1)) : \A j \in x \ y : j < k
  BY FromOrder DEF Val
<1> QED BY <1>1, <1>2 DEF LtU

\* A word of n bits is below 2^n.
LEMMA ValRange ==
  ASSUME NEW n \in Nat, NEW x \in Words(n)
  PROVE  Val(x) \in Nat /\ Val(x) < Val({n})
<1>1. x \in Words(n + 1) /\ {n} \in Words(n + 1) /\ n + 1 \in Nat
  BY DEF Words, Bits
<1>2. LtU(x, {n})
  BY DEF LtU, Words, Bits
<1>3. Val(x) \in Nat
  BY FromStep DEF Val
<1> QED BY <1>1, <1>2, <1>3, ValOrder

-----------------------------------------------------------------------------
(* Sums and differences *)

\* 2^n halves with every bit below it.
LEMMA FromPower ==
  ASSUME NEW n \in Nat
  PROVE  /\ From({n})[n] = 1
         /\ \A i \in Bits(n) : From({n})[i] = 2 * From({n})[i + 1]
         /\ \A i \in Nat : From({n})[i] \in Nat
<1>1. {n} \in Words(n + 1) /\ n + 1 \in Nat /\ n \in Bits(n + 1) /\ Bits(n) \subseteq Bits(n + 1)
  BY DEF Words, Bits
<1>2. /\ \A i \in Nat : i >= n + 1 => From({n})[i] = 0
      /\ \A i \in Nat : From({n})[i] \in Nat
      /\ \A i \in Bits(n + 1) : From({n})[i] = 2 * From({n})[i + 1] + Digit({n}, i)
  BY <1>1, FromStep
<1>3. \A i \in Bits(n) : Digit({n}, i) = 0
  BY DEF Digit, Bits
<1>4. Digit({n}, n) = 1
  BY DEF Digit
<1>5. \A i \in Bits(n) : i + 1 \in Nat
  BY DEF Bits
<1>6. From({n})[n] = 1
  <2>1. n + 1 >= n + 1
    BY <1>1
  <2>2. From({n})[n + 1] = 0
    BY <1>1, <1>2, <2>1, Zenon
  <2>3. From({n})[n] = 2 * From({n})[n + 1] + Digit({n}, n)
    BY <1>1, <1>2
  <2> QED BY <1>4, <2>2, <2>3
<1>7. ASSUME NEW i \in Bits(n)
      PROVE  From({n})[i] = 2 * From({n})[i + 1]
  <2>1. From({n})[i] = 2 * From({n})[i + 1] + 0
    BY <1>1, <1>2, <1>3
  <2>2. From({n})[i + 1] \in Nat
    BY <1>2, <1>5
  <2> QED BY <2>1, <2>2
<1> QED BY <1>2, <1>6, <1>7

\* A sum with a carry in is that of the numbers, less 2^n if the last bit
\* carries.
LEMMA SumCarries ==
  ASSUME NEW n \in Nat, NEW x \in Words(n), NEW y \in Words(n), NEW cin \in BOOLEAN
  PROVE  Val(x) + Val(y) + (IF cin THEN 1 ELSE 0)
           = Val(Sum3(n, x, y, cin)) + (IF Carry(n, x, y, cin, n) THEN Val({n}) ELSE 0)
<1> DEFINE s == Sum3(n, x, y, cin)
           C(i) == Carry(n, x, y, cin, i)
           In(i) == IF C(i) THEN 1 ELSE 0
           Out(i) == IF C(n) THEN From({n})[i] ELSE 0
           S == {i \in 0..n : From(x)[i] + From(y)[i] + In(i) = From(s)[i] + Out(i)}
<1>1. s \in Words(n)
  BY DEF Sum3, Words
<1>2. \A i \in Bits(n) : i \in s <=> ((i \in x <=> i \in y) <=> C(i))
  BY SumBit
<1>3. \A i \in Bits(n) : C(i + 1) <=> (i \in x /\ i \in y) \/ ((i \in x \/ i \in y) /\ C(i))
  BY CarryStep
<1>4. C(0) <=> cin
  BY CarryStart
<1>5. /\ From({n})[n] = 1
      /\ \A i \in Bits(n) : From({n})[i] = 2 * From({n})[i + 1]
      /\ \A i \in Nat : From({n})[i] \in Nat
  BY FromPower
<1>6. \A w \in {x, y, s} : /\ From(w)[n] = 0
                           /\ \A i \in Nat : From(w)[i] \in Nat
                           /\ \A i \in Bits(n) : From(w)[i] = 2 * From(w)[i + 1] + Digit(w, i)
  BY <1>1, FromStep
<1> HIDE DEF s, C
<1>7. n \in S
  BY <1>5, <1>6
<1>8. ASSUME NEW i \in Bits(n), i + 1 \in S
      PROVE  i \in S
  <2>1. i \in Nat /\ i + 1 \in Nat /\ i \in 0..n
    BY DEF Bits
  <2>2. Digit(x, i) + Digit(y, i) + In(i) = Digit(s, i) + 2 * In(i + 1)
    BY <1>2, <1>3 DEF Digit
  <2>3. Out(i) = 2 * Out(i + 1) /\ Out(i + 1) \in Nat
    <3>1. From({n})[i] = 2 * From({n})[i + 1] /\ From({n})[i + 1] \in Nat
      BY <1>5, <2>1
    <3>2. CASE C(n)
      BY <3>1, <3>2
    <3>3. CASE ~C(n)
      BY <3>3
    <3> QED BY <3>2, <3>3
  <2>4. \A w \in {x, y, s} : Digit(w, i) \in Nat
    BY DEF Digit
  <2>5. In(i) \in Nat /\ In(i + 1) \in Nat
    OBVIOUS
  <2>6. From(x)[i + 1] + From(y)[i + 1] + In(i + 1) = From(s)[i + 1] + Out(i + 1)
    BY <1>8
  <2> HIDE DEF In, Out
  <2>7. /\ From(x)[i] = 2 * From(x)[i + 1] + Digit(x, i) /\ From(x)[i + 1] \in Nat
        /\ From(y)[i] = 2 * From(y)[i + 1] + Digit(y, i) /\ From(y)[i + 1] \in Nat
        /\ From(s)[i] = 2 * From(s)[i + 1] + Digit(s, i) /\ From(s)[i + 1] \in Nat
    BY <1>6, <2>1
  <2>8. From(x)[i] + From(y)[i] + In(i) = From(s)[i] + Out(i)
    <3> DEFINE a == From(x)[i + 1]
               b == From(y)[i + 1]
               c == From(s)[i + 1]
               da == Digit(x, i)
               db == Digit(y, i)
               dc == Digit(s, i)
               p == In(i)
               q == In(i + 1)
               r == Out(i + 1)
    <3>1. /\ a \in Nat /\ b \in Nat /\ c \in Nat /\ da \in Nat /\ db \in Nat /\ dc \in Nat
          /\ p \in Nat /\ q \in Nat /\ r \in Nat
      BY <2>3, <2>4, <2>5, <2>7
    <3>2. a + b + q = c + r /\ da + db + p = dc + 2 * q
      BY <2>2, <2>6
    <3>3. From(x)[i] = 2 * a + da /\ From(y)[i] = 2 * b + db /\ From(s)[i] = 2 * c + dc /\ Out(i) = 2 * r
      BY <2>3, <2>7
    <3>4. From(x)[i] + From(y)[i] + p = From(s)[i] + Out(i)
      <4> HIDE DEF a, b, c, da, db, dc, p, q, r
      <4>1. (2 * a + da) + (2 * b + db) + p = (2 * c + dc) + 2 * r
        BY <3>1, <3>2
      <4> QED BY <3>3, <4>1
    <3> QED BY <3>4
  <2> QED BY <2>1, <2>8
<1>9. \A i \in 0..n : i \in S
  <2> HIDE DEF S
  <2> QED BY <1>7, <1>8, DownToZero
<1>10. From(x)[0] + From(y)[0] + In(0) = From(s)[0] + Out(0)
  BY <1>9
<1> QED BY <1>4, <1>10 DEF Val, s, C

\* Addition is that of numbers modulo 2^n.
LEMMA ValAdd ==
  ASSUME NEW n \in Nat, NEW x \in Words(n), NEW y \in Words(n)
  PROVE  Val(Add(n, x, y)) = IF Val(x) + Val(y) < Val({n}) THEN Val(x) + Val(y)
                             ELSE Val(x) + Val(y) - Val({n})
<1>1. Add(n, x, y) \in Words(n) /\ Add(n, x, y) = Sum3(n, x, y, FALSE)
  BY AddIsWord, SumsAreSum3
<1>2. Val(x) + Val(y) + 0
        = Val(Add(n, x, y)) + (IF Carry(n, x, y, FALSE, n) THEN Val({n}) ELSE 0)
  BY <1>1, SumCarries
<1>3. /\ Val(x) \in Nat /\ Val(y) \in Nat
      /\ Val(Add(n, x, y)) \in Nat /\ Val(Add(n, x, y)) < Val({n})
  BY <1>1, ValRange
<1>4. Val({n}) \in Nat
  BY FromPower DEF Val
<1>5. CASE Carry(n, x, y, FALSE, n)
  <2>1. Val(x) + Val(y) + 0 = Val(Add(n, x, y)) + Val({n})
    BY <1>2, <1>5
  <2> QED BY <1>3, <1>4, <2>1
<1>6. CASE ~Carry(n, x, y, FALSE, n)
  <2>1. Val(x) + Val(y) + 0 = Val(Add(n, x, y)) + 0
    BY <1>2, <1>6
  <2> QED BY <1>3, <1>4, <2>1
<1> QED BY <1>5, <1>6

\* So is subtraction.
LEMMA ValSub ==
  ASSUME NEW n \in Nat, NEW x \in Words(n), NEW y \in Words(n)
  PROVE  Val(Sub(n, x, y)) = IF Val(x) >= Val(y) THEN Val(x) - Val(y)
                             ELSE Val(x) - Val(y) + Val({n})
<1> DEFINE d == Sub(n, x, y)
<1>1. d \in Words(n) /\ Add(n, d, y) = x
  BY SubIsWord, SubThenAdd
<1> HIDE DEF d
<1>2. Val(x) = IF Val(d) + Val(y) < Val({n}) THEN Val(d) + Val(y) ELSE Val(d) + Val(y) - Val({n})
  BY <1>1, ValAdd
<1>3. /\ Val(x) \in Nat /\ Val(y) \in Nat /\ Val(d) \in Nat
      /\ Val(d) < Val({n}) /\ Val(x) < Val({n}) /\ Val(y) < Val({n})
  BY <1>1, ValRange
<1>4. Val({n}) \in Nat
  BY FromPower DEF Val
<1> QED BY <1>2, <1>3, <1>4 DEF d
-----------------------------------------------------------------------------
(* Powers of 2 *)

\* The powers of 2 up to 2^32: each is twice the one before.
LEMMA Powers == 2^0 = 1 /\ \A i \in 0..31 : 2^i \in Nat \ {0} /\ 2^(i + 1) = 2 * 2^i
<1> DEFINE P(i) == 2^i \in Nat \ {0} /\ 2^(i + 1) = 2 * 2^i
<1>1. /\ P(0) /\ P(1) /\ P(2) /\ P(3) /\ P(4) /\ P(5) /\ P(6) /\ P(7) /\ P(8) /\ P(9) /\ P(10)
      /\ P(11) /\ P(12) /\ P(13) /\ P(14) /\ P(15) /\ P(16) /\ P(17) /\ P(18) /\ P(19) /\ P(20)
      /\ P(21) /\ P(22) /\ P(23) /\ P(24) /\ P(25) /\ P(26) /\ P(27) /\ P(28) /\ P(29) /\ P(30)
      /\ P(31)
  OBVIOUS
<1> HIDE DEF P
<1>2. \A i \in 0..31 : P(i)
  BY <1>1
<1>3. 2^0 = 1
  OBVIOUS
<1> QED BY <1>2, <1>3, Zenon DEF P

\* Halving by a power of 2 and then by 2.
LEMMA HalvedAgain ==
  ASSUME NEW k \in Nat, NEW p \in Nat \ {0}
  PROVE  k \div (2 * p) = (k \div p) \div 2 /\ k \div p \in Nat
OBVIOUS

\* Bit i alone stands for 2^i.
LEMMA ValPower ==
  ASSUME NEW n \in 0..32
  PROVE  Val({n}) = 2^n
<1> DEFINE S == {i \in 0..n : From({n})[i] = 2^(n - i)}
<1> n \in Nat
  OBVIOUS
<1>1. From({n})[n] = 1 /\ \A i \in Bits(n) : From({n})[i] = 2 * From({n})[i + 1]
  BY FromPower
<1>2. n \in S
  BY <1>1, Powers
<1>3. ASSUME NEW i \in Bits(n), i + 1 \in S
      PROVE  i \in S
  <2>1. n - (i + 1) \in 0..31 /\ (n - (i + 1)) + 1 = n - i /\ i \in 0..n
    BY DEF Bits
  <2>2. 2^(n - i) = 2 * 2^(n - (i + 1))
    BY <2>1, Powers, Zenon
  <2>3. From({n})[i] = 2 * From({n})[i + 1] /\ From({n})[i + 1] = 2^(n - (i + 1))
    BY <1>1, <1>3
  <2> QED BY <2>1, <2>2, <2>3, Zenon
<1>4. \A i \in 0..n : i \in S
  <2> HIDE DEF S
  <2> QED BY <1>2, <1>3, DownToZero
<1>5. From({n})[0] = 2^(n - 0)
  BY <1>4
<1>6. n - 0 = n
  OBVIOUS
<1> QED BY <1>5, <1>6, Zenon DEF Val

\* A literal of the program stands for itself.
LEMMA ValNum ==
  ASSUME NEW k \in Nat, k < 2^31
  PROVE  Num(k) \in Words(31) /\ Val(Num(k)) = k
<1> DEFINE w == Num(k)
           S == {i \in 0..31 : From(w)[i] = k \div 2^i}
<1>1. w \in Words(31)
  BY DEF Num, Words, Bits
<1>2. /\ From(w)[31] = 0
      /\ \A i \in Bits(31) : From(w)[i] = 2 * From(w)[i + 1] + Digit(w, i)
  BY <1>1, FromStep
<1>3. 31 \in S
  <2>1. k \div 2^31 = 0
    BY SMT
  <2> QED BY <1>2, <2>1
<1>4. ASSUME NEW i \in Bits(31), i + 1 \in S
      PROVE  i \in S
  <2>1. i \in 0..30 /\ i \in 0..31
    BY DEF Bits
  <2> DEFINE p == 2^i
             q == k \div p
  <2>2. p \in Nat \ {0} /\ 2^(i + 1) = 2 * p
    BY <2>1, Powers
  <2>3. Digit(w, i) = IF q % 2 = 1 THEN 1 ELSE 0
    BY <2>1 DEF Digit, Num
  <2>4. From(w)[i] = 2 * (k \div (2 * p)) + Digit(w, i)
    BY <1>2, <1>4, <2>2
  <2> HIDE DEF p
  <2>5. k \div (2 * p) = q \div 2 /\ q \in Nat
    BY <2>2, HalvedAgain
  <2> HIDE DEF q
  <2>6. From(w)[i] = q
    BY <2>3, <2>4, <2>5
  <2> QED BY <2>1, <2>6 DEF p, q
<1>5. \A i \in 0..31 : i \in S
  <2> HIDE DEF S
  <2> QED BY <1>3, <1>4, DownToZero
<1>6. From(w)[0] = k \div 2^0
  BY <1>5
<1>7. k \div 1 = k
  OBVIOUS
<1> QED BY <1>1, <1>6, <1>7, Powers, Zenon DEF Val

\* A field of a word is a word of its own width, whatever the word is.
LEMMA SliceIsWord ==
  ASSUME NEW w, NEW lo \in Nat, NEW hi \in Nat, NEW n \in Nat, n = hi - lo + 1
  PROVE  /\ Slice(w, lo, hi, 0) \in Words(n)
         /\ \A i \in Bits(n) : i \in Slice(w, lo, hi, 0) <=> i + lo \in w
<1> DEFINE s == Slice(w, lo, hi, 0)
<1>1. s = {i + 0 - lo : i \in w \cap (lo..hi)}
  BY DEF Slice
<1>2. ASSUME NEW j \in s
      PROVE  j \in Bits(n) /\ j + lo \in w
  <2>1. PICK i \in w \cap (lo..hi) : j = i + 0 - lo
    BY <1>1
  <2>2. i \in lo..hi /\ j + lo = i
    BY <2>1
  <2> QED BY <2>1, <2>2 DEF Bits
<1>3. ASSUME NEW j \in Bits(n), j + lo \in w
      PROVE  j \in s
  <2>1. j + lo \in w \cap (lo..hi) /\ j = (j + lo) + 0 - lo
    BY <1>3 DEF Bits
  <2> QED BY <1>1, <2>1
<1> QED BY <1>2, <1>3 DEF Words

\* A slice moved to position `at` has no bits below it.
LEMMA SlicePlace ==
  ASSUME NEW w, NEW lo \in Nat, NEW hi \in Nat, NEW at \in Nat
  PROVE  Slice(w, lo, hi, at) \subseteq Nat /\ \A i \in Slice(w, lo, hi, at) : i >= at
<1>1. Slice(w, lo, hi, at) = {i + at - lo : i \in w \cap (lo..hi)}
  BY DEF Slice
<1> QED BY <1>1

\* Of two words at most one is below the other, and none is below itself.
LEMMA OrderIsStrict ==
  ASSUME NEW n \in Nat, NEW x \in Words(n), NEW y \in Words(n)
  PROVE  ~LtU(x, x) /\ ~(LtU(x, y) /\ LtU(y, x))
<1>1. (LtU(x, y) <=> Val(x) < Val(y)) /\ (LtU(y, x) <=> Val(y) < Val(x))
  BY ValOrder
<1>2. Val(x) \in Nat /\ Val(y) \in Nat
  BY ValRange
<1>3. ~LtU(x, x)
  BY DEF LtU
<1> QED BY <1>1, <1>2, <1>3

\* The same holds of the signed order.
LEMMA SignedOrderIsStrict ==
  ASSUME NEW n \in Nat \ {0}, NEW x \in Words(n), NEW y \in Words(n)
  PROVE  ~LtS(n, x, x) /\ ~(LtS(n, x, y) /\ LtS(n, y, x))
<1>1. SymDiff(x, {n - 1}) \in Words(n) /\ SymDiff(y, {n - 1}) \in Words(n)
  BY DEF SymDiff, Words, Bits
<1>2. n \in Nat
  OBVIOUS
<1> QED BY <1>1, <1>2, OrderIsStrict DEF LtS

-----------------------------------------------------------------------------
(* Parts of a word *)

\* Words without a common bit add up to their union.
LEMMA DisjointSum ==
  ASSUME NEW n \in Nat, NEW x \in Words(n), NEW y \in Words(n), x \cap y = {}
  PROVE  x \cup y \in Words(n) /\ Val(x \cup y) = Val(x) + Val(y)
<1> DEFINE z == x \cup y
           S == {i \in 0..n : From(z)[i] = From(x)[i] + From(y)[i]}
<1>1. z \in Words(n)
  BY DEF Words
<1>2. \A w \in {x, y, z} : /\ From(w)[n] = 0
                           /\ \A i \in Nat : From(w)[i] \in Nat
                           /\ \A i \in Bits(n) : From(w)[i] = 2 * From(w)[i + 1] + Digit(w, i)
  <2> HIDE DEF z
  <2> QED BY <1>1, FromStep
<1>3. n \in S
  BY <1>2
<1>4. ASSUME NEW i \in Bits(n), i + 1 \in S
      PROVE  i \in S
  <2>1. i \in Nat /\ i + 1 \in Nat /\ i \in 0..n
    BY DEF Bits
  <2>2. Digit(z, i) = Digit(x, i) + Digit(y, i) /\ Digit(x, i) \in Nat /\ Digit(y, i) \in Nat
    BY DEF Digit
  <2>3. From(z)[i + 1] = From(x)[i + 1] + From(y)[i + 1]
    BY <1>4
  <2>4. /\ From(x)[i + 1] \in Nat /\ From(y)[i + 1] \in Nat
        /\ From(x)[i] = 2 * From(x)[i + 1] + Digit(x, i)
        /\ From(y)[i] = 2 * From(y)[i + 1] + Digit(y, i)
        /\ From(z)[i] = 2 * From(z)[i + 1] + Digit(z, i)
    BY <1>2, <2>1
  <2> QED BY <2>1, <2>2, <2>3, <2>4
<1>5. \A i \in 0..n : i \in S
  <2> HIDE DEF S
  <2> QED BY <1>3, <1>4, DownToZero
<1> QED BY <1>1, <1>5 DEF Val

\* Shifting right drops the low bits: what is left is what From counts.
LEMMA ValShiftR ==
  ASSUME NEW n \in Nat, NEW x \in Words(n), NEW k \in Nat
  PROVE  ShiftR(n, x, k) \in Words(n) /\ Val(ShiftR(n, x, k)) = From(x)[k]
<1> DEFINE z == ShiftR(n, x, k)
           S == {i \in 0..n : From(z)[i] = From(x)[i + k]}
<1>1. z \in Words(n)
  BY DEF ShiftR, Words
<1>2. \A w \in {x, z} : /\ \A i \in Nat : i >= n => From(w)[i] = 0
                        /\ \A i \in Bits(n) : From(w)[i] = 2 * From(w)[i + 1] + Digit(w, i)
  BY <1>1, FromStep
<1>3. n \in S
  BY <1>2
<1>4. ASSUME NEW i \in Bits(n), i + 1 \in S
      PROVE  i \in S
  <2>1. i \in Nat /\ i + 1 \in Nat /\ i \in 0..n /\ (i + 1) + k = (i + k) + 1 /\ i + k \in Nat
    BY DEF Bits
  <2>2. From(z)[i + 1] = From(x)[(i + k) + 1]
    BY <1>4, <2>1
  <2>3. From(z)[i] = 2 * From(z)[i + 1] + Digit(z, i)
    BY <1>2
  <2>4. Digit(z, i) = Digit(x, i + k)
    BY DEF ShiftR, Digit
  <2>5. CASE i + k \in Bits(n)
    BY <1>2, <2>1, <2>2, <2>3, <2>4, <2>5
  <2>6. CASE i + k \notin Bits(n)
    <3>1. i + k >= n /\ (i + k) + 1 >= n
      BY <2>1, <2>6 DEF Bits
    <3>2. Digit(x, i + k) = 0
      BY <2>6 DEF Digit, Words
    <3> QED BY <1>2, <2>1, <2>2, <2>3, <2>4, <3>1, <3>2
  <2> QED BY <2>5, <2>6
<1>5. \A i \in 0..n : i \in S
  <2> HIDE DEF S
  <2> QED BY <1>3, <1>4, DownToZero
<1>6. From(z)[0] = From(x)[0 + k] /\ 0 + k = k
  BY <1>5
<1> QED BY <1>1, <1>6 DEF Val

\* 2^0 = 1, and 2^(k + m) is a product.
LEMMA PowersMultiply ==
  ASSUME NEW n \in Nat, NEW k \in 0..n
  PROVE  /\ Val({0}) = 1 /\ Val({n}) \in Nat \ {0}
         /\ Val({n + 1}) = 2 * Val({n})
         /\ From({n})[k] = Val({n - k})
<1>1. ASSUME NEW m \in Nat, NEW j \in 0..m
      PROVE  From({m})[j] = Val({m - j})
  <2>1. {m} \in Words(m + 1) /\ m + 1 \in Nat /\ j \in Nat
    BY DEF Words, Bits
  <2>2. ShiftR(m + 1, {m}, j) = {m - j}
    <3>1. ShiftR(m + 1, {m}, j) \subseteq {m - j}
      BY DEF ShiftR, Bits
    <3>2. m - j \in Bits(m + 1) /\ (m - j) + j = m
      BY DEF Bits
    <3>3. m - j \in ShiftR(m + 1, {m}, j)
      BY <3>2 DEF ShiftR
    <3> QED BY <3>1, <3>3, Zenon
  <2>3. Val(ShiftR(m + 1, {m}, j)) = From({m})[j]
    BY <2>1, ValShiftR, Zenon
  <2> QED BY <2>2, <2>3, Zenon
<1>2. Val({0}) = 1
  <2>1. From({0})[0] = 1
    BY FromPower
  <2> QED BY <2>1 DEF Val
<1>3. Val({n + 1}) = 2 * Val({n})
  <2>1. n + 1 \in Nat /\ 0 \in Bits(n + 1) /\ 1 \in 0..(n + 1) /\ (n + 1) - 1 = n /\ 0 + 1 = 1
    BY DEF Bits
  <2>2. From({n + 1})[0] = 2 * From({n + 1})[0 + 1]
    BY <2>1, FromPower
  <2>3. From({n + 1})[1] = Val({n})
    BY <1>1, <2>1
  <2> QED BY <2>1, <2>2, <2>3 DEF Val
<1>4. Val({n}) \in Nat \ {0}
  <2>1. {} \in Words(n)
    BY DEF Words
  <2>2. Val({}) \in Nat /\ Val({}) < Val({n})
    BY <2>1, ValRange
  <2>3. Val({n}) \in Nat
    BY FromPower DEF Val
  <2> QED BY <2>2, <2>3
<1> QED BY <1>1, <1>2, <1>3, <1>4

\* Short forms of facts that are needed often.
LEMMA PowerIsNat ==
  ASSUME NEW n \in Nat
  PROVE  Val({n}) \in Nat \ {0}
<1>1. 0 \in 0..n
  OBVIOUS
<1> QED BY <1>1, PowersMultiply

\* The empty word stands for 0.
LEMMA ZeroIsZero == Val({}) = 0
<1>1. {} \in Words(0)
  BY DEF Words
<1> QED BY <1>1, FromStep DEF Val

\* Taking one bit more adds that bit.
LEMMA TruncStep ==
  ASSUME NEW n \in Nat, NEW x \in Words(n), NEW i \in Bits(n)
  PROVE  /\ Val(Trunc(i + 1, x)) = Val(Trunc(i, x)) + Digit(x, i) * Val({i})
         /\ Val(Trunc(i, x)) \in Nat /\ Digit(x, i) \in {0, 1}
<1> DEFINE low == Trunc(i, x)
           p == Val({i})
<1>1. i \in Nat /\ i + 1 \in Nat
  BY DEF Bits
<1>2. p \in Nat
  BY <1>1, PowerIsNat
<1>3. low \in Words(i)
  BY DEF Trunc, Words
<1>4. Val(low) \in Nat
  BY <1>1, <1>3, ValRange
<1>5. CASE i \in x
  <2>1. Trunc(i + 1, x) = low \cup {i} /\ low \in Words(i + 1) /\ {i} \in Words(i + 1) /\ low \cap {i} = {}
    BY <1>1, <1>5 DEF Trunc, Bits, Words
  <2>2. Val(low \cup {i}) = Val(low) + p
    BY <1>1, <2>1, DisjointSum
  <2>3. Digit(x, i) = 1 /\ 1 * p = p
    BY <1>2, <1>5 DEF Digit
  <2> HIDE DEF p, low
  <2> QED BY <1>4, <2>1, <2>2, <2>3 DEF p, low
<1>6. CASE i \notin x
  <2>1. Trunc(i + 1, x) = low
    BY <1>1, <1>6 DEF Trunc, Bits, Words
  <2>2. Digit(x, i) = 0
    BY <1>6 DEF Digit
  <2> QED BY <1>2, <1>4, <2>1, <2>2
<1> QED BY <1>5, <1>6

\* A word is its low k bits and 2^k times the rest.
LEMMA Splits ==
  ASSUME NEW n \in Nat, NEW x \in Words(n), NEW k \in 0..n
  PROVE  Val(x) = Val(Trunc(k, x)) + Val({k}) * From(x)[k]
<1> DEFINE P(i) == Val(x) = Val(Trunc(i, x)) + Val({i}) * From(x)[i]
           S == {i \in 0..n : P(i)}
<1>1. \A i \in Nat : From(x)[i] \in Nat
  BY FromStep
<1>2. 0 \in S
  <2>1. Trunc(0, x) = {} /\ {} \in Words(0)
    BY DEF Trunc, Bits, Words
  <2>2. Val({}) = 0
    BY <2>1, FromStep DEF Val
  <2>3. Val({0}) = 1
    BY PowersMultiply
  <2>4. Val(x) \in Nat /\ Val(x) = From(x)[0]
    BY <1>1 DEF Val
  <2> QED BY <2>1, <2>2, <2>3, <2>4
<1>3. ASSUME NEW i \in Bits(n), i \in S
      PROVE  i + 1 \in S
  <2> DEFINE low == Trunc(i, x)
             p == Val({i})
             f == From(x)[i + 1]
  <2>1. i \in Nat /\ i + 1 \in 0..n /\ i \in 0..i
    BY DEF Bits
  <2>2. p \in Nat /\ Val({i + 1}) = 2 * p
    BY <2>1, PowersMultiply
  <2>3. From(x)[i] = 2 * f + Digit(x, i) /\ f \in Nat
    BY <1>1, <2>1, FromStep
  <2>4. Val(Trunc(i + 1, x)) = Val(low) + Digit(x, i) * p
    BY TruncStep
  <2>5. Val(low) \in Nat
    <3>1. low \in Words(i)
      BY DEF Trunc, Words
    <3> QED BY <2>1, <3>1, ValRange
  <2>6. Val(x) = Val(low) + p * From(x)[i]
    BY <1>3
  <2>7. Digit(x, i) \in {0, 1}
    BY DEF Digit
  <2> HIDE DEF low, p, f
  <2>8. Val(low) + p * (2 * f + Digit(x, i)) = (Val(low) + Digit(x, i) * p) + (2 * p) * f
    BY <2>2, <2>3, <2>5, <2>7
  <2> QED BY <2>1, <2>2, <2>3, <2>4, <2>6, <2>8 DEF f
<1>4. \A i \in 0..n : i \in S
  <2> HIDE DEF S
  <2> QED BY <1>2, <1>3, UpToTheWidth
<1> QED BY <1>4

\* 2^n is 2^k times 2^(n - k).
LEMMA PowerProduct ==
  ASSUME NEW n \in Nat, NEW k \in 0..n
  PROVE  Val({n}) = Val({k}) * Val({n - k})
<1> DEFINE m == n - k
           p == Val({k})
<1>1. {n} \in Words(n + 1) /\ n + 1 \in Nat /\ k \in 0..(n + 1) /\ k \in Nat /\ m \in Nat
  BY DEF Words, Bits
<1>2. Val({n}) = Val(Trunc(k, {n})) + p * From({n})[k]
  BY <1>1, Splits
<1>3. Trunc(k, {n}) = {}
  BY DEF Trunc, Bits
<1>4. From({n})[k] = Val({m})
  BY PowersMultiply
<1> HIDE DEF m, p
<1>5. p \in Nat /\ Val({m}) \in Nat
  BY <1>1, PowerIsNat DEF p
<1>6. Val({n}) = 0 + p * Val({m})
  BY <1>2, <1>3, <1>4, ZeroIsZero, Zenon
<1> QED BY <1>5, <1>6 DEF p, m

\* What division of naturals is.
LEMMA Quotients ==
  ASSUME NEW X \in Nat, NEW Y \in Nat \ {0}
  PROVE  /\ X \div Y \in Nat /\ X % Y \in Nat /\ X % Y < Y
         /\ X = Y * (X \div Y) + (X % Y)
         /\ X \div Y <= X
<1>1. X \div Y \in Nat /\ X % Y \in Nat /\ X % Y < Y
  OBVIOUS
<1>2. X = Y * (X \div Y) + (X % Y)
  OBVIOUS
<1>3. \A q, r \in Nat : X = Y * q + r => q <= X
  OBVIOUS
<1> QED BY <1>1, <1>2, <1>3

\* And that there is one only.
LEMMA QuotientIs ==
  ASSUME NEW X \in Int, NEW Y \in Nat \ {0}, NEW q \in Int, NEW r \in 0..(Y - 1), X = Y * q + r
  PROVE  X \div Y = q /\ X % Y = r
<1>1. X \div Y \in Int /\ X % Y \in 0..(Y - 1) /\ X = Y * (X \div Y) + (X % Y)
  OBVIOUS
<1> DEFINE d == X \div Y
           e == X % Y
<1> HIDE DEF d, e
<1>2. d \in Int /\ e \in 0..(Y - 1) /\ Y * d + e = Y * q + r
  BY <1>1 DEF d, e
<1>3. Y * (d - q) = r - e
  BY <1>2
<1>4. ~(d - q >= 1)
  <2> SUFFICES ASSUME d - q >= 1 PROVE FALSE
    OBVIOUS
  <2>1. Y * (d - q) >= Y
    BY <1>2
  <2> QED BY <1>2, <1>3, <2>1
<1>5. ~(d - q <= -1)
  <2> SUFFICES ASSUME d - q <= -1 PROVE FALSE
    OBVIOUS
  <2>1. Y * (d - q) <= -Y
    BY <1>2
  <2> QED BY <1>2, <1>3, <2>1
<1>6. d = q
  BY <1>2, <1>4, <1>5
<1> QED BY <1>2, <1>6 DEF d, e

\* x << k on n bits multiplies by 2^k modulo 2^n.
LEMMA ValShiftL ==
  ASSUME NEW n \in Nat, NEW x \in Words(n), NEW k \in 0..n
  PROVE  /\ ShiftL(n, x, k) \in Words(n)
         /\ From(x)[n - k] \in Nat
         /\ Val(x) * Val({k}) = Val(ShiftL(n, x, k)) + Val({n}) * From(x)[n - k]
<1> DEFINE z == ShiftL(n, x, k)
           m == n - k
           low == Trunc(m, x)
           p == Val({k})
           f == From(x)[m]
<1>1. m \in 0..n /\ m \in Nat /\ z \in Words(n) /\ low \in Words(n)
  BY DEF ShiftL, Words, Trunc, Bits
<1>2. Val(z) = p * Val(low)
  <2>1. Trunc(k, z) = {} /\ {} \in Words(0)
    BY DEF Trunc, ShiftL, Words, Bits
  <2>2. Val({}) = 0
    BY <2>1, FromStep DEF Val
  <2>3. ShiftR(n, z, k) = low
    <3>1. \A i \in Bits(n) : i + k \in z <=> i \in low
      BY DEF ShiftL, Trunc, Words, Bits
    <3>2. ShiftR(n, z, k) \in Words(n)
      BY DEF ShiftR, Words
    <3>3. \A i \in Bits(n) : i \in ShiftR(n, z, k) <=> i \in low
      BY <3>1 DEF ShiftR
    <3> HIDE DEF low, z
    <3> QED BY <1>1, <3>2, <3>3, SameBits
  <2> HIDE DEF low, z
  <2>4. Val(low) = From(z)[k]
    BY <1>1, <2>3, ValShiftR
  <2>5. Val(z) = Val(Trunc(k, z)) + p * From(z)[k]
    BY <1>1, Splits
  <2>6. p \in Nat /\ Val(low) \in Nat
    <3>1. k \in Nat
      OBVIOUS
    <3> QED BY <1>1, <3>1, PowerIsNat, ValRange
  <2> QED BY <2>1, <2>2, <2>4, <2>5, <2>6
<1>3. Val({n}) = p * Val({m})
  BY PowerProduct
<1>4. Val(x) = Val(low) + Val({m}) * f
  BY <1>1, Splits
<1>5. p \in Nat /\ Val({m}) \in Nat /\ f \in Nat /\ Val(low) \in Nat
  <2>1. k \in Nat
    OBVIOUS
  <2> HIDE DEF low, m
  <2> QED BY <1>1, <2>1, PowerIsNat, FromStep, ValRange
<1> HIDE DEF low, z, m, f, p
<1>6. (Val(low) + Val({m}) * f) * p = p * Val(low) + (p * Val({m})) * f
  BY <1>5
<1>7. Val(x) * p = Val(z) + Val({n}) * f
  BY <1>2, <1>3, <1>4, <1>6
<1> QED BY <1>1, <1>5, <1>7 DEF z, f, m, p

-----------------------------------------------------------------------------
(* Numbers back to words *)

\* The function Wrap is defined with exists: k halved again and again.
LEMMA WrapHalves ==
  ASSUME NEW n \in Nat, NEW k \in Nat
  PROVE  \E half \in [0..n -> Nat] :
           /\ half[0] = k
           /\ \A i \in Bits(n) : half[i + 1] = half[i] \div 2
           /\ Wrap(n, k) = {i \in Bits(n) : half[i] % 2 = 1}
<1> DEFINE H(f) == f = [i \in 0..n |-> IF i = 0 THEN k ELSE f[i - 1] \div 2]
           Halves(f, d) == \A i \in 0..d : f[i] = IF i = 0 THEN k ELSE f[i - 1] \div 2
           S == {d \in 0..n : \E f \in [0..n -> Nat] : Halves(f, d)}
<1>1. 0 \in S
  <2> DEFINE f == [i \in 0..n |-> k]
  <2>1. f \in [0..n -> Nat] /\ f[0] = k
    OBVIOUS
  <2> HIDE DEF f
  <2>2. Halves(f, 0)
    BY <2>1
  <2>3. 0 \in 0..n
    OBVIOUS
  <2> QED BY <2>1, <2>2, <2>3
<1>2. \A d \in Bits(n) : d \in S => d + 1 \in S
  <2> SUFFICES ASSUME NEW d \in Bits(n), d \in S
               PROVE  d + 1 \in S
    OBVIOUS
  <2>1. PICK f \in [0..n -> Nat] : Halves(f, d)
    OBVIOUS
  <2> DEFINE g == [f EXCEPT ![d + 1] = f[d] \div 2]
  <2>2. d \in 0..n /\ d + 1 \in 0..n /\ f[d] \in Nat
    BY DEF Bits
  <2>3. f[d] \div 2 \in Nat
    BY <2>2
  <2>4. g \in [0..n -> Nat]
    BY <2>2, <2>3
  <2>5. \A i \in 0..d : g[i] = f[i]
    BY <2>2
  <2>6. g[d + 1] = f[d] \div 2
    BY <2>2
  <2> HIDE DEF g
  <2>7. Halves(g, d + 1)
    <3> SUFFICES ASSUME NEW i \in 0..(d + 1)
                 PROVE  g[i] = IF i = 0 THEN k ELSE g[i - 1] \div 2
      OBVIOUS
    <3>1. CASE i = d + 1
      BY <2>2, <2>5, <2>6, <3>1
    <3>2. CASE i \in 0..d
      <4>1. i # 0 => i - 1 \in 0..d
        BY <2>2, <3>2
      <4> QED BY <2>1, <2>5, <3>2, <4>1
    <3> QED BY <2>2, <3>1, <3>2
  <2> QED BY <2>2, <2>4, <2>7
<1>3. n \in S
  <2> HIDE DEF S
  <2>1. \A i \in 0..n : i \in S
    BY <1>1, <1>2, UpToTheWidth
  <2> QED BY <2>1
<1>4. PICK f \in [0..n -> Nat] : Halves(f, n)
  BY <1>3
<1>5. H(f)
  <2>1. f = [i \in 0..n |-> f[i]]
    OBVIOUS
  <2> QED BY <1>4, <2>1
<1> DEFINE half == CHOOSE h : H(h)
<1>6. H(half)
  <2> HIDE DEF H
  <2> QED BY <1>5
<1>7. Wrap(n, k) = {i \in Bits(n) : half[i] % 2 = 1}
  BY Zenon DEF Wrap
<1> HIDE DEF half
<1>8. half[0] = k /\ \A i \in Bits(n) : half[i + 1] = half[i] \div 2
  BY <1>6 DEF Bits
<1>9. \A i \in 0..n : half[i] \in Nat
  <2> DEFINE T == {i \in 0..n : half[i] \in Nat}
  <2>1. 0 \in T
    BY <1>8
  <2>2. \A i \in Bits(n) : i \in T => i + 1 \in T
    BY <1>8 DEF Bits
  <2> HIDE DEF T
  <2>3. \A i \in 0..n : i \in T
    BY <2>1, <2>2, UpToTheWidth
  <2> QED BY <2>3 DEF T
<1>10. half \in [0..n -> Nat]
  BY <1>6, <1>9
<1> QED BY <1>7, <1>8, <1>10

\* Of a number that fits, the word that Wrap gives is the word.
LEMMA ValWrap ==
  ASSUME NEW n \in Nat, NEW k \in Nat, k < Val({n})
  PROVE  Wrap(n, k) \in Words(n) /\ Val(Wrap(n, k)) = k
<1> DEFINE w == Wrap(n, k)
<1>1. PICK half \in [0..n -> Nat] :
        /\ half[0] = k
        /\ \A i \in Bits(n) : half[i + 1] = half[i] \div 2
        /\ w = {i \in Bits(n) : half[i] % 2 = 1}
  BY WrapHalves
<1>2. w \in Words(n)
  BY <1>1 DEF Words
<1> HIDE DEF w
<1>3. half[n] = 0
  <2> DEFINE T == {i \in 0..n : half[i] < From({n})[i]}
  <2>1. 0 \in T
    BY <1>1 DEF Val
  <2>2. ASSUME NEW i \in Bits(n), i \in T
        PROVE  i + 1 \in T
    <3>1. i \in 0..n /\ i + 1 \in 0..n /\ half[i] \in Nat /\ i + 1 \in Nat
      BY DEF Bits
    <3>2. From({n})[i] = 2 * From({n})[i + 1] /\ From({n})[i + 1] \in Nat
      BY <3>1, FromPower
    <3>3. half[i + 1] = half[i] \div 2
      BY <1>1
    <3>4. half[i] < From({n})[i]
      BY <2>2
    <3>5. half[i + 1] < From({n})[i + 1]
      BY <3>1, <3>2, <3>3, <3>4
    <3> QED BY <3>1, <3>5
  <2>3. \A i \in 0..n : i \in T
    <3> HIDE DEF T
    <3> QED BY <2>1, <2>2, UpToTheWidth
  <2>4. half[n] < From({n})[n] /\ From({n})[n] = 1
    BY <2>3, FromPower
  <2> QED BY <1>1, <2>4
<1> DEFINE S == {i \in 0..n : From(w)[i] = half[i]}
<1>4. n \in S
  BY <1>2, <1>3, FromStep
<1>5. ASSUME NEW i \in Bits(n), i + 1 \in S
      PROVE  i \in S
  <2>1. i \in 0..n /\ i + 1 \in 0..n /\ half[i] \in Nat
    BY DEF Bits
  <2>2. From(w)[i] = 2 * From(w)[i + 1] + Digit(w, i)
    BY <1>2, FromStep
  <2>3. From(w)[i + 1] = half[i] \div 2
    BY <1>1, <1>5
  <2>4. Digit(w, i) = IF half[i] % 2 = 1 THEN 1 ELSE 0
    BY <1>1 DEF Digit
  <2> QED BY <2>1, <2>2, <2>3, <2>4
<1>6. \A i \in 0..n : i \in S
  <2> HIDE DEF S
  <2> QED BY <1>4, <1>5, DownToZero
<1> QED BY <1>1, <1>2, <1>6 DEF Val, w

\* / and % of words are those of numbers.
LEMMA ValDivU ==
  ASSUME NEW n \in Nat, NEW x \in Words(n), NEW y \in Words(n), y # {}
  PROVE  /\ DivU(n, x, y) \in Words(n) /\ RemU(n, x, y) \in Words(n)
         /\ Val(y) \in Nat \ {0} /\ Val(x) \in Nat
         /\ Val(DivU(n, x, y)) \in Nat /\ Val(RemU(n, x, y)) \in Nat
         /\ Val(x) = Val(y) * Val(DivU(n, x, y)) + Val(RemU(n, x, y))
         /\ Val(RemU(n, x, y)) < Val(y) /\ Val(DivU(n, x, y)) <= Val(x)
<1>1. {} \in Words(n) /\ {} \in Words(0)
  BY DEF Words
<1>2. Val({}) = 0
  BY <1>1, FromStep DEF Val
<1>3. Val(y) \in Nat /\ Val(y) < Val({n}) /\ Val(x) \in Nat /\ Val(x) < Val({n}) /\ Val({n}) \in Nat
  BY ValRange, PowerIsNat
<1>4. Val(y) # 0
  BY <1>1, <1>2, ValInjective
<1> DEFINE q == Val(x) \div Val(y)
           r == Val(x) % Val(y)
<1>5. /\ q \in Nat /\ r \in Nat /\ r < Val(y)
      /\ Val(x) = Val(y) * q + r
      /\ q <= Val(x)
  BY <1>3, <1>4, Quotients
<1> HIDE DEF q, r
<1>6. q < Val({n}) /\ r < Val({n})
  BY <1>3, <1>5
<1>7. /\ Wrap(n, q) \in Words(n) /\ Val(Wrap(n, q)) = q
      /\ Wrap(n, r) \in Words(n) /\ Val(Wrap(n, r)) = r
  BY <1>5, <1>6, ValWrap
<1>8. DivU(n, x, y) = Wrap(n, q) /\ RemU(n, x, y) = Wrap(n, r)
  BY DEF DivU, RemU, q, r
<1> QED BY <1>3, <1>4, <1>5, <1>7, <1>8

-----------------------------------------------------------------------------
(* Two's complement *)

\* The number an n-bit word stands for as an intN_t.
Signed(n, x) == Val(x) - IF n - 1 \in x THEN Val({n}) ELSE 0

\* The sign bit is set when the unsigned value is in the upper half.
LEMMA SignedRange ==
  ASSUME NEW n \in Nat \ {0}, NEW x \in Words(n)
  PROVE  /\ Val({n - 1}) \in Nat \ {0} /\ Val({n}) = 2 * Val({n - 1})
         /\ Val(x) \in Nat /\ Val(x) < 2 * Val({n - 1})
         /\ Negative(n, x) <=> Val(x) >= Val({n - 1})
         /\ Signed(n, x) = Val(x) - IF Negative(n, x) THEN 2 * Val({n - 1}) ELSE 0
         /\ Signed(n, x) \in Int /\ Signed(n, x) >= -Val({n - 1}) /\ Signed(n, x) < Val({n - 1})
         /\ Negative(n, x) <=> Signed(n, x) < 0
<1> DEFINE m == n - 1
           h == Val({m})
           low == Trunc(m, x)
<1>1. m \in Nat /\ m \in 0..n /\ m + 1 = n /\ n \in Nat /\ m \in 0..m /\ m \in Bits(n)
  BY DEF Bits
<1>2. low \in Words(m)
  BY DEF Trunc, Words
<1> HIDE DEF m, low
<1>3. h \in Nat \ {0} /\ Val({n}) = 2 * h
  BY <1>1, PowerIsNat, PowersMultiply
<1>4. Val(low) \in Nat /\ Val(low) < h
  BY <1>1, <1>2, ValRange
<1>5. Val(x) = Val(low) + h * From(x)[m]
  BY <1>1, Splits DEF low
<1>6. From(x)[m] = 2 * From(x)[n] + Digit(x, m) /\ From(x)[n] = 0
  BY <1>1, FromStep
<1>7. Val(x) = Val(low) + IF m \in x THEN h ELSE 0
  <2>1. CASE m \in x
    BY <1>3, <1>4, <1>5, <1>6, <2>1 DEF Digit
  <2>2. CASE m \notin x
    BY <1>3, <1>4, <1>5, <1>6, <2>2 DEF Digit
  <2> QED BY <2>1, <2>2
<1> HIDE DEF h
<1>8. Negative(n, x) <=> m \in x
  BY DEF Negative, m
<1>9. Signed(n, x) = Val(x) - IF m \in x THEN 2 * h ELSE 0
  BY <1>3 DEF Signed, m
<1> QED BY <1>3, <1>4, <1>7, <1>8, <1>9 DEF m, h

\* In the lower half the two readings agree.
LEMMA SmallIsUnsigned ==
  ASSUME NEW n \in Nat \ {0}, NEW x \in Words(n), Val(x) < Val({n - 1})
  PROVE  Signed(n, x) = Val(x)
<1>1. /\ Val({n - 1}) \in Nat \ {0} /\ Val(x) \in Nat
      /\ Negative(n, x) <=> Val(x) >= Val({n - 1})
      /\ Signed(n, x) = Val(x) - IF Negative(n, x) THEN 2 * Val({n - 1}) ELSE 0
  BY SignedRange
<1> QED BY <1>1

\* -x on n bits, of a magnitude that has a negative.
LEMMA SignedNeg ==
  ASSUME NEW n \in Nat \ {0}, NEW x \in Words(n), Val(x) <= Val({n - 1})
  PROVE  Neg(n, x) \in Words(n) /\ Signed(n, Neg(n, x)) = -Val(x)
<1> DEFINE z == Neg(n, x)
<1>1. n \in Nat /\ {} \in Words(n)
  BY DEF Words
<1>2. z \in Words(n)
  BY SubIsWord DEF Neg
<1>3. Val(z) = IF 0 >= Val(x) THEN 0 - Val(x) ELSE 0 - Val(x) + Val({n})
  BY <1>1, ValSub, ZeroIsZero DEF Neg
<1> HIDE DEF z
<1>4. /\ Val({n - 1}) \in Nat \ {0} /\ Val({n}) = 2 * Val({n - 1}) /\ Val(x) \in Nat
      /\ Negative(n, z) <=> Val(z) >= Val({n - 1})
      /\ Signed(n, z) = Val(z) - IF Negative(n, z) THEN 2 * Val({n - 1}) ELSE 0
  BY <1>2, SignedRange
<1>5. Signed(n, z) = -Val(x)
  BY <1>3, <1>4
<1> QED BY <1>2, <1>5 DEF z

\* The magnitude that DIV and REM divide.
LEMMA AbsIsMagnitude ==
  ASSUME NEW n \in Nat \ {0}, NEW x \in Words(n)
  PROVE  /\ Abs(n, x) \in Words(n) /\ Val(Abs(n, x)) \in 0..Val({n - 1})
         /\ Val(Abs(n, x)) = IF Negative(n, x) THEN -Signed(n, x) ELSE Signed(n, x)
<1>1. /\ Val({n - 1}) \in Nat \ {0} /\ Val({n}) = 2 * Val({n - 1}) /\ Val(x) \in Nat
      /\ Negative(n, x) <=> Val(x) >= Val({n - 1})
      /\ Val(x) < 2 * Val({n - 1})
      /\ Signed(n, x) = Val(x) - IF Negative(n, x) THEN 2 * Val({n - 1}) ELSE 0
  BY SignedRange
<1>2. CASE Negative(n, x)
  <2>1. Abs(n, x) = Sub(n, {}, x)
    BY <1>2 DEF Abs, Neg
  <2>2. n \in Nat /\ {} \in Words(n) /\ Sub(n, {}, x) \in Words(n)
    BY SubIsWord DEF Words
  <2>3. Val(Sub(n, {}, x)) = IF 0 >= Val(x) THEN 0 - Val(x) ELSE 0 - Val(x) + Val({n})
    BY <2>2, ValSub, ZeroIsZero
  <2> QED BY <1>1, <1>2, <2>1, <2>2, <2>3
<1>3. CASE ~Negative(n, x)
  BY <1>1, <1>3 DEF Abs
<1> QED BY <1>2, <1>3

\* -1 is all ones.
LEMMA ValOnes ==
  ASSUME NEW n \in Nat
  PROVE  Bits(n) \in Words(n) /\ Val(Bits(n)) = Val({n}) - 1
<1> DEFINE x == Bits(n)
           S == {i \in 0..n : From(x)[i] = From({n})[i] - 1}
<1>1. x \in Words(n)
  BY DEF Words
<1>2. /\ From({n})[n] = 1 /\ \A i \in Bits(n) : From({n})[i] = 2 * From({n})[i + 1]
      /\ \A i \in Nat : From({n})[i] \in Nat
  BY FromPower
<1>3. From(x)[n] = 0 /\ \A i \in Bits(n) : From(x)[i] = 2 * From(x)[i + 1] + 1
  <2>1. \A i \in Bits(n) : Digit(x, i) = 1
    BY DEF Digit
  <2> HIDE DEF x
  <2> QED BY <1>1, <2>1, FromStep
<1> HIDE DEF x
<1>4. n \in S
  BY <1>2, <1>3
<1>5. ASSUME NEW i \in Bits(n), i + 1 \in S
      PROVE  i \in S
  <2>1. i + 1 \in Nat /\ i \in 0..n
    BY DEF Bits
  <2>2. From({n})[i] = 2 * From({n})[i + 1] /\ From({n})[i + 1] \in Nat
    BY <1>2, <2>1
  <2>3. From(x)[i] = 2 * From(x)[i + 1] + 1
    BY <1>3
  <2>4. From(x)[i + 1] = From({n})[i + 1] - 1
    BY <1>5
  <2> QED BY <2>1, <2>2, <2>3, <2>4
<1>6. \A i \in 0..n : i \in S
  <2> HIDE DEF S
  <2> QED BY <1>4, <1>5, DownToZero
<1>7. From(x)[0] = From({n})[0] - 1
  BY <1>6
<1> QED BY <1>1, <1>7 DEF Val, x

\* Signed division but for the two cases the code decides by itself: it is
\* that of the integers, truncated towards zero.
LEMMA SignedDivision ==
  ASSUME NEW n \in Nat \ {0}, NEW x \in Words(n), NEW y \in Words(n), y # {},
         ~(x = {n - 1} /\ y = Bits(n))
  PROVE  LET q == DivS(n, x, y)
             r == RemS(n, x, y)
         IN /\ q \in Words(n) /\ r \in Words(n)
            /\ Signed(n, x) = Signed(n, y) * Signed(n, q) + Signed(n, r)
            /\ IF Signed(n, y) < 0 THEN Signed(n, r) < -Signed(n, y) /\ -Signed(n, r) < -Signed(n, y)
               ELSE Signed(n, r) < Signed(n, y) /\ -Signed(n, r) < Signed(n, y)
            /\ IF Signed(n, x) < 0 THEN Signed(n, r) <= 0 ELSE Signed(n, r) >= 0
<1> DEFINE h == Val({n - 1})
           ax == Abs(n, x)
           ay == Abs(n, y)
           qu == DivU(n, ax, ay)
           ru == RemU(n, ax, ay)
           q == DivS(n, x, y)
           r == RemS(n, x, y)
<1>1. /\ ax \in Words(n) /\ Val(ax) \in 0..h
      /\ Val(ax) = IF Negative(n, x) THEN -Signed(n, x) ELSE Signed(n, x)
      /\ ay \in Words(n) /\ Val(ay) \in 0..h
      /\ Val(ay) = IF Negative(n, y) THEN -Signed(n, y) ELSE Signed(n, y)
  BY AbsIsMagnitude
<1>2. /\ h \in Nat \ {0} /\ Val({n}) = 2 * h /\ n \in Nat
      /\ Val(x) \in Nat /\ Val(y) \in Nat /\ Signed(n, x) \in Int /\ Signed(n, y) \in Int
      /\ Negative(n, x) <=> Signed(n, x) < 0
      /\ Negative(n, y) <=> Signed(n, y) < 0
      /\ Signed(n, x) = Val(x) - IF Negative(n, x) THEN 2 * h ELSE 0
      /\ Signed(n, y) = Val(y) - IF Negative(n, y) THEN 2 * h ELSE 0
      /\ Negative(n, x) <=> Val(x) >= h
      /\ Negative(n, y) <=> Val(y) >= h
  BY SignedRange
<1> HIDE DEF h, ax, ay
<1>3. ay # {}
  <2> SUFFICES ASSUME ay = {} PROVE FALSE
    OBVIOUS
  <2>1. Val(ay) = 0
    BY ZeroIsZero
  <2>2. Val(y) = 0
    BY <1>1, <1>2, <2>1
  <2>3. {} \in Words(n)
    BY DEF Words
  <2> QED BY <1>2, <2>2, <2>3, ZeroIsZero, ValInjective
<1>4. /\ qu \in Words(n) /\ ru \in Words(n)
      /\ Val(ay) \in Nat \ {0} /\ Val(ax) \in Nat
      /\ Val(qu) \in Nat /\ Val(ru) \in Nat
      /\ Val(ax) = Val(ay) * Val(qu) + Val(ru)
      /\ Val(ru) < Val(ay) /\ Val(qu) <= Val(ax)
  BY <1>1, <1>2, <1>3, ValDivU
<1> HIDE DEF qu, ru
<1>5. r \in Words(n) /\ Signed(n, r) = IF Negative(n, x) THEN -Val(ru) ELSE Val(ru)
  <2>1. Val(ru) < h /\ Val(ru) <= h
    BY <1>1, <1>2, <1>4
  <2>2. CASE Negative(n, x)
    <3>1. r = Neg(n, ru)
      BY <2>2 DEF RemS, ru, ax, ay
    <3> QED BY <1>4, <2>1, <2>2, <3>1, SignedNeg DEF h
  <2>3. CASE ~Negative(n, x)
    <3>1. r = ru
      BY <2>3 DEF RemS, ru, ax, ay
    <3>2. Signed(n, ru) = Val(ru)
      BY <1>4, <2>1, SmallIsUnsigned DEF h
    <3> QED BY <1>4, <2>3, <3>1, <3>2
  <2> QED BY <2>2, <2>3
<1>6. q \in Words(n) /\ Signed(n, q) = IF Negative(n, x) <=> Negative(n, y) THEN Val(qu) ELSE -Val(qu)
  <2>1. CASE Negative(n, x) <=> Negative(n, y)
    <3>1. q = qu
      <4>1. Negative(n, x) = Negative(n, y)
        BY <2>1 DEF Negative
      <4>2. q = Trunc(n, qu)
        BY <4>1 DEF DivS, qu, ax, ay
      <4> QED BY <1>4, <4>2 DEF Trunc, Words
    <3>2. Val(qu) # h
      <4> SUFFICES ASSUME Val(qu) = h PROVE FALSE
        OBVIOUS
      <4>1. Val(ax) = h
        BY <1>1, <1>2, <1>4
      <4>2. Val(ay) = 1
        <5> DEFINE Y == Val(ay)
                   R == Val(ru)
        <5>1. Y \in Nat \ {0} /\ R \in Nat /\ h = Y * h + R
          BY <1>4, <4>1
        <5> HIDE DEF Y, R
        <5>2. ~(Y >= 2)
          <6> SUFFICES ASSUME Y >= 2 PROVE FALSE
            OBVIOUS
          <6>1. Y * h >= 2 * h
            BY <1>2, <5>1
          <6> QED BY <1>2, <5>1, <6>1
        <5>3. Y = 1
          BY <5>1, <5>2
        <5> QED BY <5>3 DEF Y
      <4>3. Negative(n, x)
        <5> SUFFICES ASSUME ~Negative(n, x) PROVE FALSE
          OBVIOUS
        <5> QED BY <1>1, <1>2, <4>1
      <4>4. Val(x) = h /\ Val(y) = 2 * h - 1
        BY <1>1, <1>2, <2>1, <4>1, <4>2, <4>3
      <4>5. {n - 1} \in Words(n) /\ Bits(n) \in Words(n) /\ Val(Bits(n)) = 2 * h - 1
        <5>1. {n - 1} \in Words(n)
          BY DEF Words, Bits
        <5> QED BY <1>2, <5>1, ValOnes
      <4> QED BY <1>2, <4>4, <4>5, ValInjective DEF h
    <3>3. Val(qu) < h
      <4>1. \A i, j, k \in Nat : i <= j /\ j \in 0..k /\ i # k => i < k
        OBVIOUS
      <4> QED BY <1>1, <1>2, <1>4, <3>2, <4>1, Zenon
    <3>4. Signed(n, qu) = Val(qu)
      BY <1>4, <3>3, SmallIsUnsigned DEF h
    <3> QED BY <1>4, <2>1, <3>1, <3>4
  <2>2. CASE ~(Negative(n, x) <=> Negative(n, y))
    <3>1. q = Neg(n, qu)
      <4>1. Negative(n, x) # Negative(n, y)
        BY <2>2
      <4> QED BY <4>1 DEF DivS, qu, ax, ay
    <3>2. Val(qu) <= h
      BY <1>1, <1>2, <1>4
    <3> QED BY <1>4, <2>2, <3>1, <3>2, SignedNeg DEF h
  <2> QED BY <2>1, <2>2
<1> DEFINE A == Val(ax)
           B == Val(ay)
           Q == Val(qu)
           R == Val(ru)
           sx == Signed(n, x)
           sy == Signed(n, y)
           sq == Signed(n, q)
           sr == Signed(n, r)
           nx == sx < 0
           ny == sy < 0
<1>7. /\ A \in Nat /\ B \in Nat \ {0} /\ Q \in Nat /\ R \in Nat /\ A = B * Q + R /\ R < B
      /\ sx \in Int /\ sy \in Int
      /\ A = (IF nx THEN -sx ELSE sx) /\ B = (IF ny THEN -sy ELSE sy)
      /\ sr = (IF nx THEN -R ELSE R) /\ sq = (IF nx <=> ny THEN Q ELSE -Q)
  BY <1>1, <1>2, <1>4, <1>5, <1>6
<1> HIDE DEF A, B, Q, R, sx, sy, sq, sr
<1>8. /\ sx = sy * sq + sr
      /\ IF sy < 0 THEN sr < -sy /\ -sr < -sy ELSE sr < sy /\ -sr < sy
      /\ IF sx < 0 THEN sr <= 0 ELSE sr >= 0
  <2>1. CASE nx /\ ny
    BY <1>7, <2>1
  <2>2. CASE nx /\ ~ny
    BY <1>7, <2>2
  <2>3. CASE ~nx /\ ny
    BY <1>7, <2>3
  <2>4. CASE ~nx /\ ~ny
    BY <1>7, <2>4
  <2> QED BY <2>1, <2>2, <2>3, <2>4
<1> QED BY <1>5, <1>6, <1>8 DEF sx, sy, sq, sr

-----------------------------------------------------------------------------
(* Products *)

\* The sums of x shifted to each bit of y below the i-th.
MulSum(n, x, y, sum) ==
  /\ sum[0] = {} /\ Mul(n, x, y) = sum[n]
  /\ \A i \in Bits(n) : sum[i + 1] = IF i \in y THEN Add(n, sum[i], ShiftL(n, x, i)) ELSE sum[i]

\* The function Mul is defined with exists.
LEMMA MulSums ==
  ASSUME NEW n \in Nat, NEW x, NEW y
  PROVE  \E sum \in [0..n -> Words(n)] : MulSum(n, x, y, sum)
<1> DEFINE Next(i, w) == IF i - 1 \in y THEN Add(n, w, ShiftL(n, x, i - 1)) ELSE w
           H(f) == f = [i \in 0..n |-> IF i = 0 THEN {} ELSE Next(i, f[i - 1])]
           Sums(f, d) == \A i \in 0..d : f[i] = IF i = 0 THEN {} ELSE Next(i, f[i - 1])
           S == {d \in 0..n : \E f \in [0..n -> Words(n)] : Sums(f, d)}
<1>1. {} \in Words(n) /\ \A i : \A w \in Words(n) : Next(i, w) \in Words(n)
  BY AddIsWord DEF Words
<1>2. 0 \in S
  <2> DEFINE f == [i \in 0..n |-> {}]
  <2>1. f \in [0..n -> Words(n)] /\ f[0] = {}
    BY <1>1
  <2> HIDE DEF f, Next
  <2>2. Sums(f, 0)
    BY <2>1
  <2>3. 0 \in 0..n
    OBVIOUS
  <2> QED BY <2>1, <2>2, <2>3
<1> HIDE DEF Next
<1>3. \A d \in Bits(n) : d \in S => d + 1 \in S
  <2> SUFFICES ASSUME NEW d \in Bits(n), d \in S
               PROVE  d + 1 \in S
    OBVIOUS
  <2>1. PICK f \in [0..n -> Words(n)] : Sums(f, d)
    OBVIOUS
  <2> DEFINE g == [f EXCEPT ![d + 1] = Next(d + 1, f[d])]
  <2>2. d \in 0..n /\ d + 1 \in 0..n /\ f[d] \in Words(n) /\ (d + 1) - 1 = d
    BY DEF Bits
  <2>3. g \in [0..n -> Words(n)]
    BY <1>1, <2>2
  <2>4. \A i \in 0..d : g[i] = f[i]
    BY <2>2
  <2>5. g[d + 1] = Next(d + 1, f[d])
    BY <2>2
  <2> HIDE DEF g
  <2>6. Sums(g, d + 1)
    <3> SUFFICES ASSUME NEW i \in 0..(d + 1)
                 PROVE  g[i] = IF i = 0 THEN {} ELSE Next(i, g[i - 1])
      OBVIOUS
    <3>1. CASE i = d + 1
      BY <2>2, <2>4, <2>5, <3>1
    <3>2. CASE i \in 0..d
      <4>1. i # 0 => i - 1 \in 0..d
        BY <2>2, <3>2
      <4> QED BY <2>1, <2>4, <3>2, <4>1
    <3> QED BY <2>2, <3>1, <3>2
  <2> QED BY <2>2, <2>3, <2>6
<1>4. n \in S
  <2> HIDE DEF S
  <2>1. \A i \in 0..n : i \in S
    BY <1>2, <1>3, UpToTheWidth
  <2> QED BY <2>1
<1>5. PICK f \in [0..n -> Words(n)] : Sums(f, n)
  BY <1>4
<1>6. H(f)
  <2>1. f = [i \in 0..n |-> f[i]]
    OBVIOUS
  <2> QED BY <1>5, <2>1
<1> DEFINE sum == CHOOSE h : H(h)
<1>7. H(sum)
  <2> HIDE DEF H
  <2> QED BY <1>6
<1>8. Mul(n, x, y) = sum[n]
  BY Zenon DEF Mul, Next
<1> HIDE DEF sum
<1>9. sum[0] = {} /\ \A i \in Bits(n) : sum[i + 1] = IF i \in y THEN Add(n, sum[i], ShiftL(n, x, i)) ELSE sum[i]
  <2>1. sum[0] = {}
    BY <1>7
  <2>2. ASSUME NEW i \in Bits(n)
        PROVE  sum[i + 1] = IF i \in y THEN Add(n, sum[i], ShiftL(n, x, i)) ELSE sum[i]
    <3>1. i + 1 \in 0..n /\ i + 1 # 0 /\ (i + 1) - 1 = i
      BY DEF Bits
    <3>2. sum[i + 1] = Next(i + 1, sum[i])
      BY <1>7, <3>1
    <3> QED BY <3>1, <3>2 DEF Next
  <2> QED BY <2>1, <2>2
<1>10. \A i \in 0..n : sum[i] \in Words(n)
  <2> DEFINE T == {i \in 0..n : sum[i] \in Words(n)}
  <2>1. 0 \in T
    <3>1. 0 \in 0..n
      OBVIOUS
    <3> QED BY <1>1, <1>9, <3>1, Zenon
  <2>2. \A i \in Bits(n) : i \in T => i + 1 \in T
    BY <1>9, AddIsWord DEF Bits
  <2> HIDE DEF T
  <2>3. \A i \in 0..n : i \in T
    BY <2>1, <2>2, UpToTheWidth
  <2> QED BY <2>3 DEF T
<1>11. sum \in [0..n -> Words(n)]
  BY <1>7, <1>10
<1> QED BY <1>8, <1>9, <1>11 DEF MulSum

\* * of words is that of numbers modulo 2^n.
LEMMA ValMul ==
  ASSUME NEW n \in Nat, NEW x \in Words(n), NEW y \in Words(n)
  PROVE  /\ Mul(n, x, y) \in Words(n)
         /\ \E t \in Nat : Val(x) * Val(y) = Val(Mul(n, x, y)) + Val({n}) * t
<1> DEFINE M == Val({n})
           X == Val(x)
           L(i) == Val(Trunc(i, y))
<1>0. PICK sum \in [0..n -> Words(n)] : MulSum(n, x, y, sum)
  BY MulSums, Zenon
<1>1. /\ sum[0] = {} /\ Mul(n, x, y) = sum[n]
      /\ \A i \in Bits(n) : sum[i + 1] = IF i \in y THEN Add(n, sum[i], ShiftL(n, x, i)) ELSE sum[i]
  BY <1>0 DEF MulSum
<1> DEFINE S == {i \in 0..n : \E t \in Nat : X * L(i) = Val(sum[i]) + M * t}
<1>2. X \in Nat /\ M \in Nat \ {0}
  BY ValRange, PowerIsNat
<1>3. 0 \in S
  <2>1. Trunc(0, y) = {}
    BY DEF Trunc, Bits
  <2>2. L(0) = 0 /\ Val(sum[0]) = 0
    BY <1>1, <2>1, ZeroIsZero
  <2> HIDE DEF M, L, X
  <2>3. X * L(0) = Val(sum[0]) + M * 0
    BY <1>2, <2>2
  <2> QED BY <2>3
<1>4. ASSUME NEW i \in Bits(n), i \in S
      PROVE  i + 1 \in S
  <2> DEFINE p == Val({i})
             z == ShiftL(n, x, i)
             s == Val(sum[i])
  <2>1. i \in 0..n /\ i + 1 \in 0..n /\ i \in Nat
    BY DEF Bits
  <2>2. PICK t \in Nat : X * L(i) = s + M * t
    BY <1>4
  <2>3. L(i + 1) = L(i) + Digit(y, i) * p /\ L(i) \in Nat
    BY TruncStep
  <2>4. p \in Nat /\ s \in Nat
    BY <1>1, <2>1, PowerIsNat, ValRange
  <2>5. CASE i \notin y
    <3>1. Digit(y, i) = 0 /\ sum[i + 1] = sum[i]
      BY <1>1, <2>5 DEF Digit
    <3> HIDE DEF L, p, s, X, M
    <3>2. L(i + 1) = L(i)
      BY <2>3, <2>4, <3>1
    <3> QED BY <2>1, <2>2, <3>1, <3>2 DEF s
  <2>6. CASE i \in y
    <3>1. Digit(y, i) = 1 /\ sum[i + 1] = Add(n, sum[i], z)
      BY <1>1, <2>6 DEF Digit
    <3>2. PICK f \in Nat : z \in Words(n) /\ X * p = Val(z) + M * f
      BY <2>1, ValShiftL
    <3>3. Val(z) \in Nat /\ sum[i] \in Words(n)
      BY <1>1, <2>1, <3>2, ValRange
    <3>4. PICK c \in {0, 1} : s + Val(z) = Val(sum[i + 1]) + M * c
      <4>1. Val(Add(n, sum[i], z)) = IF s + Val(z) < M THEN s + Val(z) ELSE s + Val(z) - M
        BY <3>2, <3>3, ValAdd
      <4> HIDE DEF s, M, z
      <4>2. s + Val(z) = Val(sum[i + 1]) + M * 0 \/ s + Val(z) = Val(sum[i + 1]) + M * 1
        BY <1>2, <2>4, <3>1, <3>3, <4>1 DEF z
      <4> QED BY <4>2
    <3>5. Val(sum[i + 1]) \in Nat
      BY <1>1, <2>1, ValRange
    <3> DEFINE v == Val(z)
               r == Val(sum[i + 1])
    <3> HIDE DEF L, p, s, X, M, v, r
    <3>6. L(i + 1) = L(i) + p
      BY <2>3, <2>4, <3>1
    <3>7. v \in Nat /\ r \in Nat /\ X * p = v + M * f /\ s + v = r + M * c
      BY <3>2, <3>3, <3>4, <3>5 DEF v, r
    <3>8. X * (L(i) + p) = r + M * (t + f + c)
      <4>1. X * (L(i) + p) = X * L(i) + X * p
        BY <1>2, <2>3, <2>4
      <4>2. M * (t + f + c) = M * t + M * f + M * c
        BY <1>2
      <4>3. M * t \in Nat /\ M * f \in Nat /\ M * c \in Nat
        BY <1>2
      <4> QED BY <2>2, <2>4, <3>7, <4>1, <4>2, <4>3
    <3>9. t + f + c \in Nat
      OBVIOUS
    <3> QED BY <2>1, <3>6, <3>8, <3>9 DEF r
  <2> QED BY <2>5, <2>6
<1>5. n \in S
  <2> HIDE DEF S
  <2>1. \A i \in 0..n : i \in S
    BY <1>3, <1>4, UpToTheWidth
  <2> QED BY <2>1
<1>6. Trunc(n, y) = y
  BY DEF Trunc, Words
<1> QED BY <1>1, <1>5, <1>6

-----------------------------------------------------------------------------
(* Arithmetic modulo 2^n *)

\* i and j are the same number modulo M.
Same(M, i, j) == \E t \in Int : i = j + M * t

\* Sums and products of numbers that are the same modulo M are.
LEMMA SameArithmetic ==
  ASSUME NEW M \in Int, NEW i \in Int, NEW j \in Int, NEW k \in Int, NEW l \in Int,
         Same(M, i, j), Same(M, k, l)
  PROVE  Same(M, i + k, j + l) /\ Same(M, i - k, j - l) /\ Same(M, i * k, j * l)
<1>1. PICK t \in Int : i = j + M * t
  BY DEF Same
<1>2. PICK u \in Int : k = l + M * u
  BY DEF Same
<1>3. Same(M, i + k, j + l)
  <2>1. i + k = (j + l) + M * (t + u) /\ t + u \in Int
    BY <1>1, <1>2
  <2> QED BY <2>1 DEF Same
<1>4. Same(M, i - k, j - l)
  <2>1. i - k = (j - l) + M * (t - u) /\ t - u \in Int
    BY <1>1, <1>2
  <2> QED BY <2>1 DEF Same
<1>5. Same(M, i * k, j * l)
  <2> DEFINE v == M * t
             w == M * u
             e == j * u + t * l + t * w
  <2>1. v \in Int /\ w \in Int /\ e \in Int
    OBVIOUS
  <2>2. M * e = j * w + v * l + v * w
    OBVIOUS
  <2> HIDE DEF v, w, e
  <2>3. i * k = (j + v) * (l + w)
    BY <1>1, <1>2 DEF v, w
  <2>4. (j + v) * (l + w) = j * l + (j * w + v * l + v * w)
    BY <2>1
  <2> QED BY <2>1, <2>2, <2>3, <2>4 DEF Same
<1> QED BY <1>3, <1>4, <1>5

\* It is an equivalence.
LEMMA SameIsEquivalence ==
  ASSUME NEW M \in Int, NEW i \in Int, NEW j \in Int, NEW k \in Int
  PROVE  /\ Same(M, i, i)
         /\ Same(M, i, j) => Same(M, j, i)
         /\ Same(M, i, j) /\ Same(M, j, k) => Same(M, i, k)
<1>1. i = i + M * 0 /\ 0 \in Int
  OBVIOUS
<1>2. ASSUME NEW t \in Int, i = j + M * t
      PROVE  j = i + M * (-t) /\ -t \in Int
  BY <1>2
<1>3. ASSUME NEW t \in Int, NEW u \in Int, i = j + M * t, j = k + M * u
      PROVE  i = k + M * (u + t) /\ u + t \in Int
  BY <1>3
<1> QED BY <1>1, <1>2, <1>3 DEF Same

\* Below M there is one of each, and % finds it.
LEMMA SameIsEqual ==
  ASSUME NEW M \in Nat \ {0}, NEW i \in Int, NEW j \in 0..(M - 1), Same(M, i, j)
  PROVE  i % M = j /\ (i \in 0..(M - 1) => i = j)
<1>1. PICK t \in Int : i = j + M * t
  BY DEF Same
<1>2. i = M * t + j
  BY <1>1
<1>3. i % M = j
  BY <1>2, QuotientIs
<1>4. ASSUME i \in 0..(M - 1)
      PROVE  i = j
  <2>1. i = M * 0 + i
    OBVIOUS
  <2>2. i % M = i
    BY <1>4, <2>1, QuotientIs
  <2> QED BY <1>3, <2>2
<1> QED BY <1>3, <1>4

\* The operations of words give what those of numbers give, modulo 2^n; and
\* so does reading a word with its sign.
LEMMA WordsAreModular ==
  ASSUME NEW n \in Nat, NEW x \in Words(n), NEW y \in Words(n)
  PROVE  LET M == Val({n})
         IN /\ Same(M, Val(Add(n, x, y)), Val(x) + Val(y))
            /\ Same(M, Val(Sub(n, x, y)), Val(x) - Val(y))
            /\ Same(M, Val(Mul(n, x, y)), Val(x) * Val(y))
            /\ \A k \in 0..n : Same(M, Val(ShiftL(n, x, k)), Val(x) * Val({k}))
            /\ Same(M, Signed(n, x), Val(x))
<1> DEFINE M == Val({n})
           X == Val(x)
           Y == Val(y)
<1>1. X \in Nat /\ Y \in Nat /\ M \in Nat \ {0}
  BY ValRange, PowerIsNat
<1>2. Val(Add(n, x, y)) \in Nat /\ Val(Sub(n, x, y)) \in Nat /\ Val(Mul(n, x, y)) \in Nat
  BY AddIsWord, SubIsWord, ValMul, ValRange
<1>3. Same(M, Val(Add(n, x, y)), X + Y)
  <2>1. Val(Add(n, x, y)) = IF X + Y < M THEN X + Y ELSE X + Y - M
    BY ValAdd
  <2> HIDE DEF M, X, Y
  <2>2. Val(Add(n, x, y)) = (X + Y) + M * 0 \/ Val(Add(n, x, y)) = (X + Y) + M * (-1)
    BY <1>1, <1>2, <2>1
  <2>3. 0 \in Int /\ -1 \in Int
    OBVIOUS
  <2> QED BY <2>2, <2>3 DEF Same
<1>4. Same(M, Val(Sub(n, x, y)), X - Y)
  <2>1. Val(Sub(n, x, y)) = IF X >= Y THEN X - Y ELSE X - Y + M
    BY ValSub
  <2> HIDE DEF M, X, Y
  <2>2. Val(Sub(n, x, y)) = (X - Y) + M * 0 \/ Val(Sub(n, x, y)) = (X - Y) + M * 1
    BY <1>1, <1>2, <2>1
  <2> QED BY <2>2 DEF Same
<1>5. Same(M, Val(Mul(n, x, y)), X * Y)
  <2>1. PICK t \in Nat : X * Y = Val(Mul(n, x, y)) + M * t
    BY ValMul
  <2> HIDE DEF M, X, Y
  <2>2. Val(Mul(n, x, y)) = X * Y + M * (-t) /\ -t \in Int
    BY <1>1, <1>2, <2>1
  <2> QED BY <2>2 DEF Same
<1>6. ASSUME NEW k \in 0..n
      PROVE  Same(M, Val(ShiftL(n, x, k)), X * Val({k}))
  <2> DEFINE v == Val(ShiftL(n, x, k))
             p == Val({k})
  <2>1. PICK f \in Nat : ShiftL(n, x, k) \in Words(n) /\ X * p = v + M * f
    BY ValShiftL
  <2>2. v \in Nat /\ k \in Nat
    BY <2>1, ValRange
  <2>3. p \in Nat
    BY <2>2, PowerIsNat
  <2> HIDE DEF M, X, v, p
  <2>4. v = X * p + M * (-f) /\ -f \in Int
    BY <1>1, <2>1, <2>2, <2>3
  <2> QED BY <2>4 DEF Same, v, p
<1>7. Same(M, Signed(n, x), X)
  <2> HIDE DEF M, X
  <2>1. Signed(n, x) = X + M * 0 \/ Signed(n, x) = X + M * (-1)
    BY <1>1 DEF Signed, M, X
  <2>2. 0 \in Int /\ -1 \in Int
    OBVIOUS
  <2> QED BY <2>1, <2>2 DEF Same
<1> QED BY <1>3, <1>4, <1>5, <1>6, <1>7

\* The low m bits are the word modulo 2^m.
LEMMA TruncIsModulo ==
  ASSUME NEW n \in Nat, NEW x \in Words(n), NEW m \in 0..n
  PROVE  Same(Val({m}), Val(x), Val(Trunc(m, x)))
<1>1. Val(x) = Val(Trunc(m, x)) + Val({m}) * From(x)[m]
  BY Splits
<1>2. From(x)[m] \in Nat
  BY FromStep
<1>3. From(x)[m] \in Int
  BY <1>2
<1> QED BY <1>1, <1>3, Zenon DEF Same

\* A word is the number it is the same as, if that is in its range.
LEMMA WordIsTheNumber ==
  ASSUME NEW n \in Nat \ {0}, NEW x \in Words(n), NEW k \in Int, Same(Val({n}), Val(x), k)
  PROVE  /\ k \in 0..(Val({n}) - 1) => Val(x) = k
         /\ k >= -Val({n - 1}) /\ k < Val({n - 1}) => Signed(n, x) = k
         /\ k % Val({n}) = Val(x)
<1> DEFINE M == Val({n})
           h == Val({n - 1})
<1>1. /\ h \in Nat \ {0} /\ M = 2 * h /\ Val(x) \in Nat /\ Val(x) < 2 * h
      /\ Negative(n, x) <=> Val(x) >= h
      /\ Signed(n, x) = Val(x) - IF Negative(n, x) THEN 2 * h ELSE 0
  BY SignedRange
<1> HIDE DEF h, M
<1>2. M \in Nat \ {0} /\ Val(x) \in 0..(M - 1) /\ M \in Int /\ Val(x) \in Int
  BY <1>1
<1>3. Same(M, k, Val(x))
  BY <1>2, SameIsEquivalence DEF M
<1>4. k % M = Val(x) /\ (k \in 0..(M - 1) => k = Val(x))
  BY <1>2, <1>3, SameIsEqual
<1>5. ASSUME k >= -h, k < 0
      PROVE  Signed(n, x) = k
  <2>1. k + M \in 0..(M - 1) /\ k + M \in Int
    BY <1>1, <1>5
  <2>2. Same(M, M, 0)
    <3>1. M = 0 + M * 1
      BY <1>2
    <3> QED BY <3>1 DEF Same
  <2>3. Same(M, k + M, Val(x) + 0)
    BY <1>2, <1>3, <2>2, SameArithmetic
  <2>4. Same(M, k + M, Val(x))
    BY <1>2, <2>3
  <2>5. k + M = Val(x)
    BY <1>2, <2>1, <2>4, SameIsEqual
  <2> QED BY <1>1, <1>5, <2>5
<1>6. ASSUME k >= 0, k < h
      PROVE  Signed(n, x) = k
  BY <1>1, <1>4, <1>6
<1> QED BY <1>1, <1>4, <1>5, <1>6 DEF M, h

-----------------------------------------------------------------------------
(* Signs *)

\* Ones from bit m upwards.
LEMMA HighOnes ==
  ASSUME NEW n \in Nat, NEW m \in 0..n
  PROVE  m..(n - 1) \in Words(n) /\ Val(m..(n - 1)) = Val({n}) - Val({m})
<1> DEFINE high == m..(n - 1)
           low == Bits(m)
<1>1. /\ high \in Words(n) /\ low \in Words(n) /\ high \cap low = {} /\ high \cup low = Bits(n)
      /\ m \in Nat
  BY DEF Words, Bits
<1>2. Val(low) = Val({m}) - 1 /\ Val(Bits(n)) = Val({n}) - 1
  BY <1>1, ValOnes
<1>3. Val({m}) \in Nat /\ Val({n}) \in Nat /\ Val(high) \in Nat
  BY <1>1, PowerIsNat, ValRange
<1> HIDE DEF high, low
<1>4. Val(high \cup low) = Val(high) + Val(low)
  BY <1>1, DisjointSum
<1>5. Val(Bits(n)) = Val(high) + Val(low)
  BY <1>1, <1>4
<1>6. Val(high) = Val({n}) - Val({m})
  BY <1>2, <1>3, <1>5
<1> QED BY <1>1, <1>6 DEF high

\* Sign extension keeps the signed number.
LEMMA SignExtKeeps ==
  ASSUME NEW n \in Nat \ {0}, NEW m \in 1..n, NEW x \in Words(m)
  PROVE  SignExt(m, n, x) \in Words(n) /\ Signed(n, SignExt(m, n, x)) = Signed(m, x)
<1> DEFINE z == SignExt(m, n, x)
           high == m..(n - 1)
<1>1. /\ x \in Words(n) /\ Trunc(m, x) = x /\ m \in Nat /\ m \in 0..n /\ n \in Nat /\ high \in Words(n)
  <2>1. m \in Nat /\ m \in 0..n /\ n \in Nat
    OBVIOUS
  <2>2. x \subseteq Bits(m) /\ Bits(m) \subseteq Bits(n)
    BY DEF Words, Bits
  <2>3. x \in Words(n) /\ Trunc(m, x) = x
    BY <2>2 DEF Words, Trunc
  <2> QED BY <2>1, <2>3, HighOnes
<1>2. Val({m}) \in Nat /\ Val({n}) \in Nat /\ Val(x) \in Nat
  BY <1>1, PowerIsNat, ValRange
<1>3. CASE m - 1 \in x
  <2>1. z = x \cup high /\ x \cap high = {} /\ n - 1 \in z
    BY <1>1, <1>3 DEF SignExt, Words, Bits
  <2>2. Val(high) = Val({n}) - Val({m})
    BY <1>1, HighOnes
  <2> HIDE DEF z, high
  <2>3. z \in Words(n) /\ Val(z) = Val(x) + Val(high)
    BY <1>1, <2>1, DisjointSum
  <2>4. Signed(n, z) = Val(z) - Val({n}) /\ Signed(m, x) = Val(x) - Val({m})
    BY <1>3, <2>1 DEF Signed
  <2>5. Signed(n, z) = Signed(m, x)
    BY <1>2, <2>2, <2>3, <2>4
  <2> QED BY <2>3, <2>5 DEF z
<1>4. CASE m - 1 \notin x
  <2>1. z = x
    BY <1>1, <1>4 DEF SignExt
  <2>2. n - 1 \notin x
    BY <1>1, <1>4 DEF Words, Bits
  <2>3. Signed(n, x) = Val(x) - 0 /\ Signed(m, x) = Val(x) - 0
    BY <1>4, <2>2 DEF Signed
  <2> HIDE DEF z
  <2> QED BY <1>1, <2>1, <2>3 DEF z
<1> QED BY <1>3, <1>4

\* The signed order is that of the signed numbers.
LEMMA SignedOrder ==
  ASSUME NEW n \in Nat \ {0}, NEW x \in Words(n), NEW y \in Words(n)
  PROVE  LtS(n, x, y) <=> Signed(n, x) < Signed(n, y)
<1>1. ASSUME NEW w \in Words(n)
      PROVE  /\ SymDiff(w, {n - 1}) \in Words(n)
             /\ Signed(n, w) \in Int /\ Val({n - 1}) \in Int
             /\ Val(SymDiff(w, {n - 1})) = Signed(n, w) + Val({n - 1})
  <2> DEFINE u == SymDiff(w, {n - 1})
             s == {n - 1}
             h == Val({n - 1})
  <2>1. u \in Words(n) /\ s \in Words(n) /\ n \in Nat
    BY DEF SymDiff, Words, Bits
  <2>2. h \in Nat /\ Val({n}) = 2 * h /\ Val(w) \in Nat /\ Val(u) \in Nat
    BY <2>1, SignedRange, ValRange
  <2>3. CASE n - 1 \in w
    <3>1. u \cup s = w /\ u \cap s = {}
      BY <2>3 DEF SymDiff
    <3> HIDE DEF u, s
    <3>2. Val(u \cup s) = Val(u) + Val(s)
      BY <2>1, <3>1, DisjointSum
    <3>3. Val(w) = Val(u) + h
      BY <3>1, <3>2 DEF s
    <3>4. Signed(n, w) = Val(w) - 2 * h
      BY <2>2, <2>3 DEF Signed
    <3> HIDE DEF h
    <3>5. Val(u) = Signed(n, w) + h
      BY <2>2, <3>3, <3>4
    <3> QED BY <2>1, <2>2, <3>4, <3>5 DEF u, h
  <2>4. CASE n - 1 \notin w
    <3>1. u = w \cup s /\ w \cap s = {}
      BY <2>4 DEF SymDiff
    <3> HIDE DEF u, s
    <3>2. Val(w \cup s) = Val(w) + Val(s)
      BY <2>1, <3>1, DisjointSum
    <3>3. Val(u) = Val(w) + h
      BY <3>1, <3>2 DEF s
    <3>4. Signed(n, w) = Val(w)
      BY <2>2, <2>4 DEF Signed
    <3> HIDE DEF h
    <3>5. Val(u) = Signed(n, w) + h
      BY <2>2, <3>3, <3>4
    <3> QED BY <2>1, <2>2, <3>4, <3>5 DEF u, h
  <2> QED BY <2>3, <2>4
<1> DEFINE u == SymDiff(x, {n - 1})
           v == SymDiff(y, {n - 1})
<1>2. /\ u \in Words(n) /\ Signed(n, x) \in Int /\ Val({n - 1}) \in Int
      /\ Val(u) = Signed(n, x) + Val({n - 1})
      /\ v \in Words(n) /\ Signed(n, y) \in Int
      /\ Val(v) = Signed(n, y) + Val({n - 1})
  BY <1>1
<1>3. LtS(n, x, y) <=> LtU(u, v)
  BY DEF LtS
<1> HIDE DEF u, v
<1>4. LtU(u, v) <=> Val(u) < Val(v)
  BY <1>2, ValOrder
<1> QED BY <1>2, <1>3, <1>4

\* >> of an intN_t divides by 2^k and rounds down.
LEMMA SignedShiftRA ==
  ASSUME NEW n \in Nat \ {0}, NEW x \in Words(n), NEW k \in 0..(n - 1)
  PROVE  /\ ShiftRA(n, x, k) \in Words(n)
         /\ Signed(n, x) \div Val({k}) = Signed(n, ShiftRA(n, x, k))
<1> DEFINE z == ShiftRA(n, x, k)
           r == ShiftR(n, x, k)
           p == Val({k})
           f == From(x)[k]
           low == Trunc(k, x)
<1>1. z \in Words(n) /\ n \in Nat /\ k \in Nat /\ k \in 0..n /\ n - k \in Nat /\ n - k \in 0..n
      /\ low \in Words(k)
  BY DEF ShiftRA, Words, Trunc
<1>2. r \in Words(n) /\ Val(r) = f
  BY <1>1, ValShiftR
<1>3. Val(x) = Val(low) + p * f
  BY <1>1, Splits
<1>4. Val({n}) = p * Val({n - k})
  BY <1>1, PowerProduct
<1>5. p \in Nat \ {0} /\ Val({n - k}) \in Nat /\ Val({n}) \in Nat
  BY <1>1, PowerIsNat
<1>6. Val(low) \in 0..(p - 1)
  <2> HIDE DEF low
  <2>1. Val(low) \in Nat /\ Val(low) < p
    BY <1>1, ValRange
  <2> QED BY <1>5, <2>1
<1>7. f \in Nat
  BY <1>1, FromStep
<1>8. CASE n - 1 \in x
  <2> DEFINE high == (n - k)..(n - 1)
  <2>1. z = r \cup high /\ r \cap high = {} /\ n - 1 \in z
    <3>1. \A i \in Bits(n) : i \in z <=> i \in r \/ i \in high
      BY <1>8 DEF ShiftRA, ShiftR, Words, Bits
    <3>2. high \in Words(n) /\ r \cup high \in Words(n)
      BY <1>2, HighOnes DEF Words, Bits
    <3>3. n - 1 \in Bits(n)
      BY <1>1 DEF Bits
    <3>4. n - 1 \in z
      BY <1>8, <3>3 DEF ShiftRA, Bits
    <3>5. r \cap high = {}
      BY DEF ShiftR, Words, Bits
    <3> HIDE DEF z, r, high
    <3>6. z = r \cup high
      BY <1>1, <3>1, <3>2, SameBits
    <3> QED BY <3>4, <3>5, <3>6
  <2>2. high \in Words(n) /\ Val(high) = Val({n}) - Val({n - k})
    BY <1>1, HighOnes
  <2> HIDE DEF z, r, high
  <2>3. Val(z) = f + Val(high)
    BY <1>1, <1>2, <2>1, <2>2, DisjointSum
  <2>4. Signed(n, z) = Val(z) - Val({n}) /\ Signed(n, x) = Val(x) - Val({n})
    BY <1>8, <2>1 DEF Signed
  <2> DEFINE g == Val({n - k})
             M == Val({n})
             l == Val(low)
  <2> HIDE DEF p, f, g, M, l
  <2>5. Signed(n, z) = f - g
    <3>1. Val(z) = f + (M - g)
      BY <2>2, <2>3 DEF M, g
    <3>2. Signed(n, z) = Val(z) - M
      BY <2>4 DEF M
    <3> QED BY <1>5, <1>7, <3>1, <3>2 DEF M, g
  <2>6. Signed(n, x) = p * (f - g) + l
    <3>1. Signed(n, x) = (l + p * f) - p * g
      BY <1>3, <1>4, <2>4 DEF l, g
    <3>2. p \in Nat /\ f \in Nat /\ g \in Nat /\ l \in Nat
      BY <1>5, <1>6, <1>7 DEF g, l
    <3> QED BY <3>1, <3>2
  <2>7. f - g \in Int /\ p * (f - g) + l \in Int /\ l \in 0..(p - 1)
    BY <1>5, <1>6, <1>7 DEF g, l
  <2>8. Signed(n, x) \div p = f - g
    BY <1>5, <2>6, <2>7, QuotientIs
  <2> QED BY <1>1, <2>5, <2>8 DEF p, z
<1>9. CASE n - 1 \notin x
  <2>1. z = r
    <3>1. \A i \in Bits(n) : i \in z <=> i \in r
      BY <1>9 DEF ShiftRA, ShiftR, Words, Bits
    <3> HIDE DEF z, r
    <3> QED BY <1>1, <1>2, <3>1, SameBits
  <2>2. n - 1 \notin z
    BY <1>9 DEF ShiftRA
  <2> DEFINE l == Val(low)
  <2> HIDE DEF z, r, p, f, l
  <2>3. Val(z) = f
    BY <1>2, <2>1
  <2>4. Signed(n, z) = f /\ Signed(n, x) = p * f + l
    BY <1>3, <1>5, <1>6, <1>7, <1>9, <2>2, <2>3 DEF Signed, l
  <2>5. Signed(n, x) \div p = f
    <3>1. p * f + l \in Int /\ l \in 0..(p - 1) /\ f \in Int
      BY <1>5, <1>6, <1>7 DEF l
    <3> QED BY <1>5, <2>4, <3>1, QuotientIs
  <2> QED BY <1>1, <2>4, <2>5 DEF p, z
<1> QED BY <1>8, <1>9
=============================================================================
