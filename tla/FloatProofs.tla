---------------------------- MODULE FloatProofs ----------------------------
(***************************************************************************)
(* What the floating-point operators compute, for every format: the        *)
(* patterns of one sign, read as numbers, are the places of a growing grid *)
(* of values, and rounding finds the nearest place of the grid.            *)
(***************************************************************************)
EXTENDS MCAlu, WordsProofs

Format(f) == f.exp \in 2..16 /\ f.man \in Nat \ {0}

-----------------------------------------------------------------------------
(* Arithmetic *)

\* Multiplication by a positive number keeps the order, and only it does.
LEMMA TimesKeepsOrder ==
  ASSUME NEW i \in Int, NEW j \in Int, NEW k \in Nat \ {0}
  PROVE  /\ i < j <=> i * k < j * k
         /\ i <= j <=> i * k <= j * k
         /\ i = j <=> i * k = j * k
<1>1. ASSUME i < j PROVE i * k < j * k
  <2>1. PICK d \in Nat \ {0} : j = i + d
    <3>1. j - i \in Nat \ {0} /\ j = i + (j - i)
      BY <1>1
    <3> QED BY <3>1
  <2>2. d * k > 0
    OBVIOUS
  <2> QED BY <2>1, <2>2
<1>2. ASSUME j < i PROVE j * k < i * k
  <2>1. PICK d \in Nat \ {0} : i = j + d
    <3>1. i - j \in Nat \ {0} /\ i = j + (i - j)
      BY <1>2
    <3> QED BY <3>1
  <2>2. d * k > 0
    OBVIOUS
  <2> QED BY <2>1, <2>2
<1>3. i * k \in Int /\ j * k \in Int
  OBVIOUS
<1> QED BY <1>1, <1>2, <1>3

\* A power of 2 times another is the power of the sum.
LEMMA PowersAdd ==
  ASSUME NEW i \in Nat, NEW j \in Nat
  PROVE  Power(i + j) = Power(i) * Power(j) /\ Power(i) \in Nat \ {0}
<1>1. i + j \in Nat /\ i \in 0..(i + j) /\ (i + j) - i = j
  OBVIOUS
<1> QED BY <1>1, PowerProduct, PowerIsNat, Zenon DEF Power

\* Greater exponents, greater powers.
LEMMA PowersGrow ==
  ASSUME NEW i \in Nat, NEW j \in Nat, i <= j
  PROVE  Power(i) <= Power(j) /\ Power(i) \in Nat \ {0} /\ (i < j => 2 * Power(i) <= Power(j))
<1>1. j - i \in Nat /\ i + (j - i) = j
  OBVIOUS
<1>2. Power(j) = Power(i) * Power(j - i) /\ Power(i) \in Nat \ {0} /\ Power(j - i) \in Nat \ {0}
  BY <1>1, PowersAdd
<1>3. ASSUME i < j PROVE Power(j - i) >= 2
  <2>1. j - i - 1 \in Nat /\ (j - i - 1) + 1 = j - i
    BY <1>3
  <2>2. Power(j - i) = 2 * Power(j - i - 1) /\ Power(j - i - 1) \in Nat \ {0}
    <3>1. \A n \in Nat : Power(n + 1) = 2 * Power(n) /\ Power(n) \in Nat \ {0}
      <4> TAKE n \in Nat
      <4>1. 0 \in 0..n
        OBVIOUS
      <4> QED BY <4>1, PowersMultiply DEF Power
    <3> QED BY <2>1, <3>1
  <2> QED BY <2>2
<1> HIDE DEF Power
<1> DEFINE P == Power(i)
           Q == Power(j - i)
<1> HIDE DEF P, Q
<1>4. P \in Nat \ {0} /\ Q \in Nat \ {0} => P * Q >= P /\ (Q >= 2 => P * Q >= 2 * P)
  BY TimesKeepsOrder
<1> QED BY <1>2, <1>3, <1>4 DEF P, Q

\* The first powers.
LEMMA PowersDouble ==
  /\ Power(0) = 1
  /\ \A n \in Nat : Power(n) \in Nat \ {0} /\ Power(n + 1) = 2 * Power(n)
  /\ \A n \in 0..32 : Power(n) = 2^n
<1>1. \A n \in Nat : Power(n) \in Nat \ {0} /\ Power(n + 1) = 2 * Power(n)
  <2> TAKE n \in Nat
  <2>1. 0 \in 0..n
    OBVIOUS
  <2> QED BY <2>1, PowersMultiply DEF Power
<1>2. Power(0) = 1
  <2>1. 0 \in Nat /\ 0 \in 0..0
    OBVIOUS
  <2> QED BY <2>1, PowersMultiply DEF Power
<1>3. \A n \in 0..32 : Power(n) = 2^n
  BY ValPower, Zenon DEF Power
<1> QED BY <1>1, <1>2, <1>3

-----------------------------------------------------------------------------
(* The grid of values *)

\* The value, in units, of the v-th magnitude of a format.
Grid(f, v) ==
  LET e == v \div Power(f.man)
      m == v % Power(f.man)
  IN IF e = 0 THEN m ELSE (m + Power(f.man)) * Power(e - 1)
\* The place of infinity.
Top(f) == Power(SignAt(f)) - Power(f.man)

\* The n-th value of the binade or subnormal range with exponent E, from its
\* beginning to the first value after it.
LEMMA GridIs ==
  ASSUME NEW f, Format(f), NEW E \in Nat, NEW n \in Nat, n <= 2 * Power(f.man),
         E > 0 => n >= Power(f.man)
  PROVE  Grid(f, n + E * Power(f.man)) = n * Power(E) /\ n + E * Power(f.man) \in Nat
<1> DEFINE M == Power(f.man)
           v == n + E * M
<1>1. M \in Nat \ {0} /\ E + 1 \in Nat /\ Power(E) \in Nat \ {0} /\ Power(E + 1) = 2 * Power(E) /\ Power(0) = 1
  BY PowersDouble DEF Format
<1>2. v \in Nat
  BY <1>1
<1>3. CASE n < M
  <2>1. E = 0 /\ v = n /\ n \in 0..(M - 1) /\ v = M * 0 + n
    BY <1>1, <1>3
  <2>2. v \div M = 0 /\ v % M = n
    <3> HIDE DEF v, M
    <3> QED BY <1>1, <1>2, <2>1, QuotientIs
  <2>3. Grid(f, v) = n
    BY <2>2 DEF Grid
  <2> QED BY <1>1, <1>2, <2>1, <2>3
<1>4. CASE n >= M /\ n < 2 * M
  <2>1. n - M \in 0..(M - 1) /\ v = M * (E + 1) + (n - M) /\ E + 1 \in Int
    BY <1>1, <1>4
  <2>2. v \div M = E + 1 /\ v % M = n - M
    <3> DEFINE r == n - M
               q == E + 1
    <3>1. r \in 0..(M - 1) /\ v = M * q + r /\ q \in Int
      BY <2>1
    <3> HIDE DEF v, M, r, q
    <3>2. v \div M = q /\ v % M = r
      BY <1>1, <1>2, <3>1, QuotientIs
    <3> QED BY <3>2 DEF q, r
  <2>3. Grid(f, v) = (n - M + M) * Power(E + 1 - 1)
    <3> HIDE DEF v
    <3> QED BY <2>2 DEF Grid
  <2>4. n - M + M = n /\ E + 1 - 1 = E
    BY <1>1
  <2> QED BY <1>2, <2>3, <2>4
<1>5. CASE n = 2 * M
  <2>1. 0 \in 0..(M - 1) /\ v = M * (E + 2) + 0 /\ E + 2 \in Int
    BY <1>1, <1>5
  <2>2. v \div M = E + 2 /\ v % M = 0
    <3> HIDE DEF v, M
    <3> QED BY <1>1, <1>2, <2>1, QuotientIs
  <2>3. Grid(f, v) = (0 + M) * Power(E + 2 - 1)
    <3> HIDE DEF v
    <3> QED BY <2>2 DEF Grid
  <2>4. 0 + M = M /\ E + 2 - 1 = E + 1 /\ M * (2 * Power(E)) = n * Power(E)
    BY <1>1, <1>5
  <2> QED BY <1>1, <1>2, <2>3, <2>4
<1> HIDE DEF v
<1>6. n < M \/ (n >= M /\ n < 2 * M) \/ n = 2 * M
  BY <1>1
<1> QED BY <1>3, <1>4, <1>5, <1>6 DEF v

\* Every magnitude is in one binade.
LEMMA GridPlace ==
  ASSUME NEW f, Format(f), NEW v \in Nat
  PROVE  \E E \in Nat, n \in Nat : /\ v = n + E * Power(f.man) /\ n < 2 * Power(f.man)
                                   /\ E > 0 => n >= Power(f.man)
                                   /\ Grid(f, v) = n * Power(E) /\ Grid(f, v) \in Nat
<1> DEFINE M == Power(f.man)
           q == v \div M
           m == v % M
<1>1. M \in Nat \ {0}
  BY PowersDouble DEF Format
<1>2. q \in Nat /\ m \in Nat /\ m < M /\ v = M * q + m
  <2> HIDE DEF M
  <2> QED BY <1>1, Quotients
<1> HIDE DEF q, m
<1>3. \A E \in Nat, n \in Nat : n <= 2 * M /\ (E > 0 => n >= M) =>
         Grid(f, n + E * M) = n * Power(E) /\ n * Power(E) \in Nat
  <2> TAKE E \in Nat, n \in Nat
  <2>1. n <= 2 * M /\ (E > 0 => n >= M) => Grid(f, n + E * M) = n * Power(E)
    BY GridIs
  <2>2. n * Power(E) \in Nat
    BY PowersDouble
  <2> QED BY <2>1, <2>2
<1>4. CASE q = 0
  <2>1. 0 \in Nat /\ m <= 2 * M /\ ~(0 > 0) /\ m + 0 * M = v /\ m < 2 * M
    BY <1>1, <1>2, <1>4
  <2> HIDE DEF M
  <2>2. Grid(f, v) = m * Power(0) /\ m * Power(0) \in Nat
    BY <1>2, <1>3, <2>1
  <2> QED BY <1>2, <2>1, <2>2 DEF M
<1>5. CASE q > 0
  <2>1. q - 1 \in Nat /\ m + M \in Nat /\ m + M < 2 * M /\ m + M <= 2 * M /\ m + M >= M
        /\ (m + M) + (q - 1) * M = v
    BY <1>1, <1>2, <1>5
  <2> HIDE DEF M
  <2>2. Grid(f, v) = (m + M) * Power(q - 1) /\ (m + M) * Power(q - 1) \in Nat
    BY <1>3, <2>1
  <2> QED BY <2>1, <2>2 DEF M
<1>6. q = 0 \/ q > 0
  BY <1>2
<1> QED BY <1>4, <1>5, <1>6

\* From one place to the next the values grow.
LEMMA GridGrows ==
  ASSUME NEW f, Format(f), NEW v \in Nat, NEW w \in Nat
  PROVE  /\ v < w <=> Grid(f, v) < Grid(f, w)
         /\ v = w <=> Grid(f, v) = Grid(f, w)
         /\ Grid(f, v) \in Nat /\ (Grid(f, v) = 0 <=> v = 0)
<1> DEFINE M == Power(f.man)
<1>1. M \in Nat \ {0}
  BY PowersDouble DEF Format
<1>2. \A i \in Nat, j \in Nat : i < j => Grid(f, i) < Grid(f, j)
  <2> SUFFICES ASSUME NEW i \in Nat, NEW j \in Nat, i < j PROVE Grid(f, i) < Grid(f, j)
    OBVIOUS
  <2>1. PICK E \in Nat, n \in Nat : i = n + E * M /\ n < 2 * M /\ (E > 0 => n >= M) /\ Grid(f, i) = n * Power(E)
    BY GridPlace
  <2>2. PICK F \in Nat, k \in Nat : j = k + F * M /\ k < 2 * M /\ (F > 0 => k >= M) /\ Grid(f, j) = k * Power(F)
    BY GridPlace
  <2>3. Power(E) \in Nat \ {0} /\ Power(F) \in Nat \ {0}
    BY PowersDouble
  <2> HIDE DEF M
  <2>4. CASE E = F
    <3>1. n < k
      BY <1>1, <2>1, <2>2, <2>4
    <3>2. n * Power(E) < k * Power(E)
      BY <2>3, <3>1, TimesKeepsOrder
    <3> QED BY <2>1, <2>2, <2>4, <3>2
  <2>5. CASE E < F
    <3>1. 2 * Power(E) <= Power(F) /\ k >= M
      BY <2>2, <2>5, PowersGrow
    <3>2. n * Power(E) < (2 * M) * Power(E)
      BY <1>1, <2>1, <2>3, TimesKeepsOrder
    <3>3. (2 * Power(E)) * M <= Power(F) * M
      BY <1>1, <2>3, <3>1, TimesKeepsOrder
    <3>4. M * Power(F) <= k * Power(F)
      BY <1>1, <2>3, <3>1, TimesKeepsOrder
    <3>5. (2 * M) * Power(E) = (2 * Power(E)) * M /\ Power(F) * M = M * Power(F)
      BY <1>1, <2>3
    <3>6. n * Power(E) \in Int /\ (2 * M) * Power(E) \in Int /\ M * Power(F) \in Int /\ k * Power(F) \in Int
      BY <1>1, <2>3
    <3> QED BY <2>1, <2>2, <3>2, <3>3, <3>4, <3>5, <3>6
  <2>6. CASE F < E
    <3>1. n >= M /\ E - F \in Nat \ {0}
      BY <2>1, <2>6
    <3>2. (E - F) * M >= M
      BY <1>1, <3>1
    <3>3. E * M = F * M + (E - F) * M
      BY <1>1
    <3>4. F * M \in Nat /\ E * M \in Nat /\ (E - F) * M \in Nat
      BY <1>1, <3>1
    <3> QED BY <1>1, <2>1, <2>2, <3>1, <3>2, <3>3, <3>4
  <2> QED BY <2>4, <2>5, <2>6
<1>3. \A i \in Nat : Grid(f, i) \in Nat
  BY GridPlace
<1>4. Grid(f, 0) = 0
  <2>1. 0 <= 2 * M /\ ~(0 > 0) /\ 0 + 0 * M = 0 /\ 0 \in Nat
    BY <1>1
  <2>2. Grid(f, 0 + 0 * M) = 0 * Power(0)
    BY <2>1, GridIs
  <2> QED BY <2>1, <2>2, PowersDouble
<1>5. 0 \in Nat
  OBVIOUS
<1> QED BY <1>2, <1>3, <1>4, <1>5

-----------------------------------------------------------------------------
(* Patterns *)

\* What a pattern is read as.
Place(f, x) == Val(Magnitude(f, x))

\* The widths of a format.
LEMMA FormatWidths ==
  ASSUME NEW f, Format(f)
  PROVE  /\ f.exp \in Nat /\ f.man \in Nat \ {0} /\ SignAt(f) \in Nat /\ SignAt(f) = f.man + f.exp
         /\ f.man \in 0..SignAt(f) /\ SignAt(f) - f.man = f.exp
         /\ Power(f.man) \in Nat \ {0} /\ Power(SignAt(f)) = Power(f.man) * Power(f.exp)
         /\ Power(f.exp) = 2^f.exp /\ Power(f.exp) \in Nat /\ Power(f.exp) >= 4
<1>1. f.exp \in Nat /\ f.man \in Nat /\ SignAt(f) = f.man + f.exp /\ f.exp \in 0..32
  BY DEF Format, SignAt
<1>2. Power(f.man) \in Nat \ {0} /\ Power(f.exp) \in Nat \ {0} /\ Power(f.exp) = 2^f.exp
  BY <1>1, PowersDouble
<1>3. Power(SignAt(f)) = Power(f.man) * Power(f.exp)
  BY <1>1, PowersAdd
<1>4. Power(f.exp) >= 4
  <2>1. 2 \in Nat /\ 2 <= f.exp
    BY DEF Format
  <2>2. Power(2) <= Power(f.exp)
    BY <1>1, <2>1, PowersGrow
  <2>3. Power(2) = 4
    <3>1. 2 \in 0..32 /\ 2^2 = 4
      OBVIOUS
    <3> QED BY <3>1, PowersDouble
  <2> QED BY <1>2, <2>2, <2>3
<1> QED BY <1>1, <1>2, <1>3, <1>4 DEF Format

\* The two fields of a pattern are the quotient and the remainder of its place.
LEMMA FieldsOfPlace ==
  ASSUME NEW f, Format(f), NEW x
  PROVE  /\ Magnitude(f, x) \in Words(SignAt(f)) /\ Place(f, x) \in Nat /\ Place(f, x) < Power(SignAt(f))
         /\ Field(x, f.man, SignAt(f) - 1) = Place(f, x) \div Power(f.man)
         /\ Val(Trunc(f.man, x)) = Place(f, x) % Power(f.man)
         /\ Place(f, x) \div Power(f.man) \in 0..(Power(f.exp) - 1)
         /\ Slice(x, f.man, SignAt(f) - 1, 0) \in Words(f.exp)
<1> DEFINE n == SignAt(f)
           k == f.man
           g == Magnitude(f, x)
           low == Trunc(k, x)
           high == Slice(x, k, n - 1, 0)
<1>1. n \in Nat /\ k \in 0..n /\ k \in Nat /\ n - k = f.exp /\ f.exp \in Nat /\ n = k + f.exp /\ f.exp >= 2
  BY FormatWidths DEF Format
<1>2. g \in Words(n) /\ Val(g) \in Nat /\ Val(g) < Power(n)
  BY <1>1, TruncIsWord, ValRange, Zenon DEF Magnitude, Power
<1>3. Trunc(k, g) = low
  BY <1>1 DEF Magnitude, Trunc, Bits
<1>4. n - 1 \in Nat /\ f.exp = n - 1 - k + 1
  BY <1>1
<1>5. high \in Words(f.exp) /\ \A i \in Bits(f.exp) : i \in high <=> i + k \in x
  BY <1>1, <1>4, SliceIsWord, Zenon
<1>6. ShiftR(n, g, k) = high
  <2>1. ShiftR(n, g, k) \in Words(n) /\ high \in Words(n)
    <3>1. ShiftR(n, g, k) \in Words(n)
      BY <1>1, <1>2, ValShiftR, Zenon
    <3>2. Bits(f.exp) \subseteq Bits(n)
      BY <1>1 DEF Bits
    <3> QED BY <1>5, <3>1, <3>2, Zenon DEF Words
  <2>2. \A i \in Bits(n) : i \in ShiftR(n, g, k) <=> (i + k \in x /\ i + k < n)
    BY <1>1 DEF ShiftR, Magnitude, Trunc, Bits
  <2>3. \A i \in Bits(n) : i \in high <=> (i + k \in x /\ i + k < n)
    <3> TAKE i \in Bits(n)
    <3>1. CASE i \in Bits(f.exp)
      <4>1. i + k < n
        BY <1>1, <3>1 DEF Bits
      <4> QED BY <1>5, <3>1, <4>1
    <3>2. CASE i \notin Bits(f.exp)
      <4>1. ~(i + k < n) /\ i \notin high
        BY <1>1, <1>5, <3>2 DEF Bits, Words
      <4> QED BY <4>1
    <3> QED BY <3>1, <3>2
  <2> QED BY <2>1, <2>2, <2>3, SameBits
<1>7. From(g)[k] = Val(high)
  BY <1>1, <1>2, <1>6, ValShiftR
<1>8. Val(g) = Val(low) + Power(k) * Val(high)
  BY <1>1, <1>2, <1>3, <1>7, Splits DEF Power
<1>9. Val(low) \in Nat /\ Val(low) < Power(k)
  BY <1>1, TruncIsWord, ValRange, Zenon DEF Power
<1>10. Val(high) \in Nat /\ Val(high) < Power(f.exp)
  BY <1>1, <1>5, ValRange, Zenon DEF Power
<1>11. Power(k) \in Nat \ {0} /\ Power(f.exp) \in Nat
  BY FormatWidths
<1>12. Val(g) \div Power(k) = Val(high) /\ Val(g) % Power(k) = Val(low)
  <2> DEFINE p == Power(k)
             q == Val(high)
             r == Val(low)
             v == Val(g)
  <2>1. v \in Int /\ p \in Nat \ {0} /\ q \in Int /\ r \in 0..(p - 1) /\ v = p * q + r
    <3> HIDE DEF g, low, high
    <3> QED BY <1>2, <1>8, <1>9, <1>10, <1>11
  <2> HIDE DEF p, q, r, v
  <2>2. v \div p = q /\ v % p = r
    BY <2>1, QuotientIs
  <2> QED BY <2>2 DEF p, q, r, v
<1>13. Val(high) \in 0..(Power(f.exp) - 1)
  BY <1>10, <1>11
<1> HIDE DEF g, low, high
<1> QED BY <1>2, <1>5, <1>12, <1>13, Zenon DEF Place, Field, g, low, high, n, k

\* The value of a pattern is that of its place, with its sign.
LEMMA UnitsOfPlace ==
  ASSUME NEW f, Format(f), NEW x
  PROVE  Units(f, x) = IF IsNegative(f, x) THEN -Grid(f, Place(f, x)) ELSE Grid(f, Place(f, x))
<1> DEFINE e == Field(x, f.man, SignAt(f) - 1)
           m == Val(Trunc(f.man, x))
           M == Power(f.man)
           n == m + IF e = 0 THEN 0 ELSE M
           magnitude == n * Power(IF e = 0 THEN 0 ELSE e - 1)
<1>1. e = Place(f, x) \div M /\ m = Place(f, x) % M
  BY FieldsOfPlace
<1>2. m \in Nat /\ M \in Nat
  BY FormatWidths, TruncIsWord, ValRange, Zenon
<1>3. Grid(f, Place(f, x)) = IF e = 0 THEN m ELSE (m + M) * Power(e - 1)
  BY <1>1, Zenon DEF Grid
<1>4. magnitude = Grid(f, Place(f, x))
  <2> HIDE DEF m, M, e
  <2>1. CASE e = 0
    <3>1. magnitude = (m + 0) * Power(0)
      BY <2>1
    <3> QED BY <1>2, <1>3, <2>1, <3>1, PowersDouble
  <2>2. CASE e # 0
    BY <1>3, <2>2
  <2> QED BY <2>1, <2>2
<1>5. Units(f, x) = IF SignAt(f) \in x THEN -magnitude ELSE magnitude
  BY Zenon DEF Units
<1> QED BY <1>4, <1>5, Zenon DEF IsNegative

\* The classes of patterns are ranges of places.
LEMMA ClassesOfPlace ==
  ASSUME NEW f, Format(f), NEW x
  PROVE  /\ Top(f) \in Nat /\ Top(f) > Power(f.man) /\ Top(f) = (Power(f.exp) - 1) * Power(f.man)
         /\ Top(f) = Val(Infinity(f)) /\ Infinity(f) \in Words(SignAt(f))
         /\ IsInf(f, x) <=> Place(f, x) = Top(f)
         /\ IsNaN(f, x) <=> Place(f, x) > Top(f)
         /\ IsZero(f, x) <=> Place(f, x) = 0
         /\ IsNormal(f, x) <=> (Place(f, x) >= Power(f.man) /\ Place(f, x) < Top(f))
<1> DEFINE n == SignAt(f)
           k == f.man
           M == Power(k)
           N == Power(f.exp)
           g == Magnitude(f, x)
           v == Place(f, x)
           q == v \div M
           r == v % M
           high == Slice(x, k, n - 1, 0)
<1>1. /\ n \in Nat /\ k \in 0..n /\ k \in Nat /\ n - k = f.exp /\ f.exp \in Nat /\ n = k + f.exp
      /\ M \in Nat \ {0} /\ N \in Nat /\ N >= 4 /\ Power(n) = M * N
  BY FormatWidths
<1>2. g \in Words(n) /\ v \in Nat /\ q \in 0..(N - 1) /\ Val(high) = q /\ high \in Words(f.exp)
  BY FieldsOfPlace, Zenon DEF Field
<1>3. v = M * q + r /\ r \in Nat /\ r < M
  <2> HIDE DEF M, v
  <2> QED BY <1>1, <1>2, Quotients
<1>4. Infinity(f) \in Words(n) /\ Val(Infinity(f)) = Top(f)
  <2>1. k..(n - 1) \in Words(n) /\ Val(k..(n - 1)) = Val({n}) - Val({k})
    BY <1>1, HighOnes
  <2> QED BY <2>1, Zenon DEF Infinity, Top, Power
<1>5. Top(f) = (N - 1) * M /\ Top(f) \in Nat /\ Top(f) > M
  <2>1. Top(f) = M * N - M
    BY <1>1, Zenon DEF Top
  <2>2. M * N - M = (N - 1) * M /\ (N - 1) * M = (N - 2) * M + M /\ (N - 2) * M > 0
    BY <1>1
  <2>3. (N - 2) * M \in Nat
    BY <1>1
  <2> HIDE DEF N, M
  <2> QED BY <1>1, <2>1, <2>2, <2>3
<1>6. IsInf(f, x) <=> v = Top(f)
  BY <1>1, <1>2, <1>4, ValInjective, Zenon DEF IsInf, Place
<1>7. IsZero(f, x) <=> v = 0
  <2>1. {} \in Words(n)
    BY ZeroIsWord
  <2> QED BY <1>1, <1>2, <2>1, ValInjective, ZeroIsZero, Zenon DEF IsZero, Place
<1>8. \A i \in Bits(f.exp) : i \in high <=> i + k \in x
  <2>1. n - 1 \in Nat /\ f.exp = n - 1 - k + 1
    BY <1>1, FormatWidths DEF Format
  <2> QED BY <1>1, <2>1, SliceIsWord, Zenon
<1>9. Infinity(f) \subseteq x <=> q = N - 1
  <2>1. Bits(f.exp) \in Words(f.exp) /\ Val(Bits(f.exp)) = N - 1
    BY <1>1, ValOnes DEF Power
  <2>2. high = Bits(f.exp) <=> q = N - 1
    BY <1>1, <1>2, <2>1, ValInjective, Zenon
  <2>3. ASSUME Infinity(f) \subseteq x PROVE high = Bits(f.exp)
    <3>1. \A i \in Bits(f.exp) : i + k \in Infinity(f)
      BY <1>1 DEF Bits, Infinity
    <3> HIDE DEF high
    <3> QED BY <1>2, <1>8, <2>1, <2>3, <3>1, SameBits
  <2>4. ASSUME high = Bits(f.exp) PROVE Infinity(f) \subseteq x
    <3>1. \A j \in Infinity(f) : j - k \in Bits(f.exp) /\ (j - k) + k = j
      BY <1>1 DEF Bits, Infinity
    <3> QED BY <1>8, <2>4, <3>1
  <2> QED BY <2>2, <2>3, <2>4
<1>10. q = N - 1 <=> v >= Top(f)
  <2> HIDE DEF v, q, r, M, N
  <2>1. q = N - 1 => v >= Top(f)
    BY <1>1, <1>2, <1>3, <1>5
  <2>2. q < N - 1 => v < Top(f)
    <3> SUFFICES ASSUME q < N - 1 PROVE v < Top(f)
      OBVIOUS
    <3>1. (q + 1) * M <= (N - 1) * M
      BY <1>1, <1>2, TimesKeepsOrder
    <3>2. (q + 1) * M = M * q + M /\ M * q \in Nat
      BY <1>1, <1>2
    <3> QED BY <1>1, <1>3, <1>5, <3>1, <3>2
  <2> QED BY <1>1, <1>2, <1>5, <2>1, <2>2
<1>11. IsNaN(f, x) <=> v > Top(f)
  <2>1. IsNaN(f, x) <=> (v >= Top(f) /\ v # Top(f))
    BY <1>6, <1>9, <1>10, Zenon DEF IsNaN
  <2> HIDE DEF v
  <2> QED BY <1>2, <1>5, <2>1
<1>12. x \cap Infinity(f) = {} <=> v < M
  <2>1. x \cap Infinity(f) = {} <=> q = 0
    <3>1. high = {} <=> q = 0
      <4>1. {} \in Words(f.exp)
        BY ZeroIsWord
      <4> QED BY <1>1, <1>2, <4>1, ValInjective, ZeroIsZero, Zenon
    <3>2. ASSUME x \cap Infinity(f) = {} PROVE high = {}
      <4>1. \A i \in Bits(f.exp) : i + k \in Infinity(f)
        BY <1>1 DEF Bits, Infinity
      <4>2. high \subseteq Bits(f.exp)
        BY <1>2, Zenon DEF Words
      <4> HIDE DEF high
      <4> QED BY <1>8, <3>2, <4>1, <4>2
    <3>3. ASSUME high = {} PROVE x \cap Infinity(f) = {}
      <4>1. \A j \in Infinity(f) : j - k \in Bits(f.exp) /\ (j - k) + k = j
        BY <1>1 DEF Bits, Infinity
      <4> QED BY <1>8, <3>3, <4>1
    <3> QED BY <3>1, <3>2, <3>3
  <2>2. q = 0 <=> v < M
    <3> HIDE DEF v, q, r, M, N
    <3>1. q > 0 => M * q >= M
      BY <1>1, <1>2
    <3>2. M * q \in Nat /\ (q = 0 => M * q = 0) /\ q \in Nat
      BY <1>1, <1>2
    <3> QED BY <1>1, <1>3, <3>1, <3>2
  <2> QED BY <2>1, <2>2
<1>13. x \cap Infinity(f) = Infinity(f) <=> v >= Top(f)
  <2>1. x \cap Infinity(f) = Infinity(f) <=> Infinity(f) \subseteq x
    OBVIOUS
  <2> QED BY <1>9, <1>10, <2>1, Zenon
<1>14. IsNormal(f, x) <=> (v >= M /\ v < Top(f))
  <2>1. IsNormal(f, x) <=> (x \cap Infinity(f) # {} /\ x \cap Infinity(f) # Infinity(f))
    BY DEF IsNormal
  <2> HIDE DEF v, M
  <2> QED BY <1>1, <1>2, <1>5, <1>12, <1>13, <2>1
<1> HIDE DEF g, q, r, high
<1> QED BY <1>4, <1>5, <1>6, <1>7, <1>11, <1>14, Zenon

-----------------------------------------------------------------------------
(* Order *)

\* The place with its sign.
Position(f, x) == IF IsNegative(f, x) THEN -Place(f, x) ELSE Place(f, x)

\* Values are in the order of the positions.
LEMMA UnitsGrow ==
  ASSUME NEW f, Format(f), NEW x, NEW y
  PROVE  /\ Position(f, x) \in Int /\ Units(f, x) \in Int
         /\ Units(f, x) < Units(f, y) <=> Position(f, x) < Position(f, y)
         /\ Units(f, x) = Units(f, y) <=> Position(f, x) = Position(f, y)
<1> DEFINE v == Place(f, x)
           w == Place(f, y)
<1>1. v \in Nat /\ w \in Nat
  BY FieldsOfPlace
<1>2. /\ Units(f, x) = IF IsNegative(f, x) THEN -Grid(f, v) ELSE Grid(f, v)
      /\ Units(f, y) = IF IsNegative(f, y) THEN -Grid(f, w) ELSE Grid(f, w)
  BY UnitsOfPlace, Zenon
<1>3. /\ Position(f, x) = IF IsNegative(f, x) THEN -v ELSE v
      /\ Position(f, y) = IF IsNegative(f, y) THEN -w ELSE w
  BY Zenon DEF Position
<1> HIDE DEF v, w
<1>4. /\ v < w <=> Grid(f, v) < Grid(f, w)
      /\ w < v <=> Grid(f, w) < Grid(f, v)
      /\ v = w <=> Grid(f, v) = Grid(f, w)
      /\ Grid(f, v) \in Nat /\ (Grid(f, v) = 0 <=> v = 0)
      /\ Grid(f, w) \in Nat /\ (Grid(f, w) = 0 <=> w = 0)
  BY <1>1, GridGrows
<1> DEFINE i == Grid(f, v)
           j == Grid(f, w)
<1> HIDE DEF i, j
<1>5. /\ v < w <=> i < j
      /\ w < v <=> j < i
      /\ v = w <=> i = j
      /\ i \in Nat /\ (i = 0 <=> v = 0)
      /\ j \in Nat /\ (j = 0 <=> w = 0)
  BY <1>4 DEF i, j
<1>6. /\ Units(f, x) = IF IsNegative(f, x) THEN -i ELSE i
      /\ Units(f, y) = IF IsNegative(f, y) THEN -j ELSE j
  BY <1>2 DEF i, j
<1> QED BY <1>1, <1>3, <1>5, <1>6

\* A pattern is its sign and its place.
LEMMA PatternIs ==
  ASSUME NEW f, Format(f), NEW x \in Words(Width(f)), NEW y \in Words(Width(f))
  PROVE  /\ Width(f) \in Nat
         /\ x = y <=> (IsNegative(f, x) <=> IsNegative(f, y)) /\ Place(f, x) = Place(f, y)
         /\ (IsNegative(f, x) <=> IsNegative(f, y)) => (LtU(x, y) <=> Place(f, x) < Place(f, y))
<1> DEFINE n == SignAt(f)
           top(z) == IF IsNegative(f, z) THEN {n} ELSE {}
           weight(z) == IF IsNegative(f, z) THEN Power(n) ELSE 0
<1>1. n \in Nat /\ Width(f) = n + 1 /\ Width(f) \in Nat
  BY FormatWidths DEF Width
<1>2. ASSUME NEW z \in Words(Width(f))
      PROVE  Val(z) = Place(f, z) + weight(z) /\ Place(f, z) \in Nat /\ weight(z) \in Nat
  <2>1. Magnitude(f, z) \in Words(Width(f)) /\ top(z) \in Words(Width(f))
    BY <1>1 DEF Magnitude, Trunc, Words, Bits
  <2>2. Magnitude(f, z) \cap top(z) = {} /\ Magnitude(f, z) \cup top(z) = z
    <3>1. \A i \in z : i \in 0..n
      BY <1>1, <1>2 DEF Words, Bits
    <3>2. n \notin 0..(n - 1) /\ \A i \in 0..n : i = n \/ i \in 0..(n - 1)
      BY <1>1
    <3> HIDE DEF n
    <3> QED BY <3>1, <3>2, Zenon DEF Magnitude, Trunc, Bits, IsNegative, n
  <2>3. Val(z) = Val(Magnitude(f, z)) + Val(top(z))
    <3> HIDE DEF top
    <3> QED BY <1>1, <2>1, <2>2, DisjointSum
  <2>4. Val(top(z)) = weight(z)
    BY ZeroIsZero, Zenon DEF Power
  <2>5. Place(f, z) \in Nat /\ Power(n) \in Nat
    BY <1>1, FieldsOfPlace, PowersDouble
  <2> QED BY <2>3, <2>4, <2>5 DEF Place
<1>3. /\ Val(x) = Place(f, x) + weight(x) /\ Place(f, x) \in Nat /\ weight(x) \in Nat
      /\ Val(y) = Place(f, y) + weight(y) /\ Place(f, y) \in Nat /\ weight(y) \in Nat
  BY <1>2
<1>4. LtU(x, y) <=> Val(x) < Val(y)
  BY <1>1, ValOrder
<1>5. (IsNegative(f, x) <=> IsNegative(f, y)) => weight(x) = weight(y)
  OBVIOUS
<1>6. (IsNegative(f, x) <=> IsNegative(f, y)) /\ Place(f, x) = Place(f, y) => x = y
  BY <1>1, <1>3, <1>5, ValInjective, Zenon
<1> HIDE DEF weight
<1> QED BY <1>1, <1>3, <1>4, <1>5, <1>6

\* FEQ and FLT compare the values.
LEMMA ComparesUnits ==
  ASSUME NEW f, Format(f), NEW x \in Words(Width(f)), NEW y \in Words(Width(f))
  PROVE  /\ Equal(f, x, y) <=> Number(f, x) /\ Number(f, y) /\ Units(f, x) = Units(f, y)
         /\ Less(f, x, y) <=> Number(f, x) /\ Number(f, y) /\ Units(f, x) < Units(f, y)
<1>1. /\ Place(f, x) \in Nat /\ Place(f, y) \in Nat
      /\ IsZero(f, x) <=> Place(f, x) = 0
      /\ IsZero(f, y) <=> Place(f, y) = 0
  BY FieldsOfPlace, ClassesOfPlace, Zenon
<1>2. /\ Position(f, x) = IF IsNegative(f, x) THEN -Place(f, x) ELSE Place(f, x)
      /\ Position(f, y) = IF IsNegative(f, y) THEN -Place(f, y) ELSE Place(f, y)
  BY Zenon DEF Position
<1>3. /\ x = y <=> (IsNegative(f, x) <=> IsNegative(f, y)) /\ Place(f, x) = Place(f, y)
      /\ (IsNegative(f, x) <=> IsNegative(f, y)) => (LtU(x, y) <=> Place(f, x) < Place(f, y))
      /\ (IsNegative(f, x) <=> IsNegative(f, y)) => (LtU(y, x) <=> Place(f, y) < Place(f, x))
  BY PatternIs, Zenon
<1>4. /\ Units(f, x) < Units(f, y) <=> Position(f, x) < Position(f, y)
      /\ Units(f, x) = Units(f, y) <=> Position(f, x) = Position(f, y)
  BY UnitsGrow
<1>5. Equal(f, x, y) <=> Number(f, x) /\ Number(f, y) /\ Position(f, x) = Position(f, y)
  BY <1>1, <1>2, <1>3 DEF Equal, Number
<1>6. Less(f, x, y) <=> Number(f, x) /\ Number(f, y) /\ Position(f, x) < Position(f, y)
  BY <1>1, <1>2, <1>3, <1>5 DEF Less, Number
<1> QED BY <1>4, <1>5, <1>6

\* r and s are the smaller and the greater of x and y.
AreExtremes(f, x, y, r, s) ==
  /\ r \in {x, y} /\ s \in {x, y}
  /\ {Units(f, r), Units(f, s)} = {Units(f, x), Units(f, y)}
  /\ Units(f, r) <= Units(f, s)

\* FMIN and FMAX of two numbers are.
LEMMA ExtremesAre ==
  ASSUME NEW f, Format(f), NEW x \in Words(Width(f)), NEW y \in Words(Width(f)),
         Number(f, x), Number(f, y), NEW r \in Extremes(f, x, y, TRUE), NEW s \in Extremes(f, x, y, FALSE)
  PROVE  AreExtremes(f, x, y, r, s)
<1>1. {v \in {x, y} : IsNaN(f, v)} = {}
  BY DEF Number
<1>2. Extremes(f, x, y, TRUE) = {v \in {x, y} : ~Less(f, x, v) /\ ~Less(f, y, v)}
  BY <1>1 DEF Extremes
<1>3. r \in {x, y} /\ ~Less(f, x, r) /\ ~Less(f, y, r)
  BY <1>2
<1>4. Extremes(f, x, y, FALSE) = {v \in {x, y} : ~Less(f, v, x) /\ ~Less(f, v, y)}
  BY <1>1 DEF Extremes
<1>5. s \in {x, y} /\ ~Less(f, s, x) /\ ~Less(f, s, y)
  BY <1>4
<1>6. \A v \in {x, y}, w \in {x, y} : Less(f, v, w) <=> Units(f, v) < Units(f, w)
  BY ComparesUnits
<1>7. Units(f, x) \in Int /\ Units(f, y) \in Int
  BY UnitsGrow
<1> QED BY <1>3, <1>5, <1>6, <1>7 DEF AreExtremes

\* Beside a quiet NaN they return the number.
LEMMA QuietNaNIsAvoided ==
  ASSUME NEW f, NEW x, NEW y, NEW least, Number(f, x), ~Number(f, y), f.man - 1 \in y
  PROVE  Extremes(f, x, y, least) = {x} /\ Extremes(f, y, x, least) = {x}
<1>1. {v \in {x, y} : IsNaN(f, v)} = {y} /\ x # y
  BY DEF Number
<1>2. {x, y} = {y, x}
  OBVIOUS
<1>3. {v \in {y} : f.man - 1 \notin v} = {}
  OBVIOUS
<1>4. Quieted(f, {}) = {}
  BY DEF Quieted
<1>5. {y} # {} /\ {y} # {x, y}
  BY <1>1
<1>6. Extremes(f, x, y, least) = ({x, y} \ {y}) \cup Quieted(f, {})
  BY <1>1, <1>3, <1>5, Zenon DEF Extremes
<1>7. Extremes(f, y, x, least) = ({x, y} \ {y}) \cup Quieted(f, {})
  BY <1>1, <1>3, <1>5, <1>2, Zenon DEF Extremes
<1> QED BY <1>1, <1>4, <1>6, <1>7

-----------------------------------------------------------------------------
(* FCLASS *)

\* The number of the class of a pattern.
ClassOf(f, x) ==
  LET Class(negative, positive) == IF IsNegative(f, x) THEN negative ELSE positive
  IN IF IsNaN(f, x) THEN Class(9, 8)
     ELSE IF IsInf(f, x) THEN Class(0, 7)
     ELSE IF IsZero(f, x) THEN Class(3, 4)
     ELSE IF IsNormal(f, x) THEN Class(1, 6) ELSE Class(2, 5)

\* The literals of fclass have one bit each.
LEMMA ClassBits ==
  /\ Num(1) = {0} /\ Num(2) = {1} /\ Num(4) = {2} /\ Num(8) = {3} /\ Num(16) = {4}
  /\ Num(32) = {5} /\ Num(64) = {6} /\ Num(128) = {7} /\ Num(256) = {8} /\ Num(512) = {9}
<1>1. \A j \in 0..9 : \A k \in Nat : k < 2^31 /\ 2^j = k => Num(k) = {j}
  <2> TAKE j \in 0..9
  <2> TAKE k \in Nat
  <2> HAVE k < 2^31 /\ 2^j = k
  <2>1. Num(k) \in Words(31) /\ Val(Num(k)) = k
    BY ValNum
  <2>2. {j} \in Words(31)
    BY DEF Words, Bits
  <2>3. Val({j}) = k
    <3>1. j \in 0..32
      OBVIOUS
    <3> QED BY <3>1, ValPower
  <2>4. 31 \in Nat
    OBVIOUS
  <2> QED BY <2>1, <2>2, <2>3, <2>4, ValInjective, Zenon
<1>2. /\ 2^0 = 1 /\ 2^1 = 2 /\ 2^2 = 4 /\ 2^3 = 8 /\ 2^4 = 16
      /\ 2^5 = 32 /\ 2^6 = 64 /\ 2^7 = 128 /\ 2^8 = 256 /\ 2^9 = 512
  BY SMT
<1>3. 512 < 2^31
  BY SMT
<1>4. \A k \in 0..512 : k \in Nat /\ k < 2^31
  BY <1>3
<1> QED BY <1>1, <1>2, <1>4, SMT

\* FCLASS sets the bit of the class.
LEMMA ClassIs ==
  ASSUME NEW f, NEW x
  PROVE  fclass(f, x) = {ClassOf(f, x)}
BY ClassBits, Zenon DEF fclass, ClassOf

\* Classes are in the order of the positions; the infinities and the zeros are
\* alone in theirs, and subnormal numbers are below the smallest normal one.
LEMMA ClassesAreOrdered ==
  ASSUME NEW f, Format(f), NEW x \in Words(Width(f)), NEW y \in Words(Width(f))
  PROVE  /\ ClassOf(f, x) \in 0..9
         /\ Number(f, x) <=> ClassOf(f, x) \in 0..7
         /\ Number(f, x) /\ Number(f, y) /\ ClassOf(f, x) < ClassOf(f, y) => Units(f, x) <= Units(f, y)
         /\ Number(f, x) /\ Number(f, y) /\ ClassOf(f, x) = ClassOf(f, y) /\ ClassOf(f, x) \in {0, 3, 4, 7}
              => x = y
         /\ Number(f, x) /\ ClassOf(f, x) \in {2, 5} => AbsVal(Units(f, x)) < Power(f.man)
<1> DEFINE M == Power(f.man)
           t == Top(f)
<1>1. /\ M \in Nat \ {0} /\ t \in Nat /\ t > M
  BY FormatWidths, ClassesOfPlace
<1>2. \A z : /\ Place(f, z) \in Nat
             /\ IsInf(f, z) <=> Place(f, z) = t
             /\ IsNaN(f, z) <=> Place(f, z) > t
             /\ IsZero(f, z) <=> Place(f, z) = 0
             /\ IsNormal(f, z) <=> (Place(f, z) >= M /\ Place(f, z) < t)
  BY FieldsOfPlace, ClassesOfPlace, Zenon
<1>3. \A z : Position(f, z) = IF IsNegative(f, z) THEN -Place(f, z) ELSE Place(f, z)
  BY Zenon DEF Position
<1>4. \A z : Number(f, z) <=> Place(f, z) <= t
  BY <1>1, <1>2 DEF Number
<1> HIDE DEF M, t
<1>5. \A z : LET v == Place(f, z)
             IN ClassOf(f, z) = IF IsNegative(f, z)
                                THEN IF v > t THEN 9 ELSE IF v = t THEN 0 ELSE IF v = 0 THEN 3
                                     ELSE IF v >= M THEN 1 ELSE 2
                                ELSE IF v > t THEN 8 ELSE IF v = t THEN 7 ELSE IF v = 0 THEN 4
                                     ELSE IF v >= M THEN 6 ELSE 5
  BY <1>1, <1>2 DEF ClassOf
<1>6. /\ ClassOf(f, x) \in 0..9 /\ (Number(f, x) <=> ClassOf(f, x) \in 0..7)
  BY <1>1, <1>2, <1>4, <1>5
<1>7. Number(f, x) /\ Number(f, y) /\ ClassOf(f, x) < ClassOf(f, y) => Units(f, x) <= Units(f, y)
  <2> SUFFICES ASSUME Number(f, x), Number(f, y), ClassOf(f, x) < ClassOf(f, y)
               PROVE  Units(f, x) <= Units(f, y)
    OBVIOUS
  <2>1. Position(f, x) <= Position(f, y)
    BY <1>1, <1>2, <1>3, <1>4, <1>5
  <2> QED BY <2>1, UnitsGrow
<1>8. Number(f, x) /\ Number(f, y) /\ ClassOf(f, x) = ClassOf(f, y) /\ ClassOf(f, x) \in {0, 3, 4, 7} => x = y
  <2> SUFFICES ASSUME Number(f, x), Number(f, y), ClassOf(f, x) = ClassOf(f, y), ClassOf(f, x) \in {0, 3, 4, 7}
               PROVE  x = y
    OBVIOUS
  <2>1. (IsNegative(f, x) <=> IsNegative(f, y)) /\ Place(f, x) = Place(f, y)
    BY <1>1, <1>2, <1>4, <1>5
  <2> QED BY <2>1, PatternIs
<1>9. Number(f, x) /\ ClassOf(f, x) \in {2, 5} => AbsVal(Units(f, x)) < M
  <2> SUFFICES ASSUME Number(f, x), ClassOf(f, x) \in {2, 5} PROVE AbsVal(Units(f, x)) < M
    OBVIOUS
  <2>1. Place(f, x) < M /\ Place(f, x) \in Nat
    BY <1>1, <1>2, <1>4, <1>5
  <2>2. Grid(f, Place(f, x)) = Place(f, x)
    <3> DEFINE v == Place(f, x)
    <3>1. 0 \in Nat /\ v <= 2 * M /\ ~(0 > 0) /\ v + 0 * M = v
      BY <1>1, <2>1
    <3> HIDE DEF v
    <3>2. Grid(f, v + 0 * M) = v * Power(0)
      BY <2>1, <3>1, GridIs DEF M, v
    <3> QED BY <2>1, <3>1, <3>2, PowersDouble DEF v
  <2>3. Units(f, x) = IF IsNegative(f, x) THEN -Place(f, x) ELSE Place(f, x)
    BY <2>2, UnitsOfPlace, Zenon
  <2> QED BY <2>1, <2>3 DEF AbsVal
<1> QED BY <1>6, <1>7, <1>8, <1>9 DEF M

-----------------------------------------------------------------------------
(* Sets of powers *)

\* The sum of the powers of 2 in a set, in units of 2^B.
Amount(powers, B) == Val(Shifted(powers, -B))

\* Shifts add up.
LEMMA ShiftedTwice ==
  ASSUME NEW p \in SUBSET Int, NEW i \in Int, NEW j \in Int
  PROVE  Shifted(Shifted(p, i), j) = Shifted(p, i + j) /\ Shifted(p, i) \in SUBSET Int
<1>1. \A k \in p : k + i + j = k + (i + j) /\ k + i \in Int
  OBVIOUS
<1> QED BY <1>1 DEF Shifted

\* A shift to the left multiplies.
LEMMA ShiftedWord ==
  ASSUME NEW n \in Nat, NEW x \in Words(n), NEW k \in Nat
  PROVE  Shifted(x, k) \in Words(n + k) /\ Val(Shifted(x, k)) = Val(x) * Power(k)
<1>1. n + k \in Nat /\ k \in 0..(n + k) /\ (n + k) - k = n
  OBVIOUS
<1>2. x \in Words(n + k) /\ \A i \in x : i \in Int /\ i >= 0 /\ i < n
  BY DEF Words, Bits
<1>3. Shifted(x, k) = ShiftL(n + k, x, k)
  <2>1. \A i \in x : i + k \in Bits(n + k) /\ (i + k) - k = i
    BY <1>2 DEF Bits
  <2>2. \A i \in Bits(n + k) : i - k \in x => i = (i - k) + k
    BY DEF Bits
  <2> QED BY <2>1, <2>2 DEF Shifted, ShiftL
<1>4. ShiftL(n + k, x, k) \in Words(n + k)
      /\ Val(x) * Val({k}) = Val(ShiftL(n + k, x, k)) + Val({n + k}) * From(x)[(n + k) - k]
  BY <1>1, <1>2, ValShiftL
<1>5. From(x)[n] = 0
  BY FromStep
<1>6. Val(ShiftL(n + k, x, k)) \in Nat /\ Val({n + k}) \in Nat
  BY <1>1, <1>4, ValRange, PowerIsNat
<1>7. Val({n + k}) * From(x)[(n + k) - k] = 0
  BY <1>1, <1>5, <1>6
<1> QED BY <1>3, <1>4, <1>6, <1>7 DEF Power

\* The powers of a set from B up to below C make a word.
LEMMA AmountIs ==
  ASSUME NEW B \in Int, NEW C \in Int, B <= C, NEW p \in SUBSET (B..(C - 1))
  PROVE  /\ p \in SUBSET Int /\ C - B \in Nat /\ Shifted(p, -B) \in Words(C - B)
         /\ Amount(p, B) \in Nat /\ Amount(p, B) < Power(C - B)
         /\ p = {} <=> Amount(p, B) = 0
         /\ \A i \in Int : i \in Shifted(p, -B) <=> i + B \in p
<1>1. p \in SUBSET Int /\ C - B \in Nat
  OBVIOUS
<1>2. Shifted(p, -B) \in Words(C - B)
  BY DEF Shifted, Words, Bits
<1>3. \A i \in Int : i \in Shifted(p, -B) <=> i + B \in p
  <2> TAKE i \in Int
  <2>1. i + B \in p => i \in Shifted(p, -B)
    <3>1. i = (i + B) + (-B)
      OBVIOUS
    <3> QED BY <3>1 DEF Shifted
  <2>2. i \in Shifted(p, -B) => i + B \in p
    <3>1. \A j \in p : i = j + (-B) => i + B = j
      OBVIOUS
    <3> QED BY <3>1 DEF Shifted
  <2> QED BY <2>1, <2>2
<1>4. Amount(p, B) \in Nat /\ Amount(p, B) < Power(C - B)
  BY <1>1, <1>2, ValRange DEF Amount, Power
<1>5. p = {} <=> Amount(p, B) = 0
  <2>1. p = {} <=> Shifted(p, -B) = {}
    BY DEF Shifted
  <2>2. Shifted(p, -B) = {} <=> Val(Shifted(p, -B)) = 0
    <3>1. {} \in Words(C - B)
      BY ZeroIsWord
    <3> QED BY <1>1, <1>2, <3>1, ZeroIsZero, ValInjective, Zenon
  <2> QED BY <2>1, <2>2 DEF Amount
<1> QED BY <1>1, <1>2, <1>3, <1>4, <1>5

\* In smaller units there are more of them.
LEMMA ChangeOfBase ==
  ASSUME NEW B \in Int, NEW C \in Int, B <= C, NEW p \in SUBSET (B..(C - 1)), NEW D \in Int, D <= B
  PROVE  Amount(p, D) = Amount(p, B) * Power(B - D)
<1>1. C - B \in Nat /\ Shifted(p, -B) \in Words(C - B) /\ p \in SUBSET Int
  BY AmountIs
<1>2. B - D \in Nat /\ -B \in Int /\ B - D \in Int /\ -B + (B - D) = -D
  OBVIOUS
<1>3. Shifted(Shifted(p, -B), B - D) = Shifted(p, -D)
  BY <1>1, <1>2, ShiftedTwice
<1>4. Val(Shifted(Shifted(p, -B), B - D)) = Val(Shifted(p, -B)) * Power(B - D)
  BY <1>1, <1>2, ShiftedWord
<1> QED BY <1>3, <1>4 DEF Amount

\* Shifting the set and the base alike.
LEMMA ShiftedBase ==
  ASSUME NEW p \in SUBSET Int, NEW B \in Int, NEW k \in Int
  PROVE  Amount(Shifted(p, k), B + k) = Amount(p, B)
<1>1. -(B + k) \in Int /\ k + (-(B + k)) = -B
  OBVIOUS
<1> QED BY <1>1, ShiftedTwice DEF Amount

\* A bounded set has a greatest and a least element.
LEMMA Extrema ==
  ASSUME NEW B \in Int, NEW C \in Int, NEW p \in SUBSET (B..(C - 1)), p # {}
  PROVE  /\ Max(p) \in p /\ \A i \in p : i <= Max(p)
         /\ Min(p) \in p /\ \A i \in p : Min(p) <= i
         /\ Max(p) \in Int /\ Min(p) \in Int /\ Min(p) <= Max(p)
<1> DEFINE n == C - B
           great == \E m \in p : \A i \in p : i <= m
           least == \E m \in p : \A i \in p : m <= i
           falling == {k \in 0..n : (\A i \in p : i < B + k) \/ great}
           rising == {k \in 0..n : (\A i \in p : i >= B + k) \/ least}
<1>1. n \in Nat /\ \A i \in p : i \in Int /\ i >= B /\ i < C
  <2>1. \A i \in p : i \in Int /\ i >= B /\ i < C
    OBVIOUS
  <2>2. PICK i \in p : TRUE
    OBVIOUS
  <2> QED BY <2>1, <2>2
<1>2. great
  <2>1. n \in falling
    BY <1>1
  <2>2. \A k \in Bits(n) : k + 1 \in falling => k \in falling
    <3> SUFFICES ASSUME NEW k \in Bits(n), k + 1 \in falling PROVE k \in falling
      OBVIOUS
    <3>1. k \in 0..n /\ k \in Int
      BY <1>1 DEF Bits
    <3>2. CASE great
      BY <3>1, <3>2
    <3>3. CASE \A i \in p : i < B + (k + 1)
      <4>1. CASE B + k \in p
        <5>1. \A i \in p : i <= B + k
          BY <1>1, <3>1, <3>3
        <5> QED BY <3>1, <4>1, <5>1
      <4>2. CASE B + k \notin p
        <5>1. \A i \in p : i < B + k
          BY <1>1, <3>1, <3>3, <4>2
        <5> QED BY <3>1, <5>1
      <4> QED BY <4>1, <4>2
    <3> QED BY <3>2, <3>3
  <2> HIDE DEF falling, n
  <2>3. \A k \in 0..n : k \in falling
    BY <1>1, <2>1, <2>2, DownToZero
  <2>4. 0 \in 0..n
    BY <1>1
  <2>5. (\A i \in p : i < B + 0) \/ great
    BY <2>3, <2>4 DEF falling
  <2>6. PICK i \in p : TRUE
    OBVIOUS
  <2>7. ~(i < B + 0)
    BY <1>1, <2>6
  <2> QED BY <2>5, <2>6, <2>7, Zenon
<1>3. least
  <2>1. 0 \in rising
    BY <1>1
  <2>2. \A k \in Bits(n) : k \in rising => k + 1 \in rising
    <3> SUFFICES ASSUME NEW k \in Bits(n), k \in rising PROVE k + 1 \in rising
      OBVIOUS
    <3>1. k + 1 \in 0..n /\ k \in Int
      BY <1>1 DEF Bits
    <3>2. CASE least
      BY <3>1, <3>2
    <3>3. CASE \A i \in p : i >= B + k
      <4>1. CASE B + k \in p
        <5>1. \A i \in p : i >= B + k
          BY <1>1, <3>1, <3>3
        <5> QED BY <3>1, <4>1, <5>1
      <4>2. CASE B + k \notin p
        <5>1. \A i \in p : i >= B + (k + 1)
          BY <1>1, <3>1, <3>3, <4>2
        <5> QED BY <3>1, <5>1
      <4> QED BY <4>1, <4>2
    <3> QED BY <3>2, <3>3
  <2> HIDE DEF rising, n
  <2>3. \A k \in 0..n : k \in rising
    BY <1>1, <2>1, <2>2, UpToTheWidth
  <2>4. n \in 0..n
    BY <1>1
  <2>5. (\A i \in p : i >= B + n) \/ least
    BY <2>3, <2>4 DEF rising
  <2>6. PICK i \in p : TRUE
    OBVIOUS
  <2>7. ~(i >= B + n)
    BY <1>1, <2>6 DEF n
  <2> QED BY <2>5, <2>6, <2>7, Zenon
<1>4. Max(p) \in p /\ \A i \in p : i <= Max(p)
  <2>1. \E m \in p : \A i \in p : m >= i
    BY <1>1, <1>2
  <2>2. Max(p) \in p /\ \A i \in p : Max(p) >= i
    BY <2>1, Zenon DEF Max
  <2> QED BY <1>1, <2>2
<1>5. Min(p) \in p /\ \A i \in p : Min(p) <= i
  BY <1>3, Zenon DEF Min
<1> QED BY <1>1, <1>4, <1>5

\* The greater of two numbers.
LEMMA MaxOfTwo ==
  ASSUME NEW i \in Int, NEW j \in Int
  PROVE  Max({i, j}) = IF i >= j THEN i ELSE j
<1>1. \E m \in {i, j} : \A k \in {i, j} : m >= k
  OBVIOUS
<1>2. Max({i, j}) \in {i, j} /\ \A k \in {i, j} : Max({i, j}) >= k
  BY <1>1, Zenon DEF Max
<1> QED BY <1>2

\* The exponents a format can have are far from the bound of Num.
LEMMA LowestPowerIs ==
  ASSUME NEW f, Format(f)
  PROVE  /\ LowestPower(f) \in Int /\ LowestPower(f) <= -1
         /\ 2^f.exp = 2 * 2^(f.exp - 1) /\ 2^(f.exp - 1) \in Nat /\ 2^(f.exp - 1) >= 2 /\ 2^f.exp <= 65536
         /\ -LowestPower(f) = 2^(f.exp - 1) - 2 + f.man /\ UnitsInOne(f) = Power(-LowestPower(f))
<1>1. f.exp \in 2..16 /\ f.man \in Nat \ {0}
  BY DEF Format
<1> DEFINE P == 2^(f.exp - 1)
<1>2. f.exp \in 0..32 /\ f.exp - 1 \in 0..32 /\ f.exp \in Nat /\ f.exp - 1 \in Nat /\ (f.exp - 1) + 1 = f.exp
      /\ 16 \in Nat /\ 16 \in 0..32 /\ f.exp <= 16 /\ 1 \in Nat /\ 1 \in 0..32 /\ 1 <= f.exp - 1
  BY <1>1
<1>3. 2^f.exp = 2 * P /\ P \in Nat /\ P >= 2 /\ 2^f.exp <= 65536
  <2>1. 2^f.exp = Power(f.exp) /\ P = Power(f.exp - 1) /\ Power(16) = 2^16 /\ Power(1) = 2^1
    BY <1>2, PowersDouble
  <2>2. Power(f.exp) = 2 * Power(f.exp - 1) /\ Power(f.exp - 1) \in Nat
    BY <1>2, PowersDouble
  <2>3. Power(f.exp) <= Power(16)
    BY <1>2, PowersGrow
  <2>4. Power(1) <= Power(f.exp - 1)
    BY <1>2, PowersGrow
  <2>5. 2^16 = 65536 /\ 2^1 = 2
    BY SMT
  <2> HIDE DEF P
  <2> QED BY <2>1, <2>2, <2>3, <2>4, <2>5
<1>4. LowestPower(f) = 2 - P - f.man
  BY DEF LowestPower
<1>5. UnitsInOne(f) = Power(P - 2 + f.man)
  BY DEF UnitsInOne
<1> HIDE DEF P
<1>6. -(2 - P - f.man) = P - 2 + f.man
  BY <1>1, <1>3
<1>7. LowestPower(f) \in Int /\ LowestPower(f) <= -1 /\ -LowestPower(f) = P - 2 + f.man
  BY <1>1, <1>3, <1>4, <1>6
<1> QED BY <1>3, <1>5, <1>7 DEF P

\* A finite pattern is the sum of the powers Exact finds, which are close to
\* each other.
LEMMA ExactIs ==
  ASSUME NEW f, Format(f), NEW x
  PROVE  LET L == LowestPower(f)
             p == Exact(f, x).pow
         IN /\ p \in SUBSET (L..(L + f.man + 2^f.exp - 1)) /\ L + f.man + 2^f.exp \in Int
            /\ Amount(p, L) = Grid(f, Place(f, x))
            /\ Exact(f, x).neg = IsNegative(f, x)
            /\ p = {} <=> Place(f, x) = 0
            /\ \A i \in p, j \in p : i - j <= f.man
<1> DEFINE L == LowestPower(f)
           k == f.man
           e == Field(x, k, SignAt(f) - 1)
           sig == Trunc(k, x) \cup IF e = 0 THEN {} ELSE {k}
           E == IF e = 0 THEN 0 ELSE e - 1
           p == Exact(f, x).pow
<1>1. /\ L \in Int /\ k \in Nat \ {0} /\ Power(k) \in Nat /\ Power(f.exp) = 2^f.exp /\ 2^f.exp \in Nat
      /\ 2^f.exp >= 4
  BY LowestPowerIs, FormatWidths
<1>2. /\ e = Place(f, x) \div Power(k) /\ e \in 0..(2^f.exp - 1)
      /\ Val(Trunc(k, x)) = Place(f, x) % Power(k)
  BY <1>1, FieldsOfPlace, Zenon
<1>3. E \in Nat /\ E <= 2^f.exp - 2
  <2> HIDE DEF e
  <2> QED BY <1>1, <1>2
<1>4. Exact(f, x).neg = IsNegative(f, x) /\ p = {i + L + E : i \in sig}
  BY DEF Exact
<1>5. Trunc(k, x) \in Words(k) /\ Trunc(k, x) \in Words(k + 1) /\ {k} \in Words(k + 1) /\ {} \in Words(k + 1)
  BY <1>1 DEF Trunc, Words, Bits
<1>6. sig \in Words(k + 1) /\ Val(sig) = Val(Trunc(k, x)) + IF e = 0 THEN 0 ELSE Power(k)
  <2> HIDE DEF e
  <2>1. CASE e = 0
    <3>1. sig = Trunc(k, x) /\ Val(Trunc(k, x)) \in Nat
      BY <1>1, <1>5, <2>1, ValRange
    <3> QED BY <1>5, <2>1, <3>1
  <2>2. CASE e # 0
    <3>1. Trunc(k, x) \cap {k} = {} /\ k + 1 \in Nat
      BY <1>1 DEF Trunc, Bits
    <3>2. sig = Trunc(k, x) \cup {k}
      BY <2>2
    <3> QED BY <1>5, <2>2, <3>1, <3>2, DisjointSum DEF Power
  <2> QED BY <2>1, <2>2
<1>7. Grid(f, Place(f, x)) = Val(sig) * Power(E)
  <2>1. Grid(f, Place(f, x)) = IF e = 0 THEN Val(Trunc(k, x)) ELSE (Val(Trunc(k, x)) + Power(k)) * Power(e - 1)
    BY <1>2, Zenon DEF Grid
  <2>2. Val(Trunc(k, x)) \in Nat
    BY <1>1, <1>5, ValRange
  <2> HIDE DEF e, sig
  <2>3. CASE e = 0
    <3>1. Val(sig) = Val(Trunc(k, x)) /\ E = 0
      BY <1>6, <2>2, <2>3
    <3> QED BY <2>1, <2>2, <2>3, <3>1, PowersDouble
  <2>4. CASE e # 0
    BY <1>6, <2>1, <2>4
  <2> QED BY <2>3, <2>4
<1> HIDE DEF e, sig, E, L
<1>8. \A i \in sig : i \in Int /\ i >= 0 /\ i <= k
  BY <1>1, <1>6 DEF Words, Bits
<1>9. p = Shifted(sig, L + E) /\ p \in SUBSET Int
  <2>1. \A i \in sig : i + L + E = i + (L + E) /\ i + L + E \in Int
    BY <1>1, <1>3, <1>8
  <2> QED BY <1>4, <2>1 DEF Shifted
<1>10. p \in SUBSET (L..(L + k + 2^f.exp - 1)) /\ L + k + 2^f.exp \in Int
  <2>1. \A i \in sig : i + L + E \in L..(L + k + 2^f.exp - 1)
    BY <1>1, <1>3, <1>8
  <2> QED BY <1>1, <1>4, <2>1
<1>11. Amount(p, L) = Val(sig) * Power(E)
  <2>1. -L \in Int /\ L + E \in Int /\ (L + E) + (-L) = E /\ sig \in SUBSET Int
    BY <1>1, <1>3, <1>8
  <2>2. Shifted(p, -L) = Shifted(sig, E)
    BY <1>9, <2>1, ShiftedTwice
  <2>3. k + 1 \in Nat
    BY <1>1
  <2> QED BY <1>3, <1>6, <2>2, <2>3, ShiftedWord DEF Amount
<1>12. \A i \in p, j \in p : i - j <= k
  <2>1. \A i \in sig, j \in sig : (i + L + E) - (j + L + E) <= k
    BY <1>1, <1>3, <1>8
  <2> QED BY <1>4, <2>1
<1>13. p = {} <=> Place(f, x) = 0
  <2>1. p = {} <=> Amount(p, L) = 0
    <3>1. L <= L + k + 2^f.exp
      BY <1>1
    <3> QED BY <1>1, <1>10, <3>1, AmountIs
  <2>2. Place(f, x) \in Nat
    BY FieldsOfPlace
  <2> QED BY <1>7, <1>11, <2>1, <2>2, GridGrows
<1> QED BY <1>4, <1>7, <1>10, <1>11, <1>12, <1>13 DEF L

-----------------------------------------------------------------------------
(* Rounding *)

\* The lowest bit is the parity.
LEMMA Parity ==
  ASSUME NEW n \in Nat, NEW x \in Words(n)
  PROVE  Val(x) % 2 = IF 0 \in x THEN 1 ELSE 0
<1>1. CASE n = 0
  <2>1. x = {}
    BY <1>1 DEF Words, Bits
  <2> QED BY <2>1, ZeroIsZero
<1>2. CASE n > 0
  <2>1. 0 \in Bits(n) /\ 0 \in Nat /\ 1 \in Nat /\ 0 + 1 = 1
    BY <1>2 DEF Bits
  <2>2. From(x)[0] = 2 * From(x)[0 + 1] + Digit(x, 0) /\ From(x)[1] \in Nat
    BY <2>1, FromStep
  <2>3. Digit(x, 0) \in {0, 1}
    BY DEF Digit
  <2>4. Val(x) = 2 * From(x)[1] + Digit(x, 0)
    BY <2>1, <2>2, Zenon DEF Val
  <2>5. Val(x) % 2 = Digit(x, 0)
    BY <2>2, <2>3, <2>4
  <2> QED BY <2>5 DEF Digit
<1> QED BY <1>1, <1>2

\* A word that stands for less than 2^k has no bit from k upwards.
LEMMA SmallWord ==
  ASSUME NEW n \in Nat, NEW x \in Words(n), NEW k \in Nat, Val(x) < Power(k)
  PROVE  x \in Words(k)
<1>1. CASE n <= k
  BY <1>1 DEF Words, Bits
<1>2. CASE n > k
  <2>1. k \in 0..n
    BY <1>2
  <2>2. Val(x) = Val(Trunc(k, x)) + Power(k) * From(x)[k]
    BY <2>1, Splits DEF Power
  <2>3. ShiftR(n, x, k) \in Words(n) /\ Val(ShiftR(n, x, k)) = From(x)[k]
    BY ValShiftR
  <2>4. From(x)[k] \in Nat /\ Power(k) \in Nat \ {0} /\ Val(Trunc(k, x)) \in Nat
    BY FromStep, PowersDouble, TruncIsWord, ValRange
  <2>5. From(x)[k] = 0
    <3>1. From(x)[k] > 0 => Power(k) * From(x)[k] >= Power(k)
      BY <2>4
    <3> QED BY <2>2, <2>4, <3>1
  <2>6. ShiftR(n, x, k) = {}
    <3>1. {} \in Words(n)
      BY ZeroIsWord
    <3> QED BY <2>3, <2>5, <3>1, ZeroIsZero, ValInjective, Zenon
  <2>7. \A i \in x : i < k
    <3> SUFFICES ASSUME NEW i \in x, ~(i < k) PROVE FALSE
      OBVIOUS
    <3>1. i - k \in Bits(n) /\ (i - k) + k = i
      BY <1>2 DEF Words, Bits
    <3> QED BY <2>6, <3>1 DEF ShiftR
  <2> QED BY <2>7 DEF Words, Bits
<1> QED BY <1>1, <1>2

\* What is left of a word below bit s, against one half of that bit.
LEMMA RestIs ==
  ASSUME NEW n \in Nat, NEW w \in Words(n), NEW s \in 1..n,
         NEW K, K = Val(ShiftR(n, w, s)), NEW T, T = Power(s - 1), NEW X, X = Val(w)
  PROVE  LET up == s - 1 \in w /\ (s \in w \/ \E i \in w : i < s - 1)
         IN /\ K \in Nat /\ T \in Nat \ {0} /\ X \in Nat /\ ShiftR(n, w, s) \in Words(n)
            /\ (2 * K) * T <= X /\ X < (2 * K + 2) * T
            /\ up => X >= (2 * K + 1) * T /\ (X = (2 * K + 1) * T => K % 2 = 1)
            /\ ~up => X <= (2 * K + 1) * T /\ (X = (2 * K + 1) * T => K % 2 = 0)
<1> DEFINE l == Val(Trunc(s - 1, w))
           d == Digit(w, s - 1)
           odd == s \in w
           below == \E i \in w : i < s - 1
<1>1. s \in 0..n /\ s - 1 \in Bits(n) /\ s - 1 \in Nat /\ (s - 1) + 1 = s /\ s \in Nat
  BY DEF Bits
<1>2. ShiftR(n, w, s) \in Words(n) /\ K = From(w)[s] /\ K \in Nat
  BY <1>1, ValShiftR, FromStep
<1>3. X = Val(Trunc(s, w)) + Power(s) * K
  BY <1>1, <1>2, Splits DEF Power
<1>4. Val(Trunc(s, w)) = l + d * T /\ d \in {0, 1} /\ l \in Nat
  <2>1. Val(Trunc((s - 1) + 1, w)) = Val(Trunc(s - 1, w)) + Digit(w, s - 1) * Val({s - 1})
        /\ Val(Trunc(s - 1, w)) \in Nat /\ Digit(w, s - 1) \in {0, 1}
    BY <1>1, TruncStep
  <2> QED BY <1>1, <2>1, Zenon DEF Power
<1>5. T \in Nat \ {0} /\ Power(s) = 2 * T
  BY <1>1, PowersDouble
<1>6. l < T
  BY <1>1, TruncIsWord, ValRange DEF Power
<1>7. l = 0 <=> ~below
  <2>1. Trunc(s - 1, w) \in Words(s - 1) /\ {} \in Words(s - 1)
    BY TruncIsWord, ZeroIsWord
  <2>2. l = 0 <=> Trunc(s - 1, w) = {}
    BY <1>1, <2>1, ZeroIsZero, ValInjective, Zenon
  <2>3. \A i \in w : i < s - 1 <=> i \in Bits(s - 1)
    BY <1>1 DEF Words, Bits
  <2> QED BY <2>2, <2>3 DEF Trunc
<1>8. K % 2 = IF odd THEN 1 ELSE 0
  <2>1. 0 \in ShiftR(n, w, s) <=> odd
    <3>1. CASE n = s
      BY <1>1, <3>1 DEF ShiftR, Words, Bits
    <3>2. CASE n # s
      BY <1>1, <3>2 DEF ShiftR, Words, Bits
    <3> QED BY <3>1, <3>2
  <2> QED BY <1>2, <2>1, Parity, Zenon
<1>9. d = IF s - 1 \in w THEN 1 ELSE 0
  BY DEF Digit
<1> HIDE DEF l, d, odd, below
<1>10. (2 * K) * T = 2 * (K * T) /\ (2 * K + 1) * T = 2 * (K * T) + T /\ (2 * K + 2) * T = 2 * (K * T) + 2 * T
       /\ (2 * T) * K = 2 * (K * T) /\ K * T \in Nat
  BY <1>2, <1>5
<1> DEFINE P == K * T
<1>11. X = l + d * T + 2 * P /\ P \in Nat
  BY <1>3, <1>4, <1>5, <1>10
<1>12. (2 * K) * T = 2 * P /\ (2 * K + 1) * T = 2 * P + T /\ (2 * K + 2) * T = 2 * P + 2 * T
  BY <1>10
<1> HIDE DEF P
<1>13. (2 * K) * T <= X /\ X < (2 * K + 2) * T /\ X \in Nat
  <2>1. CASE d = 0
    BY <1>4, <1>5, <1>6, <1>11, <1>12, <2>1
  <2>2. CASE d = 1
    BY <1>4, <1>5, <1>6, <1>11, <1>12, <2>2
  <2> QED BY <1>4, <2>1, <2>2
<1>14. s - 1 \in w /\ (odd \/ below) => X >= (2 * K + 1) * T /\ (X = (2 * K + 1) * T => K % 2 = 1)
  BY <1>4, <1>5, <1>7, <1>8, <1>9, <1>11, <1>12
<1>15. ~(s - 1 \in w /\ (odd \/ below)) => X <= (2 * K + 1) * T /\ (X = (2 * K + 1) * T => K % 2 = 0)
  <2>1. CASE s - 1 \in w
    BY <1>4, <1>5, <1>7, <1>8, <1>9, <1>11, <1>12, <2>1
  <2>2. CASE s - 1 \notin w
    BY <1>4, <1>5, <1>6, <1>9, <1>11, <1>12, <2>2
  <2> QED BY <2>1, <2>2
<1> QED BY <1>2, <1>5, <1>13, <1>14, <1>15 DEF odd, below

\* X, counted in units of which the last place that is kept is 2 * T, is cut to
\* the K-th value from the beginning of binade E, and v is that place or the
\* next one, whichever is nearer, or the even one. Beyond the last binade v is
\* the place of infinity.
RoundsTo(f, X, T, K, E, v) ==
  /\ K \in Nat /\ E \in Nat /\ v \in Nat
  /\ K < 2 * Power(f.man) /\ (E > 0 => K >= Power(f.man))
  /\ (2 * K) * T <= X /\ X < (2 * K + 2) * T
  /\ \/ E >= 2^f.exp - 2 /\ v = Top(f)
     \/ /\ E < 2^f.exp - 2 /\ v = K + E * Power(f.man)
        /\ X <= (2 * K + 1) * T /\ (X = (2 * K + 1) * T => K % 2 = 0)
     \/ /\ E < 2^f.exp - 2 /\ v = K + 1 + E * Power(f.man)
        /\ X >= (2 * K + 1) * T /\ (X = (2 * K + 1) * T => K % 2 = 1)

\* A magnitude with a sign is the pattern of both.
LEMMA WithSignIs ==
  ASSUME NEW f, Format(f), NEW negative \in BOOLEAN, NEW g \in Words(SignAt(f))
  PROVE  /\ WithSign(f, negative, g) \in Words(Width(f))
         /\ IsNegative(f, WithSign(f, negative, g)) = negative
         /\ Magnitude(f, WithSign(f, negative, g)) = g
         /\ Place(f, WithSign(f, negative, g)) = Val(g)
<1>1. SignAt(f) \in Nat /\ Width(f) = SignAt(f) + 1
  BY FormatWidths DEF Width
<1>2. g \subseteq Bits(SignAt(f)) /\ SignAt(f) \notin Bits(SignAt(f)) /\ Bits(SignAt(f)) \subseteq Bits(Width(f))
      /\ SignAt(f) \in Bits(Width(f))
  BY <1>1 DEF Words, Bits
<1>3. WithSign(f, negative, g) \in Words(Width(f))
  BY <1>2 DEF Words, WithSign
<1>4. Magnitude(f, WithSign(f, negative, g)) = g
  BY <1>2 DEF Magnitude, Trunc, WithSign
<1>5. IsNegative(f, WithSign(f, negative, g)) = negative
  <2>1. SignAt(f) \in WithSign(f, negative, g) <=> negative
    BY <1>2 DEF WithSign
  <2> QED BY <2>1 DEF IsNegative
<1> QED BY <1>3, <1>4, <1>5 DEF Place

\* An exponent and a fraction with its leading bit, added to a pattern.
LEMMA Assembled ==
  ASSUME NEW f, Format(f), NEW x \in Words(f.man + 1), NEW E \in Nat, E < 2^f.exp - 2, NEW up \in BOOLEAN
  PROVE  LET g == Sum3(SignAt(f), x, ShiftL(SignAt(f), Num(E), f.man), up)
         IN /\ g \in Words(SignAt(f)) /\ Val(g) \in Nat /\ Val(g) <= Top(f)
            /\ Val(g) = Val(x) + E * Power(f.man) + IF up THEN 1 ELSE 0
<1> DEFINE n == SignAt(f)
           k == f.man
           M == Power(k)
           y == ShiftL(n, Num(E), k)
           g == Sum3(n, x, y, up)
           N == 2^f.exp
<1>1. /\ n \in Nat /\ k \in 0..n /\ n - k = f.exp /\ f.exp \in Nat /\ k + 1 \in Nat /\ k + 1 <= n
      /\ M \in Nat \ {0} /\ N = Power(f.exp) /\ N \in Nat /\ Power(n) = M * N
  <2>1. f.exp >= 2
    BY DEF Format
  <2> QED BY <2>1, FormatWidths
<1>2. Num(E) \in Words(f.exp) /\ Val(Num(E)) = E
  <2>1. E < 2^31
    <3>1. 2^31 > 65536
      BY SMT
    <3>2. N <= 65536
      BY LowestPowerIs
    <3> QED BY <1>1, <3>1, <3>2
  <2>2. Num(E) \in Words(31) /\ Val(Num(E)) = E
    BY <2>1, ValNum
  <2>3. E < Power(f.exp) /\ 31 \in Nat
    BY <1>1
  <2> QED BY <1>1, <2>2, <2>3, SmallWord
<1>3. y \in Words(n) /\ Val(y) = E * M
  <2>1. Num(E) \in Words(n)
    <3>1. Bits(f.exp) \subseteq Bits(n)
      BY <1>1 DEF Bits
    <3> QED BY <1>2, <3>1 DEF Words
  <2>2. y \in Words(n) /\ Val(Num(E)) * Power(k) = Val(y) + Power(n) * From(Num(E))[n - k]
    BY <1>1, <2>1, ValShiftL DEF Power
  <2>3. From(Num(E))[f.exp] = 0
    BY <1>1, <1>2, FromStep
  <2>4. Val(y) \in Nat /\ Power(n) \in Nat
    <3>1. Val(y) \in Nat
      BY <1>1, <2>2, ValRange, Zenon
    <3> QED BY <1>1, <3>1, PowersDouble, Zenon
  <2>5. Power(n) * From(Num(E))[n - k] = 0
    BY <1>1, <2>3, <2>4
  <2> QED BY <1>2, <2>2, <2>4, <2>5
<1>4. x \in Words(n) /\ Val(x) \in Nat /\ Val(x) < 2 * M
  <2>1. Bits(k + 1) \subseteq Bits(n)
    BY <1>1 DEF Bits
  <2>2. x \in Words(n)
    BY <2>1 DEF Words
  <2>3. Val(x) \in Nat /\ Val(x) < Power(k + 1)
    BY <1>1, ValRange DEF Power
  <2>4. Power(k + 1) = 2 * Power(k)
    BY <1>1, PowersDouble
  <2> QED BY <2>2, <2>3, <2>4
<1> DEFINE c == IF up THEN 1 ELSE 0
           X == Val(x)
<1>5. c \in {0, 1}
  OBVIOUS
<1>6. Top(f) = (N - 1) * M /\ Top(f) \in Nat
  BY <1>1, ClassesOfPlace
<1>7. X + E * M + c <= Top(f) /\ Top(f) < Power(n) /\ X + E * M + c \in Nat
  <2> HIDE DEF X, c, M, N
  <2>1. E + 3 <= N /\ (E + 2) * M <= (N - 1) * M
    <3>1. E + 2 <= N - 1
      BY <1>1 DEF N
    <3> QED BY <1>1, <3>1, TimesKeepsOrder
  <2>2. (E + 2) * M = E * M + 2 * M /\ (N - 1) * M = M * N - M /\ E * M \in Nat
    BY <1>1
  <2>3. X \in Nat /\ X < 2 * M
    BY <1>4 DEF X
  <2> QED BY <1>1, <1>5, <1>6, <2>1, <2>2, <2>3
<1>8. g \in Words(n) /\ Val(g) \in Nat /\ Val(g) = X + E * M + c
  <2>1. g \in Words(n)
    BY DEF Sum3, Words
  <2>2. Val(x) + Val(y) + c = Val(g) + (IF Carry(n, x, y, up, n) THEN Power(n) ELSE 0)
    BY <1>1, <1>3, <1>4, SumCarries, Zenon DEF Power
  <2>3. Val(g) \in Nat
    BY <1>1, <2>1, ValRange
  <2> HIDE DEF g, y, c, M, N
  <2> QED BY <1>1, <1>3, <1>6, <1>7, <2>1, <2>2, <2>3
<1> HIDE DEF g
<1> QED BY <1>6, <1>7, <1>8 DEF g

\* Rounding yields a pattern with the number's sign, at a place RoundsTo allows.
LEMMA RoundedPattern ==
  ASSUME NEW f, Format(f), NEW x, NEW negative \in BOOLEAN, x.neg = negative,
         NEW B \in Int, NEW C \in Int, B < LowestPower(f), LowestPower(f) <= C,
         NEW p \in SUBSET (B..(C - 1)), x.pow = p, p # {}
  PROVE  LET r == Rounded(f, x)
         IN /\ r \in Words(Width(f)) /\ IsNegative(f, r) = negative /\ Place(f, r) <= Top(f)
            /\ \E K \in Nat, E \in Nat :
                 /\ E + LowestPower(f) - B - 1 \in Nat
                 /\ RoundsTo(f, Amount(p, B), Power(E + LowestPower(f) - B - 1), K, E, Place(f, r))
<1> DEFINE L == LowestPower(f)
           k == f.man
           n == C - B
           w == Shifted(p, -B)
           last == Max({Max(p) - k, L})
           s == last - B
           kept == Shifted({i \in p : i >= last}, -last)
           up == last - 1 \in p /\ (last \in p \/ \E i \in p : i < last - 1)
           E == last - L
           g == IF E >= 2^f.exp - 2 THEN Infinity(f)
                ELSE Sum3(SignAt(f), kept, ShiftL(SignAt(f), Num(E), k), up)
           r == Rounded(f, x)
           K == Val(kept)
           T == Power(s - 1)
           X == Amount(p, B)
           M == Power(k)
<1>1. L \in Int /\ k \in Nat \ {0} /\ M \in Nat \ {0} /\ p \in SUBSET Int /\ 2^f.exp \in Nat
  BY LowestPowerIs, FormatWidths
<1>2. /\ Max(p) \in p /\ \A i \in p : i <= Max(p)
      /\ Max(p) \in Int /\ Max(p) <= C - 1
  <2>1. Max(p) \in p /\ (\A i \in p : i <= Max(p)) /\ Max(p) \in Int
    BY Extrema
  <2> QED BY <2>1
<1>3. last \in Int /\ last >= L /\ last >= Max(p) - k /\ (last = L \/ last = Max(p) - k) /\ last <= C
  <2>1. last = IF Max(p) - k >= L THEN Max(p) - k ELSE L
    BY <1>1, <1>2, MaxOfTwo
  <2> HIDE DEF last
  <2> QED BY <1>1, <1>2, <2>1
<1>4. r = WithSign(f, negative, g)
  <2>1. Rounded(f, x) = WithSign(f, negative, g)
    BY Zenon DEF Rounded
  <2> QED BY <2>1
<1> HIDE DEF last, r, g
<1>5. /\ n \in Nat /\ s \in 1..n /\ s \in Nat /\ s - 1 \in Nat /\ E \in Nat /\ s - 1 = E + L - B - 1
      /\ last = s + B
  BY <1>1, <1>3
<1>6. /\ w \in Words(n) /\ X = Val(w) /\ X \in Nat
      /\ \A i \in Int : i \in w <=> i + B \in p
  <2>1. B <= C
    BY <1>1
  <2> QED BY <2>1, AmountIs, Zenon DEF Amount
<1>7. \A j \in Int : j \in kept <=> (j >= 0 /\ j + last \in p)
  <2> TAKE j \in Int
  <2>1. j \in kept => j >= 0 /\ j + last \in p
    <3>1. \A i \in p : i >= last => i + (-last) >= 0 /\ (i + (-last)) + last = i
      BY <1>1, <1>3
    <3> QED BY <3>1 DEF Shifted
  <2>2. j >= 0 /\ j + last \in p => j \in kept
    <3>1. j >= 0 => j + last >= last /\ j = (j + last) + (-last)
      BY <1>3
    <3> QED BY <3>1 DEF Shifted
  <2> QED BY <2>1, <2>2
<1>8. kept \in Words(k + 1) /\ kept \subseteq Int
  <2>1. \A i \in p : i >= last => i + (-last) \in Bits(k + 1) /\ i + (-last) \in Int
    BY <1>1, <1>2, <1>3 DEF Bits
  <2> QED BY <2>1 DEF Shifted, Words
<1>9. kept = ShiftR(n, w, s)
  <2>1. \A j \in Int : j \in ShiftR(n, w, s) <=> (j >= 0 /\ j < n /\ j + s \in w)
    BY <1>5 DEF ShiftR, Bits
  <2>2. \A j \in Int : j + s \in w <=> j + last \in p
    <3> TAKE j \in Int
    <3>1. j + s \in Int /\ (j + s) + B = j + last
      BY <1>5
    <3> QED BY <1>6, <3>1
  <2>3. \A j \in Int : j >= 0 /\ j + last \in p => j < n
    BY <1>2, <1>5
  <2>4. ShiftR(n, w, s) \subseteq Int
    BY <1>5 DEF ShiftR, Bits
  <2> HIDE DEF kept
  <2> QED BY <1>7, <1>8, <2>1, <2>2, <2>3, <2>4
<1>10. up <=> s - 1 \in w /\ (s \in w \/ \E i \in w : i < s - 1)
  <2>1. s - 1 \in w <=> last - 1 \in p
    <3>1. s - 1 \in Int /\ (s - 1) + B = last - 1
      BY <1>5
    <3> QED BY <1>6, <3>1
  <2>2. s \in w <=> last \in p
    <3>1. s \in Int /\ s + B = last
      BY <1>5
    <3> QED BY <1>6, <3>1
  <2>3. (\E i \in w : i < s - 1) <=> \E i \in p : i < last - 1
    <3>1. ASSUME NEW i \in w, i < s - 1 PROVE i + B \in p /\ i + B < last - 1
      <4>1. i \in Int
        BY <1>6 DEF Words, Bits
      <4> QED BY <1>5, <1>6, <3>1, <4>1
    <3>2. ASSUME NEW i \in p, i < last - 1 PROVE i - B \in w /\ i - B < s - 1
      <4>1. i \in Int /\ i - B \in Int /\ (i - B) + B = i
        BY <1>1
      <4> QED BY <1>3, <1>6, <3>2, <4>1
    <3> QED BY <3>1, <3>2
  <2> QED BY <2>1, <2>2, <2>3
<1> HIDE DEF kept, w
<1>11. /\ K \in Nat /\ T \in Nat \ {0}
       /\ (2 * K) * T <= X /\ X < (2 * K + 2) * T
       /\ up => X >= (2 * K + 1) * T /\ (X = (2 * K + 1) * T => K % 2 = 1)
       /\ ~up => X <= (2 * K + 1) * T /\ (X = (2 * K + 1) * T => K % 2 = 0)
  <2> HIDE DEF up, X, T, K
  <2>1. K = Val(ShiftR(n, w, s)) /\ T = Power(s - 1) /\ X = Val(w)
    BY <1>6, <1>9 DEF K, T
  <2>2. /\ K \in Nat /\ T \in Nat \ {0}
        /\ (2 * K) * T <= X /\ X < (2 * K + 2) * T
        /\ s - 1 \in w /\ (s \in w \/ \E i \in w : i < s - 1)
             => X >= (2 * K + 1) * T /\ (X = (2 * K + 1) * T => K % 2 = 1)
        /\ ~(s - 1 \in w /\ (s \in w \/ \E i \in w : i < s - 1))
             => X <= (2 * K + 1) * T /\ (X = (2 * K + 1) * T => K % 2 = 0)
    <3> HIDE DEF s, n
    <3> QED BY <1>5, <1>6, <2>1, RestIs
  <2> QED BY <1>10, <2>2
<1>12. K < 2 * M /\ (E > 0 => K >= M)
  <2>1. k + 1 \in Nat /\ k \in Nat /\ Power(k + 1) = 2 * M
    BY <1>1, PowersDouble
  <2>2. K < Power(k + 1)
    BY <1>8, <2>1, ValRange DEF Power
  <2>3. ASSUME E > 0 PROVE K >= M
    <3>1. last = Max(p) - k
      BY <1>1, <1>3, <2>3
    <3>2. k + last = Max(p) /\ k \in Int /\ k >= 0
      BY <1>1, <1>2, <3>1
    <3>3. k \in kept
      BY <1>2, <1>7, <3>2
    <3>4. {k} \in Words(k + 1) /\ kept \ {k} \in Words(k + 1) /\ (kept \ {k}) \cap {k} = {}
          /\ (kept \ {k}) \cup {k} = kept
      BY <1>1, <1>8, <3>3 DEF Words, Bits
    <3>5. Val(kept) = Val(kept \ {k}) + Power(k) /\ Val(kept \ {k}) \in Nat
      BY <2>1, <3>4, DisjointSum, ValRange DEF Power
    <3> QED BY <1>1, <3>5
  <2> QED BY <2>1, <2>2, <2>3
<1>13. /\ g \in Words(SignAt(f)) /\ Val(g) \in Nat /\ Val(g) <= Top(f)
       /\ E >= 2^f.exp - 2 => Val(g) = Top(f)
       /\ E < 2^f.exp - 2 => Val(g) = K + E * M + IF up THEN 1 ELSE 0
  <2> HIDE DEF E, up, K
  <2>1. CASE E >= 2^f.exp - 2
    <3>1. g = Infinity(f)
      BY <2>1 DEF g
    <3>2. Top(f) \in Nat /\ Top(f) = Val(Infinity(f)) /\ Infinity(f) \in Words(SignAt(f))
      BY ClassesOfPlace
    <3>3. ~(E < 2^f.exp - 2)
      BY <1>1, <1>5, <2>1
    <3> QED BY <3>1, <3>2, <3>3
  <2>2. CASE E < 2^f.exp - 2
    <3>1. ~(E >= 2^f.exp - 2)
      BY <1>1, <1>5, <2>2
    <3>2. g = Sum3(SignAt(f), kept, ShiftL(SignAt(f), Num(E), k), up)
      BY <3>1 DEF g
    <3>3. up \in BOOLEAN
      BY DEF up
    <3>4. /\ g \in Words(SignAt(f)) /\ Val(g) \in Nat /\ Val(g) <= Top(f)
          /\ Val(g) = Val(kept) + E * M + IF up THEN 1 ELSE 0
      BY <1>5, <1>8, <2>2, <3>2, <3>3, Assembled
    <3> QED BY <3>1, <3>4 DEF K
  <2>3. E >= 2^f.exp - 2 \/ E < 2^f.exp - 2
    BY <1>1, <1>5
  <2> QED BY <2>1, <2>2, <2>3
<1>14. r \in Words(Width(f)) /\ IsNegative(f, r) = negative /\ Place(f, r) = Val(g)
  BY <1>4, <1>13, WithSignIs, Zenon
<1>15. RoundsTo(f, X, T, K, E, Val(g))
  <2> HIDE DEF E, up, K, T, X
  <2>1. CASE E >= 2^f.exp - 2
    BY <1>5, <1>11, <1>12, <1>13, <2>1 DEF RoundsTo
  <2>2. CASE E < 2^f.exp - 2 /\ up
    <3>1. K + E * M + 1 = K + 1 + E * M
      BY <1>1, <1>5, <1>11
    <3> QED BY <1>5, <1>11, <1>12, <1>13, <2>2, <3>1 DEF RoundsTo
  <2>3. CASE E < 2^f.exp - 2 /\ ~up
    <3>1. K + E * M + 0 = K + E * M
      BY <1>1, <1>5, <1>11
    <3> QED BY <1>5, <1>11, <1>12, <1>13, <2>3, <3>1 DEF RoundsTo
  <2>4. E >= 2^f.exp - 2 \/ E < 2^f.exp - 2
    BY <1>1, <1>5
  <2> QED BY <2>1, <2>2, <2>3, <2>4
<1> HIDE DEF E, K, X
<1>16. E + L - B - 1 \in Nat /\ T = Power(E + L - B - 1)
  BY <1>5
<1>17. RoundsTo(f, X, Power(E + L - B - 1), K, E, Place(f, r)) /\ Place(f, r) <= Top(f)
  BY <1>13, <1>14, <1>15, <1>16
<1> QED BY <1>5, <1>11, <1>14, <1>16, <1>17 DEF X, r, L

\* The same in other units.
LEMMA ScaledRounding ==
  ASSUME NEW f, Format(f), NEW X \in Nat, NEW T \in Nat \ {0}, NEW K, NEW E, NEW v, NEW k \in Nat \ {0}
  PROVE  RoundsTo(f, X, T, K, E, v) <=> RoundsTo(f, X * k, T * k, K, E, v)
<1>1. ASSUME K \in Nat
      PROVE  /\ (2 * K) * T <= X <=> (2 * K) * (T * k) <= X * k
             /\ X < (2 * K + 2) * T <=> X * k < (2 * K + 2) * (T * k)
             /\ X <= (2 * K + 1) * T <=> X * k <= (2 * K + 1) * (T * k)
             /\ X >= (2 * K + 1) * T <=> X * k >= (2 * K + 1) * (T * k)
             /\ X = (2 * K + 1) * T <=> X * k = (2 * K + 1) * (T * k)
  <2>1. \A m \in Nat : /\ m * T < X <=> m * (T * k) < X * k
                       /\ m * T <= X <=> m * (T * k) <= X * k
                       /\ X < m * T <=> X * k < m * (T * k)
                       /\ X <= m * T <=> X * k <= m * (T * k)
                       /\ X = m * T <=> X * k = m * (T * k)
    <3> TAKE m \in Nat
    <3>1. m * T \in Int /\ (m * T) * k = m * (T * k) /\ X \in Int
      OBVIOUS
    <3> DEFINE j == m * T
    <3>2. /\ j < X <=> j * k < X * k
          /\ j <= X <=> j * k <= X * k
          /\ X < j <=> X * k < j * k
          /\ X <= j <=> X * k <= j * k
          /\ X = j <=> X * k = j * k
      <4> HIDE DEF j
      <4> QED BY <3>1, TimesKeepsOrder DEF j
    <3> QED BY <3>1, <3>2
  <2>2. 2 * K \in Nat /\ 2 * K + 1 \in Nat /\ 2 * K + 2 \in Nat
    BY <1>1
  <2>3. /\ X >= (2 * K + 1) * T <=> (2 * K + 1) * T <= X
        /\ X * k >= (2 * K + 1) * (T * k) <=> (2 * K + 1) * (T * k) <= X * k
    BY <1>1
  <2> QED BY <2>1, <2>2, <2>3
<1> QED BY <1>1 DEF RoundsTo

\* A place that RoundsTo allows is the nearest to N / D units, and of two that
\* are equally near the even one.
LEMMA NearestPlace ==
  ASSUME NEW f, Format(f), NEW N \in Nat, NEW D \in Nat \ {0}, NEW K, NEW E, NEW v,
         RoundsTo(f, 2 * N, Power(E) * D, K, E, v), v <= Top(f), NEW z \in Nat, z <= Top(f)
  PROVE  \/ AbsVal(Grid(f, v) * D - N) < AbsVal(Grid(f, z) * D - N)
         \/ z = v
         \/ AbsVal(Grid(f, v) * D - N) = AbsVal(Grid(f, z) * D - N) /\ v % 2 = 0
<1> DEFINE M == Power(f.man)
           P == Power(E)
           F == Grid(f, v) * D
           G == Grid(f, z) * D
           Q == 2^f.exp
<1>1. /\ K \in Nat /\ E \in Nat /\ v \in Nat /\ K < 2 * M /\ (E > 0 => K >= M)
      /\ (2 * K) * (P * D) <= 2 * N /\ 2 * N < (2 * K + 2) * (P * D)
  BY DEF RoundsTo
<1>2. M \in Nat \ {0} /\ P \in Nat \ {0} /\ P * D \in Nat \ {0} /\ Q \in Nat /\ Q >= 4 /\ Power(f.exp) = Q
  <2>1. P \in Nat \ {0}
    BY <1>1, PowersDouble
  <2>2. P * D \in Nat \ {0}
    <3> HIDE DEF P
    <3> QED BY <2>1
  <2> QED BY <2>1, <2>2, FormatWidths
<1>3. /\ Grid(f, v) \in Nat /\ Grid(f, z) \in Nat /\ F \in Nat /\ G \in Nat
      /\ z < v => G < F
      /\ v < z => F < G
  <2>1. /\ Grid(f, v) \in Nat /\ Grid(f, z) \in Nat
        /\ z < v <=> Grid(f, z) < Grid(f, v)
        /\ v < z <=> Grid(f, v) < Grid(f, z)
    BY <1>1, GridGrows
  <2> DEFINE i == Grid(f, v)
             j == Grid(f, z)
  <2>2. i \in Nat /\ j \in Nat /\ (z < v <=> j < i) /\ (v < z <=> i < j)
    BY <2>1
  <2> HIDE DEF i, j
  <2>3. i * D \in Nat /\ j * D \in Nat /\ (i < j <=> i * D < j * D) /\ (j < i <=> j * D < i * D)
    BY <2>2, TimesKeepsOrder
  <2> QED BY <2>2, <2>3 DEF i, j
<1>4. /\ Grid(f, K + E * M) = K * P
      /\ Grid(f, K + 1 + E * M) = (K + 1) * P
      /\ K + E * M \in Nat /\ K + 1 + E * M \in Nat
  <2>1. K <= 2 * M /\ K + 1 <= 2 * M /\ K + 1 \in Nat /\ (E > 0 => K + 1 >= M)
    BY <1>1, <1>2
  <2> QED BY <1>1, <2>1, GridIs
<1>5. (K + E * M) % 2 = K % 2 /\ (K + 1 + E * M) % 2 = (K + 1) % 2 /\ (K % 2 = 1 => (K + 1) % 2 = 0)
  <2>1. f.man - 1 \in Nat /\ (f.man - 1) + 1 = f.man
    BY DEF Format
  <2>2. M = 2 * Power(f.man - 1) /\ Power(f.man - 1) \in Nat
    BY <2>1, PowersDouble
  <2> DEFINE h == E * Power(f.man - 1)
  <2>3. h \in Nat /\ E * M = 2 * h
    BY <1>1, <2>2
  <2> HIDE DEF h, M
  <2>4. \A i \in Nat : (i + 2 * h) % 2 = i % 2
    BY <2>3
  <2>5. K + E * M = K + 2 * h /\ K + 1 + E * M = (K + 1) + 2 * h
    BY <2>3
  <2>6. (K % 2 = 1) => ((K + 1) % 2 = 0)
    BY <1>1
  <2> QED BY <1>1, <2>4, <2>5, <2>6
<1>6. (2 * K) * (P * D) = 2 * ((K * P) * D) /\ (2 * K + 2) * (P * D) = 2 * (((K + 1) * P) * D)
      /\ (2 * K + 1) * (P * D) = ((K * P) * D) + (((K + 1) * P) * D)
      /\ (K * P) * D \in Nat /\ ((K + 1) * P) * D \in Nat
  <2> HIDE DEF P
  <2> QED BY <1>1, <1>2
<1> DEFINE lo == (K * P) * D
           hi == ((K + 1) * P) * D
<1>7. lo <= N /\ N < hi /\ lo \in Nat /\ hi \in Nat
  <2> HIDE DEF lo, hi
  <2> QED BY <1>1, <1>6 DEF lo, hi
<1>8. CASE E >= Q - 2 /\ v = Top(f)
  <2>1. F <= N
    <3>1. Top(f) = M + (Q - 2) * M
      <4>1. Top(f) = (Q - 1) * M
        BY <1>2, ClassesOfPlace
      <4> HIDE DEF M, Q
      <4> QED BY <1>2, <4>1
    <3>2. Grid(f, M + (Q - 2) * M) = M * Power(Q - 2)
      <4>1. Q - 2 \in Nat /\ M <= 2 * M /\ M >= M
        BY <1>2
      <4> HIDE DEF Q
      <4> QED BY <1>2, <4>1, GridIs
    <3>3. Power(Q - 2) <= P /\ Power(Q - 2) \in Nat
      <4>1. Q - 2 \in Nat
        BY <1>2
      <4> HIDE DEF Q
      <4> QED BY <1>1, <1>8, <4>1, PowersGrow
    <3>4. K >= M
      <4>1. E > 0
        BY <1>1, <1>2, <1>8
      <4> QED BY <1>1, <4>1
    <3>5. F = (M * Power(Q - 2)) * D
      BY <1>8, <3>1, <3>2
    <3> DEFINE R == Power(Q - 2)
    <3> HIDE DEF R, M, P, F
    <3>6. M * R <= M * P /\ M * P <= K * P
      <4>1. R * M <= P * M
        BY <1>2, <3>3, TimesKeepsOrder DEF R
      <4>2. M * P <= K * P
        BY <1>1, <1>2, <3>4, TimesKeepsOrder
      <4>3. R * M = M * R /\ P * M = M * P
        BY <1>2, <3>3 DEF R
      <4> QED BY <4>1, <4>2, <4>3
    <3>7. M * R \in Int /\ M * P \in Int /\ K * P \in Int
      BY <1>1, <1>2, <3>3 DEF R
    <3>8. M * R <= K * P
      BY <3>6, <3>7
    <3>9. (M * R) * D <= (K * P) * D
      BY <3>7, <3>8, TimesKeepsOrder
    <3>10. F = (M * R) * D
      BY <3>5 DEF R
    <3>11. (M * R) * D \in Int
      BY <3>7
    <3> QED BY <1>7, <3>9, <3>10, <3>11 DEF lo
  <2> HIDE DEF F, G
  <2>2. z < v => AbsVal(F - N) < AbsVal(G - N)
    BY <1>3, <2>1 DEF AbsVal
  <2> QED BY <1>1, <1>8, <2>2 DEF F, G
<1>9. CASE v = K + E * M /\ 2 * N <= (2 * K + 1) * (P * D) /\ (2 * N = (2 * K + 1) * (P * D) => K % 2 = 0)
  <2>1. F = lo
    BY <1>4, <1>9
  <2>2. z > v => G >= hi
    <3> SUFFICES ASSUME z > v PROVE G >= hi
      OBVIOUS
    <3>1. K + 1 + E * M = v + 1 /\ v + 1 <= z /\ v + 1 \in Nat
      <4>1. E * M \in Nat
        BY <1>1, <1>2
      <4> QED BY <1>1, <1>9, <4>1
    <3>2. Grid(f, v + 1) = (K + 1) * P
      BY <1>4, <3>1
    <3>3. Grid(f, v + 1) <= Grid(f, z) /\ Grid(f, v + 1) \in Int /\ Grid(f, z) \in Int
      <4>1. v + 1 < z \/ v + 1 = z
        BY <3>1
      <4>2. (v + 1 < z <=> Grid(f, v + 1) < Grid(f, z)) /\ Grid(f, v + 1) \in Nat /\ Grid(f, z) \in Nat
        BY <3>1, GridGrows
      <4> QED BY <4>1, <4>2
    <3>4. Grid(f, v + 1) * D <= Grid(f, z) * D
      BY <3>3, TimesKeepsOrder
    <3>5. Grid(f, v + 1) * D = hi
      BY <3>2
    <3> HIDE DEF hi
    <3> QED BY <1>3, <1>7, <3>4, <3>5
  <2>3. 2 * N <= lo + hi /\ (2 * N = lo + hi => v % 2 = 0)
    BY <1>5, <1>6, <1>9
  <2> HIDE DEF F, G, lo, hi
  <2>4. z < v => AbsVal(F - N) < AbsVal(G - N)
    BY <1>3, <1>7, <2>1 DEF AbsVal
  <2>5. z > v => \/ AbsVal(F - N) < AbsVal(G - N)
                 \/ AbsVal(F - N) = AbsVal(G - N) /\ v % 2 = 0
    BY <1>3, <1>7, <2>1, <2>2, <2>3 DEF AbsVal
  <2>6. z < v \/ z = v \/ z > v
    BY <1>1
  <2> QED BY <2>4, <2>5, <2>6 DEF F, G
<1>10. CASE v = K + 1 + E * M /\ 2 * N >= (2 * K + 1) * (P * D) /\ (2 * N = (2 * K + 1) * (P * D) => K % 2 = 1)
  <2>1. F = hi
    BY <1>4, <1>10
  <2>2. z < v => G <= lo
    <3> SUFFICES ASSUME z < v PROVE G <= lo
      OBVIOUS
    <3>1. K + E * M = v - 1 /\ z <= v - 1 /\ v - 1 \in Nat
      <4>1. E * M \in Nat
        BY <1>1, <1>2
      <4> QED BY <1>1, <1>10, <4>1
    <3>2. Grid(f, v - 1) = K * P
      BY <1>4, <3>1
    <3>3. Grid(f, z) <= Grid(f, v - 1) /\ Grid(f, v - 1) \in Int /\ Grid(f, z) \in Int
      <4>1. z < v - 1 \/ v - 1 = z
        BY <3>1
      <4>2. (z < v - 1 <=> Grid(f, z) < Grid(f, v - 1)) /\ Grid(f, v - 1) \in Nat /\ Grid(f, z) \in Nat
        BY <3>1, GridGrows
      <4> QED BY <4>1, <4>2
    <3>4. Grid(f, z) * D <= Grid(f, v - 1) * D
      BY <3>3, TimesKeepsOrder
    <3>5. Grid(f, v - 1) * D = lo
      BY <3>2
    <3> HIDE DEF lo
    <3> QED BY <1>3, <1>7, <3>4, <3>5
  <2>3. 2 * N >= lo + hi /\ (2 * N = lo + hi => v % 2 = 0)
    BY <1>5, <1>6, <1>10
  <2> HIDE DEF F, G, lo, hi
  <2>4. z > v => AbsVal(F - N) < AbsVal(G - N)
    BY <1>3, <1>7, <2>1 DEF AbsVal
  <2>5. z < v => \/ AbsVal(F - N) < AbsVal(G - N)
                 \/ AbsVal(F - N) = AbsVal(G - N) /\ v % 2 = 0
    BY <1>3, <1>7, <2>1, <2>2, <2>3 DEF AbsVal
  <2>6. z < v \/ z = v \/ z > v
    BY <1>1
  <2> QED BY <2>4, <2>5, <2>6 DEF F, G
<1> HIDE DEF F, G, M, P, Q
<1>11. \/ E >= Q - 2 /\ v = Top(f)
       \/ v = K + E * M /\ 2 * N <= (2 * K + 1) * (P * D) /\ (2 * N = (2 * K + 1) * (P * D) => K % 2 = 0)
       \/ v = K + 1 + E * M /\ 2 * N >= (2 * K + 1) * (P * D) /\ (2 * N = (2 * K + 1) * (P * D) => K % 2 = 1)
  BY DEF RoundsTo, M, P, Q
<1> QED BY <1>8, <1>9, <1>10, <1>11 DEF F, G

\* r is a number of the format, no other is nearer to n / d units, and of two
\* equally near ones r is the one whose last bit is 0.
IsNearest(f, r, n, d) ==
  /\ r \in Numbers(f)
  /\ \A z \in Numbers(f) : \/ AbsVal(Units(f, r) * d - n) < AbsVal(Units(f, z) * d - n)
                           \/ Units(f, z) = Units(f, r)
                           \/ AbsVal(Units(f, r) * d - n) = AbsVal(Units(f, z) * d - n) /\ 0 \notin r

\* The last bit of a pattern is that of its place.
LEMMA LastBit ==
  ASSUME NEW f, Format(f), NEW x
  PROVE  Place(f, x) % 2 = 0 <=> 0 \notin x
<1>1. SignAt(f) \in Nat /\ 0 \in Bits(SignAt(f))
  BY FormatWidths DEF Bits
<1>2. Magnitude(f, x) \in Words(SignAt(f)) /\ (0 \in Magnitude(f, x) <=> 0 \in x)
  BY <1>1, FieldsOfPlace DEF Magnitude, Trunc
<1>3. Place(f, x) % 2 = IF 0 \in Magnitude(f, x) THEN 1 ELSE 0
  BY <1>1, <1>2, Parity DEF Place
<1> QED BY <1>2, <1>3

\* The nearest place, with the sign of the number, is the nearest number.
LEMMA NearestPattern ==
  ASSUME NEW f, Format(f), NEW r \in Words(Width(f)), Place(f, r) <= Top(f), NEW n \in Int, NEW d \in Nat \ {0},
         n < 0 => IsNegative(f, r), n > 0 => ~IsNegative(f, r), n = 0 => Place(f, r) = 0,
         \A z \in Nat : z <= Top(f) =>
           \/ AbsVal(Grid(f, Place(f, r)) * d - AbsVal(n)) < AbsVal(Grid(f, z) * d - AbsVal(n))
           \/ z = Place(f, r)
           \/ /\ AbsVal(Grid(f, Place(f, r)) * d - AbsVal(n)) = AbsVal(Grid(f, z) * d - AbsVal(n))
              /\ Place(f, r) % 2 = 0
  PROVE  IsNearest(f, r, n, d)
<1> DEFINE v == Place(f, r)
           N == AbsVal(n)
           even == 0 \notin r
<1>1. v \in Nat /\ N \in Nat /\ Top(f) \in Nat
  BY FieldsOfPlace, ClassesOfPlace DEF AbsVal
<1>2. r \in Numbers(f)
  <2>1. ~IsNaN(f, r)
    BY <1>1, ClassesOfPlace
  <2> QED BY <2>1 DEF Numbers, Number
<1>3. ASSUME NEW z \in Numbers(f)
      PROVE  \/ AbsVal(Units(f, r) * d - n) < AbsVal(Units(f, z) * d - n)
             \/ Units(f, z) = Units(f, r)
             \/ AbsVal(Units(f, r) * d - n) = AbsVal(Units(f, z) * d - n) /\ 0 \notin r
  <2> DEFINE y == Place(f, z)
             F == Grid(f, v) * d
             G == Grid(f, y) * d
  <2>1. y \in Nat /\ y <= Top(f) /\ 0 \in Nat /\ 0 <= Top(f)
    <3>1. ~IsNaN(f, z) /\ y \in Nat
      BY FieldsOfPlace DEF Numbers, Number
    <3>2. ~(y > Top(f))
      BY <3>1, ClassesOfPlace
    <3> QED BY <1>1, <3>1, <3>2
  <2>2. /\ F \in Nat /\ G \in Nat /\ Grid(f, v) \in Nat /\ Grid(f, y) \in Nat /\ Grid(f, 0) * d = 0
        /\ (F = 0 <=> v = 0) /\ (G = 0 <=> y = 0)
    <3>1. /\ Grid(f, v) \in Nat /\ Grid(f, y) \in Nat /\ Grid(f, 0) = 0
          /\ (Grid(f, v) = 0 <=> v = 0) /\ (Grid(f, y) = 0 <=> y = 0)
      BY <1>1, <2>1, GridGrows
    <3>2. \A i \in Nat : i * d \in Nat /\ (i * d = 0 <=> i = 0)
      OBVIOUS
    <3> HIDE DEF v, y
    <3> QED BY <3>1, <3>2
  <2>3. v % 2 = 0 <=> even
    BY LastBit
  <2>4. /\ Units(f, r) = IF IsNegative(f, r) THEN -Grid(f, v) ELSE Grid(f, v)
        /\ Units(f, z) = IF IsNegative(f, z) THEN -Grid(f, y) ELSE Grid(f, y)
    BY UnitsOfPlace, Zenon
  <2>5. /\ Units(f, r) * d = IF IsNegative(f, r) THEN -F ELSE F
        /\ Units(f, z) * d = IF IsNegative(f, z) THEN -G ELSE G
    <3>1. \A i \in Nat : (-i) * d = -(i * d)
      OBVIOUS
    <3> HIDE DEF v, y
    <3> QED BY <2>2, <2>4, <3>1
  <2>6. AbsVal(F - N) < AbsVal(G - N) \/ y = v \/ (AbsVal(F - N) = AbsVal(G - N) /\ even)
    BY <2>1, <2>3
  <2>7. AbsVal(F - N) < AbsVal(0 - N) \/ v = 0 \/ (AbsVal(F - N) = AbsVal(0 - N) /\ even)
    BY <2>1, <2>2, <2>3
  <2> DEFINE Fr == Units(f, r) * d
             Gz == Units(f, z) * d
             same == IsNegative(f, z) = IsNegative(f, r)
  <2>8. CASE n = 0
    <3>1. v = 0 /\ F = 0 /\ N = 0
      BY <1>1, <2>2, <2>8 DEF AbsVal
    <3>2. Units(f, r) = 0 /\ Fr = 0
      BY <2>2, <2>4, <2>5, <3>1
    <3>3. Units(f, z) # 0 => AbsVal(Gz - n) > 0
      BY <2>2, <2>4, <2>5, <2>8 DEF AbsVal
    <3>4. AbsVal(Fr - n) = 0
      BY <2>8, <3>2 DEF AbsVal
    <3> HIDE DEF Fr, Gz
    <3> QED BY <3>2, <3>3, <3>4 DEF Fr, Gz
  <2>9. CASE n # 0
    <3>1. n = (IF IsNegative(f, r) THEN -N ELSE N) /\ N > 0
      BY <2>9 DEF AbsVal
    <3>2. AbsVal(Fr - n) = AbsVal(F - N)
      <4> HIDE DEF F, G, N
      <4> QED BY <1>1, <2>2, <2>5, <3>1 DEF AbsVal
    <3>3. CASE same
      <4>1. AbsVal(Gz - n) = AbsVal(G - N)
        <5> HIDE DEF F, G, N
        <5> QED BY <1>1, <2>2, <2>5, <3>1, <3>3 DEF AbsVal
      <4>2. y = v => Units(f, z) = Units(f, r)
        BY <2>4, <3>3
      <4> HIDE DEF Fr, Gz, F, G, v, y
      <4> QED BY <2>6, <3>2, <4>1, <4>2 DEF Fr, Gz
    <3>4. CASE ~same
      <4>1. AbsVal(Gz - n) = G + N
        <5> HIDE DEF F, G, N
        <5> QED BY <1>1, <2>2, <2>5, <3>1, <3>4 DEF AbsVal, IsNegative
      <4>2. AbsVal(0 - N) = N
        BY <1>1 DEF AbsVal
      <4>3. CASE y = 0
        <5>1. G = 0 /\ Units(f, z) = 0 /\ (v = 0 => Units(f, r) = 0)
          BY <2>2, <2>4, <4>3
        <5> HIDE DEF Fr, Gz, F, G, N, v, y
        <5> QED BY <1>1, <2>7, <3>2, <4>1, <4>2, <5>1 DEF Fr, Gz
      <4>4. CASE y # 0
        <5>1. G > 0
          BY <2>2, <4>4
        <5>2. AbsVal(F - N) <= N
          <6>1. v = 0 => AbsVal(F - N) = N
            BY <1>1, <2>2 DEF AbsVal
          <6>2. AbsVal(F - N) \in Int
            BY <1>1, <2>2 DEF AbsVal
          <6> HIDE DEF F, N, v
          <6> QED BY <1>1, <2>7, <4>2, <6>1, <6>2
        <5>3. AbsVal(F - N) \in Int
          BY <1>1, <2>2 DEF AbsVal
        <5> HIDE DEF Fr, Gz, F, G, N, v, y
        <5> QED BY <1>1, <2>2, <3>2, <4>1, <5>1, <5>2, <5>3 DEF Fr, Gz
      <4> QED BY <4>3, <4>4
    <3> QED BY <3>3, <3>4
  <2> QED BY <2>8, <2>9
<1> QED BY <1>2, <1>3, Zenon DEF IsNearest

\* A number without powers is rounded to a zero of its sign.
LEMMA RoundedZero ==
  ASSUME NEW f, Format(f), NEW x, x.neg \in BOOLEAN, x.pow = {}
  PROVE  LET r == Rounded(f, x)
         IN r \in Words(Width(f)) /\ IsNegative(f, r) = x.neg /\ Place(f, r) = 0
<1>1. Rounded(f, x) = WithSign(f, x.neg, {})
  BY Zenon DEF Rounded
<1>2. {} \in Words(SignAt(f))
  BY ZeroIsWord
<1> DEFINE w == WithSign(f, x.neg, {})
<1>3. w \in Words(Width(f)) /\ IsNegative(f, w) = x.neg /\ Place(f, w) = Val({})
  BY <1>2, WithSignIs
<1> HIDE DEF w
<1> QED BY <1>1, <1>3, ZeroIsZero DEF w

\* Rounding finds the number nearest to n / d units from the powers of 2 that
\* n / d is the sum of.
LEMMA RoundedIsNearest ==
  ASSUME NEW f, Format(f), NEW x, NEW negative \in BOOLEAN, x.neg = negative,
         NEW B \in Int, NEW C \in Int, B < LowestPower(f), LowestPower(f) <= C,
         NEW p \in SUBSET (B..(C - 1)), x.pow = p,
         NEW n \in Int, NEW d \in Nat \ {0}, n < 0 => negative, n > 0 => ~negative,
         Amount(p, B) * d = AbsVal(n) * Power(LowestPower(f) - B)
  PROVE  IsNearest(f, Rounded(f, x), n, d) /\ IsNegative(f, Rounded(f, x)) = negative
<1> DEFINE L == LowestPower(f)
           N == AbsVal(n)
           X == Amount(p, B)
           r == Rounded(f, x)
           v == Place(f, r)
<1>1. L \in Int /\ B <= C /\ L - B \in Nat /\ L - B - 1 \in Nat /\ N \in Nat
  BY LowestPowerIs DEF AbsVal
<1>2. Power(L - B) = 2 * Power(L - B - 1) /\ Power(L - B - 1) \in Nat \ {0}
  <2>1. (L - B - 1) + 1 = L - B
    BY <1>1
  <2> QED BY <1>1, <2>1, PowersDouble
<1>3. X \in Nat /\ (p = {} <=> X = 0)
  BY <1>1, AmountIs
<1>4. p = {} <=> n = 0
  <2> HIDE DEF X, L
  <2>1. X * d = N * (2 * Power(L - B - 1))
    BY <1>2 DEF X, L
  <2>2. X = 0 <=> N = 0
    <3>1. X > 0 => X * d > 0
      BY <1>3
    <3>2. N > 0 => N * (2 * Power(L - B - 1)) > 0
      BY <1>1, <1>2
    <3>3. (X = 0 => X * d = 0) /\ (N = 0 => N * (2 * Power(L - B - 1)) = 0)
      BY <1>2
    <3> QED BY <1>1, <1>3, <2>1, <3>1, <3>2, <3>3
  <2>3. N = 0 <=> n = 0
    BY DEF AbsVal
  <2> QED BY <1>3, <2>2, <2>3
<1>5. Top(f) \in Nat
  BY ClassesOfPlace
<1>6. CASE p = {}
  <2>1. r \in Words(Width(f)) /\ IsNegative(f, r) = negative /\ v = 0
    BY <1>6, RoundedZero
  <2>2. N = 0
    BY <1>4, <1>6 DEF AbsVal
  <2>3. \A z \in Nat : z <= Top(f) =>
          \/ AbsVal(Grid(f, v) * d - N) < AbsVal(Grid(f, z) * d - N)
          \/ z = v
          \/ AbsVal(Grid(f, v) * d - N) = AbsVal(Grid(f, z) * d - N) /\ v % 2 = 0
    <3> SUFFICES ASSUME NEW z \in Nat, z # 0
                 PROVE  AbsVal(Grid(f, 0) * d - 0) < AbsVal(Grid(f, z) * d - 0)
      BY <2>1, <2>2
    <3>1. Grid(f, 0) = 0 /\ Grid(f, z) \in Nat /\ Grid(f, z) # 0 /\ 0 \in Nat
      <4>1. 0 \in Nat
        OBVIOUS
      <4> QED BY <4>1, GridGrows
    <3> DEFINE g == Grid(f, z)
    <3>2. g \in Nat \ {0}
      BY <3>1
    <3> HIDE DEF g
    <3>3. g * d > 0
      BY <3>2
    <3> QED BY <3>1, <3>3 DEF AbsVal, g
  <2> HIDE DEF r
  <2>4. IsNearest(f, r, n, d)
    BY <1>4, <1>5, <1>6, <2>1, <2>3, NearestPattern
  <2> QED BY <2>1, <2>4 DEF r
<1>7. CASE p # {}
  <2>1. /\ r \in Words(Width(f)) /\ IsNegative(f, r) = negative /\ v <= Top(f)
        /\ \E K \in Nat, E \in Nat : E + L - B - 1 \in Nat /\ RoundsTo(f, X, Power(E + L - B - 1), K, E, v)
    BY <1>7, RoundedPattern
  <2>2. PICK K \in Nat, E \in Nat : E + L - B - 1 \in Nat /\ RoundsTo(f, X, Power(E + L - B - 1), K, E, v)
    BY <2>1
  <2> DEFINE Q == Power(L - B - 1)
             P == Power(E)
             T == Power(E + L - B - 1)
  <2> HIDE DEF L, X, r, v
  <2>3. T = P * Q /\ P \in Nat \ {0} /\ Q \in Nat \ {0}
    <3>1. E + L - B - 1 = E + (L - B - 1)
      BY <1>1
    <3> QED BY <1>1, <1>2, <3>1, PowersAdd
  <2>4. T \in Nat \ {0} /\ P * d \in Nat \ {0} /\ 2 * N \in Nat
    <3> HIDE DEF P, Q, T
    <3> QED BY <1>1, <2>3
  <2>5. RoundsTo(f, X * d, T * d, K, E, v)
    <3> HIDE DEF T
    <3> QED BY <1>3, <2>2, <2>4, ScaledRounding DEF T
  <2>6. X * d = (2 * N) * Q /\ T * d = (P * d) * Q
    <3>1. X * d = N * (2 * Q)
      BY <1>2 DEF X, L
    <3> HIDE DEF P, Q, T
    <3> QED BY <1>1, <2>3, <3>1
  <2>7. RoundsTo(f, 2 * N, P * d, K, E, v)
    <3> HIDE DEF P, Q, T
    <3> QED BY <2>3, <2>4, <2>5, <2>6, ScaledRounding
  <2>8. \A z \in Nat : z <= Top(f) =>
          \/ AbsVal(Grid(f, v) * d - N) < AbsVal(Grid(f, z) * d - N)
          \/ z = v
          \/ AbsVal(Grid(f, v) * d - N) = AbsVal(Grid(f, z) * d - N) /\ v % 2 = 0
    <3> HIDE DEF N
    <3> QED BY <1>1, <2>1, <2>7, NearestPlace
  <2>9. IsNearest(f, r, n, d)
    BY <1>4, <1>7, <2>1, <2>8, NearestPattern DEF v
  <2> QED BY <2>1, <2>9 DEF r
<1> QED BY <1>6, <1>7

-----------------------------------------------------------------------------
(* Conversions *)

\* The sign and the size of a value.
LEMMA UnitsSign ==
  ASSUME NEW f, Format(f), NEW x
  PROVE  /\ Units(f, x) \in Int /\ AbsVal(Units(f, x)) = Grid(f, Place(f, x)) /\ AbsVal(Units(f, x)) \in Nat
         /\ Units(f, x) < 0 => IsNegative(f, x)
         /\ Units(f, x) > 0 => ~IsNegative(f, x)
         /\ Units(f, x) = 0 <=> Place(f, x) = 0
<1> DEFINE u == Units(f, x)
           g == Grid(f, Place(f, x))
<1>1. Place(f, x) \in Nat
  BY FieldsOfPlace
<1>2. g \in Nat /\ (g = 0 <=> Place(f, x) = 0)
  BY <1>1, GridGrows
<1>3. u = IF IsNegative(f, x) THEN -g ELSE g
  BY UnitsOfPlace, Zenon
<1> HIDE DEF u, g
<1> QED BY <1>2, <1>3 DEF AbsVal, u, g

\* A finite number is below the infinities and has not all bits of its exponent.
LEMMA FiniteIs ==
  ASSUME NEW f, Format(f), NEW x, Finite(f, x)
  PROVE  Place(f, x) < Top(f) /\ ~IsNaN(f, x) /\ ~IsInf(f, x) /\ Infinity(f) \cap x # Infinity(f)
<1>1. ~IsNaN(f, x) /\ ~IsInf(f, x)
  BY DEF Finite, Number
<1>2. Place(f, x) \in Nat /\ Top(f) \in Nat
  BY FieldsOfPlace, ClassesOfPlace
<1>3. Place(f, x) < Top(f)
  BY <1>1, <1>2, ClassesOfPlace
<1>4. Infinity(f) \cap x # Infinity(f)
  BY <1>1 DEF IsNaN
<1> QED BY <1>1, <1>3, <1>4

\* The bounds of the powers of a finite number.
LEMMA PowersOfExact ==
  ASSUME NEW f, Format(f), NEW x
  PROVE  LET L == LowestPower(f)
             C == 2 + 2^(f.exp - 1)
             p == Exact(f, x).pow
         IN /\ L \in Int /\ C \in Int /\ C >= 4 /\ L < 0 /\ L <= C /\ C - L \in Nat
            /\ p \in SUBSET (L..(C - 1)) /\ Exact(f, x).neg = IsNegative(f, x) /\ IsNegative(f, x) \in BOOLEAN
            /\ Amount(p, L) = AbsVal(Units(f, x))
            /\ UnitsInOne(f) = Power(-L) /\ UnitsInOne(f) \in Nat \ {0} /\ -L \in Nat
<1> DEFINE L == LowestPower(f)
           H == 2^(f.exp - 1)
           p == Exact(f, x).pow
<1>1. /\ L \in Int /\ L <= -1 /\ 2^f.exp = 2 * H /\ H \in Nat /\ H >= 2
      /\ -L = H - 2 + f.man /\ UnitsInOne(f) = Power(-L)
  BY LowestPowerIs
<1>2. /\ p \in SUBSET (L..(L + f.man + 2^f.exp - 1)) /\ Amount(p, L) = Grid(f, Place(f, x))
      /\ Exact(f, x).neg = IsNegative(f, x)
  BY ExactIs
<1>3. Amount(p, L) = AbsVal(Units(f, x)) /\ IsNegative(f, x) \in BOOLEAN
  BY <1>2, UnitsSign DEF IsNegative
<1>4. f.man \in Nat
  BY DEF Format
<1> HIDE DEF H, L, p
<1>5. L + f.man + 2^f.exp - 1 = 2 + H - 1
  BY <1>1, <1>4
<1>6. -L \in Nat /\ L < 0 /\ 2 + H \in Int /\ 2 + H >= 4 /\ L <= 2 + H /\ 2 + H - L \in Nat
  BY <1>1
<1>7. UnitsInOne(f) \in Nat \ {0}
  BY <1>1, <1>6, PowersDouble
<1> QED BY <1>1, <1>2, <1>3, <1>5, <1>6, <1>7 DEF H, L, p

\* The powers from 1 upwards are the whole part.
LEMMA WholeIs ==
  ASSUME NEW f, Format(f), NEW x
  PROVE  LET whole == {i \in Exact(f, x).pow : i >= 0}
         IN /\ whole \in Words(2 + 2^(f.exp - 1)) /\ 2 + 2^(f.exp - 1) \in Nat
            /\ Val(whole) = AbsVal(Units(f, x)) \div UnitsInOne(f) /\ Val(whole) \in Nat
<1> DEFINE L == LowestPower(f)
           C == 2 + 2^(f.exp - 1)
           p == Exact(f, x).pow
           n == C - L
           w == Shifted(p, -L)
           k == -L
           whole == {i \in p : i >= 0}
<1>1. /\ L \in Int /\ C \in Int /\ C >= 4 /\ L < 0 /\ L <= C /\ n \in Nat /\ k \in Nat
      /\ p \in SUBSET (L..(C - 1)) /\ Amount(p, L) = AbsVal(Units(f, x))
      /\ UnitsInOne(f) = Power(k) /\ UnitsInOne(f) \in Nat \ {0}
  BY PowersOfExact
<1> HIDE DEF L, C, p
<1>2. /\ w \in Words(n) /\ Val(w) = AbsVal(Units(f, x)) /\ Val(w) \in Nat
      /\ \A i \in Int : i \in w <=> i + L \in p
  BY <1>1, AmountIs, Zenon DEF Amount
<1>3. k \in 0..n /\ \A i \in p : i \in Int /\ i <= C - 1
  BY <1>1
<1>4. whole = ShiftR(n, w, k)
  <2>1. \A i \in Int : i + k \in w <=> i \in p
    <3> TAKE i \in Int
    <3>1. i + k \in Int /\ (i + k) + L = i
      BY <1>1
    <3> QED BY <1>2, <3>1
  <2>2. \A i \in Int : i \in p => i < n
    BY <1>1
  <2>3. whole \subseteq Int /\ ShiftR(n, w, k) \subseteq Int
    BY <1>3 DEF ShiftR, Bits
  <2>4. \A i \in Int : i \in ShiftR(n, w, k) <=> i >= 0 /\ i < n /\ i + k \in w
    BY <1>1 DEF ShiftR, Bits
  <2> HIDE DEF w, n, k
  <2> QED BY <2>1, <2>2, <2>3, <2>4
<1>5. Val(whole) = From(w)[k] /\ From(w)[k] \in Nat
  <2> HIDE DEF w, n, k, whole
  <2> QED BY <1>1, <1>2, <1>4, ValShiftR, FromStep
<1>6. Val(w) = Val(Trunc(k, w)) + Power(k) * From(w)[k]
  BY <1>1, <1>2, <1>3, Splits DEF Power
<1>7. Val(Trunc(k, w)) \in Nat /\ Val(Trunc(k, w)) < Power(k)
  BY <1>1, TruncIsWord, ValRange DEF Power
<1> DEFINE X == Val(w)
           Y == Power(k)
           q == Val(whole)
           r == Val(Trunc(k, w))
<1>8. X \in Int /\ Y \in Nat \ {0} /\ q \in Int /\ r \in 0..(Y - 1) /\ X = Y * q + r
  BY <1>1, <1>2, <1>5, <1>6, <1>7
<1> HIDE DEF X, Y, q, r
<1>9. X \div Y = q
  BY <1>8, QuotientIs
<1>10. whole \in Words(C)
  <2>1. \A i \in whole : i \in 0..(C - 1)
    BY <1>1, <1>3
  <2> QED BY <2>1 DEF Words, Bits
<1> QED BY <1>1, <1>2, <1>5, <1>9, <1>10 DEF X, Y, q, p, C

\* A word is its own low part.
LEMMA TruncKeeps ==
  ASSUME NEW n, NEW x \in Words(n)
  PROVE  Trunc(n, x) = x
BY DEF Trunc, Words

\* (int32_t)x and (uint32_t)x are k where k fits.
TruncatesTo(f, x, k) ==
  /\ k \in -Power(WORD - 1)..(Power(WORD - 1) - 1)
       => \E w \in Words(WORD) : ToWord(f, x, TRUE) = {w} /\ Signed(WORD, w) = k
  /\ k \in 0..(Power(WORD) - 1) => \E w \in Words(WORD) : ToWord(f, x, FALSE) = {w} /\ Val(w) = k

\* That k is the whole part of a finite number.
LEMMA ToWordIs ==
  ASSUME NEW f, Format(f), NEW x, Finite(f, x), NEW q, q = AbsVal(Units(f, x)) \div UnitsInOne(f),
         NEW k, k = IF Units(f, x) < 0 THEN -q ELSE q
  PROVE  TruncatesTo(f, x, k)
<1> DEFINE whole == {i \in Exact(f, x).pow : i >= 0}
           negative == Exact(f, x).neg /\ whole # {}
           value == Trunc(WORD, IF negative THEN Neg(WORD, whole) ELSE whole)
           n == 2 + 2^(f.exp - 1)
           H == Power(WORD - 1)
<1>1. /\ WORD \in Nat \ {0} /\ WORD \in Nat /\ WORD - 1 \in Nat /\ WORD - 1 + 1 = WORD
      /\ H \in Nat \ {0} /\ Power(WORD) = 2 * H
  <2>1. WORD \in Nat \ {0}
    BY WidthAssumption DEF WORD
  <2>2. WORD \in Nat /\ WORD - 1 \in Nat /\ WORD - 1 + 1 = WORD
    BY <2>1
  <2>3. H \in Nat \ {0} /\ Power(WORD - 1 + 1) = 2 * H
    BY <2>2, PowersDouble
  <2> QED BY <2>1, <2>2, <2>3
<1>2. whole \in Words(n) /\ n \in Nat /\ Val(whole) = q /\ q \in Nat
  BY WholeIs
<1>3. whole = {} <=> q = 0
  <2>1. {} \in Words(n)
    BY ZeroIsWord
  <2> QED BY <1>2, <2>1, ZeroIsZero, ValInjective, Zenon
<1>4. Exact(f, x).neg = IsNegative(f, x)
  BY PowersOfExact
<1>5. Units(f, x) \in Int /\ (Units(f, x) < 0 => IsNegative(f, x)) /\ (Units(f, x) > 0 => ~IsNegative(f, x))
  BY UnitsSign
<1>6. q > 0 => Units(f, x) # 0
  <2>1. UnitsInOne(f) \in Nat \ {0}
    BY PowersOfExact
  <2>2. AbsVal(0) \div UnitsInOne(f) = 0
    <3> DEFINE Y == UnitsInOne(f)
    <3>1. 0 \in Int /\ Y \in Nat \ {0} /\ 0 \in 0..(Y - 1) /\ 0 = Y * 0 + 0
      BY <2>1
    <3> HIDE DEF Y
    <3>2. 0 \div Y = 0
      BY <3>1, QuotientIs
    <3>3. AbsVal(0) = 0
      BY DEF AbsVal
    <3> QED BY <3>2, <3>3 DEF Y
  <2> QED BY <2>2
<1> HIDE DEF whole, n, H
<1>7. (negative => k = -q /\ q > 0) /\ (~negative => k = q)
  <2>1. CASE q = 0
    BY <1>2, <1>3, <2>1
  <2>2. CASE q # 0
    <3>1. negative <=> Units(f, x) < 0
      BY <1>2, <1>3, <1>4, <1>5, <1>6, <2>2
    <3> QED BY <1>2, <2>2, <3>1
  <2> QED BY <2>1, <2>2
<1>8. Infinity(f) \cap x # Infinity(f)
  BY FiniteIs
<1>9. \A m \in Nat : q < Power(m) => whole \in Words(m)
  BY <1>2, SmallWord
<1>10. whole \subseteq Bits(WORD - 1) \/ (negative /\ whole = {WORD - 1}) => ToWord(f, x, TRUE) = {value}
  BY <1>8, Zenon DEF ToWord, whole
<1>11. whole \subseteq Bits(WORD) /\ ~negative => ToWord(f, x, FALSE) = {value}
  BY <1>8, Zenon DEF ToWord, whole
<1>12. ASSUME k \in -H..(H - 1)
       PROVE  \E w \in Words(WORD) : ToWord(f, x, TRUE) = {w} /\ Signed(WORD, w) = k
  <2>1. q <= H /\ (q = H => negative)
    BY <1>1, <1>2, <1>7, <1>12
  <2>2. q < H => whole \in Words(WORD - 1)
    BY <1>1, <1>9 DEF H
  <2>3. q = H => whole = {WORD - 1}
    <3> SUFFICES ASSUME q = H PROVE whole = {WORD - 1}
      OBVIOUS
    <3>1. q < Power(WORD)
      BY <1>1
    <3>2. whole \in Words(WORD) /\ {WORD - 1} \in Words(WORD)
      BY <1>1, <1>9, <3>1 DEF Words, Bits
    <3>3. Val({WORD - 1}) = H
      BY DEF H, Power
    <3> QED BY <1>1, <1>2, <3>2, <3>3, ValInjective, Zenon
  <2>4. q < H \/ q = H
    BY <1>1, <1>2, <2>1
  <2>5. ToWord(f, x, TRUE) = {value}
    BY <1>10, <2>1, <2>2, <2>3, <2>4, Zenon DEF Words
  <2>6. whole \in Words(WORD)
    <3>1. q < Power(WORD)
      BY <1>1, <1>2, <2>1
    <3> QED BY <1>1, <1>9, <3>1
  <2>7. value \in Words(WORD) /\ Signed(WORD, value) = k
    <3>1. CASE negative
      <4>1. Neg(WORD, whole) \in Words(WORD) /\ Signed(WORD, Neg(WORD, whole)) = -q
        BY <1>1, <1>2, <2>1, <2>6, SignedNeg DEF H, Power
      <4>2. value = Neg(WORD, whole)
        BY <3>1, <4>1, TruncKeeps, Zenon
      <4> QED BY <1>7, <3>1, <4>1, <4>2
    <3>2. CASE ~negative
      <4>1. value = whole
        BY <2>6, <3>2, TruncKeeps, Zenon
      <4>2. q < H
        BY <2>1, <2>4, <3>2
      <4>3. Signed(WORD, whole) = q
        BY <1>1, <1>2, <2>6, <4>2, SmallIsUnsigned DEF H, Power
      <4> QED BY <1>7, <2>6, <3>2, <4>1, <4>3
    <3> QED BY <3>1, <3>2
  <2> QED BY <2>5, <2>7
<1>13. ASSUME k \in 0..(Power(WORD) - 1)
       PROVE  \E w \in Words(WORD) : ToWord(f, x, FALSE) = {w} /\ Val(w) = k
  <2>1. ~negative /\ k = q /\ q < Power(WORD)
    BY <1>1, <1>2, <1>7, <1>13
  <2>2. whole \in Words(WORD)
    BY <1>1, <1>9, <2>1
  <2>3. value = whole
    BY <2>1, <2>2, TruncKeeps, Zenon
  <2>4. ToWord(f, x, FALSE) = {value}
    BY <1>11, <2>1, <2>2, Zenon DEF Words
  <2> QED BY <1>2, <2>1, <2>2, <2>3, <2>4
<1> QED BY <1>12, <1>13, Zenon DEF H, TruncatesTo

\* An integer is rounded to the nearest number.
LEMMA RoundedInteger ==
  ASSUME NEW f, Format(f), NEW n \in Nat, NEW w \in Words(n), NEW negative \in BOOLEAN,
         NEW k \in Int, AbsVal(k) = Val(w), k < 0 => negative, k > 0 => ~negative
  PROVE  IsNearest(f, Rounded(f, [neg |-> negative, pow |-> w]), k * UnitsInOne(f), 1)
<1> DEFINE L == LowestPower(f)
           B == L - 1
           x == [neg |-> negative, pow |-> w]
           Y == UnitsInOne(f)
<1>1. L \in Int /\ L <= -1 /\ Y = Power(-L)
  BY LowestPowerIs
<1>2. /\ -L \in Nat /\ B \in Int /\ B < L /\ B <= 0 /\ L <= n /\ 0 - B = -L + 1 /\ L - B = 1
      /\ n \in Int /\ 0 \in Int /\ 0 <= n
  BY <1>1
<1>3. Y \in Nat \ {0} /\ Power(0 - B) = 2 * Y /\ Power(L - B) = 2
  <2>1. Power(-L) \in Nat \ {0} /\ Power(-L + 1) = 2 * Power(-L)
    BY <1>2, PowersDouble
  <2>2. 0 \in Nat /\ 0 + 1 = 1
    OBVIOUS
  <2>3. Power(1) = 2
    BY <2>2, PowersDouble
  <2> QED BY <1>1, <1>2, <2>1, <2>3
<1> HIDE DEF B, L, Y
<1>4. w \in SUBSET (0..(n - 1)) /\ w \in SUBSET (B..(n - 1)) /\ w \in SUBSET Int
  <2>1. w \in SUBSET (0..(n - 1))
    BY DEF Words, Bits
  <2> QED BY <1>2, <2>1
<1>5. Amount(w, 0) = Val(w) /\ Val(w) \in Nat
  <2>1. \A i \in w : i + (-0) = i
    BY <1>4
  <2>2. Shifted(w, -0) = w
    BY <2>1 DEF Shifted
  <2> QED BY <2>2, ValRange DEF Amount
<1>6. Amount(w, B) = Val(w) * (2 * Y)
  <2>1. Amount(w, B) = Amount(w, 0) * Power(0 - B)
    BY <1>2, <1>4, ChangeOfBase, Zenon
  <2> QED BY <1>3, <1>5, <2>1
<1> DEFINE m == k * Y
<1>7. m \in Int /\ AbsVal(m) = Val(w) * Y /\ (m < 0 => k < 0) /\ (m > 0 => k > 0)
  <2>1. k >= 0 => k * Y >= 0
    BY <1>3
  <2>2. k <= 0 => k * Y <= 0
    <3>1. k <= 0 => (-k) * Y >= 0 /\ (-k) * Y = -(k * Y) /\ k * Y \in Int
      BY <1>3
    <3> QED BY <3>1
  <2>3. k * Y \in Int /\ (-k) * Y = -(k * Y)
    BY <1>3
  <2>4. AbsVal(m) = AbsVal(k) * Y
    <3>1. CASE k >= 0
      BY <2>1, <2>3, <3>1 DEF AbsVal
    <3>2. CASE k < 0
      <4>1. (-k) * Y > 0
        BY <1>3, <3>2
      <4> QED BY <2>3, <3>2, <4>1 DEF AbsVal
    <3> QED BY <3>1, <3>2
  <2> HIDE DEF m
  <2> QED BY <2>1, <2>2, <2>3, <2>4 DEF m
<1>8. Amount(w, B) * 1 = AbsVal(m) * Power(L - B)
  <2> HIDE DEF m
  <2>1. Val(w) * (2 * Y) = (Val(w) * Y) * 2 /\ Val(w) * (2 * Y) \in Int
    BY <1>3, <1>5
  <2> QED BY <1>3, <1>6, <1>7, <2>1
<1> HIDE DEF m
<1>9. x.pow = w /\ x.neg = negative /\ (m < 0 => negative) /\ (m > 0 => ~negative)
  BY <1>7
<1> HIDE DEF x
<1>10. IsNearest(f, Rounded(f, x), m, 1)
  <2>1. 1 \in Nat \ {0} /\ B < LowestPower(f) /\ LowestPower(f) <= n
        /\ Amount(w, B) * 1 = AbsVal(m) * Power(LowestPower(f) - B)
    BY <1>2, <1>8 DEF L
  <2> QED BY <1>2, <1>4, <1>7, <1>9, <2>1, RoundedIsNearest
<1> QED BY <1>10 DEF m, x, Y

\* What has few enough digits is kept.
LEMMA ExactPlace ==
  ASSUME NEW f, Format(f), NEW n \in Nat, n < 2 * Power(f.man), NEW e \in Nat, e < 2^f.exp - 2,
         NEW N, N = n * Power(e), NEW K, NEW E, NEW v, RoundsTo(f, 2 * N, Power(E), K, E, v)
  PROVE  Grid(f, v) = N
<1> DEFINE M == Power(f.man)
           P == Power(E)
           R == Power(e)
           Q == 2^f.exp
<1>1. /\ K \in Nat /\ E \in Nat /\ v \in Nat /\ K < 2 * M /\ (E > 0 => K >= M)
      /\ (2 * K) * P <= 2 * N /\ 2 * N < (2 * K + 2) * P
  BY DEF RoundsTo
<1>2. M \in Nat \ {0} /\ P \in Nat \ {0} /\ R \in Nat \ {0} /\ Q \in Nat
  BY <1>1, FormatWidths, PowersDouble
<1>3. K * P <= N /\ N < (K + 1) * P /\ N \in Nat
  <2>1. N \in Nat
    BY <1>2
  <2>2. (2 * K) * P = 2 * (K * P) /\ (2 * K + 2) * P = 2 * ((K + 1) * P) /\ K * P \in Nat /\ (K + 1) * P \in Nat
    BY <1>1, <1>2
  <2> HIDE DEF P
  <2> QED BY <1>1, <2>1, <2>2
<1>4. CASE E <= e
  <2>1. e - E \in Nat /\ E + (e - E) = e
    BY <1>1, <1>4
  <2> DEFINE T == Power(e - E)
  <2>2. R = P * T /\ T \in Nat \ {0}
    <3>1. T \in Nat \ {0} /\ Power(E + (e - E)) = Power(E) * Power(e - E)
      BY <1>1, <2>1, PowersAdd, PowersDouble, Zenon
    <3> QED BY <2>1, <3>1
  <2> DEFINE m == n * T
  <2> HIDE DEF P, R, T, M, Q
  <2>3. m \in Nat /\ N = m * P
    BY <1>2, <2>2 DEF R
  <2> HIDE DEF m
  <2>4. K <= m /\ m < K + 1
    BY <1>1, <1>2, <1>3, <2>3, TimesKeepsOrder
  <2>5. N = K * P
    BY <1>1, <2>3, <2>4
  <2>6. ~(2 * N >= (2 * K + 1) * P) /\ E < Q - 2
    <3>1. (2 * K + 1) * P = 2 * (K * P) + P /\ K * P \in Nat
      BY <1>1, <1>2
    <3>2. E < Q - 2
      BY <1>1, <1>2, <1>4 DEF Q
    <3> QED BY <1>2, <2>5, <3>1, <3>2
  <2>7. v = K + E * M
    <3>1. ~(E >= Q - 2)
      BY <1>1, <1>2, <2>6
    <3> QED BY <2>6, <3>1 DEF RoundsTo, P, M, Q
  <2>8. Grid(f, K + E * M) = K * P
    <3>1. K <= 2 * M
      BY <1>1, <1>2
    <3> QED BY <1>1, <3>1, GridIs DEF M, P
  <2> QED BY <2>5, <2>7, <2>8
<1>5. CASE e < E
  <2>1. 2 * R <= P
    BY <1>1, <1>5, PowersGrow
  <2>2. K >= M
    BY <1>1, <1>5
  <2> HIDE DEF P, R, M, Q
  <2>3. n * R < (2 * M) * R
    BY <1>2, TimesKeepsOrder DEF M
  <2>4. (2 * R) * M <= P * M /\ M * P <= K * P
    BY <1>1, <1>2, <2>1, <2>2, TimesKeepsOrder
  <2>5. (2 * R) * M = (2 * M) * R /\ P * M = M * P /\ (2 * M) * R \in Int /\ M * P \in Int /\ K * P \in Int
    BY <1>1, <1>2
  <2>6. n * R = N
    BY DEF R
  <2> QED BY <1>3, <2>3, <2>4, <2>5, <2>6
<1> QED BY <1>1, <1>4, <1>5

\* A format with wider fields reaches lower, by as many powers.
LEMMA WiderFormat ==
  ASSUME NEW f, Format(f), NEW g, Format(g), f.exp <= g.exp, f.man <= g.man
  PROVE  /\ 2^(f.exp - 1) \in Nat /\ 2^(g.exp - 1) \in Nat /\ 2^(f.exp - 1) <= 2^(g.exp - 1)
         /\ g.man - f.man \in Nat
         /\ LowestPower(f) - LowestPower(g) = (2^(g.exp - 1) - 2^(f.exp - 1)) + (g.man - f.man)
         /\ LowestPower(g) <= LowestPower(f)
<1> DEFINE F == 2^(f.exp - 1)
           G == 2^(g.exp - 1)
<1>1. f.exp \in 2..16 /\ g.exp \in 2..16 /\ f.man \in Nat /\ g.man \in Nat
  BY DEF Format
<1>2. F \in Nat /\ G \in Nat /\ LowestPower(f) = 2 - F - f.man /\ LowestPower(g) = 2 - G - g.man
  BY LowestPowerIs DEF LowestPower
<1>3. F <= G
  <2>1. f.exp - 1 \in 0..32 /\ g.exp - 1 \in 0..32 /\ f.exp - 1 \in Nat /\ g.exp - 1 \in Nat
        /\ f.exp - 1 <= g.exp - 1
    BY <1>1
  <2>2. Power(f.exp - 1) <= Power(g.exp - 1)
    BY <2>1, PowersGrow
  <2>3. Power(f.exp - 1) = F /\ Power(g.exp - 1) = G
    BY <2>1, PowersDouble
  <2> QED BY <2>2, <2>3
<1> HIDE DEF F, G
<1> QED BY <1>1, <1>2, <1>3 DEF F, G

\* (double)x and (float)x of a NaN is a NaN, and that of a number a number.
LEMMA ConvertedNumber ==
  ASSUME NEW f, Format(f), NEW g, Format(g), NEW x
  PROVE  Number(f, x) <=> Number(g, Converted(f, g, x))
<1> DEFINE r == Converted(f, g, x)
           n == SignAt(g)
<1>1. IsNegative(f, x) \in BOOLEAN /\ n \in Nat /\ g.man \in 0..n /\ g.man \in Nat \ {0} /\ Infinity(g) \in Words(n)
  <2>1. IsNegative(f, x) \in BOOLEAN
    BY DEF IsNegative
  <2>2. n \in Nat /\ g.man \in 0..n /\ g.man \in Nat \ {0}
    BY FormatWidths, Zenon
  <2>3. Infinity(g) \in Words(n)
    BY ClassesOfPlace, Zenon
  <2> QED BY <2>1, <2>2, <2>3
<1>2. CASE IsNaN(f, x)
  <2> DEFINE low == Shifted(Trunc(f.man, x), g.man - f.man) \cap Bits(g.man)
             m == Infinity(g) \cup {g.man - 1} \cup low
  <2>1. r = WithSign(g, IsNegative(f, x), m)
    BY <1>2, Zenon DEF Converted
  <2>2. m \in Words(n)
    <3>1. g.man - 1 \in Bits(n) /\ Bits(g.man) \subseteq Bits(n)
      BY <1>1 DEF Bits
    <3> QED BY <1>1, <3>1 DEF Words
  <2>3. g.man - 1 \in m /\ Infinity(g) \subseteq m
    OBVIOUS
  <2> HIDE DEF m, r
  <2>4. Magnitude(g, r) = m
    BY <1>1, <2>1, <2>2, WithSignIs
  <2>5. g.man - 1 \notin Infinity(g)
    BY <1>1 DEF Infinity
  <2>6. ~IsInf(g, r)
    BY <2>3, <2>4, <2>5 DEF IsInf
  <2>7. Infinity(g) \subseteq r
    BY <2>1, <2>3 DEF WithSign
  <2> QED BY <1>2, <2>6, <2>7 DEF IsNaN, Number, r
<1>3. CASE ~IsNaN(f, x) /\ IsInf(f, x)
  <2>1. r = WithSign(g, IsNegative(f, x), Infinity(g))
    BY <1>3, Zenon DEF Converted
  <2> HIDE DEF r
  <2>2. Magnitude(g, r) = Infinity(g)
    BY <1>1, <2>1, WithSignIs
  <2> QED BY <1>3, <2>2 DEF IsNaN, IsInf, Number, r
<1>4. CASE ~IsNaN(f, x) /\ ~IsInf(f, x)
  <2> DEFINE y == Exact(f, x)
             p == y.pow
             L == LowestPower(f)
             B == LowestPower(f) + LowestPower(g) - 1
             C == 2 + 2^(f.exp - 1)
             s == IsNegative(f, x)
  <2>1. r = Rounded(g, y)
    BY <1>4, Zenon DEF Converted
  <2>2. L \in Int /\ C \in Int /\ C >= 4 /\ L < 0 /\ p \in SUBSET (L..(C - 1)) /\ y.neg = s
    BY PowersOfExact
  <2>3. LowestPower(g) \in Int /\ LowestPower(g) <= -1 /\ Top(g) \in Nat /\ Place(g, r) \in Nat
    BY LowestPowerIs, ClassesOfPlace, FieldsOfPlace
  <2> HIDE DEF y, r, C
  <2>4. B \in Int /\ B < LowestPower(g) /\ LowestPower(g) <= C /\ p \in SUBSET (B..(C - 1))
    BY <2>2, <2>3
  <2> HIDE DEF B, p, s
  <2>5. Place(g, r) <= Top(g)
    <3>1. CASE p = {}
      <4>1. y.neg \in BOOLEAN /\ y.pow = {}
        BY <1>1, <2>2, <3>1 DEF p, s
      <4>2. Place(g, Rounded(g, y)) = 0
        BY <4>1, RoundedZero
      <4> QED BY <2>1, <2>3, <4>2
    <3>2. CASE p # {}
      <4>1. s \in BOOLEAN /\ y.neg = s /\ y.pow = p
        BY <1>1, <2>2 DEF p, s
      <4>2. Place(g, Rounded(g, y)) <= Top(g)
        BY <2>2, <2>4, <3>2, <4>1, RoundedPattern
      <4> QED BY <2>1, <4>2
    <3> QED BY <3>1, <3>2
  <2>6. ~IsNaN(g, r)
    BY <2>3, <2>5, ClassesOfPlace
  <2> QED BY <1>4, <2>6 DEF Number, r
<1> QED BY <1>2, <1>3, <1>4

\* Narrowing a finite number gives the value nearest to it.
LEMMA NarrowIsNearest ==
  ASSUME NEW f, Format(f), NEW g, Format(g), LowestPower(f) <= LowestPower(g), NEW x, Finite(f, x),
         NEW d, d = Power(LowestPower(g) - LowestPower(f))
  PROVE  IsNearest(g, Converted(f, g, x), Units(f, x), d)
<1> DEFINE y == Exact(f, x)
           p == y.pow
           s == IsNegative(f, x)
           L == LowestPower(f)
           H == LowestPower(g)
           B == L - 1
           C == 2 + 2^(f.exp - 1)
           u == Units(f, x)
<1>1. Converted(f, g, x) = Rounded(g, y)
  BY FiniteIs, Zenon DEF Converted
<1>2. /\ L \in Int /\ C \in Int /\ C >= 4 /\ L < 0 /\ L <= C /\ p \in SUBSET (L..(C - 1))
      /\ y.neg = s /\ s \in BOOLEAN /\ Amount(p, L) = AbsVal(u)
  BY PowersOfExact
<1>3. H \in Int /\ H <= -1 /\ u \in Int /\ AbsVal(u) \in Nat /\ (u < 0 => s) /\ (u > 0 => ~s)
  BY LowestPowerIs, UnitsSign
<1>4. d \in Nat \ {0} /\ Power(H - B) = 2 * d
  <2>1. H - L \in Nat /\ (H - L) + 1 = H - B
    BY <1>2, <1>3
  <2>2. Power(H - L) \in Nat \ {0} /\ Power((H - L) + 1) = 2 * Power(H - L)
    BY <2>1, PowersDouble, Zenon
  <2> QED BY <2>1, <2>2
<1>5. Power(1) = 2
  <2>1. Power(0) = 1 /\ Power(0 + 1) = 2 * Power(0)
    <3>1. 0 \in Nat
      OBVIOUS
    <3> QED BY <3>1, PowersDouble, Zenon
  <2> QED BY <2>1
<1> HIDE DEF y, s, C, L, H, u
<1>6. B \in Int /\ B <= L /\ B < H /\ H <= C /\ L - B = 1 /\ p \in SUBSET (B..(C - 1))
  BY <1>2, <1>3 DEF L, H
<1>7. Amount(p, B) = Amount(p, L) * Power(L - B)
  <2> HIDE DEF p, B
  <2> QED BY <1>2, <1>6, ChangeOfBase, Zenon
<1>8. Amount(p, B) * d = AbsVal(u) * Power(H - B)
  <2> HIDE DEF p, B
  <2>1. Amount(p, B) = AbsVal(u) * 2
    BY <1>2, <1>5, <1>6, <1>7
  <2>2. AbsVal(u) * 2 * d = AbsVal(u) * (2 * d)
    BY <1>3, <1>4
  <2> QED BY <1>4, <2>1, <2>2
<1> HIDE DEF B
<1>9. IsNearest(g, Rounded(g, y), u, d)
  <2>1. B < LowestPower(g) /\ LowestPower(g) <= C /\ Amount(p, B) * d = AbsVal(u) * Power(LowestPower(g) - B)
    BY <1>6, <1>8 DEF H
  <2> QED BY <1>2, <1>3, <1>4, <1>6, <2>1, RoundedIsNearest
<1> QED BY <1>1, <1>9 DEF u

\* Widening keeps the value, which the wider format counts in its own units.
LEMMA WidenedIsExact ==
  ASSUME NEW f, Format(f), NEW g, Format(g), f.exp <= g.exp, f.man <= g.man, NEW x, Finite(f, x)
  PROVE  LET r == Converted(f, g, x)
         IN r \in Numbers(g) /\ Units(g, r) = Units(f, x) * Power(LowestPower(f) - LowestPower(g))
<1> DEFINE y == Exact(f, x)
           p == y.pow
           s == IsNegative(f, x)
           L == LowestPower(f)
           H == LowestPower(g)
           B == H - 1
           C == 2 + 2^(f.exp - 1)
           u == Units(f, x)
           r == Converted(f, g, x)
           D == Power(L - H)
<1>1. r = Rounded(g, y)
  BY FiniteIs, Zenon DEF Converted
<1>2. /\ L \in Int /\ C \in Int /\ C >= 4 /\ L < 0 /\ L <= C /\ p \in SUBSET (L..(C - 1))
      /\ y.neg = s /\ s \in BOOLEAN /\ Amount(p, L) = AbsVal(u)
  BY PowersOfExact
<1>3. H \in Int /\ H <= L /\ L - H \in Nat /\ D \in Nat \ {0} /\ Power((L - H) + 1) = 2 * D
  <2>1. H \in Int /\ H <= L
    BY LowestPowerIs, WiderFormat
  <2>2. L - H \in Nat
    BY <1>2, <2>1
  <2> QED BY <2>1, <2>2, PowersDouble, Zenon
<1>4. u \in Int /\ AbsVal(u) \in Nat /\ AbsVal(u) = Grid(f, Place(f, x)) /\ (u = 0 <=> Place(f, x) = 0)
      /\ u = IF s THEN -Grid(f, Place(f, x)) ELSE Grid(f, Place(f, x))
  BY UnitsSign, UnitsOfPlace
<1>5. AbsVal(u) * D \in Nat
  BY <1>3, <1>4
<1>6. r \in Words(Width(g)) /\ IsNegative(g, r) = s /\ Place(g, r) <= Top(g) /\ Grid(g, Place(g, r)) = AbsVal(u) * D
  <2>1. CASE p = {}
    <3>1. y.neg \in BOOLEAN /\ y.pow = {}
      BY <1>2, <2>1
    <3>2. r \in Words(Width(g)) /\ IsNegative(g, r) = y.neg /\ Place(g, r) = 0
      BY <1>1, <3>1, RoundedZero
    <3>3. AbsVal(u) = 0
      <4>1. Amount(p, L) = 0
        <5> HIDE DEF p, L, C
        <5> QED BY <1>2, <2>1, AmountIs
      <4> QED BY <1>2, <4>1
    <3>4. Top(g) \in Nat /\ 0 \in Nat
      BY ClassesOfPlace
    <3>5. Grid(g, 0) = 0
      BY <3>4, GridGrows, Zenon
    <3> QED BY <1>2, <1>3, <3>2, <3>3, <3>4, <3>5
  <2>2. CASE p # {}
    <3>1. B \in Int /\ B < H /\ H <= C /\ B <= L /\ L - B = (L - H) + 1 /\ p \in SUBSET (B..(C - 1))
      BY <1>2, <1>3
    <3> HIDE DEF s, C, r, y
    <3>2. y.neg = s /\ y.pow = p /\ LowestPower(g) = H
      BY <1>2
    <3>3. /\ Rounded(g, y) \in Words(Width(g)) /\ IsNegative(g, Rounded(g, y)) = s /\ Place(g, Rounded(g, y)) <= Top(g)
          /\ \E K \in Nat, E \in Nat :
               /\ E + H - B - 1 \in Nat
               /\ RoundsTo(g, Amount(p, B), Power(E + H - B - 1), K, E, Place(g, Rounded(g, y)))
      <4> HIDE DEF p, B
      <4>1. B < LowestPower(g) /\ LowestPower(g) <= C
        BY <3>1
      <4> QED BY <1>2, <2>2, <3>1, <3>2, <4>1, RoundedPattern
    <3>4. PICK K \in Nat, E \in Nat : RoundsTo(g, Amount(p, B), Power(E + H - B - 1), K, E, Place(g, r))
      BY <1>1, <3>3
    <3>5. E + H - B - 1 = E
      BY <1>3
    <3>6. Amount(p, B) = 2 * (AbsVal(u) * D)
      <4>1. Amount(p, B) = Amount(p, L) * Power(L - B)
        <5> HIDE DEF p, B, L
        <5> QED BY <1>2, <3>1, ChangeOfBase, Zenon
      <4>2. AbsVal(u) * (2 * D) = 2 * (AbsVal(u) * D)
        <5> HIDE DEF D
        <5> QED BY <1>3, <1>4
      <4> QED BY <1>2, <1>3, <3>1, <4>1, <4>2
    <3> DEFINE M == Power(f.man)
               F == 2^(f.exp - 1)
               G == 2^(g.exp - 1)
               k == g.man - f.man
    <3>7. /\ F \in Nat /\ G \in Nat /\ F <= G /\ k \in Nat /\ L - H = (G - F) + k
          /\ 2^f.exp = 2 * F /\ 2^g.exp = 2 * G /\ M \in Nat \ {0} /\ F >= 2
          /\ Power(f.exp) = 2^f.exp /\ Place(f, x) \in Nat /\ Place(f, x) < (Power(f.exp) - 1) * M
      <4>1. F \in Nat /\ G \in Nat /\ F <= G /\ k \in Nat /\ L - H = (G - F) + k
        BY WiderFormat
      <4>2. 2^f.exp = 2 * F /\ 2^g.exp = 2 * G /\ F >= 2
        BY LowestPowerIs
      <4>3. M \in Nat \ {0} /\ Power(f.exp) = 2^f.exp /\ Place(f, x) \in Nat
        BY FormatWidths, FieldsOfPlace
      <4>4. Place(f, x) < (Power(f.exp) - 1) * M
        <5>1. Place(f, x) < Top(f) /\ Top(f) = (Power(f.exp) - 1) * M
          BY FiniteIs, ClassesOfPlace
        <5> QED BY <5>1
      <4> QED BY <4>1, <4>2, <4>3, <4>4
    <3>8. PICK e \in Nat, n \in Nat : /\ Place(f, x) = n + e * M /\ n < 2 * M /\ (e > 0 => n >= M)
                                      /\ Grid(f, Place(f, x)) = n * Power(e)
      BY <3>7, GridPlace
    <3>9. e < 2 * F - 2
      <4> HIDE DEF M, F
      <4>1. CASE e = 0
        BY <3>7, <4>1
      <4>2. CASE e > 0
        <5>1. (e + 1) * M = M + e * M /\ e * M \in Int /\ 2 * F - 1 \in Int /\ e + 1 \in Int
          BY <3>7
        <5>2. (e + 1) * M < (2 * F - 1) * M
          BY <3>7, <3>8, <4>2, <5>1
        <5>3. e + 1 < 2 * F - 1
          BY <3>7, <5>1, <5>2, TimesKeepsOrder
        <5> QED BY <3>7, <5>3
      <4> QED BY <4>1, <4>2
    <3> DEFINE j == G - F
               c == n * Power(k)
               h == e + j
    <3>10. h \in Nat /\ h < 2^g.exp - 2 /\ j \in Nat
      <4> HIDE DEF F, G
      <4> QED BY <3>7, <3>9
    <3>11. c \in Nat /\ c < 2 * Power(g.man)
      <4>1. Power(f.man + k) = M * Power(k) /\ Power(k) \in Nat \ {0} /\ f.man + k = g.man /\ f.man \in Nat
        <5>1. f.man \in Nat /\ g.man \in Nat
          BY FormatWidths
        <5>2. f.man + k = g.man
          BY <5>1
        <5> HIDE DEF k
        <5> QED BY <3>7, <5>1, <5>2, PowersAdd, PowersDouble
      <4> DEFINE W == Power(k)
      <4> HIDE DEF M, W
      <4>2. n * W < (2 * M) * W
        <5>1. n \in Int /\ 2 * M \in Int /\ n < 2 * M /\ W \in Nat \ {0}
          BY <3>7, <3>8, <4>1 DEF W
        <5> QED BY <5>1, TimesKeepsOrder, Zenon
      <4>3. (2 * M) * W = 2 * (M * W) /\ n * W \in Nat
        BY <3>7, <4>1 DEF W
      <4> QED BY <4>1, <4>2, <4>3 DEF W
    <3>12. AbsVal(u) * D = c * Power(h)
      <4>1. D = Power(j) * Power(k) /\ Power(j) \in Nat /\ Power(k) \in Nat
        <5>1. Power(j + k) = Power(j) * Power(k) /\ Power(j) \in Nat \ {0}
          BY <3>7, <3>10, PowersAdd, Zenon
        <5>2. Power(k) \in Nat
          BY <3>7, PowersDouble
        <5>3. L - H = j + k
          BY <3>7
        <5> HIDE DEF j, k, L, H
        <5> QED BY <5>1, <5>2, <5>3
      <4>2. Power(h) = Power(e) * Power(j) /\ Power(e) \in Nat
        <5> HIDE DEF j
        <5> QED BY <3>8, <3>10, PowersAdd
      <4> DEFINE X == Power(j)
                 Y == Power(k)
                 Z == Power(e)
      <4> HIDE DEF X, Y, Z
      <4>3. (n * Z) * (X * Y) = (n * Y) * (Z * X)
        BY <4>1, <4>2 DEF X, Y, Z
      <4> QED BY <1>4, <3>8, <4>1, <4>2, <4>3 DEF X, Y, Z
    <3> DEFINE N == AbsVal(u) * D
    <3>13. Grid(g, Place(g, r)) = N
      <4>1. RoundsTo(g, 2 * N, Power(E), K, E, Place(g, r))
        BY <3>4, <3>5, <3>6
      <4> HIDE DEF N, c, h
      <4>2. N = c * Power(h)
        BY <3>12 DEF N
      <4> QED BY <3>10, <3>11, <4>1, <4>2, ExactPlace
    <3> QED BY <1>1, <3>3, <3>13
  <2> QED BY <2>1, <2>2
<1>7. Units(g, r) = u * D
  <2>1. Units(g, r) = IF s THEN -(AbsVal(u) * D) ELSE AbsVal(u) * D
    BY <1>6, UnitsOfPlace
  <2>2. u = IF s THEN -AbsVal(u) ELSE AbsVal(u)
    BY <1>4
  <2>3. (-AbsVal(u)) * D = -(AbsVal(u) * D)
    BY <1>3, <1>4
  <2> HIDE DEF u, D, s, r
  <2> QED BY <2>1, <2>2, <2>3
<1>8. r \in Numbers(g)
  <2>1. Place(g, r) \in Nat /\ Top(g) \in Nat
    BY FieldsOfPlace, ClassesOfPlace
  <2>2. ~IsNaN(g, r)
    BY <1>6, <2>1, ClassesOfPlace
  <2> QED BY <1>6, <2>2 DEF Numbers, Number
<1> QED BY <1>7, <1>8

-----------------------------------------------------------------------------
(* Sums and products of exact numbers *)

\* Base and Length are the place and the width of a word that holds the powers.
LEMMA NormalWord ==
  ASSUME NEW B \in Int, NEW C \in Int, B <= 0, 0 <= C, NEW p \in SUBSET (B..(C - 1))
  PROVE  /\ Base(p) \in Int /\ Length(p) \in Nat /\ B <= Base(p) /\ Base(p) + Length(p) <= C
         /\ p \in SUBSET (Base(p)..(Base(p) + Length(p) - 1))
         /\ -Base(p) \in Int /\ Shifted(p, -Base(p)) \in Words(Length(p))
<1>1. /\ Base(p) \in Int /\ Length(p) \in Nat /\ B <= Base(p) /\ Base(p) + Length(p) <= C
      /\ p \in SUBSET (Base(p)..(Base(p) + Length(p) - 1))
  <2>1. CASE p = {}
    BY <2>1 DEF Base, Length
  <2>2. CASE p # {}
    <3> DEFINE i == Min(p)
               j == Max(p)
    <3>1. j \in p /\ i \in p /\ (\A k \in p : k <= j) /\ (\A k \in p : i <= k) /\ i \in Int /\ j \in Int /\ i <= j
      BY <2>2, Extrema
    <3>2. Base(p) = i /\ Length(p) = j - i + 1
      BY <2>2 DEF Base, Length
    <3> HIDE DEF i, j
    <3>3. \A k \in p : k \in i..j
      BY <3>1
    <3>4. p \in SUBSET (i..(i + (j - i + 1) - 1))
      BY <3>1, <3>3
    <3> QED BY <3>1, <3>2, <3>4
  <2> QED BY <2>1, <2>2
<1> DEFINE i == Base(p)
           n == Length(p)
<1> HIDE DEF i, n
<1>2. i \in Int /\ n \in Nat /\ p \in SUBSET (i..((i + n) - 1)) /\ i <= i + n /\ i + n \in Int /\ (i + n) - i = n /\ -i \in Int
  BY <1>1 DEF i, n
<1>3. Shifted(p, -i) \in Words((i + n) - i)
  BY <1>2, AmountIs
<1> QED BY <1>1, <1>2, <1>3 DEF i, n

\* A word put at place k holds powers from k on.
LEMMA PlacedWord ==
  ASSUME NEW n \in Nat, NEW w \in Words(n), NEW k \in Int, NEW B \in Int, B <= k
  PROVE  /\ Shifted(w, k) \in SUBSET (k..(k + n - 1))
         /\ Amount(Shifted(w, k), B) = Val(w) * Power(k - B)
         /\ \A i \in Int : i \in Shifted(w, k) <=> i - k \in w
<1> DEFINE p == Shifted(w, k)
<1>1. w \in SUBSET Int /\ w \subseteq 0..(n - 1)
  BY DEF Words, Bits
<1>2. p \in SUBSET (k..(k + n - 1)) /\ p \in SUBSET (k..((k + n) - 1)) /\ k <= k + n /\ k + n \in Int
  BY <1>1 DEF Shifted
<1>3. k + (-k) = 0 /\ -k \in Int /\ Shifted(w, 0) = w
  <2>1. \A i \in w : i + 0 = i
    BY <1>1
  <2> QED BY <2>1 DEF Shifted
<1>4. Shifted(p, -k) = w
  BY <1>1, <1>3, ShiftedTwice
<1>5. Amount(p, k) = Val(w)
  BY <1>4 DEF Amount
<1> HIDE DEF p
<1>6. Amount(p, B) = Amount(p, k) * Power(k - B)
  BY <1>2, ChangeOfBase, Zenon
<1>7. \A i \in Int : i \in p <=> i - k \in w
  <2> TAKE i \in Int
  <2>1. i - k \in Int /\ (i - k) + k = i
    OBVIOUS
  <2>2. i - k \in Shifted(p, -k) <=> (i - k) + k \in p
    BY <1>2, <2>1, AmountIs
  <2> QED BY <1>4, <2>1, <2>2
<1> QED BY <1>2, <1>5, <1>6, <1>7 DEF p

\* The magnitude of the exact number z is k units of 2^B, with powers below C.
MagnitudeIs(z, B, C, k) == z.pow \in SUBSET (B..(C - 1)) /\ Amount(z.pow, B) = k

\* Times multiplies, whatever the bases.
LEMMA TimesIs ==
  ASSUME NEW B \in Int, NEW C \in Int, B <= 0, 0 <= C, NEW D \in Int, NEW E \in Int, D <= 0, 0 <= E,
         NEW x, NEW p \in SUBSET (B..(C - 1)), x.pow = p, NEW y, NEW q \in SUBSET (D..(E - 1)), y.pow = q
  PROVE  MagnitudeIs(Times(x, y), B + D, C + E, Amount(p, B) * Amount(q, D))
<1> DEFINE i == Base(p)
           j == Base(q)
           m == Length(p)
           n == Length(q)
           v == Shifted(p, -i)
           w == Shifted(q, -j)
           z == Mul(m + n, v, w)
<1>1. /\ i \in Int /\ m \in Nat /\ B <= i /\ i + m <= C /\ p \in SUBSET (i..(i + m - 1)) /\ -i \in Int
      /\ v \in Words(m)
  BY NormalWord
<1>2. /\ j \in Int /\ n \in Nat /\ D <= j /\ j + n <= E /\ q \in SUBSET (j..(j + n - 1)) /\ -j \in Int
      /\ w \in Words(n)
  BY NormalWord
<1>3. Times(x, y).pow = Shifted(z, i + j)
  BY DEF Times
<1>4. Amount(p, B) = Val(v) * Power(i - B) /\ Amount(q, D) = Val(w) * Power(j - D)
  <2> HIDE DEF i, j, m, n
  <2>1. i + m \in Int /\ i <= i + m /\ p \in SUBSET (i..((i + m) - 1)) /\ j + n \in Int /\ j <= j + n
        /\ q \in SUBSET (j..((j + n) - 1))
    BY <1>1, <1>2
  <2>2. Amount(p, B) = Amount(p, i) * Power(i - B)
    BY <1>1, <2>1, ChangeOfBase, Zenon
  <2>3. Amount(q, D) = Amount(q, j) * Power(j - D)
    BY <1>2, <2>1, ChangeOfBase, Zenon
  <2> QED BY <2>2, <2>3 DEF Amount
<1> HIDE DEF i, j, m, n, v, w
<1>5. v \in Words(m + n) /\ w \in Words(m + n) /\ m + n \in Nat
  <2>1. Bits(m) \subseteq Bits(m + n) /\ Bits(n) \subseteq Bits(m + n)
    BY <1>1, <1>2 DEF Bits
  <2> QED BY <1>1, <1>2, <2>1 DEF Words
<1>6. z \in Words(m + n) /\ Val(z) = Val(v) * Val(w)
  <2>1. PICK t \in Nat : Val(v) * Val(w) = Val(z) + Val({m + n}) * t
    BY <1>5, ValMul
  <2>2. z \in Words(m + n)
    BY <1>5, ValMul
  <2> HIDE DEF z
  <2>3. /\ Val(v) \in Nat /\ Val(v) < Power(m) /\ Val(w) \in Nat /\ Val(w) < Power(n) /\ Val(z) \in Nat
        /\ Power(m) \in Nat \ {0} /\ Power(n) \in Nat \ {0} /\ Power(m + n) = Power(m) * Power(n)
    BY <1>1, <1>2, <1>5, <2>2, ValRange, PowersDouble, PowersAdd DEF Power
  <2> DEFINE X == Val(v)
             Y == Val(w)
             P == Power(m)
             Q == Power(n)
             R == Power(m + n)
  <2>4. X * Y = Val(z) + R * t /\ X \in Nat /\ Y \in Nat /\ P \in Nat \ {0} /\ Q \in Nat \ {0} /\ R = P * Q
        /\ X < P /\ Y < Q /\ Val(z) \in Nat
    BY <2>1, <2>3 DEF Power
  <2> HIDE DEF X, Y, P, Q, R
  <2>5. X * Y <= P * Y /\ P * Y < P * Q
    <3>1. Y = 0 => X * Y <= P * Y
      BY <2>4
    <3>2. Y > 0 => X * Y <= P * Y
      <4>1. Y > 0 => Y \in Nat \ {0}
        BY <2>4
      <4> QED BY <2>4, <4>1, TimesKeepsOrder
    <3>3. Y * P < Q * P
      BY <2>4, TimesKeepsOrder
    <3>4. Y * P = P * Y /\ Q * P = P * Q
      BY <2>4
    <3> QED BY <2>4, <3>1, <3>2, <3>3, <3>4
  <2>6. R \in Nat \ {0} /\ X * Y \in Nat /\ X * Y < R
    BY <2>4, <2>5
  <2>7. t = 0
    <3>1. t >= 1 => R * t >= R
      BY <2>6
    <3> QED BY <2>4, <2>6, <3>1
  <2> QED BY <2>2, <2>4, <2>7 DEF X, Y
<1> HIDE DEF z
<1>7. i + j \in Int /\ B + D \in Int /\ B + D <= i + j
  BY <1>1, <1>2
<1>8. /\ Shifted(z, i + j) \in SUBSET ((i + j)..(i + j + (m + n) - 1))
      /\ Amount(Shifted(z, i + j), B + D) = Val(z) * Power((i + j) - (B + D))
  BY <1>5, <1>6, <1>7, PlacedWord
<1>9. Power((i + j) - (B + D)) = Power(i - B) * Power(j - D) /\ Power(i - B) \in Nat /\ Power(j - D) \in Nat
  <2>1. i - B \in Nat /\ j - D \in Nat /\ (i + j) - (B + D) = (i - B) + (j - D)
    BY <1>1, <1>2
  <2> QED BY <2>1, PowersAdd
<1>10. Val(z) * Power((i + j) - (B + D)) = Amount(p, B) * Amount(q, D)
  <2> DEFINE X == Val(v)
             Y == Val(w)
             P == Power(i - B)
             Q == Power(j - D)
  <2>1. X \in Nat /\ Y \in Nat
    BY <1>5, ValRange
  <2> HIDE DEF X, Y, P, Q
  <2>2. (X * Y) * (P * Q) = (X * P) * (Y * Q)
    BY <1>9, <2>1 DEF P, Q
  <2> QED BY <1>4, <1>6, <1>9, <2>2 DEF X, Y, P, Q
<1>11. (i + j)..(i + j + (m + n) - 1) \subseteq (B + D)..((C + E) - 1)
  BY <1>1, <1>2
<1> QED BY <1>3, <1>8, <1>10, <1>11 DEF MagnitudeIs

\* The words x and y of n bits add up to that of k.
AddUpTo(n, x, y, k) ==
  /\ k \in Int /\ n \in Nat \ {0} /\ Abs(n, Add(n, x, y)) \in Words(n)
  /\ Val(Abs(n, Add(n, x, y))) = AbsVal(k)
  /\ Negative(n, Add(n, x, y)) <=> k < 0
  /\ Add(n, x, y) = {} <=> k = 0

\* The words of two signed numbers, two bits wider than their magnitudes, do.
LEMMA SumOfSigned ==
  ASSUME NEW m \in Nat, NEW u \in Words(m), NEW v \in Words(m), NEW s \in BOOLEAN, NEW t \in BOOLEAN,
         NEW n, n = m + 2, NEW x, x = (IF s THEN Neg(n, u) ELSE u), NEW y, y = (IF t THEN Neg(n, v) ELSE v),
         NEW k, k = (IF s THEN -Val(u) ELSE Val(u)) + (IF t THEN -Val(v) ELSE Val(v))
  PROVE  AddUpTo(n, x, y, k)
<1> DEFINE M == Val({n})
           H == Val({n - 1})
           Q == Power(m)
           sum == Add(n, x, y)
           i == IF s THEN -Val(u) ELSE Val(u)
           j == IF t THEN -Val(v) ELSE Val(v)
<1>1. n \in Nat \ {0} /\ n \in Nat /\ n - 1 \in Nat
  OBVIOUS
<1>2. Q \in Nat \ {0} /\ H = 2 * Q
  <2>1. n - 1 = m + 1
    OBVIOUS
  <2>2. Power(m + 1) = 2 * Power(m) /\ Power(m) \in Nat \ {0}
    BY PowersDouble
  <2> QED BY <2>1, <2>2 DEF Power
<1>3. Val(u) \in Nat /\ Val(u) < Q /\ Val(v) \in Nat /\ Val(v) < Q /\ u \in Words(n) /\ v \in Words(n)
  <2>1. Val(u) \in Nat /\ Val(u) < Val({m}) /\ Val(v) \in Nat /\ Val(v) < Val({m})
    BY ValRange
  <2>2. Bits(m) \subseteq Bits(n)
    BY DEF Bits
  <2> QED BY <2>1, <2>2 DEF Power, Words
<1>4. x \in Words(n) /\ Signed(n, x) = i
  <2>1. CASE s
    <3>1. Val(u) <= H
      BY <1>2, <1>3
    <3>2. Neg(n, u) \in Words(n) /\ Signed(n, Neg(n, u)) = -Val(u)
      BY <1>1, <1>3, <3>1, SignedNeg
    <3> QED BY <2>1, <3>2
  <2>2. CASE ~s
    <3>1. Val(u) < H
      BY <1>2, <1>3
    <3>2. Signed(n, u) = Val(u)
      BY <1>1, <1>3, <3>1, SmallIsUnsigned
    <3> QED BY <1>3, <2>2, <3>2
  <2> QED BY <2>1, <2>2
<1>5. y \in Words(n) /\ Signed(n, y) = j
  <2>1. CASE t
    <3>1. Val(v) <= H
      BY <1>2, <1>3
    <3>2. Neg(n, v) \in Words(n) /\ Signed(n, Neg(n, v)) = -Val(v)
      BY <1>1, <1>3, <3>1, SignedNeg
    <3> QED BY <2>1, <3>2
  <2>2. CASE ~t
    <3>1. Val(v) < H
      BY <1>2, <1>3
    <3>2. Signed(n, v) = Val(v)
      BY <1>1, <1>3, <3>1, SmallIsUnsigned
    <3> QED BY <1>3, <2>2, <3>2
  <2> QED BY <2>1, <2>2
<1>6. i \in Int /\ j \in Int /\ k = i + j /\ k \in Int /\ k >= -H /\ k < H
  BY <1>2, <1>3
<1> HIDE DEF i, j, Q, H
<1>7. sum \in Words(n)
  BY <1>1, <1>4, <1>5, AddIsWord
<1>8. M \in Int /\ Val(x) \in Int /\ Val(y) \in Int /\ Val(sum) \in Int
  <2>1. \A z \in Words(n) : Val(z) \in Nat
    BY <1>1, ValRange
  <2>2. M \in Nat
    BY <1>1, PowerIsNat
  <2> HIDE DEF M, sum
  <2> QED BY <1>4, <1>5, <1>7, <2>1, <2>2
<1>9. Same(M, Val(sum), k)
  <2>1. Same(M, Val(sum), Val(x) + Val(y)) /\ Same(M, i, Val(x)) /\ Same(M, j, Val(y))
    BY <1>1, <1>4, <1>5, WordsAreModular
  <2> HIDE DEF sum, M
  <2>2. Same(M, i + j, Val(x) + Val(y))
    BY <1>6, <1>8, <2>1, SameArithmetic
  <2>3. Val(x) + Val(y) \in Int
    BY <1>8
  <2>4. Same(M, Val(x) + Val(y), i + j)
    BY <1>6, <1>8, <2>2, <2>3, SameIsEquivalence
  <2>5. Same(M, Val(sum), i + j)
    BY <1>6, <1>8, <2>1, <2>3, <2>4, SameIsEquivalence
  <2> QED BY <1>6, <2>5
<1> HIDE DEF sum
<1>10. Signed(n, sum) = k
  BY <1>1, <1>6, <1>7, <1>9, WordIsTheNumber DEF H
<1>11. /\ Negative(n, sum) <=> k < 0
       /\ Signed(n, sum) = Val(sum) - IF Negative(n, sum) THEN 2 * Val({n - 1}) ELSE 0
       /\ Val(sum) \in Nat
  BY <1>1, <1>7, <1>10, SignedRange
<1>12. sum = {} <=> k = 0
  <2>1. sum = {} <=> Val(sum) = 0
    <3>1. {} \in Words(n)
      BY ZeroIsWord
    <3> QED BY <1>1, <1>7, <3>1, ZeroIsZero, ValInjective, Zenon
  <2>2. k = 0 => Val(sum) = 0
    BY <1>10, <1>11
  <2>3. sum = {} => ~Negative(n, sum)
    BY DEF Negative
  <2>4. Val(sum) = 0 /\ ~Negative(n, sum) => k = 0
    BY <1>10, <1>11
  <2> QED BY <2>1, <2>2, <2>3, <2>4
<1>13. Abs(n, sum) \in Words(n) /\ Val(Abs(n, sum)) = AbsVal(k)
  <2>1. /\ Abs(n, sum) \in Words(n)
        /\ Val(Abs(n, sum)) = IF Negative(n, sum) THEN -Signed(n, sum) ELSE Signed(n, sum)
    BY <1>1, <1>7, AbsIsMagnitude
  <2> QED BY <1>10, <1>11, <2>1 DEF AbsVal
<1> QED BY <1>1, <1>6, <1>11, <1>12, <1>13, Zenon DEF sum, AddUpTo

\* The exact number z is k units of 2^B, with powers below C.
SumIs(z, B, C, k) ==
  /\ z.pow \in SUBSET (B..(C - 1))
  /\ k \in Int
  /\ Amount(z.pow, B) = AbsVal(k)
  /\ z.neg \in BOOLEAN
  /\ k < 0 => z.neg
  /\ k > 0 => ~z.neg

\* Plus adds the signed numbers.
LEMMA PlusIs ==
  ASSUME NEW B \in Int, NEW C \in Int, B <= 0, 0 <= C,
         NEW x, NEW s \in BOOLEAN, x.neg = s, NEW p \in SUBSET (B..(C - 1)), x.pow = p,
         NEW y, NEW t \in BOOLEAN, y.neg = t, NEW q \in SUBSET (B..(C - 1)), y.pow = q,
         NEW i, i = (IF s THEN -Amount(p, B) ELSE Amount(p, B)),
         NEW j, j = (IF t THEN -Amount(q, B) ELSE Amount(q, B))
  PROVE  SumIs(Plus(x, y), B, C + 2, i + j)
<1> DEFINE both == p \cup q
           d == Base(both)
           m == Length(both)
           n == m + 2
           u == Shifted(p, -d)
           v == Shifted(q, -d)
           X == IF s THEN Neg(n, u) ELSE u
           Y == IF t THEN Neg(n, v) ELSE v
           sum == Add(n, X, Y)
           w == Abs(n, sum)
           D == Power(d - B)
<1>1. /\ Plus(x, y).pow = Shifted(w, d)
      /\ Plus(x, y).neg = IF sum = {} THEN s /\ t ELSE Negative(n, sum)
  BY DEF Plus
<1>2. both \in SUBSET (B..(C - 1))
  OBVIOUS
<1>3. d \in Int /\ m \in Nat /\ B <= d /\ d + m <= C /\ both \in SUBSET (d..(d + m - 1)) /\ -d \in Int
  <2> HIDE DEF both
  <2> QED BY <1>2, NormalWord
<1> HIDE DEF d, m
<1>4. p \in SUBSET (d..((d + m) - 1)) /\ q \in SUBSET (d..((d + m) - 1)) /\ d <= d + m /\ d + m \in Int /\ (d + m) - d = m
  BY <1>3
<1>5. /\ u \in Words(m) /\ v \in Words(m)
      /\ Amount(p, B) = Val(u) * D /\ Amount(q, B) = Val(v) * D
  <2>1. u \in Words((d + m) - d) /\ v \in Words((d + m) - d)
    BY <1>3, <1>4, AmountIs
  <2>2. Amount(p, B) = Amount(p, d) * Power(d - B)
    BY <1>3, <1>4, ChangeOfBase, Zenon
  <2>3. Amount(q, B) = Amount(q, d) * Power(d - B)
    BY <1>3, <1>4, ChangeOfBase, Zenon
  <2> QED BY <1>4, <2>1, <2>2, <2>3 DEF Amount
<1> DEFINE g == IF s THEN -Val(u) ELSE Val(u)
           h == IF t THEN -Val(v) ELSE Val(v)
           k == g + h
<1>6. D \in Nat \ {0} /\ Val(u) \in Nat /\ Val(v) \in Nat
  <2>1. d - B \in Nat
    BY <1>3
  <2> QED BY <1>3, <1>5, <2>1, PowersDouble, ValRange
<1>7. /\ k \in Int /\ n \in Nat \ {0} /\ w \in Words(n) /\ Val(w) = AbsVal(k)
      /\ Negative(n, sum) <=> k < 0
      /\ sum = {} <=> k = 0
  <2> HIDE DEF n, X, Y, u, v, k
  <2>1. n = m + 2 /\ X = (IF s THEN Neg(n, u) ELSE u) /\ Y = (IF t THEN Neg(n, v) ELSE v)
        /\ k = (IF s THEN -Val(u) ELSE Val(u)) + (IF t THEN -Val(v) ELSE Val(v))
    BY DEF n, X, Y, k
  <2>2. AddUpTo(n, X, Y, k)
    BY <1>3, <1>5, <2>1, SumOfSigned
  <2> QED BY <2>2, Zenon DEF AddUpTo
<1>8. /\ Shifted(w, d) \in SUBSET (d..(d + n - 1))
      /\ Amount(Shifted(w, d), B) = Val(w) * D
  <2> HIDE DEF w, n
  <2>1. n \in Nat
    BY <1>7
  <2> QED BY <1>3, <1>7, <2>1, PlacedWord
<1>9. d..(d + n - 1) \subseteq B..((C + 2) - 1)
  BY <1>3
<1> HIDE DEF w, sum, X, Y, u, v, D
<1>10. i = g * D /\ j = h * D /\ g \in Int /\ h \in Int
  <2>1. (-Val(u)) * D = -(Val(u) * D) /\ (-Val(v)) * D = -(Val(v) * D)
    BY <1>6
  <2> QED BY <1>5, <1>6, <2>1
<1> HIDE DEF g, h
<1>11. i + j = k * D /\ i \in Int /\ j \in Int /\ i + j \in Int
  BY <1>6, <1>10
<1>12. (k < 0 <=> i + j < 0) /\ (k > 0 <=> i + j > 0) /\ (k = 0 <=> i + j = 0)
  <2>1. 0 \in Int /\ 0 * D = 0
    BY <1>6
  <2> HIDE DEF k
  <2> QED BY <1>6, <1>7, <1>11, <2>1, TimesKeepsOrder
<1> HIDE DEF k
<1>13. AbsVal(k) * D = AbsVal(i + j)
  <2>1. (-k) * D = -(k * D)
    BY <1>6, <1>7
  <2> QED BY <1>7, <1>11, <1>12, <2>1 DEF AbsVal
<1>14. Negative(n, sum) \in BOOLEAN
  BY DEF Negative
<1>15. /\ i + j < 0 => Plus(x, y).neg
       /\ i + j > 0 => ~Plus(x, y).neg
       /\ Plus(x, y).neg \in BOOLEAN
  <2>1. ~(i + j < 0 /\ i + j = 0) /\ ~(i + j > 0 /\ i + j = 0) /\ ~(i + j > 0 /\ i + j < 0)
    BY <1>11
  <2>2. (s /\ t) \in BOOLEAN
    OBVIOUS
  <2> QED BY <1>1, <1>7, <1>12, <1>14, <2>1, <2>2, Zenon
<1>16. Plus(x, y).pow \in SUBSET (B..((C + 2) - 1)) /\ Amount(Plus(x, y).pow, B) = AbsVal(i + j)
  BY <1>1, <1>7, <1>8, <1>9, <1>13
<1> QED BY <1>11, <1>15, <1>16, Zenon DEF SumIs

\* A value is its magnitude with its sign.
LEMMA SignedUnits ==
  ASSUME NEW f, Format(f), NEW x
  PROVE  Units(f, x) = IF IsNegative(f, x) THEN -AbsVal(Units(f, x)) ELSE AbsVal(Units(f, x))
BY UnitsOfPlace, UnitsSign

\* fma of three finite numbers rounds x * y + z once (UnitsInOne(f) of the
\* products of two units make a unit).
LEMMA FmaIsNearest ==
  ASSUME NEW f, Format(f), NEW x, Finite(f, x), NEW y, Finite(f, y), NEW z, Finite(f, z)
  PROVE  \E r : /\ fma(f, x, y, z) = {r}
                /\ IsNearest(f, r, Units(f, x) * Units(f, y) + UnitsInOne(f) * Units(f, z), UnitsInOne(f))
<1> DEFINE L == LowestPower(f)
           C == 2 + 2^(f.exp - 1)
           u == Units(f, x)
           v == Units(f, y)
           w == Units(f, z)
           s == IsNegative(f, x)
           t == IsNegative(f, y)
           g == IsNegative(f, z)
           p == Exact(f, x).pow
           q == Exact(f, y).pow
           h == Exact(f, z).pow
           d == UnitsInOne(f)
           product == Times(Exact(f, x), Exact(f, y))
           total == Plus(product, Exact(f, z))
           r == Rounded(f, total)
           n == u * v + d * w
<1>1. fma(f, x, y, z) = {r}
  <2>1. \A k \in {x, y, z} : ~IsNaN(f, k) /\ ~IsInf(f, k)
    BY FiniteIs
  <2>2. {k \in {x, y, z} : IsNaN(f, k)} = {}
    BY <2>1
  <2> QED BY <2>1, <2>2 DEF fma
<1>2. /\ L \in Int /\ C \in Int /\ C >= 4 /\ L < 0 /\ L <= C
      /\ d = Power(-L) /\ d \in Nat \ {0} /\ -L \in Nat
  BY PowersOfExact
<1>3. /\ p \in SUBSET (L..(C - 1)) /\ Exact(f, x).neg = s /\ s \in BOOLEAN /\ Amount(p, L) = AbsVal(u)
      /\ q \in SUBSET (L..(C - 1)) /\ Exact(f, y).neg = t /\ t \in BOOLEAN /\ Amount(q, L) = AbsVal(v)
      /\ h \in SUBSET (L..(C - 1)) /\ Exact(f, z).neg = g /\ g \in BOOLEAN /\ Amount(h, L) = AbsVal(w)
  BY PowersOfExact
<1>4. /\ u \in Int /\ AbsVal(u) \in Nat /\ u = IF s THEN -AbsVal(u) ELSE AbsVal(u)
      /\ v \in Int /\ AbsVal(v) \in Nat /\ v = IF t THEN -AbsVal(v) ELSE AbsVal(v)
      /\ w \in Int /\ AbsVal(w) \in Nat /\ w = IF g THEN -AbsVal(w) ELSE AbsVal(w)
  <2>1. /\ u \in Int /\ AbsVal(u) \in Nat /\ v \in Int /\ AbsVal(v) \in Nat /\ w \in Int /\ AbsVal(w) \in Nat
    BY UnitsSign
  <2> QED BY <2>1, SignedUnits, Zenon
<1>5. product.neg = (s # t)
  BY <1>3 DEF Times
<1> HIDE DEF L, C, u, v, w, s, t, g, p, q, h, d, r
<1>6. /\ product.pow \in SUBSET ((L + L)..((C + C) - 1))
      /\ Amount(product.pow, L + L) = AbsVal(u) * AbsVal(v)
  <2> DEFINE X == Exact(f, x)
             Y == Exact(f, y)
  <2>1. L <= 0 /\ 0 <= C /\ X.pow = p /\ Y.pow = q
    BY <1>2 DEF p, q
  <2> HIDE DEF X, Y
  <2>2. /\ Times(X, Y).pow \in SUBSET ((L + L)..((C + C) - 1))
        /\ Amount(Times(X, Y).pow, L + L) = Amount(p, L) * Amount(q, L)
    <3>1. L \in Int /\ C \in Int /\ L <= 0 /\ 0 <= C /\ p \in SUBSET (L..(C - 1)) /\ q \in SUBSET (L..(C - 1))
      BY <1>2, <1>3, <2>1
    <3>2. MagnitudeIs(Times(X, Y), L + L, C + C, Amount(p, L) * Amount(q, L))
      BY <2>1, <3>1, TimesIs
    <3> QED BY <3>2 DEF MagnitudeIs
  <2> QED BY <1>3, <2>2 DEF X, Y
<1> DEFINE B == L + L
           D == C + C
           i == IF s # t THEN -(AbsVal(u) * AbsVal(v)) ELSE AbsVal(u) * AbsVal(v)
           j == IF g THEN -(AbsVal(w) * d) ELSE AbsVal(w) * d
<1>7. B \in Int /\ D \in Int /\ B <= 0 /\ 0 <= D /\ B <= L /\ L - B = -L /\ h \in SUBSET (B..(D - 1)) /\ B < L /\ L <= D + 2
      /\ D + 2 \in Int
  BY <1>2, <1>3
<1>8. Amount(h, B) = AbsVal(w) * d
  <2> HIDE DEF B
  <2>1. Amount(h, B) = Amount(h, L) * Power(L - B)
    BY <1>2, <1>3, <1>7, ChangeOfBase, Zenon
  <2> QED BY <1>2, <1>3, <1>7, <2>1
<1>9. i = u * v /\ j = d * w
  <2>1. /\ (-AbsVal(u)) * AbsVal(v) = -(AbsVal(u) * AbsVal(v)) /\ AbsVal(u) * (-AbsVal(v)) = -(AbsVal(u) * AbsVal(v))
        /\ (-AbsVal(u)) * (-AbsVal(v)) = AbsVal(u) * AbsVal(v)
        /\ d * (-AbsVal(w)) = -(AbsVal(w) * d) /\ d * AbsVal(w) = AbsVal(w) * d
    BY <1>2, <1>4
  <2> QED BY <1>3, <1>4, <2>1
<1> HIDE DEF product
<1>10. /\ total.pow \in SUBSET (B..((D + 2) - 1))
       /\ i + j \in Int
       /\ Amount(total.pow, B) = AbsVal(i + j)
       /\ total.neg \in BOOLEAN
       /\ i + j < 0 => total.neg
       /\ i + j > 0 => ~total.neg
  <2> DEFINE m == product.pow
             k == (s # t)
  <2>1. /\ k \in BOOLEAN /\ product.neg = k /\ m \in SUBSET (B..(D - 1)) /\ product.pow = m
        /\ i = (IF k THEN -Amount(m, B) ELSE Amount(m, B))
        /\ Exact(f, z).neg = g /\ Exact(f, z).pow = h
        /\ j = (IF g THEN -Amount(h, B) ELSE Amount(h, B))
    BY <1>3, <1>5, <1>6, <1>8 DEF h
  <2> DEFINE Z == Exact(f, z)
  <2>2. Z.neg = g /\ Z.pow = h /\ total = Plus(product, Z)
    BY <2>1
  <2> HIDE DEF m, k, B, D, i, j, Z, total
  <2>3. SumIs(Plus(product, Z), B, D + 2, i + j)
    BY <1>3, <1>7, <2>1, <2>2, PlusIs
  <2> QED BY <2>2, <2>3, Zenon DEF SumIs
<1>11. n = i + j /\ n \in Int
  BY <1>9, <1>10
<1> HIDE DEF i, j, n, total
<1>12. Amount(total.pow, B) * d = AbsVal(n) * Power(L - B)
  BY <1>2, <1>7, <1>10, <1>11
<1>13. IsNearest(f, r, n, d)
  <2> DEFINE P == total.pow
             k == total.neg
  <2>1. /\ k \in BOOLEAN /\ total.neg = k /\ P \in SUBSET (B..((D + 2) - 1)) /\ total.pow = P
        /\ B < LowestPower(f) /\ LowestPower(f) <= D + 2
        /\ (n < 0 => k) /\ (n > 0 => ~k)
        /\ Amount(P, B) * d = AbsVal(n) * Power(LowestPower(f) - B)
    BY <1>7, <1>10, <1>11, <1>12 DEF L
  <2> HIDE DEF P, k, B, D
  <2>2. IsNearest(f, Rounded(f, total), n, d)
    BY <1>2, <1>7, <1>11, <2>1, RoundedIsNearest
  <2> QED BY <2>2 DEF r
<1> QED BY <1>1, <1>13 DEF n, u, v, w, d

\* Numerator and denominator in other units.
LEMMA ScaledNearest ==
  ASSUME NEW f, Format(f), NEW r, NEW n \in Int, NEW d \in Nat \ {0}, NEW k \in Nat \ {0},
         IsNearest(f, r, n * k, d * k)
  PROVE  IsNearest(f, r, n, d)
<1>1. \A u \in Int : AbsVal(u * (d * k) - n * k) = AbsVal(u * d - n) * k /\ AbsVal(u * d - n) \in Int
  <2> TAKE u \in Int
  <2> DEFINE i == u * d - n
  <2>1. u * (d * k) - n * k = i * k /\ i \in Int /\ (-i) * k = -(i * k)
    BY DEF i
  <2>2. i < 0 <=> i * k < 0
    <3>1. 0 * k = 0 /\ 0 \in Int
      OBVIOUS
    <3> HIDE DEF i
    <3>2. i < 0 <=> i * k < 0 * k
      BY <2>1, <3>1, TimesKeepsOrder
    <3> QED BY <3>1, <3>2
  <2> HIDE DEF i
  <2> QED BY <2>1, <2>2 DEF AbsVal, i
<1>2. \A z : Units(f, z) \in Int
  BY UnitsSign
<1>3. \A i \in Int, j \in Int : (i < j <=> i * k < j * k) /\ (i = j <=> i * k = j * k)
  BY TimesKeepsOrder
<1>4. r \in Numbers(f)
  BY DEF IsNearest
<1> SUFFICES ASSUME NEW z \in Numbers(f)
             PROVE  \/ AbsVal(Units(f, r) * d - n) < AbsVal(Units(f, z) * d - n)
                    \/ Units(f, z) = Units(f, r)
                    \/ AbsVal(Units(f, r) * d - n) = AbsVal(Units(f, z) * d - n) /\ 0 \notin r
  BY <1>4 DEF IsNearest
<1> DEFINE i == AbsVal(Units(f, r) * d - n)
           j == AbsVal(Units(f, z) * d - n)
<1>5. \/ i * k < j * k
      \/ Units(f, z) = Units(f, r)
      \/ i * k = j * k /\ 0 \notin r
  BY <1>1, <1>2, Zenon DEF IsNearest
<1>6. i \in Int /\ j \in Int
  BY <1>1, <1>2, Zenon
<1> QED BY <1>3, <1>5, <1>6, Zenon

\* Turning the sign bit turns the sign and keeps the rest.
LEMMA NegatedIs ==
  ASSUME NEW f, Format(f), NEW x
  PROVE  /\ x \in Words(Width(f)) => Negated(f, x) \in Words(Width(f))
         /\ IsNegative(f, Negated(f, x)) <=> ~IsNegative(f, x)
         /\ Place(f, Negated(f, x)) = Place(f, x)
         /\ Units(f, Negated(f, x)) = -Units(f, x)
         /\ Number(f, Negated(f, x)) <=> Number(f, x)
         /\ IsInf(f, Negated(f, x)) <=> IsInf(f, x)
         /\ Negated(f, Negated(f, x)) = x
         /\ 0 \in Negated(f, x) <=> 0 \in x
<1> DEFINE s == SignAt(f)
           y == Negated(f, x)
<1>1. s \in Nat /\ s > 0
  BY FormatWidths
<1>2. \A i : i \in y <=> IF i = s THEN i \notin x ELSE i \in x
  BY DEF Negated, SymDiff
<1> HIDE DEF y
<1>3. x \in Words(Width(f)) => y \in Words(Width(f))
  <2>1. s \in Bits(Width(f))
    BY <1>1 DEF Width, Bits
  <2> QED BY <1>2, <2>1 DEF Words
<1>4. IsNegative(f, y) <=> ~IsNegative(f, x)
  BY <1>2 DEF IsNegative
<1>5. Magnitude(f, y) = Magnitude(f, x)
  <2>1. s \notin Bits(s)
    BY <1>1 DEF Bits
  <2> HIDE DEF s
  <2> QED BY <1>2, <2>1 DEF Magnitude, Trunc, s
<1>6. Place(f, y) = Place(f, x)
  BY <1>5 DEF Place
<1>7. Units(f, y) = -Units(f, x)
  <2>1. Grid(f, Place(f, x)) \in Nat
    BY UnitsSign
  <2>2. Units(f, y) = IF IsNegative(f, y) THEN -Grid(f, Place(f, y)) ELSE Grid(f, Place(f, y))
    BY UnitsOfPlace
  <2>3. Units(f, x) = IF IsNegative(f, x) THEN -Grid(f, Place(f, x)) ELSE Grid(f, Place(f, x))
    BY UnitsOfPlace
  <2> QED BY <1>4, <1>6, <2>1, <2>2, <2>3
<1>8. (Number(f, y) <=> Number(f, x)) /\ (IsInf(f, y) <=> IsInf(f, x))
  BY <1>6, ClassesOfPlace DEF Number
<1>9. Negated(f, y) = x
  <2>1. \A i : i \in Negated(f, y) <=> IF i = s THEN i \notin y ELSE i \in y
    BY DEF Negated, SymDiff
  <2>2. \A i : i \in Negated(f, y) <=> i \in x
    BY <1>2, <2>1
  <2> QED BY <2>2 DEF Negated, SymDiff
<1>10. 0 \in y <=> 0 \in x
  BY <1>1, <1>2
<1> QED BY <1>3, <1>4, <1>6, <1>7, <1>8, <1>9, <1>10 DEF y

\* The nearest value of -n is the opposite of that of n.
LEMMA NegatedNearest ==
  ASSUME NEW f, Format(f), NEW r, NEW n \in Int, NEW d \in Nat \ {0}, IsNearest(f, r, n, d)
  PROVE  IsNearest(f, Negated(f, r), -n, d)
<1>1. \A x : /\ Units(f, x) \in Int /\ Units(f, Negated(f, x)) = -Units(f, x)
             /\ x \in Numbers(f) => Negated(f, x) \in Numbers(f)
             /\ 0 \in Negated(f, x) <=> 0 \in x
  <2> SUFFICES ASSUME NEW x
               PROVE  /\ Units(f, x) \in Int /\ Units(f, Negated(f, x)) = -Units(f, x)
                      /\ x \in Numbers(f) => Negated(f, x) \in Numbers(f)
                      /\ 0 \in Negated(f, x) <=> 0 \in x
    OBVIOUS
  <2>1. Units(f, x) \in Int
    BY UnitsSign
  <2> QED BY <2>1, NegatedIs DEF Numbers
<1>2. \A u \in Int : AbsVal((-u) * d - (-n)) = AbsVal(u * d - n)
  <2> TAKE u \in Int
  <2>1. (-u) * d - (-n) = -(u * d - n) /\ u * d - n \in Int
    BY DEF AbsVal
  <2> DEFINE i == u * d - n
  <2>2. AbsVal(-i) = AbsVal(i)
    <3>1. i \in Int
      BY <2>1
    <3> HIDE DEF i
    <3> QED BY <3>1 DEF AbsVal
  <2> QED BY <2>1, <2>2
<1>3. r \in Numbers(f)
  BY DEF IsNearest
<1> SUFFICES ASSUME NEW z \in Numbers(f)
             PROVE  \/ AbsVal(Units(f, Negated(f, r)) * d - (-n)) < AbsVal(Units(f, z) * d - (-n))
                    \/ Units(f, z) = Units(f, Negated(f, r))
                    \/ /\ AbsVal(Units(f, Negated(f, r)) * d - (-n)) = AbsVal(Units(f, z) * d - (-n))
                       /\ 0 \notin Negated(f, r)
  BY <1>1, <1>3 DEF IsNearest
<1> DEFINE y == Negated(f, z)
           u == Units(f, r)
           v == Units(f, y)
<1>4. y \in Numbers(f) /\ Units(f, z) = -v /\ v \in Int /\ u \in Int /\ Units(f, Negated(f, r)) = -u
  <2>1. y \in Numbers(f) /\ v = -Units(f, z) /\ Units(f, z) \in Int /\ v \in Int /\ u \in Int
        /\ Units(f, Negated(f, r)) = -u
    BY <1>1
  <2> HIDE DEF y, v, u
  <2> QED BY <2>1
<1>5. \/ AbsVal(u * d - n) < AbsVal(v * d - n)
      \/ v = u
      \/ AbsVal(u * d - n) = AbsVal(v * d - n) /\ 0 \notin r
  BY <1>4, Zenon DEF IsNearest
<1> HIDE DEF u, v, y
<1>6. AbsVal((-u) * d - (-n)) = AbsVal(u * d - n) /\ AbsVal((-v) * d - (-n)) = AbsVal(v * d - n)
  BY <1>2, <1>4
<1> QED BY <1>1, <1>4, <1>5, <1>6, Zenon

\* Unit(f) is 1.
LEMMA UnitIs ==
  ASSUME NEW f, Format(f)
  PROVE  Finite(f, Unit(f)) /\ Units(f, Unit(f)) = UnitsInOne(f)
<1> DEFINE s == SignAt(f)
           M == Power(f.man)
           F == 2^(f.exp - 1)
           x == Unit(f)
<1>1. s \in Nat /\ f.man \in Nat \ {0} /\ f.exp \in 2..16 /\ s = f.man + f.exp /\ M \in Nat \ {0}
  BY FormatWidths DEF Format
<1>2. F \in Nat /\ F >= 2 /\ 2^f.exp = 2 * F /\ Power(f.exp) = 2^f.exp /\ Top(f) = (Power(f.exp) - 1) * M /\ Top(f) \in Nat
      /\ UnitsInOne(f) = Power(F - 2 + f.man)
  BY LowestPowerIs, FormatWidths, ClassesOfPlace DEF UnitsInOne
<1>3. Magnitude(f, x) = x /\ ~IsNegative(f, x)
  <2>1. x = f.man..(s - 2)
    BY DEF Unit
  <2> HIDE DEF x
  <2>2. s \notin x /\ x \subseteq 0..(s - 1)
    BY <1>1, <2>1
  <2> QED BY <2>2 DEF Magnitude, Trunc, Bits, IsNegative
<1>4. Place(f, x) = M + (F - 2) * M
  <2>1. s - 1 \in Nat /\ f.man \in 0..(s - 1) /\ (s - 1) - 1 = s - 2
    BY <1>1
  <2>2. Val(f.man..((s - 1) - 1)) = Val({s - 1}) - Val({f.man})
    BY <2>1, HighOnes, Zenon
  <2>3. Power(s - 1) = M * Power(f.exp - 1) /\ Power(f.exp - 1) = F
    <3>1. f.exp - 1 \in Nat /\ f.exp - 1 \in 0..32 /\ f.man \in Nat /\ f.man + (f.exp - 1) = s - 1
      BY <1>1
    <3>2. Power(f.exp - 1) = F
      BY <3>1, PowersDouble
    <3>3. Power(f.man + (f.exp - 1)) = Power(f.man) * Power(f.exp - 1)
      BY <3>1, PowersAdd
    <3> QED BY <3>1, <3>2, <3>3
  <2>4. Val(x) = Power(s - 1) - M
    BY <2>1, <2>2 DEF Power, Unit
  <2> HIDE DEF M, F, x, s
  <2>5. M * F - M = M + (F - 2) * M
    BY <1>1, <1>2
  <2> QED BY <1>3, <2>3, <2>4, <2>5 DEF Place
<1>5. Grid(f, Place(f, x)) = UnitsInOne(f)
  <2>1. Grid(f, M + (F - 2) * M) = M * Power(F - 2)
    <3>1. F - 2 \in Nat /\ M \in Nat /\ M <= 2 * M /\ M >= M
      BY <1>1, <1>2
    <3> HIDE DEF F
    <3> QED BY <3>1, GridIs DEF M
  <2>2. Power(F - 2 + f.man) = Power(F - 2) * M
    <3>1. F - 2 \in Nat /\ f.man \in Nat
      BY <1>1, <1>2
    <3> HIDE DEF F
    <3> QED BY <3>1, PowersAdd DEF M
  <2>3. Power(F - 2) \in Nat
    <3>1. F - 2 \in Nat
      BY <1>2
    <3> HIDE DEF F
    <3> QED BY <3>1, PowersDouble
  <2> HIDE DEF F, M, x
  <2>4. M * Power(F - 2) = Power(F - 2) * M
    BY <1>1, <2>3
  <2> QED BY <1>2, <1>4, <2>1, <2>2, <2>4
<1>6. Place(f, x) < Top(f)
  <2> HIDE DEF F, M, x
  <2>1. M + (F - 2) * M = (F - 1) * M /\ F - 1 \in Int /\ 2 * F - 1 \in Int /\ F - 1 < 2 * F - 1
    BY <1>1, <1>2
  <2>2. (F - 1) * M < (2 * F - 1) * M
    BY <1>1, <2>1, TimesKeepsOrder
  <2> QED BY <1>2, <1>4, <2>1, <2>2
<1>7. Finite(f, x)
  <2>1. Place(f, x) \in Nat
    BY FieldsOfPlace
  <2> HIDE DEF x
  <2> QED BY <1>2, <1>6, <2>1, ClassesOfPlace DEF Finite, Number
<1>8. Units(f, x) = Grid(f, Place(f, x))
  BY <1>3, UnitsOfPlace
<1> QED BY <1>5, <1>7, <1>8

\* -0 is 0.
LEMMA MinusZeroIs ==
  ASSUME NEW f, Format(f)
  PROVE  Finite(f, WithSign(f, TRUE, {})) /\ Units(f, WithSign(f, TRUE, {})) = 0
<1> DEFINE x == WithSign(f, TRUE, {})
<1>1. Place(f, x) = 0
  <2>1. {} \in Words(SignAt(f)) /\ TRUE \in BOOLEAN
    BY ZeroIsWord
  <2> QED BY <2>1, WithSignIs, ZeroIsZero
<1>2. Top(f) \in Nat /\ Top(f) > 0
  <2>1. Top(f) \in Nat /\ Top(f) > Power(f.man)
    BY ClassesOfPlace, Zenon
  <2>2. Power(f.man) \in Nat
    BY FormatWidths
  <2> QED BY <2>1, <2>2
<1> HIDE DEF x
<1>3. ~IsNaN(f, x) /\ ~IsInf(f, x)
  <2>1. (IsInf(f, x) <=> Place(f, x) = Top(f)) /\ (IsNaN(f, x) <=> Place(f, x) > Top(f))
    BY ClassesOfPlace, Zenon
  <2> QED BY <1>1, <1>2, <2>1
<1>4. Units(f, x) = 0
  BY <1>1, UnitsSign, Zenon
<1> QED BY <1>3, <1>4 DEF Finite, Number, x

\* Sums, differences and products of finite numbers.
LEMMA SumsAreNearest ==
  ASSUME NEW f, Format(f), NEW x, Finite(f, x), NEW y, Finite(f, y)
  PROVE  /\ \E r : fadd(f, x, y) = {r} /\ IsNearest(f, r, Units(f, x) + Units(f, y), 1)
         /\ \E r : fsub(f, x, y) = {r} /\ IsNearest(f, r, Units(f, x) - Units(f, y), 1)
         /\ \E r : fmul(f, x, y) = {r} /\ IsNearest(f, r, Units(f, x) * Units(f, y), UnitsInOne(f))
<1> DEFINE d == UnitsInOne(f)
           u == Units(f, x)
<1>1. d \in Nat \ {0} /\ u \in Int /\ \A z : Units(f, z) \in Int
  BY PowersOfExact, UnitsSign
<1>2. Finite(f, Unit(f)) /\ Units(f, Unit(f)) = d
  BY UnitIs
<1>3. \A z : Finite(f, z) => \E r : fadd(f, x, z) = {r} /\ IsNearest(f, r, u + Units(f, z), 1)
  <2> SUFFICES ASSUME NEW z, Finite(f, z) PROVE \E r : fadd(f, x, z) = {r} /\ IsNearest(f, r, u + Units(f, z), 1)
    OBVIOUS
  <2> DEFINE w == Units(f, z)
  <2>1. PICK r : fma(f, x, Unit(f), z) = {r} /\ IsNearest(f, r, u * d + d * w, d)
    BY <1>2, FmaIsNearest, Zenon
  <2>2. w \in Int /\ u + w \in Int
    BY <1>1
  <2> HIDE DEF u, d, w
  <2>3. u * d + d * w = (u + w) * d /\ d = 1 * d /\ 1 \in Nat \ {0}
    BY <1>1, <2>2
  <2>4. IsNearest(f, r, (u + w) * d, 1 * d)
    BY <2>1, <2>3
  <2>5. IsNearest(f, r, u + w, 1)
    BY <1>1, <2>2, <2>3, <2>4, ScaledNearest, Zenon
  <2> QED BY <2>1, <2>5, Zenon DEF fadd, w
<1>4. \E r : fsub(f, x, y) = {r} /\ IsNearest(f, r, u - Units(f, y), 1)
  <2> DEFINE z == Negated(f, y)
  <2>1. ~IsNaN(f, y)
    BY FiniteIs
  <2>2. fsub(f, x, y) = fadd(f, x, z)
    BY <2>1, Zenon DEF fsub
  <2>3. Finite(f, z) /\ Units(f, z) = -Units(f, y)
    BY NegatedIs, Zenon DEF Finite
  <2>4. u + (-Units(f, y)) = u - Units(f, y)
    BY <1>1
  <2> HIDE DEF z, u
  <2> QED BY <1>3, <2>2, <2>3, <2>4, Zenon
<1>5. \E r : fmul(f, x, y) = {r} /\ IsNearest(f, r, u * Units(f, y), d)
  <2> DEFINE z == WithSign(f, TRUE, {})
  <2>1. Finite(f, z) /\ Units(f, z) = 0
    BY MinusZeroIs
  <2>2. PICK r : fma(f, x, y, z) = {r} /\ IsNearest(f, r, u * Units(f, y) + d * Units(f, z), d)
    BY <2>1, FmaIsNearest, Zenon
  <2>3. u * Units(f, y) + d * 0 = u * Units(f, y)
    BY <1>1
  <2> QED BY <2>1, <2>2, <2>3, Zenon DEF fmul
<1> QED BY <1>3, <1>4, <1>5

\* The fused operations of finite numbers (FNMSUB is z - x * y, FNMADD is
\* -(x * y) - z).
LEMMA FusedAreNearest ==
  ASSUME NEW f, Format(f), NEW x, Finite(f, x), NEW y, Finite(f, y), NEW z, Finite(f, z),
         NEW d, d = UnitsInOne(f), NEW p, p = Units(f, x) * Units(f, y), NEW w, w = Units(f, z)
  PROVE  /\ \E r : fused(f, "FMADD", x, y, z) = {r} /\ IsNearest(f, r, p + d * w, d)
         /\ \E r : fused(f, "FMSUB", x, y, z) = {r} /\ IsNearest(f, r, p - d * w, d)
         /\ \E r : fused(f, "FNMSUB", x, y, z) = {r} /\ IsNearest(f, r, d * w - p, d)
         /\ \E r : fused(f, "FNMADD", x, y, z) = {r} /\ IsNearest(f, r, -p - d * w, d)
<1>1. d \in Nat \ {0} /\ p \in Int /\ w \in Int
  BY PowersOfExact, UnitsSign
<1>2. Finite(f, Negated(f, z)) /\ Units(f, Negated(f, z)) = -w
  BY NegatedIs, Zenon DEF Finite
<1>3. PICK r : fma(f, x, y, z) = {r} /\ IsNearest(f, r, p + d * w, d)
  BY FmaIsNearest, Zenon
<1>4. PICK s : fma(f, x, y, Negated(f, z)) = {s} /\ IsNearest(f, s, p + d * (-w), d)
  BY <1>2, FmaIsNearest, Zenon
<1>5. p + d * (-w) = p - d * w /\ -(p - d * w) = d * w - p /\ -(p + d * w) = -p - d * w
      /\ p - d * w \in Int /\ p + d * w \in Int
  BY <1>1
<1>6. IsNearest(f, s, p - d * w, d)
  BY <1>4, <1>5
<1>7. IsNearest(f, Negated(f, r), -p - d * w, d)
  <2>1. IsNearest(f, Negated(f, r), -(p + d * w), d)
    BY <1>1, <1>3, <1>5, NegatedNearest, Zenon
  <2> QED BY <1>5, <2>1
<1>8. IsNearest(f, Negated(f, s), d * w - p, d)
  <2>1. IsNearest(f, Negated(f, s), -(p - d * w), d)
    BY <1>1, <1>5, <1>6, NegatedNearest, Zenon
  <2> QED BY <1>5, <2>1
<1>9. /\ fused(f, "FMADD", x, y, z) = fma(f, x, y, z)
      /\ fused(f, "FMSUB", x, y, z) = fma(f, x, y, Negated(f, z))
      /\ fused(f, "FNMSUB", x, y, z) = {Negated(f, v) : v \in fma(f, x, y, Negated(f, z))}
      /\ fused(f, "FNMADD", x, y, z) = {Negated(f, v) : v \in fma(f, x, y, z)}
  BY DEF fused
<1>10. fused(f, "FNMSUB", x, y, z) = {Negated(f, s)} /\ fused(f, "FNMADD", x, y, z) = {Negated(f, r)}
  BY <1>3, <1>4, <1>9
<1>11. fused(f, "FMADD", x, y, z) = {r} /\ fused(f, "FMSUB", x, y, z) = {s}
  BY <1>3, <1>4, <1>9, Zenon
<1> QED BY <1>3, <1>6, <1>7, <1>8, <1>10, <1>11, Zenon

\* Exactly one of a result and its opposite is negative.
OneIsNegative(f, results, opposites) ==
  \E r : /\ results = {r} /\ opposites = {Negated(f, r)}
         /\ \E s : {t \in results \cup opposites : SignAt(f) \in t} = {s}

\* The operations with a negated product have the opposites of the results of
\* the others, zeros, infinities and NaNs included.
LEMMA FusedOpposites ==
  ASSUME NEW f, Format(f), NEW x, Finite(f, x), NEW y, Finite(f, y), NEW z
  PROVE  /\ OneIsNegative(f, fused(f, "FMADD", x, y, z), fused(f, "FNMADD", x, y, z))
         /\ OneIsNegative(f, fused(f, "FMSUB", x, y, z), fused(f, "FNMSUB", x, y, z))
<1>1. \A w : \E r : fma(f, x, y, w) = {r}
  <2> TAKE w
  <2>1. ~IsNaN(f, x) /\ ~IsInf(f, x) /\ ~IsNaN(f, y) /\ ~IsInf(f, y)
    BY FiniteIs
  <2>2. CASE IsNaN(f, w)
    <3>1. {v \in {x, y, w} : IsNaN(f, v)} = {w}
      BY <2>1, <2>2
    <3>2. fma(f, x, y, w) = Quieted(f, {w}) \cup {}
      BY <2>1, <3>1 DEF fma
    <3>3. Quieted(f, {w}) = {w \cup {f.man - 1}}
      BY DEF Quieted
    <3> QED BY <3>2, <3>3
  <2>3. CASE ~IsNaN(f, w)
    <3>1. {v \in {x, y, w} : IsNaN(f, v)} = {}
      BY <2>1, <2>3
    <3>2. fma(f, x, y, w) = IF IsInf(f, w) THEN {w}
                            ELSE {Rounded(f, Plus(Times(Exact(f, x), Exact(f, y)), Exact(f, w)))}
      BY <2>1, <3>1 DEF fma
    <3> QED BY <3>2
  <2> QED BY <2>2, <2>3
<1>2. \A w : OneIsNegative(f, fma(f, x, y, w), {Negated(f, v) : v \in fma(f, x, y, w)})
  <2> TAKE w
  <2>1. PICK r : fma(f, x, y, w) = {r}
    BY <1>1
  <2> DEFINE t == Negated(f, r)
  <2>2. {Negated(f, v) : v \in fma(f, x, y, w)} = {t}
    BY <2>1
  <2>3. SignAt(f) \in t <=> SignAt(f) \notin r
    BY NegatedIs DEF IsNegative
  <2> HIDE DEF t
  <2>4. \E s : {v \in {r} \cup {t} : SignAt(f) \in v} = {s}
    <3>1. CASE SignAt(f) \in r
      <4>1. {v \in {r} \cup {t} : SignAt(f) \in v} = {r}
        BY <2>3, <3>1
      <4> QED BY <4>1
    <3>2. CASE SignAt(f) \notin r
      <4>1. {v \in {r} \cup {t} : SignAt(f) \in v} = {t}
        BY <2>3, <3>2
      <4> QED BY <4>1
    <3> QED BY <3>1, <3>2
  <2> QED BY <2>1, <2>2, <2>4, Zenon DEF OneIsNegative, t
<1>3. /\ fused(f, "FMADD", x, y, z) = fma(f, x, y, z)
      /\ fused(f, "FMSUB", x, y, z) = fma(f, x, y, Negated(f, z))
      /\ fused(f, "FNMSUB", x, y, z) = {Negated(f, v) : v \in fma(f, x, y, Negated(f, z))}
      /\ fused(f, "FNMADD", x, y, z) = {Negated(f, v) : v \in fma(f, x, y, z)}
  BY DEF fused
<1> QED BY <1>2, <1>3, Zenon

\* A NaN that is made quiet, and the NaN of an invalid operation, are NaNs.
LEMMA NaNsAreNaNs ==
  ASSUME NEW f, Format(f)
  PROVE  OnlyNaNs(f, DefaultNaNs(f)) /\ \A x : IsNaN(f, x) => IsNaN(f, x \cup {f.man - 1})
<1> DEFINE i == f.man - 1
           s == SignAt(f)
<1>1. s \in Nat /\ f.man \in Nat \ {0} /\ i \in 0..(s - 1) /\ i \notin Infinity(f) /\ s \notin Bits(s) /\ i \in Bits(s)
  <2>1. s \in Nat /\ f.man \in Nat \ {0} /\ f.exp \in Nat /\ s = f.man + f.exp
    BY FormatWidths
  <2>2. i \in 0..(s - 1)
    BY <2>1
  <2>3. i \notin f.man..(s - 1)
    BY <2>1
  <2>4. s \notin Bits(s) /\ i \in Bits(s)
    BY <2>1, <2>2 DEF Bits
  <2> QED BY <2>1, <2>2, <2>3, <2>4 DEF Infinity
<1>2. \A x : Infinity(f) \subseteq x /\ i \in x => IsNaN(f, x)
  <2> SUFFICES ASSUME NEW x, Infinity(f) \subseteq x, i \in x PROVE IsNaN(f, x)
    OBVIOUS
  <2>1. i \in Magnitude(f, x)
    BY <1>1 DEF Magnitude, Trunc
  <2>2. Magnitude(f, x) # Infinity(f)
    BY <1>1, <2>1
  <2> QED BY <2>2 DEF IsNaN, IsInf
<1>3. \A x : IsNaN(f, x) => IsNaN(f, x \cup {i})
  <2> SUFFICES ASSUME NEW x, IsNaN(f, x) PROVE IsNaN(f, x \cup {i})
    OBVIOUS
  <2>1. Infinity(f) \subseteq x \cup {i} /\ i \in x \cup {i}
    BY DEF IsNaN
  <2> QED BY <1>2, <2>1
<1>4. \A negative \in BOOLEAN : IsNaN(f, WithSign(f, negative, Infinity(f) \cup {i}))
  <2> TAKE negative \in BOOLEAN
  <2>1. Infinity(f) \subseteq WithSign(f, negative, Infinity(f) \cup {i}) /\ i \in WithSign(f, negative, Infinity(f) \cup {i})
    BY DEF WithSign
  <2> QED BY <1>2, <2>1
<1>5. OnlyNaNs(f, DefaultNaNs(f))
  BY <1>4 DEF DefaultNaNs, OnlyNaNs
<1> QED BY <1>3, <1>5

-----------------------------------------------------------------------------
(* Quotients and square roots *)

\* A function gives n times each value from the one before.
Iterates(n, W, start, G) == \E h \in [0..n -> W] : h[0] = start /\ \A i \in 1..n : h[i] = G[i][h[i - 1]]

\* Such a function exists.
LEMMA RecursionExists ==
  ASSUME NEW n \in Nat, NEW W, NEW start \in W, NEW G, \A i \in 1..n : \A w \in W : G[i][w] \in W
  PROVE  Iterates(n, W, start, G)
<1> DEFINE Sequence(h, d) == h[0] = start /\ \A i \in 1..d : h[i] = G[i][h[i - 1]]
           T == {d \in 0..n : \E h \in [0..n -> W] : Sequence(h, d)}
<1>1. 0 \in T
  <2> DEFINE h == [i \in 0..n |-> start]
  <2>1. h \in [0..n -> W] /\ Sequence(h, 0) /\ 0 \in 0..n
    OBVIOUS
  <2> QED BY <2>1
<1>2. \A d \in Bits(n) : d \in T => d + 1 \in T
  <2> SUFFICES ASSUME NEW d \in Bits(n), d \in T
               PROVE  d + 1 \in T
    OBVIOUS
  <2>1. PICK h \in [0..n -> W] : Sequence(h, d)
    OBVIOUS
  <2> DEFINE g == [h EXCEPT ![d + 1] = G[d + 1][h[d]]]
  <2>2. d \in 0..n /\ d + 1 \in 0..n /\ d + 1 \in 1..n /\ h[d] \in W /\ (d + 1) - 1 = d
    BY DEF Bits
  <2>3. G[d + 1][h[d]] \in W
    BY <2>2
  <2>4. g \in [0..n -> W] /\ g[d + 1] = G[d + 1][h[d]]
    BY <2>2, <2>3
  <2>5. \A i \in 0..d : g[i] = h[i]
    BY <2>2
  <2> HIDE DEF g
  <2>6. g[0] = start
    <3>1. 0 \in 0..d
      BY <2>2
    <3> QED BY <2>1, <2>5, <3>1
  <2>7. ASSUME NEW i \in 1..(d + 1)
        PROVE  g[i] = G[i][g[i - 1]]
    <3>1. CASE i = d + 1
      <4>1. d \in 0..d
        BY <2>2
      <4> QED BY <2>2, <2>4, <2>5, <3>1, <4>1
    <3>2. CASE i # d + 1
      <4>1. i \in 1..d /\ i \in 0..d /\ i - 1 \in 0..d
        BY <2>2, <3>2
      <4> QED BY <2>1, <2>5, <4>1
    <3> QED BY <3>1, <3>2
  <2>8. Sequence(g, d + 1)
    BY <2>6, <2>7
  <2> QED BY <2>2, <2>4, <2>8
<1> HIDE DEF T
<1>3. \A i \in 0..n : i \in T
  BY <1>1, <1>2, UpToTheWidth
<1>4. n \in T
  BY <1>3
<1> QED BY <1>4 DEF T, Iterates

\* 2^s units of 2^i and 2^t units of 2^j are the same.
SameAmount(p, i, j, s, t) == Amount(p, i) * Power(s) = Amount(p, j) * Power(t)

\* The same amount in other units.
LEMMA AmountScales ==
  ASSUME NEW i \in Int, NEW j \in Int, NEW C \in Int, i <= C, j <= C,
         NEW p \in SUBSET (i..(C - 1)), p \in SUBSET (j..(C - 1)),
         NEW s \in Nat, NEW t \in Nat, s - t = i - j
  PROVE  SameAmount(p, i, j, s, t)
<1>1. Amount(p, i) \in Nat /\ Amount(p, j) \in Nat
  BY AmountIs
<1>2. CASE j <= i
  <2>1. Amount(p, j) = Amount(p, i) * Power(i - j)
    BY <1>2, ChangeOfBase, Zenon
  <2>2. i - j \in Nat /\ (i - j) + t = s
    BY <1>2
  <2>3. Power((i - j) + t) = Power(i - j) * Power(t) /\ Power(i - j) \in Nat /\ Power(t) \in Nat
    BY <2>2, PowersAdd, PowersDouble, Zenon
  <2> DEFINE P == Power(i - j)
             Q == Power(t)
             A == Amount(p, i)
  <2>4. P \in Nat /\ Q \in Nat /\ A \in Nat
    BY <1>1, <2>3
  <2> HIDE DEF P, Q, A
  <2>5. A * (P * Q) = (A * P) * Q
    BY <2>4
  <2> QED BY <2>1, <2>2, <2>3, <2>5 DEF P, Q, A, SameAmount
<1>3. CASE i <= j
  <2>1. Amount(p, i) = Amount(p, j) * Power(j - i)
    BY <1>3, ChangeOfBase, Zenon
  <2>2. j - i \in Nat /\ (j - i) + s = t
    BY <1>3
  <2>3. Power((j - i) + s) = Power(j - i) * Power(s) /\ Power(j - i) \in Nat /\ Power(s) \in Nat
    BY <2>2, PowersAdd, PowersDouble, Zenon
  <2> DEFINE P == Power(j - i)
             Q == Power(s)
             A == Amount(p, j)
  <2>4. P \in Nat /\ Q \in Nat /\ A \in Nat
    BY <1>1, <2>3
  <2> HIDE DEF P, Q, A
  <2>5. A * (P * Q) = (A * P) * Q
    BY <2>4
  <2> QED BY <2>1, <2>2, <2>3, <2>5 DEF P, Q, A, SameAmount
<1> QED BY <1>2, <1>3

\* A digit below the lowest.
LEMMA LowestDigit ==
  ASSUME NEW B \in Int, NEW C \in Int, B <= C, NEW p \in SUBSET (B..(C - 1))
  PROVE  /\ p \in SUBSET ((B - 1)..(C - 1)) /\ Amount(p, B - 1) = 2 * Amount(p, B)
         /\ p \cup {B - 1} \in SUBSET ((B - 1)..(C - 1)) /\ Amount(p \cup {B - 1}, B - 1) = 2 * Amount(p, B) + 1
<1> DEFINE D == B - 1
           n == C - D
<1>1. /\ D \in Int /\ D <= B /\ B - D = 1 /\ n \in Nat \ {0} /\ D <= C
      /\ p \in SUBSET (D..(C - 1)) /\ p \cup {D} \in SUBSET (D..(C - 1)) /\ p \in SUBSET Int /\ D \notin p
  OBVIOUS
<1> HIDE DEF D
<1>2. Amount(p, D) = 2 * Amount(p, B)
  <2>1. Amount(p, D) = Amount(p, B) * Power(B - D)
    BY <1>1, ChangeOfBase, Zenon
  <2>2. Power(1) = 2
    <3>1. 0 \in Nat /\ 0 + 1 = 1
      OBVIOUS
    <3> QED BY <3>1, PowersDouble
  <2>3. Amount(p, B) \in Nat
    BY AmountIs
  <2> QED BY <1>1, <2>1, <2>2, <2>3
<1>3. Amount(p \cup {D}, D) = Amount(p, D) + 1
  <2> DEFINE w == Shifted(p, -D)
  <2>1. w \in Words(n) /\ \A i \in Int : i \in w <=> i + D \in p
    BY <1>1, AmountIs
  <2>2. 0 \in Int /\ 0 + D = D /\ D + (-D) = 0
    BY <1>1
  <2>3. w \cap {0} = {}
    BY <1>1, <2>1, <2>2
  <2>4. {0} \in Words(n)
    BY <1>1 DEF Words, Bits
  <2>5. Shifted(p \cup {D}, -D) = w \cup {0}
    BY <2>2 DEF Shifted
  <2>6. Val(w \cup {0}) = Val(w) + Val({0})
    BY <1>1, <2>1, <2>3, <2>4, DisjointSum
  <2>7. Val({0}) = 1
    BY PowersDouble DEF Power
  <2> QED BY <2>5, <2>6, <2>7 DEF Amount
<1> QED BY <1>1, <1>2, <1>3 DEF D

\* A shift that loses nothing multiplies.
LEMMA ShiftedLeft ==
  ASSUME NEW n \in Nat, NEW x \in Words(n), NEW k \in 0..n, Val(x) * Power(k) < Power(n)
  PROVE  ShiftL(n, x, k) \in Words(n) /\ Val(ShiftL(n, x, k)) = Val(x) * Power(k)
<1> DEFINE z == ShiftL(n, x, k)
           t == From(x)[n - k]
           X == Val(x) * Power(k)
           P == Power(n)
<1>1. z \in Words(n) /\ t \in Nat /\ X = Val(z) + P * t
  BY ValShiftL DEF Power
<1>2. Val(z) \in Nat /\ P \in Nat \ {0} /\ X < P
  <2>1. Val(z) \in Nat
    BY <1>1, ValRange
  <2> QED BY <2>1, PowersDouble
<1> HIDE DEF z, t, X, P
<1>3. t = 0
  <2>1. t >= 1 => P * t >= P
    BY <1>1, <1>2
  <2> QED BY <1>1, <1>2, <2>1
<1> QED BY <1>1, <1>2, <1>3 DEF z, X

\* What a step of the long division leaves.
LEMMA DivisionStep ==
  ASSUME NEW n \in Nat \ {0}, NEW d \in Words(n), NEW rest \in Words(n + 1), Val(rest) < 2 * Val(d)
  PROVE  /\ LtU(rest, d) => /\ ShiftL(n + 1, rest, 1) \in Words(n + 1) /\ Val(rest) < Val(d)
                            /\ Val(ShiftL(n + 1, rest, 1)) = 2 * Val(rest)
         /\ ~LtU(rest, d) => /\ ShiftL(n + 1, Sub(n + 1, rest, d), 1) \in Words(n + 1) /\ Val(d) <= Val(rest)
                             /\ Val(ShiftL(n + 1, Sub(n + 1, rest, d), 1)) = 2 * (Val(rest) - Val(d))
<1>1. n + 1 \in Nat /\ 1 \in 0..(n + 1) /\ d \in Words(n + 1) /\ n \in Nat
  BY DEF Words, Bits
<1>2. Power(1) = 2 /\ Power(n + 1) = 2 * Power(n)
  <2>1. 0 \in Nat /\ 0 + 1 = 1
    OBVIOUS
  <2> QED BY <1>1, <2>1, PowersDouble
<1>3. Val(d) \in Nat /\ Val(d) < Power(n) /\ Val(rest) \in Nat /\ Power(n) \in Nat
  BY <1>1, ValRange, PowersDouble DEF Power
<1>4. LtU(rest, d) <=> Val(rest) < Val(d)
  BY <1>1, ValOrder
<1>5. CASE LtU(rest, d)
  <2>1. Val(rest) * Power(1) < Power(n + 1)
    BY <1>2, <1>3, <1>4, <1>5
  <2>2. ShiftL(n + 1, rest, 1) \in Words(n + 1) /\ Val(ShiftL(n + 1, rest, 1)) = Val(rest) * Power(1)
    BY <1>1, <2>1, ShiftedLeft, Zenon
  <2> QED BY <1>2, <1>3, <1>4, <1>5, <2>2
<1>6. CASE ~LtU(rest, d)
  <2> DEFINE w == Sub(n + 1, rest, d)
  <2>1. w \in Words(n + 1) /\ Val(w) = Val(rest) - Val(d)
    <3>1. Val(rest) >= Val(d)
      BY <1>3, <1>4, <1>6
    <3> QED BY <1>1, <3>1, SubIsWord, ValSub, Zenon
  <2> HIDE DEF w
  <2>2. Val(w) * Power(1) < Power(n + 1)
    BY <1>2, <1>3, <1>4, <1>6, <2>1
  <2>3. ShiftL(n + 1, w, 1) \in Words(n + 1) /\ Val(ShiftL(n + 1, w, 1)) = Val(w) * Power(1)
    BY <1>1, <2>1, <2>2, ShiftedLeft, Zenon
  <2> QED BY <1>2, <1>3, <1>4, <1>6, <2>1, <2>3 DEF w
<1> QED BY <1>5, <1>6

\* Rounding a quotient to which a rest has added one lower digit is rounding
\* the dividend.
LEMMA StickyDigit ==
  ASSUME NEW f, Format(f), NEW q \in Nat, NEW d \in Nat \ {0}, NEW rest \in Nat, rest < 2 * d,
         NEW H \in Nat \ {0}, NEW K, NEW E, NEW v,
         RoundsTo(f, 2 * q + (IF rest = 0 THEN 0 ELSE 1), 2 * H, K, E, v)
  PROVE  RoundsTo(f, 2 * (d * q) + rest, (2 * H) * d, K, E, v)
<1> DEFINE X == 2 * q + (IF rest = 0 THEN 0 ELSE 1)
           N == 2 * (d * q) + rest
           T == 2 * H
<1>1. \A m \in Nat : /\ m * T <= X <=> m * (T * d) <= N
                     /\ X < m * T <=> N < m * (T * d)
                     /\ X = m * T <=> N = m * (T * d)
  <2> TAKE m \in Nat
  <2> DEFINE h == m * H
  <2>1. h \in Nat /\ m * T = 2 * h /\ m * (T * d) = 2 * (h * d) /\ d * q = q * d
    OBVIOUS
  <2> HIDE DEF h
  <2>2. h <= q <=> h * d <= q * d
    BY <2>1, TimesKeepsOrder
  <2>3. h = q <=> h * d = q * d
    BY <2>1, TimesKeepsOrder
  <2>4. q + 1 <= h <=> (q + 1) * d <= h * d
    <3>1. q + 1 \in Int
      OBVIOUS
    <3> QED BY <2>1, <3>1, TimesKeepsOrder
  <2>5. (q + 1) * d = q * d + d
    OBVIOUS
  <2> DEFINE hd == h * d
             qd == q * d
  <2>6. hd \in Nat /\ qd \in Nat /\ N = 2 * qd + rest /\ m * (T * d) = 2 * hd
        /\ (h <= q <=> hd <= qd) /\ (h = q <=> hd = qd) /\ (q + 1 <= h <=> qd + d <= hd)
    BY <2>1, <2>2, <2>3, <2>4, <2>5
  <2> HIDE DEF hd, qd, N, T
  <2>7. CASE h <= q
    <3>1. 2 * h <= X /\ 2 * hd <= N
      BY <2>1, <2>6, <2>7
    <3>2. X = 2 * h <=> N = 2 * hd
      BY <2>1, <2>6, <2>7
    <3> QED BY <2>1, <2>6, <3>1, <3>2
  <2>8. CASE q < h
    <3>1. X < 2 * h /\ N < 2 * hd
      BY <2>1, <2>6, <2>8
    <3> QED BY <2>1, <2>6, <3>1
  <2> QED BY <2>1, <2>7, <2>8
<1>2. X \in Nat /\ N \in Nat
  BY SMT
<1> HIDE DEF X, N, T
<1>3. RoundsTo(f, X, T, K, E, v)
  BY DEF X, T
<1>4. K \in Nat /\ 2 * K \in Nat /\ 2 * K + 1 \in Nat /\ 2 * K + 2 \in Nat
  BY <1>3 DEF RoundsTo
<1>5. \A m \in Nat : m * T \in Int /\ m * (T * d) \in Int
  BY DEF T
<1>6. \A m \in Nat : /\ X <= m * T <=> N <= m * (T * d)
                     /\ X >= m * T <=> N >= m * (T * d)
  BY <1>1, <1>2, <1>5
<1> QED BY <1>1, <1>3, <1>4, <1>6 DEF RoundsTo, N, T

\* A set of powers is put into a word of n bits with its greatest one in the
\* highest bit.
Aligned(p, n) ==
  LET i == Max(p)
      u == i + 1 - n
  IN /\ i \in p /\ i \in Int /\ n - 1 \in Nat /\ p \in SUBSET (u..i)
     /\ Shifted(p, n - 1 - i) \in Words(n) /\ Val(Shifted(p, n - 1 - i)) = Amount(p, u)
     /\ Amount(p, u) \in Nat /\ Power(n - 1) <= Amount(p, u) /\ Amount(p, u) < Power(n)

\* A word that is wide enough can hold it.
LEMMA AlignedWord ==
  ASSUME NEW B \in Int, NEW C \in Int, NEW p \in SUBSET (B..(C - 1)), p # {}, NEW n \in Nat, Length(p) <= n
  PROVE  Aligned(p, n)
<1> DEFINE i == Max(p)
           u == i + 1 - n
<1>1. i \in p /\ i \in Int /\ Min(p) \in Int /\ Min(p) <= i /\ \A k \in p : k <= i /\ Min(p) <= k
  BY Extrema
<1>2. Length(p) = i - Min(p) + 1
  BY DEF Length
<1> HIDE DEF i
<1>3. n - 1 \in Nat /\ u \in Int /\ i + 1 \in Int /\ u <= i + 1 /\ (i + 1) - u = n /\ n - 1 - i = -u
      /\ (i + 1) - 1 = i /\ (n - 1) + u = i /\ n - 1 \in Int
  BY <1>1, <1>2
<1>4. p \in SUBSET (u..i)
  <2>1. \A k \in p : k \in u..i
    BY <1>1, <1>2
  <2> QED BY <2>1
<1> HIDE DEF u
<1>5. p \in SUBSET (u..((i + 1) - 1))
  BY <1>3, <1>4
<1>6. Shifted(p, -u) \in Words(n) /\ Amount(p, u) \in Nat /\ Amount(p, u) < Power(n)
      /\ (n - 1 \in Shifted(p, -u) <=> (n - 1) + u \in p)
  BY <1>3, <1>5, AmountIs
<1>7. Power(n - 1) <= Amount(p, u)
  <2>1. n - 1 \in Shifted(p, -u) /\ n - 1 \notin Bits(n - 1)
    BY <1>1, <1>3, <1>6 DEF Bits
  <2>2. ~(Val(Shifted(p, -u)) < Power(n - 1))
    <3>1. Shifted(p, -u) \notin Words(n - 1)
      BY <2>1 DEF Words
    <3> QED BY <1>3, <1>6, <3>1, SmallWord
  <2>3. Power(n - 1) \in Nat
    BY <1>3, PowersDouble
  <2> QED BY <1>6, <2>2, <2>3 DEF Amount
<1> QED BY <1>1, <1>3, <1>4, <1>6, <1>7 DEF i, u, Amount, Aligned

\* i steps of the division of the word x by d, on n bits, leave a rest and
\* give digits.
Divided(n, x, d, i, state) ==
  /\ state.rest \in Words(n + 1) /\ Val(state.rest) < 2 * Val(d)
  /\ state.digits \in SUBSET ((1 - i)..0)
  /\ Val(x) * Power(i) = 2 * (Val(d) * Amount(state.digits, 1 - i)) + Val(state.rest)

\* One more step.
LEMMA DividedFurther ==
  ASSUME NEW n \in Nat \ {0}, NEW x \in Words(n), NEW d \in Words(n), NEW i \in Nat,
         NEW w, NEW z, w \in [rest : Words(n + 1), digits : SUBSET Int], Divided(n, x, d, i, w),
         z = (IF LtU(w.rest, d) THEN [w EXCEPT !.rest = ShiftL(n + 1, @, 1)]
              ELSE [rest   |-> ShiftL(n + 1, Sub(n + 1, w.rest, d), 1),
                    digits |-> w.digits \cup {1 - (i + 1)}])
  PROVE  Divided(n, x, d, i + 1, z)
<1> DEFINE D == 1 - i
           Q == Amount(w.digits, D)
           R == Val(w.rest)
           P == Power(i)
<1>1. /\ w.rest \in Words(n + 1) /\ R < 2 * Val(d) /\ w.digits \in SUBSET (D..0)
      /\ Val(x) * P = 2 * (Val(d) * Q) + R
  BY DEF Divided
<1>2. D \in Int /\ 1 \in Int /\ D <= 1 /\ 1 - (i + 1) = D - 1 /\ w.digits \in SUBSET (D..(1 - 1)) /\ 1 - 1 = 0
  BY <1>1
<1> HIDE DEF D
<1>3. /\ w.digits \in SUBSET ((D - 1)..0) /\ Amount(w.digits, D - 1) = 2 * Q
      /\ w.digits \cup {D - 1} \in SUBSET ((D - 1)..0) /\ Amount(w.digits \cup {D - 1}, D - 1) = 2 * Q + 1
  BY <1>2, LowestDigit
<1>4. Q \in Nat
  BY <1>2, AmountIs
<1>5. Power(i + 1) = 2 * P /\ P \in Nat
  BY PowersDouble
<1>6. Val(d) \in Nat /\ Val(x) \in Nat /\ R \in Nat
  <2>1. n \in Nat /\ n + 1 \in Nat
    OBVIOUS
  <2> QED BY <1>1, <2>1, ValRange
<1>7. Val(x) * Power(i + 1) = 2 * (2 * (Val(d) * Q) + R)
  <2> HIDE DEF Q, R, P
  <2> QED BY <1>1, <1>5, <1>6
<1>8. CASE LtU(w.rest, d)
  <2>1. z.rest = ShiftL(n + 1, w.rest, 1) /\ z.digits = w.digits
    BY <1>8
  <2>2. z.rest \in Words(n + 1) /\ R < Val(d) /\ Val(z.rest) = 2 * R
    BY <1>1, <1>8, <2>1, DivisionStep
  <2>3. Val(d) * (2 * Q) = 2 * (Val(d) * Q) /\ Val(d) * Q \in Nat
    <3> HIDE DEF Q
    <3> QED BY <1>4, <1>6
  <2>4. 2 * (2 * (Val(d) * Q) + R) = 2 * (Val(d) * (2 * Q)) + 2 * R
    <3> HIDE DEF Q, R
    <3> QED BY <1>6, <2>3
  <2>5. Val(z.rest) < 2 * Val(d)
    BY <1>6, <2>2
  <2> HIDE DEF Q, R, P
  <2> QED BY <1>2, <1>3, <1>7, <2>1, <2>2, <2>4, <2>5 DEF Divided
<1>9. CASE ~LtU(w.rest, d)
  <2>1. z.rest = ShiftL(n + 1, Sub(n + 1, w.rest, d), 1) /\ z.digits = w.digits \cup {D - 1}
    BY <1>2, <1>9
  <2>2. z.rest \in Words(n + 1) /\ Val(d) <= R /\ Val(z.rest) = 2 * (R - Val(d))
    BY <1>1, <1>9, <2>1, DivisionStep
  <2>3. Val(d) * (2 * Q + 1) = 2 * (Val(d) * Q) + Val(d) /\ Val(d) * Q \in Nat
    <3> HIDE DEF Q
    <3> QED BY <1>4, <1>6
  <2>4. 2 * (2 * (Val(d) * Q) + R) = 2 * (Val(d) * (2 * Q + 1)) + 2 * (R - Val(d))
    <3> HIDE DEF Q, R
    <3> QED BY <1>6, <2>3
  <2>5. Val(z.rest) < 2 * Val(d)
    BY <1>1, <1>6, <2>2
  <2> HIDE DEF Q, R, P
  <2> QED BY <1>2, <1>3, <1>7, <2>1, <2>2, <2>4, <2>5 DEF Divided
<1> QED BY <1>8, <1>9

\* Over divides digit by digit.
LEMMA OverDivides ==
  ASSUME NEW f, Format(f), NEW x, NEW p, x.pow = p, NEW y, NEW q, y.pow = q,
         NEW n \in Nat \ {0}, n = Max({Length(p), Length(q)}),
         NEW X, X = Shifted(p, n - 1 - Max(p)), X \in Words(n),
         NEW d, d = Shifted(q, n - 1 - Max(q)), d \in Words(n), Val(X) < 2 * Val(d)
  PROVE  \E w \in [rest : Words(n + 1), digits : SUBSET Int] :
           /\ Divided(n, X, d, f.man + 4, w)
           /\ Over(f, x, y).pow = Shifted(WithRest(w.digits, w.rest, f.man + 4), Max(p) - Max(q))
<1> DEFINE places == f.man + 4
           W == [rest : Words(n + 1), digits : SUBSET Int]
           Next(i, w) == IF LtU(w.rest, d) THEN [w EXCEPT !.rest = ShiftL(n + 1, @, 1)]
                         ELSE [rest   |-> ShiftL(n + 1, Sub(n + 1, w.rest, d), 1),
                               digits |-> w.digits \cup {1 - i}]
           start == [rest |-> X, digits |-> {}]
           H(h) == h = [i \in 0..places |-> IF i = 0 THEN start ELSE Next(i, h[i - 1])]
           after == CHOOSE h : H(h)
           G == [i \in 1..places |-> [w \in W |-> Next(i, w)]]
<1>1. places \in Nat
  BY DEF Format
<1>2. start \in W /\ X \in Words(n + 1)
  <2>1. Bits(n) \subseteq Bits(n + 1)
    BY DEF Bits
  <2>2. X \in Words(n + 1)
    BY <2>1 DEF Words
  <2> QED BY <2>2
<1>3. \A i \in 1..places : \A w \in W : Next(i, w) \in W
  <2> SUFFICES ASSUME NEW i \in 1..places, NEW w \in W
               PROVE  Next(i, w) \in W
    OBVIOUS
  <2>1. \A k : ShiftL(n + 1, k, 1) \in Words(n + 1)
    BY DEF ShiftL, Words
  <2>2. w.digits \cup {1 - i} \in SUBSET Int
    OBVIOUS
  <2> QED BY <2>1, <2>2
<1>4. Over(f, x, y).pow = Shifted(WithRest(after[places].digits, after[places].rest, places), Max(p) - Max(q))
  BY Zenon DEF Over
<1> HIDE DEF W, Next, start, places
<1>5. \A i \in 1..places : \A w \in W : G[i][w] = Next(i, w)
  OBVIOUS
<1>6. \A i \in 1..places : \A w \in W : G[i][w] \in W
  BY <1>3, <1>5
<1> HIDE DEF G
<1>7. PICK h \in [0..places -> W] : h[0] = start /\ \A i \in 1..places : h[i] = G[i][h[i - 1]]
  <2>1. Iterates(places, W, start, G)
    BY <1>1, <1>2, <1>6, RecursionExists, Zenon
  <2> QED BY <2>1, Zenon DEF Iterates
<1>8. \A i \in 1..places : i - 1 \in 0..places /\ h[i - 1] \in W /\ h[i] = Next(i, h[i - 1]) /\ i # 0
  <2> TAKE i \in 1..places
  <2>1. i - 1 \in 0..places /\ i # 0
    BY <1>1
  <2>2. h[i - 1] \in W
    BY <1>7, <2>1
  <2> QED BY <1>5, <1>7, <2>1, <2>2
<1>9. H(h)
  <2>1. \A i \in 0..places : h[i] = IF i = 0 THEN start ELSE Next(i, h[i - 1])
    BY <1>7, <1>8
  <2>2. h = [i \in 0..places |-> h[i]]
    BY <1>7
  <2> QED BY <2>1, <2>2
<1>10. H(after)
  <2> HIDE DEF H
  <2> QED BY <1>9
<1> HIDE DEF after
<1> DEFINE T == {i \in 0..places : after[i] \in W /\ Divided(n, X, d, i, after[i])}
<1>11. 0 \in T
  <2>1. after[0] = start /\ 0 \in 0..places
    BY <1>1, <1>10
  <2>2. start.rest = X /\ start.digits = {}
    BY DEF start
  <2>3. X \in Words(n + 1)
    BY <1>2
  <2>4. Val(X) \in Nat /\ Val(d) \in Nat
    BY ValRange
  <2>5. Amount({}, 1 - 0) = 0
    <3>1. Shifted({}, -(1 - 0)) = {}
      BY DEF Shifted
    <3> QED BY <3>1, ZeroIsZero DEF Amount
  <2>6. Power(0) = 1 /\ {} \in SUBSET ((1 - 0)..0)
    BY PowersDouble
  <2>7. Val(X) * Power(0) = 2 * (Val(d) * Amount({}, 1 - 0)) + Val(X)
    BY <2>4, <2>5, <2>6
  <2>8. Divided(n, X, d, 0, start)
    BY <2>2, <2>3, <2>6, <2>7 DEF Divided
  <2> QED BY <1>2, <2>1, <2>8
<1>12. \A i \in Bits(places) : i \in T => i + 1 \in T
  <2> SUFFICES ASSUME NEW i \in Bits(places), i \in T
               PROVE  i + 1 \in T
    OBVIOUS
  <2>1. i \in Nat /\ i + 1 \in 1..places /\ i + 1 \in 0..places /\ (i + 1) - 1 = i /\ i + 1 # 0
    BY <1>1 DEF Bits
  <2>2. after[i + 1] = Next(i + 1, after[i])
    BY <1>10, <2>1
  <2> DEFINE w == after[i]
             z == after[i + 1]
  <2>3. w \in W /\ Divided(n, X, d, i, w)
    OBVIOUS
  <2>4. z = Next(i + 1, w)
    BY <2>2
  <2>5. z \in W
    BY <1>3, <2>1, <2>3, <2>4
  <2> HIDE DEF w, z
  <2>6. Divided(n, X, d, i + 1, z)
    BY <2>1, <2>3, <2>4, DividedFurther, Zenon DEF Next, W
  <2> QED BY <2>1, <2>5, <2>6 DEF z
<1> HIDE DEF T, H
<1>13. \A i \in 0..places : i \in T
  BY <1>1, <1>11, <1>12, UpToTheWidth
<1>14. places \in T
  BY <1>1, <1>13
<1>15. after[places] \in W /\ Divided(n, X, d, places, after[places])
  BY <1>14 DEF T
<1> QED BY <1>4, <1>15 DEF W, places

\* Digits from D on, X units of 2^D in all, are rounded to r at a place above
\* the lowest of them.
RoundsDigits(f, r, negative, X, D) ==
  /\ r \in Words(Width(f)) /\ IsNegative(f, r) = negative /\ Place(f, r) <= Top(f)
  /\ \E K \in Nat, E \in Nat : /\ E + LowestPower(f) - D - 2 \in Nat
                               /\ RoundsTo(f, X, 2 * Power(E + LowestPower(f) - D - 2), K, E, Place(f, r))

\* Two digits more than the format keeps are enough.
LEMMA EnoughDigits ==
  ASSUME NEW f, Format(f), NEW x, NEW negative \in BOOLEAN, x.neg = negative, NEW D \in Int, NEW C \in Int, D <= C,
         NEW p \in SUBSET (D..(C - 1)), x.pow = p, Power(f.man + 3) <= Amount(p, D)
  PROVE  RoundsDigits(f, Rounded(f, x), negative, Amount(p, D), D)
<1> DEFINE L == LowestPower(f)
           B == IF D < L THEN D ELSE L - 1
           F == IF L <= C THEN C ELSE L
           X == Amount(p, D)
           r == Rounded(f, x)
           v == Place(f, r)
           m == f.man
           M == Power(m)
<1>1. L \in Int /\ m \in Nat
  BY LowestPowerIs DEF Format
<1> HIDE DEF L, m
<1>2. /\ B \in Int /\ F \in Int /\ B < L /\ L <= F /\ B <= D /\ D - B \in Nat /\ p \in SUBSET (B..(F - 1))
      /\ B <= F /\ m + 3 \in Nat /\ m + 2 \in Nat
  BY <1>1
<1>3. X \in Nat /\ Power(m + 3) \in Nat \ {0} /\ p # {} /\ Power(m + 3) <= X
  <2>1. X \in Nat /\ (p = {} <=> X = 0)
    BY AmountIs
  <2>2. Power(m + 3) \in Nat \ {0}
    BY <1>2, PowersDouble
  <2>3. Power(m + 3) <= X
    BY DEF m
  <2> HIDE DEF X
  <2> QED BY <2>1, <2>2, <2>3
<1> DEFINE Y == Amount(p, B)
<1>4. Y = X * Power(D - B)
  <2> HIDE DEF B
  <2> QED BY <1>2, ChangeOfBase, Zenon
<1> HIDE DEF B, F
<1>5. /\ r \in Words(Width(f)) /\ IsNegative(f, r) = negative /\ v <= Top(f)
      /\ \E K \in Nat, E \in Nat : E + L - B - 1 \in Nat /\ RoundsTo(f, Y, Power(E + L - B - 1), K, E, v)
  BY <1>2, <1>3, RoundedPattern DEF L
<1>6. PICK K \in Nat, E \in Nat : E + L - B - 1 \in Nat /\ RoundsTo(f, Y, Power(E + L - B - 1), K, E, v)
  BY <1>5
<1> HIDE DEF X, Y, r, v
<1> DEFINE s == D - B
           t == E + L - B - 1
<1>7. s \in Nat /\ t \in Nat
  BY <1>2, <1>6
<1>8. s + (m + 3) < t + (m + 2)
  <2> HIDE DEF s, t
  <2>1. Y < (2 * K + 2) * Power(t) /\ K < 2 * M
    BY <1>6 DEF RoundsTo, M, m, t
  <2>2. M \in Nat /\ Power(m + 2) = 4 * M
    <3>1. (m + 1) + 1 = m + 2 /\ m + 1 \in Nat
      BY <1>1
    <3>2. Power(m + 2) = 2 * Power(m + 1) /\ Power(m + 1) = 2 * Power(m) /\ M \in Nat
      BY <1>1, <3>1, PowersDouble
    <3> HIDE DEF M
    <3> QED BY <3>2 DEF M
  <2>3. 2 * K + 2 <= Power(m + 2) /\ Power(m + 2) \in Nat
    <3> HIDE DEF M
    <3> QED BY <2>1, <2>2
  <2>4. Power(t) \in Nat \ {0} /\ Power(s) \in Nat \ {0}
    BY <1>7, PowersDouble
  <2>5. (2 * K + 2) * Power(t) <= Power(m + 2) * Power(t)
    <3>1. 2 * K + 2 \in Int /\ Power(m + 2) \in Int
      BY <2>3
    <3> QED BY <2>3, <2>4, <3>1, TimesKeepsOrder, Zenon
  <2>6. Power(m + 3) * Power(s) <= X * Power(s)
    <3>1. X \in Int /\ Power(m + 3) \in Int
      BY <1>3
    <3> QED BY <1>3, <2>4, <3>1, TimesKeepsOrder, Zenon
  <2>7. Power(s + (m + 3)) = Power(s) * Power(m + 3) /\ Power(t + (m + 2)) = Power(t) * Power(m + 2)
    BY <1>2, <1>7, PowersAdd, Zenon
  <2>8. Power(s + (m + 3)) < Power(t + (m + 2))
    <3> DEFINE i == Power(s)
               j == Power(t)
               g == Power(m + 2)
               h == Power(m + 3)
    <3>1. /\ Y < (2 * K + 2) * j /\ (2 * K + 2) * j <= g * j /\ h * i <= X * i /\ Y = X * i
          /\ i \in Nat /\ j \in Nat /\ g \in Nat /\ h \in Nat /\ X \in Nat
      BY <1>3, <1>4, <2>1, <2>3, <2>4, <2>5, <2>6 DEF s
    <3> HIDE DEF i, j, g, h
    <3>2. /\ h * i \in Int /\ g * j \in Int /\ X * i \in Int /\ (2 * K + 2) * j \in Int /\ h * i = i * h /\ g * j = j * g
      BY <3>1
    <3>3. i * h < j * g
      BY <3>1, <3>2
    <3> QED BY <2>7, <3>3 DEF i, j, g, h
  <2>9. s + (m + 3) \in Nat /\ t + (m + 2) \in Nat
    BY <1>2, <1>7
  <2>10. CASE t + (m + 2) <= s + (m + 3)
    <3>1. Power(t + (m + 2)) <= Power(s + (m + 3))
      BY <2>9, <2>10, PowersGrow
    <3>2. Power(t + (m + 2)) \in Nat /\ Power(s + (m + 3)) \in Nat
      BY <2>9, PowersDouble
    <3> QED BY <2>8, <3>1, <3>2
  <2> QED BY <2>9, <2>10
<1> DEFINE j == E + L - D - 2
<1>9. j \in Nat /\ t = (j + 1) + s /\ j + 1 \in Nat
  BY <1>1, <1>2, <1>7, <1>8
<1>10. Power(j + 1) = 2 * Power(j) /\ Power(j + 1) \in Nat \ {0}
  BY <1>9, PowersDouble
<1>11. Power(t) = Power(j + 1) * Power(s) /\ Power(s) \in Nat \ {0}
  <2> HIDE DEF j, s, t
  <2>1. Power((j + 1) + s) = Power(j + 1) * Power(s)
    BY <1>7, <1>9, PowersAdd, Zenon
  <2> QED BY <1>7, <1>9, <2>1, PowersDouble
<1>12. RoundsTo(f, X, Power(j + 1), K, E, v)
  <2>1. RoundsTo(f, X * Power(s), Power(j + 1) * Power(s), K, E, v)
    BY <1>4, <1>6, <1>11
  <2> HIDE DEF j, s, t
  <2> QED BY <1>3, <1>10, <1>11, <2>1, ScaledRounding
<1> QED BY <1>5, <1>9, <1>10, <1>12 DEF RoundsDigits, L, r, v, X

\* The quotient of two aligned words is that of the numbers they come from.
LEMMA QuotientScales ==
  ASSUME NEW f, Format(f), NEW L, L = LowestPower(f), NEW C \in Nat,
         NEW p \in SUBSET (L..(C - 1)), NEW q \in SUBSET (L..(C - 1)), q # {},
         NEW u \in Int, NEW w \in Int, u <= C, w <= C, p \in SUBSET (u..(C - 1)), q \in SUBSET (w..(C - 1)),
         NEW P \in Nat \ {0}, NEW E \in Nat, NEW h \in Nat, h = E + L - (u - w - P) - 2, NEW K, NEW v,
         RoundsTo(f, Amount(p, u) * Power(P), (2 * Power(h)) * Amount(q, w), K, E, v)
  PROVE  RoundsTo(f, 2 * (UnitsInOne(f) * Amount(p, L)), Power(E) * Amount(q, L), K, E, v)
<1>1. L \in Int /\ L <= -1 /\ UnitsInOne(f) = Power(-L) /\ -L \in Nat
  BY LowestPowerIs
<1> DEFINE Z == C - 2 * L
           i == Z - u + L
           j == Z - w + L
           Y == i + P + L - 1
<1>2. /\ Z \in Nat /\ i \in Nat /\ j \in Nat /\ Y \in Nat /\ Z - i = u - L /\ Z - j = w - L /\ L <= C
      /\ i + P = (-L + 1) + Y /\ (h + 1) + j = E + Y /\ -L + 1 \in Nat /\ h + 1 \in Nat
  BY <1>1
<1> HIDE DEF Z, i, j, Y
<1>3. /\ Amount(p, u) * Power(Z) = Amount(p, L) * Power(i)
      /\ Amount(q, w) * Power(Z) = Amount(q, L) * Power(j)
  <2>1. /\ L \in Int /\ C \in Int /\ u <= C /\ w <= C /\ L <= C /\ Z \in Nat /\ i \in Nat /\ j \in Nat
        /\ Z - i = u - L /\ Z - j = w - L
    BY <1>1, <1>2
  <2>2. SameAmount(p, u, L, Z, i)
    BY <2>1, AmountScales, Zenon
  <2>3. SameAmount(q, w, L, Z, j)
    BY <2>1, AmountScales, Zenon
  <2> QED BY <2>2, <2>3 DEF SameAmount
<1>4. /\ Amount(p, u) \in Nat /\ Amount(p, L) \in Nat /\ Amount(q, w) \in Nat \ {0} /\ Amount(q, L) \in Nat \ {0}
  <2>1. /\ Amount(p, u) \in Nat /\ Amount(p, L) \in Nat
        /\ Amount(q, w) \in Nat /\ (q = {} <=> Amount(q, w) = 0)
        /\ Amount(q, L) \in Nat /\ (q = {} <=> Amount(q, L) = 0)
    <3>1. L \in Int /\ C \in Int /\ u <= C /\ w <= C /\ L <= C
      BY <1>1, <1>2
    <3> QED BY <3>1, AmountIs, Zenon
  <2> QED BY <2>1
<1>5. /\ \A g \in Nat : Power(g) \in Nat \ {0} /\ Power(g + 1) = 2 * Power(g)
      /\ \A g \in Nat, k \in Nat : Power(g + k) = Power(g) * Power(k)
  BY PowersDouble, PowersAdd
<1>6. (Amount(p, u) * Power(P)) * Power(Z) = (2 * (UnitsInOne(f) * Amount(p, L))) * Power(Y)
  <2>1. Power(i + P) = Power(i) * Power(P) /\ Power((-L + 1) + Y) = Power(-L + 1) * Power(Y)
    BY <1>2, <1>5
  <2>2. Power(-L + 1) = 2 * Power(-L)
    BY <1>1, <1>5
  <2> DEFINE x == Amount(p, u)
             y == Amount(p, L)
             r == Power(P)
             s == Power(Z)
             t == Power(Y)
             z == Power(-L)
             g == Power(i)
  <2>3. x \in Nat /\ y \in Nat /\ r \in Nat /\ s \in Nat /\ t \in Nat /\ z \in Nat /\ g \in Nat
    BY <1>1, <1>2, <1>4, <1>5
  <2>4. x * s = y * g /\ g * r = (2 * z) * t
    BY <1>2, <1>3, <2>1, <2>2
  <2> HIDE DEF x, y, r, s, t, z, g
  <2>5. (x * r) * s = (x * s) * r /\ (y * g) * r = y * (g * r) /\ y * ((2 * z) * t) = (2 * (z * y)) * t
    BY <2>3
  <2>6. (x * r) * s = (2 * (z * y)) * t
    BY <2>4, <2>5
  <2> QED BY <1>1, <2>6 DEF x, y, r, s, t, z
<1>7. ((2 * Power(h)) * Amount(q, w)) * Power(Z) = (Power(E) * Amount(q, L)) * Power(Y)
  <2>1. Power((h + 1) + j) = (2 * Power(h)) * Power(j) /\ Power(E + Y) = Power(E) * Power(Y)
    BY <1>2, <1>5
  <2> DEFINE x == Amount(q, w)
             y == Amount(q, L)
             r == 2 * Power(h)
             s == Power(Z)
             t == Power(Y)
             z == Power(E)
             g == Power(j)
  <2>2. x \in Nat /\ y \in Nat /\ r \in Nat /\ s \in Nat /\ t \in Nat /\ z \in Nat /\ g \in Nat
    <3>1. Power(h) \in Nat
      BY <1>5
    <3>2. r \in Nat
      BY <3>1
    <3> HIDE DEF r
    <3> QED BY <1>2, <1>4, <1>5, <3>2
  <2>3. x * s = y * g /\ r * g = z * t
    BY <1>2, <1>3, <2>1
  <2> HIDE DEF x, y, r, s, t, z, g
  <2>4. (r * x) * s = r * (x * s) /\ r * (y * g) = y * (r * g) /\ y * (z * t) = (z * y) * t
    BY <2>2
  <2>5. (r * x) * s = (z * y) * t
    BY <2>3, <2>4
  <2> QED BY <2>5 DEF x, y, r, s, t, z
<1> DEFINE X == Amount(p, u) * Power(P)
           T == (2 * Power(h)) * Amount(q, w)
           F == 2 * (UnitsInOne(f) * Amount(p, L))
           G == Power(E) * Amount(q, L)
<1>8. X \in Nat /\ T \in Nat \ {0} /\ F \in Nat /\ G \in Nat \ {0}
  <2>1. \A g \in Nat, k \in Nat : g * k \in Nat /\ 2 * (g * k) \in Nat
    BY SMT
  <2>2. \A g \in Nat \ {0}, k \in Nat \ {0} : g * k \in Nat \ {0} /\ (2 * g) * k \in Nat \ {0}
    BY SMT
  <2> QED BY <1>1, <1>4, <1>5, <2>1, <2>2
<1>9. X * Power(Z) = F * Power(Y) /\ T * Power(Z) = G * Power(Y) /\ Power(Z) \in Nat \ {0} /\ Power(Y) \in Nat \ {0}
  BY <1>2, <1>5, <1>6, <1>7
<1>10. RoundsTo(f, X, T, K, E, v)
  OBVIOUS
<1> HIDE DEF X, T, F, G
<1>11. RoundsTo(f, X * Power(Z), T * Power(Z), K, E, v)
  BY <1>8, <1>9, <1>10, ScaledRounding
<1>12. RoundsTo(f, F, G, K, E, v)
  BY <1>8, <1>9, <1>11, ScaledRounding
<1> QED BY <1>12 DEF F, G

\* The digits, with a lower one if there is a rest, moved to place k.
LEMMA WithRestIs ==
  ASSUME NEW P \in Nat \ {0}, NEW digits \in SUBSET ((1 - P)..0), NEW rest, NEW k \in Int,
         NEW w, w = Shifted(WithRest(digits, rest, P), k), NEW D, D = k - P
  PROVE  /\ D \in Int /\ k + 1 \in Int /\ D <= k + 1 /\ w \in SUBSET (D..((k + 1) - 1))
         /\ Amount(digits, 1 - P) \in Nat
         /\ Amount(w, D) = 2 * Amount(digits, 1 - P) + IF rest = {} THEN 0 ELSE 1
<1> DEFINE B == 1 - P
           g == WithRest(digits, rest, P)
<1>1. B \in Int /\ 1 \in Int /\ B <= 1 /\ B - 1 = -P /\ 1 - 1 = 0 /\ digits \in SUBSET (B..(1 - 1))
      /\ -P \in Int /\ -P + k = D /\ D \in Int /\ k + 1 \in Int /\ D <= k + 1
  OBVIOUS
<1> HIDE DEF B
<1>2. /\ digits \in SUBSET ((B - 1)..(1 - 1)) /\ Amount(digits, B - 1) = 2 * Amount(digits, B)
      /\ digits \cup {B - 1} \in SUBSET ((B - 1)..(1 - 1))
      /\ Amount(digits \cup {B - 1}, B - 1) = 2 * Amount(digits, B) + 1
  BY <1>1, LowestDigit
<1>3. Amount(digits, B) \in Nat
  BY <1>1, AmountIs
<1>4. g \in SUBSET ((-P)..0) /\ Amount(g, -P) = 2 * Amount(digits, B) + IF rest = {} THEN 0 ELSE 1
  <2>1. CASE rest = {}
    <3>1. g = digits
      BY <2>1 DEF WithRest
    <3> HIDE DEF g
    <3> QED BY <1>1, <1>2, <1>3, <2>1, <3>1
  <2>2. CASE rest # {}
    <3>1. g = digits \cup {-P}
      BY <2>2 DEF WithRest
    <3> HIDE DEF g
    <3> QED BY <1>1, <1>2, <1>3, <2>2, <3>1
  <2> QED BY <2>1, <2>2
<1>5. w = Shifted(g, k)
  OBVIOUS
<1> HIDE DEF g
<1>6. w \in SUBSET (D..((k + 1) - 1))
  <2>1. \A e \in g : e + k \in D..((k + 1) - 1)
    BY <1>1, <1>4
  <2> QED BY <1>5, <2>1 DEF Shifted
<1>7. Amount(w, D) = Amount(g, -P)
  <2>1. g \in SUBSET Int
    <3>1. \A e \in g : e \in Int
      BY <1>4
    <3> QED BY <3>1
  <2> QED BY <1>1, <1>5, <2>1, ShiftedBase
<1> QED BY <1>1, <1>3, <1>4, <1>6, <1>7 DEF B

\* There are enough digits for a quotient: its highest one is one of the first
\* two.
LEMMA QuotientIsLong ==
  ASSUME NEW n \in Nat, NEW x \in Nat, NEW d \in Nat, Power(n) <= x, d < 2 * Power(n), NEW m \in Nat,
         NEW q \in Nat, NEW rest \in Nat, rest < 2 * d, x * Power(m + 4) = 2 * (d * q) + rest
  PROVE  Power(m + 3) <= 2 * q
<1> DEFINE N == Power(n)
           M == Power(m + 2)
<1>1. N \in Nat \ {0} /\ M \in Nat \ {0} /\ Power(m + 3) = 2 * M /\ Power(m + 4) = 4 * M
  <2>1. m + 2 \in Nat /\ (m + 2) + 1 = m + 3 /\ m + 3 \in Nat /\ (m + 3) + 1 = m + 4
    OBVIOUS
  <2>2. Power((m + 2) + 1) = 2 * Power(m + 2) /\ Power((m + 3) + 1) = 2 * Power(m + 3) /\ N \in Nat \ {0}
        /\ M \in Nat \ {0}
    BY <2>1, PowersDouble
  <2> HIDE DEF M, N
  <2> QED BY <2>1, <2>2 DEF M
<1>2. CASE q < M
  <2>1. q + 1 \in Nat /\ q + 1 <= M
    BY <1>1, <1>2
  <2> HIDE DEF M, N
  <2>2. 2 * (d * q) + rest < 2 * (d * (q + 1))
    <3>1. d * (q + 1) = d * q + d /\ d * q \in Nat
      OBVIOUS
    <3> QED BY <3>1
  <2>3. d * (q + 1) <= d * M
    <3>1. d > 0 /\ d \in Nat \ {0}
      OBVIOUS
    <3>2. q + 1 \in Int /\ M \in Int
      BY <1>1
    <3>3. (q + 1) * d <= M * d
      BY <2>1, <3>1, <3>2, TimesKeepsOrder, Zenon
    <3> QED BY <1>1, <3>3
  <2>4. d * M < (2 * N) * M
    <3>1. 2 * N \in Int /\ d < 2 * N /\ d \in Int
      BY <1>1 DEF N
    <3> QED BY <1>1, <3>1, TimesKeepsOrder, Zenon
  <2>5. N * (4 * M) <= x * (4 * M)
    <3>1. 4 * M \in Nat \ {0} /\ N \in Int /\ x \in Int /\ N <= x
      BY <1>1 DEF N
    <3> QED BY <3>1, TimesKeepsOrder, Zenon
  <2>6. N * (4 * M) = 2 * ((2 * N) * M) /\ N * (4 * M) \in Int /\ (2 * N) * M \in Int /\ d * M \in Int
        /\ x * (4 * M) \in Int /\ d * (q + 1) \in Int
    BY <1>1
  <2>7. x * (4 * M) = 2 * (d * q) + rest
    BY <1>1
  <2> DEFINE c == x * (4 * M)
             g == N * (4 * M)
             h == (2 * N) * M
             i == d * M
             j == d * (q + 1)
  <2>8. c < 2 * j /\ j <= i /\ i < h /\ g <= c /\ g = 2 * h /\ c \in Int /\ g \in Int /\ h \in Int /\ i \in Int /\ j \in Int
    BY <2>2, <2>3, <2>4, <2>5, <2>6, <2>7
  <2> HIDE DEF c, g, h, i, j
  <2> QED BY <2>8
<1>3. CASE q >= M
  <2> HIDE DEF M
  <2> QED BY <1>1, <1>3
<1> HIDE DEF M
<1> QED BY <1>1, <1>2, <1>3

\* Rounding what Over gives finds the number nearest to the quotient.
LEMMA QuotientIsNearest ==
  ASSUME NEW f, Format(f), NEW L, L = LowestPower(f), NEW C \in Nat,
         NEW x, NEW p \in SUBSET (L..(C - 1)), x.pow = p, p # {}, x.neg \in BOOLEAN,
         NEW y, NEW q \in SUBSET (L..(C - 1)), y.pow = q, q # {}, y.neg \in BOOLEAN,
         NEW N, N = UnitsInOne(f) * Amount(p, L)
  PROVE  IsNearest(f, Rounded(f, Over(f, x, y)), IF x.neg # y.neg THEN -N ELSE N, Amount(q, L))
<1> DEFINE n == Max({Length(p), Length(q)})
           i == Max(p)
           j == Max(q)
           u == i + 1 - n
           w == j + 1 - n
           P == f.man + 4
           z == Over(f, x, y)
           r == Rounded(f, z)
           v == Place(f, r)
           X == Shifted(p, n - 1 - i)
           d == Shifted(q, n - 1 - j)
           negative == x.neg # y.neg
<1>1. L \in Int /\ L <= -1 /\ C \in Int /\ L <= 0 /\ 0 <= C /\ L <= C /\ UnitsInOne(f) = Power(-L) /\ -L \in Nat
      /\ f.man \in Nat /\ P \in Nat \ {0}
  BY LowestPowerIs DEF Format
<1>2. n \in Nat /\ Length(p) <= n /\ Length(q) <= n
  <2>1. Length(p) \in Nat /\ Length(q) \in Nat
    BY <1>1, NormalWord
  <2> DEFINE e == Length(p)
             c == Length(q)
  <2>2. e \in Int /\ c \in Int /\ e \in Nat /\ c \in Nat
    BY <2>1
  <2>3. n = Max({e, c})
    OBVIOUS
  <2> HIDE DEF e, c, n
  <2>4. n = IF e >= c THEN e ELSE c
    BY <2>2, <2>3, MaxOfTwo, Zenon
  <2> QED BY <2>2, <2>4 DEF e, c
<1> HIDE DEF n
<1>3. /\ i \in p /\ i \in Int /\ n - 1 \in Nat /\ p \in SUBSET (u..i) /\ X \in Words(n) /\ Val(X) = Amount(p, u)
      /\ Amount(p, u) \in Nat /\ Power(n - 1) <= Amount(p, u) /\ Amount(p, u) < Power(n)
  <2>1. Aligned(p, n)
    BY <1>1, <1>2, AlignedWord, Zenon
  <2> QED BY <2>1, Zenon DEF Aligned
<1>4. /\ j \in q /\ j \in Int /\ n - 1 \in Nat /\ q \in SUBSET (w..j) /\ d \in Words(n) /\ Val(d) = Amount(q, w)
      /\ Amount(q, w) \in Nat /\ Power(n - 1) <= Amount(q, w) /\ Amount(q, w) < Power(n)
  <2>1. Aligned(q, n)
    BY <1>1, <1>2, AlignedWord, Zenon
  <2> QED BY <2>1, Zenon DEF Aligned
<1>5. n \in Nat \ {0} /\ Power(n) = 2 * Power(n - 1) /\ Power(n - 1) \in Nat \ {0}
  <2>1. (n - 1) + 1 = n /\ n \in Nat \ {0}
    BY <1>2, <1>3
  <2> QED BY <1>3, <2>1, PowersDouble
<1>6. z.neg = negative /\ negative \in BOOLEAN
  BY DEF Over
<1> HIDE DEF z, negative
<1>7. PICK state \in [rest : Words(n + 1), digits : SUBSET Int] :
        /\ Divided(n, X, d, P, state)
        /\ z.pow = Shifted(WithRest(state.digits, state.rest, P), i - j)
  <2>1. Val(X) < 2 * Val(d) /\ X \in Words(n) /\ d \in Words(n) /\ n \in Nat \ {0}
    <3>1. Amount(p, u) < 2 * Amount(q, w)
      <4> HIDE DEF u, w
      <4> QED BY <1>3, <1>4, <1>5
    <3> QED BY <1>3, <1>4, <1>5, <3>1
  <2>2. n = Max({Length(p), Length(q)})
    BY DEF n
  <2> HIDE DEF X, d
  <2> QED BY <2>1, <2>2, OverDivides DEF z, X, d
<1> DEFINE Q == Amount(state.digits, 1 - P)
           R == Val(state.rest)
           g == WithRest(state.digits, state.rest, P)
           k == i - j
           D == k - P
           s == IF R = 0 THEN 0 ELSE 1
<1> HIDE DEF i, j, X, d, P, Q, R, g
<1>8. /\ R < 2 * Amount(q, w) /\ R \in Nat /\ state.digits \in SUBSET ((1 - P)..0)
      /\ Amount(p, u) * Power(P) = 2 * (Amount(q, w) * Q) + R
      /\ (state.rest = {} <=> R = 0)
  <2>1. /\ state.rest \in Words(n + 1) /\ Val(state.rest) < 2 * Val(d) /\ state.digits \in SUBSET ((1 - P)..0)
        /\ Val(X) * Power(P) = 2 * (Val(d) * Q) + R
    BY <1>7 DEF Divided, Q, R
  <2>2. n + 1 \in Nat /\ {} \in Words(n + 1)
    BY <1>2, ZeroIsWord
  <2>3. R \in Nat
    BY <2>1, <2>2, ValRange DEF R
  <2>4. state.rest = {} <=> R = 0
    BY <2>1, <2>2, ZeroIsZero, ValInjective, Zenon DEF R
  <2> QED BY <1>3, <1>4, <2>1, <2>3, <2>4 DEF R
<1> DEFINE h == Shifted(g, k)
<1>9. z.pow = h
  BY <1>7 DEF g
<1>10. k \in Int
  BY <1>3, <1>4
<1>11. /\ D \in Int /\ k + 1 \in Int /\ D <= k + 1 /\ h \in SUBSET (D..((k + 1) - 1)) /\ Q \in Nat
       /\ Amount(h, D) = 2 * Q + IF state.rest = {} THEN 0 ELSE 1
  <2> HIDE DEF k
  <2> QED BY <1>1, <1>8, <1>10, WithRestIs DEF g, Q
<1>12. Amount(h, D) = 2 * Q + s
  BY <1>8, <1>11
<1> HIDE DEF h, D, k
<1>13. Power(f.man + 3) <= Amount(h, D)
  <2>1. Power(f.man + 3) <= 2 * Q
    <3> DEFINE e == Amount(p, u)
               c == Amount(q, w)
    <3>1. /\ n - 1 \in Nat /\ e \in Nat /\ c \in Nat /\ Power(n - 1) <= e /\ c < 2 * Power(n - 1)
          /\ e * Power(f.man + 4) = 2 * (c * Q) + R /\ R < 2 * c /\ R \in Nat /\ Q \in Nat
      BY <1>3, <1>4, <1>5, <1>8, <1>11 DEF i, j, P
    <3> HIDE DEF e, c
    <3> QED BY <1>1, <3>1, QuotientIsLong
  <2>2. Power(f.man + 3) \in Nat
    <3>1. f.man + 3 \in Nat
      BY <1>1
    <3> QED BY <3>1, PowersDouble
  <2> QED BY <1>11, <1>12, <2>1, <2>2
<1>14. RoundsDigits(f, Rounded(f, z), negative, Amount(h, D), D)
  BY <1>6, <1>9, <1>11, <1>13, EnoughDigits, Zenon
<1>15. /\ r \in Words(Width(f)) /\ IsNegative(f, r) = negative /\ v <= Top(f)
       /\ \E K \in Nat, E \in Nat : /\ E + L - D - 2 \in Nat
                                    /\ RoundsTo(f, 2 * Q + s, 2 * Power(E + L - D - 2), K, E, v)
  BY <1>12, <1>14 DEF RoundsDigits
<1> HIDE DEF r, v
<1>16. PICK K \in Nat, E \in Nat : /\ E + L - D - 2 \in Nat
                                   /\ RoundsTo(f, 2 * Q + s, 2 * Power(E + L - D - 2), K, E, v)
  BY <1>15
<1> DEFINE t == E + L - D - 2
           e == Amount(p, u)
           c == Amount(q, w)
<1>17. RoundsTo(f, e * Power(P), (2 * Power(t)) * c, K, E, v)
  <2>1. /\ t \in Nat /\ e \in Nat /\ c \in Nat \ {0} /\ R \in Nat /\ R < 2 * c /\ Q \in Nat
        /\ e * Power(P) = 2 * (c * Q) + R
        /\ RoundsTo(f, 2 * Q + (IF R = 0 THEN 0 ELSE 1), 2 * Power(t), K, E, v)
    <3>1. c \in Nat \ {0}
      <4>1. c \in Nat /\ Power(n - 1) <= c
        BY <1>4 DEF j
      <4> HIDE DEF c
      <4> QED BY <1>5, <4>1
    <3> QED BY <1>3, <1>8, <1>11, <1>16, <3>1 DEF i
  <2> HIDE DEF t, e, c
  <2>2. Power(t) \in Nat \ {0}
    BY <2>1, PowersDouble
  <2>3. RoundsTo(f, 2 * (c * Q) + R, (2 * Power(t)) * c, K, E, v)
    BY <2>1, <2>2, StickyDigit
  <2> QED BY <2>1, <2>3
<1>18. RoundsTo(f, 2 * (UnitsInOne(f) * Amount(p, L)), Power(E) * Amount(q, L), K, E, v)
  <2>1. /\ i \in Int /\ j \in Int /\ i \in L..(C - 1) /\ j \in L..(C - 1)
        /\ p \in SUBSET (u..i) /\ q \in SUBSET (w..j)
    BY <1>3, <1>4 DEF i, j
  <2>2. /\ u \in Int /\ w \in Int /\ u <= C /\ w <= C /\ i - j = u - w /\ t = E + L - (u - w - P) - 2 /\ t \in Nat
    BY <1>1, <1>5, <1>16, <2>1 DEF D, k
  <2>3. p \in SUBSET (u..(C - 1)) /\ q \in SUBSET (w..(C - 1))
    <3>1. u..i \subseteq u..(C - 1) /\ w..j \subseteq w..(C - 1)
      <4> HIDE DEF u, w
      <4> QED BY <1>1, <2>1, <2>2
    <3> QED BY <2>1, <3>1
  <2> HIDE DEF t, u, w
  <2> QED BY <1>1, <1>17, <2>2, <2>3, QuotientScales, Zenon DEF t
<1> DEFINE b1 == Amount(q, L)
           m == IF negative THEN -N ELSE N
<1>19. Amount(p, L) \in Nat \ {0} /\ b1 \in Nat \ {0} /\ N \in Nat \ {0}
  <2>1. /\ Amount(p, L) \in Nat /\ (p = {} <=> Amount(p, L) = 0)
        /\ Amount(q, L) \in Nat /\ (q = {} <=> Amount(q, L) = 0)
    BY <1>1, AmountIs, Zenon
  <2>2. Power(-L) \in Nat \ {0}
    BY <1>1, PowersDouble
  <2> DEFINE c0 == Amount(p, L)
             c1 == Power(-L)
  <2>3. c0 \in Nat \ {0} /\ c1 \in Nat \ {0} /\ N = c1 * c0 /\ b1 \in Nat \ {0}
    BY <1>1, <2>1, <2>2
  <2> HIDE DEF c0, c1
  <2> QED BY <2>3 DEF c0
<1> HIDE DEF b1
<1>20. RoundsTo(f, 2 * N, Power(E) * b1, K, E, v)
  BY <1>18 DEF b1
<1>21. m \in Int /\ AbsVal(m) = N /\ (m < 0 => negative) /\ (m > 0 => ~negative) /\ m # 0
  BY <1>19 DEF AbsVal
<1> HIDE DEF m
<1>22. \A e1 \in Nat : e1 <= Top(f) =>
         \/ AbsVal(Grid(f, v) * b1 - N) < AbsVal(Grid(f, e1) * b1 - N)
         \/ e1 = v
         \/ AbsVal(Grid(f, v) * b1 - N) = AbsVal(Grid(f, e1) * b1 - N) /\ v % 2 = 0
  BY <1>15, <1>19, <1>20, NearestPlace
<1>23. IsNearest(f, r, m, b1)
  BY <1>15, <1>19, <1>21, <1>22, NearestPattern DEF v
<1> QED BY <1>23 DEF r, z, m, negative, b1

\* A zero is the number nearest to no units.
LEMMA ZeroIsNearest ==
  ASSUME NEW f, Format(f), NEW negative \in BOOLEAN, NEW d \in Nat \ {0}
  PROVE  IsNearest(f, WithSign(f, negative, {}), 0, d)
<1> DEFINE x == [neg |-> negative, pow |-> {}]
           L == LowestPower(f)
           B == L - 1
<1>1. x.neg = negative /\ x.pow = {} /\ L \in Int /\ B \in Int /\ B < L /\ L <= L /\ {} \in SUBSET (B..(L - 1))
      /\ 0 \in Int /\ ~(0 < 0) /\ ~(0 > 0) /\ L - B = 1
  BY LowestPowerIs
<1>2. Rounded(f, x) = WithSign(f, negative, {})
  BY <1>1 DEF Rounded
<1>3. Amount({}, B) * d = AbsVal(0) * Power(L - B)
  <2>1. Shifted({}, -B) = {}
    BY DEF Shifted
  <2>2. Amount({}, B) = 0
    BY <2>1, ZeroIsZero DEF Amount
  <2>3. Power(L - B) \in Nat
    BY <1>1, PowersDouble
  <2> QED BY <2>2, <2>3 DEF AbsVal
<1> HIDE DEF x, B
<1>4. IsNearest(f, Rounded(f, x), 0, d)
  <2>1. L = LowestPower(f)
    OBVIOUS
  <2> HIDE DEF L
  <2> QED BY <1>1, <1>3, <2>1, RoundedIsNearest
<1> QED BY <1>2, <1>4

\* The quotient of finite numbers.
LEMMA DivisionIsNearest ==
  ASSUME NEW f, Format(f), NEW x, Finite(f, x), NEW y, Finite(f, y), Units(f, y) # 0,
         NEW N, N = UnitsInOne(f) * Units(f, x)
  PROVE  \E r : fdiv(f, x, y) = {r} /\ IsNearest(f, r, IF Units(f, y) < 0 THEN -N ELSE N, AbsVal(Units(f, y)))
<1> DEFINE u == Units(f, x)
           v == Units(f, y)
           s == IsNegative(f, x)
           t == IsNegative(f, y)
           X == Exact(f, x)
           Y == Exact(f, y)
           p == X.pow
           q == Y.pow
           L == LowestPower(f)
           C == 2 + 2^(f.exp - 1)
           d == UnitsInOne(f)
<1>1. /\ L \in Int /\ C \in Int /\ C >= 4 /\ L < 0 /\ d = Power(-L) /\ d \in Nat \ {0}
      /\ p \in SUBSET (L..(C - 1)) /\ X.neg = s /\ s \in BOOLEAN /\ Amount(p, L) = AbsVal(u)
      /\ q \in SUBSET (L..(C - 1)) /\ Y.neg = t /\ t \in BOOLEAN /\ Amount(q, L) = AbsVal(v)
  BY PowersOfExact
<1>2. /\ u \in Int /\ AbsVal(u) \in Nat /\ u = (IF s THEN -AbsVal(u) ELSE AbsVal(u))
      /\ v \in Int /\ AbsVal(v) \in Nat /\ v = (IF t THEN -AbsVal(v) ELSE AbsVal(v)) /\ v # 0
      /\ (u = 0 <=> Place(f, x) = 0) /\ (v = 0 <=> Place(f, y) = 0)
  <2>1. /\ u \in Int /\ AbsVal(u) \in Nat /\ v \in Int /\ AbsVal(v) \in Nat
        /\ (u = 0 <=> Place(f, x) = 0) /\ (v = 0 <=> Place(f, y) = 0)
    BY UnitsSign
  <2> QED BY <2>1, SignedUnits, Zenon
<1>3. /\ IsZero(f, x) <=> u = 0
      /\ ~IsZero(f, y)
  BY <1>2, ClassesOfPlace, Zenon
<1>4. \A k \in {x, y} : ~IsNaN(f, k) /\ ~IsInf(f, k)
  BY FiniteIs
<1>5. fdiv(f, x, y) = IF u = 0 THEN {WithSign(f, s # t, {})} ELSE {Rounded(f, Over(f, X, Y))}
  <2>1. {k \in {x, y} : IsNaN(f, k)} = {}
    BY <1>4
  <2> QED BY <1>3, <1>4, <2>1 DEF fdiv
<1>6. L = LowestPower(f)
  OBVIOUS
<1>7. C \in Nat
  <2> HIDE DEF C
  <2> QED BY <1>1
<1> HIDE DEF u, v, s, t, X, Y, L, C, d
<1> DEFINE b1 == AbsVal(v)
<1>8. b1 \in Nat \ {0}
  BY <1>2 DEF AbsVal
<1>9. CASE u = 0
  <2>1. N = 0 /\ (IF v < 0 THEN -N ELSE N) = 0
    BY <1>1, <1>2, <1>9 DEF u, d
  <2> DEFINE negative == s # t
  <2>2. negative \in BOOLEAN
    OBVIOUS
  <2> HIDE DEF negative
  <2>3. IsNearest(f, WithSign(f, negative, {}), 0, b1)
    BY <1>8, <2>2, ZeroIsNearest
  <2> QED BY <1>5, <1>9, <2>1, <2>3 DEF negative, v
<1>10. CASE u # 0
  <2> DEFINE r == Rounded(f, Over(f, X, Y))
             M == d * AbsVal(u)
  <2>1. p # {} /\ q # {}
    <3>1. (p = {} <=> Amount(p, L) = 0) /\ (q = {} <=> Amount(q, L) = 0)
      <4>1. L <= C
        BY <1>1
      <4> HIDE DEF p, q
      <4> QED BY <1>1, <4>1, AmountIs
    <3> QED BY <1>1, <1>2, <1>10, <3>1 DEF AbsVal
  <2>2. (IF X.neg # Y.neg THEN -M ELSE M) = (IF v < 0 THEN -N ELSE N)
    <3>1. d * (-AbsVal(u)) = -M /\ M \in Int
      BY <1>1, <1>2
    <3> HIDE DEF M
    <3>2. N = IF s THEN -M ELSE M
      <4>1. M = d * AbsVal(u) /\ N = d * u
        BY DEF M, d, u
      <4> QED BY <1>2, <3>1, <4>1
    <3>3. (v < 0) = t
      <4>1. v < 0 <=> t
        BY <1>2 DEF AbsVal
      <4> QED BY <1>1, <4>1
    <3> QED BY <1>1, <3>1, <3>2, <3>3
  <2>3. M = UnitsInOne(f) * Amount(p, L)
    BY <1>1 DEF d
  <2>4. IsNearest(f, r, IF X.neg # Y.neg THEN -M ELSE M, Amount(q, L))
    <3>1. X.neg \in BOOLEAN /\ Y.neg \in BOOLEAN /\ X.pow = p /\ Y.pow = q
      BY <1>1
    <3> HIDE DEF M, p, q
    <3> QED BY <1>1, <1>6, <1>7, <2>1, <2>3, <3>1, QuotientIsNearest, Zenon
  <2> HIDE DEF r, M
  <2>5. IsNearest(f, r, IF v < 0 THEN -N ELSE N, b1)
    BY <1>1, <2>2, <2>4
  <2> QED BY <1>5, <1>10, <2>5 DEF r, v
<1> QED BY <1>9, <1>10

\* Squares are in the order of what they are squares of.
LEMMA SquaresOrder ==
  ASSUME NEW i \in Nat, NEW j \in Nat
  PROVE  /\ i <= j <=> i * i <= j * j
         /\ i < j <=> i * i < j * j
         /\ i = j <=> i * i = j * j
<1>1. \A k \in Nat, m \in Nat : k < m => k * k < m * m
  <2> SUFFICES ASSUME NEW k \in Nat, NEW m \in Nat, k < m PROVE k * k < m * m
    OBVIOUS
  <2>1. m \in Nat \ {0} /\ k <= m
    OBVIOUS
  <2>2. k * m < m * m
    BY <2>1, TimesKeepsOrder
  <2>3. k * k <= k * m
    <3>1. CASE k = 0
      BY <3>1
    <3>2. CASE k # 0
      <4>1. k * k <= m * k
        BY <2>1, <3>2, TimesKeepsOrder
      <4> QED BY <4>1
    <3> QED BY <3>1, <3>2
  <2>4. k * k \in Int /\ k * m \in Int /\ m * m \in Int
    OBVIOUS
  <2> QED BY <2>2, <2>3, <2>4
<1>2. i * i \in Nat /\ j * j \in Nat
  OBVIOUS
<1>3. (i < j => i * i < j * j) /\ (j < i => j * j < i * i)
  BY <1>1
<1> QED BY <1>2, <1>3

\* A shift leaves room for lower bits.
LEMMA ShiftedAndFilled ==
  ASSUME NEW n \in Nat, NEW x \in Words(n), NEW k \in 0..n, Val(x) * Power(k) < Power(n), NEW y \in Words(k)
  PROVE  /\ ShiftL(n, x, k) \cup y \in Words(n) /\ Val(ShiftL(n, x, k) \cup y) = Val(x) * Power(k) + Val(y)
         /\ Val(y) \in Nat /\ Val(y) < Power(k)
<1> DEFINE z == ShiftL(n, x, k)
<1>1. z \in Words(n) /\ Val(z) = Val(x) * Power(k)
  BY ShiftedLeft, Zenon
<1>2. y \in Words(n) /\ k \in Nat
  BY DEF Words, Bits
<1>3. z \cap y = {}
  <2>1. \A i \in z : i - k \in Bits(n) /\ i \in Int
    BY DEF ShiftL, Words, Bits
  <2>2. \A i \in y : i < k
    BY DEF Words, Bits
  <2> HIDE DEF z
  <2>3. \A i \in z : i >= k
    BY <2>1 DEF Bits
  <2> QED BY <1>2, <2>1, <2>2, <2>3
<1> HIDE DEF z
<1>4. z \cup y \in Words(n) /\ Val(z \cup y) = Val(z) + Val(y)
  BY <1>1, <1>2, <1>3, DisjointSum
<1>5. Val(y) \in Nat /\ Val(y) < Power(k)
  BY <1>2, ValRange DEF Power
<1> QED BY <1>1, <1>4, <1>5 DEF z

\* A step of the square root, digit by digit.
RootNext(n, w, pair) ==
  LET rest == ShiftL(n, w.rest, 2) \cup pair
      twice == ShiftL(n, w.root, 1)
      trial == ShiftL(n, twice, 1) \cup One
  IN IF LtU(rest, trial) THEN [rest |-> rest, root |-> twice]
     ELSE [rest |-> Sub(n, rest, trial), root |-> twice \cup One]
\* The numbers u and v are a root and a rest that leave c.
RootOf(n, w, u, v, c) ==
  /\ w.root \in Words(n) /\ Val(w.root) = u /\ w.rest \in Words(n) /\ Val(w.rest) = v
  /\ u \in Nat /\ v \in Nat /\ v <= 2 * u /\ u * u + v = c

\* Two more bits under the root give it one more bit.
LEMMA RootStep ==
  ASSUME NEW n \in Nat, n >= 4, NEW w, NEW u, NEW v, NEW c, RootOf(n, w, u, v, c), 8 * u + 4 <= Power(n),
         NEW pair \in Words(2)
  PROVE  \E s \in Nat, t \in Nat : /\ RootOf(n, RootNext(n, w, pair), s, t, 4 * c + Val(pair))
                                   /\ s <= 2 * u + 1
<1> DEFINE rest == ShiftL(n, w.rest, 2) \cup pair
           twice == ShiftL(n, w.root, 1)
           trial == ShiftL(n, twice, 1) \cup One
           g == Val(pair)
           P == Power(n)
<1>1. /\ w.root \in Words(n) /\ Val(w.root) = u /\ w.rest \in Words(n) /\ Val(w.rest) = v
      /\ u \in Nat /\ v \in Nat /\ v <= 2 * u /\ u * u + v = c
  BY DEF RootOf
<1>2. Power(1) = 2 /\ Power(2) = 4 /\ P \in Nat /\ 1 \in 0..n /\ 2 \in 0..n
  <2>1. 0 \in Nat /\ 0 + 1 = 1 /\ 1 \in Nat /\ 1 + 1 = 2
    OBVIOUS
  <2>2. 1 \in 0..n /\ 2 \in 0..n
    OBVIOUS
  <2>3. Power(0) = 1 /\ Power(0 + 1) = 2 * Power(0) /\ Power(1 + 1) = 2 * Power(1) /\ P \in Nat
    BY <2>1, PowersDouble
  <2> HIDE DEF P
  <2> QED BY <2>1, <2>2, <2>3
<1>3. rest \in Words(n) /\ Val(rest) = 4 * v + g /\ g \in Nat /\ g < 4
  <2> DEFINE x == w.rest
  <2>1. Val(x) * Power(2) < Power(n) /\ x \in Words(n) /\ 2 \in 0..n
    BY <1>1, <1>2
  <2> HIDE DEF x
  <2>2. /\ ShiftL(n, x, 2) \cup pair \in Words(n) /\ Val(ShiftL(n, x, 2) \cup pair) = Val(x) * Power(2) + g
        /\ g \in Nat /\ g < Power(2)
    BY <2>1, ShiftedAndFilled
  <2>3. /\ rest \in Words(n) /\ Val(rest) = v * Power(2) + g /\ g \in Nat /\ g < Power(2)
    BY <1>1, <2>2, Zenon DEF x
  <2> HIDE DEF rest, g
  <2> QED BY <1>1, <1>2, <2>3
<1>4. twice \in Words(n) /\ Val(twice) = 2 * u
  <2>1. u * Power(1) < Power(n)
    BY <1>1, <1>2
  <2>2. twice \in Words(n) /\ Val(twice) = u * Power(1)
    BY <1>1, <1>2, <2>1, ShiftedLeft, Zenon
  <2> HIDE DEF twice
  <2> QED BY <1>1, <1>2, <2>2
<1>5. twice \cup One \in Words(n) /\ Val(twice \cup One) = 2 * u + 1 /\ One \in Words(1) /\ Val(One) = 1
  <2>1. u * Power(1) < Power(n)
    BY <1>1, <1>2
  <2>2. One \in Words(1) /\ Val(One) = 1
    BY PowersDouble DEF One, Words, Bits, Power
  <2>3. /\ twice \cup One \in Words(n) /\ Val(twice \cup One) = u * Power(1) + Val(One)
    BY <1>1, <1>2, <2>1, <2>2, ShiftedAndFilled
  <2> HIDE DEF twice
  <2> QED BY <1>1, <1>2, <2>2, <2>3
<1> HIDE DEF twice, rest, g
<1>6. trial \in Words(n) /\ Val(trial) = 4 * u + 1
  <2>1. Val(twice) * Power(1) < Power(n)
    BY <1>1, <1>2, <1>4
  <2>2. trial \in Words(n) /\ Val(trial) = Val(twice) * Power(1) + Val(One)
    BY <1>1, <1>2, <1>4, <1>5, <2>1, ShiftedAndFilled
  <2> HIDE DEF trial
  <2> QED BY <1>1, <1>2, <1>4, <1>5, <2>2
<1>7. RootNext(n, w, pair) = IF LtU(rest, trial) THEN [rest |-> rest, root |-> twice]
                             ELSE [rest |-> Sub(n, rest, trial), root |-> twice \cup One]
  BY Zenon DEF RootNext, rest, twice
<1> HIDE DEF trial, P
<1>8. LtU(rest, trial) <=> 4 * v + g < 4 * u + 1
  <2>1. LtU(rest, trial) <=> Val(rest) < Val(trial)
    BY <1>3, <1>6, ValOrder
  <2> QED BY <1>3, <1>6, <2>1
<1>9. CASE LtU(rest, trial)
  <2> DEFINE s == 2 * u
             t == 4 * v + g
  <2>1. s \in Nat /\ t \in Nat /\ t <= 2 * s /\ s <= 2 * u + 1
    BY <1>1, <1>3, <1>8, <1>9
  <2>2. s * s + t = 4 * c + g
    <3>1. s * s = 4 * (u * u) /\ u * u \in Nat
      BY <1>1
    <3> HIDE DEF s
    <3> QED BY <1>1, <1>3, <3>1
  <2>3. RootNext(n, w, pair) = [rest |-> rest, root |-> twice]
    BY <1>7, <1>9
  <2> HIDE DEF s, t
  <2>4. RootOf(n, RootNext(n, w, pair), s, t, 4 * c + g)
    BY <1>3, <1>4, <2>1, <2>2, <2>3 DEF RootOf, s, t
  <2> QED BY <2>1, <2>4 DEF g
<1>10. CASE ~LtU(rest, trial)
  <2> DEFINE s == 2 * u + 1
             t == (4 * v + g) - (4 * u + 1)
  <2>1. s \in Nat /\ t \in Nat /\ t <= 2 * s /\ s <= 2 * u + 1
    BY <1>1, <1>3, <1>8, <1>10
  <2>2. s * s + t = 4 * c + g
    <3>1. s * s = 4 * (u * u) + 4 * u + 1 /\ u * u \in Nat
      BY <1>1
    <3> HIDE DEF s
    <3> QED BY <1>1, <1>3, <3>1
  <2>3. RootNext(n, w, pair) = [rest |-> Sub(n, rest, trial), root |-> twice \cup One]
    BY <1>7, <1>10
  <2>4. Sub(n, rest, trial) \in Words(n) /\ Val(Sub(n, rest, trial)) = t
    <3>1. Val(rest) >= Val(trial)
      BY <1>1, <1>3, <1>6, <2>1
    <3>2. Sub(n, rest, trial) \in Words(n) /\ Val(Sub(n, rest, trial)) = Val(rest) - Val(trial)
      BY <1>3, <1>6, <3>1, SubIsWord, ValSub, Zenon
    <3> QED BY <1>3, <1>6, <3>2
  <2> HIDE DEF s, t
  <2>5. RootOf(n, RootNext(n, w, pair), s, t, 4 * c + g)
    BY <1>5, <2>1, <2>2, <2>3, <2>4 DEF RootOf, s
  <2> QED BY <2>1, <2>5 DEF g
<1> QED BY <1>9, <1>10

\* The powers from B upwards.
Above(p, B) == {i \in p : i >= B}

\* 4 times the powers from g upwards and a pair of bits are the powers from h
\* upwards.
PairIs(p, g, h, pair) ==
  pair \in Words(2) /\ Amount(Above(p, h), h) = 4 * Amount(Above(p, g), g) + Val(pair)

\* Going down by two powers quadruples the amount and adds the next two bits.
LEMMA PairBelow ==
  ASSUME NEW B \in Int, NEW C \in Int, NEW p \in SUBSET (B..(C - 1)), NEW g \in Int, NEW h, h = g - 2,
         NEW pair, pair = Shifted(p, -h) \cap {0, 1}
  PROVE  PairIs(p, g, h, pair)
<1> DEFINE D == IF C < g THEN g ELSE C
           n == D - g
           x == Shifted(Above(p, g), -g)
           y == Shifted(Above(p, h), -h)
<1>1. D \in Int /\ g <= D /\ n \in Nat /\ h \in Int /\ h <= D /\ D - h = n + 2 /\ n + 2 \in Nat
      /\ Above(p, g) \in SUBSET (g..(D - 1)) /\ Above(p, h) \in SUBSET (h..(D - 1)) /\ p \in SUBSET Int
  <2>1. D \in Int /\ g <= D /\ n \in Nat /\ h \in Int /\ h <= D /\ D - h = n + 2 /\ n + 2 \in Nat /\ C <= D
    OBVIOUS
  <2>2. p \in SUBSET Int /\ \A i \in p : i < C
    OBVIOUS
  <2> HIDE DEF D
  <2>3. \A k \in Int : Above(p, k) \in SUBSET (k..(D - 1))
    <3> TAKE k \in Int
    <3>1. \A i \in Above(p, k) : i \in p /\ i >= k
      BY DEF Above
    <3>2. \A i \in Above(p, k) : i \in k..(D - 1)
      <4> TAKE i \in Above(p, k)
      <4>1. i \in Int /\ i >= k /\ i < C
        BY <2>2, <3>1
      <4> QED BY <2>1, <4>1
    <3> QED BY <3>2
  <2> QED BY <2>1, <2>2, <2>3
<1> HIDE DEF D, n
<1>2. x \in Words(n) /\ \A i \in Int : i \in x <=> i + g \in Above(p, g)
  BY <1>1, AmountIs DEF n
<1>3. y \in Words(n + 2) /\ \A i \in Int : i \in y <=> i + h \in Above(p, h)
  BY <1>1, AmountIs
<1>4. pair \in Words(2)
  BY DEF Words, Bits
<1>5. \A i \in Int : i \in Shifted(p, -h) <=> i + h \in p
  <2> TAKE i \in Int
  <2>1. \A j \in p : j \in Int /\ (i = j + (-h) <=> i + h = j)
    BY <1>1
  <2>2. i + h \in p => i \in Shifted(p, -h)
    <3>1. i = (i + h) + (-h)
      BY <1>1
    <3> QED BY <3>1 DEF Shifted
  <2>3. i \in Shifted(p, -h) => i + h \in p
    BY <2>1 DEF Shifted
  <2> QED BY <2>2, <2>3
<1> DEFINE z == Shifted(x, 2)
<1>6. z \in Words(n + 2) /\ Val(z) = Val(x) * Power(2)
  <2>1. 2 \in Nat
    OBVIOUS
  <2> QED BY <1>1, <1>2, <2>1, ShiftedWord, Zenon
<1>7. \A i \in Int : i \in z <=> i - 2 \in x
  <2> TAKE i \in Int
  <2>1. i - 2 \in x => i \in z
    <3>1. i = (i - 2) + 2
      OBVIOUS
    <3> QED BY <3>1 DEF Shifted
  <2>2. i \in z => i - 2 \in x
    <3>1. \A j \in x : j \in Int /\ (i = j + 2 => i - 2 = j)
      BY <1>2 DEF Words, Bits
    <3> QED BY <3>1 DEF Shifted
  <2> QED BY <2>1, <2>2
<1> HIDE DEF x, y, z
<1>8. pair \in Words(n + 2) /\ z \in SUBSET Int /\ y \in SUBSET Int /\ pair \in SUBSET Int
  BY <1>1, <1>3, <1>4, <1>6 DEF Words, Bits
<1>9. ASSUME NEW i \in Int PROVE i \in z <=> i + h \in p /\ i >= 2
  <2>1. i - 2 \in Int /\ (i - 2) + g = i + h /\ (i + h >= g <=> i >= 2)
    BY <1>1
  <2> QED BY <1>2, <1>7, <2>1 DEF Above
<1>10. ASSUME NEW i \in Int PROVE i \in y <=> i + h \in p /\ i >= 0
  <2>1. i + h >= h <=> i >= 0
    BY <1>1
  <2> QED BY <1>3, <2>1 DEF Above
<1>11. ASSUME NEW i \in Int PROVE i \in pair <=> i + h \in p /\ i >= 0 /\ i < 2
  <2>1. i \in {0, 1} <=> i >= 0 /\ i < 2
    OBVIOUS
  <2> QED BY <1>5, <2>1
<1>12. z \cap pair = {} /\ y = z \cup pair
  <2>1. \A i \in Int : i \in y <=> i \in z \/ i \in pair
    <3> TAKE i \in Int
    <3> QED BY <1>9, <1>10, <1>11
  <2>2. \A i \in Int : ~(i \in z /\ i \in pair)
    <3> TAKE i \in Int
    <3> QED BY <1>9, <1>11
  <2> QED BY <1>8, <2>1, <2>2
<1>13. Val(y) = Val(z) + Val(pair)
  <2>1. Val(z \cup pair) = Val(z) + Val(pair)
    BY <1>1, <1>6, <1>8, <1>12, DisjointSum, Zenon
  <2> QED BY <1>12, <2>1
<1>14. Val(x) * Power(2) = 4 * Val(x)
  <2>1. 1 \in Nat /\ 1 + 1 = 2 /\ 0 \in Nat /\ 0 + 1 = 1
    OBVIOUS
  <2>2. Power(1 + 1) = 2 * Power(1) /\ Power(0 + 1) = 2 * Power(0) /\ Power(0) = 1
    BY <2>1, PowersDouble
  <2>3. Power(2) = 4
    BY <2>1, <2>2
  <2>4. Val(x) \in Nat
    BY <1>1, <1>2, ValRange
  <2> QED BY <2>3, <2>4
<1> QED BY <1>4, <1>6, <1>13, <1>14 DEF Amount, x, y, PairIs

\* The digits of SquareRoot are the root of c in P bits and a rest.
RootDigits(f, x, P, half, c) ==
  \E w : \E u \in Nat, v \in Nat :
    /\ RootOf(P + 3, w, u, v, c) /\ u < Power(P)
    /\ SquareRoot(f, x).pow = Shifted(WithRest(Shifted(w.root, 1 - P), w.rest, P), half)

\* SquareRoot finds the root digit by digit.
LEMMA SquareRootDigits ==
  ASSUME NEW f, Format(f), NEW x, NEW B \in Int, NEW C \in Int, NEW p \in SUBSET (B..(C - 1)), x.pow = p, p # {},
         NEW half, half = Max(p) \div 2, NEW P, P = f.man + 3, NEW g, g = 2 * (half + 1 - P)
  PROVE  RootDigits(f, x, P, half, Amount(Above(p, g), g))
<1> DEFINE places == f.man + 3
           n == places + 3
           middle == Max(x.pow) \div 2
           Pair(i) == Shifted(x.pow, 2 * (i - middle)) \cap {0, 1}
           W == [rest : Words(n), root : Words(n)]
           Next(i, w) == RootNext(n, w, Pair(i - 1))
           start == [rest |-> {}, root |-> {}]
           H(h) == h = [i \in 0..places |-> IF i = 0 THEN start ELSE Next(i, h[i - 1])]
           after == CHOOSE h : H(h)
           G == [i \in 1..places |-> [w \in W |-> Next(i, w)]]
           A(i) == Amount(Above(p, 2 * (half + 1 - i)), 2 * (half + 1 - i))
<1>1. places \in Nat /\ n \in Nat /\ n >= 4 /\ Max(p) \in Int /\ half \in Int
      /\ 2 * half <= Max(p) /\ Max(p) < 2 * half + 2 /\ \A i \in p : i <= Max(p) /\ i \in Int
  <2>1. Max(p) \in Int /\ \A i \in p : i <= Max(p) /\ i \in Int
    <3>1. Max(p) \in Int /\ \A i \in p : i <= Max(p)
      BY Extrema
    <3>2. \A i \in p : i \in Int
      OBVIOUS
    <3> QED BY <3>1, <3>2
  <2>2. half \in Int /\ 2 * half <= Max(p) /\ Max(p) < 2 * half + 2
    <3> DEFINE m == Max(p)
    <3>1. m \in Int /\ half = m \div 2
      BY <2>1
    <3> HIDE DEF m
    <3> QED BY <3>1 DEF m
  <2> QED BY <2>1, <2>2 DEF Format
<1>2. SquareRoot(f, x).pow
        = Shifted(WithRest(Shifted(after[places].root, 1 - places), after[places].rest, places), middle)
  BY Zenon DEF SquareRoot, RootNext
<1>3. start \in W
  <2>1. {} \in Words(n)
    BY ZeroIsWord
  <2> QED BY <2>1
<1> HIDE DEF Next, start, places
<1>4. \A i : \A w \in W : Next(i, w) \in W
  <2> SUFFICES ASSUME NEW i, NEW w \in W
               PROVE  Next(i, w) \in W
    OBVIOUS
  <2> DEFINE rest == ShiftL(n, w.rest, 2) \cup Pair(i - 1)
             twice == ShiftL(n, w.root, 1)
             trial == ShiftL(n, twice, 1) \cup One
  <2>1. Next(i, w) = IF LtU(rest, trial) THEN [rest |-> rest, root |-> twice]
                     ELSE [rest |-> Sub(n, rest, trial), root |-> twice \cup One]
    BY Zenon DEF Next, RootNext
  <2>2. 0 \in Bits(n) /\ 1 \in Bits(n)
    BY <1>1 DEF Bits
  <2>3. rest \in Words(n) /\ twice \in Words(n) /\ twice \cup One \in Words(n) /\ trial \in Words(n)
    BY <2>2 DEF Words, ShiftL, One
  <2> HIDE DEF rest, twice, trial
  <2>4. Sub(n, rest, trial) \in Words(n)
    BY <2>3, SubIsWord
  <2> QED BY <2>1, <2>3, <2>4
<1> HIDE DEF W, n
<1>5. \A i \in 1..places : \A w \in W : G[i][w] = Next(i, w) /\ G[i][w] \in W
  BY <1>4
<1> HIDE DEF G
<1>6. PICK h \in [0..places -> W] : h[0] = start /\ \A i \in 1..places : h[i] = G[i][h[i - 1]]
  <2>1. \A i \in 1..places : \A w \in W : G[i][w] \in W
    BY <1>5
  <2>2. Iterates(places, W, start, G)
    BY <1>1, <1>3, <2>1, RecursionExists, Zenon
  <2> QED BY <2>2, Zenon DEF Iterates
<1>7. \A i \in 1..places : h[i] = Next(i, h[i - 1]) /\ i # 0
  <2> TAKE i \in 1..places
  <2>1. i - 1 \in 0..places /\ i # 0
    BY <1>1
  <2> QED BY <1>5, <1>6, <2>1
<1>8. H(h)
  <2>1. \A i \in 0..places : h[i] = IF i = 0 THEN start ELSE Next(i, h[i - 1])
    BY <1>1, <1>6, <1>7
  <2>2. h = [i \in 0..places |-> h[i]]
    BY <1>6
  <2> QED BY <2>1, <2>2
<1>9. H(after)
  <2> HIDE DEF H
  <2> QED BY <1>8
<1> HIDE DEF after
<1> DEFINE T == {i \in 0..places : \E u \in Nat, v \in Nat : RootOf(n, after[i], u, v, A(i)) /\ u < Power(i)}
<1>10. 0 \in T
  <2>1. after[0] = start /\ 0 \in 0..places /\ 0 \in Nat
    BY <1>1, <1>9
  <2>2. start.rest = {} /\ start.root = {} /\ {} \in Words(n) /\ Val({}) = 0
    BY ZeroIsWord, ZeroIsZero DEF start
  <2>3. A(0) = 0
    <3>1. Above(p, 2 * (half + 1 - 0)) = {}
      <4>1. 2 * (half + 1 - 0) = 2 * half + 2
        BY <1>1
      <4>2. \A i \in p : ~(i >= 2 * half + 2)
        BY <1>1
      <4> QED BY <4>1, <4>2 DEF Above
    <3>2. \A k : Shifted({}, k) = {}
      BY DEF Shifted
    <3> QED BY <3>1, <3>2, ZeroIsZero DEF Amount
  <2>4. Power(0) = 1
    BY PowersDouble
  <2> HIDE DEF A
  <2>5. RootOf(n, after[0], 0, 0, A(0)) /\ 0 < Power(0)
    BY <2>1, <2>2, <2>3, <2>4 DEF RootOf
  <2> QED BY <2>1, <2>5
<1>11. \A i \in Bits(places) : i \in T => i + 1 \in T
  <2> SUFFICES ASSUME NEW i \in Bits(places), i \in T
               PROVE  i + 1 \in T
    OBVIOUS
  <2>1. i \in Nat /\ i + 1 \in 1..places /\ i + 1 \in 0..places /\ (i + 1) - 1 = i /\ i + 1 # 0 /\ i <= places
    <3>1. i \in 0..(places - 1) /\ places \in Nat
      BY <1>1 DEF Bits
    <3> QED BY <3>1
  <2>2. after[i + 1] = Next(i + 1, after[i])
    BY <1>9, <2>1
  <2>3. PICK u \in Nat, v \in Nat : RootOf(n, after[i], u, v, A(i)) /\ u < Power(i)
    OBVIOUS
  <2> DEFINE pair == Pair(i)
             w == after[i]
             c == A(i)
  <2>4. pair \in Words(2) /\ A(i + 1) = 4 * c + Val(pair)
    <3> DEFINE k == 2 * (half + 1 - i)
               m == 2 * (half + 1 - (i + 1))
    <3>1. k \in Int /\ m \in Int /\ m = k - 2 /\ 2 * (i - half) = -m
      <4>1. i \in Int /\ half \in Int
        BY <1>1, <2>1
      <4> QED BY <4>1
    <3>2. pair = Shifted(p, -m) \cap {0, 1}
      <4>1. pair = Shifted(p, 2 * (i - half)) \cap {0, 1}
        OBVIOUS
      <4> HIDE DEF pair, m
      <4> QED BY <3>1, <4>1
    <3>3. A(i + 1) = Amount(Above(p, m), m) /\ c = Amount(Above(p, k), k)
      OBVIOUS
    <3> HIDE DEF k, m, pair, A, c
    <3>4. pair \in Words(2) /\ Amount(Above(p, m), m) = 4 * Amount(Above(p, k), k) + Val(pair)
      <4>1. PairIs(p, k, m, pair)
        BY <3>1, <3>2, PairBelow, Zenon
      <4> QED BY <4>1 DEF PairIs
    <3> QED BY <3>3, <3>4
  <2>5. after[i + 1] = RootNext(n, w, pair)
    BY <2>1, <2>2 DEF Next
  <2>6. 8 * u + 4 <= Power(n) /\ Power(i + 1) = 2 * Power(i) /\ Power(i) \in Nat
    <3>1. Power(i) <= Power(places)
      BY <1>1, <2>1, PowersGrow
    <3>2. Power(n) = 8 * Power(places)
      <4>1. (places + 1) + 1 = places + 2 /\ (places + 2) + 1 = n /\ places + 1 \in Nat /\ places + 2 \in Nat
        BY <1>1 DEF n
      <4>2. /\ Power((places + 2) + 1) = 2 * Power(places + 2) /\ Power((places + 1) + 1) = 2 * Power(places + 1)
            /\ Power(places + 1) = 2 * Power(places) /\ Power(places) \in Nat
        BY <1>1, <4>1, PowersDouble
      <4> QED BY <4>1, <4>2
    <3>3. Power(i) \in Nat /\ Power(i + 1) = 2 * Power(i) /\ Power(places) \in Nat
      BY <1>1, <2>1, PowersDouble
    <3> QED BY <2>3, <3>1, <3>2, <3>3
  <2> HIDE DEF pair, w, c, A
  <2>7. RootOf(n, w, u, v, c)
    BY <2>3 DEF w, c
  <2>8. PICK s \in Nat, t \in Nat : /\ RootOf(n, RootNext(n, w, pair), s, t, 4 * c + Val(pair))
                                    /\ s <= 2 * u + 1
    BY <1>1, <2>4, <2>6, <2>7, RootStep
  <2>9. s < Power(i + 1)
    BY <2>3, <2>6, <2>8
  <2> QED BY <2>1, <2>4, <2>5, <2>8, <2>9
<1>12. places \in T
  <2> HIDE DEF T
  <2>1. \A i \in 0..places : i \in T
    BY <1>1, <1>10, <1>11, UpToTheWidth
  <2> QED BY <1>1, <2>1
<1>13. PICK u \in Nat, v \in Nat : RootOf(n, after[places], u, v, A(places)) /\ u < Power(places)
  BY <1>12
<1>14. places = P /\ n = P + 3 /\ A(places) = Amount(Above(p, g), g)
  BY DEF places, n
<1> HIDE DEF A, T, n, places
<1>15. SquareRoot(f, x).pow = Shifted(WithRest(Shifted(after[P].root, 1 - P), after[P].rest, P), half)
  BY <1>2, <1>14
<1>16. RootOf(P + 3, after[P], u, v, Amount(Above(p, g), g)) /\ u < Power(P)
  BY <1>13, <1>14
<1> QED BY <1>15, <1>16 DEF RootDigits

\* The square of i is to c what that of j is to V.
Compare(i, c, j, V) ==
  /\ i * i <= c <=> j * j <= V
  /\ c < i * i <=> V < j * j
  /\ i * i = c <=> j * j = V

\* Squares of multiples of 2^h are to the amount in units of 2^g what those of
\* the same multiples of 2^E are to 4 times the number of units.
LEMMA RootScales ==
  ASSUME NEW f, Format(f), NEW L, L = LowestPower(f), NEW C \in Nat, NEW p \in SUBSET (L..(C - 1)),
         NEW g \in Int, g <= C, p \in SUBSET (g..(C - 1)), NEW E \in Nat, NEW h \in Nat, 2 * h = 2 * E + 2 * L - g - 2,
         NEW m \in Nat, NEW i, i = m * Power(h), NEW j, j = m * Power(E),
         NEW V, V = 4 * Amount(p, L) * UnitsInOne(f)
  PROVE  Compare(i, Amount(p, g), j, V)
<1>1. L \in Int /\ L <= -1 /\ UnitsInOne(f) = Power(-L) /\ -L \in Nat
  BY LowestPowerIs
<1> DEFINE t == IF 2 - L >= L - g THEN 2 - L ELSE L - g
           s == t + g - L
           Y == t + L - 2
           A == Amount(p, g)
           u == Amount(p, L)
<1>2. /\ s \in Nat /\ t \in Nat /\ Y \in Nat /\ s - t = g - L /\ (h + h) + s = (E + E) + Y
      /\ t = (-L + 2) + Y /\ -L + 2 \in Nat /\ h + h \in Nat /\ E + E \in Nat /\ L <= C /\ -L + 1 \in Nat
  BY <1>1
<1> HIDE DEF s, t, Y
<1>3. A * Power(s) = u * Power(t)
  <2>1. L \in Int /\ C \in Int /\ g <= C /\ L <= C /\ s \in Nat /\ t \in Nat /\ s - t = g - L
    BY <1>1, <1>2
  <2>2. SameAmount(p, g, L, s, t)
    BY <2>1, AmountScales, Zenon
  <2> QED BY <2>2 DEF SameAmount
<1>4. A \in Nat /\ u \in Nat
  <2>1. L \in Int /\ C \in Int /\ g <= C /\ L <= C
    BY <1>1, <1>2
  <2> QED BY <2>1, AmountIs, Zenon
<1>5. /\ \A k \in Nat : Power(k) \in Nat \ {0} /\ Power(k + 1) = 2 * Power(k)
      /\ \A k \in Nat, n \in Nat : Power(k + n) = Power(k) * Power(n)
  BY PowersDouble, PowersAdd
<1> HIDE DEF A, u
<1>6. A * Power(s) = V * Power(Y) /\ V \in Nat
  <2>1. Power(t) = Power(-L + 2) * Power(Y) /\ Power(-L + 2) = 4 * Power(-L)
    <3>1. Power((-L + 2) + Y) = Power(-L + 2) * Power(Y)
      BY <1>2, <1>5
    <3>2. (-L + 1) + 1 = -L + 2
      BY <1>1
    <3>3. Power((-L + 1) + 1) = 2 * Power(-L + 1) /\ Power(-L + 1) = 2 * Power(-L) /\ Power(-L) \in Nat
      BY <1>1, <1>2, <1>5
    <3> QED BY <1>2, <3>1, <3>2, <3>3
  <2> DEFINE z == Power(-L)
             y == Power(Y)
  <2>2. z \in Nat /\ y \in Nat /\ V = 4 * u * z /\ A * Power(s) = u * ((4 * z) * y)
    BY <1>1, <1>2, <1>3, <1>5, <2>1 DEF u
  <2> HIDE DEF z, y
  <2>3. u * ((4 * z) * y) = (4 * u * z) * y /\ 4 * u * z \in Nat
    BY <1>4, <2>2
  <2> QED BY <2>2, <2>3 DEF y
<1>7. (i * i) * Power(s) = (j * j) * Power(Y) /\ i * i \in Nat /\ j * j \in Nat
  <2> DEFINE b1 == Power(h)
             b2 == Power(s)
             b3 == Power(E)
             b4 == Power(Y)
  <2>1. /\ Power(h + h) = b1 * b1 /\ Power((h + h) + s) = Power(h + h) * b2
        /\ Power(E + E) = b3 * b3 /\ Power((E + E) + Y) = Power(E + E) * b4
        /\ b1 \in Nat /\ b2 \in Nat /\ b3 \in Nat /\ b4 \in Nat
    BY <1>2, <1>5
  <2>2. (b1 * b1) * b2 = (b3 * b3) * b4
    BY <1>2, <2>1
  <2>3. i = m * b1 /\ j = m * b3
    OBVIOUS
  <2> HIDE DEF b1, b2, b3, b4
  <2>4. (i * i) * b2 = (m * m) * ((b1 * b1) * b2) /\ (m * m) * ((b3 * b3) * b4) = (j * j) * b4
        /\ i * i \in Nat /\ j * j \in Nat
    BY <2>1, <2>3
  <2> QED BY <2>2, <2>4 DEF b2, b4
<1> DEFINE b2 == Power(s)
           b4 == Power(Y)
           ii == i * i
           jj == j * j
<1>8. b2 \in Nat \ {0} /\ b4 \in Nat \ {0} /\ ii * b2 = jj * b4 /\ A * b2 = V * b4 /\ ii \in Nat /\ jj \in Nat
  BY <1>2, <1>5, <1>6, <1>7
<1> HIDE DEF b2, b4, ii, jj
<1>9. /\ ii <= A <=> jj <= V
      /\ A < ii <=> V < jj
      /\ ii = A <=> jj = V
  <2>1. ii \in Int /\ jj \in Int /\ A \in Int /\ V \in Int
    BY <1>4, <1>6, <1>8
  <2>2. (ii <= A <=> ii * b2 <= A * b2) /\ (ii = A <=> ii * b2 = A * b2)
    BY <1>8, <2>1, TimesKeepsOrder
  <2>3. (jj <= V <=> jj * b4 <= V * b4) /\ (jj = V <=> jj * b4 = V * b4)
    BY <1>8, <2>1, TimesKeepsOrder
  <2>4. (A < ii <=> A * b2 < ii * b2)
    BY <1>8, <2>1, TimesKeepsOrder
  <2>5. (V < jj <=> V * b4 < jj * b4)
    BY <1>8, <2>1, TimesKeepsOrder
  <2> QED BY <1>8, <2>2, <2>3, <2>4, <2>5
<1> QED BY <1>9 DEF A, ii, jj, Compare

\* The digit a rest adds stands for what is left of the square.
LEMMA StickyRoot ==
  ASSUME NEW u \in Nat, NEW v \in Nat, v <= 2 * u, NEW c, c = u * u + v, NEW h \in Nat,
         NEW X, X = 2 * u + (IF v = 0 THEN 0 ELSE 1)
  PROVE  /\ 2 * h <= X <=> h * h <= c
         /\ X < 2 * h <=> c < h * h
         /\ X = 2 * h <=> c = h * h
<1>1. (h <= u <=> h * h <= u * u) /\ (h = u <=> h * h = u * u) /\ (u + 1 <= h <=> (u + 1) * (u + 1) <= h * h)
  <2>1. u + 1 \in Nat
    OBVIOUS
  <2> QED BY <2>1, SquaresOrder
<1>2. (u + 1) * (u + 1) = u * u + 2 * u + 1
  OBVIOUS
<1> DEFINE uu == u * u
           hh == h * h
<1>3. /\ uu \in Nat /\ hh \in Nat /\ c = uu + v
      /\ (h <= u <=> hh <= uu) /\ (h = u <=> hh = uu) /\ (u + 1 <= h <=> uu + 2 * u + 1 <= hh)
  BY <1>1, <1>2
<1> HIDE DEF uu, hh
<1>4. CASE h <= u
  BY <1>3, <1>4 DEF hh
<1>5. CASE u + 1 <= h
  BY <1>3, <1>5 DEF hh
<1> QED BY <1>4, <1>5

\* The multiples of T are to X what the squares of those of P are to V.
SquaresAlike(X, T, P, V) ==
  \A m \in Nat : LET s == (m * P) * (m * P)
                 IN /\ m * T <= X <=> s <= V
                    /\ X < m * T <=> V < s
                    /\ X = m * T <=> V = s

\* A place that RoundsTo allows for the root: the squares of the midpoints
\* between it and the other places decide.
LEMMA NearestRootPlace ==
  ASSUME NEW f, Format(f), NEW X, NEW T, NEW K, NEW E, NEW v, RoundsTo(f, X, T, K, E, v), v <= Top(f), NEW V \in Nat,
         X \in Int, T \in Int,
         SquaresAlike(X, T, Power(E), V),
         NEW z \in Nat, z <= Top(f), NEW s, s = Grid(f, v) + Grid(f, z)
  PROVE  /\ Grid(f, z) > Grid(f, v) => V <= s * s
         /\ Grid(f, z) < Grid(f, v) => V >= s * s
<1> DEFINE M == Power(f.man)
           P == Power(E)
           F == Grid(f, v)
           G == Grid(f, z)
           Q == 2^f.exp
<1>1. /\ K \in Nat /\ E \in Nat /\ v \in Nat /\ K < 2 * M /\ (E > 0 => K >= M)
      /\ (2 * K) * T <= X /\ X < (2 * K + 2) * T
      /\ \/ E >= Q - 2 /\ v = Top(f)
         \/ v = K + E * M /\ X <= (2 * K + 1) * T
         \/ v = K + 1 + E * M /\ X >= (2 * K + 1) * T
  BY DEF RoundsTo
<1>2. M \in Nat \ {0} /\ P \in Nat \ {0} /\ Q \in Nat /\ Q >= 4 /\ Power(f.exp) = Q
  <2>1. P \in Nat \ {0}
    BY <1>1, PowersDouble
  <2> QED BY <2>1, FormatWidths
<1>3. /\ F \in Nat /\ G \in Nat
      /\ z < v <=> G < F
      /\ v < z <=> F < G
  BY <1>1, GridGrows
<1>4. /\ Grid(f, K + E * M) = K * P
      /\ Grid(f, K + 1 + E * M) = (K + 1) * P
      /\ K + E * M \in Nat /\ K + 1 + E * M \in Nat
  <2>1. K <= 2 * M /\ K + 1 <= 2 * M /\ K + 1 \in Nat /\ (E > 0 => K + 1 >= M)
    BY <1>1, <1>2
  <2> QED BY <1>1, <2>1, GridIs
<1>5. \A m \in Nat : m * T \in Int /\ m * P \in Nat
  BY <1>2
<1>6. \A m \in Nat : /\ m * T <= X => (m * P) * (m * P) <= V
                     /\ X <= m * T => V <= (m * P) * (m * P)
                     /\ X < m * T => V < (m * P) * (m * P)
  <2> TAKE m \in Nat
  <2> DEFINE y == (m * P) * (m * P)
  <2>1. (m * T <= X <=> y <= V) /\ (X < m * T <=> V < y) /\ (X = m * T <=> V = y)
    BY Zenon DEF SquaresAlike
  <2>2. y \in Nat /\ m * T \in Int
    <3>1. m * P \in Nat
      BY <1>5
    <3> QED BY <1>5, <3>1
  <2> HIDE DEF y
  <2> QED BY <2>1, <2>2 DEF y
<1> DEFINE y0 == (2 * K) * P
           y1 == (2 * K + 1) * P
<1>7. /\ y0 \in Nat /\ y1 \in Nat /\ y0 = K * P + K * P /\ y1 = K * P + (K + 1) * P /\ y1 = y0 + P
      /\ y0 * y0 <= V
      /\ X <= (2 * K + 1) * T => V <= y1 * y1
      /\ X >= (2 * K + 1) * T => y1 * y1 <= V
  <2>1. 2 * K \in Nat /\ 2 * K + 1 \in Nat
    BY <1>1
  <2>2. y0 \in Nat /\ y1 \in Nat
    BY <1>5, <2>1
  <2>3. y0 * y0 <= V
    BY <1>1, <1>6, <2>1
  <2>4. /\ X <= (2 * K + 1) * T => V <= y1 * y1
        /\ (2 * K + 1) * T <= X => y1 * y1 <= V
    BY <1>6, <2>1
  <2>5. X >= (2 * K + 1) * T <=> (2 * K + 1) * T <= X
    BY <1>5, <2>1
  <2>6. y0 = K * P + K * P /\ y1 = K * P + (K + 1) * P /\ y1 = y0 + P
    <3> HIDE DEF P
    <3> QED BY <1>1, <1>2
  <2> QED BY <2>2, <2>3, <2>4, <2>5, <2>6
<1>8. s = F + G /\ s \in Nat
  BY <1>3
<1> HIDE DEF y0, y1, F, G, M, P, Q
<1>9. \A i \in Nat, j \in Nat : i <= j => i * i <= j * j /\ i * i \in Nat
  BY SquaresOrder
<1>10. ASSUME NEW y \in Nat, s <= y, y * y <= V PROVE s * s <= V
  <2>1. s * s <= y * y /\ s * s \in Nat /\ y * y \in Nat
    BY <1>8, <1>9, <1>10
  <2> QED BY <1>10, <2>1
<1>11. ASSUME NEW y \in Nat, y <= s, V <= y * y PROVE V <= s * s
  <2>1. y * y <= s * s /\ s * s \in Nat /\ y * y \in Nat
    BY <1>8, <1>9, <1>11
  <2> QED BY <1>11, <2>1
<1>12. K * P \in Nat /\ (K + 1) * P \in Nat /\ (K + 1) * P = K * P + P
  BY <1>1, <1>2
<1>13. CASE v = K + E * M /\ X <= (2 * K + 1) * T
  <2>1. F = K * P
    BY <1>4, <1>13 DEF F
  <2>2. ASSUME G > F PROVE V <= s * s
    <3>1. z >= K + 1 + E * M
      <4>1. v + 1 = K + 1 + E * M /\ v < z /\ v \in Nat
        BY <1>1, <1>2, <1>3, <1>13, <2>2
      <4> QED BY <4>1
    <3>2. G >= (K + 1) * P
      <4> DEFINE y == K + 1 + E * M
      <4>1. y \in Nat /\ Grid(f, y) = (K + 1) * P /\ (y < z \/ y = z)
        BY <1>4, <3>1
      <4> HIDE DEF y
      <4>2. (y < z <=> Grid(f, y) < Grid(f, z)) /\ Grid(f, y) \in Nat
        BY <4>1, GridGrows
      <4> QED BY <1>3, <4>1, <4>2 DEF G
    <3>3. y1 <= s
      BY <1>3, <1>7, <1>8, <1>12, <2>1, <3>2
    <3> QED BY <1>7, <1>11, <1>13, <3>3
  <2>3. ASSUME G < F PROVE s * s <= V
    <3>1. s <= y0
      BY <1>3, <1>7, <1>8, <1>12, <2>1, <2>3
    <3> QED BY <1>7, <1>10, <3>1
  <2> QED BY <1>3, <1>8, <2>2, <2>3 DEF F, G
<1>14. CASE v = K + 1 + E * M /\ X >= (2 * K + 1) * T
  <2>1. F = (K + 1) * P
    BY <1>4, <1>14 DEF F
  <2>2. ASSUME G > F PROVE V <= s * s
    <3>1. V < (y0 + 2 * P) * (y0 + 2 * P)
      <4>1. 2 * K + 2 \in Nat /\ (2 * K + 2) * P = y0 + 2 * P
        <5>1. (2 * K + 2) * P = (2 * K) * P + 2 * P
          BY <1>1, <1>2
        <5> QED BY <1>1, <5>1 DEF y0
      <4>2. X <= (2 * K + 2) * T
        BY <1>1, <1>5, <4>1
      <4>3. V < ((2 * K + 2) * P) * ((2 * K + 2) * P)
        BY <1>1, <1>6, <4>1
      <4> QED BY <4>1, <4>3
    <3>2. y0 + 2 * P <= s /\ y0 + 2 * P \in Nat
      BY <1>2, <1>3, <1>7, <1>8, <1>12, <2>1, <2>2
    <3> DEFINE y == y0 + 2 * P
    <3>3. y \in Nat /\ y <= s /\ V <= y * y
      <4>1. y \in Nat /\ y <= s /\ V < y * y
        BY <3>1, <3>2
      <4>2. y * y \in Nat
        BY <4>1
      <4> HIDE DEF y
      <4> QED BY <4>1, <4>2
    <3> HIDE DEF y
    <3> QED BY <1>11, <3>3
  <2>3. ASSUME G < F PROVE s * s <= V
    <3>1. z <= K + E * M
      <4>1. v = (K + E * M) + 1 /\ z < v /\ v \in Nat /\ K + E * M \in Nat
        BY <1>1, <1>2, <1>3, <1>4, <1>14, <2>3
      <4> QED BY <4>1
    <3>2. G <= K * P
      <4> DEFINE y == K + E * M
      <4>1. y \in Nat /\ Grid(f, y) = K * P /\ (z < y \/ y = z)
        BY <1>4, <3>1
      <4> HIDE DEF y
      <4>2. (z < y <=> Grid(f, z) < Grid(f, y)) /\ Grid(f, y) \in Nat
        BY <4>1, GridGrows
      <4> QED BY <1>3, <4>1, <4>2 DEF G
    <3>3. s <= y1
      BY <1>3, <1>7, <1>8, <1>12, <2>1, <3>2
    <3> QED BY <1>7, <1>10, <1>14, <3>3
  <2> QED BY <1>3, <1>8, <2>2, <2>3 DEF F, G
<1>15. CASE E >= Q - 2 /\ v = Top(f)
  <2>1. ~(G > F)
    BY <1>1, <1>3, <1>15
  <2>2. F <= K * P
    <3>1. K >= M
      BY <1>1, <1>2, <1>15
    <3>2. Top(f) = M + (Q - 2) * M /\ Q - 2 \in Nat
      <4>1. Top(f) = (Q - 1) * M
        BY <1>2, ClassesOfPlace DEF M, Q
      <4> QED BY <1>2, <4>1
    <3>3. F = M * Power(Q - 2)
      <4>1. M \in Nat /\ M <= 2 * M /\ M >= M
        BY <1>2
      <4>2. Grid(f, M + (Q - 2) * M) = M * Power(Q - 2)
        BY <3>2, <4>1, GridIs DEF M
      <4> QED BY <1>15, <3>2, <4>2 DEF F
    <3>4. Power(Q - 2) <= P /\ Power(Q - 2) \in Nat
      BY <1>1, <1>15, <3>2, PowersGrow, PowersDouble DEF P
    <3> DEFINE R == Power(Q - 2)
    <3> HIDE DEF R
    <3>5. M * R <= M * P
      <4>1. R \in Int /\ P \in Int /\ R <= P
        BY <1>2, <3>4 DEF R
      <4>2. R * M <= P * M
        BY <1>2, <4>1, TimesKeepsOrder
      <4> QED BY <1>2, <4>1, <4>2
    <3>6. M * P <= K * P
      BY <1>1, <1>2, <3>1, TimesKeepsOrder
    <3>7. M * R \in Int /\ M * P \in Int /\ K * P \in Int
      BY <1>1, <1>2, <3>4 DEF R
    <3> QED BY <3>3, <3>5, <3>6, <3>7 DEF R
  <2>3. ASSUME G < F PROVE s * s <= V
    <3>1. s <= y0
      BY <1>3, <1>7, <1>8, <1>12, <2>2, <2>3
    <3> QED BY <1>7, <1>10, <3>1
  <2> QED BY <1>3, <1>8, <2>1, <2>3 DEF F, G
<1> QED BY <1>1, <1>13, <1>14, <1>15

\* A set of powers is at least what each of them is.
LEMMA HasAPower ==
  ASSUME NEW B \in Int, NEW C \in Int, B <= C, NEW p \in SUBSET (B..(C - 1)), NEW i \in p
  PROVE  i - B \in Nat /\ Power(i - B) \in Nat /\ Amount(p, B) \in Nat /\ Power(i - B) <= Amount(p, B)
<1> DEFINE k == i - B
           x == Shifted(p, -B)
<1>1. i \in Int /\ k \in Nat /\ k + B = i /\ C - B \in Nat
  OBVIOUS
<1>2. x \in Words(C - B) /\ Amount(p, B) \in Nat /\ \A j \in Int : j \in x <=> j + B \in p
  BY AmountIs
<1> HIDE DEF k, x
<1>3. k \in x /\ k \notin Bits(k)
  BY <1>1, <1>2 DEF Bits
<1>4. x \notin Words(k)
  BY <1>3 DEF Words
<1>5. ~(Val(x) < Power(k))
  BY <1>1, <1>2, <1>4, SmallWord
<1>6. Power(k) \in Nat
  BY <1>1, PowersDouble
<1> QED BY <1>1, <1>2, <1>5, <1>6 DEF Amount, x, k

\* The root of a long word is long.
LEMMA RootIsLong ==
  ASSUME NEW u \in Nat, NEW v \in Nat, v <= 2 * u, NEW m \in Nat, NEW e \in Nat, m + m <= e, Power(e) <= u * u + v
  PROVE  Power(m) <= u
<1> DEFINE w == Power(m)
<1>1. Power(m + m) = w * w /\ w \in Nat
  BY PowersAdd, PowersDouble
<1>2. Power(m + m) <= Power(e) /\ Power(m + m) \in Nat /\ Power(e) \in Nat
  <2>1. m + m \in Nat
    OBVIOUS
  <2> QED BY <2>1, PowersGrow, PowersDouble
<1> HIDE DEF w
<1>3. (u + 1) * (u + 1) = u * u + 2 * u + 1 /\ u + 1 \in Nat /\ u * u \in Nat /\ w * w \in Nat
  BY <1>1
<1>4. w * w < (u + 1) * (u + 1)
  BY <1>1, <1>2, <1>3
<1>5. w < u + 1
  BY <1>1, <1>3, <1>4, SquaresOrder
<1> QED BY <1>1, <1>5 DEF w

\* r is rounded from the root u of the powers of p, of which v is left over, in
\* digits from D upwards.
Rooted(f, p, r, u, v, D) ==
  /\ v <= 2 * u /\ Amount(p, 2 * (D + 1)) = u * u + v
  /\ RoundsDigits(f, r, FALSE, 2 * u + (IF v = 0 THEN 0 ELSE 1), D)

\* Rounding finds such a root.
LEMMA RootRounds ==
  ASSUME NEW f, Format(f), NEW B \in Int, NEW C \in Int, NEW x, NEW p \in SUBSET (B..(C - 1)), x.pow = p,
         p # {}, \A i, j \in p : i - j <= f.man
  PROVE  \E D \in Int, u \in Nat, v \in Nat :
           /\ Rooted(f, p, Rounded(f, SquareRoot(f, x)), u, v, D)
           /\ 2 * (D + 1) <= C /\ p \in SUBSET ((2 * (D + 1))..(C - 1))
<1> DEFINE top == Max(p)
           half == top \div 2
           P == f.man + 3
           D == half - P
           g == 2 * (half + 1 - P)
           z == SquareRoot(f, x)
<1>1. top \in p /\ top \in Int /\ \A i \in p : i <= top
  BY Extrema
<1>2. half \in Int /\ 2 * half <= top /\ top < 2 * half + 2 /\ f.man \in Nat \ {0} /\ P \in Nat \ {0}
  <2> HIDE DEF top
  <2> QED BY <1>1 DEF Format
<1> HIDE DEF top, half
<1>3. /\ D \in Int /\ g \in Int /\ g = 2 * (D + 1) /\ g <= top - f.man /\ top < C /\ g <= C /\ g < C
      /\ (f.man + 2) + (f.man + 2) <= top - g /\ top - g \in Nat /\ f.man + 2 \in Nat /\ (f.man + 2) + 1 = P
      /\ P + 3 \in Nat
  <2>1. top < C
    BY <1>1
  <2> QED BY <1>1, <1>2, <2>1
<1>4. p \in SUBSET (g..(C - 1)) /\ Above(p, g) = p
  <2>1. \A i \in p : i \in g..(C - 1)
    <3> TAKE i \in p
    <3>1. i \in Int /\ i < C /\ top - i <= f.man
      BY <1>1
    <3> QED BY <1>1, <1>2, <1>3, <3>1
  <2>2. \A i \in p : i >= g
    BY <1>3, <2>1
  <2> QED BY <2>1, <2>2 DEF Above
<1>5. PICK w : \E u \in Nat, v \in Nat :
           /\ RootOf(P + 3, w, u, v, Amount(Above(p, g), g)) /\ u < Power(P)
           /\ z.pow = Shifted(WithRest(Shifted(w.root, 1 - P), w.rest, P), half)
  <2>1. half = Max(p) \div 2 /\ P = f.man + 3 /\ g = 2 * (half + 1 - P) /\ z = SquareRoot(f, x)
    BY DEF half, top
  <2> HIDE DEF P, g, z
  <2>2. RootDigits(f, x, P, half, Amount(Above(p, g), g))
    BY <2>1, SquareRootDigits, Zenon
  <2> QED BY <2>1, <2>2 DEF RootDigits
<1>6. PICK u \in Nat, v \in Nat :
           /\ RootOf(P + 3, w, u, v, Amount(Above(p, g), g)) /\ u < Power(P)
           /\ z.pow = Shifted(WithRest(Shifted(w.root, 1 - P), w.rest, P), half)
  BY <1>5
<1>7. z.neg = FALSE
  BY DEF SquareRoot
<1> HIDE DEF z
<1>8. /\ w.root \in Words(P + 3) /\ Val(w.root) = u /\ w.rest \in Words(P + 3) /\ Val(w.rest) = v
      /\ v <= 2 * u /\ u * u + v = Amount(p, g)
  BY <1>4, <1>6 DEF RootOf
<1> DEFINE digits == Shifted(w.root, 1 - P)
           y == Shifted(WithRest(digits, w.rest, P), half)
           X == 2 * u + (IF v = 0 THEN 0 ELSE 1)
<1>9. digits \in SUBSET ((1 - P)..0) /\ Amount(digits, 1 - P) = u
  <2> DEFINE root == w.root
             k == 1 - P
  <2>1. root \in Words(P)
    <3>1. Val(root) < Power(P) /\ P \in Nat /\ root \in Words(P + 3)
      BY <1>2, <1>6, <1>8
    <3> HIDE DEF root, P
    <3> QED BY <1>3, <3>1, SmallWord
  <2>2. k \in Int /\ k <= k /\ k - k = 0 /\ k + P - 1 = 0 /\ P \in Nat
    BY <1>2
  <2> HIDE DEF root, k, P
  <2>3. Shifted(root, k) \in SUBSET (k..(k + P - 1)) /\ Amount(Shifted(root, k), k) = Val(root) * Power(k - k)
    BY <2>1, <2>2, PlacedWord, Zenon
  <2>4. Power(0) = 1
    BY PowersDouble
  <2> QED BY <1>8, <2>2, <2>3, <2>4 DEF root, k
<1>10. w.rest = {} <=> v = 0
  <2>1. {} \in Words(P + 3)
    BY <1>3, ZeroIsWord
  <2> QED BY <1>3, <1>8, <2>1, ZeroIsZero, ValInjective, Zenon
<1>11. z.pow = y
  BY <1>6
<1> HIDE DEF P
<1>12. /\ D \in Int /\ half + 1 \in Int /\ D <= half + 1 /\ y \in SUBSET (D..((half + 1) - 1))
       /\ Amount(y, D) = 2 * Amount(digits, 1 - P) + IF w.rest = {} THEN 0 ELSE 1
  <2>1. y = Shifted(WithRest(digits, w.rest, P), half) /\ D = half - P
    OBVIOUS
  <2> HIDE DEF digits, y, D
  <2> QED BY <1>2, <1>9, <2>1, WithRestIs
<1>13. Amount(y, D) = X
  BY <1>9, <1>10, <1>12
<1> HIDE DEF y, D, digits
<1>14. Power(f.man + 3) <= X
  <2>1. Power(top - g) <= u * u + v
    <3>1. Power(top - g) <= Amount(p, g)
      BY <1>1, <1>3, <1>4, HasAPower
    <3> QED BY <1>8, <3>1
  <2>2. Power(f.man + 2) <= u
    <3> HIDE DEF g
    <3> DEFINE e == top - g
               m == f.man + 2
    <3>1. e \in Nat /\ m \in Nat /\ m + m <= e /\ Power(e) <= u * u + v
      BY <1>3, <2>1
    <3> HIDE DEF e, m
    <3>2. Power(m) <= u
      BY <1>8, <3>1, RootIsLong
    <3> QED BY <3>2 DEF m
  <2>3. Power((f.man + 2) + 1) = 2 * Power(f.man + 2) /\ Power(f.man + 2) \in Nat
    BY <1>3, PowersDouble
  <2>4. (f.man + 2) + 1 = f.man + 3
    BY <1>2
  <2> QED BY <2>2, <2>3, <2>4
<1>15. RoundsDigits(f, Rounded(f, z), FALSE, Amount(y, D), D)
  <2>1. Power(f.man + 3) <= Amount(y, D) /\ FALSE \in BOOLEAN
    BY <1>13, <1>14
  <2> QED BY <1>7, <1>11, <1>12, <2>1, EnoughDigits, Zenon
<1>16. Rooted(f, p, Rounded(f, z), u, v, D)
  <2>1. Amount(p, 2 * (D + 1)) = u * u + v
    BY <1>3, <1>8
  <2> QED BY <1>8, <1>13, <1>15, <2>1 DEF Rooted
<1>17. 2 * (D + 1) <= C /\ p \in SUBSET ((2 * (D + 1))..(C - 1))
  BY <1>3, <1>4
<1> HIDE DEF g
<1> QED BY <1>12, <1>16, <1>17 DEF z

\* r is a number of the format, and the midpoints between it and the others are
\* on their side of the square root of n units.
IsNearestRoot(f, r, n) ==
  /\ r \in Numbers(f)
  /\ \A z \in Numbers(f) :
       LET sum == Units(f, r) + Units(f, z)
       IN /\ Units(f, z) > Units(f, r) => 4 * n * UnitsInOne(f) <= sum * sum
          /\ Units(f, z) \in 0..(Units(f, r) - 1) => 4 * n * UnitsInOne(f) >= sum * sum

\* So it is for the digits of a root.
LEMMA RootAlike ==
  ASSUME NEW f, Format(f), NEW L, L = LowestPower(f), NEW C \in Nat, NEW p \in SUBSET (L..(C - 1)),
         NEW g \in Int, g <= C, p \in SUBSET (g..(C - 1)), NEW E \in Nat, NEW h \in Nat, 2 * h = 2 * E + 2 * L - g - 2,
         NEW u \in Nat, NEW v \in Nat, v <= 2 * u, Amount(p, g) = u * u + v,
         NEW V, V = 4 * Amount(p, L) * UnitsInOne(f), NEW X, X = 2 * u + (IF v = 0 THEN 0 ELSE 1)
  PROVE  SquaresAlike(X, 2 * Power(h), Power(E), V)
<1> DEFINE P == Power(E)
           Q == Power(h)
           c == Amount(p, g)
<1>1. P \in Nat /\ Q \in Nat
  BY PowersDouble
<1> SUFFICES ASSUME NEW m \in Nat
             PROVE  /\ m * (2 * Q) <= X <=> (m * P) * (m * P) <= V
                    /\ X < m * (2 * Q) <=> V < (m * P) * (m * P)
                    /\ X = m * (2 * Q) <=> V = (m * P) * (m * P)
  BY Zenon DEF SquaresAlike
<1> DEFINE i == m * Q
           j == m * P
<1>2. i \in Nat /\ j \in Nat /\ m * (2 * Q) = 2 * i
  <2> HIDE DEF P, Q
  <2> QED BY <1>1
<1>3. /\ i * i <= c <=> j * j <= V
      /\ c < i * i <=> V < j * j
      /\ i * i = c <=> j * j = V
  <2>1. i = m * Power(h) /\ j = m * Power(E)
    OBVIOUS
  <2> HIDE DEF i, j, c
  <2>2. Compare(i, Amount(p, g), j, V)
    BY <2>1, RootScales, Zenon
  <2> QED BY <2>2 DEF c, Compare
<1> HIDE DEF i
<1>4. /\ 2 * i <= X <=> i * i <= c
      /\ X < 2 * i <=> c < i * i
      /\ X = 2 * i <=> c = i * i
  <2> HIDE DEF c
  <2>1. c = u * u + v
    BY DEF c
  <2> QED BY <1>2, <2>1, StickyRoot
<1>5. m * (2 * Q) = 2 * i /\ j * j = (m * P) * (m * P)
  BY <1>2
<1> DEFINE y == m * (2 * Q)
           s == (m * P) * (m * P)
<1>6. y = 2 * i /\ s = j * j
  BY <1>5
<1> HIDE DEF y, s, j, c
<1>7. /\ y <= X <=> s <= V
      /\ X < y <=> V < s
      /\ X = y <=> V = s
  BY <1>3, <1>4, <1>6
<1> QED BY <1>7 DEF y, s

\* What SquareRoot gives is rounded to the number nearest to the root.
LEMMA RootIsNearest ==
  ASSUME NEW f, Format(f), NEW L, L = LowestPower(f), NEW C \in Nat, NEW x, NEW p \in SUBSET (L..(C - 1)), x.pow = p,
         p # {}, \A i, j \in p : i - j <= f.man
  PROVE  IsNearestRoot(f, Rounded(f, SquareRoot(f, x)), Amount(p, L))
<1> DEFINE r == Rounded(f, SquareRoot(f, x))
           F == Place(f, r)
           V == 4 * Amount(p, L) * UnitsInOne(f)
<1>1. L \in Int /\ L <= C /\ C \in Int /\ Amount(p, L) \in Nat /\ V \in Nat
  <2>1. L \in Int /\ L <= C /\ C \in Int /\ UnitsInOne(f) = Power(-L) /\ -L \in Nat
    BY LowestPowerIs
  <2>2. Amount(p, L) \in Nat
    BY <2>1, AmountIs
  <2>3. UnitsInOne(f) \in Nat
    BY <2>1, PowersDouble
  <2> DEFINE i == Amount(p, L)
             j == UnitsInOne(f)
  <2>4. i \in Nat /\ j \in Nat
    BY <2>2, <2>3
  <2> HIDE DEF i, j
  <2>5. 4 * i * j \in Nat
    BY <2>4
  <2> QED BY <2>1, <2>2, <2>5 DEF i, j
<1>2. PICK D \in Int, u \in Nat, v \in Nat :
           /\ Rooted(f, p, r, u, v, D)
           /\ 2 * (D + 1) <= C /\ p \in SUBSET ((2 * (D + 1))..(C - 1))
  BY <1>1, RootRounds
<1> HIDE DEF r
<1> DEFINE X == 2 * u + (IF v = 0 THEN 0 ELSE 1)
           g == 2 * (D + 1)
<1>3. v <= 2 * u /\ Amount(p, g) = u * u + v /\ RoundsDigits(f, r, FALSE, X, D) /\ g \in Int /\ X \in Int
  <2>1. v <= 2 * u /\ Amount(p, g) = u * u + v /\ RoundsDigits(f, r, FALSE, X, D)
    BY <1>2, Zenon DEF Rooted
  <2>2. g \in Int /\ X \in Int
    OBVIOUS
  <2> HIDE DEF g, X
  <2> QED BY <2>1, <2>2
<1>4. /\ r \in Words(Width(f)) /\ ~IsNegative(f, r) /\ F <= Top(f) /\ F \in Nat /\ Top(f) \in Nat
      /\ \E K \in Nat, E \in Nat : /\ E + L - D - 2 \in Nat
                                   /\ RoundsTo(f, X, 2 * Power(E + L - D - 2), K, E, F)
  BY <1>3, FieldsOfPlace, ClassesOfPlace DEF RoundsDigits
<1> HIDE DEF X, F
<1>5. PICK K \in Nat, E \in Nat : /\ E + L - D - 2 \in Nat
                                 /\ RoundsTo(f, X, 2 * Power(E + L - D - 2), K, E, F)
  BY <1>4
<1> DEFINE h == E + L - D - 2
           T == 2 * Power(h)
<1>6. h \in Nat /\ 2 * h = 2 * E + 2 * L - g - 2 /\ RoundsTo(f, X, T, K, E, F) /\ T \in Int
  <2>1. h \in Nat
    BY <1>5
  <2>2. Power(h) \in Nat
    BY <2>1, PowersDouble
  <2> QED BY <1>1, <1>5, <2>1, <2>2
<1>7. SquaresAlike(X, T, Power(E), V)
  <2>1. X = 2 * u + (IF v = 0 THEN 0 ELSE 1) /\ g <= C /\ p \in SUBSET (g..(C - 1))
    BY <1>2 DEF X
  <2> HIDE DEF h, g
  <2> QED BY <1>3, <1>6, <2>1, RootAlike, Zenon
<1> HIDE DEF T, V, h, g
<1>8. ASSUME NEW z \in Nat, z <= Top(f), NEW s, s = Grid(f, F) + Grid(f, z)
      PROVE  /\ Grid(f, z) > Grid(f, F) => V <= s * s
             /\ Grid(f, z) < Grid(f, F) => V >= s * s
  BY <1>1, <1>3, <1>4, <1>6, <1>7, <1>8, NearestRootPlace
<1>9. r \in Numbers(f) /\ Units(f, r) = Grid(f, F) /\ Grid(f, F) \in Nat
  <2>1. ~IsNaN(f, r)
    BY <1>4, ClassesOfPlace DEF F
  <2>2. Units(f, r) = Grid(f, F) /\ Grid(f, F) \in Nat
    BY <1>4, UnitsOfPlace, GridGrows DEF F
  <2> QED BY <1>4, <2>1, <2>2 DEF Numbers, Number
<1>10. ASSUME NEW z \in Numbers(f)
       PROVE  LET sum == Units(f, r) + Units(f, z)
              IN /\ Units(f, z) > Units(f, r) => V <= sum * sum
                 /\ Units(f, z) \in 0..(Units(f, r) - 1) => V >= sum * sum
  <2> DEFINE y == Place(f, z)
             t == Units(f, z)
             w == Units(f, r)
             s == w + t
  <2>1. y \in Nat /\ y <= Top(f) /\ Grid(f, y) \in Nat
    <3>1. ~IsNaN(f, z)
      BY DEF Numbers, Number
    <3>2. y \in Nat
      BY FieldsOfPlace
    <3>3. Grid(f, y) \in Nat
      BY <3>2, GridGrows
    <3> QED BY <1>4, <3>1, <3>2, <3>3, ClassesOfPlace
  <2>2. t \in Int /\ (t >= 0 => t = Grid(f, y))
    BY <2>1, UnitsOfPlace
  <2> HIDE DEF y, t, w
  <2>3. w = Grid(f, F) /\ w \in Nat
    BY <1>9 DEF w
  <2>4. CASE t < 0
    BY <2>2, <2>3, <2>4 DEF t, w
  <2>5. CASE t >= 0
    <3>1. /\ t > w => V <= s * s
          /\ t < w => V >= s * s
      <4>1. t = Grid(f, y) /\ s = Grid(f, F) + Grid(f, y)
        BY <2>2, <2>3, <2>5
      <4> HIDE DEF s
      <4> QED BY <1>8, <2>1, <2>3, <4>1
    <3>2. t \in 0..(w - 1) => t < w
      BY <2>2, <2>3
    <3> HIDE DEF s
    <3> QED BY <3>1, <3>2 DEF s, t, w
  <2> QED BY <2>2, <2>4, <2>5
<1> QED BY <1>9, <1>10, Zenon DEF IsNearestRoot, V, r

\* The square root of a finite number that is not negative.
LEMMA SquareRootIsNearest ==
  ASSUME NEW f, Format(f), NEW x \in Words(Width(f)), Finite(f, x), NEW n, n = Units(f, x), n >= 0
  PROVE  \E r : fsqrt(f, x) = {r} /\ IsNearestRoot(f, r, n)
<1> DEFINE y == Exact(f, x)
           p == y.pow
           L == LowestPower(f)
           C == 2 + 2^(f.exp - 1)
<1>1. /\ L \in Int /\ C \in Int /\ C >= 4 /\ L <= C /\ p \in SUBSET (L..(C - 1)) /\ Amount(p, L) = AbsVal(Units(f, x))
      /\ UnitsInOne(f) \in Nat
  BY PowersOfExact
<1>2. \A i, j \in p : i - j <= f.man
  BY ExactIs
<1>3. /\ n \in Int /\ AbsVal(n) = n /\ (n > 0 => ~IsNegative(f, x)) /\ (n = 0 <=> Place(f, x) = 0)
  BY UnitsSign DEF AbsVal
<1>4. ~IsNaN(f, x) /\ ~IsInf(f, x) /\ (IsZero(f, x) <=> n = 0)
  <2>1. IsZero(f, x) <=> Place(f, x) = 0
    BY ClassesOfPlace
  <2> QED BY <1>3, <2>1, FiniteIs
<1>5. CASE n = 0
  <2>1. fsqrt(f, x) = {x}
    BY <1>4, <1>5 DEF fsqrt
  <2>2. IsNearestRoot(f, x, n)
    <3>1. x \in Numbers(f) /\ Units(f, x) = 0
      BY <1>4, <1>5 DEF Numbers, Number
    <3>2. ASSUME NEW z \in Numbers(f)
          PROVE  LET sum == Units(f, x) + Units(f, z)
                 IN /\ Units(f, z) > Units(f, x) => 4 * n * UnitsInOne(f) <= sum * sum
                    /\ Units(f, z) \in 0..(Units(f, x) - 1) => 4 * n * UnitsInOne(f) >= sum * sum
      <4> DEFINE t == Units(f, z)
                 d == UnitsInOne(f)
      <4>1. t \in Int /\ d \in Nat /\ Units(f, x) = 0
        BY <1>1, <3>1, UnitsSign
      <4>2. 4 * n * d = 0
        <5> HIDE DEF d
        <5> QED BY <1>5, <4>1
      <4> HIDE DEF t, d
      <4>3. t > 0 => 0 <= (0 + t) * (0 + t)
        <5>1. CASE t > 0
          <6>1. t \in Nat /\ 0 + t = t
            BY <4>1, <5>1
          <6>2. t * t \in Nat
            BY <6>1
          <6> QED BY <6>1, <6>2
        <5> QED BY <5>1
      <4> QED BY <4>1, <4>2, <4>3 DEF t, d
    <3> QED BY <3>1, <3>2, Zenon DEF IsNearestRoot
  <2> QED BY <2>1, <2>2
<1>6. CASE n # 0
  <2> DEFINE r == Rounded(f, SquareRoot(f, y))
  <2>1. fsqrt(f, x) = {r}
    BY <1>3, <1>4, <1>6 DEF fsqrt
  <2>2. p # {} /\ y.pow = p /\ C \in Nat /\ L = LowestPower(f)
    <3>1. p = {} <=> Amount(p, L) = 0
      <4> HIDE DEF p, L, C
      <4> QED BY <1>1, AmountIs
    <3>2. C \in Nat
      <4> HIDE DEF C
      <4> QED BY <1>1
    <3> QED BY <1>1, <1>3, <1>6, <3>1, <3>2
  <2>3. IsNearestRoot(f, r, Amount(p, L))
    <3> HIDE DEF p, L, C, y
    <3> QED BY <1>1, <1>2, <2>2, RootIsNearest, Zenon
  <2> HIDE DEF r
  <2> QED BY <1>1, <1>3, <2>1, <2>3
<1> QED BY <1>5, <1>6

-----------------------------------------------------------------------------
(* Infinities, divisions by zero and NaNs *)

\* A pattern is of one class only, and one with a sign put on is of the class
\* of its magnitude.
LEMMA SpecialPatterns ==
  ASSUME NEW f, Format(f)
  PROVE  /\ \A x : ~(IsInf(f, x) /\ IsZero(f, x)) /\ ~(IsNaN(f, x) /\ IsZero(f, x)) /\ ~(IsNaN(f, x) /\ IsInf(f, x))
         /\ \A g \in BOOLEAN :
              /\ IsInf(f, WithSign(f, g, Infinity(f))) /\ IsZero(f, WithSign(f, g, {}))
              /\ IsNegative(f, WithSign(f, g, Infinity(f))) <=> g
              /\ IsNegative(f, WithSign(f, g, {})) <=> g
<1> DEFINE s == SignAt(f)
           w == Infinity(f)
<1>1. s \in Nat /\ w \subseteq 0..(s - 1)
  <2>1. s \in Nat /\ f.man \in Nat
    BY FormatWidths
  <2> QED BY <2>1 DEF Infinity
<1>2. ASSUME NEW x PROVE ~(IsInf(f, x) /\ IsZero(f, x)) /\ ~(IsNaN(f, x) /\ IsZero(f, x)) /\ ~(IsNaN(f, x) /\ IsInf(f, x))
  <2> DEFINE p == Place(f, x)
             t == Top(f)
  <2>1. /\ t \in Nat /\ t > Power(f.man)
        /\ IsInf(f, x) <=> p = t
        /\ IsNaN(f, x) <=> p > t
        /\ IsZero(f, x) <=> p = 0
    BY ClassesOfPlace
  <2>2. Power(f.man) \in Nat
    BY FormatWidths
  <2> HIDE DEF p, t
  <2>3. ~(p = t /\ p = 0) /\ ~(p > t /\ p = 0) /\ ~(p > t /\ p = t)
    <3>1. t > 0 /\ t \in Nat
      BY <2>1, <2>2
    <3> QED BY <3>1
  <2> QED BY <2>1, <2>3, Zenon
<1>3. ASSUME NEW g \in BOOLEAN, NEW m, m \subseteq 0..(s - 1)
      PROVE  Magnitude(f, WithSign(f, g, m)) = m /\ (IsNegative(f, WithSign(f, g, m)) <=> g)
  <2> HIDE DEF s
  <2>1. Bits(s) = 0..(s - 1) /\ s \notin 0..(s - 1)
    BY <1>1 DEF Bits
  <2> QED BY <1>3, <2>1 DEF Magnitude, Trunc, WithSign, IsNegative, s
<1>4. {} \subseteq 0..(s - 1)
  OBVIOUS
<1> HIDE DEF s, w
<1>5. ASSUME NEW g \in BOOLEAN
      PROVE  /\ IsInf(f, WithSign(f, g, Infinity(f))) /\ IsZero(f, WithSign(f, g, {}))
             /\ IsNegative(f, WithSign(f, g, Infinity(f))) <=> g
             /\ IsNegative(f, WithSign(f, g, {})) <=> g
  BY <1>1, <1>3, <1>4 DEF IsInf, IsZero, w
<1> QED BY <1>2, <1>5

\* A result set with one infinity or one zero is of that kind.
LEMMA SpecialResults ==
  ASSUME NEW f, Format(f), NEW g \in BOOLEAN
  PROVE  /\ OnlyInfinity(f, {WithSign(f, g, Infinity(f))}, g)
         /\ OnlyZero(f, {WithSign(f, g, {})}, g)
BY SpecialPatterns, Zenon DEF OnlyInfinity, OnlyZero

\* What fma returns where it does not round.
FmaExceptions(f, x, y, z) ==
  LET results == fma(f, x, y, z)
      infinite == IsInf(f, x) \/ IsInf(f, y)
      nan == IsNaN(f, x) \/ IsNaN(f, y) \/ IsNaN(f, z)
      invalid == infinite /\ (IsZero(f, x) \/ IsZero(f, y))
  IN /\ nan \/ invalid => OnlyNaNs(f, results)
     /\ (~nan /\ ~invalid /\ (infinite \/ IsInf(f, z))) =>
          SumAtInfinity(f, results, infinite, ~(IsNegative(f, x) <=> IsNegative(f, y)),
                                    IsInf(f, z), IsNegative(f, z))
LEMMA FmaSpecial ==
  ASSUME NEW f, Format(f), NEW x, NEW y, NEW z
  PROVE  FmaExceptions(f, x, y, z)
<1> DEFINE nans == {v \in {x, y, z} : IsNaN(f, v)}
           negative == IsNegative(f, x) # IsNegative(f, y)
           infinite == IsInf(f, x) \/ IsInf(f, y)
           invalid == infinite /\ (IsZero(f, x) \/ IsZero(f, y))
           results == fma(f, x, y, z)
           nan == IsNaN(f, x) \/ IsNaN(f, y) \/ IsNaN(f, z)
           clash == infinite /\ IsInf(f, z) /\ negative # IsNegative(f, z)
<1>1. /\ nans = {} <=> ~nan
      /\ \A v \in nans : IsNaN(f, v)
  OBVIOUS
<1>2. /\ negative \in BOOLEAN /\ infinite \in BOOLEAN /\ invalid \in BOOLEAN
      /\ IsNegative(f, z) \in BOOLEAN /\ IsInf(f, z) \in BOOLEAN
      /\ negative <=> ~(IsNegative(f, x) <=> IsNegative(f, y))
      /\ clash <=> infinite /\ IsInf(f, z) /\ ~(negative <=> IsNegative(f, z))
  BY DEF IsInf, IsZero, IsNegative
<1>3. /\ nans # {} => results = Quieted(f, nans) \cup IF invalid THEN DefaultNaNs(f) ELSE {}
      /\ nans = {} /\ (invalid \/ clash) => results = DefaultNaNs(f)
      /\ nans = {} /\ ~invalid /\ ~clash /\ infinite => results = {WithSign(f, negative, Infinity(f))}
      /\ nans = {} /\ ~invalid /\ ~clash /\ ~infinite /\ IsInf(f, z) => results = {z}
  BY DEF fma
<1> HIDE DEF nans, negative, results, clash
<1>4. OnlyNaNs(f, DefaultNaNs(f)) /\ \A v : IsNaN(f, v) => IsNaN(f, v \cup {f.man - 1})
  BY NaNsAreNaNs
<1>5. nan => OnlyNaNs(f, results)
  <2> SUFFICES ASSUME nan PROVE OnlyNaNs(f, results)
    OBVIOUS
  <2> DEFINE q == Quieted(f, nans)
  <2>1. OnlyNaNs(f, q) /\ OnlyNaNs(f, q \cup DefaultNaNs(f))
    BY <1>1, <1>4 DEF Quieted, OnlyNaNs
  <2> HIDE DEF q
  <2>2. results = q \/ results = q \cup DefaultNaNs(f)
    <3>1. q \cup {} = q
      OBVIOUS
    <3>2. results = q \cup IF invalid THEN DefaultNaNs(f) ELSE {}
      BY <1>1, <1>3 DEF q
    <3> HIDE DEF invalid
    <3> QED BY <3>1, <3>2
  <2> QED BY <2>1, <2>2
<1>6. ~nan /\ (invalid \/ clash) => OnlyNaNs(f, results)
  BY <1>1, <1>3, <1>4
<1>7. ~nan /\ ~invalid /\ ~clash /\ infinite => OnlyInfinity(f, results, negative)
  BY <1>1, <1>2, <1>3, SpecialResults
<1>8. ~nan /\ ~invalid /\ ~clash /\ ~infinite /\ IsInf(f, z) => OnlyInfinity(f, results, IsNegative(f, z))
  BY <1>1, <1>3 DEF OnlyInfinity
<1>9. ~nan /\ ~invalid /\ (infinite \/ IsInf(f, z)) =>
        SumAtInfinity(f, results, infinite, negative, IsInf(f, z), IsNegative(f, z))
  <2> HIDE DEF nan, infinite, invalid
  <2> QED BY <1>2, <1>6, <1>7, <1>8 DEF SumAtInfinity
<1>10. negative = ~(IsNegative(f, x) <=> IsNegative(f, y))
  BY <1>2
<1> HIDE DEF nan, infinite, invalid
<1>11. /\ nan \/ invalid => OnlyNaNs(f, results)
       /\ (~nan /\ ~invalid /\ (infinite \/ IsInf(f, z))) =>
             SumAtInfinity(f, results, infinite, ~(IsNegative(f, x) <=> IsNegative(f, y)),
                                       IsInf(f, z), IsNegative(f, z))
  BY <1>5, <1>6, <1>9, <1>10
<1> QED BY <1>11, Zenon DEF FmaExceptions, nan, infinite, invalid, results

\* The opposites of results of one kind are of the opposite kind.
Opposites(f, results) == {Negated(f, v) : v \in results}
LEMMA OppositeResults ==
  ASSUME NEW f, Format(f), NEW results, NEW i, NEW g \in BOOLEAN, NEW j, NEW h \in BOOLEAN
  PROVE  /\ OnlyNaNs(f, results) => OnlyNaNs(f, Opposites(f, results))
         /\ OnlyInfinity(f, results, g) => OnlyInfinity(f, Opposites(f, results), ~g)
         /\ SumAtInfinity(f, results, i, g, j, h) => SumAtInfinity(f, Opposites(f, results), i, ~g, j, ~h)
<1> DEFINE opposites == Opposites(f, results)
<1>1. \A v : /\ IsNegative(f, Negated(f, v)) <=> ~IsNegative(f, v)
             /\ IsInf(f, Negated(f, v)) <=> IsInf(f, v)
             /\ IsNaN(f, Negated(f, v)) <=> IsNaN(f, v)
  BY NegatedIs DEF Number
<1>2. OnlyNaNs(f, results) => OnlyNaNs(f, opposites)
  BY <1>1 DEF OnlyNaNs, Opposites
<1>3. ASSUME NEW k \in BOOLEAN, OnlyInfinity(f, results, k) PROVE OnlyInfinity(f, opposites, ~k)
  <2>1. PICK r \in results : results = {r} /\ IsInf(f, r) /\ (IsNegative(f, r) <=> k)
    BY <1>3 DEF OnlyInfinity
  <2> DEFINE q == Negated(f, r)
  <2>2. opposites = {q}
    BY <2>1 DEF Opposites
  <2>3. IsInf(f, q) /\ (IsNegative(f, q) <=> ~k)
    BY <1>1, <2>1
  <2> HIDE DEF opposites, q
  <2> QED BY <2>2, <2>3 DEF OnlyInfinity
<1>4. SumAtInfinity(f, results, i, g, j, h) => SumAtInfinity(f, opposites, i, ~g, j, ~h)
  <2> HIDE DEF opposites
  <2>1. (~(~g <=> ~h)) <=> ~(g <=> h)
    OBVIOUS
  <2>2. ASSUME i /\ j /\ ~(g <=> h)
        PROVE  SumAtInfinity(f, results, i, g, j, h) => SumAtInfinity(f, opposites, i, ~g, j, ~h)
    BY <1>2, <2>1, <2>2 DEF SumAtInfinity
  <2>3. ASSUME ~(i /\ j /\ ~(g <=> h)), i
        PROVE  SumAtInfinity(f, results, i, g, j, h) => SumAtInfinity(f, opposites, i, ~g, j, ~h)
    BY <1>3, <2>1, <2>3 DEF SumAtInfinity
  <2>4. ASSUME ~(i /\ j /\ ~(g <=> h)), ~i
        PROVE  SumAtInfinity(f, results, i, g, j, h) => SumAtInfinity(f, opposites, i, ~g, j, ~h)
    BY <1>3, <2>1, <2>4 DEF SumAtInfinity
  <2> QED BY <2>2, <2>3, <2>4
<1>5. OnlyInfinity(f, results, g) => OnlyInfinity(f, opposites, ~g)
  BY <1>3
<1> QED BY <1>2, <1>4, <1>5

\* 1 and -0, with which sums and products are fused ones.
LEMMA UnitAndZero ==
  ASSUME NEW f, Format(f)
  PROVE  /\ ~IsNaN(f, Unit(f)) /\ ~IsInf(f, Unit(f)) /\ ~IsZero(f, Unit(f)) /\ ~IsNegative(f, Unit(f))
         /\ LET z == WithSign(f, TRUE, {}) IN IsZero(f, z) /\ ~IsNaN(f, z) /\ ~IsInf(f, z)
<1>1. ~IsNaN(f, Unit(f)) /\ ~IsInf(f, Unit(f))
  BY UnitIs, FiniteIs, Zenon
<1>2. f.exp \in Nat /\ f.exp >= 2 /\ f.man \in Nat /\ SignAt(f) = f.man + f.exp
  BY FormatWidths DEF Format
<1>3. ~IsZero(f, Unit(f)) /\ ~IsNegative(f, Unit(f))
  <2> DEFINE s == SignAt(f)
  <2>1. s \in Nat /\ f.man \in Unit(f) /\ f.man \in Bits(s) /\ s \notin Unit(f)
    BY <1>2 DEF Unit, Bits
  <2> QED BY <2>1 DEF IsZero, IsNegative, Magnitude, Trunc
<1>4. LET z == WithSign(f, TRUE, {}) IN IsZero(f, z) /\ ~IsNaN(f, z) /\ ~IsInf(f, z)
  BY SpecialPatterns
<1> QED BY <1>1, <1>3, <1>4

\* Sums and products of infinities and NaNs.
AddExceptions(f, x, y) ==
  LET unlike == ~(IsNegative(f, x) <=> IsNegative(f, y))
      infinite == IsInf(f, x) \/ IsInf(f, y)
      nan == IsNaN(f, x) \/ IsNaN(f, y)
      invalid == infinite /\ (IsZero(f, x) \/ IsZero(f, y))
  IN /\ nan => OnlyNaNs(f, fadd(f, x, y)) /\ OnlyNaNs(f, fsub(f, x, y)) /\ OnlyNaNs(f, fmul(f, x, y))
     /\ (~nan /\ infinite) =>
          /\ SumAtInfinity(f, fadd(f, x, y), IsInf(f, x), IsNegative(f, x), IsInf(f, y), IsNegative(f, y))
          /\ SumAtInfinity(f, fsub(f, x, y), IsInf(f, x), IsNegative(f, x), IsInf(f, y), ~IsNegative(f, y))
          /\ IF invalid THEN OnlyNaNs(f, fmul(f, x, y)) ELSE OnlyInfinity(f, fmul(f, x, y), unlike)
LEMMA AddSpecial ==
  ASSUME NEW f, Format(f), NEW x, NEW y
  PROVE  AddExceptions(f, x, y)
<1> DEFINE unit == Unit(f)
           z == WithSign(f, TRUE, {})
           Plus1(v) == fma(f, x, unit, v)
           infinite == IsInf(f, x) \/ IsInf(f, y)
           unlike == ~(IsNegative(f, x) <=> IsNegative(f, y))
<1>1. /\ ~IsNaN(f, unit) /\ ~IsInf(f, unit) /\ ~IsZero(f, unit) /\ ~IsNegative(f, unit)
      /\ IsZero(f, z) /\ ~IsNaN(f, z) /\ ~IsInf(f, z)
  BY UnitAndZero
<1>2. \A v : ~(IsInf(f, v) /\ IsZero(f, v)) /\ IsInf(f, v) \in BOOLEAN /\ IsNegative(f, v) \in BOOLEAN
  BY SpecialPatterns DEF IsInf, IsNegative
<1> HIDE DEF unit, z
<1>3. ASSUME NEW v
      PROVE  /\ IsNaN(f, x) \/ IsNaN(f, v) => OnlyNaNs(f, Plus1(v))
             /\ ~IsNaN(f, x) /\ ~IsNaN(f, v) /\ (IsInf(f, x) \/ IsInf(f, v)) =>
                  SumAtInfinity(f, Plus1(v), IsInf(f, x), IsNegative(f, x), IsInf(f, v), IsNegative(f, v))
  <2>1. FmaExceptions(f, x, unit, v)
    BY FmaSpecial, Zenon
  <2>2. (IsInf(f, x) \/ IsInf(f, unit)) = IsInf(f, x) /\ (~(IsNegative(f, x) <=> IsNegative(f, unit))) = IsNegative(f, x)
    BY <1>1, <1>2
  <2> QED BY <1>1, <1>2, <2>1, <2>2 DEF FmaExceptions
<1>4. fadd(f, x, y) = Plus1(y) /\ fsub(f, x, y) = Plus1(IF IsNaN(f, y) THEN y ELSE Negated(f, y))
  BY DEF fadd, fsub, unit
<1>5. /\ IsNaN(f, Negated(f, y)) <=> IsNaN(f, y)
      /\ IsInf(f, Negated(f, y)) = IsInf(f, y)
      /\ IsNegative(f, Negated(f, y)) = ~IsNegative(f, y)
  BY <1>2, NegatedIs DEF Number
<1> HIDE DEF Plus1
<1>6. /\ IsNaN(f, x) \/ IsNaN(f, y) => OnlyNaNs(f, fadd(f, x, y)) /\ OnlyNaNs(f, fsub(f, x, y))
      /\ ~IsNaN(f, x) /\ ~IsNaN(f, y) /\ infinite =>
          /\ SumAtInfinity(f, fadd(f, x, y), IsInf(f, x), IsNegative(f, x), IsInf(f, y), IsNegative(f, y))
          /\ SumAtInfinity(f, fsub(f, x, y), IsInf(f, x), IsNegative(f, x), IsInf(f, y), ~IsNegative(f, y))
  <2>1. CASE IsNaN(f, y)
    BY <1>3, <1>4, <2>1
  <2>2. CASE ~IsNaN(f, y)
    <3>1. fsub(f, x, y) = Plus1(Negated(f, y))
      BY <1>4, <2>2
    <3> QED BY <1>3, <1>4, <1>5, <2>2, <3>1
  <2> QED BY <2>1, <2>2
<1>7. /\ IsNaN(f, x) \/ IsNaN(f, y) => OnlyNaNs(f, fmul(f, x, y))
      /\ ~IsNaN(f, x) /\ ~IsNaN(f, y) /\ infinite =>
           IF IsZero(f, x) \/ IsZero(f, y) THEN OnlyNaNs(f, fmul(f, x, y)) ELSE OnlyInfinity(f, fmul(f, x, y), unlike)
  <2>1. FmaExceptions(f, x, y, z)
    BY FmaSpecial, Zenon
  <2>2. fmul(f, x, y) = fma(f, x, y, z)
    BY DEF fmul, z
  <2>3. ASSUME NEW results, SumAtInfinity(f, results, TRUE, unlike, FALSE, IsNegative(f, z))
        PROVE  OnlyInfinity(f, results, unlike)
    BY <2>3 DEF SumAtInfinity
  <2>4. IsInf(f, z) = FALSE
    BY <1>1, <1>2
  <2>5. /\ IsNaN(f, x) \/ IsNaN(f, y) => OnlyNaNs(f, fmul(f, x, y))
        /\ infinite /\ (IsZero(f, x) \/ IsZero(f, y)) => OnlyNaNs(f, fmul(f, x, y))
    BY <2>1, <2>2 DEF FmaExceptions
  <2>6. ~IsNaN(f, x) /\ ~IsNaN(f, y) /\ infinite /\ ~(IsZero(f, x) \/ IsZero(f, y))
          => OnlyInfinity(f, fmul(f, x, y), unlike)
    <3> SUFFICES ASSUME ~IsNaN(f, x), ~IsNaN(f, y), infinite, ~(IsZero(f, x) \/ IsZero(f, y))
                 PROVE  OnlyInfinity(f, fmul(f, x, y), unlike)
      OBVIOUS
    <3>1. SumAtInfinity(f, fmul(f, x, y), infinite, unlike, IsInf(f, z), IsNegative(f, z))
      BY <1>1, <2>1, <2>2 DEF FmaExceptions
    <3>2. infinite = TRUE
      BY <1>2
    <3> HIDE DEF infinite, unlike
    <3> QED BY <2>3, <2>4, <3>1, <3>2
  <2> QED BY <2>5, <2>6
<1> QED BY <1>6, <1>7 DEF AddExceptions

\* The four fused operations with infinities and NaNs.
FusedExceptions(f, op, x, y, z, negated, subtracted) ==
  LET results == fused(f, op, x, y, z)
      infinite == IsInf(f, x) \/ IsInf(f, y)
      unlike == ~(IsNegative(f, x) <=> IsNegative(f, y))
      nan == IsNaN(f, x) \/ IsNaN(f, y) \/ IsNaN(f, z)
      invalid == infinite /\ (IsZero(f, x) \/ IsZero(f, y))
  IN /\ nan \/ invalid => OnlyNaNs(f, results)
     /\ (~nan /\ ~invalid /\ (infinite \/ IsInf(f, z))) =>
          SumAtInfinity(f, results, infinite, IF negated THEN ~unlike ELSE unlike,
                        IsInf(f, z), IF subtracted THEN ~IsNegative(f, z) ELSE IsNegative(f, z))
LEMMA FusedSpecial ==
  ASSUME NEW f, Format(f), NEW x, NEW y, NEW z
  PROVE  /\ FusedExceptions(f, "FMADD", x, y, z, FALSE, FALSE)
         /\ FusedExceptions(f, "FMSUB", x, y, z, FALSE, TRUE)
         /\ FusedExceptions(f, "FNMSUB", x, y, z, TRUE, FALSE)
         /\ FusedExceptions(f, "FNMADD", x, y, z, TRUE, TRUE)
<1> DEFINE infinite == IsInf(f, x) \/ IsInf(f, y)
           unlike == ~(IsNegative(f, x) <=> IsNegative(f, y))
           nan == IsNaN(f, x) \/ IsNaN(f, y) \/ IsNaN(f, z)
           invalid == infinite /\ (IsZero(f, x) \/ IsZero(f, y))
           n == Negated(f, z)
           negative == IsNegative(f, z)
           sum == fma(f, x, y, z)
           difference == fma(f, x, y, n)
           special == ~nan /\ ~invalid /\ (infinite \/ IsInf(f, z))
<1>1. /\ IsInf(f, n) = IsInf(f, z)
      /\ IsNegative(f, n) = ~negative
      /\ IsNaN(f, n) <=> IsNaN(f, z)
  BY NegatedIs DEF Number, IsInf, IsNegative
<1>2. FmaExceptions(f, x, y, z) /\ FmaExceptions(f, x, y, n)
  BY FmaSpecial, Zenon
<1>3. /\ nan \/ invalid => OnlyNaNs(f, sum) /\ OnlyNaNs(f, difference)
      /\ special => /\ SumAtInfinity(f, sum, infinite, unlike, IsInf(f, z), negative)
                    /\ SumAtInfinity(f, difference, infinite, unlike, IsInf(f, z), ~negative)
  BY <1>1, <1>2 DEF FmaExceptions
<1>4. /\ fused(f, "FMADD", x, y, z) = sum /\ fused(f, "FMSUB", x, y, z) = difference
      /\ fused(f, "FNMSUB", x, y, z) = Opposites(f, difference)
      /\ fused(f, "FNMADD", x, y, z) = Opposites(f, sum)
  BY DEF fused, Opposites
<1>5. unlike \in BOOLEAN /\ negative \in BOOLEAN /\ (~negative) \in BOOLEAN
  BY DEF IsNegative
<1> HIDE DEF sum, difference, n, infinite, unlike, negative
<1>6. /\ nan \/ invalid => OnlyNaNs(f, Opposites(f, sum)) /\ OnlyNaNs(f, Opposites(f, difference))
      /\ special => /\ SumAtInfinity(f, Opposites(f, sum), infinite, ~unlike, IsInf(f, z), ~negative)
                    /\ SumAtInfinity(f, Opposites(f, difference), infinite, ~unlike, IsInf(f, z), ~~negative)
  <2> HIDE DEF nan, invalid, special
  <2>1. OnlyNaNs(f, sum) => OnlyNaNs(f, Opposites(f, sum))
    BY <1>5, OppositeResults, Zenon
  <2>2. OnlyNaNs(f, difference) => OnlyNaNs(f, Opposites(f, difference))
    BY <1>5, OppositeResults, Zenon
  <2>3. SumAtInfinity(f, sum, infinite, unlike, IsInf(f, z), negative)
          => SumAtInfinity(f, Opposites(f, sum), infinite, ~unlike, IsInf(f, z), ~negative)
    BY <1>5, OppositeResults, Zenon
  <2>4. SumAtInfinity(f, difference, infinite, unlike, IsInf(f, z), ~negative)
          => SumAtInfinity(f, Opposites(f, difference), infinite, ~unlike, IsInf(f, z), ~~negative)
    BY <1>5, OppositeResults, Zenon
  <2> QED BY <1>3, <2>1, <2>2, <2>3, <2>4, Zenon
<1>7. (~~negative) = negative
  BY <1>5
<1> HIDE DEF nan, invalid, special
<1>8. FusedExceptions(f, "FMADD", x, y, z, FALSE, FALSE)
  BY <1>3, <1>4 DEF FusedExceptions, nan, invalid, special, infinite, unlike, negative
<1>9. FusedExceptions(f, "FMSUB", x, y, z, FALSE, TRUE)
  BY <1>3, <1>4 DEF FusedExceptions, nan, invalid, special, infinite, unlike, negative
<1>10. FusedExceptions(f, "FNMSUB", x, y, z, TRUE, FALSE)
  BY <1>4, <1>6, <1>7 DEF FusedExceptions, nan, invalid, special, infinite, unlike, negative
<1>11. FusedExceptions(f, "FNMADD", x, y, z, TRUE, TRUE)
  BY <1>4, <1>6 DEF FusedExceptions, nan, invalid, special, infinite, unlike, negative
<1> QED BY <1>8, <1>9, <1>10, <1>11

\* Quotients and roots of infinities, zeros and NaNs.
DivisionExceptions(f, x, y) ==
  LET nan == IsNaN(f, x) \/ IsNaN(f, y)
      unlike == ~(IsNegative(f, x) <=> IsNegative(f, y))
  IN /\ nan \/ (IsInf(f, x) /\ IsInf(f, y)) \/ (IsZero(f, x) /\ IsZero(f, y)) => OnlyNaNs(f, fdiv(f, x, y))
     /\ (~nan /\ ((IsInf(f, x) /\ ~IsInf(f, y)) \/ (IsZero(f, y) /\ ~IsZero(f, x)))) =>
          OnlyInfinity(f, fdiv(f, x, y), unlike)
     /\ (~nan /\ ((IsInf(f, y) /\ ~IsInf(f, x)) \/ (IsZero(f, x) /\ ~IsZero(f, y)))) =>
          OnlyZero(f, fdiv(f, x, y), unlike)
LEMMA DivisionSpecial ==
  ASSUME NEW f, Format(f), NEW x, NEW y
  PROVE  DivisionExceptions(f, x, y)
<1> DEFINE nans == {v \in {x, y} : IsNaN(f, v)}
           negative == IsNegative(f, x) # IsNegative(f, y)
           unlike == ~(IsNegative(f, x) <=> IsNegative(f, y))
           nan == IsNaN(f, x) \/ IsNaN(f, y)
           results == fdiv(f, x, y)
           invalid == (IsZero(f, x) /\ IsZero(f, y)) \/ (IsInf(f, x) /\ IsInf(f, y))
<1>1. \A v : ~(IsInf(f, v) /\ IsZero(f, v)) /\ ~(IsNaN(f, v) /\ IsZero(f, v)) /\ ~(IsNaN(f, v) /\ IsInf(f, v))
  BY SpecialPatterns, Zenon
<1>2. negative = unlike /\ negative \in BOOLEAN
  BY DEF IsNegative
<1>3. (nans = {} <=> ~nan) /\ \A v \in nans : IsNaN(f, v)
  OBVIOUS
<1>4. /\ nans # {} => results = Quieted(f, nans)
      /\ nans = {} /\ invalid => results = DefaultNaNs(f)
      /\ nans = {} /\ ~invalid /\ (IsInf(f, x) \/ IsZero(f, y)) => results = {WithSign(f, negative, Infinity(f))}
      /\ nans = {} /\ ~invalid /\ ~(IsInf(f, x) \/ IsZero(f, y)) /\ (IsInf(f, y) \/ IsZero(f, x))
           => results = {WithSign(f, negative, {})}
  BY DEF fdiv
<1>5. OnlyNaNs(f, DefaultNaNs(f)) /\ \A v : IsNaN(f, v) => IsNaN(f, v \cup {f.man - 1})
  BY NaNsAreNaNs
<1> HIDE DEF nans, negative, results, unlike
<1>6. nan => OnlyNaNs(f, results)
  <2>1. nans # {} => OnlyNaNs(f, Quieted(f, nans))
    BY <1>3, <1>5 DEF Quieted, OnlyNaNs
  <2> HIDE DEF nan
  <2> QED BY <1>3, <1>4, <2>1
<1>7. nan \/ invalid => OnlyNaNs(f, results)
  BY <1>3, <1>4, <1>5, <1>6
<1>8. /\ OnlyInfinity(f, {WithSign(f, unlike, Infinity(f))}, unlike)
      /\ OnlyZero(f, {WithSign(f, unlike, {})}, unlike)
  BY <1>2, SpecialResults, Zenon
<1>9. ~nan /\ ((IsInf(f, x) /\ ~IsInf(f, y)) \/ (IsZero(f, y) /\ ~IsZero(f, x))) => OnlyInfinity(f, results, unlike)
  <2> SUFFICES ASSUME ~nan, (IsInf(f, x) /\ ~IsInf(f, y)) \/ (IsZero(f, y) /\ ~IsZero(f, x))
               PROVE  OnlyInfinity(f, results, unlike)
    OBVIOUS
  <2>1. ~invalid /\ (IsInf(f, x) \/ IsZero(f, y))
    BY <1>1
  <2> QED BY <1>2, <1>3, <1>4, <1>8, <2>1
<1>10. ~nan /\ ((IsInf(f, y) /\ ~IsInf(f, x)) \/ (IsZero(f, x) /\ ~IsZero(f, y))) => OnlyZero(f, results, unlike)
  <2> SUFFICES ASSUME ~nan, (IsInf(f, y) /\ ~IsInf(f, x)) \/ (IsZero(f, x) /\ ~IsZero(f, y))
               PROVE  OnlyZero(f, results, unlike)
    OBVIOUS
  <2>1. ~invalid /\ ~(IsInf(f, x) \/ IsZero(f, y)) /\ (IsInf(f, y) \/ IsZero(f, x))
    BY <1>1
  <2> QED BY <1>2, <1>3, <1>4, <1>8, <2>1
<1> QED BY <1>7, <1>9, <1>10, Zenon DEF DivisionExceptions, results, unlike

\* Square roots of infinities, zeros, negative numbers and NaNs.
LEMMA RootSpecial ==
  ASSUME NEW f, Format(f), NEW x
  PROVE  /\ IsNaN(f, x) \/ (IsNegative(f, x) /\ ~IsZero(f, x)) => OnlyNaNs(f, fsqrt(f, x))
         /\ (IsInf(f, x) /\ ~IsNegative(f, x)) \/ IsZero(f, x) => fsqrt(f, x) = {x}
<1>1. ~(IsInf(f, x) /\ IsZero(f, x)) /\ ~(IsNaN(f, x) /\ IsZero(f, x)) /\ ~(IsNaN(f, x) /\ IsInf(f, x))
  BY SpecialPatterns, Zenon
<1>2. OnlyNaNs(f, DefaultNaNs(f)) /\ (IsNaN(f, x) => OnlyNaNs(f, Quieted(f, {x})))
  BY NaNsAreNaNs DEF Quieted, OnlyNaNs
<1> QED BY <1>1, <1>2 DEF fsqrt
=============================================================================
