---------------------------- MODULE EncodingProofs --------------------------
(***************************************************************************)
(* MCDecode's properties for every register and every immediate: what a    *)
(* format puts together, the decoder takes apart again, and a 16-bit word  *)
(* is expanded to the instruction its case names.                          *)
(***************************************************************************)
EXTENDS MCDecode, WordsProofs

-----------------------------------------------------------------------------
(* Fields *)

\* The n bits of w from lo upwards are those of x.
Has(w, lo, n, x) == \A i \in Bits(n) : i + lo \in w <=> i \in x

\* Then they are read as x and stand for its number.
LEMMA FieldIs ==
  ASSUME NEW w, NEW lo \in Nat, NEW hi \in Nat, NEW n \in Nat, n = hi - lo + 1,
         NEW x \in Words(n), Has(w, lo, n, x)
  PROVE  Slice(w, lo, hi, 0) = x /\ Field(w, lo, hi) = Val(x)
<1> DEFINE s == Slice(w, lo, hi, 0)
<1>1. s \in Words(n) /\ \A i \in Bits(n) : i \in s <=> i + lo \in w
  BY SliceIsWord
<1>2. \A i \in Bits(n) : i \in s <=> i \in x
  BY <1>1 DEF Has
<1> HIDE DEF s
<1>3. s = x
  BY <1>1, <1>2, SameBits, Zenon
<1> QED BY <1>3 DEF s, Field

\* The fields of the formats.
LEMMA FieldsAre ==
  ASSUME NEW w
  PROVE  /\ \A x \in Words(7) : Has(w, 0, 7, x) => Field(w, 0, 6) = Val(x)
         /\ \A x \in Words(5) : Has(w, 7, 5, x) => Field(w, 7, 11) = Val(x)
         /\ \A x \in Words(3) : Has(w, 12, 3, x) => Field(w, 12, 14) = Val(x)
         /\ \A x \in Words(5) : Has(w, 15, 5, x) => Field(w, 15, 19) = Val(x)
         /\ \A x \in Words(5) : Has(w, 20, 5, x) => Field(w, 20, 24) = Val(x) /\ Slice(w, 20, 24, 0) = x
         /\ \A x \in Words(7) : Has(w, 25, 7, x) => Field(w, 25, 31) = Val(x)
         /\ \A x \in Words(12) : Has(w, 20, 12, x) => Field(w, 20, 31) = Val(x) /\ Slice(w, 20, 31, 0) = x
<1>1. \A lo, hi, n \in Nat : \A x \in Words(n) :
        n = hi - lo + 1 /\ Has(w, lo, n, x) => Slice(w, lo, hi, 0) = x /\ Field(w, lo, hi) = Val(x)
  BY FieldIs
<1>2. \A x \in Words(7) : Has(w, 0, 7, x) => Field(w, 0, 6) = Val(x)
  BY <1>1
<1>3. \A x \in Words(5) : Has(w, 7, 5, x) => Field(w, 7, 11) = Val(x)
  BY <1>1
<1>4. \A x \in Words(3) : Has(w, 12, 3, x) => Field(w, 12, 14) = Val(x)
  BY <1>1
<1>5. \A x \in Words(5) : Has(w, 15, 5, x) => Field(w, 15, 19) = Val(x)
  BY <1>1
<1>6. \A x \in Words(5) : Has(w, 20, 5, x) => Field(w, 20, 24) = Val(x) /\ Slice(w, 20, 24, 0) = x
  BY <1>1
<1>7. \A x \in Words(7) : Has(w, 25, 7, x) => Field(w, 25, 31) = Val(x)
  BY <1>1
<1>8. \A x \in Words(12) : Has(w, 20, 12, x) => Field(w, 20, 31) = Val(x) /\ Slice(w, 20, 31, 0) = x
  BY <1>1
<1> QED BY <1>2, <1>3, <1>4, <1>5, <1>6, <1>7, <1>8

\* Those of the 16-bit words.
LEMMA HalfwordFieldsAre ==
  ASSUME NEW c
  PROVE  /\ \A x \in Words(3) : Has(c, 13, 3, x) => Field(c, 13, 15) = Val(x)
         /\ \A x \in Words(2) : Has(c, 10, 2, x) => Field(c, 10, 11) = Val(x)
         /\ \A x \in Words(6) : Has(c, 10, 6, x) => Field(c, 10, 15) = Val(x)
<1>1. \A lo, hi, n \in Nat : \A x \in Words(n) :
        n = hi - lo + 1 /\ Has(c, lo, n, x) => Field(c, lo, hi) = Val(x)
  BY FieldIs
<1>2. \A x \in Words(3) : Has(c, 13, 3, x) => Field(c, 13, 15) = Val(x)
  BY <1>1
<1>3. \A x \in Words(2) : Has(c, 10, 2, x) => Field(c, 10, 11) = Val(x)
  BY <1>1
<1>4. \A x \in Words(6) : Has(c, 10, 6, x) => Field(c, 10, 15) = Val(x)
  BY <1>1
<1> QED BY <1>2, <1>3, <1>4

\* A literal that fits n bits is a word of n bits.
LEMMA NumFits ==
  ASSUME NEW n \in 0..31, NEW k \in Nat, k < Val({n}), k < 2^31
  PROVE  Num(k) \in Words(n) /\ Val(Num(k)) = k
<1>1. Num(k) \in Words(31) /\ Val(Num(k)) = k
  BY ValNum
<1>2. {n} \in Words(32) /\ Num(k) \in Words(32)
  BY <1>1 DEF Words, Bits
<1>3. LtU(Num(k), {n})
  <2>1. 32 \in Nat
    OBVIOUS
  <2> QED BY <1>1, <1>2, <2>1, ValOrder
<1>4. Num(k) \in Words(n)
  <2>1. ASSUME NEW j \in Num(k) PROVE j \in 0..(n - 1)
    BY <1>1, <1>3 DEF LtU, Words, Bits
  <2> QED BY <2>1 DEF Words, Bits
<1> QED BY <1>1, <1>4

\* The fields of the formats, and their powers of 2.
LEMMA Literals ==
  /\ \A k \in 0..127 : Num(k) \in Words(7) /\ Val(Num(k)) = k
  /\ \A k \in 0..31 : Num(k) \in Words(5) /\ Val(Num(k)) = k
  /\ \A k \in 0..7 : Num(k) \in Words(3) /\ Val(Num(k)) = k
<1>1. Val({7}) = 128 /\ Val({5}) = 32 /\ Val({3}) = 8
  <2>1. 2^3 = 8 /\ 2^5 = 32 /\ 2^7 = 128
    OBVIOUS
  <2> QED BY <2>1, ValPower
<1>2. 127 < 2^31
  BY SMT
<1>3. ASSUME NEW k \in 0..127 PROVE Num(k) \in Words(7) /\ Val(Num(k)) = k
  <2>1. k \in Nat /\ k < Val({7}) /\ k < 2^31
    BY <1>1, <1>2
  <2> QED BY <2>1, NumFits
<1>4. ASSUME NEW k \in 0..31 PROVE Num(k) \in Words(5) /\ Val(Num(k)) = k
  <2>1. k \in Nat /\ k < Val({5}) /\ k < 2^31
    BY <1>1, <1>2
  <2> QED BY <2>1, NumFits
<1>5. ASSUME NEW k \in 0..7 PROVE Num(k) \in Words(3) /\ Val(Num(k)) = k
  <2>1. k \in Nat /\ k < Val({3}) /\ k < 2^31
    BY <1>1, <1>2
  <2> QED BY <2>1, NumFits
<1> QED BY <1>3, <1>4, <1>5

-----------------------------------------------------------------------------
(* Formats *)

\* A word moved up by k positions.
LEMMA AtBit == \A x, k : \A i \in 0..31 : i \in At(x, k) <=> i - k \in x
BY DEF At, ShiftL, Bits

\* A slice moved to another place, bit by bit.
LEMMA SliceBit ==
  ASSUME NEW w, NEW lo \in Nat, NEW hi \in Nat, NEW at \in Nat, NEW i \in Int
  PROVE  i \in Slice(w, lo, hi, at) <=> (i - at + lo \in w /\ i - at + lo \in lo..hi)
<1>1. Slice(w, lo, hi, at) = {j + at - lo : j \in w \cap (lo..hi)}
  BY DEF Slice
<1>2. i \in Slice(w, lo, hi, at) => (i - at + lo \in w /\ i - at + lo \in lo..hi)
  BY <1>1
<1>3. ASSUME i - at + lo \in w, i - at + lo \in lo..hi
      PROVE  i \in Slice(w, lo, hi, at)
  <2>1. i = (i - at + lo) + at - lo
    OBVIOUS
  <2> QED BY <1>1, <1>3, <2>1
<1> QED BY <1>2, <1>3

\* The fields of the register format.
LEMMA RFormat ==
  ASSUME NEW op \in 0..127, NEW f3 \in 0..7, NEW f7 \in 0..127,
         NEW rd \in Words(5), NEW rs1 \in Words(5), NEW rs2 \in Words(5)
  PROVE  LET w == encode_r(op, rd, rs1, rs2, f3, f7)
         IN /\ Has(w, 0, 7, Num(op)) /\ Has(w, 7, 5, rd) /\ Has(w, 12, 3, Num(f3))
            /\ Has(w, 15, 5, rs1) /\ Has(w, 20, 5, rs2) /\ Has(w, 25, 7, Num(f7))
<1> DEFINE w == encode_r(op, rd, rs1, rs2, f3, f7)
<1>1. /\ Num(op) \in SUBSET (0..6) /\ Num(f3) \in SUBSET (0..2) /\ Num(f7) \in SUBSET (0..6)
      /\ rd \in SUBSET (0..4) /\ rs1 \in SUBSET (0..4) /\ rs2 \in SUBSET (0..4)
  BY Literals DEF Words, Bits
<1>2. \A i \in 0..31 : i \in w <=> \/ i - 25 \in Num(f7) \/ i - 20 \in rs2 \/ i - 15 \in rs1
                                   \/ i - 7 \in rd \/ i - 12 \in Num(f3) \/ i \in Num(op)
  BY AtBit DEF encode_r, Fixed
<1> HIDE DEF w
<1>3. Has(w, 0, 7, Num(op)) /\ Has(w, 7, 5, rd) /\ Has(w, 12, 3, Num(f3))
  BY <1>1, <1>2 DEF Has, Bits
<1>4. Has(w, 15, 5, rs1) /\ Has(w, 20, 5, rs2) /\ Has(w, 25, 7, Num(f7))
  BY <1>1, <1>2 DEF Has, Bits
<1> QED BY <1>3, <1>4 DEF w

\* Those of the immediate format, alone and with bits or-ed in at 25.
LEMMA IFormat ==
  ASSUME NEW op \in 0..127, NEW f3 \in 0..7, NEW f7 \in 0..127,
         NEW rd \in Words(5), NEW rs1 \in Words(5), NEW imm \in SUBSET Nat
  PROVE  LET w == encode_i(op, rd, rs1, imm, f3)
             v == w \cup At(Num(f7), 25)
         IN /\ Has(w, 0, 7, Num(op)) /\ Has(w, 7, 5, rd) /\ Has(w, 12, 3, Num(f3))
            /\ Has(w, 15, 5, rs1) /\ Has(w, 20, 12, imm)
            /\ Has(v, 0, 7, Num(op)) /\ Has(v, 7, 5, rd) /\ Has(v, 12, 3, Num(f3))
            /\ Has(v, 15, 5, rs1)
            /\ \A i \in 0..11 : i + 20 \in v <=> i \in imm \/ i - 5 \in Num(f7)
<1> DEFINE w == encode_i(op, rd, rs1, imm, f3)
           v == w \cup At(Num(f7), 25)
<1>1. /\ Num(op) \in SUBSET (0..6) /\ Num(f3) \in SUBSET (0..2) /\ Num(f7) \in SUBSET (0..6)
      /\ rd \in SUBSET (0..4) /\ rs1 \in SUBSET (0..4)
  BY Literals DEF Words, Bits
<1>2. \A i \in 0..31 : i \in w <=> \/ i - 20 \in imm \/ i - 15 \in rs1
                                   \/ i - 7 \in rd \/ i - 12 \in Num(f3) \/ i \in Num(op)
  BY AtBit DEF encode_i, Fixed
<1>3. \A i \in 0..31 : i \in v <=> i \in w \/ i - 25 \in Num(f7)
  BY AtBit
<1> HIDE DEF w, v
<1>4. Has(w, 0, 7, Num(op)) /\ Has(w, 7, 5, rd) /\ Has(w, 12, 3, Num(f3))
  BY <1>1, <1>2 DEF Has, Bits
<1>5. Has(w, 15, 5, rs1) /\ Has(w, 20, 12, imm)
  BY <1>1, <1>2 DEF Has, Bits
<1>6. Has(v, 0, 7, Num(op)) /\ Has(v, 7, 5, rd) /\ Has(v, 12, 3, Num(f3)) /\ Has(v, 15, 5, rs1)
  BY <1>1, <1>3, <1>4, <1>5 DEF Has, Bits
<1>7. \A i \in 0..11 : i + 20 \in v <=> i \in imm \/ i - 5 \in Num(f7)
  <2> SUFFICES ASSUME NEW i \in 0..11
               PROVE  i + 20 \in v <=> i \in imm \/ i - 5 \in Num(f7)
    OBVIOUS
  <2>1. i + 20 \in 0..31 /\ (i + 20) - 25 = i - 5 /\ i \in Bits(12)
    BY DEF Bits
  <2>2. i + 20 \in w <=> i \in imm
    BY <1>5, <2>1 DEF Has
  <2> QED BY <1>3, <2>1, <2>2
<1> QED BY <1>4, <1>5, <1>6, <1>7 DEF w, v

\* Stores have the immediate in two parts.
LEMMA SFormat ==
  ASSUME NEW op \in 0..127, NEW f3 \in 0..7, NEW rs1 \in Words(5), NEW rs2 \in Words(5), NEW imm
  PROVE  LET w == encode_s(op, rs1, rs2, imm, f3)
         IN /\ Has(w, 0, 7, Num(op)) /\ Has(w, 12, 3, Num(f3))
            /\ Has(w, 15, 5, rs1) /\ Has(w, 20, 5, rs2)
            /\ \A i \in 0..4 : i + 7 \in w <=> i \in imm
            /\ \A i \in 5..11 : i + 20 \in w <=> i \in imm
<1> DEFINE w == encode_s(op, rs1, rs2, imm, f3)
           Low(i) == i \in Slice(imm, 0, 4, 7)
           High(i) == i \in Slice(imm, 5, 11, 25)
<1>1. /\ Num(op) \in SUBSET (0..6) /\ Num(f3) \in SUBSET (0..2)
      /\ rs1 \in SUBSET (0..4) /\ rs2 \in SUBSET (0..4)
  BY Literals DEF Words, Bits
<1>2. /\ \A i \in 0..31 : Low(i) <=> i - 7 \in imm /\ i - 7 \in 0..4
      /\ \A i \in 0..31 : High(i) <=> i - 20 \in imm /\ i - 20 \in 5..11
  <2> SUFFICES ASSUME NEW i \in 0..31
               PROVE  /\ Low(i) <=> i - 7 \in imm /\ i - 7 \in 0..4
                      /\ High(i) <=> i - 20 \in imm /\ i - 20 \in 5..11
    OBVIOUS
  <2>1. i - 7 + 0 = i - 7 /\ i - 25 + 5 = i - 20
    OBVIOUS
  <2>2. Low(i) <=> (i - 7 + 0 \in imm /\ i - 7 + 0 \in 0..4)
    BY SliceBit
  <2>3. High(i) <=> (i - 25 + 5 \in imm /\ i - 25 + 5 \in 5..11)
    BY SliceBit
  <2> HIDE DEF Low, High
  <2> QED BY <2>1, <2>2, <2>3
<1>3. \A i \in 0..31 : i \in w <=> \/ High(i) \/ i - 20 \in rs2 \/ i - 15 \in rs1
                                   \/ Low(i) \/ i - 12 \in Num(f3) \/ i \in Num(op)
  BY AtBit DEF encode_s, Fixed
<1> HIDE DEF w, Low, High
<1>4. \A i \in 0..31 : i \in w <=> \/ (i - 20 \in imm /\ i - 20 \in 5..11) \/ i - 20 \in rs2 \/ i - 15 \in rs1
                                   \/ (i - 7 \in imm /\ i - 7 \in 0..4) \/ i - 12 \in Num(f3) \/ i \in Num(op)
  BY <1>2, <1>3
<1>5. Has(w, 0, 7, Num(op)) /\ Has(w, 12, 3, Num(f3))
  BY <1>1, <1>4 DEF Has, Bits
<1>6. Has(w, 15, 5, rs1) /\ Has(w, 20, 5, rs2)
  BY <1>1, <1>4 DEF Has, Bits
<1>7. \A i \in 0..4 : i + 7 \in w <=> i \in imm
  BY <1>1, <1>4
<1>8. \A i \in 5..11 : i + 20 \in w <=> i \in imm
  BY <1>1, <1>4
<1> QED BY <1>5, <1>6, <1>7, <1>8 DEF w

\* Branches have it in four.
LEMMA BFormat ==
  ASSUME NEW op \in 0..127, NEW f3 \in 0..7, NEW rs1 \in Words(5), NEW rs2 \in Words(5), NEW imm
  PROVE  LET w == encode_b(op, rs1, rs2, imm, f3)
         IN /\ Has(w, 0, 7, Num(op)) /\ Has(w, 12, 3, Num(f3))
            /\ Has(w, 15, 5, rs1) /\ Has(w, 20, 5, rs2)
            /\ \A i \in 1..4 : i + 7 \in w <=> i \in imm
            /\ \A i \in 5..10 : i + 20 \in w <=> i \in imm
            /\ 7 \in w <=> 11 \in imm
            /\ 31 \in w <=> 12 \in imm
<1> DEFINE w == encode_b(op, rs1, rs2, imm, f3)
           S1(i) == i \in Slice(imm, 12, 12, 31)
           S2(i) == i \in Slice(imm, 5, 10, 25)
           S3(i) == i \in Slice(imm, 1, 4, 8)
           S4(i) == i \in Slice(imm, 11, 11, 7)
<1>1. /\ Num(op) \in SUBSET (0..6) /\ Num(f3) \in SUBSET (0..2)
      /\ rs1 \in SUBSET (0..4) /\ rs2 \in SUBSET (0..4)
  BY Literals DEF Words, Bits
<1>2. \A i \in 0..31 : /\ S1(i) <=> i = 31 /\ 12 \in imm
                       /\ S2(i) <=> i - 20 \in imm /\ i - 20 \in 5..10
                       /\ S3(i) <=> i - 7 \in imm /\ i - 7 \in 1..4
                       /\ S4(i) <=> i = 7 /\ 11 \in imm
  <2> SUFFICES ASSUME NEW i \in 0..31
               PROVE  /\ S1(i) <=> i = 31 /\ 12 \in imm
                      /\ S2(i) <=> i - 20 \in imm /\ i - 20 \in 5..10
                      /\ S3(i) <=> i - 7 \in imm /\ i - 7 \in 1..4
                      /\ S4(i) <=> i = 7 /\ 11 \in imm
    OBVIOUS
  <2>1. /\ S1(i) <=> (i - 31 + 12 \in imm /\ i - 31 + 12 \in 12..12)
        /\ S2(i) <=> (i - 25 + 5 \in imm /\ i - 25 + 5 \in 5..10)
        /\ S3(i) <=> (i - 8 + 1 \in imm /\ i - 8 + 1 \in 1..4)
        /\ S4(i) <=> (i - 7 + 11 \in imm /\ i - 7 + 11 \in 11..11)
    BY SliceBit
  <2> HIDE DEF S1, S2, S3, S4
  <2>2. i - 25 + 5 = i - 20 /\ i - 8 + 1 = i - 7
    OBVIOUS
  <2>3. S1(i) <=> i = 31 /\ 12 \in imm
    BY <2>1
  <2>4. S4(i) <=> i = 7 /\ 11 \in imm
    BY <2>1
  <2> QED BY <2>1, <2>2, <2>3, <2>4
<1>3. \A i \in 0..31 : i \in w <=> \/ S1(i) \/ S2(i) \/ i - 20 \in rs2 \/ i - 15 \in rs1
                                   \/ S3(i) \/ S4(i) \/ i - 12 \in Num(f3) \/ i \in Num(op)
  BY AtBit DEF encode_b, Fixed
<1> HIDE DEF w, S1, S2, S3, S4
<1>4. Has(w, 0, 7, Num(op)) /\ Has(w, 12, 3, Num(f3))
  BY <1>1, <1>2, <1>3 DEF Has, Bits
<1>5. Has(w, 15, 5, rs1) /\ Has(w, 20, 5, rs2)
  BY <1>1, <1>2, <1>3 DEF Has, Bits
<1>6. \A i \in 1..4 : i + 7 \in w <=> i \in imm
  BY <1>1, <1>2, <1>3
<1>7. \A i \in 5..10 : i + 20 \in w <=> i \in imm
  BY <1>1, <1>2, <1>3
<1>8. /\ 7 \in w <=> 11 \in imm
      /\ 31 \in w <=> 12 \in imm
  BY <1>1, <1>2, <1>3
<1> QED BY <1>4, <1>5, <1>6, <1>7, <1>8 DEF w

\* The upper immediate is in place.
LEMMA UFormat ==
  ASSUME NEW op \in 0..127, NEW rd \in Words(5), NEW imm
  PROVE  LET w == encode_u(op, rd, imm)
         IN /\ Has(w, 0, 7, Num(op)) /\ Has(w, 7, 5, rd)
            /\ \A i \in 12..31 : i \in w <=> i \in imm
<1> DEFINE w == encode_u(op, rd, imm)
           S1(i) == i \in Slice(imm, 12, 31, 12)
<1>1. Num(op) \in SUBSET (0..6) /\ rd \in SUBSET (0..4)
  BY Literals DEF Words, Bits
<1>2. \A i \in 0..31 : S1(i) <=> i \in imm /\ i \in 12..31
  <2> SUFFICES ASSUME NEW i \in 0..31
               PROVE  S1(i) <=> i \in imm /\ i \in 12..31
    OBVIOUS
  <2>1. S1(i) <=> (i - 12 + 12 \in imm /\ i - 12 + 12 \in 12..31)
    BY SliceBit
  <2> HIDE DEF S1
  <2>2. i - 12 + 12 = i
    OBVIOUS
  <2> QED BY <2>1, <2>2
<1>3. \A i \in 0..31 : i \in w <=> S1(i) \/ i - 7 \in rd \/ i \in Num(op)
  BY AtBit DEF encode_u
<1> HIDE DEF w, S1
<1>4. Has(w, 0, 7, Num(op)) /\ Has(w, 7, 5, rd)
  BY <1>1, <1>2, <1>3 DEF Has, Bits
<1>5. \A i \in 12..31 : i \in w <=> i \in imm
  BY <1>1, <1>2, <1>3
<1> QED BY <1>4, <1>5 DEF w

\* A jump has its opcode and rd where they belong.
LEMMA JFormat ==
  ASSUME NEW op \in 0..127, NEW rd \in Words(5), NEW imm
  PROVE  LET w == encode_j(op, rd, imm)
         IN Has(w, 0, 7, Num(op)) /\ Has(w, 7, 5, rd)
<1> DEFINE w == encode_j(op, rd, imm)
           High(i) == \/ i \in Slice(imm, 20, 20, 31) \/ i \in Slice(imm, 1, 10, 21)
                      \/ i \in Slice(imm, 11, 11, 20) \/ i \in Slice(imm, 12, 19, 12)
<1>1. Num(op) \in SUBSET (0..6) /\ rd \in SUBSET (0..4)
  BY Literals DEF Words, Bits
<1>2. \A i \in 0..11 : ~High(i)
  BY SlicePlace
<1>3. \A i \in 0..31 : i \in w <=> High(i) \/ i - 7 \in rd \/ i \in Num(op)
  BY AtBit DEF encode_j
<1> HIDE DEF w, High
<1>4. Has(w, 0, 7, Num(op)) /\ Has(w, 7, 5, rd)
  BY <1>1, <1>2, <1>3 DEF Has, Bits
<1> QED BY <1>4 DEF w

-----------------------------------------------------------------------------
(* The decoder, at both widths *)

\* A field means the same in every instance.
LEMMA SameFields ==
  /\ \A w, lo, hi, at : /\ D32!Slice(w, lo, hi, at) = Slice(w, lo, hi, at)
                        /\ D64!Slice(w, lo, hi, at) = Slice(w, lo, hi, at)
                        /\ C32!Slice(w, lo, hi, at) = Slice(w, lo, hi, at)
                        /\ C64!Slice(w, lo, hi, at) = Slice(w, lo, hi, at)
  /\ \A w, lo, hi : /\ D32!Field(w, lo, hi) = Field(w, lo, hi)
                    /\ D64!Field(w, lo, hi) = Field(w, lo, hi)
                    /\ C32!Field(w, lo, hi) = Field(w, lo, hi)
                    /\ C64!Field(w, lo, hi) = Field(w, lo, hi)
<1>1. /\ \A w, lo, hi, at : /\ D32!Slice(w, lo, hi, at) = Slice(w, lo, hi, at)
                            /\ D64!Slice(w, lo, hi, at) = Slice(w, lo, hi, at)
                            /\ C32!Slice(w, lo, hi, at) = Slice(w, lo, hi, at)
                            /\ C64!Slice(w, lo, hi, at) = Slice(w, lo, hi, at)
  BY Zenon DEF D32!Slice, D64!Slice, C32!Slice, C64!Slice, Slice
<1>2. \A x : D32!Val(x) = Val(x) /\ D64!Val(x) = Val(x) /\ C32!Val(x) = Val(x) /\ C64!Val(x) = Val(x)
  BY Zenon DEF D32!Val, D64!Val, C32!Val, C64!Val, Val, D32!From, D64!From, C32!From, C64!From, From
<1> QED BY <1>1, <1>2, Zenon DEF D32!Field, D64!Field, C32!Field, C64!Field, Field

-----------------------------------------------------------------------------
(* Immediates *)

\* What the assembler makes of a number of m + 1 bits is its two's complement,
\* extended to 32 bits.
LEMMA ImmExtends ==
  ASSUME NEW m \in 0..31, NEW k \in Int, k >= -Val({m}), k < Val({m}), k < 2^31, -k < 2^31
  PROVE  /\ Imm(k) \in Words(32)
         /\ \E y \in Words(m + 1) : Signed(m + 1, y) = k /\ Imm(k) = SignExt(m + 1, 32, y)
<1> DEFINE n == m + 1
           x == Num(IF k >= 0 THEN k ELSE -k)
           y == IF k >= 0 THEN x ELSE Neg(n, x)
<1>1. n \in Nat \ {0} /\ n - 1 = m /\ n \in 1..32 /\ 32 \in Nat \ {0} /\ m \in Nat
  OBVIOUS
<1>2. /\ x \in Words(31) /\ Val(x) = IF k >= 0 THEN k ELSE -k
      /\ Val({m}) \in Nat \ {0} /\ Val({m + 1}) = 2 * Val({m})
  <2>1. (IF k >= 0 THEN k ELSE -k) \in Nat /\ (IF k >= 0 THEN k ELSE -k) < 2^31
    OBVIOUS
  <2>2. Val({m}) \in Nat \ {0} /\ Val({m + 1}) = 2 * Val({m})
    <3>1. m \in Nat /\ 0 \in 0..m
      OBVIOUS
    <3> QED BY <3>1, PowersMultiply
  <2> QED BY <2>1, <2>2, ValNum
<1>3. x \in Words(32) /\ x \in Words(n)
  <2>1. x \in Words(32) /\ {n} \in Words(33)  /\ x \in Words(33)
    BY <1>1, <1>2 DEF Words, Bits
  <2>2. Val(x) < Val({n})
    BY <1>2
  <2> HIDE DEF x
  <2>3. LtU(x, {n})
    BY <2>1, <2>2, ValOrder, 33 \in Nat
  <2>4. ASSUME NEW j \in x PROVE j \in 0..(n - 1)
    BY <1>1, <2>1, <2>3 DEF LtU, Words, Bits
  <2> QED BY <2>1, <2>4 DEF Words, Bits
<1>4. Imm(k) = IF k >= 0 THEN x ELSE Neg(32, x)
  BY DEF Imm
<1> HIDE DEF n, x
<1>5. CASE k >= 0
  <2>1. Imm(k) = x /\ y = x /\ Val(x) < Val({n - 1}) /\ n \in Nat /\ n \in 1..32
    BY <1>1, <1>2, <1>4, <1>5
  <2>2. Signed(n, x) = k
    BY <1>1, <1>2, <1>3, <1>5, <2>1, SmallIsUnsigned
  <2>3. n - 1 \notin x
    <3>1. Negative(n, x) <=> Signed(n, x) < 0
      BY <1>1, <1>3, SignedRange
    <3> QED BY <3>1, <2>2, <1>5 DEF Negative
  <2>4. SignExt(n, 32, x) = x
    BY <1>3, <2>1, <2>3 DEF SignExt, Trunc, Words
  <2> QED BY <1>3, <2>1, <2>2, <2>4 DEF n
<1>6. CASE k < 0
  <2>1. Imm(k) = Neg(32, x) /\ y = Neg(n, x) /\ Val(x) <= Val({n - 1}) /\ Val(x) = -k
    BY <1>1, <1>2, <1>4, <1>6
  <2>2. y \in Words(n) /\ Signed(n, y) = k
    <3>1. Neg(n, x) \in Words(n) /\ Signed(n, Neg(n, x)) = -Val(x)
      BY <1>1, <1>3, <2>1, SignedNeg
    <3> QED BY <2>1, <3>1
  <2>3. Neg(32, x) \in Words(32) /\ Signed(32, Neg(32, x)) = k
    <3>1. Val({31}) = 2^31
      BY ValPower
    <3>2. Val(x) <= Val({32 - 1})
      BY <2>1, <3>1
    <3> QED BY <1>1, <1>3, <2>1, <3>2, SignedNeg
  <2>4. SignExt(n, 32, y) \in Words(32) /\ Signed(32, SignExt(n, 32, y)) = k
    BY <1>1, <2>2, SignExtKeeps
  <2>5. SignExt(n, 32, y) = Neg(32, x)
    <3>1. \A z \in Words(32) : /\ Val(z) \in Nat /\ Val({32}) \in Nat
                               /\ Val(z) < Val({32})
                               /\ Signed(32, z) \in {Val(z), Val(z) - Val({32})}
      <4> TAKE z \in Words(32)
      <4>1. /\ Val({31}) \in Nat \ {0} /\ Val({32}) = 2 * Val({31})
            /\ Val(z) \in Nat /\ Val(z) < 2 * Val({31})
            /\ Signed(32, z) = Val(z) - IF Negative(32, z) THEN 2 * Val({31}) ELSE 0
        <5>1. 32 - 1 = 31
          OBVIOUS
        <5> QED BY <1>1, <5>1, SignedRange
      <4> QED BY <4>1
    <3>2. Val(SignExt(n, 32, y)) = Val(Neg(32, x))
      BY <2>3, <2>4, <3>1
    <3> QED BY <1>1, <2>3, <2>4, <3>2, ValInjective
  <2> QED BY <2>1, <2>2, <2>3, <2>5 DEF n
<1> QED BY <1>5, <1>6

\* So from bit m on they are the sign.
LEMMA ImmSign ==
  ASSUME NEW m \in 0..31, NEW k \in Int, k >= -Val({m}), k < Val({m}), k < 2^31, -k < 2^31
  PROVE  Imm(k) \in Words(32) /\ \A i \in m..31 : i \in Imm(k) <=> k < 0
<1>1. PICK y \in Words(m + 1) : Signed(m + 1, y) = k /\ Imm(k) = SignExt(m + 1, 32, y)
  BY ImmExtends
<1>2. m \in y <=> k < 0
  <2>1. m + 1 \in Nat \ {0} /\ m + 1 - 1 = m
    OBVIOUS
  <2>2. Negative(m + 1, y) <=> Signed(m + 1, y) < 0
    BY <2>1, SignedRange
  <2> QED BY <1>1, <2>1, <2>2 DEF Negative
<1>3. \A i \in m..31 : i \in SignExt(m + 1, 32, y) <=> m \in y
  BY <1>1 DEF SignExt, Trunc, Words, Bits
<1> QED BY <1>1, <1>2, <1>3, ImmExtends

\* A number has one remainder.
LEMMA OneRemainder ==
  \A p \in Nat \ {0} : \A t, r \in 0..(p - 1) : \A f, g \in Int :
    p * f + t = p * g + r => t = r
<1> SUFFICES ASSUME NEW p \in Nat \ {0}, NEW t \in 0..(p - 1), NEW r \in 0..(p - 1),
                    NEW f \in Int, NEW g \in Int, p * f + t = p * g + r
             PROVE  t = r
  OBVIOUS
<1> DEFINE k == p * f + t
<1>1. k \in Int /\ k = p * f + t /\ k = p * g + r
  OBVIOUS
<1> HIDE DEF k
<1>2. (k % p) = t
  BY <1>1, QuotientIs
<1>3. (k % p) = r
  BY <1>1, QuotientIs
<1> QED BY <1>2, <1>3

\* Their low bits are those of the number modulo 2^d.
LEMMA ImmLow ==
  ASSUME NEW d \in 0..31, NEW k \in Int, k >= -Val({31}), k < Val({31}), k < 2^31, -k < 2^31,
         NEW q \in Int, NEW r \in 0..(Val({d}) - 1), k = Val({d}) * q + r
  PROVE  Val(Trunc(d, Imm(k))) = r
<1> DEFINE X == Imm(k)
           p == Val({d})
           t == Val(Trunc(d, X))
<1>1. 32 \in Nat \ {0} /\ 32 - 1 = 31 /\ d \in 0..32 /\ 32 \in Nat /\ 31 \in 0..31 /\ d \in Nat
  OBVIOUS
<1>2. X \in Words(32) /\ \E Y \in Words(32) : Signed(32, Y) = k /\ X = SignExt(32, 32, Y)
  <2>1. /\ X \in Words(32)
        /\ \E Y \in Words(31 + 1) : Signed(31 + 1, Y) = k /\ X = SignExt(31 + 1, 32, Y)
    BY <1>1, ImmExtends, Zenon
  <2>2. 31 + 1 = 32
    OBVIOUS
  <2> QED BY <2>1, <2>2, Zenon
<1>3. Signed(32, X) = k
  <2>1. PICK Y \in Words(32) : Signed(32, Y) = k /\ X = SignExt(32, 32, Y)
    BY <1>2
  <2>2. 32 \in 1..32
    OBVIOUS
  <2> QED BY <1>1, <2>1, <2>2, SignExtKeeps
<1> HIDE DEF X
<1>4. p \in Nat \ {0} /\ t \in Nat /\ t < p
  <2>1. Trunc(d, X) \in Words(d)
    BY TruncIsWord
  <2> QED BY <1>1, <2>1, ValRange, PowerIsNat
<1>6. PICK F \in Nat : Val(X) = t + p * F
  <2>1. From(X)[d] \in Nat
    BY <1>1, <1>2, FromStep
  <2> QED BY <1>1, <1>2, <2>1, Splits
<1>7. Val({32}) = p * Val({32 - d}) /\ Val({32 - d}) \in Nat
  BY <1>1, PowerProduct, PowerIsNat
<1>8. k \in {Val(X), Val(X) - Val({32})} /\ Val(X) \in Nat
  <2>1. Val(X) \in Nat /\ Val({32}) \in Nat
    BY <1>1, <1>2, ValRange, PowerIsNat
  <2>2. k = Val(X) - IF 32 - 1 \in X THEN Val({32}) ELSE 0
    BY <1>3 DEF Signed
  <2> QED BY <2>1, <2>2
<1>9. PICK G \in Int : k = t + p * G
  <2>1. CASE k = Val(X)
    BY <1>6, <2>1
  <2>2. CASE k = Val(X) - Val({32})
    <3> DEFINE Q == Val({32 - d})
    <3>1. k = (t + p * F) - p * Q /\ Q \in Nat
      BY <1>6, <1>7, <2>2
    <3> HIDE DEF p, t, Q
    <3>2. F - Q \in Int /\ k = t + p * (F - Q)
      BY <1>4, <1>6, <3>1
    <3> QED BY <3>2
  <2> QED BY <1>8, <2>1, <2>2
<1> HIDE DEF p, t
<1>10. t \in 0..(p - 1) /\ k = p * G + t
  BY <1>4, <1>9
<1>11. r \in 0..(p - 1) /\ k = p * q + r
  BY DEF p
<1>12. t = r
  <2>1. p * G + t = p * q + r
    BY <1>10, <1>11, Zenon
  <2>2. G \in Int /\ q \in Int
    OBVIOUS
  <2> QED BY <1>4, <1>10, <1>11, <2>1, <2>2, OneRemainder, Zenon
<1> QED BY <1>12 DEF t, X

\* The powers of 2 in the ranges of the formats.
LEMMA Ranges ==
  Val({1}) = 2 /\ Val({11}) = 2048 /\ Val({12}) = 4096 /\ Val({31}) = 2^31
<1>1. 2^1 = 2 /\ 2^11 = 2048 /\ 2^12 = 4096
  OBVIOUS
<1>3. 1 \in 0..32 /\ 11 \in 0..32 /\ 12 \in 0..32 /\ 31 \in 0..32
  OBVIOUS
<1>4. Val({1}) = 2^1 /\ Val({11}) = 2^11 /\ Val({12}) = 2^12 /\ Val({31}) = 2^31
  BY <1>3, ValPower, Zenon
<1> QED BY <1>1, <1>4, SMT

\* The low 12 bits of a short immediate, as a number.
Low12(k) == IF k < 0 THEN k + 4096 ELSE k

\* The immediates of the source: of 12 bits, of 13 with bit 0 clear, of 32
\* with 12 bits clear, and shift amounts.
LEMMA SourceI ==
  ASSUME NEW k \in Short
  PROVE  /\ Imm(k) \in Words(32) /\ \A i \in 11..31 : i \in Imm(k) <=> k < 0
         /\ Trunc(12, Imm(k)) = Imm(Low12(k))
<1>1. Imm(k) \in Words(32) /\ \A i \in 11..31 : i \in Imm(k) <=> k < 0
  <2>1. k \in Int /\ k >= -Val({11}) /\ k < Val({11}) /\ k < 2^31 /\ -k < 2^31 /\ 11 \in 0..31
    BY Ranges DEF Short
  <2> QED BY <2>1, ImmSign
<1> DEFINE r == IF k < 0 THEN k + 4096 ELSE k
           q == IF k < 0 THEN -1 ELSE 0
<1>2. /\ r \in 0..(Val({12}) - 1) /\ q \in Int /\ k = Val({12}) * q + r
      /\ r \in Nat /\ r < Val({12}) /\ r < 2^31 /\ r >= 0
  BY Ranges DEF Short
<1>3. Imm(r) = Num(r)
  BY <1>2 DEF Imm
<1> HIDE DEF r, q
<1>4. Val(Trunc(12, Imm(k))) = r
  <2>1. k \in Int /\ k >= -Val({31}) /\ k < Val({31}) /\ k < 2^31 /\ -k < 2^31 /\ 12 \in 0..31
    BY Ranges DEF Short
  <2> QED BY <1>2, <2>1, ImmLow
<1>5. Num(r) \in Words(12) /\ Val(Num(r)) = r
  <2>1. 12 \in 0..31
    OBVIOUS
  <2> QED BY <1>2, <2>1, NumFits
<1>6. Trunc(12, Imm(k)) = Num(r)
  <2>1. Trunc(12, Imm(k)) \in Words(12) /\ 12 \in Nat
    BY TruncIsWord
  <2> QED BY <1>4, <1>5, <2>1, ValInjective
<1> QED BY <1>1, <1>3, <1>6 DEF r, Low12

\* A branch offset.
LEMMA SourceB ==
  ASSUME NEW k \in Offsets
  PROVE  Imm(k) \in Words(32) /\ 0 \notin Imm(k) /\ \A i \in 12..31 : i \in Imm(k) <=> k < 0
<1>1. Imm(k) \in Words(32) /\ \A i \in 12..31 : i \in Imm(k) <=> k < 0
  <2>1. k \in Int /\ k >= -Val({12}) /\ k < Val({12}) /\ k < 2^31 /\ -k < 2^31 /\ 12 \in 0..31
    BY Ranges DEF Offsets
  <2> QED BY <2>1, ImmSign
<1> DEFINE q == k \div 2
<1>2. q \in Int /\ k = 2 * q + 0
  BY DEF Offsets
<1> HIDE DEF q
<1>3. Val(Trunc(1, Imm(k))) = 0
  <2>1. /\ k \in Int /\ k >= -Val({31}) /\ k < Val({31}) /\ k < 2^31 /\ -k < 2^31 /\ 1 \in 0..31
        /\ 0 \in 0..(Val({1}) - 1) /\ k = Val({1}) * q + 0
    BY <1>2, Ranges DEF Offsets
  <2> QED BY <1>2, <2>1, ImmLow
<1>4. Trunc(1, Imm(k)) = {}
  <2>1. Trunc(1, Imm(k)) \in Words(1) /\ {} \in Words(1) /\ 1 \in Nat
    BY TruncIsWord, ZeroIsWord
  <2> QED BY <1>3, <2>1, ZeroIsZero, ValInjective
<1>5. 0 \notin Imm(k)
  BY <1>4 DEF Trunc, Bits
<1> QED BY <1>1, <1>5

\* A number of 32 bits.
LEMMA SourceU ==
  ASSUME NEW k \in Uppers
  PROVE  Imm(k) \in Words(32)
<1>1. k \in Int /\ k >= -Val({31}) /\ k < Val({31}) /\ k < 2^31 /\ -k < 2^31
  BY Ranges, SMT DEF Uppers
<1>2. 31 \in 0..31
  OBVIOUS
<1> QED BY <1>1, <1>2, ImmSign

\* A shift amount or a register.
LEMMA SourceR ==
  ASSUME NEW k \in 0..31
  PROVE  Imm(k) = Num(k) /\ R(k) = Num(k) /\ Num(k) \in Words(5) /\ Val(Num(k)) = k
BY Literals DEF Imm, R

-----------------------------------------------------------------------------
(* The decoder, at both widths *)

\* The record that is decoded, by fields.
LEMMA Decoded32 ==
  ASSUME NEW w
  PROVE  LET d == D32!decode_instruction(w)
             t == D32!TypeAndImm(w, Field(w, 0, 6), Field(w, 12, 14), Field(w, 25, 31))
         IN /\ d.inst_type = t[1] /\ d.imm = t[2]
            /\ d.rd = Field(w, 7, 11) /\ d.rs1 = Field(w, 15, 19) /\ d.rs2 = Field(w, 20, 24)
BY SameFields DEF D32!decode_instruction, D32!instruction_t, D32!Opcode
\* The same on RV64.
LEMMA Decoded64 ==
  ASSUME NEW w
  PROVE  LET d == D64!decode_instruction(w)
             t == D64!TypeAndImm(w, Field(w, 0, 6), Field(w, 12, 14), Field(w, 25, 31))
         IN /\ d.inst_type = t[1] /\ d.imm = t[2]
            /\ d.rd = Field(w, 7, 11) /\ d.rs1 = Field(w, 15, 19) /\ d.rs2 = Field(w, 20, 24)
BY SameFields DEF D64!decode_instruction, D64!instruction_t, D64!Opcode

\* The widths of the instances.
LEMMA InstanceWidths == ~D32!RV64 /\ D64!RV64 /\ ~C32!RV64 /\ C64!RV64
BY DEF D32!RV64, D64!RV64, C32!RV64, C64!RV64, D32!WORD, D64!WORD, C32!WORD, C64!WORD

\* The cases of the decoder that the assembler and the expansions reach, on RV32.
LEMMA Cases32 ==
  ASSUME NEW w, NEW f3, NEW f7
  PROVE  LET t(op) == D32!TypeAndImm(w, op, f3, f7)
             default == Slice(w, 20, 31, 0)
             shift == f3 \in {1, 5}
             entry == D32!op_imm_table(IF shift THEN f7 ELSE 0)[f3 + 1]
         IN /\ t(55) = <<"LUI", Slice(w, 12, 31, 12)>> /\ t(23) = <<"AUIPC", Slice(w, 12, 31, 12)>>
            /\ t(111)[1] = "JAL" /\ t(103) = <<"JALR", default>>
            /\ t(99) = <<D32!branch_table[f3 + 1], D32!BranchImm(w)>>
            /\ t(35) = <<D32!store_table[f3 + 1], D32!StoreImm(w)>>
            /\ t(3) = <<D32!load_table[f3 + 1], default>>
            /\ t(51) = <<D32!op_table(f7)[f3 + 1], default>>
            /\ t(115) = <<D32!SystemType(f3, Field(w, 20, 31)), default>>
            /\ t(7) = <<D32!FpLoad(f3), default>>
            /\ t(39) = <<IF f3 = 2 THEN "FSW" ELSE "UNKNOWN", default>>
            /\ t(19) = <<entry, IF shift /\ entry # "UNKNOWN" THEN Slice(w, 20, 24, 0) ELSE D32!OpImm(w)>>
<1>1. D32!DefaultImm(w) = Slice(w, 20, 31, 0) /\ D32!UpperImm(w) = Slice(w, 12, 31, 12)
      /\ D32!ShiftImm(w) = Slice(w, 20, 24, 0) /\ D32!Field(w, 20, 31) = Field(w, 20, 31)
  BY SameFields, InstanceWidths DEF D32!DefaultImm, D32!UpperImm, D32!ShiftImm
<1> DEFINE t(op) == D32!TypeAndImm(w, op, f3, f7)
<1>2. t(55) = <<"LUI", Slice(w, 12, 31, 12)>> /\ t(23) = <<"AUIPC", Slice(w, 12, 31, 12)>>
  BY <1>1 DEF D32!TypeAndImm, D32!FusedOpcodes
<1>3. t(111)[1] = "JAL" /\ t(103) = <<"JALR", Slice(w, 20, 31, 0)>>
  BY <1>1 DEF D32!TypeAndImm, D32!FusedOpcodes
<1>4. t(99) = <<D32!branch_table[f3 + 1], D32!BranchImm(w)>> /\ t(35) = <<D32!store_table[f3 + 1], D32!StoreImm(w)>>
  BY DEF D32!TypeAndImm, D32!FusedOpcodes
<1>5. /\ t(3) = <<D32!load_table[f3 + 1], Slice(w, 20, 31, 0)>>
      /\ t(51) = <<D32!op_table(f7)[f3 + 1], Slice(w, 20, 31, 0)>>
  BY <1>1 DEF D32!TypeAndImm, D32!FusedOpcodes
<1>6. /\ t(115) = <<D32!SystemType(f3, Field(w, 20, 31)), Slice(w, 20, 31, 0)>>
      /\ t(7) = <<D32!FpLoad(f3), Slice(w, 20, 31, 0)>>
  BY <1>1 DEF D32!TypeAndImm, D32!FusedOpcodes
<1>7. t(39) = <<IF f3 = 2 THEN "FSW" ELSE "UNKNOWN", Slice(w, 20, 31, 0)>>
  BY <1>1 DEF D32!TypeAndImm, D32!FusedOpcodes
<1> DEFINE shift == f3 \in {1, 5}
           entry == D32!op_imm_table(IF shift THEN f7 ELSE 0)[f3 + 1]
<1>8. t(19) = <<entry, IF shift /\ entry # "UNKNOWN" THEN Slice(w, 20, 24, 0) ELSE D32!OpImm(w)>>
  BY <1>1 DEF D32!TypeAndImm, D32!FusedOpcodes
<1> QED BY <1>2, <1>3, <1>4, <1>5, <1>6, <1>7, <1>8

\* The tables of assembler.py against those of decode_table.c, row by row.
LEMMA RRows ==
  ASSUME NEW m \in DOMAIN RTable
  PROVE  LET row == RTable[m]
         IN /\ row[1] \in {51, 59} /\ row[2] \in 0..7 /\ row[3] \in {0, 1, 32}
            /\ m \notin Rv64Only => row[1] = 51 /\ D32!op_table(row[3])[row[2] + 1] = m
            /\ m \in Rv64Only => row[1] = 59 /\ D64!Op32Type(row[3], row[2]) = m
<1>1. DOMAIN RTable = {"ADD", "SUB", "SLL", "SLT", "SLTU", "XOR", "SRL", "SRA", "OR", "AND", "MUL", "MULH",
                       "MULHSU", "MULHU", "DIV", "DIVU", "REM", "REMU", "ADDW", "SUBW", "SLLW", "SRLW", "SRAW"}
  BY DEF RTable
<1> QED BY <1>1, InstanceWidths DEF RTable, Rv64Only, D32!op_table, D32!Unknowns, D64!Op32Type
\* The immediate instructions.
LEMMA IRows ==
  ASSUME NEW m \in DOMAIN ITable
  PROVE  LET row == ITable[m]
         IN /\ row[1] \in {19, 103, 27} /\ row[2] \in 0..7 /\ row[3] \in {0, 32}
            /\ m \in Shifts <=> row[1] # 103 /\ row[2] \in {1, 5}
            /\ m \notin Shifts => row[3] = 0
            /\ m \notin Rv64Only => \/ row[1] = 103 /\ m = "JALR"
                                    \/ row[1] = 19 /\ m # "JALR" /\ D32!op_imm_table(row[3])[row[2] + 1] = m
            /\ m \in Rv64Only => /\ row[1] = 27 /\ D64!OpImm32Type(row[3], row[2]) = m
                                 /\ m \notin Shifts => m = "ADDIW" /\ row[2] = 0
<1>1. DOMAIN ITable = {"ADDI", "SLTI", "SLTIU", "XORI", "ORI", "ANDI", "SLLI", "SRLI", "SRAI", "JALR", "ADDIW",
                       "SLLIW", "SRLIW", "SRAIW"}
  BY DEF ITable
<1> QED BY <1>1, InstanceWidths DEF ITable, Shifts, Rv64Only, D32!op_imm_table, D32!Unknowns, D64!OpImm32Type

\* Branches and fixed words.
LEMMA BRows ==
  ASSUME NEW m \in DOMAIN BTable
  PROVE  BTable[m] \in 0..7 /\ D32!branch_table[BTable[m] + 1] = m
<1>1. DOMAIN BTable = {"BEQ", "BNE", "BLT", "BGE", "BLTU", "BGEU"}
  BY DEF BTable
<1> QED BY <1>1 DEF BTable, D32!branch_table

\* The cases of the decoder that only RV64 has.
LEMMA Cases64 ==
  ASSUME NEW w, NEW f3, NEW f7
  PROVE  LET t(op) == D64!TypeAndImm(w, op, f3, f7)
         IN /\ t(59) = <<D64!Op32Type(f7, f3), Slice(w, 20, 31, 0)>>
            /\ t(27) = <<D64!OpImm32Type(f7, f3), IF f3 \in {1, 5} THEN Slice(w, 20, 24, 0) ELSE Slice(w, 20, 31, 0)>>
<1>1. D64!DefaultImm(w) = Slice(w, 20, 31, 0) /\ D64!ShiftImm32(w) = Slice(w, 20, 24, 0)
  BY SameFields DEF D64!DefaultImm, D64!ShiftImm32
<1> QED BY <1>1, InstanceWidths DEF D64!TypeAndImm, D64!FusedOpcodes

-----------------------------------------------------------------------------
(* From assembler to decoder *)

\* The decoder of the build that knows m.
Decoder(m, w) == IF m \in Rv64Only THEN D64!decode_instruction(w) ELSE D32!decode_instruction(w)
\* What it makes of a line of each format.
BackR(w, m, rd, rs1, rs2) ==
  LET d == Decoder(m, w) IN d.inst_type = m /\ d.rd = rd /\ d.rs1 = rs1 /\ d.rs2 = rs2
BackI(w, m, rd, rs1, k) ==
  LET d == Decoder(m, w)
  IN /\ d.inst_type = m /\ d.rd = rd /\ d.rs1 = rs1
     /\ d.imm = Imm(IF m \in Unextended THEN Low12(k) ELSE k)
BackB(w, m, rs1, rs2, k) ==
  LET d == D32!decode_instruction(w)
  IN d.inst_type = m /\ d.rs1 = rs1 /\ d.rs2 = rs2 /\ d.imm = Imm(k)
BackU(w, m, rd, k) ==
  LET d == D32!decode_instruction(w) IN d.inst_type = m /\ d.rd = rd /\ d.imm = Imm(k) \ (0..11)

\* What fits 7 bits; the fields of a word of the register format, and of
\* the immediate format, where c is the immediate and e what i_type adds.
Codes == 0..127
ReadR(w, op, rd, f3, rs1, rs2, f7) ==
  /\ Field(w, 0, 6) = op /\ Field(w, 12, 14) = f3 /\ Field(w, 25, 31) = f7
  /\ Field(w, 7, 11) = rd /\ Field(w, 15, 19) = rs1 /\ Field(w, 20, 24) = rs2
ReadI(w, op, rd, f3, rs1, c, e) ==
  /\ Field(w, 0, 6) = op /\ Field(w, 12, 14) = f3
  /\ Field(w, 7, 11) = rd /\ Field(w, 15, 19) = rs1
  /\ \A i \in 0..11 : i + 20 \in w <=> i \in c \/ i - 5 \in e

\* The fields of the register and the immediate format, read back.
LEMMA RFields ==
  ASSUME NEW op \in Codes, NEW f3 \in 0..7, NEW f7 \in Codes,
         NEW rd \in 0..31, NEW rs1 \in 0..31, NEW rs2 \in 0..31,
         NEW w, w = encode_r(op, Num(rd), Num(rs1), Num(rs2), f3, f7)
  PROVE  ReadR(w, op, rd, f3, rs1, rs2, f7)
<1>1. /\ Num(op) \in Words(7) /\ Num(f7) \in Words(7) /\ Num(f3) \in Words(3)
      /\ Num(rd) \in Words(5) /\ Num(rs1) \in Words(5) /\ Num(rs2) \in Words(5)
      /\ Val(Num(op)) = op /\ Val(Num(f7)) = f7 /\ Val(Num(f3)) = f3
      /\ Val(Num(rd)) = rd /\ Val(Num(rs1)) = rs1 /\ Val(Num(rs2)) = rs2
  BY Literals DEF Codes
<1>2. /\ Has(w, 0, 7, Num(op)) /\ Has(w, 7, 5, Num(rd)) /\ Has(w, 12, 3, Num(f3))
      /\ Has(w, 15, 5, Num(rs1)) /\ Has(w, 20, 5, Num(rs2)) /\ Has(w, 25, 7, Num(f7))
  BY <1>1, RFormat DEF Codes
<1>3. Field(w, 0, 6) = op /\ Field(w, 12, 14) = f3 /\ Field(w, 25, 31) = f7
  BY <1>1, <1>2, FieldsAre
<1>4. Field(w, 7, 11) = rd /\ Field(w, 15, 19) = rs1 /\ Field(w, 20, 24) = rs2
  BY <1>1, <1>2, FieldsAre
<1> QED BY <1>3, <1>4 DEF ReadR

\* What r_type emits is decoded as it was written, on the build that knows it.
LEMMA RLine ==
  ASSUME NEW m \in DOMAIN RTable, NEW rd \in 0..31, NEW rs1 \in 0..31, NEW rs2 \in 0..31,
         NEW w, w = r_type(m, rd, rs1, rs2)
  PROVE  BackR(w, m, rd, rs1, rs2)
<1> DEFINE row == RTable[m]
<1>1. /\ row[1] \in {51, 59} /\ row[2] \in 0..7 /\ row[3] \in {0, 1, 32}
      /\ m \notin Rv64Only => row[1] = 51 /\ D32!op_table(row[3])[row[2] + 1] = m
      /\ m \in Rv64Only => row[1] = 59 /\ D64!Op32Type(row[3], row[2]) = m
  BY RRows
<1>2. w = encode_r(row[1], Num(rd), Num(rs1), Num(rs2), row[2], row[3])
  BY DEF r_type, R
<1> HIDE DEF row
<1>3. /\ Field(w, 0, 6) = row[1] /\ Field(w, 12, 14) = row[2] /\ Field(w, 25, 31) = row[3]
      /\ Field(w, 7, 11) = rd /\ Field(w, 15, 19) = rs1 /\ Field(w, 20, 24) = rs2
  <2>1. row[1] \in Codes /\ row[2] \in 0..7 /\ row[3] \in Codes
    BY <1>1 DEF Codes
  <2>2. ReadR(w, row[1], rd, row[2], rs1, rs2, row[3])
    BY <1>2, <2>1, RFields, Zenon
  <2> QED BY <2>2 DEF ReadR
<1>4. CASE m \notin Rv64Only
  <2> DEFINE d == D32!decode_instruction(w)
  <2>1. d.inst_type = D32!TypeAndImm(w, 51, row[2], row[3])[1] /\ d.rd = rd /\ d.rs1 = rs1 /\ d.rs2 = rs2
    BY <1>1, <1>3, <1>4, Decoded32
  <2>2. D32!TypeAndImm(w, 51, row[2], row[3]) = <<D32!op_table(row[3])[row[2] + 1], Slice(w, 20, 31, 0)>>
    BY Cases32
  <2> HIDE DEF d, Decoder, BackR
  <2> QED BY <1>1, <1>4, <2>1, <2>2 DEF d, Decoder, BackR
<1>5. CASE m \in Rv64Only
  <2> DEFINE d == D64!decode_instruction(w)
  <2>1. d.inst_type = D64!TypeAndImm(w, 59, row[2], row[3])[1] /\ d.rd = rd /\ d.rs1 = rs1 /\ d.rs2 = rs2
    BY <1>1, <1>3, <1>5, Decoded64
  <2>2. D64!TypeAndImm(w, 59, row[2], row[3]) = <<D64!Op32Type(row[3], row[2]), Slice(w, 20, 31, 0)>>
    BY Cases64
  <2> HIDE DEF d, Decoder, BackR
  <2> QED BY <1>1, <1>5, <2>1, <2>2 DEF d, Decoder, BackR
<1> QED BY <1>4, <1>5

\* The fields of what i_type emits.
LEMMA IFields ==
  ASSUME NEW m \in DOMAIN ITable, NEW rd \in 0..31, NEW rs1 \in 0..31, NEW k \in Int,
         Imm(k) \in SUBSET Nat, NEW w, w = i_type(m, rd, rs1, k)
  PROVE  ReadI(w, ITable[m][1], rd, ITable[m][2], rs1, Imm(k), Num(ITable[m][3]))
<1> DEFINE op == ITable[m][1]
           f3 == ITable[m][2]
           f7 == ITable[m][3]
           v == encode_i(op, Num(rd), Num(rs1), Imm(k), f3) \cup At(Num(f7), 25)
<1>1. w = v
  BY DEF i_type, R
<1>2. op \in 0..127 /\ f3 \in 0..7 /\ f7 \in 0..127
  <2>1. op \in {19, 103, 27} /\ f3 \in 0..7 /\ f7 \in {0, 32}
    BY IRows
  <2> HIDE DEF op, f3, f7
  <2> QED BY <2>1
<1> HIDE DEF op, f3, f7
<1>3. /\ Num(op) \in Words(7) /\ Num(f3) \in Words(3) /\ Num(rd) \in Words(5) /\ Num(rs1) \in Words(5)
      /\ Val(Num(op)) = op /\ Val(Num(f3)) = f3 /\ Val(Num(rd)) = rd /\ Val(Num(rs1)) = rs1
  BY <1>2, Literals
<1>4. /\ Has(v, 0, 7, Num(op)) /\ Has(v, 7, 5, Num(rd)) /\ Has(v, 12, 3, Num(f3))
      /\ Has(v, 15, 5, Num(rs1))
      /\ \A i \in 0..11 : i + 20 \in v <=> i \in Imm(k) \/ i - 5 \in Num(f7)
  BY <1>2, <1>3, IFormat
<1> HIDE DEF v
<1>5. Field(v, 0, 6) = op /\ Field(v, 12, 14) = f3 /\ Field(v, 7, 11) = rd /\ Field(v, 15, 19) = rs1
  BY <1>3, <1>4, FieldsAre
<1> QED BY <1>1, <1>4, <1>5 DEF op, f3, f7, ReadI

\* Its twelve highest bits, for a shift and for any other mnemonic.
HighI(w, m, k) ==
  /\ m \in Shifts /\ k \in 0..31 => Field(w, 25, 31) = ITable[m][3] /\ Slice(w, 20, 24, 0) = Imm(k)
  /\ m \notin Shifts /\ k \in Short => Slice(w, 20, 31, 0) = Imm(Low12(k)) /\ D32!OpImm(w) = Imm(k)
LEMMA IHigh ==
  ASSUME NEW m \in DOMAIN ITable, NEW rd \in 0..31, NEW rs1 \in 0..31, NEW k,
         NEW w, w = i_type(m, rd, rs1, k)
  PROVE  HighI(w, m, k)
<1> DEFINE f7 == ITable[m][3]
<1>1. f7 \in {0, 32} /\ (m \notin Shifts => f7 = 0)
  BY IRows
<1>2. Num(f7) \in Words(7) /\ Val(Num(f7)) = f7
  BY <1>1, Literals
<1>3. ASSUME Imm(k) \in SUBSET Nat, k \in Int
      PROVE  \A i \in 0..11 : i + 20 \in w <=> i \in Imm(k) \/ i - 5 \in Num(f7)
  <2>1. ReadI(w, ITable[m][1], rd, ITable[m][2], rs1, Imm(k), Num(ITable[m][3]))
    BY <1>3, IFields, Zenon
  <2> QED BY <2>1 DEF ReadI
<1> HIDE DEF f7
<1>4. ASSUME m \in Shifts, k \in 0..31
      PROVE  Field(w, 25, 31) = f7 /\ Slice(w, 20, 24, 0) = Imm(k)
  <2>1. Imm(k) \in Words(5)
    BY <1>4, SourceR
  <2>2. Imm(k) \in SUBSET (0..4) /\ Num(f7) \in SUBSET (0..6)
    BY <1>2, <2>1 DEF Words, Bits
  <2>3. \A i \in 0..11 : i + 20 \in w <=> i \in Imm(k) \/ i - 5 \in Num(f7)
    BY <1>3, <1>4, <2>2
  <2>4. Has(w, 20, 5, Imm(k)) /\ Has(w, 25, 7, Num(f7))
    <3>1. Has(w, 20, 5, Imm(k))
      BY <2>2, <2>3 DEF Has, Bits
    <3>2. ASSUME NEW i \in 0..6 PROVE i + 25 \in w <=> i \in Num(f7)
      <4>1. i + 5 \in 0..11 /\ (i + 5) + 20 = i + 25 /\ (i + 5) - 5 = i
        OBVIOUS
      <4>2. (i + 5) + 20 \in w <=> (i + 5) \in Imm(k) \/ (i + 5) - 5 \in Num(f7)
        BY <2>3, <4>1, Zenon
      <4>3. i + 5 \notin Imm(k)
        BY <2>2
      <4> QED BY <4>1, <4>2, <4>3
    <3> QED BY <3>1, <3>2 DEF Has, Bits
  <2> QED BY <1>2, <2>1, <2>4, FieldsAre
<1>5. ASSUME m \notin Shifts, k \in Short
      PROVE  Slice(w, 20, 31, 0) = Imm(Low12(k)) /\ D32!OpImm(w) = Imm(k)
  <2>1. /\ Imm(k) \in Words(32) /\ \A i \in 11..31 : i \in Imm(k) <=> k < 0
        /\ Trunc(12, Imm(k)) = Imm(Low12(k))
    BY <1>5, SourceI, Zenon
  <2>2. Imm(k) \in SUBSET (0..31) /\ k \in Int
    BY <1>5, <2>1 DEF Words, Bits, Short
  <2>3. \A i \in 0..11 : i + 20 \in w <=> i \in Imm(k)
    <3>1. Num(f7) = {}
      BY <1>1, <1>5, NumLiterals
    <3>2. Imm(k) \in SUBSET Nat
      BY <2>2
    <3>3. \A i \in 0..11 : i + 20 \in w <=> i \in Imm(k) \/ i - 5 \in Num(f7)
      BY <1>3, <2>2, <3>2
    <3> QED BY <3>1, <3>3
  <2>4. Slice(w, 20, 31, 0) = Trunc(12, Imm(k))
    <3>1. Trunc(12, Imm(k)) \in Words(12)
      BY TruncIsWord
    <3>2. \A i \in 0..11 : i \in Trunc(12, Imm(k)) <=> i \in Imm(k)
      BY DEF Trunc, Bits
    <3>3. Has(w, 20, 12, Trunc(12, Imm(k)))
      BY <2>3, <3>2 DEF Has, Bits
    <3> QED BY <3>1, <3>3, FieldsAre
  <2>5. 31 \in w <=> k < 0
    <3>1. 11 + 20 \in w <=> 11 \in Imm(k)
      BY <2>3
    <3> QED BY <2>1, <3>1
  <2>6. D32!OpImm(w) = Slice(w, 20, 31, 0) \cup IF 31 \in w THEN 12..31 ELSE {}
    BY SameFields DEF D32!OpImm, D32!DefaultImm, D32!SignFrom
  <2>7. D32!OpImm(w) = Imm(k)
    BY <2>1, <2>2, <2>4, <2>5, <2>6 DEF Trunc, Bits
  <2> QED BY <2>1, <2>4, <2>7
<1> QED BY <1>4, <1>5 DEF f7, HighI

\* What i_type emits is decoded as it was written.
LEMMA ILine ==
  ASSUME NEW m \in DOMAIN ITable, NEW rd \in 0..31, NEW rs1 \in 0..31,
         NEW k \in IF m \in Shifts THEN 0..31 ELSE Short, NEW w, w = i_type(m, rd, rs1, k)
  PROVE  BackI(w, m, rd, rs1, k)
<1> DEFINE op == ITable[m][1]
           f3 == ITable[m][2]
           f7 == ITable[m][3]
<1>1. /\ op \in {19, 103, 27} /\ f3 \in 0..7 /\ f7 \in {0, 32}
      /\ m \in Shifts <=> op # 103 /\ f3 \in {1, 5}
      /\ m \notin Shifts => f7 = 0
      /\ m \notin Rv64Only => \/ op = 103 /\ m = "JALR"
                              \/ op = 19 /\ m # "JALR" /\ D32!op_imm_table(f7)[f3 + 1] = m
      /\ m \in Rv64Only => /\ op = 27 /\ D64!OpImm32Type(f7, f3) = m
                           /\ m \notin Shifts => m = "ADDIW" /\ f3 = 0
  BY IRows
<1>2. Imm(k) \in SUBSET Nat /\ k \in Int
  <2>1. CASE m \in Shifts
    BY <2>1, SourceR DEF Words, Bits
  <2>2. CASE m \notin Shifts
    <3>1. k \in Short
      BY <2>2
    <3>2. Imm(k) \in Words(32)
      BY <3>1, SourceI, Zenon
    <3> QED BY <3>1, <3>2 DEF Words, Bits, Short
  <2> QED BY <2>1, <2>2
<1>3. Field(w, 0, 6) = op /\ Field(w, 12, 14) = f3 /\ Field(w, 7, 11) = rd /\ Field(w, 15, 19) = rs1
  <2>1. ReadI(w, ITable[m][1], rd, ITable[m][2], rs1, Imm(k), Num(ITable[m][3]))
    BY <1>2, IFields, Zenon
  <2> QED BY <2>1 DEF ReadI
<1>4. /\ m \in Shifts => Field(w, 25, 31) = f7 /\ Slice(w, 20, 24, 0) = Imm(k) /\ k >= 0
      /\ m \notin Shifts => Slice(w, 20, 31, 0) = Imm(Low12(k)) /\ D32!OpImm(w) = Imm(k)
  <2>1. HighI(w, m, k)
    BY IHigh, Zenon
  <2>2. CASE m \in Shifts
    <3>1. k \in 0..31
      BY <2>2
    <3> QED BY <2>1, <2>2, <3>1 DEF HighI
  <2>3. CASE m \notin Shifts
    <3>1. k \in Short
      BY <2>3
    <3> QED BY <2>1, <2>3, <3>1 DEF HighI
  <2> QED BY <2>2, <2>3
<1> HIDE DEF op, f3, f7
<1> DEFINE g7 == Field(w, 25, 31)
<1>5. CASE m \notin Rv64Only
  <2> DEFINE d == D32!decode_instruction(w)
             t == D32!TypeAndImm(w, op, f3, g7)
  <2>1. d.inst_type = t[1] /\ d.imm = t[2] /\ d.rd = rd /\ d.rs1 = rs1
    BY <1>3, Decoded32
  <2>2. CASE op = 103 /\ m = "JALR"
    <3>1. t = <<"JALR", Slice(w, 20, 31, 0)>> /\ m \notin Shifts /\ m \in Unextended
      BY <1>1, <2>2, Cases32 DEF Unextended
    <3> HIDE DEF d, t
    <3> QED BY <1>4, <1>5, <2>1, <2>2, <3>1 DEF d, Decoder, BackI
  <2>3. CASE op = 19 /\ m # "JALR" /\ D32!op_imm_table(f7)[f3 + 1] = m
    <3> DEFINE shift == f3 \in {1, 5}
               entry == D32!op_imm_table(IF shift THEN g7 ELSE 0)[f3 + 1]
    <3>1. t = <<entry, IF shift /\ entry # "UNKNOWN" THEN Slice(w, 20, 24, 0) ELSE D32!OpImm(w)>>
      BY <2>3, Cases32
    <3>2. shift <=> m \in Shifts
      BY <1>1, <2>3
    <3>3. entry = m /\ m # "UNKNOWN"
      <4>1. (IF shift THEN g7 ELSE 0) = f7
        BY <1>1, <1>4, <3>2
      <4>2. m # "UNKNOWN"
        BY DEF ITable
      <4> QED BY <2>3, <4>1, <4>2
    <3>4. m \notin Unextended
      BY <1>5, <2>3 DEF Unextended, Rv64Only
    <3> HIDE DEF d, t, entry, shift
    <3>5. t[1] = m /\ t[2] = Imm(k)
      BY <1>4, <3>1, <3>2, <3>3
    <3> QED BY <1>5, <2>1, <3>4, <3>5 DEF d, Decoder, BackI
  <2> QED BY <1>1, <1>5, <2>2, <2>3
<1>6. CASE m \in Rv64Only
  <2> DEFINE d == D64!decode_instruction(w)
             t == D64!TypeAndImm(w, 27, f3, g7)
  <2>1. d.inst_type = t[1] /\ d.imm = t[2] /\ d.rd = rd /\ d.rs1 = rs1
    BY <1>1, <1>3, <1>6, Decoded64
  <2>2. t = <<D64!OpImm32Type(g7, f3), IF f3 \in {1, 5} THEN Slice(w, 20, 24, 0) ELSE Slice(w, 20, 31, 0)>>
    BY Cases64
  <2>3. CASE m \in Shifts
    <3>1. t[1] = m /\ t[2] = Imm(k) /\ k >= 0
      BY <1>1, <1>4, <1>6, <2>2, <2>3
    <3> HIDE DEF d, t
    <3>2. (IF m \in Unextended THEN Low12(k) ELSE k) = k
      BY <1>2, <3>1 DEF Low12
    <3> QED BY <1>6, <2>1, <3>1, <3>2 DEF d, Decoder, BackI
  <2>4. CASE m \notin Shifts
    <3>1. m = "ADDIW" /\ f3 = 0 /\ m \in Unextended
      BY <1>1, <1>6, <2>4 DEF Unextended
    <3>2. t[1] = m /\ t[2] = Imm(Low12(k))
      <4>1. D64!OpImm32Type(g7, 0) = "ADDIW"
        BY DEF D64!OpImm32Type
      <4> QED BY <1>4, <2>2, <2>4, <3>1, <4>1
    <3> HIDE DEF d, t
    <3> QED BY <1>6, <2>1, <3>1, <3>2 DEF d, Decoder, BackI
  <2> QED BY <2>3, <2>4
<1> QED BY <1>5, <1>6

\* A branch is decoded with the immediate it was encoded from.
LEMMA BranchRead ==
  ASSUME NEW w, NEW c \in Words(32), 0 \notin c, \A i \in 12..31 : i \in c <=> 12 \in c,
         \A i \in 1..4 : i + 7 \in w <=> i \in c,
         \A i \in 5..10 : i + 20 \in w <=> i \in c,
         7 \in w <=> 11 \in c, 31 \in w <=> 12 \in c
  PROVE  D32!BranchImm(w) = c
<1> DEFINE S1(i) == i \in Slice(w, 25, 30, 5)
           S2(i) == i \in Slice(w, 8, 11, 1)
           S3(i) == i \in Slice(w, 7, 7, 11)
           S4(i) == i \in IF 31 \in w THEN 12..31 ELSE {}
<1>1. \A i : i \in D32!BranchImm(w) <=> S1(i) \/ S2(i) \/ S3(i) \/ S4(i)
  BY SameFields DEF D32!BranchImm, D32!SignFrom
<1>2. ASSUME NEW i \in Int
      PROVE  /\ S1(i) <=> i + 20 \in w /\ i \in 5..10
             /\ S2(i) <=> i + 7 \in w /\ i \in 1..4
             /\ S3(i) <=> i = 11 /\ 7 \in w
             /\ S4(i) <=> 31 \in w /\ i \in 12..31
  <2>1. /\ S1(i) <=> (i - 5 + 25 \in w /\ i - 5 + 25 \in 25..30)
        /\ S2(i) <=> (i - 1 + 8 \in w /\ i - 1 + 8 \in 8..11)
        /\ S3(i) <=> (i - 11 + 7 \in w /\ i - 11 + 7 \in 7..7)
    BY SliceBit
  <2>2. S4(i) <=> 31 \in w /\ i \in 12..31
    OBVIOUS
  <2> HIDE DEF S1, S2, S3, S4
  <2>3. i - 5 + 25 = i + 20 /\ i - 1 + 8 = i + 7
    OBVIOUS
  <2>4. S3(i) <=> i = 11 /\ 7 \in w
    BY <2>1
  <2> QED BY <2>1, <2>2, <2>3, <2>4
<1>3. \A i : S1(i) \/ S2(i) \/ S3(i) \/ S4(i) => i \in Int
  BY SlicePlace
<1> HIDE DEF S1, S2, S3, S4
<1>4. ASSUME NEW i \in D32!BranchImm(w) PROVE i \in c
  <2>1. i \in Int /\ (S1(i) \/ S2(i) \/ S3(i) \/ S4(i))
    BY <1>1, <1>3
  <2> QED BY <1>2, <2>1
<1>5. ASSUME NEW i \in c PROVE i \in D32!BranchImm(w)
  <2>1. i \in 1..31
    BY DEF Words, Bits
  <2>2. CASE i \in 1..4
    BY <1>1, <1>2, <2>2
  <2>3. CASE i \in 5..10
    BY <1>1, <1>2, <2>3
  <2>4. CASE i = 11
    BY <1>1, <1>2, <2>4
  <2>5. CASE i \in 12..31
    BY <1>1, <1>2, <2>5
  <2> QED BY <2>1, <2>2, <2>3, <2>4, <2>5
<1> QED BY <1>4, <1>5

\* What b_type emits is decoded as it was written.
LEMMA BLine ==
  ASSUME NEW m \in DOMAIN BTable, NEW rs1 \in 0..31, NEW rs2 \in 0..31,
         NEW k \in Offsets, NEW w, w = b_type(m, rs1, rs2, k)
  PROVE  BackB(w, m, rs1, rs2, k)
<1> DEFINE op == 99
           f3 == BTable[m]
           c == Imm(k)
           v == encode_b(op, Num(rs1), Num(rs2), c, f3)
<1>1. f3 \in 0..7 /\ D32!branch_table[f3 + 1] = m
  BY BRows
<1>2. c \in Words(32) /\ 0 \notin c /\ \A i \in 12..31 : i \in c <=> 12 \in c
  <2>1. c \in Words(32) /\ 0 \notin c /\ \A i \in 12..31 : i \in c <=> k < 0
    BY SourceB, Zenon
  <2> HIDE DEF c
  <2>2. 12 \in 12..31
    OBVIOUS
  <2>3. 12 \in c <=> k < 0
    BY <2>1, <2>2, Zenon
  <2> QED BY <2>1, <2>3, Zenon
<1>3. w = v
  BY DEF b_type, R
<1> HIDE DEF f3, c, op
<1>4. /\ op \in 0..127
      /\ Num(op) \in Words(7) /\ Num(f3) \in Words(3) /\ Num(rs1) \in Words(5) /\ Num(rs2) \in Words(5)
      /\ Val(Num(op)) = op /\ Val(Num(f3)) = f3 /\ Val(Num(rs1)) = rs1 /\ Val(Num(rs2)) = rs2
  BY <1>1, Literals DEF op
<1>5. /\ Has(v, 0, 7, Num(op)) /\ Has(v, 12, 3, Num(f3))
      /\ Has(v, 15, 5, Num(rs1)) /\ Has(v, 20, 5, Num(rs2))
      /\ \A i \in 1..4 : i + 7 \in v <=> i \in c
      /\ \A i \in 5..10 : i + 20 \in v <=> i \in c
      /\ 7 \in v <=> 11 \in c
      /\ 31 \in v <=> 12 \in c
  BY <1>1, <1>4, BFormat
<1> HIDE DEF v
<1>6. Field(v, 0, 6) = op /\ Field(v, 12, 14) = f3 /\ Field(v, 15, 19) = rs1 /\ Field(v, 20, 24) = rs2
  BY <1>4, <1>5, FieldsAre
<1>7. D32!BranchImm(v) = c
  BY <1>2, <1>5, BranchRead
<1> DEFINE d == D32!decode_instruction(v)
           g7 == Field(v, 25, 31)
<1>8. /\ d.inst_type = D32!TypeAndImm(v, op, f3, g7)[1] /\ d.imm = D32!TypeAndImm(v, op, f3, g7)[2]
      /\ d.rs1 = rs1 /\ d.rs2 = rs2
  BY <1>6, Decoded32
<1>9. D32!TypeAndImm(v, op, f3, g7) = <<D32!branch_table[f3 + 1], D32!BranchImm(v)>>
  BY Cases32 DEF op
<1> HIDE DEF d, g7
<1> QED BY <1>1, <1>3, <1>7, <1>8, <1>9 DEF d, c, BackB

\* What u_type emits is decoded as it was written.
LEMMA ULine ==
  ASSUME NEW m \in DOMAIN UTable, NEW rd \in 0..31,
         NEW k \in Uppers, NEW w, w = u_type(m, rd, k)
  PROVE  BackU(w, m, rd, k)
<1> DEFINE op == UTable[m]
           c == Imm(k)
           v == encode_u(op, Num(rd), c)
<1>1. \/ m = "LUI" /\ op = 55
      \/ m = "AUIPC" /\ op = 23
  BY DEF UTable
<1>2. c \in Words(32)
  BY SourceU
<1>3. w = v
  BY DEF u_type, R
<1> HIDE DEF op, c
<1>4. /\ op \in 0..127
      /\ Num(op) \in Words(7) /\ Num(rd) \in Words(5) /\ Val(Num(op)) = op /\ Val(Num(rd)) = rd
  BY <1>1, Literals
<1>5. /\ Has(v, 0, 7, Num(op)) /\ Has(v, 7, 5, Num(rd))
      /\ \A i \in 12..31 : i \in v <=> i \in c
  BY <1>4, UFormat
<1> HIDE DEF v
<1>6. Field(v, 0, 6) = op /\ Field(v, 7, 11) = rd
  BY <1>4, <1>5, FieldsAre
<1>7. Slice(v, 12, 31, 12) = c \ (0..11)
  <2>1. Slice(v, 12, 31, 12) \subseteq Nat
    BY SlicePlace
  <2>2. ASSUME NEW i \in Int PROVE i \in Slice(v, 12, 31, 12) <=> i \in v /\ i \in 12..31
    <3>1. i \in Slice(v, 12, 31, 12) <=> (i - 12 + 12 \in v /\ i - 12 + 12 \in 12..31)
      BY SliceBit
    <3>2. i - 12 + 12 = i
      OBVIOUS
    <3> QED BY <3>1, <3>2
  <2>3. c \subseteq 0..31
    BY <1>2 DEF Words, Bits
  <2>4. \A i \in Slice(v, 12, 31, 12) : i \in c \ (0..11)
    BY <1>5, <2>1, <2>2
  <2>5. \A i \in c \ (0..11) : i \in Slice(v, 12, 31, 12)
    BY <1>5, <2>2, <2>3
  <2> QED BY <2>4, <2>5
<1> DEFINE d == D32!decode_instruction(v)
           t == D32!TypeAndImm(v, op, Field(v, 12, 14), Field(v, 25, 31))
<1>8. d.inst_type = t[1] /\ d.imm = t[2] /\ d.rd = rd
  BY <1>6, Decoded32
<1>9. t = <<m, Slice(v, 12, 31, 12)>>
  BY <1>1, Cases32
<1> HIDE DEF d, t
<1> QED BY <1>3, <1>7, <1>8, <1>9 DEF d, c, BackU

\* The words of FixedWords and of C.EBREAK, and the numbers of their fields.
LEMMA FixedBits ==
  /\ Num(115) = {0, 1, 4, 5, 6} /\ Num(1048691) = {0, 1, 4, 5, 6, 20}
  /\ Num(807403635) = {0, 1, 4, 5, 6, 21, 28, 29} /\ Num(270532723) = {0, 1, 4, 5, 6, 21, 28}
  /\ Num(273678451) = {0, 1, 4, 5, 6, 20, 22, 28} /\ Num(19) = {0, 1, 4}
  /\ Num(1) = {0} /\ Num(770) = {1, 8, 9} /\ Num(258) = {1, 8} /\ Num(261) = {0, 2, 8}
<1> DEFINE P(i) == /\ (115 \div 2^i) % 2 = 1 <=> i \in {0, 1, 4, 5, 6}
                   /\ (1048691 \div 2^i) % 2 = 1 <=> i \in {0, 1, 4, 5, 6, 20}
                   /\ (807403635 \div 2^i) % 2 = 1 <=> i \in {0, 1, 4, 5, 6, 21, 28, 29}
                   /\ (270532723 \div 2^i) % 2 = 1 <=> i \in {0, 1, 4, 5, 6, 21, 28}
                   /\ (273678451 \div 2^i) % 2 = 1 <=> i \in {0, 1, 4, 5, 6, 20, 22, 28}
                   /\ (19 \div 2^i) % 2 = 1 <=> i \in {0, 1, 4}
                   /\ (1 \div 2^i) % 2 = 1 <=> i \in {0}
                   /\ (770 \div 2^i) % 2 = 1 <=> i \in {1, 8, 9}
                   /\ (258 \div 2^i) % 2 = 1 <=> i \in {1, 8}
                   /\ (261 \div 2^i) % 2 = 1 <=> i \in {0, 2, 8}
<1>1. /\ P(0) /\ P(1) /\ P(2) /\ P(3) /\ P(4) /\ P(5) /\ P(6) /\ P(7) /\ P(8) /\ P(9) /\ P(10)
      /\ P(11) /\ P(12) /\ P(13) /\ P(14) /\ P(15) /\ P(16) /\ P(17) /\ P(18) /\ P(19) /\ P(20)
      /\ P(21) /\ P(22) /\ P(23) /\ P(24) /\ P(25) /\ P(26) /\ P(27) /\ P(28) /\ P(29) /\ P(30)
  BY SMT
<1> HIDE DEF P
<1>2. \A i \in 0..30 : P(i)
  <2> SUFFICES ASSUME NEW i \in 0..30
               PROVE  P(i)
    OBVIOUS
  <2>1. \/ i \in {0, 1, 2, 3, 4, 5, 6, 7, 8, 9, 10} \/ i \in {11, 12, 13, 14, 15, 16, 17, 18, 19, 20}
        \/ i \in {21, 22, 23, 24, 25, 26, 27, 28, 29, 30}
    OBVIOUS
  <2> QED BY <1>1, <2>1
<1> DEFINE IsBits(k, x) == \A i \in 0..30 : (k \div 2^i) % 2 = 1 <=> i \in x
<1>3. ASSUME NEW k, NEW x \in SUBSET (0..30), IsBits(k, x)
      PROVE  Num(k) = x
  <2>1. Num(k) \subseteq 0..30
    BY DEF Num
  <2>2. \A i \in 0..30 : i \in Num(k) <=> i \in x
    BY <1>3, Zenon DEF Num
  <2> QED BY <2>1, <2>2
<1>4. IsBits(115, {0, 1, 4, 5, 6}) /\ IsBits(1048691, {0, 1, 4, 5, 6, 20})
  BY <1>2, SMT DEF P
<1>5. IsBits(807403635, {0, 1, 4, 5, 6, 21, 28, 29}) /\ IsBits(270532723, {0, 1, 4, 5, 6, 21, 28})
  BY <1>2, SMT DEF P
<1>6. IsBits(273678451, {0, 1, 4, 5, 6, 20, 22, 28}) /\ IsBits(19, {0, 1, 4})
  BY <1>2, SMT DEF P
<1>7. IsBits(1, {0}) /\ IsBits(770, {1, 8, 9}) /\ IsBits(258, {1, 8}) /\ IsBits(261, {0, 2, 8})
  BY <1>2, SMT DEF P
<1> HIDE DEF IsBits
<1>8. Num(115) = {0, 1, 4, 5, 6} /\ Num(1048691) = {0, 1, 4, 5, 6, 20}
  BY <1>3, <1>4, SMT
<1>9. Num(807403635) = {0, 1, 4, 5, 6, 21, 28, 29} /\ Num(270532723) = {0, 1, 4, 5, 6, 21, 28}
  BY <1>3, <1>5, SMT
<1>10. Num(273678451) = {0, 1, 4, 5, 6, 20, 22, 28} /\ Num(19) = {0, 1, 4}
  BY <1>3, <1>6, SMT
<1>11. Num(1) = {0} /\ Num(770) = {1, 8, 9} /\ Num(258) = {1, 8} /\ Num(261) = {0, 2, 8}
  BY <1>3, <1>7, SMT
<1> QED BY <1>8, <1>9, <1>10, <1>11, SMT

\* The numbers of the three words that MRET, SRET and WFI have at bit 20.
LEMMA Functs12 ==
  /\ Val(Num(770)) = 770 /\ Val(Num(258)) = 258 /\ Val(Num(261)) = 261 /\ Val(Num(1)) = 1 /\ Val({}) = 0
<1>1. \A k \in {770, 258, 261, 1} : k \in Nat /\ k < Val({12}) /\ k < 2^31
  BY Ranges, SMT
<1>2. \A k \in {770, 258, 261, 1} : Val(Num(k)) = k
  <2> SUFFICES ASSUME NEW k \in {770, 258, 261, 1}
               PROVE  Val(Num(k)) = k
    OBVIOUS
  <2>1. k \in Nat /\ k < Val({12}) /\ k < 2^31 /\ 12 \in 0..31
    BY <1>1, SMT
  <2> HIDE DEF Val
  <2> QED BY <2>1, NumFits, SMT
<1> QED BY <1>2, ZeroIsZero, SMT

\* A system instruction by the 12 bits from bit 20.
LEMMA SystemWord ==
  ASSUME NEW w, NEW x \in Words(12), Has(w, 0, 7, Num(115)), Has(w, 12, 3, {}), Has(w, 20, 12, x)
  PROVE  D32!decode_instruction(w).inst_type = D32!SystemType(0, Val(x))
<1>1. Num(115) \in Words(7) /\ {} \in Words(3) /\ Val(Num(115)) = 115 /\ Val({}) = 0
  BY Literals, ZeroIsWord, ZeroIsZero
<1>2. Field(w, 0, 6) = 115 /\ Field(w, 12, 14) = 0 /\ Field(w, 20, 31) = Val(x)
  BY <1>1, FieldsAre
<1> DEFINE t == D32!TypeAndImm(w, 115, 0, Field(w, 25, 31))
<1>3. D32!decode_instruction(w).inst_type = t[1]
  BY <1>2, Decoded32
<1>4. t = <<D32!SystemType(0, Val(x)), Slice(w, 20, 31, 0)>>
  BY <1>2, Cases32
<1> QED BY <1>3, <1>4

\* The fixed words are decoded as the instruction they are named for.
LEMMA FLine ==
  ASSUME NEW m \in DOMAIN FixedWords
  PROVE  D32!decode_instruction(fixed(m)).inst_type = IF m = "NOP" THEN "ADDI" ELSE m
<1> DEFINE w == fixed(m)
<1>1. DOMAIN FixedWords = {"ECALL", "EBREAK", "MRET", "SRET", "WFI", "NOP"}
  BY DEF FixedWords
<1>2. CASE m = "NOP"
  <2>1. w = {0, 1, 4} /\ Num(19) = {0, 1, 4}
    BY <1>2, FixedBits, SMT DEF fixed, FixedWords
  <2>2. Has(w, 0, 7, Num(19)) /\ Has(w, 12, 3, {})
    BY <2>1 DEF Has, Bits
  <2> HIDE DEF w
  <2>3. Num(19) \in Words(7) /\ {} \in Words(3) /\ Val(Num(19)) = 19 /\ Val({}) = 0
    BY Literals, ZeroIsWord, ZeroIsZero
  <2>4. Field(w, 0, 6) = 19 /\ Field(w, 12, 14) = 0
    BY <2>2, <2>3, FieldsAre
  <2> DEFINE t == D32!TypeAndImm(w, 19, 0, Field(w, 25, 31))
  <2>5. D32!decode_instruction(w).inst_type = t[1]
    BY <2>4, Decoded32
  <2>6. t[1] = D32!op_imm_table(0)[1]
    BY Cases32
  <2>7. D32!op_imm_table(0)[1] = "ADDI"
    BY DEF D32!op_imm_table
  <2> QED BY <1>2, <2>5, <2>6, <2>7 DEF w
<1> DEFINE system(x) == /\ x \in Words(12)
                        /\ Has(w, 0, 7, Num(115)) /\ Has(w, 12, 3, {}) /\ Has(w, 20, 12, x)
<1>3. Num(115) = {0, 1, 4, 5, 6} /\ Num(1) = {0} /\ Num(770) = {1, 8, 9} /\ Num(258) = {1, 8} /\ Num(261) = {0, 2, 8}
  BY FixedBits, SMT
<1>4. ASSUME NEW x, system(x) PROVE D32!decode_instruction(w).inst_type = D32!SystemType(0, Val(x))
  BY <1>4, SystemWord
<1>5. /\ D32!SystemType(0, 0) = "ECALL" /\ D32!SystemType(0, 1) = "EBREAK" /\ D32!SystemType(0, 770) = "MRET"
      /\ D32!SystemType(0, 258) = "SRET" /\ D32!SystemType(0, 261) = "WFI"
  BY SMT DEF D32!SystemType
<1>6. CASE m = "ECALL"
  <2>1. w = {0, 1, 4, 5, 6}
    BY <1>6, FixedBits, SMT DEF fixed, FixedWords
  <2>2. system({})
    BY <1>3, <2>1 DEF Has, Bits, Words
  <2> HIDE DEF w, system
  <2> QED BY <1>4, <1>5, <1>6, <2>2, Functs12, SMT DEF w
<1>7. CASE m = "EBREAK"
  <2>1. w = {0, 1, 4, 5, 6, 20}
    BY <1>7, FixedBits, SMT DEF fixed, FixedWords
  <2>2. system(Num(1))
    BY <1>3, <2>1 DEF Has, Bits, Words
  <2> HIDE DEF w, system
  <2> QED BY <1>4, <1>5, <1>7, <2>2, Functs12, SMT DEF w
<1>8. CASE m = "MRET"
  <2>1. w = {0, 1, 4, 5, 6, 21, 28, 29}
    BY <1>8, FixedBits, SMT DEF fixed, FixedWords
  <2>2. system(Num(770))
    BY <1>3, <2>1 DEF Has, Bits, Words
  <2> HIDE DEF w, system
  <2> QED BY <1>4, <1>5, <1>8, <2>2, Functs12, SMT DEF w
<1>9. CASE m = "SRET"
  <2>1. w = {0, 1, 4, 5, 6, 21, 28}
    BY <1>9, FixedBits, SMT DEF fixed, FixedWords
  <2>2. system(Num(258))
    BY <1>3, <2>1 DEF Has, Bits, Words
  <2> HIDE DEF w, system
  <2> QED BY <1>4, <1>5, <1>9, <2>2, Functs12, SMT DEF w
<1>10. CASE m = "WFI"
  <2>1. w = {0, 1, 4, 5, 6, 20, 22, 28}
    BY <1>10, FixedBits, SMT DEF fixed, FixedWords
  <2>2. system(Num(261))
    BY <1>3, <2>1 DEF Has, Bits, Words
  <2> HIDE DEF w, system
  <2> QED BY <1>4, <1>5, <1>10, <2>2, Functs12, SMT DEF w
<1> QED BY <1>1, <1>2, <1>6, <1>7, <1>8, <1>9, <1>10, SMT

-----------------------------------------------------------------------------
(* The instructions of the assembler *)

\* What was emitted belongs to the source it was emitted for.
Emitted ==
  /\ source \in Lines \cup Halfwords
  /\ emitted =>
       /\ source.fmt = "R" => word = r_type(source.m, source.rd, source.rs1, source.rs2)
       /\ source.fmt = "I" => word = i_type(source.m, source.rd, source.rs1, source.imm)
       /\ source.fmt = "B" => word = b_type(source.m, source.rs1, source.rs2, source.imm)
       /\ source.fmt = "U" => word = u_type(source.m, source.rd, source.imm)
       /\ source.fmt = "F" => word = fixed(source.m)
       /\ source.fmt = "C" => word = C32!expand_compressed(source.c)

\* It does from the first step on.
LEMMA AlwaysEmitted == DSpec => []Emitted
<1>1. DInit => Emitted
  BY DEF DInit, Emitted
<1>2. ASSUME Emitted, Assemble PROVE Emitted'
  <2>1. source \in Lines \cup Halfwords /\ source' = source /\ source.fmt # "C"
    BY <1>2 DEF Emitted, Assemble
  <2>2. /\ source.fmt = "R" => word' = r_type(source.m, source.rd, source.rs1, source.rs2)
        /\ source.fmt = "I" => word' = i_type(source.m, source.rd, source.rs1, source.imm)
        /\ source.fmt = "B" => word' = b_type(source.m, source.rs1, source.rs2, source.imm)
        /\ source.fmt = "U" => word' = u_type(source.m, source.rd, source.imm)
        /\ source.fmt = "F" => word' = fixed(source.m)
    BY <1>2 DEF Assemble
  <2> QED BY <2>1, <2>2 DEF Emitted, Lines, Halfwords, LineOf
<1>3. ASSUME Emitted, Expand PROVE Emitted'
  BY <1>3 DEF Emitted, Expand, Lines, Halfwords, LineOf
<1>4. ASSUME Emitted, UNCHANGED dvars PROVE Emitted'
  BY <1>4 DEF Emitted, dvars, Lines, Halfwords, LineOf
<1> QED BY <1>1, <1>2, <1>3, <1>4, PTL DEF DSpec

\* The lines of each format.
LEMMA LinesOf ==
  ASSUME NEW l \in Lines \cup Halfwords
  PROVE  /\ l.fmt = "R" => /\ l.m \in DOMAIN RTable
                           /\ l.rd \in 0..31 /\ l.rs1 \in 0..31 /\ l.rs2 \in 0..31
         /\ l.fmt = "I" => /\ l.m \in DOMAIN ITable /\ l.rd \in 0..31 /\ l.rs1 \in 0..31
                           /\ l.imm \in IF l.m \in Shifts THEN 0..31 ELSE Short
         /\ l.fmt = "B" => /\ l.m \in DOMAIN BTable /\ l.rs1 \in 0..31 /\ l.rs2 \in 0..31
                           /\ l.imm \in Offsets
         /\ l.fmt = "U" => l.m \in DOMAIN UTable /\ l.rd \in 0..31 /\ l.imm \in Uppers
         /\ l.fmt = "F" => l.m \in DOMAIN FixedWords
         /\ l.fmt = "C" => l.c \in Words(16) /\ ~({0, 1} \subseteq l.c)
<1>1. /\ l.fmt = "R" => l.m \in DOMAIN RTable /\ l.rd \in Regs /\ l.rs1 \in Regs /\ l.rs2 \in Regs
      /\ l.fmt = "I" => /\ (l.m \in DOMAIN ITable /\ l.m \notin Shifts) \/ l.m \in Shifts
                        /\ l.rd \in Regs /\ l.rs1 \in Regs
                        /\ l.imm \in IF l.m \in Shifts THEN Amounts ELSE ImmI
      /\ l.fmt = "B" => l.m \in DOMAIN BTable /\ l.rs1 \in Regs /\ l.rs2 \in Regs /\ l.imm \in ImmB
      /\ l.fmt = "U" => l.m \in DOMAIN UTable /\ l.rd \in Regs /\ l.imm \in ImmU
      /\ l.fmt = "F" => l.m \in DOMAIN FixedWords
      /\ l.fmt = "C" => l.c \in Words(16) /\ ~({0, 1} \subseteq l.c)
  BY DEF Lines, Halfwords, LineOf
<1>2. Shifts \subseteq DOMAIN ITable
  BY DEF Shifts, ITable
<1> QED BY <1>1, <1>2, OperandsAssumption

\* A line of the assembler is decoded as it was written, when the decoder is
\* that of the build that knows the mnemonic.
LEMMA LinesAreRead ==
  ASSUME Emitted, emitted
  PROVE  /\ source.fmt = "R" => BackR(word, source.m, source.rd, source.rs1, source.rs2)
         /\ source.fmt = "I" => BackI(word, source.m, source.rd, source.rs1, source.imm)
         /\ source.fmt = "B" => BackB(word, source.m, source.rs1, source.rs2, source.imm)
         /\ source.fmt = "U" => BackU(word, source.m, source.rd, source.imm)
         /\ source.fmt = "F" => D32!decode_instruction(word).inst_type
                                   = IF source.m = "NOP" THEN "ADDI" ELSE source.m
<1>1. source \in Lines \cup Halfwords
  BY DEF Emitted
<1>2. CASE source.fmt = "R"
  <2>1. word = r_type(source.m, source.rd, source.rs1, source.rs2)
    BY <1>2 DEF Emitted
  <2>2. BackR(word, source.m, source.rd, source.rs1, source.rs2)
    BY <1>1, <1>2, <2>1, LinesOf, RLine, Zenon
  <2> QED BY <1>2, <2>2
<1>3. CASE source.fmt = "I"
  <2>1. word = i_type(source.m, source.rd, source.rs1, source.imm)
    BY <1>3 DEF Emitted
  <2>2. BackI(word, source.m, source.rd, source.rs1, source.imm)
    BY <1>1, <1>3, <2>1, LinesOf, ILine, Zenon
  <2> QED BY <1>3, <2>2
<1>4. CASE source.fmt = "B"
  <2>1. word = b_type(source.m, source.rs1, source.rs2, source.imm)
    BY <1>4 DEF Emitted
  <2>2. BackB(word, source.m, source.rs1, source.rs2, source.imm)
    BY <1>1, <1>4, <2>1, LinesOf, BLine, Zenon
  <2> QED BY <1>4, <2>2
<1>5. CASE source.fmt = "U"
  <2>1. word = u_type(source.m, source.rd, source.imm)
    BY <1>5 DEF Emitted
  <2>2. BackU(word, source.m, source.rd, source.imm)
    BY <1>1, <1>5, <2>1, LinesOf, ULine, Zenon
  <2> QED BY <1>5, <2>2
<1>6. CASE source.fmt = "F"
  BY <1>1, <1>6, LinesOf, FLine, Zenon DEF Emitted
<1> QED BY <1>2, <1>3, <1>4, <1>5, <1>6

\* For every mnemonic, register and immediate of its range: what assembler.py
\* emits is decoded by the RV32 build as that instruction.
THEOREM AssembledDecodesBackHolds == DSpec => []AssembledDecodesBack
<1>1. ASSUME Emitted PROVE AssembledDecodesBack
  <2> SUFFICES ASSUME Is({"R", "I", "B", "U", "F"}), source.m \notin Rv64Only
               PROVE  LET d == D32!decode_instruction(word)
                      IN d.inst_type = (IF source.m = "NOP" THEN "ADDI" ELSE source.m) /\ SameOperands(d)
    BY DEF AssembledDecodesBack
  <2>1. emitted /\ source.fmt \in {"R", "I", "B", "U", "F"} /\ source \in Lines \cup Halfwords
    BY <1>1 DEF Is, Emitted
  <2> DEFINE d == D32!decode_instruction(word)
  <2> HIDE DEF d
  <2>2. source.fmt # "F" => source.m # "NOP"
    BY <2>1, LinesOf DEF RTable, ITable, BTable, UTable
  <2>3. CASE source.fmt = "R"
    BY <1>1, <2>1, <2>2, <2>3, LinesAreRead DEF BackR, Decoder, SameOperands, d
  <2>4. CASE source.fmt = "I"
    BY <1>1, <2>1, <2>2, <2>4, LinesAreRead DEF BackI, Decoder, SameOperands, Low12, d
  <2>5. CASE source.fmt \in {"B", "U"}
    <3>1. source.m \notin Unextended
      BY <2>1, <2>5, LinesOf DEF BTable, UTable, Unextended
    <3> QED BY <1>1, <2>1, <2>2, <2>5, <3>1, LinesAreRead DEF BackB, BackU, SameOperands, d
  <2>6. CASE source.fmt = "F"
    BY <1>1, <2>1, <2>6, LinesAreRead DEF SameOperands, d
  <2> QED BY <2>1, <2>3, <2>4, <2>5, <2>6
<1> QED BY <1>1, AlwaysEmitted, PTL

\* The same for the word instructions and the RV64 build.
THEOREM WordOpsDecodeBackHolds == DSpec => []WordOpsDecodeBack
<1>1. ASSUME Emitted PROVE WordOpsDecodeBack
  <2> SUFFICES ASSUME Is({"R", "I"}), source.m \in Rv64Only
               PROVE  LET d == D64!decode_instruction(word)
                      IN d.inst_type = source.m /\ SameOperands(d)
    BY DEF WordOpsDecodeBack
  <2>1. emitted /\ source.fmt \in {"R", "I"}
    BY DEF Is
  <2>2. CASE source.fmt = "R"
    BY <1>1, <2>1, <2>2, LinesAreRead DEF BackR, Decoder, SameOperands
  <2>3. CASE source.fmt = "I"
    BY <1>1, <2>1, <2>3, LinesAreRead DEF BackI, Decoder, SameOperands, Low12
  <2> QED BY <2>1, <2>2, <2>3
<1> QED BY <1>1, AlwaysEmitted, PTL

-----------------------------------------------------------------------------
(* The compressed instructions *)

\* A format means the same in every instance.
LEMMA SameFormats ==
  /\ \A op, rd, rs1, rs2, f3, f7 : /\ C32!encode_r(op, rd, rs1, rs2, f3, f7) = encode_r(op, rd, rs1, rs2, f3, f7)
                                   /\ C64!encode_r(op, rd, rs1, rs2, f3, f7) = encode_r(op, rd, rs1, rs2, f3, f7)
  /\ \A op, rd, rs1, imm, f3 : /\ C32!encode_i(op, rd, rs1, imm, f3) = encode_i(op, rd, rs1, imm, f3)
                               /\ C64!encode_i(op, rd, rs1, imm, f3) = encode_i(op, rd, rs1, imm, f3)
  /\ \A op, rs1, rs2, imm, f3 : /\ C32!encode_s(op, rs1, rs2, imm, f3) = encode_s(op, rs1, rs2, imm, f3)
                                /\ C64!encode_s(op, rs1, rs2, imm, f3) = encode_s(op, rs1, rs2, imm, f3)
                                /\ C32!encode_b(op, rs1, rs2, imm, f3) = encode_b(op, rs1, rs2, imm, f3)
                                /\ C64!encode_b(op, rs1, rs2, imm, f3) = encode_b(op, rs1, rs2, imm, f3)
  /\ \A op, rd, imm : /\ C32!encode_u(op, rd, imm) = encode_u(op, rd, imm)
                      /\ C64!encode_u(op, rd, imm) = encode_u(op, rd, imm)
                      /\ C32!encode_j(op, rd, imm) = encode_j(op, rd, imm)
                      /\ C64!encode_j(op, rd, imm) = encode_j(op, rd, imm)
  /\ \A k : C32!Num(k) = Num(k) /\ C64!Num(k) = Num(k)
  /\ \A x, k : C32!At(x, k) = At(x, k) /\ C64!At(x, k) = At(x, k)
<1>1. \A k : C32!Num(k) = Num(k) /\ C64!Num(k) = Num(k)
  BY Zenon DEF C32!Num, C64!Num, Num
<1>2. \A x, k : C32!At(x, k) = At(x, k) /\ C64!At(x, k) = At(x, k)
  BY Zenon DEF C32!At, C64!At, At, C32!ShiftL, C64!ShiftL, ShiftL, C32!Bits, C64!Bits, Bits
<1>3. \A f3, op : C32!Fixed(f3, op) = Fixed(f3, op) /\ C64!Fixed(f3, op) = Fixed(f3, op)
  BY <1>1, <1>2, Zenon DEF C32!Fixed, C64!Fixed, Fixed
<1>4. \A op, rd, rs1, rs2, f3, f7 : /\ C32!encode_r(op, rd, rs1, rs2, f3, f7) = encode_r(op, rd, rs1, rs2, f3, f7)
                                    /\ C64!encode_r(op, rd, rs1, rs2, f3, f7) = encode_r(op, rd, rs1, rs2, f3, f7)
  BY <1>1, <1>2, <1>3, SMT DEF C32!encode_r, C64!encode_r, encode_r
<1>5. \A op, rd, rs1, imm, f3 : /\ C32!encode_i(op, rd, rs1, imm, f3) = encode_i(op, rd, rs1, imm, f3)
                                /\ C64!encode_i(op, rd, rs1, imm, f3) = encode_i(op, rd, rs1, imm, f3)
  BY <1>1, <1>2, <1>3, Zenon DEF C32!encode_i, C64!encode_i, encode_i
<1>6. \A op, rs1, rs2, imm, f3 : /\ C32!encode_s(op, rs1, rs2, imm, f3) = encode_s(op, rs1, rs2, imm, f3)
                                 /\ C64!encode_s(op, rs1, rs2, imm, f3) = encode_s(op, rs1, rs2, imm, f3)
  BY <1>2, <1>3, SameFields, SMT DEF C32!encode_s, C64!encode_s, encode_s
<1>7. \A op, rs1, rs2, imm, f3 : /\ C32!encode_b(op, rs1, rs2, imm, f3) = encode_b(op, rs1, rs2, imm, f3)
                                 /\ C64!encode_b(op, rs1, rs2, imm, f3) = encode_b(op, rs1, rs2, imm, f3)
  BY <1>2, <1>3, SameFields, SMT DEF C32!encode_b, C64!encode_b, encode_b
<1>8. \A op, rd, imm : /\ C32!encode_u(op, rd, imm) = encode_u(op, rd, imm)
                       /\ C64!encode_u(op, rd, imm) = encode_u(op, rd, imm)
  BY <1>1, <1>2, SameFields, Zenon DEF C32!encode_u, C64!encode_u, encode_u
<1>9. \A op, rd, imm : /\ C32!encode_j(op, rd, imm) = encode_j(op, rd, imm)
                       /\ C64!encode_j(op, rd, imm) = encode_j(op, rd, imm)
  BY <1>1, <1>2, SameFields, Zenon DEF C32!encode_j, C64!encode_j, encode_j
<1> QED BY <1>1, <1>2, <1>4, <1>5, <1>6, <1>7, <1>8, <1>9

\* What both decoders make of an opcode and its function codes.
Both(w, m) == D32!decode_instruction(w).inst_type = m /\ D64!decode_instruction(w).inst_type = m
On64(w, m) == D64!decode_instruction(w).inst_type = m
LEMMA TypesOf ==
  ASSUME NEW w, NEW op, NEW f3, NEW f7, op = Field(w, 0, 6), f3 = Field(w, 12, 14), f7 = Field(w, 25, 31)
  PROVE  /\ op = 19 /\ f3 = 0 => Both(w, "ADDI")
         /\ op = 19 /\ f3 = 7 => Both(w, "ANDI")
         /\ op = 19 /\ f3 = 1 => Both(w, IF f7 = 0 THEN "SLLI" ELSE "UNKNOWN")
         /\ op = 19 /\ f3 = 5 => Both(w, IF f7 = 0 THEN "SRLI" ELSE IF f7 = 32 THEN "SRAI" ELSE "UNKNOWN")
         /\ op = 3 /\ f3 = 2 => Both(w, "LW")
         /\ op = 3 /\ f3 = 3 => On64(w, "LD")
         /\ op = 35 /\ f3 = 2 => Both(w, "SW")
         /\ op = 35 /\ f3 = 3 => On64(w, "SD")
         /\ op = 7 /\ f3 = 2 => Both(w, "FLW")
         /\ op = 7 /\ f3 = 3 => Both(w, "FLD")
         /\ op = 39 => Both(w, IF f3 = 2 THEN "FSW" ELSE "UNKNOWN")
         /\ op = 111 => Both(w, "JAL")
         /\ op = 103 => Both(w, "JALR")
         /\ op = 55 => Both(w, "LUI")
         /\ op = 99 /\ f3 = 0 => Both(w, "BEQ")
         /\ op = 99 /\ f3 = 1 => Both(w, "BNE")
         /\ op = 51 /\ f3 = 0 /\ f7 = 0 => Both(w, "ADD")
         /\ op = 51 /\ f3 = 0 /\ f7 = 32 => Both(w, "SUB")
         /\ op = 51 /\ f3 = 4 /\ f7 = 0 => Both(w, "XOR")
         /\ op = 115 /\ f3 = 0 /\ Field(w, 20, 31) = 1 => Both(w, "EBREAK")
<1> DEFINE t == D32!TypeAndImm(w, op, f3, f7)[1]
           u == D64!TypeAndImm(w, op, f3, f7)[1]
<1>1. \A m : Both(w, m) <=> t = m /\ u = m
  BY Decoded32, Decoded64 DEF Both
<1>2. \A m : On64(w, m) <=> u = m
  BY Decoded64 DEF On64
<1>3. D32!Field(w, 20, 31) = Field(w, 20, 31) /\ D64!Field(w, 20, 31) = Field(w, 20, 31)
  BY SameFields
<1>4. op = 19 => t = D32!op_imm_table(IF f3 \in {1, 5} THEN f7 ELSE 0)[f3 + 1]
                 /\ u = D64!op_imm_table(IF f3 \in {1, 5} THEN f7 ELSE 0)[f3 + 1]
  BY DEF D32!TypeAndImm, D64!TypeAndImm, D32!FusedOpcodes, D64!FusedOpcodes
<1>5. /\ op = 3 => t = D32!load_table[f3 + 1] /\ u = D64!load_table[f3 + 1]
      /\ op = 35 => t = D32!store_table[f3 + 1] /\ u = D64!store_table[f3 + 1]
      /\ op = 99 => t = D32!branch_table[f3 + 1] /\ u = D64!branch_table[f3 + 1]
      /\ op = 51 => t = D32!op_table(f7)[f3 + 1] /\ u = D64!op_table(f7)[f3 + 1]
  BY DEF D32!TypeAndImm, D64!TypeAndImm, D32!FusedOpcodes, D64!FusedOpcodes
<1>6. /\ op = 7 => t = D32!FpLoad(f3) /\ u = D64!FpLoad(f3)
      /\ op = 39 => (t = IF f3 = 2 THEN "FSW" ELSE "UNKNOWN") /\ (u = IF f3 = 2 THEN "FSW" ELSE "UNKNOWN")
      /\ op = 115 => t = D32!SystemType(f3, Field(w, 20, 31)) /\ u = D64!SystemType(f3, Field(w, 20, 31))
  BY <1>3 DEF D32!TypeAndImm, D64!TypeAndImm, D32!FusedOpcodes, D64!FusedOpcodes
<1>7. /\ op = 111 => t = "JAL" /\ u = "JAL"
      /\ op = 103 => t = "JALR" /\ u = "JALR"
      /\ op = 55 => t = "LUI" /\ u = "LUI"
  <2>1. op = 111 => t = "JAL" /\ u = "JAL"
    BY DEF D32!TypeAndImm, D64!TypeAndImm, D32!FusedOpcodes, D64!FusedOpcodes
  <2>2. op = 103 => t = "JALR" /\ u = "JALR"
    BY DEF D32!TypeAndImm, D64!TypeAndImm, D32!FusedOpcodes, D64!FusedOpcodes
  <2>3. op = 55 => t = "LUI" /\ u = "LUI"
    BY DEF D32!TypeAndImm, D64!TypeAndImm, D32!FusedOpcodes, D64!FusedOpcodes
  <2> QED BY <2>1, <2>2, <2>3
<1> HIDE DEF t, u
<1>8. /\ op = 19 /\ f3 = 0 => t = "ADDI" /\ u = "ADDI"
      /\ op = 19 /\ f3 = 7 => t = "ANDI" /\ u = "ANDI"
  BY <1>4 DEF D32!op_imm_table, D64!op_imm_table
<1>9. /\ op = 19 /\ f3 = 1 => (t = IF f7 = 0 THEN "SLLI" ELSE "UNKNOWN") /\ u = t
      /\ op = 19 /\ f3 = 5 => (t = IF f7 = 0 THEN "SRLI" ELSE IF f7 = 32 THEN "SRAI" ELSE "UNKNOWN") /\ u = t
  BY <1>4 DEF D32!op_imm_table, D64!op_imm_table, D32!Unknowns, D64!Unknowns
<1>10. /\ op = 3 /\ f3 = 2 => t = "LW" /\ u = "LW"
       /\ op = 3 /\ f3 = 3 => u = "LD"
       /\ op = 35 /\ f3 = 2 => t = "SW" /\ u = "SW"
       /\ op = 35 /\ f3 = 3 => u = "SD"
  BY <1>5, InstanceWidths DEF D32!load_table, D64!load_table, D32!store_table, D64!store_table,
                              D32!Unknowns, D64!Unknowns
<1>11. /\ op = 99 /\ f3 = 0 => t = "BEQ" /\ u = "BEQ"
       /\ op = 99 /\ f3 = 1 => t = "BNE" /\ u = "BNE"
  BY <1>5 DEF D32!branch_table, D64!branch_table
<1>12. /\ op = 51 /\ f3 = 0 /\ f7 = 0 => t = "ADD" /\ u = "ADD"
       /\ op = 51 /\ f3 = 0 /\ f7 = 32 => t = "SUB" /\ u = "SUB"
       /\ op = 51 /\ f3 = 4 /\ f7 = 0 => t = "XOR" /\ u = "XOR"
  BY <1>5 DEF D32!op_table, D64!op_table, D32!Unknowns, D64!Unknowns
<1>13. /\ op = 7 /\ f3 = 2 => t = "FLW" /\ u = "FLW"
       /\ op = 7 /\ f3 = 3 => t = "FLD" /\ u = "FLD"
       /\ op = 115 /\ f3 = 0 /\ Field(w, 20, 31) = 1 => t = "EBREAK" /\ u = "EBREAK"
  BY <1>6 DEF D32!FpLoad, D64!FpLoad, D32!SystemType, D64!SystemType
<1> QED BY <1>1, <1>2, <1>6, <1>7, <1>8, <1>9, <1>10, <1>11, <1>12, <1>13

\* The fields of a word of each format, when registers are words.
Coded(w, op, f3) == Field(w, 0, 6) = op /\ Field(w, 12, 14) = f3
InR(w, op, rd, rs1, rs2, f3, f7) ==
  /\ Coded(w, op, f3) /\ Field(w, 25, 31) = f7
  /\ Field(w, 7, 11) = Val(rd) /\ Field(w, 15, 19) = Val(rs1) /\ Field(w, 20, 24) = Val(rs2)
InI(w, op, rd, rs1, imm, f3) ==
  /\ Coded(w, op, f3)
  /\ Field(w, 7, 11) = Val(rd) /\ Field(w, 15, 19) = Val(rs1) /\ Has(w, 20, 12, imm)
InS(w, op, rs1, rs2, imm, f3) ==
  /\ Coded(w, op, f3)
  /\ Field(w, 15, 19) = Val(rs1) /\ Field(w, 20, 24) = Val(rs2)
  /\ \A i \in 0..4 : i + 7 \in w <=> i \in imm
  /\ \A i \in 5..11 : i + 20 \in w <=> i \in imm
InB(w, op, rs1, rs2, imm, f3) ==
  /\ Coded(w, op, f3)
  /\ Field(w, 15, 19) = Val(rs1) /\ Field(w, 20, 24) = Val(rs2)
  /\ \A i \in 1..4 : i + 7 \in w <=> i \in imm
  /\ \A i \in 5..10 : i + 20 \in w <=> i \in imm
  /\ 7 \in w <=> 11 \in imm
  /\ 31 \in w <=> 12 \in imm

\* They are those it was put together from.
LEMMA ReadsR ==
  ASSUME NEW op \in Codes, NEW f3 \in 0..7, NEW f7 \in Codes,
         NEW rd \in Words(5), NEW rs1 \in Words(5), NEW rs2 \in Words(5),
         NEW w, w = encode_r(op, rd, rs1, rs2, f3, f7)
  PROVE  InR(w, op, rd, rs1, rs2, f3, f7)
<1>1. /\ Num(op) \in Words(7) /\ Num(f3) \in Words(3) /\ Num(f7) \in Words(7)
      /\ Val(Num(op)) = op /\ Val(Num(f3)) = f3 /\ Val(Num(f7)) = f7
  BY Literals DEF Codes
<1>2. /\ Has(w, 0, 7, Num(op)) /\ Has(w, 7, 5, rd) /\ Has(w, 12, 3, Num(f3))
      /\ Has(w, 15, 5, rs1) /\ Has(w, 20, 5, rs2) /\ Has(w, 25, 7, Num(f7))
  BY RFormat DEF Codes
<1> QED BY <1>1, <1>2, FieldsAre DEF InR, Coded
\* The same for the immediate format.
LEMMA ReadsI ==
  ASSUME NEW op \in Codes, NEW f3 \in 0..7, NEW rd \in Words(5), NEW rs1 \in Words(5), NEW imm \in SUBSET Nat,
         NEW w, w = encode_i(op, rd, rs1, imm, f3)
  PROVE  InI(w, op, rd, rs1, imm, f3)
<1>1. /\ Num(op) \in Words(7) /\ Num(f3) \in Words(3) /\ Val(Num(op)) = op /\ Val(Num(f3)) = f3
  BY Literals DEF Codes
<1>2. /\ Has(w, 0, 7, Num(op)) /\ Has(w, 7, 5, rd) /\ Has(w, 12, 3, Num(f3))
      /\ Has(w, 15, 5, rs1) /\ Has(w, 20, 12, imm)
  <2>1. 0 \in 0..127 /\ op \in 0..127
    BY DEF Codes
  <2> QED BY <2>1, IFormat
<1> QED BY <1>1, <1>2, FieldsAre DEF InI, Coded
\* For stores.
LEMMA ReadsS ==
  ASSUME NEW op \in Codes, NEW f3 \in 0..7, NEW rs1 \in Words(5), NEW rs2 \in Words(5), NEW imm,
         NEW w, w = encode_s(op, rs1, rs2, imm, f3)
  PROVE  InS(w, op, rs1, rs2, imm, f3)
<1>1. /\ Num(op) \in Words(7) /\ Num(f3) \in Words(3) /\ Val(Num(op)) = op /\ Val(Num(f3)) = f3
  BY Literals DEF Codes
<1>2. /\ Has(w, 0, 7, Num(op)) /\ Has(w, 12, 3, Num(f3)) /\ Has(w, 15, 5, rs1) /\ Has(w, 20, 5, rs2)
      /\ \A i \in 0..4 : i + 7 \in w <=> i \in imm
      /\ \A i \in 5..11 : i + 20 \in w <=> i \in imm
  BY SFormat DEF Codes
<1> QED BY <1>1, <1>2, FieldsAre DEF InS, Coded
\* For branches.
LEMMA ReadsB ==
  ASSUME NEW op \in Codes, NEW f3 \in 0..7, NEW rs1 \in Words(5), NEW rs2 \in Words(5), NEW imm,
         NEW w, w = encode_b(op, rs1, rs2, imm, f3)
  PROVE  InB(w, op, rs1, rs2, imm, f3)
<1>1. /\ Num(op) \in Words(7) /\ Num(f3) \in Words(3) /\ Val(Num(op)) = op /\ Val(Num(f3)) = f3
  BY Literals DEF Codes
<1>2. /\ Has(w, 0, 7, Num(op)) /\ Has(w, 12, 3, Num(f3)) /\ Has(w, 15, 5, rs1) /\ Has(w, 20, 5, rs2)
      /\ \A i \in 1..4 : i + 7 \in w <=> i \in imm
      /\ \A i \in 5..10 : i + 20 \in w <=> i \in imm
      /\ 7 \in w <=> 11 \in imm
      /\ 31 \in w <=> 12 \in imm
  BY BFormat DEF Codes
<1> QED BY <1>1, <1>2, FieldsAre DEF InB, Coded
\* The opcode of an upper immediate or a jump.
LEMMA ReadsOpcode ==
  ASSUME NEW op \in Codes, NEW rd \in Words(5), NEW imm, NEW w,
         w = encode_u(op, rd, imm) \/ w = encode_j(op, rd, imm)
  PROVE  Field(w, 0, 6) = op
<1>1. Num(op) \in Words(7) /\ Val(Num(op)) = op
  BY Literals DEF Codes
<1>2. Has(w, 0, 7, Num(op))
  BY UFormat, JFormat DEF Codes
<1> QED BY <1>1, <1>2, FieldsAre

\* The registers that a 16-bit word can name.
LEMMA CompressedRegisters ==
  ASSUME NEW c
  PROVE  /\ C32!RegLow(c) \in Words(5) /\ C32!RegHigh(c) \in Words(5)
         /\ C32!Rd(c) \in Words(5) /\ C32!Rs2(c) \in Words(5)
         /\ C32!Zero \in Words(5) /\ C32!Ra \in Words(5) /\ C32!Sp \in Words(5)
         /\ Val(C32!RegHigh(c)) = 8 + Field(c, 7, 9) /\ Val(C32!Zero) = 0
<1>1. Slice(c, 2, 4, 0) \in Words(3) /\ Slice(c, 7, 9, 0) \in Words(3)
      /\ Slice(c, 7, 11, 0) \in Words(5) /\ Slice(c, 2, 6, 0) \in Words(5)
  <2>1. \A lo, hi, n \in Nat : n = hi - lo + 1 => Slice(c, lo, hi, 0) \in Words(n)
    BY SliceIsWord
  <2> QED BY <2>1
<1>2. /\ C32!RegLow(c) = Slice(c, 2, 4, 0) \cup {3} /\ C32!RegHigh(c) = Slice(c, 7, 9, 0) \cup {3}
      /\ C32!Rd(c) = Slice(c, 7, 11, 0) /\ C32!Rs2(c) = Slice(c, 2, 6, 0)
      /\ C32!Zero = {} /\ C32!Ra = {0} /\ C32!Sp = {1}
  BY SameFields DEF C32!RegLow, C32!RegHigh, C32!Rd, C32!Rs2, C32!Zero, C32!Ra, C32!Sp
<1>3. /\ C32!RegLow(c) \in Words(5) /\ C32!RegHigh(c) \in Words(5)
      /\ C32!Rd(c) \in Words(5) /\ C32!Rs2(c) \in Words(5)
      /\ C32!Zero \in Words(5) /\ C32!Ra \in Words(5) /\ C32!Sp \in Words(5)
  BY <1>1, <1>2 DEF Words, Bits
<1>4. Val(C32!RegHigh(c)) = 8 + Field(c, 7, 9)
  <2> DEFINE s == Slice(c, 7, 9, 0)
  <2>1. s \in Words(4) /\ {3} \in Words(4) /\ s \cap {3} = {} /\ 4 \in Nat
    BY <1>1 DEF Words, Bits
  <2> HIDE DEF s
  <2>2. Val(s \cup {3}) = Val(s) + Val({3})
    BY <2>1, DisjointSum
  <2>3. Val({3}) = 8
    <3>1. 2^3 = 8
      OBVIOUS
    <3> QED BY <3>1, ValPower
  <2>4. Val(s) = Field(c, 7, 9) /\ Val(s) \in Nat
    BY <2>1, ValRange DEF Field, s
  <2> QED BY <1>2, <2>2, <2>3, <2>4 DEF s
<1> QED BY <1>2, <1>3, <1>4, ZeroIsZero

-----------------------------------------------------------------------------
(* Compressed branches *)

\* The offset of a compressed branch, bit by bit.
LEMMA BranchOffset ==
  ASSUME NEW c
  PROVE  LET k == C32!BImm(c)
         IN /\ k \in Words(32) /\ 0 \notin k
            /\ \A i \in {1, 2} : i \in k <=> i + 2 \in c
            /\ \A i \in {3, 4} : i \in k <=> i + 7 \in c
            /\ 5 \in k <=> 2 \in c
            /\ \A i \in {6, 7} : i \in k <=> i - 1 \in c
            /\ \A i \in 8..31 : i \in k <=> 12 \in c
<1> DEFINE S1(i) == i \in Slice(c, 10, 11, 3)
           S2(i) == i \in Slice(c, 5, 6, 6)
           S3(i) == i \in Slice(c, 3, 4, 1)
           S4(i) == i \in Slice(c, 2, 2, 5)
           S5(i) == i \in IF 12 \in c THEN 8..31 ELSE {}
           k == C32!BImm(c)
<1>1. \A i : i \in k <=> S1(i) \/ S2(i) \/ S3(i) \/ S4(i) \/ S5(i)
  BY SameFields DEF C32!BImm, C32!Sign
<1>2. ASSUME NEW i \in Int
      PROVE  /\ S1(i) <=> i + 7 \in c /\ i \in 3..4
             /\ S2(i) <=> i - 1 \in c /\ i \in 6..7
             /\ S3(i) <=> i + 2 \in c /\ i \in 1..2
             /\ S4(i) <=> i = 5 /\ 2 \in c
             /\ S5(i) <=> 12 \in c /\ i \in 8..31
  <2>1. /\ S1(i) <=> (i - 3 + 10 \in c /\ i - 3 + 10 \in 10..11)
        /\ S2(i) <=> (i - 6 + 5 \in c /\ i - 6 + 5 \in 5..6)
        /\ S3(i) <=> (i - 1 + 3 \in c /\ i - 1 + 3 \in 3..4)
        /\ S4(i) <=> (i - 5 + 2 \in c /\ i - 5 + 2 \in 2..2)
    BY SliceBit
  <2>2. S5(i) <=> 12 \in c /\ i \in 8..31
    OBVIOUS
  <2> HIDE DEF S1, S2, S3, S4, S5
  <2>3. i - 3 + 10 = i + 7 /\ i - 6 + 5 = i - 1 /\ i - 1 + 3 = i + 2
    OBVIOUS
  <2>4. S4(i) <=> i = 5 /\ 2 \in c
    BY <2>1
  <2> QED BY <2>1, <2>2, <2>3, <2>4
<1>3. \A i : S1(i) \/ S2(i) \/ S3(i) \/ S4(i) \/ S5(i) => i \in Int
  BY SlicePlace
<1> HIDE DEF S1, S2, S3, S4, S5
<1>4. k \in Words(32) /\ 0 \notin k
  BY <1>1, <1>2, <1>3 DEF Words, Bits
<1>5. /\ \A i \in {1, 2} : i \in k <=> i + 2 \in c
      /\ \A i \in {3, 4} : i \in k <=> i + 7 \in c
  BY <1>1, <1>2
<1>6. /\ 5 \in k <=> 2 \in c
      /\ \A i \in {6, 7} : i \in k <=> i - 1 \in c
  BY <1>1, <1>2
<1>7. \A i \in 8..31 : i \in k <=> 12 \in c
  BY <1>1, <1>2
<1> QED BY <1>4, <1>5, <1>6, <1>7

\* It is the offset that the decoder reads, with the register of the 16 bits.
LEMMA CompressedBranch ==
  ASSUME NEW c, NEW f3 \in {0, 1}, NEW w, w = C32!encode_b(99, C32!RegHigh(c), C32!Zero, C32!BImm(c), f3)
  PROVE  LET d == D32!decode_instruction(w)
         IN d.imm = C32!BImm(c) /\ d.rs1 = 8 + Field(c, 7, 9) /\ d.rs2 = 0
<1> DEFINE k == C32!BImm(c)
           op == 99
<1>1. op \in Codes /\ f3 \in 0..7 /\ C32!RegHigh(c) \in Words(5) /\ C32!Zero \in Words(5)
  BY CompressedRegisters DEF Codes
<1>2. w = encode_b(op, C32!RegHigh(c), C32!Zero, k, f3)
  BY SameFormats
<1>3. k \in Words(32) /\ 0 \notin k /\ \A i \in 12..31 : i \in k <=> 12 \in k
  BY BranchOffset
<1> HIDE DEF k, op
<1>4. InB(w, op, C32!RegHigh(c), C32!Zero, k, f3)
  BY <1>1, <1>2, ReadsB, Zenon
<1>5. D32!BranchImm(w) = k
  BY <1>3, <1>4, BranchRead DEF InB
<1>6. Field(w, 0, 6) = 99 /\ Field(w, 15, 19) = 8 + Field(c, 7, 9) /\ Field(w, 20, 24) = 0
  BY <1>4, CompressedRegisters DEF InB, Coded, op
<1> DEFINE t == D32!TypeAndImm(w, 99, Field(w, 12, 14), Field(w, 25, 31))
           d == D32!decode_instruction(w)
<1>7. d.imm = t[2] /\ d.rs1 = Field(w, 15, 19) /\ d.rs2 = Field(w, 20, 24)
  BY <1>6, Decoded32
<1>8. t[2] = D32!BranchImm(w)
  BY Cases32
<1> HIDE DEF d, t
<1> QED BY <1>5, <1>6, <1>7, <1>8 DEF d, k

\* For every 16-bit word: a compressed branch is decoded with the offset and
\* the register that its bits say.
THEOREM CompressedBranchOperandsHolds == DSpec => []CompressedBranchOperands
<1>1. ASSUME Emitted PROVE CompressedBranchOperands
  <2> SUFFICES ASSUME Is({"C"}), Quadrant = 1, Funct3 \in {6, 7}
               PROVE  LET d == D32!decode_instruction(word)
                          k == {i \in 0..31 : CASE i = 0 -> FALSE [] i \in {1, 2} -> i + 2 \in source.c
                                [] i \in {3, 4} -> i + 7 \in source.c [] i = 5 -> 2 \in source.c
                                [] i \in {6, 7} -> i - 1 \in source.c [] OTHER -> 12 \in source.c}
                      IN d.imm = k /\ d.rs1 = 8 + C32!Field(source.c, 7, 9) /\ d.rs2 = 0
    BY DEF CompressedBranchOperands
  <2> DEFINE c == source.c
             k == {i \in 0..31 : CASE i = 0 -> FALSE [] i \in {1, 2} -> i + 2 \in c
                     [] i \in {3, 4} -> i + 7 \in c [] i = 5 -> 2 \in c
                     [] i \in {6, 7} -> i - 1 \in c [] OTHER -> 12 \in c}
             f3 == IF Funct3 = 6 THEN 0 ELSE 1
  <2>1. word = C32!Quadrant1(c, Funct3)
    BY <1>1 DEF Emitted, Is, C32!expand_compressed, Quadrant, Funct3
  <2>2. word = C32!encode_b(99, C32!RegHigh(c), C32!Zero, C32!BImm(c), f3)
    BY <2>1 DEF C32!Quadrant1
  <2>3. f3 \in {0, 1}
    OBVIOUS
  <2> HIDE DEF f3, c
  <2> DEFINE d == D32!decode_instruction(word)
  <2>4. d.imm = C32!BImm(c) /\ d.rs1 = 8 + Field(c, 7, 9) /\ d.rs2 = 0
    BY <2>2, <2>3, CompressedBranch
  <2> HIDE DEF d
  <2>5. C32!BImm(c) = k
    <3> DEFINE b == C32!BImm(c)
    <3>1. /\ b \in Words(32) /\ 0 \notin b
          /\ \A i \in {1, 2} : i \in b <=> i + 2 \in c
          /\ \A i \in {3, 4} : i \in b <=> i + 7 \in c
          /\ 5 \in b <=> 2 \in c
          /\ \A i \in {6, 7} : i \in b <=> i - 1 \in c
          /\ \A i \in 8..31 : i \in b <=> 12 \in c
      BY BranchOffset
    <3> HIDE DEF b
    <3>2. b \subseteq 0..31
      BY <3>1 DEF Words, Bits
    <3>3. ASSUME NEW i \in 0..31 PROVE i \in b <=> i \in k
      BY <3>1
    <3>4. b = k
      BY <3>2, <3>3
    <3> QED BY <3>4 DEF b
  <2>6. C32!Field(c, 7, 9) = Field(c, 7, 9)
    BY SameFields
  <2> QED BY <2>4, <2>5, <2>6 DEF d, c
<1> QED BY <1>1, AlwaysEmitted, PTL

-----------------------------------------------------------------------------
(* Compressed loads and stores *)

\* The parts of a 16-bit word mean the same on RV32 and on RV64.
LEMMA SameParts ==
  /\ C64!Zero = C32!Zero /\ C64!Ra = C32!Ra /\ C64!Sp = C32!Sp
  /\ \A c : /\ C64!RegLow(c) = C32!RegLow(c) /\ C64!RegHigh(c) = C32!RegHigh(c)
            /\ C64!Rd(c) = C32!Rd(c) /\ C64!Rs2(c) = C32!Rs2(c)
            /\ C64!WordImm(c) = C32!WordImm(c) /\ C64!DoubleImm(c) = C32!DoubleImm(c)
            /\ C64!Addi4Imm(c) = C32!Addi4Imm(c) /\ C64!SpImm(c) = C32!SpImm(c)
            /\ C64!Imm6(c) = C32!Imm6(c) /\ C64!ShamtImm(c) = C32!ShamtImm(c)
            /\ C64!JImm(c) = C32!JImm(c) /\ C64!BImm(c) = C32!BImm(c)
            /\ C64!LwspImm(c) = C32!LwspImm(c) /\ C64!FldspImm(c) = C32!FldspImm(c)
            /\ C64!SwspImm(c) = C32!SwspImm(c) /\ C64!FsdspImm(c) = C32!FsdspImm(c)
<1>1. C64!Zero = C32!Zero /\ C64!Ra = C32!Ra /\ C64!Sp = C32!Sp
  BY DEF C64!Zero, C32!Zero, C64!Ra, C32!Ra, C64!Sp, C32!Sp
<1> SUFFICES ASSUME NEW c
             PROVE  /\ C64!RegLow(c) = C32!RegLow(c) /\ C64!RegHigh(c) = C32!RegHigh(c)
                    /\ C64!Rd(c) = C32!Rd(c) /\ C64!Rs2(c) = C32!Rs2(c)
                    /\ C64!WordImm(c) = C32!WordImm(c) /\ C64!DoubleImm(c) = C32!DoubleImm(c)
                    /\ C64!Addi4Imm(c) = C32!Addi4Imm(c) /\ C64!SpImm(c) = C32!SpImm(c)
                    /\ C64!Imm6(c) = C32!Imm6(c) /\ C64!ShamtImm(c) = C32!ShamtImm(c)
                    /\ C64!JImm(c) = C32!JImm(c) /\ C64!BImm(c) = C32!BImm(c)
                    /\ C64!LwspImm(c) = C32!LwspImm(c) /\ C64!FldspImm(c) = C32!FldspImm(c)
                    /\ C64!SwspImm(c) = C32!SwspImm(c) /\ C64!FsdspImm(c) = C32!FsdspImm(c)
  BY <1>1
<1>2. /\ C64!RegLow(c) = C32!RegLow(c) /\ C64!RegHigh(c) = C32!RegHigh(c)
      /\ C64!Rd(c) = C32!Rd(c) /\ C64!Rs2(c) = C32!Rs2(c)
  BY SameFields DEF C64!RegLow, C32!RegLow, C64!RegHigh, C32!RegHigh, C64!Rd, C32!Rd, C64!Rs2, C32!Rs2
<1>3. /\ C64!WordImm(c) = C32!WordImm(c) /\ C64!DoubleImm(c) = C32!DoubleImm(c)
      /\ C64!Addi4Imm(c) = C32!Addi4Imm(c) /\ C64!ShamtImm(c) = C32!ShamtImm(c)
  BY SameFields DEF C64!WordImm, C32!WordImm, C64!DoubleImm, C32!DoubleImm, C64!Addi4Imm, C32!Addi4Imm,
                    C64!ShamtImm, C32!ShamtImm
<1>4. /\ C64!SpImm(c) = C32!SpImm(c) /\ C64!Imm6(c) = C32!Imm6(c)
      /\ C64!JImm(c) = C32!JImm(c) /\ C64!BImm(c) = C32!BImm(c)
  BY SameFields DEF C64!SpImm, C32!SpImm, C64!Imm6, C32!Imm6, C64!JImm, C32!JImm, C64!BImm, C32!BImm,
                    C64!Sign, C32!Sign
<1>5. /\ C64!LwspImm(c) = C32!LwspImm(c) /\ C64!FldspImm(c) = C32!FldspImm(c)
      /\ C64!SwspImm(c) = C32!SwspImm(c) /\ C64!FsdspImm(c) = C32!FsdspImm(c)
  BY SameFields DEF C64!LwspImm, C32!LwspImm, C64!FldspImm, C32!FldspImm, C64!SwspImm, C32!SwspImm,
                    C64!FsdspImm, C32!FsdspImm
<1> QED BY <1>2, <1>3, <1>4, <1>5

\* An offset below 2^11 of a store is read as it was encoded.
LEMMA StoreRead ==
  ASSUME NEW w, NEW c \in Words(11),
         \A i \in 0..4 : i + 7 \in w <=> i \in c,
         \A i \in 5..11 : i + 20 \in w <=> i \in c
  PROVE  D32!StoreImm(w) = c /\ D64!StoreImm(w) = c
<1> DEFINE S1(i) == i \in Slice(w, 25, 31, 5)
           S2(i) == i \in Slice(w, 7, 11, 0)
           k == Slice(w, 25, 31, 5) \cup Slice(w, 7, 11, 0)
<1>1. 31 \notin w
  <2>1. 11 + 20 \in w <=> 11 \in c
    OBVIOUS
  <2> QED BY <2>1 DEF Words, Bits
<1>2. D32!StoreImm(w) = k /\ D64!StoreImm(w) = k
  BY <1>1, SameFields DEF D32!StoreImm, D64!StoreImm, D32!SignFrom, D64!SignFrom
<1>3. \A i : i \in k <=> S1(i) \/ S2(i)
  OBVIOUS
<1>4. ASSUME NEW i \in Int
      PROVE  /\ S1(i) <=> i + 20 \in w /\ i \in 5..11
             /\ S2(i) <=> i + 7 \in w /\ i \in 0..4
  <2>1. /\ S1(i) <=> (i - 5 + 25 \in w /\ i - 5 + 25 \in 25..31)
        /\ S2(i) <=> (i - 0 + 7 \in w /\ i - 0 + 7 \in 7..11)
    BY SliceBit
  <2> HIDE DEF S1, S2
  <2>2. i - 5 + 25 = i + 20 /\ i - 0 + 7 = i + 7
    OBVIOUS
  <2> QED BY <2>1, <2>2
<1>5. \A i : S1(i) \/ S2(i) => i \in Int
  BY SlicePlace
<1> HIDE DEF S1, S2, k
<1>6. ASSUME NEW i \in k PROVE i \in c
  BY <1>3, <1>4, <1>5
<1>7. ASSUME NEW i \in c PROVE i \in k
  <2>1. i \in 0..10
    BY DEF Words, Bits
  <2>2. CASE i \in 0..4
    BY <1>3, <1>4, <2>2
  <2>3. CASE i \in 5..10
    BY <1>3, <1>4, <2>3
  <2> QED BY <2>1, <2>2, <2>3
<1>8. k = c
  BY <1>6, <1>7
<1> QED BY <1>2, <1>8

\* A load and a store with the same operands name the same memory and the
\* same register.
Meets(l, s) ==
  /\ D32!decode_instruction(l).rs1 = D32!decode_instruction(s).rs1
  /\ D32!decode_instruction(l).imm = D32!decode_instruction(s).imm
  /\ D32!decode_instruction(l).rd = D32!decode_instruction(s).rs2
  /\ D64!decode_instruction(l).rs1 = D64!decode_instruction(s).rs1
  /\ D64!decode_instruction(l).imm = D64!decode_instruction(s).imm
  /\ D64!decode_instruction(l).rd = D64!decode_instruction(s).rs2
LEMMA LoadMeetsStore ==
  ASSUME NEW op \in {3, 7}, NEW f \in 0..7, NEW g \in 0..7,
         NEW r \in Words(5), NEW b \in Words(5), NEW c \in Words(11),
         NEW l, l = encode_i(op, r, b, c, f), NEW s, s = encode_s(35, b, r, c, g)
  PROVE  Meets(l, s)
<1> DEFINE st == 35
<1>1. op \in Codes /\ st \in Codes /\ c \in SUBSET Nat /\ c \in Words(12)
  BY DEF Codes, Words, Bits
<1> HIDE DEF st
<1>2. s = encode_s(st, b, r, c, g)
  BY DEF st
<1>3. InI(l, op, r, b, c, f)
  BY <1>1, ReadsI, Zenon
<1>4. InS(s, st, b, r, c, g)
  BY <1>1, <1>2, ReadsS, Zenon
<1>5. /\ Field(l, 0, 6) = op /\ Field(l, 15, 19) = Val(b) /\ Field(l, 7, 11) = Val(r)
      /\ Field(s, 0, 6) = 35 /\ Field(s, 15, 19) = Val(b) /\ Field(s, 20, 24) = Val(r)
  BY <1>3, <1>4 DEF InI, InS, Coded, st
<1>6. Slice(l, 20, 31, 0) = c
  BY <1>1, <1>3, FieldsAre DEF InI
<1>7. D32!StoreImm(s) = c /\ D64!StoreImm(s) = c
  BY <1>4, StoreRead DEF InS
<1>8. D32!decode_instruction(l).imm = c /\ D64!decode_instruction(l).imm = c
  <2>1. D32!DefaultImm(l) = c /\ D64!DefaultImm(l) = c
    BY <1>6, SameFields DEF D32!DefaultImm, D64!DefaultImm
  <2>2. \A x, y : /\ D32!TypeAndImm(l, op, x, y)[2] = c
                  /\ D64!TypeAndImm(l, op, x, y)[2] = c
    BY <2>1 DEF D32!TypeAndImm, D64!TypeAndImm, D32!FusedOpcodes, D64!FusedOpcodes
  <2> QED BY <1>5, <2>2, Decoded32, Decoded64
<1>9. D32!decode_instruction(s).imm = c /\ D64!decode_instruction(s).imm = c
  <2>1. \A x, y : /\ D32!TypeAndImm(s, 35, x, y)[2] = c
                  /\ D64!TypeAndImm(s, 35, x, y)[2] = c
    BY <1>7 DEF D32!TypeAndImm, D64!TypeAndImm, D32!FusedOpcodes, D64!FusedOpcodes
  <2> QED BY <1>5, <2>1, Decoded32, Decoded64
<1>10. /\ D32!decode_instruction(l).rs1 = Val(b) /\ D32!decode_instruction(l).rd = Val(r)
       /\ D64!decode_instruction(l).rs1 = Val(b) /\ D64!decode_instruction(l).rd = Val(r)
       /\ D32!decode_instruction(s).rs1 = Val(b) /\ D32!decode_instruction(s).rs2 = Val(r)
       /\ D64!decode_instruction(s).rs1 = Val(b) /\ D64!decode_instruction(s).rs2 = Val(r)
  BY <1>5, Decoded32, Decoded64
<1> QED BY <1>8, <1>9, <1>10 DEF Meets

\* The offsets of the loads and stores that are not from sp.
LEMMA AccessOffsets == \A c : C32!WordImm(c) \in Words(11) /\ C32!DoubleImm(c) \in Words(11)
<1> SUFFICES ASSUME NEW c
             PROVE  C32!WordImm(c) \in Words(11) /\ C32!DoubleImm(c) \in Words(11)
  OBVIOUS
<1>1. ASSUME NEW lo \in 0..15, NEW hi \in 0..15, NEW at \in 0..15, hi - lo + at < 11
      PROVE  Slice(c, lo, hi, at) \in Words(11)
  <2>1. ASSUME NEW i \in Slice(c, lo, hi, at) PROVE i \in 0..10
    <3>1. i \in Nat
      BY SlicePlace
    <3>2. i - at + lo \in lo..hi
      BY <3>1, SliceBit
    <3> QED BY <1>1, <3>1, <3>2
  <2> QED BY <2>1 DEF Words, Bits
<1>2. Slice(c, 5, 5, 2) \in Words(11) /\ Slice(c, 12, 12, 6) \in Words(11) /\ Slice(c, 9, 11, 3) \in Words(11)
      /\ Slice(c, 10, 12, 3) \in Words(11) /\ Slice(c, 5, 6, 6) \in Words(11)
  BY <1>1
<1> QED BY <1>2, SameFields DEF C32!WordImm, C32!DoubleImm, Words

\* The twin of a 16-bit word has its other bits, and the given funct3.
LEMMA TwinIs ==
  ASSUME NEW f \in 0..7, source.c \in Words(16)
  PROVE  LET t == Twin(f)
             c == source.c
         IN /\ Field(t, 13, 15) = f /\ Field(t, 0, 1) = Field(c, 0, 1)
            /\ C32!RegLow(t) = C32!RegLow(c) /\ C32!RegHigh(t) = C32!RegHigh(c)
            /\ C32!WordImm(t) = C32!WordImm(c) /\ C32!DoubleImm(t) = C32!DoubleImm(c)
<1> DEFINE t == Twin(f)
           c == source.c
<1>1. Num(f) \in Words(3) /\ Val(Num(f)) = f
  BY Literals
<1>2. \A i \in 0..15 : i \in t <=> (i \in c /\ i \notin 13..15) \/ i - 13 \in Num(f)
  BY DEF Twin, ShiftL, Bits
<1>3. \A i \in 0..12 : i \in t <=> i \in c
  <2> SUFFICES ASSUME NEW i \in 0..12
               PROVE  i \in t <=> i \in c
    OBVIOUS
  <2>1. i - 13 \notin Num(f)
    BY <1>1 DEF Words, Bits
  <2> QED BY <1>2, <2>1
<1> HIDE DEF t, c
<1>4. Field(t, 13, 15) = f
  <2>1. Has(t, 13, 3, Num(f))
    BY <1>2 DEF Has, Bits
  <2> QED BY <1>1, <2>1, HalfwordFieldsAre
<1>5. ASSUME NEW lo \in 0..12, NEW hi \in 0..12, NEW at
      PROVE  Slice(t, lo, hi, at) = Slice(c, lo, hi, at)
  <2>1. t \cap (lo..hi) = c \cap (lo..hi)
    BY <1>3
  <2> QED BY <2>1, Zenon DEF Slice
<1>6. /\ Slice(t, 0, 1, 0) = Slice(c, 0, 1, 0) /\ Slice(t, 2, 4, 0) = Slice(c, 2, 4, 0)
      /\ Slice(t, 7, 9, 0) = Slice(c, 7, 9, 0) /\ Slice(t, 5, 5, 2) = Slice(c, 5, 5, 2)
      /\ Slice(t, 12, 12, 6) = Slice(c, 12, 12, 6) /\ Slice(t, 9, 11, 3) = Slice(c, 9, 11, 3)
      /\ Slice(t, 10, 12, 3) = Slice(c, 10, 12, 3) /\ Slice(t, 5, 6, 6) = Slice(c, 5, 6, 6)
  BY <1>5
<1>7. Field(t, 0, 1) = Field(c, 0, 1)
  BY <1>6 DEF Field
<1>8. C32!RegLow(t) = C32!RegLow(c) /\ C32!RegHigh(t) = C32!RegHigh(c)
  BY <1>6, SameFields DEF C32!RegLow, C32!RegHigh
<1>9. C32!WordImm(t) = C32!WordImm(c) /\ C32!DoubleImm(t) = C32!DoubleImm(c)
  BY <1>6, SameFields DEF C32!WordImm, C32!DoubleImm
<1> QED BY <1>4, <1>7, <1>8, <1>9 DEF t, c

\* For every 16-bit word: what a compressed store saves, the load with the
\* same operand bits restores.
THEOREM CompressedAccessesMeetHolds == DSpec => []CompressedAccessesMeet
<1>1. ASSUME Emitted PROVE CompressedAccessesMeet
  <2> SUFFICES ASSUME Is({"C"}), Group(0, 6)
               PROVE  LET Meet(load, store) == load.rs1 = store.rs1 /\ load.imm = store.imm /\ load.rd = store.rs2
                      IN /\ \A funct3 \in {2, 3} : Meet(Record32(funct3), Record32(6))
                         /\ \A funct3 \in {1, 3} : Meet(Record64(funct3), Record64(7))
                         /\ Meet(Record64(2), Record64(6))
    BY DEF CompressedAccessesMeet
  <2> DEFINE lo == C32!RegLow(source.c)
             hi == C32!RegHigh(source.c)
             word4 == C32!WordImm(source.c)
             word8 == C32!DoubleImm(source.c)
  <2>1. source.c \in Words(16) /\ Field(source.c, 0, 1) = 0
    BY <1>1, LinesOf, SameFields DEF Emitted, Is, Group, Quadrant
  <2>2. \A f \in 0..7 : /\ Field(Twin(f), 13, 15) = f /\ Field(Twin(f), 0, 1) = 0
                        /\ C32!RegLow(Twin(f)) = lo /\ C32!RegHigh(Twin(f)) = hi
                        /\ C32!WordImm(Twin(f)) = word4 /\ C32!DoubleImm(Twin(f)) = word8
    BY <2>1, TwinIs
  <2>3. lo \in Words(5) /\ hi \in Words(5) /\ word4 \in Words(11) /\ word8 \in Words(11)
    BY AccessOffsets, CompressedRegisters
  <2> HIDE DEF lo, hi, word4, word8
  <2>4. \A f \in 0..7 : /\ C32!expand_compressed(Twin(f)) = C32!Quadrant0(Twin(f), f)
                        /\ C64!expand_compressed(Twin(f)) = C64!Quadrant0(Twin(f), f)
    BY <2>2, SameFields DEF C32!expand_compressed, C64!expand_compressed
  <2>5. /\ C32!Quadrant0(Twin(2), 2) = encode_i(3, lo, hi, word4, 2)
        /\ C32!Quadrant0(Twin(3), 3) = encode_i(7, lo, hi, word4, 2)
        /\ C32!Quadrant0(Twin(6), 6) = encode_s(35, hi, lo, word4, 2)
    BY <2>2, SameFormats, InstanceWidths DEF C32!Quadrant0
  <2>6. /\ C64!Quadrant0(Twin(2), 2) = encode_i(3, lo, hi, word4, 2)
        /\ C64!Quadrant0(Twin(6), 6) = encode_s(35, hi, lo, word4, 2)
        /\ C64!Quadrant0(Twin(1), 1) = encode_i(7, lo, hi, word8, 3)
        /\ C64!Quadrant0(Twin(3), 3) = encode_i(3, lo, hi, word8, 3)
        /\ C64!Quadrant0(Twin(7), 7) = encode_s(35, hi, lo, word8, 3)
    BY <2>2, SameFormats, SameParts, InstanceWidths DEF C64!Quadrant0
  <2>7. ASSUME NEW op \in {3, 7}, NEW f \in 0..7, NEW g \in 0..7, NEW k \in Words(11)
        PROVE  Meets(encode_i(op, lo, hi, k, f), encode_s(35, hi, lo, k, g))
    BY <2>3, LoadMeetsStore
  <2>8. /\ Meets(encode_i(3, lo, hi, word4, 2), encode_s(35, hi, lo, word4, 2))
        /\ Meets(encode_i(7, lo, hi, word4, 2), encode_s(35, hi, lo, word4, 2))
        /\ Meets(encode_i(7, lo, hi, word8, 3), encode_s(35, hi, lo, word8, 3))
        /\ Meets(encode_i(3, lo, hi, word8, 3), encode_s(35, hi, lo, word8, 3))
    BY <2>3, <2>7
  <2> DEFINE Meet(load, store) == load.rs1 = store.rs1 /\ load.imm = store.imm /\ load.rd = store.rs2
  <2>9. ASSUME NEW l, NEW s, Meets(l, s)
        PROVE  /\ Meet(D32!decode_instruction(l), D32!decode_instruction(s))
               /\ Meet(D64!decode_instruction(l), D64!decode_instruction(s))
    BY <2>9 DEF Meets
  <2> HIDE DEF Meet
  <2>10. Meet(Record32(2), Record32(6)) /\ Meet(Record32(3), Record32(6))
    BY <2>4, <2>5, <2>8, <2>9 DEF Record32
  <2>11. Meet(Record64(1), Record64(7)) /\ Meet(Record64(3), Record64(7)) /\ Meet(Record64(2), Record64(6))
    BY <2>4, <2>6, <2>8, <2>9 DEF Record64
  <2> QED BY <2>10, <2>11 DEF Meet
<1> QED BY <1>1, AlwaysEmitted, PTL

-----------------------------------------------------------------------------
(* What a 16-bit word expands to *)

\* The instruction follows from the opcode and funct3, but for shifts and for
\* the register format.
LEMMA TypesCoded ==
  ASSUME NEW w
  PROVE  /\ Coded(w, 19, 0) => Both(w, "ADDI")
         /\ Coded(w, 19, 7) => Both(w, "ANDI")
         /\ Coded(w, 3, 2) => Both(w, "LW")
         /\ Coded(w, 3, 3) => On64(w, "LD")
         /\ Coded(w, 35, 2) => Both(w, "SW")
         /\ Coded(w, 35, 3) => On64(w, "SD")
         /\ Coded(w, 7, 2) => Both(w, "FLW")
         /\ Coded(w, 7, 3) => Both(w, "FLD")
         /\ Coded(w, 39, 2) => Both(w, "FSW")
         /\ Coded(w, 39, 3) => Both(w, "UNKNOWN")
         /\ Coded(w, 103, 0) => Both(w, "JALR")
         /\ Coded(w, 99, 0) => Both(w, "BEQ")
         /\ Coded(w, 99, 1) => Both(w, "BNE")
BY TypesOf DEF Coded

\* The opcodes and funct3 of the expansions are those they were given.
LEMMA CodedAs ==
  ASSUME NEW op \in {3, 7, 19, 35, 39, 99, 103}, NEW f \in 0..7
  PROVE  /\ \A rd, rs1 \in Words(5) : \A k \in SUBSET Nat : Coded(encode_i(op, rd, rs1, k, f), op, f)
         /\ \A rs1, rs2 \in Words(5) : \A k : Coded(encode_s(op, rs1, rs2, k, f), op, f)
         /\ \A rs1, rs2 \in Words(5) : \A k : Coded(encode_b(op, rs1, rs2, k, f), op, f)
<1>1. op \in Codes
  BY DEF Codes
<1>2. ASSUME NEW rd \in Words(5), NEW rs1 \in Words(5), NEW k \in SUBSET Nat
      PROVE  Coded(encode_i(op, rd, rs1, k, f), op, f)
  <2> DEFINE w == encode_i(op, rd, rs1, k, f)
  <2>1. InI(w, op, rd, rs1, k, f)
    BY <1>1, ReadsI, Zenon
  <2> QED BY <2>1 DEF InI
<1>3. ASSUME NEW rs1 \in Words(5), NEW rs2 \in Words(5), NEW k
      PROVE  Coded(encode_s(op, rs1, rs2, k, f), op, f) /\ Coded(encode_b(op, rs1, rs2, k, f), op, f)
  <2>1. InS(encode_s(op, rs1, rs2, k, f), op, rs1, rs2, k, f)
    BY <1>1, ReadsS, Zenon
  <2>2. InB(encode_b(op, rs1, rs2, k, f), op, rs1, rs2, k, f)
    BY <1>1, ReadsB, Zenon
  <2> QED BY <2>1, <2>2 DEF InS, InB
<1> QED BY <1>2, <1>3

\* The immediates are sets of positions.
LEMMA Immediates ==
  \A c : /\ C32!WordImm(c) \in SUBSET Nat /\ C32!DoubleImm(c) \in SUBSET Nat /\ C32!Addi4Imm(c) \in SUBSET Nat
         /\ C32!Imm6(c) \in SUBSET Nat /\ C32!ShamtImm(c) \in SUBSET Nat /\ C32!SpImm(c) \in SUBSET Nat
         /\ C32!LwspImm(c) \in SUBSET Nat /\ C32!FldspImm(c) \in SUBSET Nat
<1> SUFFICES ASSUME NEW c
             PROVE  /\ C32!WordImm(c) \in SUBSET Nat /\ C32!DoubleImm(c) \in SUBSET Nat
                    /\ C32!Addi4Imm(c) \in SUBSET Nat /\ C32!Imm6(c) \in SUBSET Nat
                    /\ C32!ShamtImm(c) \in SUBSET Nat /\ C32!SpImm(c) \in SUBSET Nat
                    /\ C32!LwspImm(c) \in SUBSET Nat /\ C32!FldspImm(c) \in SUBSET Nat
  OBVIOUS
<1>1. \A lo, hi, at \in Nat : Slice(c, lo, hi, at) \in SUBSET Nat /\ C32!Slice(c, lo, hi, at) = Slice(c, lo, hi, at)
  BY SlicePlace, SameFields
<1>2. \A from \in Nat : C32!Sign(c, from) \in SUBSET Nat
  BY DEF C32!Sign
<1>3. C32!WordImm(c) \in SUBSET Nat /\ C32!DoubleImm(c) \in SUBSET Nat /\ C32!Addi4Imm(c) \in SUBSET Nat
  BY <1>1 DEF C32!WordImm, C32!DoubleImm, C32!Addi4Imm
<1>4. C32!Imm6(c) \in SUBSET Nat /\ C32!ShamtImm(c) \in SUBSET Nat /\ C32!SpImm(c) \in SUBSET Nat
  BY <1>1, <1>2 DEF C32!Imm6, C32!ShamtImm, C32!SpImm
<1>5. C32!LwspImm(c) \in SUBSET Nat /\ C32!FldspImm(c) \in SUBSET Nat
  BY <1>1 DEF C32!LwspImm, C32!FldspImm
<1> QED BY <1>3, <1>4, <1>5

\* Quadrant 0, by funct3.
LEMMA Quadrant0Types ==
  ASSUME NEW c, NEW f
  PROVE  LET w == C32!Quadrant0(c, f)
             v == C64!Quadrant0(c, f)
         IN /\ f = 0 /\ w # {} => v = w /\ Both(w, "ADDI")
            /\ f = 1 => v = w /\ Both(w, "FLD")
            /\ f = 2 => v = w /\ Both(w, "LW")
            /\ f = 3 => Both(w, "FLW") /\ On64(v, "LD")
            /\ f = 4 => w = {}
            /\ f = 5 => v = w /\ Both(w, "UNKNOWN")
            /\ f = 6 => v = w /\ Both(w, "SW")
            /\ f = 7 => Both(w, "FSW") /\ On64(v, "SD")
<1> DEFINE w == C32!Quadrant0(c, f)
           v == C64!Quadrant0(c, f)
           lo == C32!RegLow(c)
           hi == C32!RegHigh(c)
           sp == C32!Sp
           k4 == C32!WordImm(c)
           k8 == C32!DoubleImm(c)
           ki == C32!Addi4Imm(c)
<1>1. lo \in Words(5) /\ hi \in Words(5) /\ sp \in Words(5)
  BY CompressedRegisters
<1>2. k4 \in SUBSET Nat /\ k8 \in SUBSET Nat /\ ki \in SUBSET Nat
  BY Immediates
<1>3. /\ f = 0 => (w = IF ki = {} THEN {} ELSE encode_i(19, lo, sp, ki, 0)) /\ v = w
      /\ f = 1 => w = encode_i(7, lo, hi, k8, 3) /\ v = w
      /\ f = 2 => w = encode_i(3, lo, hi, k4, 2) /\ v = w
      /\ f = 3 => w = encode_i(7, lo, hi, k4, 2) /\ v = encode_i(3, lo, hi, k8, 3)
  BY SameFormats, SameParts, InstanceWidths DEF C32!Quadrant0, C64!Quadrant0
<1>4. /\ f = 4 => w = {}
      /\ f = 5 => w = encode_s(39, hi, lo, k8, 3) /\ v = w
      /\ f = 6 => w = encode_s(35, hi, lo, k4, 2) /\ v = w
      /\ f = 7 => w = encode_s(39, hi, lo, k4, 2) /\ v = encode_s(35, hi, lo, k8, 3)
  BY SameFormats, SameParts, InstanceWidths DEF C32!Quadrant0, C64!Quadrant0
<1> HIDE DEF w, v, lo, hi, sp, k4, k8, ki
<1>5. /\ Coded(encode_i(19, lo, sp, ki, 0), 19, 0) /\ Coded(encode_i(7, lo, hi, k8, 3), 7, 3)
      /\ Coded(encode_i(3, lo, hi, k4, 2), 3, 2) /\ Coded(encode_i(7, lo, hi, k4, 2), 7, 2)
      /\ Coded(encode_i(3, lo, hi, k8, 3), 3, 3)
  BY <1>1, <1>2, CodedAs
<1>6. /\ Coded(encode_s(39, hi, lo, k8, 3), 39, 3) /\ Coded(encode_s(35, hi, lo, k4, 2), 35, 2)
      /\ Coded(encode_s(39, hi, lo, k4, 2), 39, 2) /\ Coded(encode_s(35, hi, lo, k8, 3), 35, 3)
  BY <1>1, CodedAs
<1>7. /\ f = 0 /\ w # {} => v = w /\ Both(w, "ADDI")
      /\ f = 1 => v = w /\ Both(w, "FLD")
      /\ f = 2 => v = w /\ Both(w, "LW")
      /\ f = 3 => Both(w, "FLW") /\ On64(v, "LD")
  BY <1>3, <1>5, TypesCoded
<1>8. /\ f = 4 => w = {}
      /\ f = 5 => v = w /\ Both(w, "UNKNOWN")
      /\ f = 6 => v = w /\ Both(w, "SW")
      /\ f = 7 => Both(w, "FSW") /\ On64(v, "SD")
  BY <1>4, <1>6, TypesCoded
<1> QED BY <1>7, <1>8 DEF w, v

\* The literals of C.SRAI and of the four codes of MiscAlu.
LEMMA SmallBits ==
  Num(3) = {0, 1} /\ Num(32) = {5} /\ Num(33) = {0, 5} /\ Num(35) = {0, 1, 5} /\ Num(39) = {0, 1, 2, 5}
<1> DEFINE P(i) == /\ (3 \div 2^i) % 2 = 1 <=> i \in {0, 1}
                   /\ (32 \div 2^i) % 2 = 1 <=> i \in {5}
                   /\ (33 \div 2^i) % 2 = 1 <=> i \in {0, 5}
                   /\ (35 \div 2^i) % 2 = 1 <=> i \in {0, 1, 5}
                   /\ (39 \div 2^i) % 2 = 1 <=> i \in {0, 1, 2, 5}
<1>1. /\ P(0) /\ P(1) /\ P(2) /\ P(3) /\ P(4) /\ P(5) /\ P(6) /\ P(7) /\ P(8) /\ P(9) /\ P(10)
      /\ P(11) /\ P(12) /\ P(13) /\ P(14) /\ P(15) /\ P(16) /\ P(17) /\ P(18) /\ P(19) /\ P(20)
      /\ P(21) /\ P(22) /\ P(23) /\ P(24) /\ P(25) /\ P(26) /\ P(27) /\ P(28) /\ P(29) /\ P(30)
  BY SMT
<1> HIDE DEF P
<1>2. \A i \in 0..30 : P(i)
  <2> SUFFICES ASSUME NEW i \in 0..30
               PROVE  P(i)
    OBVIOUS
  <2>1. \/ i \in {0, 1, 2, 3, 4, 5, 6, 7, 8, 9, 10} \/ i \in {11, 12, 13, 14, 15, 16, 17, 18, 19, 20}
        \/ i \in {21, 22, 23, 24, 25, 26, 27, 28, 29, 30}
    OBVIOUS
  <2> QED BY <1>1, <2>1
<1> DEFINE IsBits(k, x) == \A i \in 0..30 : (k \div 2^i) % 2 = 1 <=> i \in x
<1>3. ASSUME NEW k, NEW x \in SUBSET (0..30), IsBits(k, x)
      PROVE  Num(k) = x
  <2>1. Num(k) \subseteq 0..30
    BY DEF Num
  <2>2. \A i \in 0..30 : i \in Num(k) <=> i \in x
    BY <1>3, Zenon DEF Num
  <2> QED BY <2>1, <2>2
<1>4. /\ IsBits(3, {0, 1}) /\ IsBits(32, {5}) /\ IsBits(33, {0, 5})
      /\ IsBits(35, {0, 1, 5}) /\ IsBits(39, {0, 1, 2, 5})
  BY <1>2, SMT DEF P
<1> HIDE DEF IsBits
<1> QED BY <1>3, <1>4, SMT

\* The function code of a shift: 32 for the arithmetic one, and one more when
\* bit 5 of the amount is set.
LEMMA ShiftCode ==
  ASSUME NEW c, NEW rd \in Words(5), NEW f \in {1, 5},
         NEW w, w = encode_i(19, rd, rd, C32!ShamtImm(c), f), NEW v, v = w \cup At(Num(32), 25)
  PROVE  /\ Coded(w, 19, f) /\ Field(w, 25, 31) = IF 12 \in c THEN 1 ELSE 0
         /\ Coded(v, 19, f) /\ Field(v, 25, 31) = IF 12 \in c THEN 33 ELSE 32
<1> DEFINE k == C32!ShamtImm(c)
           op == 19
           f7 == 32
<1>1. /\ op \in 0..127 /\ op \in Codes /\ f7 \in 0..127 /\ f \in 0..7 /\ k \in SUBSET Nat
      /\ Num(op) \in Words(7) /\ Num(f) \in Words(3) /\ Val(Num(op)) = op /\ Val(Num(f)) = f
  BY Immediates, Literals DEF Codes
<1>2. \A i \in 5..11 : i \in k <=> i = 5 /\ 12 \in c
  <2> SUFFICES ASSUME NEW i \in 5..11
               PROVE  i \in k <=> i = 5 /\ 12 \in c
    OBVIOUS
  <2> DEFINE S1 == i \in Slice(c, 2, 6, 0)
             S2 == i \in Slice(c, 12, 12, 5)
  <2>1. i \in k <=> S1 \/ S2
    BY SameFields DEF C32!ShamtImm
  <2>2. /\ S1 <=> (i - 0 + 2 \in c /\ i - 0 + 2 \in 2..6)
        /\ S2 <=> (i - 5 + 12 \in c /\ i - 5 + 12 \in 12..12)
    BY SliceBit
  <2> HIDE DEF S1, S2, k
  <2> QED BY <2>1, <2>2
<1> HIDE DEF k, op, f7
<1>3. w = encode_i(op, rd, rd, k, f) /\ v = encode_i(op, rd, rd, k, f) \cup At(Num(f7), 25)
  BY DEF k, op, f7
<1>4. InI(w, op, rd, rd, k, f)
  BY <1>1, <1>3, ReadsI, Zenon
<1>5. /\ Has(v, 0, 7, Num(op)) /\ Has(v, 12, 3, Num(f))
      /\ \A i \in 0..11 : i + 20 \in v <=> i \in k \/ i - 5 \in Num(f7)
  <2> DEFINE u == encode_i(op, rd, rd, k, f) \cup At(Num(f7), 25)
  <2>1. op \in 0..127 /\ f \in 0..7 /\ f7 \in 0..127 /\ k \in SUBSET Nat
    BY <1>1
  <2>2. /\ Has(u, 0, 7, Num(op)) /\ Has(u, 12, 3, Num(f))
        /\ \A i \in 0..11 : i + 20 \in u <=> i \in k \/ i - 5 \in Num(f7)
    BY <2>1, IFormat
  <2> HIDE DEF u
  <2>3. v = u
    BY <1>3 DEF u
  <2> QED BY <2>2, <2>3
<1>6. Coded(w, 19, f)
  BY <1>4 DEF InI, op
<1>7. Coded(v, 19, f)
  BY <1>1, <1>5, FieldsAre DEF Coded, op
<1>8. Field(w, 25, 31) = IF 12 \in c THEN 1 ELSE 0
  <2> DEFINE x == IF 12 \in c THEN {0} ELSE {}
  <2>1. x \in Words(7) /\ Val(x) = IF 12 \in c THEN 1 ELSE 0
    <3>1. Val({}) = 0 /\ Val({0}) = 1
      BY FixedBits, Functs12, SMT
    <3> QED BY <3>1 DEF Words, Bits
  <2>2. ASSUME NEW i \in 0..6 PROVE i + 25 \in w <=> i \in x
    <3>1. i + 5 \in 5..11 /\ i + 5 \in Bits(12) /\ (i + 5) + 20 = i + 25
      BY DEF Bits
    <3>2. (i + 5) + 20 \in w <=> i + 5 \in k
      BY <1>4, <3>1 DEF InI, Has
    <3>3. i + 5 \in k <=> i + 5 = 5 /\ 12 \in c
      BY <1>2, <3>1
    <3> QED BY <3>1, <3>2, <3>3
  <2>3. Has(w, 25, 7, x)
    BY <2>2 DEF Has, Bits
  <2> HIDE DEF x
  <2>4. Field(w, 25, 31) = Val(x)
    BY <2>1, <2>3, FieldsAre
  <2> QED BY <2>1, <2>4
<1>9. Field(v, 25, 31) = IF 12 \in c THEN 33 ELSE 32
  <2> DEFINE n == IF 12 \in c THEN 33 ELSE 32
  <2>1. Num(n) = IF 12 \in c THEN {0, 5} ELSE {5}
    BY SmallBits
  <2>2. n \in 0..127 /\ Num(f7) = {5}
    BY SmallBits DEF f7
  <2>3. Num(n) \in Words(7) /\ Val(Num(n)) = n
    BY <2>2, Literals
  <2>4. ASSUME NEW i \in 0..6 PROVE i + 25 \in v <=> i \in Num(n)
    <3>1. i + 5 \in 5..11 /\ i + 5 \in 0..11 /\ (i + 5) + 20 = i + 25 /\ (i + 5) - 5 = i
      OBVIOUS
    <3>2. (i + 5) + 20 \in v <=> i + 5 \in k \/ (i + 5) - 5 \in Num(f7)
      BY <1>5, <3>1
    <3>3. i + 5 \in k <=> i + 5 = 5 /\ 12 \in c
      BY <1>2, <3>1
    <3> QED BY <2>1, <2>2, <3>1, <3>2, <3>3
  <2>5. Has(v, 25, 7, Num(n))
    BY <2>4 DEF Has, Bits
  <2> HIDE DEF n
  <2>6. Field(v, 25, 31) = Val(Num(n))
    BY <2>3, <2>5, FieldsAre
  <2> QED BY <2>3, <2>6 DEF n
<1> QED BY <1>6, <1>7, <1>8, <1>9

\* Two and three bits of a 16-bit word, as the code tells them apart.
LEMMA AluFields ==
  ASSUME NEW c
  PROVE  /\ Field(c, 10, 11) = (IF 10 \in c THEN 1 ELSE 0) + (IF 11 \in c THEN 2 ELSE 0)
         /\ Field(c, 13, 15) = 4 => 15 \in c /\ 14 \notin c /\ 13 \notin c
         /\ {10, 11, 15} \subseteq c /\ 14 \notin c /\ 13 \notin c
              => Field(c, 10, 15) = IF 12 \in c THEN 39 ELSE 35
         /\ Field(c, 10, 15) \in {35, 39, 43, 47} => 10 \in c /\ 11 \in c
<1>1. Field(c, 10, 11) = (IF 10 \in c THEN 1 ELSE 0) + (IF 11 \in c THEN 2 ELSE 0)
  <2> DEFINE n == (IF 10 \in c THEN 1 ELSE 0) + (IF 11 \in c THEN 2 ELSE 0)
  <2>1. n \in 0..7
    OBVIOUS
  <2>2. Num(0) = {} /\ Num(1) = {0} /\ Num(2) = {1} /\ Num(3) = {0, 1}
    BY NumLiterals, FixedBits, SmallBits, SMT
  <2>3. \A i \in 0..1 : i \in Num(n) <=> i + 10 \in c
    BY <2>2
  <2>4. Num(n) \in Words(2)
    BY <2>2 DEF Words, Bits
  <2>5. Has(c, 10, 2, Num(n))
    BY <2>3 DEF Has, Bits
  <2>6. Val(Num(n)) = n
    BY <2>1, Literals
  <2> HIDE DEF n
  <2> QED BY <2>4, <2>5, <2>6, HalfwordFieldsAre DEF n
<1>2. Field(c, 13, 15) = 4 => 15 \in c /\ 14 \notin c /\ 13 \notin c
  <2> SUFFICES ASSUME Field(c, 13, 15) = 4
               PROVE  15 \in c /\ 14 \notin c /\ 13 \notin c
    OBVIOUS
  <2> DEFINE x == Slice(c, 13, 15, 0)
  <2>1. x \in Words(3) /\ \A i \in Bits(3) : i \in x <=> i + 13 \in c
    BY SliceIsWord
  <2>2. Num(4) = {2} /\ Num(4) \in Words(3) /\ Val(Num(4)) = 4
    BY NumLiterals, Literals
  <2>3. Val(x) = Val(Num(4))
    BY <2>2 DEF Field
  <2> HIDE DEF x
  <2>4. x = Num(4)
    BY <2>1, <2>2, <2>3, ValInjective
  <2> QED BY <2>1, <2>2, <2>4 DEF Bits
<1>3. ASSUME {10, 11, 15} \subseteq c, 14 \notin c, 13 \notin c
      PROVE  Field(c, 10, 15) = IF 12 \in c THEN 39 ELSE 35
  <2> DEFINE n == IF 12 \in c THEN 39 ELSE 35
  <2>1. Num(n) = IF 12 \in c THEN {0, 1, 2, 5} ELSE {0, 1, 5}
    BY SmallBits
  <2>2. Num(n) \in Words(6)
    BY <2>1 DEF Words, Bits
  <2>3. Has(c, 10, 6, Num(n))
    BY <1>3, <2>1 DEF Has, Bits
  <2>4. Val(Num(n)) = n
    BY Literals
  <2> HIDE DEF n
  <2> QED BY <2>2, <2>3, <2>4, HalfwordFieldsAre DEF n
<1>4. Field(c, 10, 15) \in {35, 39, 43, 47} => 10 \in c /\ 11 \in c
  <2> SUFFICES ASSUME NEW n \in {35, 39, 43, 47}, Field(c, 10, 15) = n
               PROVE  10 \in c /\ 11 \in c
    OBVIOUS
  <2> DEFINE x == Slice(c, 10, 15, 0)
  <2>1. x \in Words(6) /\ \A i \in Bits(6) : i \in x <=> i + 10 \in c
    BY SliceIsWord
  <2>2. Num(n) \in Words(7) /\ Val(Num(n)) = n /\ n \in 0..127
    BY Literals
  <2>3. (n \div 2^0) % 2 = 1 /\ (n \div 2^1) % 2 = 1
    BY SMT
  <2>4. 0 \in Num(n) /\ 1 \in Num(n)
    <3>1. 0 \in 0..30 /\ 1 \in 0..30
      OBVIOUS
    <3> QED BY <2>3, <3>1, Zenon DEF Num
  <2>5. x \in Words(7) /\ Val(x) = Val(Num(n))
    BY <2>1, <2>2 DEF Field, Words, Bits
  <2> HIDE DEF x
  <2>6. x = Num(n)
    BY <2>2, <2>5, ValInjective
  <2> QED BY <2>1, <2>4, <2>6 DEF Bits
<1> QED BY <1>1, <1>2, <1>3, <1>4

\* The instructions that funct7 or the opcode alone tells apart.
LEMMA TypesByCode ==
  ASSUME NEW w
  PROVE  /\ Coded(w, 19, 1) => Both(w, IF Field(w, 25, 31) = 0 THEN "SLLI" ELSE "UNKNOWN")
         /\ Coded(w, 19, 5) => Both(w, IF Field(w, 25, 31) = 0 THEN "SRLI"
                                       ELSE IF Field(w, 25, 31) = 32 THEN "SRAI" ELSE "UNKNOWN")
         /\ Coded(w, 51, 0) /\ Field(w, 25, 31) = 0 => Both(w, "ADD")
         /\ Coded(w, 51, 0) /\ Field(w, 25, 31) = 32 => Both(w, "SUB")
         /\ Coded(w, 51, 4) /\ Field(w, 25, 31) = 0 => Both(w, "XOR")
         /\ Coded(w, 115, 0) /\ Field(w, 20, 31) = 1 => Both(w, "EBREAK")
         /\ Field(w, 0, 6) = 111 => Both(w, "JAL")
         /\ Field(w, 0, 6) = 55 => Both(w, "LUI")
BY TypesOf DEF Coded

\* Words of the register format.
LEMMA CodedAsR ==
  ASSUME NEW f \in 0..7, NEW g \in {0, 32}, NEW rd \in Words(5), NEW rs1 \in Words(5), NEW rs2 \in Words(5),
         NEW w, w = encode_r(51, rd, rs1, rs2, f, g)
  PROVE  Coded(w, 51, f) /\ Field(w, 25, 31) = g
<1> DEFINE op == 51
<1>1. op \in Codes /\ g \in Codes
  BY DEF Codes
<1>2. w = encode_r(op, rd, rs1, rs2, f, g)
  BY DEF op
<1> HIDE DEF op
<1>3. InR(w, op, rd, rs1, rs2, f, g)
  BY <1>1, <1>2, ReadsR, Zenon
<1> QED BY <1>3 DEF InR, op

\* C.SRLI .. C.AND.
LEMMA MiscAluTypes ==
  ASSUME NEW c, Field(c, 13, 15) = 4
  PROVE  LET w == C32!MiscAlu(c)
         IN /\ C64!MiscAlu(c) = w
            /\ 11 \notin c => Both(w, IF 12 \in c THEN "UNKNOWN" ELSE IF 10 \in c THEN "SRAI" ELSE "SRLI")
            /\ 11 \in c /\ 10 \notin c => Both(w, "ANDI")
            /\ 11 \in c /\ 10 \in c => Both(w, IF 12 \in c THEN "XOR" ELSE "SUB")
<1> DEFINE w == C32!MiscAlu(c)
           hi == C32!RegHigh(c)
           lo == C32!RegLow(c)
           ks == C32!ShamtImm(c)
           k6 == C32!Imm6(c)
           f2 == Field(c, 10, 11)
           f6 == Field(c, 10, 15)
           M == CASE f2 = 0 -> encode_i(19, hi, hi, ks, 5)
                  [] f2 = 1 -> encode_i(19, hi, hi, ks, 5) \cup At(Num(32), 25)
                  [] f2 = 2 -> encode_i(19, hi, hi, k6, 7)
                  [] f6 = 35 -> encode_r(51, hi, hi, lo, 0, 32)
                  [] f6 = 39 -> encode_r(51, hi, hi, lo, 4, 0)
                  [] f6 = 43 -> encode_r(51, hi, hi, lo, 6, 0)
                  [] f6 = 47 -> encode_r(51, hi, hi, lo, 7, 0)
<1>1. w = M
  BY SameFields, SameFormats DEF C32!MiscAlu
<1>2. C64!MiscAlu(c) = M
  BY SameFields, SameFormats, SameParts DEF C64!MiscAlu
<1>3. hi \in Words(5) /\ lo \in Words(5) /\ k6 \in SUBSET Nat
  BY CompressedRegisters, Immediates
<1>4. /\ f2 = (IF 10 \in c THEN 1 ELSE 0) + (IF 11 \in c THEN 2 ELSE 0)
      /\ 10 \in c /\ 11 \in c => f6 = IF 12 \in c THEN 39 ELSE 35
      /\ f6 \in {35, 39, 43, 47} => f2 = 3
  BY AluFields
<1> DEFINE a == encode_i(19, hi, hi, ks, 5)
           b == encode_i(19, hi, hi, ks, 5) \cup At(Num(32), 25)
<1>5. /\ Coded(a, 19, 5) /\ Field(a, 25, 31) = IF 12 \in c THEN 1 ELSE 0
      /\ Coded(b, 19, 5) /\ Field(b, 25, 31) = IF 12 \in c THEN 33 ELSE 32
  BY <1>3, ShiftCode
<1>6. Coded(encode_i(19, hi, hi, k6, 7), 19, 7)
  BY <1>3, CodedAs
<1>7. /\ Coded(encode_r(51, hi, hi, lo, 0, 32), 51, 0) /\ Field(encode_r(51, hi, hi, lo, 0, 32), 25, 31) = 32
      /\ Coded(encode_r(51, hi, hi, lo, 4, 0), 51, 4) /\ Field(encode_r(51, hi, hi, lo, 4, 0), 25, 31) = 0
  BY <1>3, CodedAsR
<1> DEFINE n == encode_i(19, hi, hi, k6, 7)
<1> HIDE DEF w, a, b, n
<1>b. (f2 = 0 => w = a) /\ (f2 = 1 => w = b) /\ (f2 = 2 => w = n)
  BY <1>1, <1>4 DEF a, b, n
<1> HIDE DEF hi, lo, ks, k6, f2, f6
<1>8. ASSUME 11 \notin c
      PROVE  Both(w, IF 12 \in c THEN "UNKNOWN" ELSE IF 10 \in c THEN "SRAI" ELSE "SRLI")
  <2>1. (10 \notin c => f2 = 0) /\ (10 \in c => f2 = 1)
    BY <1>4, <1>8
  <2>2. (10 \notin c => w = a) /\ (10 \in c => w = b)
    BY <1>b, <2>1
  <2> QED BY <1>5, <2>2, TypesByCode
<1>9. ASSUME 11 \in c, 10 \notin c PROVE Both(w, "ANDI")
  <2>1. f2 = 2
    BY <1>4, <1>9
  <2>2. w = n
    BY <1>b, <2>1
  <2> QED BY <1>6, <2>2, TypesCoded DEF n
<1>10. ASSUME 11 \in c, 10 \in c PROVE Both(w, IF 12 \in c THEN "XOR" ELSE "SUB")
  <2>1. w = IF 12 \in c THEN encode_r(51, hi, hi, lo, 4, 0) ELSE encode_r(51, hi, hi, lo, 0, 32)
    BY <1>1, <1>4, <1>10
  <2> QED BY <1>7, <2>1, TypesByCode
<1> QED BY <1>1, <1>2, <1>8, <1>9, <1>10 DEF w

\* Quadrant 1, by funct3.
LEMMA Quadrant1Types ==
  ASSUME NEW c, NEW f, f = Field(c, 13, 15)
  PROVE  LET w == C32!Quadrant1(c, f)
         IN /\ f \in 0..7 => C64!Quadrant1(c, f) = w
            /\ f \in {0, 2} => Both(w, "ADDI")
            /\ f \in {1, 5} => Both(w, "JAL")
            /\ f = 3 => Both(w, IF C32!Rd(c) = {1} THEN "ADDI" ELSE "LUI")
            /\ f = 4 => w = C32!MiscAlu(c)
            /\ f = 6 => Both(w, "BEQ")
            /\ f = 7 => Both(w, "BNE")
<1> DEFINE w == C32!Quadrant1(c, f)
           v == C64!Quadrant1(c, f)
           rd == C32!Rd(c)
           hi == C32!RegHigh(c)
           k6 == C32!Imm6(c)
           kb == C32!BImm(c)
           kj == C32!JImm(c)
           ks == C32!SpImm(c)
           lui == encode_u(55, rd, At(k6, 12))
<1>1. /\ rd \in Words(5) /\ hi \in Words(5) /\ {} \in Words(5) /\ {0} \in Words(5) /\ {1} \in Words(5)
      /\ k6 \in SUBSET Nat /\ ks \in SUBSET Nat
  BY CompressedRegisters, Immediates DEF Words, Bits
<1>2. /\ f = 0 => w = encode_i(19, rd, rd, k6, 0) /\ v = w
      /\ f = 1 => w = encode_j(111, {0}, kj) /\ v = w
      /\ f = 2 => w = encode_i(19, rd, {}, k6, 0) /\ v = w
      /\ f = 3 => (w = IF rd = {1} THEN encode_i(19, {1}, {1}, ks, 0) ELSE lui) /\ v = w
  BY SameFormats, SameParts DEF C32!Quadrant1, C64!Quadrant1, C32!Ra, C32!Sp, C32!Zero
<1>3. /\ f = 4 => w = C32!MiscAlu(c) /\ v = C64!MiscAlu(c)
      /\ f = 5 => w = encode_j(111, {}, kj) /\ v = w
      /\ f = 6 => w = encode_b(99, hi, {}, kb, 0) /\ v = w
      /\ f = 7 => w = encode_b(99, hi, {}, kb, 1) /\ v = w
  BY SameFormats, SameParts DEF C32!Quadrant1, C64!Quadrant1, C32!Zero
<1> HIDE DEF w, v, rd, hi, k6, kb, kj, ks
<1>4. /\ Coded(encode_i(19, rd, rd, k6, 0), 19, 0) /\ Coded(encode_i(19, rd, {}, k6, 0), 19, 0)
      /\ Coded(encode_i(19, {1}, {1}, ks, 0), 19, 0)
  BY <1>1, CodedAs
<1>5. Coded(encode_b(99, hi, {}, kb, 0), 99, 0) /\ Coded(encode_b(99, hi, {}, kb, 1), 99, 1)
  BY <1>1, CodedAs
<1>6. Field(encode_j(111, {0}, kj), 0, 6) = 111 /\ Field(encode_j(111, {}, kj), 0, 6) = 111
      /\ Field(lui, 0, 6) = 55
  <2> DEFINE j == 111
             u == 55
  <2>1. j \in Codes /\ u \in Codes
    BY DEF Codes
  <2> HIDE DEF j, u
  <2>2. \A op \in Codes : \A r \in Words(5) : \A k : /\ Field(encode_j(op, r, k), 0, 6) = op
                                                  /\ Field(encode_u(op, r, k), 0, 6) = op
    BY ReadsOpcode
  <2>3. Field(encode_j(j, {0}, kj), 0, 6) = j /\ Field(encode_j(j, {}, kj), 0, 6) = j
        /\ Field(encode_u(u, rd, At(k6, 12)), 0, 6) = u
    BY <1>1, <2>1, <2>2
  <2> QED BY <2>3 DEF j, u
<1> HIDE DEF lui
<1>7. /\ f \in {0, 2} => Both(w, "ADDI")
      /\ f = 3 => Both(w, IF rd = {1} THEN "ADDI" ELSE "LUI")
  BY <1>2, <1>4, <1>6, TypesCoded, TypesByCode
<1>8. /\ f \in {1, 5} => Both(w, "JAL")
      /\ f = 6 => Both(w, "BEQ")
      /\ f = 7 => Both(w, "BNE")
  BY <1>2, <1>3, <1>5, <1>6, TypesCoded, TypesByCode
<1>9. f \in 0..7 => v = w
  <2>1. f = 4 => C64!MiscAlu(c) = C32!MiscAlu(c)
    BY MiscAluTypes
  <2>2. f \in 0..7 => f \in {0, 1, 2, 3, 4, 5, 6, 7}
    OBVIOUS
  <2> QED BY <1>2, <1>3, <2>1, <2>2
<1> QED BY <1>3, <1>7, <1>8, <1>9 DEF w, v, rd

\* The word of ebreak.
LEMMA EbreakWord == ASSUME NEW w, w = {0, 1, 4, 5, 6, 20} PROVE Both(w, "EBREAK")
<1>1. Num(115) = {0, 1, 4, 5, 6} /\ Num(1) = {0}
  BY FixedBits, SMT
<1>2. Has(w, 0, 7, Num(115)) /\ Has(w, 12, 3, {}) /\ Has(w, 20, 12, Num(1))
  BY <1>1 DEF Has, Bits
<1>3. /\ Num(115) \in Words(7) /\ {} \in Words(3) /\ Num(1) \in Words(12)
      /\ Val(Num(115)) = 115 /\ Val({}) = 0 /\ Val(Num(1)) = 1
  BY <1>1, Literals, ZeroIsWord, ZeroIsZero DEF Words, Bits
<1>4. Field(w, 0, 6) = 115 /\ Field(w, 12, 14) = 0 /\ Field(w, 20, 31) = 1
  BY <1>2, <1>3, FieldsAre
<1> QED BY <1>4, TypesByCode DEF Coded

\* C.JR, C.MV, C.EBREAK, C.JALR and C.ADD, with their registers.
Jumps16(c, w) ==
  LET rd   == Field(c, 7, 11)
      none == C32!Rs2(c) = {}
      full == 12 \in c
      brk  == full /\ C32!Rd(c) = {}
  IN /\ ~none => /\ Both(w, "ADD") /\ Field(w, 7, 11) = rd
                 /\ Field(w, 15, 19) = (IF full THEN rd ELSE 0) /\ Field(w, 20, 24) = Field(c, 2, 6)
     /\ none /\ brk => Both(w, "EBREAK")
     /\ none /\ ~brk => /\ Both(w, "JALR") /\ Field(w, 15, 19) = rd
                        /\ Field(w, 7, 11) = IF full THEN 1 ELSE 0
LEMMA JumpOrAddTypes ==
  ASSUME NEW c
  PROVE  C64!JumpOrAdd(c) = C32!JumpOrAdd(c) /\ Jumps16(c, C32!JumpOrAdd(c))
<1> DEFINE w == C32!JumpOrAdd(c)
           v == C64!JumpOrAdd(c)
           rd == C32!Rd(c)
           rs2 == C32!Rs2(c)
           from == IF 12 \in c THEN rd ELSE {}
           to == IF 12 \in c THEN {0} ELSE {}
           add == encode_r(51, rd, from, rs2, 0, 0)
           jalr == encode_i(103, to, rd, {}, 0)
           brk == Num(1048691)
<1>1. rd \in Words(5) /\ rs2 \in Words(5) /\ from \in Words(5) /\ to \in Words(5) /\ {} \in SUBSET Nat
  BY CompressedRegisters DEF Words, Bits
<1>2. C32!Zero = {} /\ C32!Ra = {0} /\ C64!Zero = {} /\ C64!Ra = {0} /\ C64!Rd(c) = rd /\ C64!Rs2(c) = rs2
  BY SameParts DEF C32!Zero, C32!Ra
<1>3. /\ C32!encode_r(51, rd, from, rs2, 0, 0) = add /\ C64!encode_r(51, rd, from, rs2, 0, 0) = add
      /\ C32!encode_i(103, to, rd, {}, 0) = jalr /\ C64!encode_i(103, to, rd, {}, 0) = jalr
      /\ C32!Num(1048691) = brk /\ C64!Num(1048691) = brk
  BY SameFormats, SMT
<1> DEFINE M == CASE rs2 # {} -> add [] rs2 = {} /\ 12 \in c /\ rd = {} -> brk [] OTHER -> jalr
<1>4. w = M
  BY <1>2, <1>3, SMT DEF C32!JumpOrAdd
<1>5. v = M
  BY <1>2, <1>3, SMT DEF C64!JumpOrAdd
<1>6. /\ rs2 # {} => M = add
      /\ rs2 = {} /\ 12 \in c /\ rd = {} => M = brk
      /\ rs2 = {} /\ ~(12 \in c /\ rd = {}) => M = jalr
  BY SMT
<1>7. brk = {0, 1, 4, 5, 6, 20}
  BY FixedBits, SMT
<1>8. /\ Val(rd) = Field(c, 7, 11) /\ Val(rs2) = Field(c, 2, 6)
      /\ Val(from) = (IF 12 \in c THEN Field(c, 7, 11) ELSE 0) /\ Val(to) = IF 12 \in c THEN 1 ELSE 0
  <2>1. Val({}) = 0 /\ Val({0}) = 1
    <3>1. 2^0 = 1
      OBVIOUS
    <3> QED BY <3>1, ValPower, ZeroIsZero
  <2>2. rd = Slice(c, 7, 11, 0) /\ rs2 = Slice(c, 2, 6, 0)
    BY SameFields DEF C32!Rd, C32!Rs2
  <2> QED BY <2>1, <2>2 DEF Field
<1> HIDE DEF w, v, M, rd, rs2, from, to, brk
<1> DEFINE op == 51
           jump == 103
           zero == 0
<1>9. InR(add, op, rd, from, rs2, zero, zero) /\ InI(jalr, jump, to, rd, {}, zero)
  <2>1. op \in Codes /\ jump \in Codes /\ zero \in Codes /\ zero \in 0..7
    BY DEF Codes
  <2>2. add = encode_r(op, rd, from, rs2, zero, zero) /\ jalr = encode_i(jump, to, rd, {}, zero)
    OBVIOUS
  <2> HIDE DEF op, jump, zero, add, jalr
  <2>3. InR(add, op, rd, from, rs2, zero, zero)
    BY <1>1, <2>1, <2>2, ReadsR, Zenon
  <2>4. InI(jalr, jump, to, rd, {}, zero)
    BY <1>1, <2>1, <2>2, ReadsI, Zenon
  <2> QED BY <2>3, <2>4
<1> HIDE DEF add, jalr
<1>10. Both(add, "ADD") /\ Both(jalr, "JALR") /\ Both(brk, "EBREAK")
  <2>1. Coded(add, 51, 0) /\ Field(add, 25, 31) = 0 /\ Coded(jalr, 103, 0)
    BY <1>9 DEF InR, InI
  <2> QED BY <1>7, <2>1, TypesByCode, TypesCoded, EbreakWord
<1>11. /\ Field(add, 7, 11) = Val(rd) /\ Field(add, 15, 19) = Val(from) /\ Field(add, 20, 24) = Val(rs2)
       /\ Field(jalr, 7, 11) = Val(to) /\ Field(jalr, 15, 19) = Val(rd)
  BY <1>9 DEF InR, InI
<1>12. Jumps16(c, w)
  BY <1>4, <1>6, <1>8, <1>10, <1>11 DEF Jumps16, rd, rs2
<1> QED BY <1>4, <1>5, <1>12 DEF w, v

\* Quadrant 2, by funct3.
LEMMA Quadrant2Types ==
  ASSUME NEW c, NEW f
  PROVE  LET w == C32!Quadrant2(c, f)
         IN /\ f \in 0..7 => C64!Quadrant2(c, f) = w
            /\ f = 0 /\ w # {} => Both(w, IF 12 \in c THEN "UNKNOWN" ELSE "SLLI")
            /\ f = 1 => Both(w, "FLD")
            /\ f = 2 /\ w # {} => Both(w, "LW")
            /\ f = 3 => Both(w, "FLW")
            /\ f = 4 => Jumps16(c, w)
            /\ f = 5 => Both(w, "UNKNOWN")
            /\ f = 6 => Both(w, "SW")
            /\ f = 7 => Both(w, "FSW")
<1> DEFINE w == C32!Quadrant2(c, f)
           v == C64!Quadrant2(c, f)
           rd == C32!Rd(c)
           rs2 == C32!Rs2(c)
           kw == C32!LwspImm(c)
           kd == C32!FldspImm(c)
           ks == C32!ShamtImm(c)
           sw == C32!SwspImm(c)
           sd == C32!FsdspImm(c)
<1>1. rd \in Words(5) /\ rs2 \in Words(5) /\ {1} \in Words(5) /\ kw \in SUBSET Nat /\ kd \in SUBSET Nat
  BY CompressedRegisters, Immediates DEF Words, Bits
<1>2. /\ f = 0 => (w = IF rd = {} THEN {} ELSE encode_i(19, rd, rd, ks, 1)) /\ v = w
      /\ f = 1 => w = encode_i(7, rd, {1}, kd, 3) /\ v = w
      /\ f = 2 => (w = IF rd = {} THEN {} ELSE encode_i(3, rd, {1}, kw, 2)) /\ v = w
      /\ f = 3 => w = encode_i(7, rd, {1}, kw, 2) /\ v = w
  BY SameFormats, SameParts DEF C32!Quadrant2, C64!Quadrant2, C32!Sp
<1>3. /\ f = 4 => w = C32!JumpOrAdd(c) /\ v = C64!JumpOrAdd(c)
      /\ f = 5 => w = encode_s(39, {1}, rs2, sd, 3) /\ v = w
      /\ f = 6 => w = encode_s(35, {1}, rs2, sw, 2) /\ v = w
      /\ f = 7 => w = encode_s(39, {1}, rs2, sw, 2) /\ v = w
  BY SameFormats, SameParts DEF C32!Quadrant2, C64!Quadrant2, C32!Sp
<1> DEFINE slli == encode_i(19, rd, rd, ks, 1)
<1>4. Coded(slli, 19, 1) /\ Field(slli, 25, 31) = IF 12 \in c THEN 1 ELSE 0
  <2>1. rd \in Words(5)
    BY <1>1
  <2> HIDE DEF rd
  <2>2. 1 \in {1, 5}
    OBVIOUS
  <2>3. ASSUME NEW a, a = slli, NEW b, b = a \cup At(Num(32), 25)
        PROVE  Coded(a, 19, 1) /\ Field(a, 25, 31) = IF 12 \in c THEN 1 ELSE 0
    BY <2>1, <2>2, <2>3, ShiftCode
  <2> QED BY <2>3
<1> HIDE DEF w, v, rd, rs2, kw, kd, ks, sw, sd
<1>5. /\ Coded(encode_i(7, rd, {1}, kd, 3), 7, 3) /\ Coded(encode_i(3, rd, {1}, kw, 2), 3, 2)
      /\ Coded(encode_i(7, rd, {1}, kw, 2), 7, 2)
  BY <1>1, CodedAs
<1>6. /\ Coded(encode_s(39, {1}, rs2, sd, 3), 39, 3) /\ Coded(encode_s(35, {1}, rs2, sw, 2), 35, 2)
      /\ Coded(encode_s(39, {1}, rs2, sw, 2), 39, 2)
  BY <1>1, CodedAs
<1>7. Both(slli, IF 12 \in c THEN "UNKNOWN" ELSE "SLLI")
  <2> HIDE DEF slli
  <2> QED BY <1>4, TypesByCode
<1>8. /\ f = 0 /\ w # {} => Both(w, IF 12 \in c THEN "UNKNOWN" ELSE "SLLI")
      /\ f = 1 => Both(w, "FLD")
      /\ f = 2 /\ w # {} => Both(w, "LW")
      /\ f = 3 => Both(w, "FLW")
  BY <1>2, <1>5, <1>7, TypesCoded
<1>9. /\ f = 5 => Both(w, "UNKNOWN")
      /\ f = 6 => Both(w, "SW")
      /\ f = 7 => Both(w, "FSW")
  BY <1>3, <1>6, TypesCoded
<1>10. f = 4 => v = w /\ Jumps16(c, w)
  BY <1>3, JumpOrAddTypes
<1>11. f \in 0..7 => v = w
  <2>1. f \in 0..7 => f \in {0, 1, 2, 3, 4, 5, 6, 7}
    OBVIOUS
  <2> QED BY <1>2, <1>3, <1>10, <2>1
<1> QED BY <1>8, <1>9, <1>10, <1>11 DEF w, v

\* The quadrant and funct3 of a 16-bit word.
LEMMA GroupsAre ==
  ASSUME NEW c, ~({0, 1} \subseteq c)
  PROVE  /\ Field(c, 0, 1) \in {0, 1, 2} /\ Field(c, 13, 15) \in 0..7
         /\ Field(c, 0, 1) = 2 => 1 \in c /\ 0 \notin c
<1> DEFINE x == Slice(c, 0, 1, 0)
           y == Slice(c, 13, 15, 0)
<1>1. x \in Words(2) /\ \A i \in Bits(2) : i \in x <=> i + 0 \in c
  BY SliceIsWord
<1>2. y \in Words(3)
  <2>1. 13 \in Nat /\ 15 \in Nat /\ 3 \in Nat /\ 3 = 15 - 13 + 1
    OBVIOUS
  <2> QED BY <2>1, SliceIsWord
<1> HIDE DEF x, y
<1>3. x = {} \/ x = {0} \/ x = {1}
  <2>1. x \subseteq {0, 1} /\ ~(0 \in x /\ 1 \in x)
    BY <1>1 DEF Words, Bits
  <2> QED BY <2>1
<1>4. Val({}) = 0 /\ Val({0}) = 1 /\ Val({1}) = 2 /\ Val({3}) = 8
  <2>1. 2^0 = 1 /\ 2^1 = 2 /\ 2^3 = 8
    OBVIOUS
  <2> QED BY <2>1, ValPower, ZeroIsZero
<1>5. Val(y) \in 0..7
  <2>1. Val(y) \in Nat /\ Val(y) < Val({3})
    BY <1>2, ValRange
  <2> QED BY <1>4, <2>1
<1>6. x = {1} => 1 \in c /\ 0 \notin c
  BY <1>1 DEF Bits
<1> QED BY <1>3, <1>4, <1>5, <1>6 DEF Field, x, y

\* The names of the expansions, by quadrant and funct3.
LEMMA Names ==
  ASSUME NEW rv64 \in BOOLEAN
  PROVE  LET N == NamedExpansion(rv64)
             f == Funct3
         IN /\ Quadrant = 0 =>
                 /\ (f = 0 => N = "ADDI") /\ (f = 1 => N = "FLD") /\ (f = 2 => N = "LW")
                 /\ f = 3 => N = IF rv64 THEN "LD" ELSE "FLW"
                 /\ f = 6 => N = "SW"
                 /\ f = 7 => N = IF rv64 THEN "SD" ELSE "FSW"
            /\ Quadrant = 1 =>
                 /\ (f \in {0, 2} => N = "ADDI") /\ (f \in {1, 5} => N = "JAL")
                 /\ f = 3 => N = IF C32!Rd(source.c) = {1} THEN "ADDI" ELSE "LUI"
                 /\ f = 4 /\ 11 \notin source.c => N = IF 10 \in source.c THEN "SRAI" ELSE "SRLI"
                 /\ f = 4 /\ 11 \in source.c => N = IF 10 \in source.c THEN "SUB" ELSE "ANDI"
                 /\ (f = 6 => N = "BEQ") /\ (f = 7 => N = "BNE")
            /\ Quadrant = 2 =>
                 /\ (f = 0 => N = "SLLI") /\ (f = 1 => N = "FLD") /\ (f = 2 => N = "LW") /\ (f = 3 => N = "FLW")
                 /\ (f = 6 => N = "SW") /\ (f = 7 => N = "FSW")
                 /\ f = 4 => N = IF C32!Rs2(source.c) # {} THEN "ADD"
                                 ELSE IF source.c = {1, 12, 15} THEN "EBREAK" ELSE "JALR"
<1> DEFINE N == NamedExpansion(rv64)
           q == Quadrant
           f == Funct3
<1>1. q = 0 => /\ (f = 0 => N = "ADDI") /\ (f = 1 => N = "FLD") /\ (f = 2 => N = "LW") /\ (f = 6 => N = "SW")
  BY DEF NamedExpansion, JumpOrAdd, Fsd, Group
<1>2. q = 0 => /\ f = 3 => N = IF rv64 THEN "LD" ELSE "FLW"
               /\ f = 7 => N = IF rv64 THEN "SD" ELSE "FSW"
  BY DEF NamedExpansion, JumpOrAdd, Fsd, Group
<1>3. q = 1 => /\ (f = 0 => N = "ADDI") /\ (f = 1 => N = "JAL") /\ (f = 2 => N = "ADDI")
  BY DEF NamedExpansion, JumpOrAdd, Fsd, Group
<1>4. q = 1 /\ f = 3 => N = IF C32!Rd(source.c) = {1} THEN "ADDI" ELSE "LUI"
  BY DEF NamedExpansion, JumpOrAdd, Fsd, Group
<1>5. q = 1 /\ f = 4 => /\ 11 \notin source.c => N = IF 10 \in source.c THEN "SRAI" ELSE "SRLI"
                        /\ 11 \in source.c => N = IF 10 \in source.c THEN "SUB" ELSE "ANDI"
  BY DEF NamedExpansion, JumpOrAdd, Fsd, Group
<1>6. q = 1 /\ f = 5 => N = "JAL"
  BY DEF NamedExpansion, JumpOrAdd, Fsd, Group
<1>7. q = 1 /\ f = 6 => N = "BEQ"
  BY DEF NamedExpansion, JumpOrAdd, Fsd, Group
<1>8. q = 1 /\ f = 7 => N = "BNE"
  BY DEF NamedExpansion, JumpOrAdd, Fsd, Group
<1>9. q = 2 /\ f = 0 => N = "SLLI"
  BY DEF NamedExpansion, JumpOrAdd, Fsd, Group
<1>10. q = 2 /\ f = 1 => N = "FLD"
  BY DEF NamedExpansion, JumpOrAdd, Fsd, Group
<1>11. q = 2 /\ f = 2 => N = "LW"
  BY DEF NamedExpansion, JumpOrAdd, Fsd, Group
<1>12. q = 2 /\ f = 3 => N = "FLW"
  BY DEF NamedExpansion, JumpOrAdd, Fsd, Group
<1>13. q = 2 /\ f = 6 => N = "SW"
  BY DEF NamedExpansion, JumpOrAdd, Fsd, Group
<1>14. q = 2 /\ f = 7 => N = "FSW"
  BY DEF NamedExpansion, JumpOrAdd, Fsd, Group
<1>15. q = 2 /\ f = 4 => N = IF C32!Rs2(source.c) # {} THEN "ADD"
                            ELSE IF source.c = {1, 12, 15} THEN "EBREAK" ELSE "JALR"
  BY DEF NamedExpansion, JumpOrAdd, Fsd, Group
<1> HIDE DEF N, q, f
<1> QED BY <1>1, <1>2, <1>3, <1>4, <1>5, <1>6, <1>7, <1>8, <1>9, <1>10, <1>11, <1>12, <1>13, <1>14, <1>15 DEF N, q, f

\* The word of C.EBREAK among the words of its group.
LEMMA EbreakHalfword ==
  ASSUME NEW c \in Words(16), Field(c, 0, 1) = 2, Field(c, 13, 15) = 4, ~({0, 1} \subseteq c), C32!Rs2(c) = {}
  PROVE  c = {1, 12, 15} <=> 12 \in c /\ C32!Rd(c) = {}
<1>1. 1 \in c /\ 0 \notin c /\ 15 \in c /\ 14 \notin c /\ 13 \notin c
  BY GroupsAre, AluFields
<1>2. c \subseteq 0..15
  BY DEF Words, Bits
<1>3. Slice(c, 2, 6, 0) \subseteq {} /\ C32!Rd(c) = Slice(c, 7, 11, 0)
  BY SameFields DEF C32!Rd, C32!Rs2
<1>4. /\ \A i \in 0..4 : i \in Slice(c, 2, 6, 0) <=> i + 2 \in c
      /\ \A i \in 0..4 : i \in Slice(c, 7, 11, 0) <=> i + 7 \in c
      /\ Slice(c, 7, 11, 0) \subseteq 0..4
  <2> DEFINE x == Slice(c, 2, 6, 0)
             y == Slice(c, 7, 11, 0)
  <2>1. 5 = 6 - 2 + 1 /\ 5 = 11 - 7 + 1 /\ 2 \in Nat /\ 6 \in Nat /\ 7 \in Nat /\ 11 \in Nat /\ 5 \in Nat
    OBVIOUS
  <2>2. x \in Words(5) /\ \A i \in Bits(5) : i \in x <=> i + 2 \in c
    BY <2>1, SliceIsWord
  <2>3. y \in Words(5) /\ \A i \in Bits(5) : i \in y <=> i + 7 \in c
    BY <2>1, SliceIsWord
  <2> HIDE DEF x, y
  <2>4. Bits(5) = 0..4
    BY DEF Bits
  <2> QED BY <2>2, <2>3, <2>4 DEF Words, x, y
<1>5. 2 \notin c /\ 3 \notin c /\ 4 \notin c /\ 5 \notin c /\ 6 \notin c
  <2>1. \A i \in 0..4 : i + 2 \notin c
    BY <1>3, <1>4
  <2>2. 0 + 2 \notin c /\ 1 + 2 \notin c /\ 2 + 2 \notin c /\ 3 + 2 \notin c /\ 4 + 2 \notin c
    BY <2>1
  <2> QED BY <2>2
<1>6. Slice(c, 7, 11, 0) = {} <=> 7 \notin c /\ 8 \notin c /\ 9 \notin c /\ 10 \notin c /\ 11 \notin c
  <2>1. Slice(c, 7, 11, 0) = {} <=> \A i \in 0..4 : i + 7 \notin c
    BY <1>4
  <2>2. (\A i \in 0..4 : i + 7 \notin c) <=> 7 \notin c /\ 8 \notin c /\ 9 \notin c /\ 10 \notin c /\ 11 \notin c
    <3>1. 0 + 7 = 7 /\ 1 + 7 = 8 /\ 2 + 7 = 9 /\ 3 + 7 = 10 /\ 4 + 7 = 11
      OBVIOUS
    <3>2. \A i \in 0..4 : i = 0 \/ i = 1 \/ i = 2 \/ i = 3 \/ i = 4
      OBVIOUS
    <3> QED BY <3>1, <3>2
  <2> QED BY <2>1, <2>2
<1>7. 12 \in c /\ C32!Rd(c) = {} => c = {1, 12, 15}
  <2> SUFFICES ASSUME 12 \in c, Slice(c, 7, 11, 0) = {}
               PROVE  c = {1, 12, 15}
    BY <1>3
  <2>1. \A i \in 0..15 : \/ i \in {0, 1, 2, 3, 4, 5, 6, 7} \/ i \in {8, 9, 10, 11, 12, 13, 14, 15}
    OBVIOUS
  <2>2. \A i \in 0..15 : i \in c => i = 1 \/ i = 12 \/ i = 15
    BY <1>1, <1>5, <1>6, <2>1
  <2> QED BY <1>1, <1>2, <2>2
<1>8. c = {1, 12, 15} => 12 \in c /\ C32!Rd(c) = {}
  BY <1>3, <1>6
<1> QED BY <1>7, <1>8

\* Every 16-bit word expands to nothing or to a word that both decoders take
\* for the instruction named beside its case in expand_compressed, but for
\* the words of three groups; C.JR, C.MV, C.JALR and C.ADD with their registers.
THEOREM ExpansionIsTheNamedInstructionHolds == DSpec => []ExpansionIsTheNamedInstruction
<1>1. Emitted => ExpansionIsTheNamedInstruction
  <2> DEFINE c == source.c
             q == Field(c, 0, 1)
             f == Field(c, 13, 15)
             v == C64!expand_compressed(c)
             N32 == NamedExpansion(FALSE)
             N64 == NamedExpansion(TRUE)
             Named == D32!decode_instruction(word).inst_type = N32 /\ D64!decode_instruction(v).inst_type = N64
             Operands == JumpOrAddOperands(D32!decode_instruction(word)) /\ JumpOrAddOperands(D64!decode_instruction(v))
  <2> SUFFICES ASSUME Emitted, emitted, source.fmt = "C", word # {}, ~LongShift, ~Fsd, ~NotSub
               PROVE  Named /\ (JumpOrAdd => Operands)
    BY DEF ExpansionIsTheNamedInstruction, ExpandsToNamed, Expanded32, Expanded64, Is
  <2>1. word = C32!expand_compressed(c)
    BY DEF Emitted
  <2>2. ~({0, 1} \subseteq c) /\ c \in Words(16)
    BY LinesOf DEF Emitted, Halfwords
  <2>3. q \in {0, 1, 2} /\ f \in 0..7
    BY <2>2, GroupsAre
  <2>4. Quadrant = q /\ Funct3 = f
    BY SameFields DEF Quadrant, Funct3
  <2>5. /\ q = 0 => word = C32!Quadrant0(c, f) /\ v = C64!Quadrant0(c, f)
        /\ q = 1 => word = C32!Quadrant1(c, f) /\ v = C64!Quadrant1(c, f)
        /\ q = 2 => word = C32!Quadrant2(c, f) /\ v = C64!Quadrant2(c, f)
    BY <2>1, SameFields DEF C32!expand_compressed, C64!expand_compressed
  <2>6. f \in {0, 1, 2, 3, 4, 5, 6, 7}
    BY <2>3
  <2>7. /\ ~(q = 2 /\ f = 0 /\ 12 \in c) /\ ~(q = 1 /\ f = 4 /\ 11 \notin c /\ 12 \in c)
        /\ ~(q \in {0, 2} /\ f = 5)
        /\ ~(q = 1 /\ f = 4 /\ 10 \in c /\ 11 \in c /\ 12 \in c)
        /\ JumpOrAdd <=> q = 2 /\ f = 4
    BY <2>4 DEF LongShift, Fsd, NotSub, Group, JumpOrAdd
  <2> DEFINE names(m, n) == N32 = m /\ N64 = n
  <2> HIDE DEF v, f
  <2>8. CASE q = 0
    <3>1. word = C32!Quadrant0(c, f) /\ v = C64!Quadrant0(c, f)
      BY <2>5, <2>8
    <3>2. /\ (f = 0 => names("ADDI", "ADDI")) /\ (f = 1 => names("FLD", "FLD")) /\ (f = 2 => names("LW", "LW"))
          /\ (f = 3 => names("FLW", "LD")) /\ (f = 6 => names("SW", "SW")) /\ (f = 7 => names("FSW", "SD"))
      BY <2>4, <2>8, Names
    <3> HIDE DEF N32, N64, Operands
    <3>3. f \in {0, 1, 2, 3} => Named
      BY <3>1, <3>2, Quadrant0Types DEF Both, On64
    <3>4. f \in {4, 6, 7} => Named
      BY <3>1, <3>2, Quadrant0Types DEF Both, On64
    <3> QED BY <2>6, <2>7, <2>8, <3>3, <3>4
  <2>9. CASE q = 1
    <3>1. word = C32!Quadrant1(c, f) /\ v = word
      BY <2>3, <2>5, <2>9, Quadrant1Types DEF f
    <3>2. /\ (f \in {0, 2} => names("ADDI", "ADDI")) /\ (f \in {1, 5} => names("JAL", "JAL"))
          /\ (f = 6 => names("BEQ", "BEQ")) /\ (f = 7 => names("BNE", "BNE"))
          /\ f = 3 => LET n == IF C32!Rd(c) = {1} THEN "ADDI" ELSE "LUI" IN names(n, n)
      BY <2>4, <2>9, Names
    <3>3. f = 4 => /\ 11 \notin c => LET n == IF 10 \in c THEN "SRAI" ELSE "SRLI" IN names(n, n)
                   /\ 11 \in c => LET n == IF 10 \in c THEN "SUB" ELSE "ANDI" IN names(n, n)
      BY <2>4, <2>9, Names
    <3> HIDE DEF N32, N64, Operands
    <3>4. f \in {0, 1, 2, 3, 5, 6, 7} => Named
      BY <3>1, <3>2, Quadrant1Types DEF Both, f
    <3>5. f = 4 => Named
      <4>1. f = 4 => word = C32!MiscAlu(c)
        BY <3>1, Quadrant1Types DEF f
      <4> QED BY <2>7, <2>9, <3>1, <3>3, <4>1, MiscAluTypes DEF Both, f
    <3> QED BY <2>6, <2>7, <2>9, <3>4, <3>5
  <2>10. CASE q = 2
    <3>1. word = C32!Quadrant2(c, f) /\ v = word
      BY <2>3, <2>5, <2>10, Quadrant2Types
    <3>2. /\ (f = 0 => names("SLLI", "SLLI"))
          /\ (f = 1 => names("FLD", "FLD")) /\ (f = 2 => names("LW", "LW")) /\ (f = 3 => names("FLW", "FLW"))
          /\ (f = 6 => names("SW", "SW")) /\ (f = 7 => names("FSW", "FSW"))
          /\ f = 4 => LET n == IF C32!Rs2(c) # {} THEN "ADD"
                              ELSE IF c = {1, 12, 15} THEN "EBREAK" ELSE "JALR"
                      IN names(n, n)
      BY <2>4, <2>10, Names
    <3> HIDE DEF N32, N64, Operands
    <3>3. f \in {0, 1, 2, 3} => Named
      BY <2>7, <2>10, <3>1, <3>2, Quadrant2Types DEF Both
    <3>4. f \in {6, 7} => Named
      BY <3>1, <3>2, Quadrant2Types DEF Both
    <3>5. f = 4 => Named /\ Operands
      <4> SUFFICES ASSUME f = 4
                   PROVE  Named /\ Operands
        OBVIOUS
      <4>1. Jumps16(c, word)
        BY <3>1, Quadrant2Types
      <4>2. C32!Rs2(c) = {} => (c = {1, 12, 15} <=> 12 \in c /\ C32!Rd(c) = {})
        BY <2>2, <2>10, EbreakHalfword DEF f
      <4>3. Named
        BY <3>1, <3>2, <4>1, <4>2 DEF Jumps16, Both
      <4>4. ASSUME NEW d, d.inst_type = N32, d.rd = Field(word, 7, 11),
                   d.rs1 = Field(word, 15, 19), d.rs2 = Field(word, 20, 24)
            PROVE  JumpOrAddOperands(d)
        <5>1. C32!Field(c, 7, 11) = Field(c, 7, 11) /\ C32!Field(c, 2, 6) = Field(c, 2, 6)
          BY SameFields
        <5>2. d.inst_type = "JALR" => d.rs1 = Field(c, 7, 11) /\ d.rd = IF 12 \in c THEN 1 ELSE 0
          BY <3>2, <4>1, <4>2, <4>4 DEF Jumps16
        <5>3. d.inst_type = "ADD" => /\ d.rd = Field(c, 7, 11)
                                     /\ d.rs1 = IF 12 \in c THEN Field(c, 7, 11) ELSE 0
                                     /\ d.rs2 = Field(c, 2, 6)
          BY <3>2, <4>1, <4>2, <4>4 DEF Jumps16
        <5> QED BY <5>1, <5>2, <5>3 DEF JumpOrAddOperands
      <4>5. N64 = N32
        BY <3>2
      <4>6. JumpOrAddOperands(D32!decode_instruction(word))
        BY <4>3, <4>4, Decoded32
      <4>7. JumpOrAddOperands(D64!decode_instruction(word))
        BY <3>1, <4>3, <4>4, <4>5, Decoded64
      <4> QED BY <3>1, <4>3, <4>6, <4>7 DEF Operands
    <3> QED BY <2>6, <2>7, <2>10, <3>3, <3>4, <3>5
  <2> QED BY <2>3, <2>8, <2>9, <2>10
<1> QED BY <1>1, AlwaysEmitted, PTL
=============================================================================
