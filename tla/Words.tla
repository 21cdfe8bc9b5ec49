------------------------------- MODULE Words -------------------------------
(***************************************************************************)
(* C's unsigned integers. A word of n bits is the set of the positions of  *)
(* its 1 bits, so a uint32_t is a subset of 0..31 and 0 is the empty set.  *)
(* Bitwise operators are set operators, widening an unsigned word is the   *)
(* identity, and truncating it is an intersection. Arithmetic wraps.       *)
(***************************************************************************)
EXTENDS Integers, FiniteSetsExt

Bits(n) == 0..(n-1)
Words(n) == SUBSET Bits(n)

\* The word of a natural number below 2^31 (a literal of the program).
Num(k) == {i \in 0..30 : (k \div 2^i) % 2 = 1}
\* The word of n bits that a natural number wraps to, bit by bit.
Wrap(n, k) ==
  LET half[i \in 0..n] == IF i = 0 THEN k ELSE half[i - 1] \div 2
  IN {i \in Bits(n) : half[i] % 2 = 1}
\* What the bits of a word from the i-th upwards stand for.
From(x) ==
  LET from[i \in Nat] == IF \A j \in x : j < i THEN 0
                         ELSE 2 * from[i + 1] + IF i \in x THEN 1 ELSE 0
  IN from
\* The number a word stands for, unsigned and as two's complement.
Val(x) == From(x)[0]
SVal(n, x) == Val(x) - IF n-1 \in x THEN 2^n ELSE 0

Trunc(n, x) == x \cap Bits(n)
\* (intN_t)(intM_t)x, from m bits to n.
SignExt(m, n, x) == Trunc(m, x) \cup IF m-1 \in x THEN m..(n-1) ELSE {}
Not(n, x) == Bits(n) \ x

\* x << k and x >> k on n bits; ShiftRA repeats the sign bit.
ShiftL(n, x, k) == {i \in Bits(n) : i - k \in x}
ShiftR(n, x, k) == {i \in Bits(n) : i + k \in x}
ShiftRA(n, x, k) == {i \in Bits(n) : (IF i + k < n THEN i + k ELSE n - 1) \in x}

\* ((w >> lo) & mask of hi-lo+1 bits) << at: a field of w put at position at.
Slice(w, lo, hi, at) == {i + at - lo : i \in w \cap (lo..hi)}
\* The number a field of w stands for.
Field(w, lo, hi) == Val(Slice(w, lo, hi, 0))

\* A carry enters bit i when a bit below it generates one (or one comes in)
\* and no bit in between kills it.
Sum3(n, x, y, cin) ==
  LET Generate == x \cap y
      Kill     == Bits(n) \ (x \cup y)
      Carry(i) == \/ \E j \in Generate : j < i /\ \A k \in Kill : k < j \/ k >= i
                  \/ cin /\ \A k \in Kill : k >= i
  IN {i \in Bits(n) : ((i \in x) # (i \in y)) # Carry(i)}

\* Bound in a pair, the operands are evaluated once, in ENABLED too.
Add(n, x, y) == UNION {Sum3(n, p[1], p[2], FALSE) : p \in {<<x, y>>}}
Sub(n, x, y) == UNION {Sum3(n, p[1], p[2], TRUE) : p \in {<<x, Not(n, y)>>}}
Neg(n, x) == Sub(n, {}, x)
Mul(n, x, y) ==
  LET sum[i \in 0..n] == IF i = 0 THEN {}
                         ELSE IF i - 1 \in y THEN Add(n, sum[i - 1], ShiftL(n, x, i - 1))
                         ELSE sum[i - 1]
  IN sum[n]

\* Unsigned and signed order: the highest differing bit decides.
LtU(x, y) == \E i \in y \ x : \A j \in x \ y : j < i
LtS(n, x, y) == LtU(SymDiff(x, {n-1}), SymDiff(y, {n-1}))

\* C's / and % (y # 0): the quotient is truncated towards zero and the
\* remainder has the dividend's sign. TLC evaluates them for n < 32.
DivU(n, x, y) == Wrap(n, Val(x) \div Val(y))
RemU(n, x, y) == Wrap(n, Val(x) % Val(y))
Negative(n, x) == n-1 \in x
Abs(n, x) == IF Negative(n, x) THEN Neg(n, x) ELSE x
DivS(n, x, y) == LET q == DivU(n, Abs(n, x), Abs(n, y))
                 IN  IF Negative(n, x) = Negative(n, y) THEN Trunc(n, q) ELSE Neg(n, q)
RemS(n, x, y) == LET r == RemU(n, Abs(n, x), Abs(n, y))
                 IN  IF Negative(n, x) THEN Neg(n, r) ELSE r
=============================================================================
