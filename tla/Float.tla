-------------------------------- MODULE Float ------------------------------
(***************************************************************************)
(* The values exec_float_single and exec_float_double compute. A float or  *)
(* a double is the word of its IEEE 754 bit pattern, in a format that is   *)
(* the widths of its exponent and of its fraction; the handlers leave the  *)
(* arithmetic to the host, in round-to-nearest-even. Where C, IEEE 754 or  *)
(* the host leave a choice (which NaN, which zero, a conversion that does  *)
(* not fit) the result is a set.                                           *)
(***************************************************************************)
EXTENDS Alu

Single == [exp |-> 8, man |-> WORD - 9]
Double == [exp |-> 11, man |-> 2 * WORD - 12]

SignAt(f) == f.exp + f.man
Infinity(f) == f.man..(SignAt(f) - 1)
Unit(f) == f.man..(SignAt(f) - 2)                 \* 1.0
Magnitude(f, x) == Trunc(SignAt(f), x)
IsNegative(f, x) == SignAt(f) \in x
IsInf(f, x)  == Magnitude(f, x) = Infinity(f)
IsNaN(f, x)  == Infinity(f) \subseteq x /\ ~IsInf(f, x)
IsZero(f, x) == Magnitude(f, x) = {}
IsNormal(f, x) == x \cap Infinity(f) \notin {{}, Infinity(f)}
WithSign(f, negative, magnitude) == magnitude \cup IF negative THEN {SignAt(f)} ELSE {}
Negated(f, x) == SymDiff(x, {SignAt(f)})
Quieted(f, nans) == {x \cup {f.man - 1} : x \in nans}
\* The NaN of an invalid operation: its sign is the host's choice.
DefaultNaNs(f) == {WithSign(f, negative, Infinity(f) \cup {f.man - 1}) : negative \in BOOLEAN}

-----------------------------------------------------------------------------
(* Exact numbers: a sign and the powers of two that add up to the value *)

LowestPower(f) == 2 - 2^(f.exp - 1) - f.man       \* the smallest subnormal
Exact(f, x) ==
  LET e == Field(x, f.man, SignAt(f) - 1)
      significand == Trunc(f.man, x) \cup IF e = 0 THEN {} ELSE {f.man}
  IN [neg |-> IsNegative(f, x),
      pow |-> {i + LowestPower(f) + (IF e = 0 THEN 0 ELSE e - 1) : i \in significand}]
Integer(n, x) == [neg |-> Negative(n, x), pow |-> Abs(n, x)]

Base(powers) == IF powers = {} THEN 0 ELSE Min(powers)
Length(powers) == IF powers = {} THEN 0 ELSE Max(powers) - Min(powers) + 1
Shifted(powers, k) == {i + k : i \in powers}

\* A zero sum is negative only if both terms are.
Plus(x, y) ==
  LET both == x.pow \cup y.pow
      base == Base(both)
      n    == Length(both) + 2
      Word(z) == IF z.neg THEN Neg(n, Shifted(z.pow, -base)) ELSE Shifted(z.pow, -base)
      sum  == Add(n, Word(x), Word(y))
  IN [neg |-> IF sum = {} THEN x.neg /\ y.neg ELSE Negative(n, sum),
      pow |-> Shifted(Abs(n, sum), base)]
Times(x, y) ==
  [neg |-> x.neg # y.neg,
   pow |-> Shifted(Mul(Length(x.pow) + Length(y.pow), Shifted(x.pow, -Base(x.pow)),
                                                     Shifted(y.pow, -Base(y.pow))),
                   Base(x.pow) + Base(y.pow))]

\* Quotient and square root, digit by digit from the highest, to at least two
\* digits more than f keeps. Rounding asks of what is left over only whether
\* there is any: it becomes one lower power.
WithRest(digits, rest, places) == digits \cup IF rest = {} THEN {} ELSE {-places}
Over(f, x, y) ==
  LET n == Max({Length(x.pow), Length(y.pow)})
      Aligned(powers) == Shifted(powers, n - 1 - Max(powers))
      b == Aligned(y.pow)
      places == f.man + 4
      after[i \in 0..places] ==
        IF i = 0 THEN [rest |-> Aligned(x.pow), digits |-> {}]
        ELSE LET before == after[i - 1]
             IN IF LtU(before.rest, b) THEN [before EXCEPT !.rest = ShiftL(n + 1, @, 1)]
                ELSE [rest |-> ShiftL(n + 1, Sub(n + 1, before.rest, b), 1),
                      digits |-> before.digits \cup {1 - i}]
      last == after[places]
  IN [neg |-> x.neg # y.neg,
      pow |-> Shifted(WithRest(last.digits, last.rest, places), Max(x.pow) - Max(y.pow))]
SquareRoot(f, x) ==
  LET half == Max(x.pow) \div 2
      places == f.man + 3
      n == places + 3
      Pair(i) == Shifted(x.pow, 2 * (i - half)) \cap {0, 1}
      after[i \in 0..places] ==
        IF i = 0 THEN [rest |-> {}, root |-> {}]
        ELSE LET before == after[i - 1]
                 rest == ShiftL(n, before.rest, 2) \cup Pair(i - 1)
                 twice == ShiftL(n, before.root, 1)
                 trial == ShiftL(n, twice, 1) \cup One
             IN IF LtU(rest, trial) THEN [rest |-> rest, root |-> twice]
                ELSE [rest |-> Sub(n, rest, trial), root |-> twice \cup One]
      last == after[places]
  IN [neg |-> FALSE,
      pow |-> Shifted(WithRest(Shifted(last.root, 1 - places), last.rest, places), half)]

\* To the nearest value of the format, of two equally near ones the even one.
\* A carry out of the fraction belongs in the exponent.
Rounded(f, x) ==
  IF x.pow = {} THEN WithSign(f, x.neg, {}) ELSE
  LET last == Max({Max(x.pow) - f.man, LowestPower(f)})
      kept == Shifted({i \in x.pow : i >= last}, -last)
      up   == last - 1 \in x.pow /\ (last \in x.pow \/ \E i \in x.pow : i < last - 1)
      exponent == last - LowestPower(f)
  IN WithSign(f, x.neg,
       IF exponent >= 2^f.exp - 2 THEN Infinity(f)
       ELSE Sum3(SignAt(f), kept, ShiftL(SignAt(f), Num(exponent), f.man), up))

-----------------------------------------------------------------------------
(* The host's operations *)

\* fmaf and fma: x * y + z, rounded once.
fma(f, x, y, z) ==
  LET nans == {v \in {x, y, z} : IsNaN(f, v)}
      negative == IsNegative(f, x) # IsNegative(f, y)
      infinite == IsInf(f, x) \/ IsInf(f, y)
      invalid  == infinite /\ (IsZero(f, x) \/ IsZero(f, y))
  IN IF nans # {} THEN Quieted(f, nans) \cup IF invalid THEN DefaultNaNs(f) ELSE {}
     ELSE IF invalid \/ (infinite /\ IsInf(f, z) /\ negative # IsNegative(f, z)) THEN DefaultNaNs(f)
     ELSE IF infinite THEN {WithSign(f, negative, Infinity(f))}
     ELSE IF IsInf(f, z) THEN {z}
     ELSE {Rounded(f, Plus(Times(Exact(f, x), Exact(f, y)), Exact(f, z)))}
\* Sums and products are fused ones with 1 and -0.
fadd(f, x, y) == fma(f, x, Unit(f), y)
fsub(f, x, y) == fadd(f, x, IF IsNaN(f, y) THEN y ELSE Negated(f, y))
fmul(f, x, y) == fma(f, x, y, WithSign(f, TRUE, {}))
\* Mutant: a division by zero returns an infinity with the dividend's sign.
fdiv_unsigned(f, x, y) ==
  LET nans == {v \in {x, y} : IsNaN(f, v)}
      negative == IsNegative(f, x) # IsNegative(f, y)
  IN IF nans # {} THEN Quieted(f, nans)
     ELSE IF (IsZero(f, x) /\ IsZero(f, y)) \/ (IsInf(f, x) /\ IsInf(f, y)) THEN DefaultNaNs(f)
     ELSE IF IsZero(f, y) THEN {WithSign(f, IsNegative(f, x), Infinity(f))}
     ELSE IF IsInf(f, x) THEN {WithSign(f, negative, Infinity(f))}
     ELSE IF IsInf(f, y) \/ IsZero(f, x) THEN {WithSign(f, negative, {})}
     ELSE {Rounded(f, Over(f, Exact(f, x), Exact(f, y)))}
fdiv(f, x, y) ==
  LET nans == {v \in {x, y} : IsNaN(f, v)}
      negative == IsNegative(f, x) # IsNegative(f, y)
  IN IF nans # {} THEN Quieted(f, nans)
     ELSE IF (IsZero(f, x) /\ IsZero(f, y)) \/ (IsInf(f, x) /\ IsInf(f, y)) THEN DefaultNaNs(f)
     ELSE IF IsInf(f, x) \/ IsZero(f, y) THEN {WithSign(f, negative, Infinity(f))}
     ELSE IF IsInf(f, y) \/ IsZero(f, x) THEN {WithSign(f, negative, {})}
     ELSE {Rounded(f, Over(f, Exact(f, x), Exact(f, y)))}
fsqrt(f, x) ==
  IF IsNaN(f, x) THEN Quieted(f, {x})
  ELSE IF IsZero(f, x) THEN {x}
  ELSE IF IsNegative(f, x) THEN DefaultNaNs(f)
  ELSE IF IsInf(f, x) THEN {x} ELSE {Rounded(f, SquareRoot(f, Exact(f, x)))}

Equal(f, x, y) == ~IsNaN(f, x) /\ ~IsNaN(f, y) /\ (x = y \/ (IsZero(f, x) /\ IsZero(f, y)))
Less(f, x, y) ==
  /\ ~IsNaN(f, x) /\ ~IsNaN(f, y) /\ ~Equal(f, x, y)
  /\ \/ IsNegative(f, x) /\ ~IsNegative(f, y)
     \/ ~IsNegative(f, x) /\ ~IsNegative(f, y) /\ LtU(x, y)
     \/ IsNegative(f, x) /\ IsNegative(f, y) /\ LtU(y, x)

\* fmin and fmax of C: either zero of two, the number beside a NaN (or that
\* NaN, if it signals).
Extremes(f, x, y, least) ==
  LET Before(u, v) == IF least THEN Less(f, u, v) ELSE Less(f, v, u)
      nans == {v \in {x, y} : IsNaN(f, v)}
      signalling == {v \in nans : f.man - 1 \notin v}
  IN IF nans = {} THEN {v \in {x, y} : ~Before(x, v) /\ ~Before(y, v)}
     ELSE IF nans = {x, y} THEN nans \cup Quieted(f, nans)
     ELSE ({x, y} \ nans) \cup Quieted(f, signalling)

\* (int32_t)x and (uint32_t)x: truncated towards zero; what does not fit is
\* undefined in C, and the targets wrap, saturate or give 0 or INT_MIN.
ToWord(f, x, signed) ==
  LET exact == Exact(f, x)
      whole == {i \in exact.pow : i >= 0}
      negative == exact.neg /\ whole # {}
      value == Trunc(WORD, IF negative THEN Neg(WORD, whole) ELSE whole)
      fits  == /\ Infinity(f) \cap x # Infinity(f)
               /\ IF signed THEN whole \subseteq Bits(WORD - 1) \/ (negative /\ whole = {WORD - 1})
                            ELSE whole \subseteq Bits(WORD) /\ ~negative
  IN IF fits THEN {value} ELSE {value, {}, {WORD - 1}, Bits(WORD - 1), Bits(WORD)}

\* (double)x of a float and (float)x of a double.
Converted(f, g, x) ==
  IF IsNaN(f, x)
  THEN WithSign(g, IsNegative(f, x),
         Infinity(g) \cup {g.man - 1} \cup (Shifted(Trunc(f.man, x), g.man - f.man) \cap Bits(g.man)))
  ELSE IF IsInf(f, x) THEN WithSign(g, IsNegative(f, x), Infinity(g))
  ELSE Rounded(g, Exact(f, x))

-----------------------------------------------------------------------------
(* The cases of the handlers, one for both precisions *)

\* Mutant: FNMSUB and FNMADD are exchanged.
fused_swapped(f, type, x, y, z) ==
  CASE type = "FMADD"  -> fma(f, x, y, z)
    [] type = "FMSUB"  -> fma(f, x, y, Negated(f, z))
    [] type = "FNMADD" -> {Negated(f, v) : v \in fma(f, x, y, Negated(f, z))}
    [] type = "FNMSUB" -> {Negated(f, v) : v \in fma(f, x, y, z)}
fused(f, type, x, y, z) ==
  CASE type = "FMADD"  -> fma(f, x, y, z)
    [] type = "FMSUB"  -> fma(f, x, y, Negated(f, z))
    [] type = "FNMSUB" -> {Negated(f, v) : v \in fma(f, x, y, Negated(f, z))}
    [] type = "FNMADD" -> {Negated(f, v) : v \in fma(f, x, y, z)}

\* What a case that writes a floating-point register can write.
float_results(f, type, x, y, z) ==
  CASE type = "FADD"  -> fadd(f, x, y)
    [] type = "FSUB"  -> fsub(f, x, y)
    [] type = "FMUL"  -> fmul(f, x, y)
    [] type = "FDIV"  -> fdiv(f, x, y)
    [] type = "FSQRT" -> fsqrt(f, x)
    [] type = "FMIN"  -> Extremes(f, x, y, TRUE)
    [] type = "FMAX"  -> Extremes(f, x, y, FALSE)
    [] type = "FSGNJ"  -> {WithSign(f, IsNegative(f, y), Magnitude(f, x))}
    [] type = "FSGNJN" -> {WithSign(f, ~IsNegative(f, y), Magnitude(f, x))}
    [] type = "FSGNJX" -> {SymDiff(x, y \cap {SignAt(f)})}
    [] OTHER -> fused(f, type, x, y, z)

\* Mutant: infinities and normal numbers share a class.
fclass_coarse(f, x) ==
  LET Class(negative, positive) == Num(IF IsNegative(f, x) THEN negative ELSE positive)
  IN IF IsNaN(f, x) THEN Class(512, 256)
     ELSE IF IsZero(f, x) THEN Class(8, 16)
     ELSE IF IsInf(f, x) \/ IsNormal(f, x) THEN Class(2, 128) ELSE Class(4, 64)
\* FCLASS: a NaN is classed by its sign, not by whether it signals.
fclass(f, x) ==
  LET Class(negative, positive) == Num(IF IsNegative(f, x) THEN negative ELSE positive)
  IN IF IsNaN(f, x) THEN Class(512, 256)
     ELSE IF IsInf(f, x) THEN Class(1, 128)
     ELSE IF IsZero(f, x) THEN Class(8, 16)
     ELSE IF IsNormal(f, x) THEN Class(2, 64) ELSE Class(4, 32)

\* What a case that writes an integer register can write. The unsigned
\* conversion is zero-extended, on RV64 too.
integer_results(f, type, x, y) ==
  CASE type = "FEQ" -> {Flag(Equal(f, x, y))}
    [] type = "FLT" -> {Flag(Less(f, x, y))}
    [] type = "FLE" -> {Flag(Less(f, x, y) \/ Equal(f, x, y))}
    [] type = "FCLASS"  -> {fclass(f, x)}
    [] type = "FCVT_W"  -> {Signed32(v) : v \in ToWord(f, x, TRUE)}
    [] type = "FCVT_WU" -> ToWord(f, x, FALSE)

\* Mutant: FCVT_F_WU is computed like FCVT_F_W.
from_register_signed(f, type, r) == Rounded(f, Integer(XLEN, r))
\* FCVT_F_W and FCVT_F_WU (F is S or D): all XLEN bits of the register.
from_register(f, type, r) ==
  Rounded(f, IF type = "FCVT_F_W" THEN Integer(XLEN, r) ELSE [neg |-> FALSE, pow |-> r])
=============================================================================
