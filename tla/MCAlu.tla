------------------------------- MODULE MCAlu -------------------------------
(***************************************************************************)
(* The arithmetic of the handlers on every pair of operands, on RV32 and   *)
(* RV64 (BYTE = 1 scales them to a 4-bit int and a 4- or 8-bit register).  *)
(* The reference is TLA+'s own integer arithmetic. A step computes all     *)
(* results for one pair, as a program that runs every instruction on it    *)
(* would. The floating-point operations run on every pair of a narrow      *)
(* format, and the conversions on every word of it and of a wide one: 6    *)
(* and 8 bits in the run, a float and a double in the program.             *)
(***************************************************************************)
EXTENDS Float

A32 == INSTANCE Alu WITH XLEN <- WORD
ASSUME Rv64Assumption == XLEN = 2 * WORD      \* A32 is the RV32 build

\* The widths of the formats: 8, 23, 11 and 2 * WORD - 12 = 52 in the program.
CONSTANTS ShortExp, ShortMan, LongExp
Short == [exp |-> ShortExp, man |-> ShortMan]
Long == [exp |-> LongExp, man |-> 2 * WORD - 1 - LongExp]
ASSUME FormatAssumption ==
  /\ ShortExp \in 2..16 /\ LongExp \in 2..16 /\ ShortExp <= LongExp
  /\ ShortMan \in Nat \ {0} /\ ShortMan <= 2 * WORD - 1 - LongExp

VARIABLES a, b, res32, res64,
          resf, resc       \* of floating-point operations and of conversions
avars == <<a, b, res32, res64, resf, resc>>

RegOps == {"ADD", "SUB", "SLL", "SLT", "SLTU", "SRL", "SRA", "MUL", "MULH", "MULHSU", "MULHU",
           "DIV", "DIVU", "REM", "REMU"}
WordOps == {"MULW", "DIVW", "DIVUW", "REMW", "REMUW"}
Rv64Ops == {"ADDW", "SUBW", "SLLW", "SRLW", "SRAW"}

FloatOps == {"FADD", "FSUB", "FMUL", "FDIV", "FSQRT", "FMIN", "FMAX"}
CompareOps == {"FEQ", "FLT", "FLE"}
FusedOps == {"FMADD", "FMSUB", "FNMSUB", "FNMADD"}
\* The third operand of a fused operation: a zero of either sign, the smallest
\* number, 1, the next one below -1, the largest, infinity or a NaN.
Thirds ==
  LET sign == SignAt(Short)
  IN {{}, {sign}, {0}, Unit(Short), Unit(Short) \cup {0, sign}, Bits(sign) \ {ShortMan},
      Infinity(Short), Bits(sign)}
Width(f) == SignAt(f) + 1

AInit ==
  /\ a \in Words(2 * WORD) /\ b \in Words(2 * WORD)
  /\ res32 = <<>> /\ res64 = <<>> /\ resf = <<>> /\ resc = <<>>

The(S) == CHOOSE x \in S : TRUE
FloatResults ==
  [arith |-> [op \in FloatOps |-> float_results(Short, op, a, b, {})],
   fused |-> [op \in FusedOps |-> [c \in Thirds |-> float_results(Short, op, a, b, c)]],
   compare |-> [op \in CompareOps |-> The(integer_results(Short, op, a, b))],
   class |-> [x \in {a, b} |-> The(integer_results(Short, "FCLASS", x, {}))]]
ConversionResults ==
  [W |-> integer_results(Long, "FCVT_W", a, {}),
   WU |-> integer_results(Long, "FCVT_WU", a, {}),
   fromW |-> from_register(Long, "FCVT_F_W", a),
   fromWU |-> from_register(Long, "FCVT_F_WU", a),
   narrow |-> Converted(Long, Short, a),
   widened |-> Converted(Short, Long, Trunc(Width(Short), a))]
\* RV32 results exist for operands of RV32's width.
ExecuteAll ==
  /\ res64 = <<>>
  /\ res32' = IF a \cup b \subseteq Bits(WORD)
              THEN [op \in RegOps |-> The(A32!alu_reg(op, a, b))] ELSE <<>>
  /\ res64' = [op \in WordOps \cup Rv64Ops |->
                 IF op \in WordOps THEN The(alu_reg(op, a, b))
                                   ELSE rv64_word(op, a, b, {})]
  /\ resf' = IF a \cup b \subseteq Bits(Width(Short)) THEN FloatResults ELSE <<>>
  /\ resc' = IF b = {} THEN ConversionResults ELSE <<>>
  /\ UNCHANGED <<a, b>>
ASpec == AInit /\ [][ExecuteAll]_avars

-----------------------------------------------------------------------------
Done32 == res32 # <<>>
Done64 == res64 # <<>>
AbsVal(k) == IF k < 0 THEN -k ELSE k
\* The int32_t and the uint32_t in the low half of x, and the word k wraps to.
S(x) == SVal(WORD, Trunc(WORD, x))
U(x) == Val(Trunc(WORD, x))
Wraps(k, x) == U(x) = k % 2^WORD

\* DIV and REM belong together: dividend = divisor * quotient + remainder,
\* and unless the divisor is 0 the remainder is smaller than it and never
\* of the other sign than the dividend. With a zero divisor the remainder is
\* the dividend and the quotient -1, and the one quotient that does not fit
\* wraps. The same for the unsigned pair.
Divides(x, y, q, r) ==
  /\ Wraps(S(y) * S(q) + S(r), x)
  /\ S(y) # 0 => /\ AbsVal(S(r)) < AbsVal(S(y))
                 /\ S(r) * S(x) >= 0
  /\ S(y) = 0 => S(q) = -1
DividesU(x, y, q, r) ==
  /\ Wraps(U(y) * U(q) + U(r), x)
  /\ U(y) # 0 => U(r) < U(y)
  /\ U(y) = 0 => U(q) = 2^WORD - 1
DivisionIdentity ==
  /\ Done32 => /\ Divides(a, b, res32["DIV"], res32["REM"])
               /\ DividesU(a, b, res32["DIVU"], res32["REMU"])
  /\ Done64 => /\ Divides(a, b, res64["DIVW"], res64["REMW"])
               /\ DividesU(a, b, res64["DIVUW"], res64["REMUW"])

\* MULH, MULHSU and MULHU with MUL are the two halves of one product of the
\* operands read as signed*signed, signed*unsigned and unsigned*unsigned.
ProductHalves ==
  Done32 => /\ SVal(WORD, res32["MULH"]) * 2^WORD + Val(res32["MUL"]) = S(a) * S(b)
            /\ SVal(WORD, res32["MULHSU"]) * 2^WORD + Val(res32["MUL"]) = S(a) * U(b)
            /\ Val(res32["MULHU"]) * 2^WORD + Val(res32["MUL"]) = U(a) * U(b)

\* Comparison and subtraction tell the same story: SLT is the sign of the
\* exact difference, SLTU the borrow of SUB; the shifts multiply and floor-
\* divide by 2^(b mod XLEN).
ArithmeticAgrees ==
  Done32 => LET k == 2^(U(b) % WORD)
            IN /\ (res32["SLT"] = {0}) <=> (S(a) - S(b) < 0)
               /\ (res32["SLTU"] = {0}) <=> (Val(res32["SUB"]) # U(a) - U(b))
               /\ Wraps(S(a) + S(b), res32["ADD"])
               /\ Wraps(U(a) * k, res32["SLL"])
               /\ Val(res32["SRL"]) = U(a) \div k
               /\ S(res32["SRA"]) = S(a) \div k

\* A W operation depends on the low halves of its operands only, and except
\* for DIVUW and REMUW its result is the sign-extension of an int32_t: the
\* next W operation and a full-width comparison see the same number.
SignedWordOps == (WordOps \ {"DIVUW", "REMUW"}) \cup Rv64Ops
WordResultsAreSigned ==
  Done64 => LET k == 2^(U(b) % WORD)
            IN /\ \A op \in SignedWordOps : res64[op] = SignExt(WORD, 2 * WORD, Trunc(WORD, res64[op]))
               /\ Wraps(S(a) + S(b), res64["ADDW"])
               /\ Wraps(S(a) - S(b), res64["SUBW"])
               /\ Wraps(S(a) * S(b), res64["MULW"])
               /\ Wraps(U(a) * k, res64["SLLW"])
               /\ U(res64["SRLW"]) = U(a) \div k
               /\ S(res64["SRAW"]) = S(a) \div k

-----------------------------------------------------------------------------
(* Floating point. A finite value is counted in units of the smallest      *)
(* subnormal; the infinities are where the next value would be.            *)

Power(k) == Val({k})                  \* 2^k, as large as a double needs it
Number(f, x) == ~IsNaN(f, x)
Finite(f, x) == Number(f, x) /\ ~IsInf(f, x)
Units(f, x) ==
  LET e == Field(x, f.man, SignAt(f) - 1)
      n == Val(Trunc(f.man, x)) + IF e = 0 THEN 0 ELSE Power(f.man)
      magnitude == n * Power(IF e = 0 THEN 0 ELSE e - 1)
  IN IF SignAt(f) \in x THEN -magnitude ELSE magnitude
Numbers(f) == {w \in Words(Width(f)) : Number(f, w)}
ShortUnits == [x \in Numbers(Short) |-> Units(Short, x)]
LongUnits == [x \in Numbers(Long) |-> Units(Long, x)]
UnitsInOne(f) == Power(2^(f.exp - 1) - 2 + f.man)
OneShort == UnitsInOne(Short)
OneLong == UnitsInOne(Long)

\* r is the only result, no value is nearer to n / d units, and of two equally
\* near ones r is the one whose last bit is 0.
Nearest(units, results, n, d) ==
  \E r \in results :
    /\ results = {r} /\ r \in DOMAIN units
    /\ LET off == AbsVal(units[r] * d - n)
       IN \A z \in DOMAIN units :
            LET other == AbsVal(units[z] * d - n)
            IN off < other \/ units[z] = units[r] \/ (off = other /\ 0 \notin r)
\* The same for the square root of n units: the midpoints decide.
NearestRoot(r, n) ==
  \A z \in DOMAIN ShortUnits :
    LET sum == ShortUnits[r] + ShortUnits[z]
    IN /\ ShortUnits[z] > ShortUnits[r] => 4 * n * OneShort <= sum * sum
       /\ ShortUnits[z] \in 0..(ShortUnits[r] - 1) => 4 * n * OneShort >= sum * sum
\* Results that are all NaNs; an infinity or a zero of the given sign alone.
OnlyNaNs(f, results) == results # {} /\ \A r \in results : IsNaN(f, r)
OnlyInfinity(f, results, negative) ==
  \E r \in results : results = {r} /\ IsInf(f, r) /\ (IsNegative(f, r) <=> negative)
OnlyZero(f, results, negative) ==
  \E r \in results : results = {r} /\ IsZero(f, r) /\ (IsNegative(f, r) <=> negative)
\* The sum of two terms of which one at least is infinite, by their signs.
SumAtInfinity(f, results, infinite1, negative1, infinite2, negative2) ==
  IF infinite1 /\ infinite2 /\ ~(negative1 <=> negative2) THEN OnlyNaNs(f, results)
  ELSE OnlyInfinity(f, results, IF infinite1 THEN negative1 ELSE negative2)

\* FLT, FLE and FEQ order the patterns by value, -0 equal to 0 and NaN beside
\* everything; FMIN and FMAX return an operand that agrees with them and avoid
\* a quiet NaN; FCLASS gives each pattern one of ten classes, of which those
\* of numbers are in the order of the values.
FloatsAreOrdered ==
  resf # <<>> =>
    LET both == Number(Short, a) /\ Number(Short, b)
        class(x) == resf.class[x]
        Says(op) == resf.compare[op] = {0}
    IN /\ Says("FLT") <=> (both /\ ShortUnits[a] < ShortUnits[b])
       /\ Says("FLE") <=> (both /\ ShortUnits[a] <= ShortUnits[b])
       /\ Says("FEQ") <=> (both /\ ShortUnits[a] = ShortUnits[b])
       /\ both => \A r \in resf.arith["FMIN"], s \in resf.arith["FMAX"] :
                    /\ {ShortUnits[r], ShortUnits[s]} = {ShortUnits[a], ShortUnits[b]}
                    /\ ShortUnits[r] <= ShortUnits[s]
       /\ (Number(Short, a) /\ ~Number(Short, b) /\ ShortMan - 1 \in b)
            => resf.arith["FMIN"] = {a} /\ resf.arith["FMAX"] = {a}
       /\ (~Number(Short, a) /\ Number(Short, b) /\ ShortMan - 1 \in a)
            => resf.arith["FMIN"] = {b} /\ resf.arith["FMAX"] = {b}
       /\ Cardinality(class(a)) = 1
       /\ Number(Short, a) <=> class(a) \subseteq 0..7
       /\ both => (LtU(class(a), class(b)) => ShortUnits[a] <= ShortUnits[b])
       /\ both /\ class(a) = class(b) /\ class(a) \in {{0}, {3}, {4}, {7}} => a = b
       /\ both /\ class(a) \in {{2}, {5}} => AbsVal(ShortUnits[a]) < Power(ShortMan)

\* Of finite operands, sums, products, quotients by another number than 0, roots
\* of numbers that are not below 0 and the four fused operations are the values
\* nearest to what their RISC-V names promise (FNMSUB is c - a * b, FNMADD is
\* -(a * b) - c), with an infinity where those overflow. The sign of an exact
\* zero is the opposite in FNMADD of that in FMADD, and in FNMSUB of that in
\* FMSUB.
FloatsAreNearest ==
  (resf # <<>> /\ Finite(Short, a) /\ Finite(Short, b)) =>
    LET m == ShortUnits[a]
        n == ShortUnits[b]
        Promise(op, c) == CASE op = "FMADD"  -> m * n + OneShort * ShortUnits[c]
                            [] op = "FMSUB"  -> m * n - OneShort * ShortUnits[c]
                            [] op = "FNMSUB" -> OneShort * ShortUnits[c] - m * n
                            [] op = "FNMADD" -> -(m * n) - OneShort * ShortUnits[c]
        Negatives(results) == {r \in results : SignAt(Short) \in r}
    IN /\ Nearest(ShortUnits, resf.arith["FADD"], m + n, 1)
       /\ Nearest(ShortUnits, resf.arith["FSUB"], m - n, 1)
       /\ Nearest(ShortUnits, resf.arith["FMUL"], m * n, OneShort)
       /\ n > 0 => Nearest(ShortUnits, resf.arith["FDIV"], OneShort * m, n)
       /\ n < 0 => Nearest(ShortUnits, resf.arith["FDIV"], -(OneShort * m), -n)
       /\ m >= 0 => \E r \in Words(Width(Short)) : resf.arith["FSQRT"] = {r} /\ NearestRoot(r, m)
       /\ \A op \in FusedOps, c \in Thirds :
            Finite(Short, c) => Nearest(ShortUnits, resf.fused[op][c], Promise(op, c), OneShort)
       /\ \A c \in Thirds :
            /\ Cardinality(Negatives(resf.fused["FMADD"][c] \cup resf.fused["FNMADD"][c])) = 1
            /\ Cardinality(Negatives(resf.fused["FMSUB"][c] \cup resf.fused["FNMSUB"][c])) = 1

\* All other operands. The result is NaN where an operand is, for the root of
\* a negative number, and where there is no value: unlike infinities added,
\* 0 * infinity, 0 / 0 and infinity / infinity. Otherwise an infinite term or
\* factor and a division by 0 give an infinity, a division by an infinity a
\* zero, each with the right sign, in the four fused operations too.
FloatExceptions ==
  resf # <<>> =>
    LET nan(x)  == IsNaN(Short, x)
        inf(x)  == IsInf(Short, x)
        zero(x) == IsZero(Short, x)
        neg(x)  == IsNegative(Short, x)
        unlike  == ~(neg(a) <=> neg(b))
        invalid == (inf(a) \/ inf(b)) /\ (zero(a) \/ zero(b))
        Sum(results, infinite, negative) ==
          SumAtInfinity(Short, results, inf(a), neg(a), infinite, negative)
    IN /\ nan(a) \/ nan(b) => \A op \in {"FADD", "FSUB", "FMUL", "FDIV"} : OnlyNaNs(Short, resf.arith[op])
       /\ (~nan(a) /\ ~nan(b) /\ (inf(a) \/ inf(b))) =>
            /\ Sum(resf.arith["FADD"], inf(b), neg(b))
            /\ Sum(resf.arith["FSUB"], inf(b), ~neg(b))
            /\ IF invalid THEN OnlyNaNs(Short, resf.arith["FMUL"])
                          ELSE OnlyInfinity(Short, resf.arith["FMUL"], unlike)
       /\ (~nan(a) /\ ~nan(b)) =>
            /\ (inf(a) /\ inf(b)) \/ (zero(a) /\ zero(b)) => OnlyNaNs(Short, resf.arith["FDIV"])
            /\ (inf(a) /\ ~inf(b)) \/ (zero(b) /\ ~zero(a)) => OnlyInfinity(Short, resf.arith["FDIV"], unlike)
            /\ (inf(b) /\ ~inf(a)) \/ (zero(a) /\ ~zero(b)) => OnlyZero(Short, resf.arith["FDIV"], unlike)
       /\ nan(a) \/ (neg(a) /\ ~zero(a)) => OnlyNaNs(Short, resf.arith["FSQRT"])
       /\ (inf(a) /\ ~neg(a)) \/ zero(a) => resf.arith["FSQRT"] = {a}
       /\ \A op \in FusedOps, c \in Thirds :
            IF nan(a) \/ nan(b) \/ nan(c) \/ invalid THEN OnlyNaNs(Short, resf.fused[op][c])
            ELSE (inf(a) \/ inf(b) \/ inf(c)) =>
                   SumAtInfinity(Short, resf.fused[op][c],
                     inf(a) \/ inf(b), IF op \in {"FNMSUB", "FNMADD"} THEN ~unlike ELSE unlike,
                     inf(c), IF op \in {"FMSUB", "FNMADD"} THEN ~neg(c) ELSE neg(c))

\* Conversions to int32_t and uint32_t truncate towards zero, and the signed
\* one leaves a sign-extended result even where C leaves its value open; those
\* from integers take the whole register, so on RV64 also what a W operation
\* ignores, and round to nearest; narrowing rounds to nearest and undoes
\* widening.
FloatConversions ==
  resc # <<>> =>
    LET units == LongUnits[a]
        whole == IF units < 0 THEN -(AbsVal(units) \div OneLong) ELSE units \div OneLong
        register == Val(a) - IF 2 * WORD - 1 \in a THEN Power(2 * WORD) ELSE 0
        low == Trunc(Width(Short), a)
    IN /\ \A r \in resc.W : r = SignExt(WORD, 2 * WORD, Trunc(WORD, r))
       /\ Finite(Long, a) /\ whole \in -Power(WORD - 1)..(Power(WORD - 1) - 1)
            => \E r \in resc.W : resc.W = {r} /\ S(r) = whole
       /\ Finite(Long, a) /\ whole \in 0..(Power(WORD) - 1)
            => \E r \in resc.WU : resc.WU = {r} /\ Val(r) = whole
       /\ Nearest(LongUnits, {resc.fromW}, register * OneLong, 1)
       /\ Nearest(LongUnits, {resc.fromWU}, Val(a) * OneLong, 1)
       /\ Finite(Long, a) => Nearest(ShortUnits, {resc.narrow}, units, OneLong \div OneShort)
       /\ Finite(Short, low) => LongUnits[resc.widened] = ShortUnits[low] * (OneLong \div OneShort)
       /\ Number(Long, a) <=> Number(Short, resc.narrow)
=============================================================================
