----------------------------- MODULE AluProofs -----------------------------
(***************************************************************************)
(* The integer properties of the handlers for every pair of operands at    *)
(* the program's width. ResultsAreComputed ties the state to alu_reg and   *)
(* rv64_word; the rest is arithmetic of words (WordsProofs). BYTE \in 1..8 *)
(* where 2^WORD is meant as a number; a shift amount is b & (XLEN-1), a    *)
(* remainder only when the width is a power of 2.                          *)
(***************************************************************************)
EXTENDS FloatProofs, FiniteSetTheorems

-----------------------------------------------------------------------------
(* The RV32 instance of Alu uses the same words *)

\* The operators A32 takes from Words are those of Words.
LEMMA SameWords32 ==
  ASSUME NEW n, NEW x, NEW y, NEW k
  PROVE  /\ A32!Bits(n) = Bits(n) /\ A32!Words(n) = Words(n) /\ A32!Num(k) = Num(k)
         /\ A32!Val(x) = Val(x) /\ A32!Trunc(n, x) = Trunc(n, x)
         /\ A32!Add(n, x, y) = Add(n, x, y) /\ A32!Sub(n, x, y) = Sub(n, x, y)
         /\ A32!Mul(n, x, y) = Mul(n, x, y)
         /\ A32!DivU(n, x, y) = DivU(n, x, y) /\ A32!RemU(n, x, y) = RemU(n, x, y)
         /\ A32!DivS(n, x, y) = DivS(n, x, y) /\ A32!RemS(n, x, y) = RemS(n, x, y)
         /\ A32!LtU(x, y) = LtU(x, y) /\ A32!LtS(n, x, y) = LtS(n, x, y)
         /\ A32!ShiftL(n, x, k) = ShiftL(n, x, k) /\ A32!ShiftR(n, x, k) = ShiftR(n, x, k)
         /\ A32!ShiftRA(n, x, k) = ShiftRA(n, x, k) /\ A32!SignExt(k, n, x) = SignExt(k, n, x)
<1>1. \A m : A32!Bits(m) = Bits(m) /\ A32!Words(m) = Words(m)
  BY Zenon DEF A32!Bits, Bits, A32!Words, Words
<1>2. \A z : A32!Val(z) = Val(z)
  BY Zenon DEF A32!Val, Val, A32!From, From
<1>3. \A m, z : A32!Trunc(m, z) = Trunc(m, z)
  BY <1>1, Zenon DEF A32!Trunc, Trunc
<1>4. \A m, z : A32!Not(m, z) = Not(m, z)
  BY <1>1, Zenon DEF A32!Not, Not
<1>5. \A m, z, w : A32!Add(m, z, w) = Add(m, z, w)
  BY Zenon DEF A32!Add, Add, A32!Sum3, Sum3, A32!Bits, Bits
<1>6. \A m, z, w : A32!Sub(m, z, w) = Sub(m, z, w)
  BY Zenon DEF A32!Sub, Sub, A32!Sum3, Sum3, A32!Bits, Bits, A32!Not, Not
<1>7. \A m, z, i : /\ A32!ShiftL(m, z, i) = ShiftL(m, z, i) /\ A32!ShiftR(m, z, i) = ShiftR(m, z, i)
                   /\ A32!ShiftRA(m, z, i) = ShiftRA(m, z, i)
  BY <1>1, Zenon DEF A32!ShiftL, ShiftL, A32!ShiftR, ShiftR, A32!ShiftRA, ShiftRA
<1>8. A32!Mul(n, x, y) = Mul(n, x, y)
  BY Zenon DEF A32!Mul, Mul, A32!Add, Add, A32!Sum3, Sum3, A32!ShiftL, ShiftL, A32!Bits, Bits
<1>9. \A m, i : A32!Wrap(m, i) = Wrap(m, i)
  BY <1>1, Zenon DEF A32!Wrap, Wrap
<1>10. \A m, z, w : A32!DivU(m, z, w) = DivU(m, z, w) /\ A32!RemU(m, z, w) = RemU(m, z, w)
  BY <1>2, <1>9, Zenon DEF A32!DivU, DivU, A32!RemU, RemU
<1>11. \A m, z : A32!Neg(m, z) = Neg(m, z)
  BY <1>6, Zenon DEF A32!Neg, Neg
<1>12. \A m, z : A32!Negative(m, z) = Negative(m, z)
  BY Zenon DEF A32!Negative, Negative
<1>13. \A m, z : A32!Abs(m, z) = Abs(m, z)
  BY <1>11, <1>12, Zenon DEF A32!Abs, Abs
<1>14. A32!DivS(n, x, y) = DivS(n, x, y) /\ A32!RemS(n, x, y) = RemS(n, x, y)
  BY <1>3, <1>10, <1>11, <1>12, <1>13, Zenon DEF A32!DivS, DivS, A32!RemS, RemS
<1>15. \A z, w : A32!LtU(z, w) = LtU(z, w)
  BY Zenon DEF A32!LtU, LtU
<1>16. A32!LtS(n, x, y) = LtS(n, x, y)
  BY <1>15, Zenon DEF A32!LtS, LtS, A32!SymDiff, SymDiff
<1>17. A32!Num(k) = Num(k)
  BY Zenon DEF A32!Num, Num
<1>18. A32!SignExt(k, n, x) = SignExt(k, n, x)
  BY <1>3, Zenon DEF A32!SignExt, SignExt
<1> QED BY <1>1, <1>2, <1>3, <1>5, <1>6, <1>7, <1>8, <1>10, <1>14, <1>15, <1>16, <1>17, <1>18

-----------------------------------------------------------------------------
(* What the handlers compute *)

\* RV32 has registers of a word, RV64 of two.
LEMMA Widths ==
  /\ WORD \in Nat \ {0} /\ 2 * WORD \in Nat \ {0} /\ WORD \in 1..(2 * WORD) /\ WORD \in 0..(2 * WORD)
  /\ A32!WORD = WORD /\ ~(WORD > A32!WORD) /\ XLEN = 2 * WORD
BY WidthAssumption, Rv64Assumption DEF WORD, A32!WORD

\* The result of an operation that has one.
LEMMA TheOne == \A x : The({x}) = x
BY DEF The

\* Division as exec_alu_reg writes it: the cases decided before C's / and %.
DivResult(x, y) ==
  IF y = {} THEN Bits(WORD) ELSE IF x = {WORD - 1} /\ y = Bits(WORD) THEN x ELSE DivS(WORD, x, y)
RemResult(x, y) ==
  IF y = {} THEN x ELSE IF x = {WORD - 1} /\ y = Bits(WORD) THEN {} ELSE RemS(WORD, x, y)
DivUResult(x, y) == IF y = {} THEN Bits(WORD) ELSE DivU(WORD, x, y)
RemUResult(x, y) == IF y = {} THEN x ELSE RemU(WORD, x, y)

\* What exec_alu_reg computes on RV32.
LEMMA Results32 ==
  ASSUME NEW x, NEW y
  PROVE  LET R(op) == The(A32!alu_reg(op, x, y))
         IN /\ R("ADD") = Add(WORD, x, y) /\ R("SUB") = Sub(WORD, x, y)
            /\ R("SLL") = ShiftL(WORD, x, A32!Shamt(y, WORD))
            /\ R("SRL") = ShiftR(WORD, x, A32!Shamt(y, WORD))
            /\ R("SRA") = ShiftRA(WORD, x, A32!Shamt(y, WORD))
            /\ R("SLT") = (IF LtS(WORD, x, y) THEN {0} ELSE {})
            /\ R("SLTU") = (IF LtU(x, y) THEN {0} ELSE {})
            /\ R("MUL") = Mul(WORD, x, y)
            /\ R("MULH") = ShiftR(WORD, Mul(2 * WORD, SignExt(WORD, 2 * WORD, x), SignExt(WORD, 2 * WORD, y)), WORD)
            /\ R("MULHSU") = ShiftR(WORD, Mul(2 * WORD, SignExt(WORD, 2 * WORD, x), y), WORD)
            /\ R("MULHU") = ShiftR(WORD, Mul(2 * WORD, x, y), WORD)
            /\ R("DIV") = DivResult(x, y) /\ R("REM") = RemResult(x, y)
            /\ R("DIVU") = DivUResult(x, y) /\ R("REMU") = RemUResult(x, y)
<1>1. /\ A32!alu_reg("ADD", x, y) = {A32!Add(WORD, x, y)}
      /\ A32!alu_reg("SUB", x, y) = {A32!Sub(WORD, x, y)}
      /\ A32!alu_reg("SLL", x, y) = {A32!ShiftL(WORD, x, A32!Shamt(y, WORD))}
      /\ A32!alu_reg("SRL", x, y) = {A32!ShiftR(WORD, x, A32!Shamt(y, WORD))}
      /\ A32!alu_reg("SRA", x, y) = {A32!ShiftRA(WORD, x, A32!Shamt(y, WORD))}
      /\ A32!alu_reg("SLT", x, y) = {A32!Flag(A32!LtS(WORD, x, y))}
      /\ A32!alu_reg("SLTU", x, y) = {A32!Flag(A32!LtU(x, y))}
      /\ A32!alu_reg("MUL", x, y) = {A32!Mul(WORD, x, y)}
      /\ A32!alu_reg("MULH", x, y) = A32!HighHalf(A32!Wide(x), A32!Wide(y))
      /\ A32!alu_reg("MULHSU", x, y) = A32!HighHalf(A32!Wide(x), y)
      /\ A32!alu_reg("MULHU", x, y) = A32!HighHalf(x, y)
      /\ A32!alu_reg("DIV", x, y) = {A32!DivCase(WORD, x, y, A32!Bits(WORD), x, A32!DivS(WORD, x, y))}
      /\ A32!alu_reg("REM", x, y) = {A32!DivCase(WORD, x, y, x, {}, A32!RemS(WORD, x, y))}
      /\ A32!alu_reg("DIVU", x, y) = {IF y = {} THEN A32!Bits(WORD) ELSE A32!DivU(WORD, x, y)}
      /\ A32!alu_reg("REMU", x, y) = {IF y = {} THEN x ELSE A32!RemU(WORD, x, y)}
  BY DEF A32!alu_reg
<1>2. \A z, w : A32!HighHalf(z, w) = {ShiftR(WORD, Mul(2 * WORD, z, w), WORD)} /\ A32!Wide(z) = SignExt(WORD, 2 * WORD, z)
  BY Widths, SameWords32, Zenon DEF A32!HighHalf, A32!Wide
<1>3. A32!Bits(WORD) = Bits(WORD) /\ A32!IntMin(WORD) = {WORD - 1} /\ A32!One = {0}
  BY SameWords32, Zenon DEF A32!IntMin, A32!One
<1>4. /\ The(A32!alu_reg("ADD", x, y)) = Add(WORD, x, y) /\ The(A32!alu_reg("SUB", x, y)) = Sub(WORD, x, y)
      /\ The(A32!alu_reg("MUL", x, y)) = Mul(WORD, x, y)
  BY <1>1, TheOne, SameWords32, Zenon
<1>5. /\ The(A32!alu_reg("SLL", x, y)) = ShiftL(WORD, x, A32!Shamt(y, WORD))
      /\ The(A32!alu_reg("SRL", x, y)) = ShiftR(WORD, x, A32!Shamt(y, WORD))
      /\ The(A32!alu_reg("SRA", x, y)) = ShiftRA(WORD, x, A32!Shamt(y, WORD))
  BY <1>1, TheOne, SameWords32, Zenon
<1>6. /\ The(A32!alu_reg("SLT", x, y)) = (IF LtS(WORD, x, y) THEN {0} ELSE {})
      /\ The(A32!alu_reg("SLTU", x, y)) = (IF LtU(x, y) THEN {0} ELSE {})
  <2>1. A32!Flag(A32!LtS(WORD, x, y)) = (IF LtS(WORD, x, y) THEN {0} ELSE {})
    BY <1>3, SameWords32, Zenon DEF A32!Flag
  <2>2. A32!Flag(A32!LtU(x, y)) = (IF LtU(x, y) THEN {0} ELSE {})
    BY <1>3, SameWords32, Zenon DEF A32!Flag
  <2> QED BY <1>1, <2>1, <2>2, TheOne, Zenon
<1>7. /\ The(A32!alu_reg("MULH", x, y)) =
            ShiftR(WORD, Mul(2 * WORD, SignExt(WORD, 2 * WORD, x), SignExt(WORD, 2 * WORD, y)), WORD)
      /\ The(A32!alu_reg("MULHSU", x, y)) = ShiftR(WORD, Mul(2 * WORD, SignExt(WORD, 2 * WORD, x), y), WORD)
      /\ The(A32!alu_reg("MULHU", x, y)) = ShiftR(WORD, Mul(2 * WORD, x, y), WORD)
  BY <1>1, <1>2, TheOne, Zenon
<1>8. /\ The(A32!alu_reg("DIV", x, y)) = DivResult(x, y)
      /\ The(A32!alu_reg("REM", x, y)) = RemResult(x, y)
  <2>1. \A z, d, w : A32!DivCase(WORD, x, y, z, w, d) =
                       (IF y = {} THEN z ELSE IF x = {WORD - 1} /\ y = Bits(WORD) THEN w ELSE d)
    BY <1>3, SameWords32, Zenon DEF A32!DivCase
  <2>2. /\ A32!DivCase(WORD, x, y, Bits(WORD), x, DivS(WORD, x, y)) = DivResult(x, y)
        /\ A32!DivCase(WORD, x, y, x, {}, RemS(WORD, x, y)) = RemResult(x, y)
    BY <2>1, Zenon DEF DivResult, RemResult
  <2>3. A32!DivS(WORD, x, y) = DivS(WORD, x, y) /\ A32!RemS(WORD, x, y) = RemS(WORD, x, y)
    BY SameWords32, Zenon
  <2> QED BY <1>1, <1>3, <2>2, <2>3, TheOne, Zenon
<1>9. /\ The(A32!alu_reg("DIVU", x, y)) = DivUResult(x, y)
      /\ The(A32!alu_reg("REMU", x, y)) = RemUResult(x, y)
  BY <1>1, <1>3, TheOne, SameWords32 DEF DivUResult, RemUResult
<1> QED
  BY <1>4, <1>5, <1>6, <1>7, <1>8, <1>9, Zenon

\* (int64_t)(int32_t)x.
Extended(x) == SignExt(WORD, 2 * WORD, Trunc(WORD, x))

\* What the W operations compute on RV64.
LEMMA Results64 ==
  ASSUME NEW a64, NEW b64
  PROVE  LET x == Trunc(WORD, a64)
             y == Trunc(WORD, b64)
             k == Shamt(b64, WORD)
             R(op) == The(alu_reg(op, a64, b64))
             W(op) == rv64_word(op, a64, b64, {})
         IN /\ R("MULW") = Extended(Mul(WORD, x, y))
            /\ R("DIVW") = Extended(DivResult(x, y))
            /\ R("REMW") = Extended(RemResult(x, y))
            /\ R("DIVUW") = (IF y = {} THEN Bits(2 * WORD) ELSE DivU(WORD, x, y))
            /\ R("REMUW") = RemUResult(x, y)
            /\ W("ADDW") = Extended(Add(WORD, x, y)) /\ W("SUBW") = Extended(Sub(WORD, x, y))
            /\ W("SLLW") = Extended(ShiftL(WORD, x, k))
            /\ W("SRLW") = Extended(ShiftR(WORD, x, k))
            /\ W("SRAW") = Extended(ShiftRA(WORD, x, k))
<1> DEFINE x == Trunc(WORD, a64)
           y == Trunc(WORD, b64)
           k == Shamt(b64, WORD)
           quotient == DivCase(WORD, x, y, Bits(WORD), x, DivS(WORD, x, y))
           remainder == DivCase(WORD, x, y, x, {}, RemS(WORD, x, y))
<1>1. Low32(a64) = x /\ Low32(b64) = y
  BY Zenon DEF Low32
<1>2. \A z : Signed32(z) = Extended(z)
  BY Widths, Zenon DEF Signed32, Extended
<1>3. Bits(XLEN) = Bits(2 * WORD) /\ IntMin(WORD) = {WORD - 1}
  BY Widths, Zenon DEF IntMin
<1>4. /\ alu_reg("MULW", a64, b64) = {Signed32(Mul(WORD, Low32(a64), Low32(b64)))}
      /\ alu_reg("DIVW", a64, b64) =
           {Signed32(DivCase(WORD, Low32(a64), Low32(b64), Bits(WORD), Low32(a64),
                                     DivS(WORD, Low32(a64), Low32(b64))))}
      /\ alu_reg("REMW", a64, b64) =
           {Signed32(DivCase(WORD, Low32(a64), Low32(b64), Low32(a64), {},
                                     RemS(WORD, Low32(a64), Low32(b64))))}
      /\ alu_reg("DIVUW", a64, b64) =
           {IF Low32(b64) = {} THEN Bits(XLEN) ELSE DivU(WORD, Low32(a64), Low32(b64))}
      /\ alu_reg("REMUW", a64, b64) =
           {IF Low32(b64) = {} THEN Low32(a64) ELSE RemU(WORD, Low32(a64), Low32(b64))}
  BY DEF alu_reg
<1>5. /\ rv64_word("ADDW", a64, b64, {}) = Signed32(Add(WORD, Low32(a64), Low32(b64)))
      /\ rv64_word("SUBW", a64, b64, {}) = Signed32(Sub(WORD, Low32(a64), Low32(b64)))
      /\ rv64_word("SLLW", a64, b64, {}) =
           Signed32(ShiftL(WORD, Low32(a64), Shamt(b64, WORD)))
      /\ rv64_word("SRLW", a64, b64, {}) =
           Signed32(ShiftR(WORD, Low32(a64), Shamt(b64, WORD)))
      /\ rv64_word("SRAW", a64, b64, {}) =
           Signed32(ShiftRA(WORD, Low32(a64), Shamt(b64, WORD)))
  BY DEF rv64_word
<1> HIDE DEF x, y, k
<1>6. /\ quotient = DivResult(x, y)
      /\ remainder = RemResult(x, y)
  <2>1. \A z, d, w : DivCase(WORD, x, y, z, w, d) =
                       (IF y = {} THEN z ELSE IF x = {WORD - 1} /\ y = Bits(WORD) THEN w ELSE d)
    BY <1>3, Zenon DEF DivCase
  <2> QED BY <2>1, Zenon DEF DivResult, RemResult
<1>7. /\ The(alu_reg("MULW", a64, b64)) = Extended(Mul(WORD, x, y))
      /\ The(alu_reg("DIVW", a64, b64)) = Extended(quotient)
      /\ The(alu_reg("REMW", a64, b64)) = Extended(remainder)
  BY <1>1, <1>2, <1>3, <1>4, TheOne, Zenon
<1>8. /\ The(alu_reg("DIVUW", a64, b64)) = (IF y = {} THEN Bits(2 * WORD) ELSE DivU(WORD, x, y))
      /\ The(alu_reg("REMUW", a64, b64)) = RemUResult(x, y)
  BY <1>1, <1>3, <1>4, TheOne, Zenon DEF RemUResult
<1>9. /\ rv64_word("ADDW", a64, b64, {}) = Extended(Add(WORD, x, y))
      /\ rv64_word("SUBW", a64, b64, {}) = Extended(Sub(WORD, x, y))
  BY <1>1, <1>2, <1>5, Widths, Zenon
<1>10. /\ rv64_word("SLLW", a64, b64, {}) = Extended(ShiftL(WORD, x, k))
       /\ rv64_word("SRLW", a64, b64, {}) = Extended(ShiftR(WORD, x, k))
       /\ rv64_word("SRAW", a64, b64, {}) = Extended(ShiftRA(WORD, x, k))
  BY <1>1, <1>2, <1>5, Widths, Zenon DEF k
<1>11. /\ The(alu_reg("DIVW", a64, b64)) = Extended(DivResult(x, y))
       /\ The(alu_reg("REMW", a64, b64)) = Extended(RemResult(x, y))
  <2> HIDE DEF quotient, remainder
  <2> QED BY <1>6, <1>7, Zenon
<1> QED
  BY <1>7, <1>8, <1>9, <1>10, <1>11, Zenon DEF x, y, k

-----------------------------------------------------------------------------
\* The inductive invariant: the results kept are those of the operands kept.
ResultsAreComputed ==
  /\ a \in Words(2 * WORD) /\ b \in Words(2 * WORD)
  /\ Done32 => /\ a \in Words(WORD) /\ b \in Words(WORD)
               /\ \A op \in RegOps : res32[op] = The(A32!alu_reg(op, a, b))
  /\ Done64 => /\ \A op \in WordOps : res64[op] = The(alu_reg(op, a, b))
               /\ \A op \in Rv64Ops : res64[op] = rv64_word(op, a, b, {})
  /\ resf # <<>> => /\ a \in Words(Width(Short)) /\ b \in Words(Width(Short))
                    /\ resf = FloatResults
  /\ resc # <<>> => resc = ConversionResults

\* Every result a run shows is the one the handler computes for the operands.
THEOREM ResultsHold == ASpec => []ResultsAreComputed
<1>1. AInit => ResultsAreComputed
  BY DEF AInit, ResultsAreComputed, Done32, Done64
<1>2. UNCHANGED <<a, b>> => FloatResults' = FloatResults /\ ConversionResults' = ConversionResults
  BY Zenon DEF FloatResults, ConversionResults
<1>3. ResultsAreComputed /\ [ExecuteAll]_avars => ResultsAreComputed'
  <2> SUFFICES ASSUME ResultsAreComputed, [ExecuteAll]_avars PROVE ResultsAreComputed'
    OBVIOUS
  <2>1. CASE UNCHANGED avars
    <3>1. /\ a' = a /\ b' = b /\ res32' = res32 /\ res64' = res64 /\ resf' = resf /\ resc' = resc
      BY <2>1 DEF avars
    <3> QED BY <1>2, <3>1, Zenon DEF ResultsAreComputed, Done32, Done64
  <2>2. CASE ExecuteAll
    <3>1. a' = a /\ b' = b /\ a \in Words(2 * WORD) /\ b \in Words(2 * WORD)
      BY <2>2 DEF ExecuteAll, ResultsAreComputed
    <3>2. Done32' => /\ a \in Words(WORD) /\ b \in Words(WORD)
                     /\ \A op \in RegOps : res32'[op] = The(A32!alu_reg(op, a, b))
      <4>1. CASE a \cup b \subseteq Bits(WORD)
        <5>1. res32' = [op \in RegOps |-> The(A32!alu_reg(op, a, b))]
          BY <2>2, <4>1, Zenon DEF ExecuteAll
        <5> QED BY <4>1, <5>1 DEF Words
      <4>2. CASE ~(a \cup b \subseteq Bits(WORD))
        <5>1. res32' = <<>>
          BY <2>2, <4>2, Zenon DEF ExecuteAll
        <5> QED BY <5>1 DEF Done32
      <4> QED BY <4>1, <4>2, Zenon
    <3>3. /\ \A op \in WordOps : res64'[op] = The(alu_reg(op, a, b))
          /\ \A op \in Rv64Ops : res64'[op] = rv64_word(op, a, b, {})
      <4>1. res64' = [op \in WordOps \cup Rv64Ops |->
                        IF op \in WordOps THEN The(alu_reg(op, a, b)) ELSE rv64_word(op, a, b, {})]
        BY <2>2, Zenon DEF ExecuteAll
      <4>2. \A op \in Rv64Ops : op \notin WordOps
        BY DEF Rv64Ops, WordOps
      <4> QED BY <4>1, <4>2, Zenon
    <3>4. resf' # <<>> => /\ a \in Words(Width(Short)) /\ b \in Words(Width(Short))
                          /\ resf' = FloatResults'
      <4>1. resf' = IF a \cup b \subseteq Bits(Width(Short)) THEN FloatResults ELSE <<>>
        BY <2>2, Zenon DEF ExecuteAll
      <4>2. a \cup b \subseteq Bits(Width(Short)) => a \in Words(Width(Short)) /\ b \in Words(Width(Short))
        BY DEF Words
      <4> QED BY <1>2, <3>1, <4>1, <4>2, Zenon
    <3>5. resc' # <<>> => resc' = ConversionResults'
      <4>1. resc' = IF b = {} THEN ConversionResults ELSE <<>>
        BY <2>2, Zenon DEF ExecuteAll
      <4> QED BY <1>2, <3>1, <4>1, Zenon
    <3> QED BY <3>1, <3>2, <3>3, <3>4, <3>5, Zenon DEF ResultsAreComputed
  <2> QED BY <2>1, <2>2, Zenon
<1> QED BY <1>1, <1>3, PTL DEF ASpec

-----------------------------------------------------------------------------
(* Division *)

\* SVal is Signed, up to the width of an int32_t.
LEMMA SignedIs ==
  ASSUME BYTE \in 1..8, NEW x \in Words(WORD)
  PROVE  /\ WORD \in 1..32 /\ WORD \in Nat \ {0}
         /\ SVal(WORD, x) = Signed(WORD, x) /\ Val({WORD}) = 2^WORD /\ Signed(WORD, x) \in Int
         /\ Val(x) \in 0..(2^WORD - 1) /\ 2^WORD \in Nat \ {0}
         /\ Trunc(WORD, x) = x
<1>1. WORD \in 1..32 /\ WORD \in Nat \ {0} /\ WORD \in 0..32 /\ WORD \in Nat
  BY DEF WORD
<1>2. Val({WORD}) = 2^WORD
  BY <1>1, ValPower, Zenon
<1>3. SVal(WORD, x) = Signed(WORD, x)
  BY <1>2, Zenon DEF SVal, Signed
<1>4. Signed(WORD, x) \in Int
  BY <1>1, SignedRange
<1>5. Val(x) \in Nat /\ Val(x) < Val({WORD}) /\ Val({WORD}) \in Nat \ {0}
  BY <1>1, ValRange, PowerIsNat
<1>6. Trunc(WORD, x) = x
  BY DEF Trunc, Words
<1> QED BY <1>1, <1>2, <1>3, <1>4, <1>5, <1>6

\* A word read with its sign wraps to itself.
LEMMA SignedWraps ==
  ASSUME NEW n \in Nat \ {0}, NEW x \in Words(n)
  PROVE  Signed(n, x) % Val({n}) = Val(x) /\ Val(x) % Val({n}) = Val(x)
<1>1. n \in Nat /\ Val({n}) \in Int /\ Val(x) \in Int /\ Signed(n, x) \in Int
  <2>0. Val(x) \in Nat /\ Signed(n, x) \in Int
    BY SignedRange, Zenon
  <2>1. n \in Nat /\ Val(x) \in Int /\ Signed(n, x) \in Int
    BY <2>0
  <2>2. Val({n}) \in Int
    BY <2>1, PowerIsNat
  <2> QED BY <2>1, <2>2
<1>2. Same(Val({n}), Signed(n, x), Val(x))
  BY <1>1, WordsAreModular
<1>3. Same(Val({n}), Val(x), Signed(n, x)) /\ Same(Val({n}), Val(x), Val(x))
  BY <1>1, <1>2, SameIsEquivalence
<1> QED BY <1>1, <1>3, WordIsTheNumber

\* DIV and REM as the code computes them, its two special cases included.
LEMMA Quotient ==
  ASSUME BYTE \in 1..8, NEW x \in Words(WORD), NEW y \in Words(WORD)
  PROVE  /\ DivResult(x, y) \in Words(WORD) /\ RemResult(x, y) \in Words(WORD)
         /\ Divides(x, y, DivResult(x, y), RemResult(x, y))
<1> DEFINE n == WORD
           q == DivResult(x, y)
           r == RemResult(x, y)
           sx == Signed(n, x)
           sy == Signed(n, y)
           sq == Signed(n, q)
           sr == Signed(n, r)
           p == Val({n - 1})
<1>1. n \in Nat \ {0} /\ n \in Nat
  BY SignedIs
<1>2. {} \in Words(n) /\ Bits(n) \in Words(n) /\ {n - 1} \in Words(n)
  BY <1>1 DEF Words, Bits
<1>3. /\ p \in Nat \ {0} /\ Signed(n, {}) = 0 /\ Signed(n, Bits(n)) = -1 /\ Signed(n, {n - 1}) = -p
      /\ Val({n}) = 2 * p
  <2>1. p \in Nat \ {0} /\ Val({n}) = 2 * p
    BY <1>1, <1>2, SignedRange
  <2>2. Signed(n, {}) = 0
    BY ZeroIsZero DEF Signed
  <2>3. Signed(n, Bits(n)) = -1
    <3>1. Val(Bits(n)) = 2 * p - 1 /\ n - 1 \in Bits(n)
      BY <1>1, <2>1, ValOnes DEF Bits
    <3> HIDE DEF n, p
    <3> QED BY <2>1, <3>1 DEF Signed
  <2>4. Signed(n, {n - 1}) = p - 2 * p
    BY <2>1 DEF Signed
  <2> QED BY <2>1, <2>2, <2>3, <2>4
<1> SUFFICES /\ q \in Words(n) /\ r \in Words(n)
             /\ (sy * sq + sr) % Val({n}) = Val(x)
             /\ sy # 0 => AbsVal(sr) < AbsVal(sy) /\ sr * sx >= 0
             /\ sy = 0 => sq = -1
  <2> HIDE DEF n
  <2>1. ASSUME q \in Words(n) /\ r \in Words(n)
        PROVE  /\ S(x) = sx /\ S(y) = sy /\ S(q) = sq /\ S(r) = sr
               /\ \A k : Wraps(k, x) <=> k % Val({n}) = Val(x)
    BY <2>1, SignedIs DEF S, U, Wraps, n
  <2> HIDE DEF sx, sy, sq, sr
  <2> QED BY <2>1 DEF Divides, n
<1> HIDE DEF n
<1>4. sx \in Int /\ sx % Val({n}) = Val(x) /\ Val(x) % Val({n}) = Val(x)
  BY <1>1, SignedRange, SignedWraps DEF n
<1>5. CASE y = {}
  <2>1. q = Bits(n) /\ r = x
    BY <1>5 DEF n, DivResult, RemResult
  <2>2. sy = 0 /\ sq = -1 /\ sr = sx
    BY <1>3, <1>5, <2>1
  <2> HIDE DEF sx, sy, sq, sr
  <2>3. sy * sq + sr = sx
    BY <1>4, <2>2
  <2> QED BY <1>2, <1>4, <2>1, <2>2, <2>3 DEF n
<1>6. CASE x = {n - 1} /\ y = Bits(n) /\ y # {}
  <2>1. q = x /\ r = {}
    BY <1>6 DEF n, DivResult, RemResult
  <2>2. sy = -1 /\ sq = -p /\ sr = 0
    BY <1>3, <1>6, <2>1
  <2>3. sy * sq + sr = Val(x)
    <3> HIDE DEF sy, sq, sr
    <3>1. Val(x) = p
      BY <1>6
    <3> HIDE DEF p
    <3> QED BY <1>3, <2>2, <3>1
  <2>4. AbsVal(sr) < AbsVal(sy) /\ sr * sx >= 0
    <3> HIDE DEF sy, sr, sx
    <3> QED BY <1>4, <2>2 DEF AbsVal
  <2>5. q \in Words(n) /\ r \in Words(n)
    BY <1>2, <1>6, <2>1
  <2> HIDE DEF sx, sy, sq, sr
  <2>6. (sy * sq + sr) % Val({n}) = Val(x)
    BY <1>4, <2>3, Zenon
  <2>7. sy # 0
    BY <2>2
  <2> QED BY <2>4, <2>5, <2>6, <2>7, Zenon
<1>7. CASE y # {} /\ ~(x = {n - 1} /\ y = Bits(n))
  <2>1. q = DivS(n, x, y) /\ r = RemS(n, x, y)
    BY <1>7 DEF n, DivResult, RemResult
  <2>2. /\ q \in Words(n) /\ r \in Words(n)
        /\ sx = sy * sq + sr
        /\ IF sy < 0 THEN sr < -sy /\ -sr < -sy ELSE sr < sy /\ -sr < sy
        /\ IF sx < 0 THEN sr <= 0 ELSE sr >= 0
    BY <1>1, <1>7, <2>1, SignedDivision DEF n
  <2>3. sy \in Int /\ sq \in Int /\ sr \in Int
    BY <1>1, <2>2, SignedRange DEF n
  <2> HIDE DEF sx, sy, sq, sr
  <2>4. sy # 0 /\ AbsVal(sr) < AbsVal(sy)
    BY <2>2, <2>3 DEF AbsVal
  <2>5. sr * sx >= 0
    <3>1. \A i, j \in Int : (i <= 0 /\ j < 0) \/ (i >= 0 /\ j >= 0) => i * j >= 0
      OBVIOUS
    <3> QED BY <1>4, <2>2, <2>3, <3>1
  <2> QED BY <1>4, <2>2, <2>4, <2>5
<1> QED BY <1>5, <1>6, <1>7

\* DIVU and REMU, the case of a zero divisor included.
LEMMA QuotientU ==
  ASSUME BYTE \in 1..8, NEW x \in Words(WORD), NEW y \in Words(WORD)
  PROVE  /\ DivUResult(x, y) \in Words(WORD) /\ RemUResult(x, y) \in Words(WORD)
         /\ DividesU(x, y, DivUResult(x, y), RemUResult(x, y))
<1> DEFINE q == DivUResult(x, y)
           r == RemUResult(x, y)
<1>1. WORD \in Nat \ {0} /\ WORD \in Nat /\ Bits(WORD) \in Words(WORD)
  BY SignedIs DEF Words
<1>2. Val(x) % 2^WORD = Val(x) /\ Val(x) \in Int /\ 2^WORD \in Int
  <2>0. Val({WORD}) = 2^WORD /\ Val(x) \in 0..(2^WORD - 1) /\ 2^WORD \in Nat \ {0}
    BY SignedIs, Zenon
  <2>1. Val({WORD}) = 2^WORD /\ Val(x) \in Int /\ 2^WORD \in Int
    BY <2>0
  <2>2. Val(x) % Val({WORD}) = Val(x)
    BY <1>1, SignedWraps
  <2> QED BY <2>1, <2>2, Zenon
<1> SUFFICES /\ q \in Words(WORD) /\ r \in Words(WORD)
             /\ Val(y) * Val(q) + Val(r) = Val(x)
             /\ Val(y) # 0 => Val(r) < Val(y)
             /\ Val(y) = 0 => Val(q) = 2^WORD - 1
  <2>1. ASSUME q \in Words(WORD) /\ r \in Words(WORD)
        PROVE  U(x) = Val(x) /\ U(y) = Val(y) /\ U(q) = Val(q) /\ U(r) = Val(r)
    BY <2>1, SignedIs DEF U
  <2> QED BY <1>2, <2>1 DEF DividesU, Wraps
<1>3. CASE y = {}
  <2>1. Val(y) = 0 /\ Val(q) = Val({WORD}) - 1 /\ Val({WORD}) = 2^WORD
    BY <1>1, <1>3, ZeroIsZero, ValOnes, SignedIs DEF DivUResult
  <2>2. q \in Words(WORD) /\ r = x
    BY <1>1, <1>3 DEF DivUResult, RemUResult
  <2> QED BY <1>2, <2>1, <2>2
<1>4. CASE y # {}
  <2>1. q = DivU(WORD, x, y) /\ r = RemU(WORD, x, y)
    BY <1>4 DEF DivUResult, RemUResult
  <2>2. /\ q \in Words(WORD) /\ r \in Words(WORD) /\ Val(y) \in Nat \ {0}
        /\ Val(x) = Val(y) * Val(q) + Val(r) /\ Val(r) < Val(y)
    BY <1>1, <1>4, <2>1, ValDivU
  <2> QED BY <2>2
<1> QED BY <1>3, <1>4

\* Sign extension keeps the low half.
LEMMA ExtendedKeeps ==
  ASSUME NEW x \in Words(WORD)
  PROVE  /\ Trunc(WORD, x) = x /\ Trunc(WORD, Extended(x)) = x
         /\ Trunc(WORD, Trunc(WORD, x)) = Trunc(WORD, x)
<1>1. Trunc(WORD, x) = x
  BY DEF Trunc, Words
<1>2. Trunc(WORD, SignExt(WORD, 2 * WORD, x)) = x
  <2>1. \A i \in WORD..(2 * WORD - 1) : i \notin Bits(WORD)
    BY Widths DEF Bits
  <2> HIDE DEF WORD
  <2> QED BY <1>1, <2>1 DEF Trunc, SignExt, Words
<1> QED BY <1>1, <1>2, Zenon DEF Extended

\* The properties of division look at low halves only.
LEMMA OnlyTheLowHalf ==
  ASSUME NEW x, NEW y, NEW q, NEW r
  PROVE  LET T(z) == Trunc(WORD, z)
         IN /\ T(x) \in Words(WORD) /\ T(y) \in Words(WORD)
            /\ S(T(x)) = S(x) /\ U(T(x)) = U(x)
            /\ Divides(T(x), T(y), T(q), T(r)) => Divides(x, y, q, r)
            /\ DividesU(T(x), T(y), T(q), T(r)) => DividesU(x, y, q, r)
<1>1. \A z : Trunc(WORD, z) \in Words(WORD) /\ Trunc(WORD, Trunc(WORD, z)) = Trunc(WORD, z)
  BY DEF Trunc, Words
<1>2. \A z : S(Trunc(WORD, z)) = S(z) /\ U(Trunc(WORD, z)) = U(z)
  BY <1>1, Zenon DEF S, U
<1> QED BY <1>1, <1>2, Zenon DEF Divides, DividesU, Wraps

\* For every dividend and divisor DIV, REM, DIVU, REMU and their W forms give
\* the quotient and the remainder of one division (exec_alu_reg).
THEOREM DivisionIdentityHolds ==
  ASSUME BYTE \in 1..8
  PROVE  ASpec => []DivisionIdentity
<1>1. ResultsAreComputed => DivisionIdentity
  <2> SUFFICES ASSUME ResultsAreComputed PROVE DivisionIdentity
    OBVIOUS
  <2>1. ASSUME Done32
        PROVE  /\ Divides(a, b, res32["DIV"], res32["REM"])
               /\ DividesU(a, b, res32["DIVU"], res32["REMU"])
    <3>1. /\ a \in Words(WORD) /\ b \in Words(WORD)
          /\ res32["DIV"] = The(A32!alu_reg("DIV", a, b)) /\ res32["REM"] = The(A32!alu_reg("REM", a, b))
          /\ res32["DIVU"] = The(A32!alu_reg("DIVU", a, b)) /\ res32["REMU"] = The(A32!alu_reg("REMU", a, b))
      BY <2>1 DEF ResultsAreComputed, RegOps
    <3>2. /\ res32["DIV"] = DivResult(a, b) /\ res32["REM"] = RemResult(a, b)
          /\ res32["DIVU"] = DivUResult(a, b) /\ res32["REMU"] = RemUResult(a, b)
      BY <3>1, Results32
    <3> QED BY <3>1, <3>2, Quotient, QuotientU, Zenon
  <2>2. ASSUME Done64
        PROVE  /\ Divides(a, b, res64["DIVW"], res64["REMW"])
               /\ DividesU(a, b, res64["DIVUW"], res64["REMUW"])
    <3> DEFINE x == Trunc(WORD, a)
               y == Trunc(WORD, b)
               q == DivResult(x, y)
               r == RemResult(x, y)
               qu == DivUResult(x, y)
               ru == RemUResult(x, y)
    <3>1. /\ res64["DIVW"] = The(alu_reg("DIVW", a, b)) /\ res64["REMW"] = The(alu_reg("REMW", a, b))
          /\ res64["DIVUW"] = The(alu_reg("DIVUW", a, b)) /\ res64["REMUW"] = The(alu_reg("REMUW", a, b))
      BY <2>2 DEF ResultsAreComputed, WordOps
    <3>2. res64["DIVW"] = Extended(q) /\ res64["REMW"] = Extended(r)
      BY <3>1, Results64, Zenon
    <3>3. res64["DIVUW"] = (IF y = {} THEN Bits(2 * WORD) ELSE DivU(WORD, x, y)) /\ res64["REMUW"] = ru
      BY <3>1, Results64, Zenon
    <3> HIDE DEF x, y
    <3>4. x \in Words(WORD) /\ y \in Words(WORD)
      BY OnlyTheLowHalf DEF x, y
    <3>5. q \in Words(WORD) /\ r \in Words(WORD) /\ Divides(x, y, q, r)
      BY <3>4, Quotient, Zenon
    <3>6. qu \in Words(WORD) /\ ru \in Words(WORD) /\ DividesU(x, y, qu, ru)
      BY <3>4, QuotientU, Zenon
    <3>7. Trunc(WORD, res64["DIVUW"]) = qu
      <4>1. CASE y = {}
        <5>1. Trunc(WORD, Bits(2 * WORD)) = Bits(WORD)
          BY Widths DEF Trunc, Bits
        <5> QED BY <3>3, <4>1, <5>1 DEF DivUResult
      <4>2. CASE y # {}
        BY <3>3, <3>6, <4>2, ExtendedKeeps DEF DivUResult
      <4> QED BY <4>1, <4>2
    <3> HIDE DEF q, r, qu, ru
    <3>8. Trunc(WORD, res64["DIVW"]) = q /\ Trunc(WORD, res64["REMW"]) = r /\ Trunc(WORD, res64["REMUW"]) = ru
      BY <3>2, <3>3, <3>5, <3>6, ExtendedKeeps
    <3> QED BY <3>5, <3>6, <3>7, <3>8, OnlyTheLowHalf, Zenon DEF x, y
  <2> QED BY <2>1, <2>2 DEF DivisionIdentity
<1> QED BY <1>1, ResultsHold, PTL

-----------------------------------------------------------------------------
(* Products *)

\* The low and the high half of the double-width product of X and Y are the
\* product of the numbers i and j they stand for, whichever reading fits it.
LEMMA Halves ==
  ASSUME NEW n \in Nat \ {0}, NEW X \in Words(2 * n), NEW Y \in Words(2 * n), NEW i \in Int, NEW j \in Int,
         Same(Val({2 * n}), Val(X), i), Same(Val({2 * n}), Val(Y), j)
  PROVE  LET l == Mul(n, Trunc(n, X), Trunc(n, Y))
             h == ShiftR(n, Mul(2 * n, X, Y), n)
         IN /\ l \in Words(n) /\ h \in Words(n)
            /\ i * j \in 0..(Val({2 * n}) - 1) => i * j = Val(l) + Val({n}) * Val(h)
            /\ i * j >= -Val({2 * n - 1}) /\ i * j < Val({2 * n - 1})
                 => i * j = Val(l) + Val({n}) * Signed(n, h)
<1> DEFINE m == 2 * n
           M == Val({m})
           N == Val({n})
           x == Trunc(n, X)
           y == Trunc(n, Y)
           P == Mul(m, X, Y)
           l == Mul(n, x, y)
           h == ShiftR(n, P, n)
           low == Trunc(n, P)
<1>1. n \in Nat /\ m \in Nat \ {0} /\ m \in Nat /\ n \in 0..m /\ m - n = n /\ m - 1 \in Nat
  OBVIOUS
<1>2. P \in Words(m) /\ x \in Words(n) /\ y \in Words(n) /\ l \in Words(n) /\ low \in Words(n)
  <2>1. x \in Words(n) /\ y \in Words(n) /\ low \in Words(n)
    BY DEF Trunc, Words
  <2> HIDE DEF x, y, m, low
  <2>2. P \in Words(m) /\ l \in Words(n)
    BY <1>1, <2>1, ValMul DEF m
  <2> QED BY <2>1, <2>2
<1>3. h \in Words(n) /\ Val(h) = From(P)[n]
  <2>1. h = ShiftR(m, P, n)
    <3> HIDE DEF P
    <3> QED BY <1>1, <1>2 DEF ShiftR, Words, Bits
  <2>2. Val(ShiftR(m, P, n)) = From(P)[n]
    BY <1>1, <1>2, ValShiftR, Zenon
  <2>3. h \in Words(n)
    BY DEF ShiftR, Words
  <2> HIDE DEF h, P, m
  <2> QED BY <2>1, <2>2, <2>3
<1>4. M = N * N /\ M \in Nat \ {0} /\ N \in Nat \ {0}
  <2> HIDE DEF m
  <2>1. M = N * Val({m - n})
    BY <1>1, PowerProduct, Zenon
  <2> QED BY <1>1, <2>1, PowerIsNat
<1>5. /\ Val(X) \in Int /\ Val(Y) \in Int /\ Val(x) \in Int /\ Val(y) \in Int /\ Val(P) \in Nat /\ Val(P) < M
      /\ Val(low) \in Nat /\ Val(low) < N /\ Val(l) \in Nat /\ Val(l) < N /\ Val(h) \in Nat /\ Val(h) < N
  <2> HIDE DEF m, x, y, P, l, h, low, M, N
  <2>1. /\ Val(X) \in Nat /\ Val(Y) \in Nat /\ Val(P) \in Nat /\ Val(P) < Val({m})
    BY <1>1, <1>2, ValRange DEF m
  <2>2. \A w \in {x, y, low, l, h} : Val(w) \in Nat /\ Val(w) < Val({n})
    BY <1>1, <1>2, <1>3, ValRange
  <2> QED BY <2>1, <2>2 DEF M, N
<1>6. Val(P) = Val(low) + N * Val(h)
  <2> HIDE DEF m, P, h, low
  <2>1. Val(P) = Val(Trunc(n, P)) + Val({n}) * From(P)[n]
    BY <1>1, <1>2, Splits, Zenon
  <2> QED BY <1>3, <2>1 DEF low
<1>7. Same(M, Val(P), i * j)
  <2> HIDE DEF M
  <2>1. Same(M, Val(X) * Val(Y), i * j)
    BY <1>4, <1>5, SameArithmetic DEF M
  <2>2. Same(M, Val(P), Val(X) * Val(Y))
    BY <1>1, WordsAreModular DEF M
  <2> HIDE DEF P
  <2>3. Val(X) * Val(Y) \in Int /\ i * j \in Int
    BY <1>5
  <2> QED BY <1>4, <1>5, <2>1, <2>2, <2>3, SameIsEquivalence
<1>8. \A u, v \in Int : Same(M, u, v) => Same(N, u, v)
  <2> HIDE DEF M, N
  <2> SUFFICES ASSUME NEW u \in Int, NEW v \in Int, NEW t \in Int, u = v + M * t
               PROVE  Same(N, u, v)
    BY DEF Same
  <2>1. u = v + N * (N * t) /\ N * t \in Int
    BY <1>4
  <2> QED BY <2>1 DEF Same
<1>9. Val(low) = Val(l)
  <2> HIDE DEF m, M, N, P
  <2>1. Same(N, Val(P), i * j)
    BY <1>5, <1>7, <1>8
  <2>2. Same(N, Val(P), Val(low))
    BY <1>1, <1>2, TruncIsModulo DEF N
  <2>3. Same(N, Val(X), Val(x)) /\ Same(N, Val(Y), Val(y))
    BY <1>1, TruncIsModulo DEF N, m
  <2>4. Same(N, Val(X), i) /\ Same(N, Val(Y), j)
    BY <1>5, <1>8 DEF M, m
  <2> HIDE DEF x, y, l, low
  <2>5. Same(N, Val(X) * Val(Y), Val(x) * Val(y)) /\ Same(N, Val(X) * Val(Y), i * j)
    <3>1. Same(N, Val(X) * Val(Y), Val(x) * Val(y))
      BY <1>4, <1>5, <2>3, SameArithmetic
    <3>2. Same(N, Val(X) * Val(Y), i * j)
      BY <1>4, <1>5, <2>4, SameArithmetic
    <3> QED BY <3>1, <3>2
  <2>6. Same(N, Val(l), Val(x) * Val(y))
    BY <1>1, <1>2, WordsAreModular DEF N, l
  <2> DEFINE u == Val(X) * Val(Y)
             v == Val(x) * Val(y)
             w == i * j
  <2>7. u \in Int /\ v \in Int /\ w \in Int /\ N \in Int /\ Val(P) \in Int /\ Val(l) \in Int /\ Val(low) \in Int
    BY <1>4, <1>5
  <2> HIDE DEF u, v, w
  <2>8. Same(N, w, u) /\ Same(N, v, Val(l)) /\ Same(N, Val(low), Val(P))
    BY <2>2, <2>5, <2>6, <2>7, SameIsEquivalence DEF u, v, w
  <2>9. Same(N, Val(P), u)
    BY <2>1, <2>7, <2>8, SameIsEquivalence DEF w
  <2>10. Same(N, Val(P), v)
    BY <2>5, <2>7, <2>9, SameIsEquivalence DEF u, v
  <2>11. Same(N, Val(P), Val(l))
    BY <2>7, <2>8, <2>10, SameIsEquivalence
  <2>12. Same(N, Val(low), Val(l))
    BY <2>7, <2>8, <2>11, SameIsEquivalence
  <2>13. Val(low) \in 0..(N - 1) /\ Val(l) \in 0..(N - 1)
    BY <1>4, <1>5
  <2> QED BY <1>4, <2>7, <2>12, <2>13, SameIsEqual
<1>10. ASSUME i * j \in 0..(M - 1)
       PROVE  i * j = Val(l) + N * Val(h)
  <2> HIDE DEF m, M, N, P, l, h
  <2>1. Val(P) = i * j
    <3> DEFINE w == i * j
    <3>1. w \in Int /\ w \in 0..(Val({m}) - 1) /\ Same(Val({m}), Val(P), w)
      BY <1>7, <1>10 DEF M
    <3> HIDE DEF w
    <3>2. Val(P) = w
      BY <1>1, <1>2, <3>1, WordIsTheNumber, Zenon
    <3> QED BY <3>2 DEF w
  <2> QED BY <1>6, <1>9, <2>1
<1>11. ASSUME i * j >= -Val({m - 1}), i * j < Val({m - 1})
       PROVE  i * j = Val(l) + N * Signed(n, h)
  <2>1. m - 1 \in P <=> n - 1 \in h
    <3>1. n - 1 \in Bits(n) /\ (n - 1) + n = m - 1
      BY DEF Bits
    <3> HIDE DEF P, m
    <3> QED BY <3>1 DEF ShiftR
  <2> HIDE DEF m, P, l, h, low
  <2>2. Signed(m, P) = i * j
    BY <1>1, <1>2, <1>7, <1>11, WordIsTheNumber DEF M
  <2>3. Signed(m, P) = Val(P) - (IF m - 1 \in P THEN M ELSE 0) /\ Signed(n, h) = Val(h) - (IF n - 1 \in h THEN N ELSE 0)
    BY Zenon DEF Signed, M, N
  <2> HIDE DEF M, N
  <2> QED BY <1>4, <1>5, <1>6, <1>9, <2>1, <2>2, <2>3
<1> QED BY <1>2, <1>3, <1>10, <1>11

\* Products of two n-bit numbers fit 2n bits, unsigned or with a sign (N = 2^n).
LEMMA ProductsFit ==
  ASSUME NEW p \in Nat \ {0}, NEW i \in Int, NEW j \in Int, i >= -p, i < 2 * p, j >= -p, j < 2 * p,
         NEW N, N = 2 * p
  PROVE  /\ i >= 0 /\ j >= 0 => i * j \in 0..(N * N - 1)
         /\ i < p => i * j >= -(N * p) /\ i * j < N * p
<1>1. ASSUME i >= 0, j >= 0
      PROVE  i * j \in 0..(N * N - 1)
  <2>1. i * j >= 0 /\ i * j <= (N - 1) * j /\ (N - 1) * j <= (N - 1) * (N - 1) /\ i * j \in Int
    BY <1>1
  <2>2. (N - 1) * (N - 1) = (N * N - N) - (N - 1) /\ N * N \in Nat /\ N >= 2 /\ N \in Nat
    OBVIOUS
  <2> QED BY <2>1, <2>2
<1>2. ASSUME i < p
      PROVE  i * j >= -(N * p) /\ i * j < N * p
  <2>0. N * p = 2 * (p * p) /\ p * p \in Nat /\ p * p >= p
    OBVIOUS
  <2>1. CASE i >= 0 /\ j >= 0
    <3>1. i * j <= (p - 1) * j /\ (p - 1) * j <= (p - 1) * (N - 1) /\ i * j >= 0
      BY <1>2, <2>1
    <3>2. (p - 1) * (N - 1) = ((N * p - p) - N) + 1
      OBVIOUS
    <3> QED BY <2>0, <3>1, <3>2
  <2>2. CASE i >= 0 /\ j < 0
    <3>1. i * j <= 0 /\ i * j >= p * j /\ p * j >= -(p * p)
      BY <1>2, <2>2
    <3> QED BY <2>0, <3>1
  <2>3. CASE i < 0 /\ j >= 0
    <3>1. i * j <= 0 /\ i * j >= -(p * j) /\ p * j <= N * p
      BY <2>3
    <3> QED BY <2>0, <3>1
  <2>4. CASE i < 0 /\ j < 0
    <3>1. i * j >= 0 /\ i * j <= -(p * j) /\ -(p * j) <= p * p
      BY <2>4
    <3> QED BY <2>0, <3>1
  <2> QED BY <2>1, <2>2, <2>3, <2>4
<1> QED BY <1>1, <1>2

\* The three readings the code takes the high half of.
LEMMA HighHalves ==
  ASSUME NEW n \in Nat \ {0}, NEW x \in Words(n), NEW y \in Words(n)
  PROVE  LET Xs == SignExt(n, 2 * n, x)
             Ys == SignExt(n, 2 * n, y)
             l == Mul(n, x, y)
             H(X, Y) == ShiftR(n, Mul(2 * n, X, Y), n)
         IN /\ l \in Words(n) /\ H(Xs, Ys) \in Words(n) /\ H(Xs, y) \in Words(n) /\ H(x, y) \in Words(n)
            /\ Signed(n, x) * Signed(n, y) = Val(l) + Val({n}) * Signed(n, H(Xs, Ys))
            /\ Signed(n, x) * Val(y) = Val(l) + Val({n}) * Signed(n, H(Xs, y))
            /\ Val(x) * Val(y) = Val(l) + Val({n}) * Val(H(x, y))
<1> DEFINE m == 2 * n
           Xs == SignExt(n, m, x)
           Ys == SignExt(n, m, y)
           N == Val({n})
           p == Val({n - 1})
           sx == Signed(n, x)
           sy == Signed(n, y)
           vx == Val(x)
           vy == Val(y)
<1>1. n \in Nat /\ m \in Nat \ {0} /\ m \in Nat /\ n \in 1..m /\ n \in 0..m /\ m - n = n
      /\ n \in 0..(m - 1) /\ (m - 1) - n = n - 1 /\ m - 1 \in Nat
  OBVIOUS
<1>2. x \in Words(m) /\ y \in Words(m)
  BY DEF Words, Bits
<1>3. p \in Nat \ {0} /\ N = 2 * p /\ Val({m}) = N * N /\ Val({m - 1}) = N * p
  <2>1. p \in Nat \ {0} /\ N = 2 * p
    <3>1. {} \in Words(n)
      BY DEF Words
    <3> QED BY <3>1, SignedRange
  <2> HIDE DEF m
  <2>2. Val({m}) = Val({n}) * Val({m - n})
    BY <1>1, PowerProduct, Zenon
  <2>3. Val({m - 1}) = Val({n}) * Val({(m - 1) - n})
    BY <1>1, PowerProduct, Zenon
  <2> QED BY <1>1, <2>1, <2>2, <2>3
<1>4. Xs \in Words(m) /\ Ys \in Words(m) /\ Signed(m, Xs) = sx /\ Signed(m, Ys) = sy
  <2> HIDE DEF m
  <2> QED BY <1>1, SignExtKeeps
<1>5. /\ Same(Val({m}), Val(Xs), sx) /\ Same(Val({m}), Val(Ys), sy)
      /\ Same(Val({m}), Val(x), vx) /\ Same(Val({m}), Val(y), vy)
  <2> HIDE DEF m, Xs, Ys
  <2>1. \A w \in Words(m) : Same(Val({m}), Val(w), Signed(m, w)) /\ Same(Val({m}), Val(w), Val(w))
    <3> SUFFICES ASSUME NEW w \in Words(m)
                 PROVE  Same(Val({m}), Val(w), Signed(m, w)) /\ Same(Val({m}), Val(w), Val(w))
      OBVIOUS
    <3>1. Same(Val({m}), Signed(m, w), Val(w))
      BY <1>1, WordsAreModular
    <3>2. Val({m}) \in Int
      BY <1>1, PowerIsNat
    <3>3. Val(w) \in Nat /\ Signed(m, w) \in Int
      BY <1>1, SignedRange, Zenon
    <3>4. Val(w) \in Int
      BY <3>3
    <3> QED BY <3>1, <3>2, <3>3, <3>4, SameIsEquivalence
  <2> QED BY <1>2, <1>4, <2>1
<1>6. Trunc(n, Xs) = x /\ Trunc(n, Ys) = y /\ Trunc(n, x) = x /\ Trunc(n, y) = y
  <2>1. \A i \in n..(m - 1) : i \notin Bits(n)
    BY DEF Bits
  <2> HIDE DEF m
  <2> QED BY <2>1 DEF Trunc, SignExt, Words
<1>7. /\ sx \in Int /\ sy \in Int /\ vx \in Int /\ vy \in Int
      /\ sx >= -p /\ sx < p /\ sy >= -p /\ sy < p
      /\ vx >= 0 /\ vx < N /\ vy >= 0 /\ vy < N
  <2>1. \A w \in {x, y} : /\ Signed(n, w) \in Int /\ Signed(n, w) >= -p /\ Signed(n, w) < p
                          /\ Val(w) \in Nat /\ Val(w) < 2 * p
    BY SignedRange
  <2> HIDE DEF p, N
  <2> QED BY <1>3, <2>1
<1> HIDE DEF m, Xs, Ys, N, p, sx, sy, vx, vy
<1>8. /\ sx * sy >= -Val({m - 1}) /\ sx * sy < Val({m - 1})
      /\ sx * vy >= -Val({m - 1}) /\ sx * vy < Val({m - 1})
      /\ vx * vy \in 0..(Val({m}) - 1)
  <2>0. sx < 2 * p /\ sy < 2 * p /\ vx < 2 * p /\ vy < 2 * p /\ vx >= -p /\ vy >= -p
    BY <1>3, <1>7
  <2>1. sx * sy >= -(N * p) /\ sx * sy < N * p
    BY <1>3, <1>7, <2>0, ProductsFit
  <2>2. sx * vy >= -(N * p) /\ sx * vy < N * p
    BY <1>3, <1>7, <2>0, ProductsFit
  <2>3. vx * vy \in 0..(N * N - 1)
    BY <1>3, <1>7, <2>0, ProductsFit
  <2> QED BY <1>3, <2>1, <2>2, <2>3
<1>9. /\ Mul(n, x, y) \in Words(n) /\ ShiftR(n, Mul(m, Xs, Ys), n) \in Words(n)
      /\ sx * sy = Val(Mul(n, x, y)) + N * Signed(n, ShiftR(n, Mul(m, Xs, Ys), n))
  BY <1>4, <1>5, <1>6, <1>7, <1>8, Halves DEF m, N
<1>10. /\ ShiftR(n, Mul(m, Xs, y), n) \in Words(n)
       /\ sx * vy = Val(Mul(n, x, y)) + N * Signed(n, ShiftR(n, Mul(m, Xs, y), n))
  BY <1>2, <1>4, <1>5, <1>6, <1>7, <1>8, Halves DEF m, N
<1>11. /\ ShiftR(n, Mul(m, x, y), n) \in Words(n)
       /\ vx * vy = Val(Mul(n, x, y)) + N * Val(ShiftR(n, Mul(m, x, y), n))
  BY <1>2, <1>5, <1>6, <1>7, <1>8, Halves DEF m, N
<1> QED BY <1>9, <1>10, <1>11 DEF m, N, Xs, Ys, sx, sy, vx, vy

\* MULH, MULHSU and MULHU with MUL are one product (exec_alu_reg).
THEOREM ProductHalvesHolds ==
  ASSUME BYTE \in 1..8
  PROVE  ASpec => []ProductHalves
<1>1. ResultsAreComputed => ProductHalves
  <2> SUFFICES ASSUME ResultsAreComputed, Done32 PROVE ProductHalves
    BY DEF ProductHalves
  <2> DEFINE hs == res32["MULH"]
             hsu == res32["MULHSU"]
             hu == res32["MULHU"]
             l == res32["MUL"]
  <2>1. /\ a \in Words(WORD) /\ b \in Words(WORD)
        /\ hs = The(A32!alu_reg("MULH", a, b)) /\ hsu = The(A32!alu_reg("MULHSU", a, b))
        /\ hu = The(A32!alu_reg("MULHU", a, b)) /\ l = The(A32!alu_reg("MUL", a, b))
    BY DEF ResultsAreComputed, RegOps
  <2>2. /\ hs = ShiftR(WORD, Mul(2 * WORD, SignExt(WORD, 2 * WORD, a), SignExt(WORD, 2 * WORD, b)), WORD)
        /\ hsu = ShiftR(WORD, Mul(2 * WORD, SignExt(WORD, 2 * WORD, a), b), WORD)
        /\ hu = ShiftR(WORD, Mul(2 * WORD, a, b), WORD)
        /\ l = Mul(WORD, a, b)
    BY <2>1, Results32
  <2> HIDE DEF hs, hsu, hu, l
  <2>3. WORD \in Nat \ {0}
    BY Widths
  <2>4. /\ l \in Words(WORD) /\ hs \in Words(WORD) /\ hsu \in Words(WORD) /\ hu \in Words(WORD)
        /\ Signed(WORD, a) * Signed(WORD, b) = Val(l) + Val({WORD}) * Signed(WORD, hs)
        /\ Signed(WORD, a) * Val(b) = Val(l) + Val({WORD}) * Signed(WORD, hsu)
        /\ Val(a) * Val(b) = Val(l) + Val({WORD}) * Val(hu)
    BY <2>1, <2>2, <2>3, HighHalves
  <2>5. /\ S(a) = Signed(WORD, a) /\ S(b) = Signed(WORD, b) /\ U(a) = Val(a) /\ U(b) = Val(b)
        /\ SVal(WORD, hs) = Signed(WORD, hs) /\ SVal(WORD, hsu) = Signed(WORD, hsu)
    BY <2>1, <2>4, SignedIs DEF S, U
  <2>6. /\ Val({WORD}) = 2^WORD /\ 2^WORD \in Nat
        /\ Signed(WORD, hs) \in Int /\ Signed(WORD, hsu) \in Int /\ Val(hu) \in Int /\ Val(l) \in Int
    BY <2>4, SignedIs
  <2>7. /\ Signed(WORD, hs) * 2^WORD + Val(l) = Signed(WORD, a) * Signed(WORD, b)
        /\ Signed(WORD, hsu) * 2^WORD + Val(l) = Signed(WORD, a) * Val(b)
        /\ Val(hu) * 2^WORD + Val(l) = Val(a) * Val(b)
    <3> DEFINE N == 2^WORD
               i == Signed(WORD, hs)
               j == Signed(WORD, hsu)
               k == Val(hu)
               v == Val(l)
    <3>1. N \in Int /\ i \in Int /\ j \in Int /\ k \in Int /\ v \in Int
      BY <2>6
    <3>2. /\ Signed(WORD, a) * Signed(WORD, b) = v + N * i
          /\ Signed(WORD, a) * Val(b) = v + N * j
          /\ Val(a) * Val(b) = v + N * k
      BY <2>4, <2>6, Zenon
    <3> HIDE DEF N, i, j, k, v
    <3>3. v + N * i = i * N + v /\ v + N * j = j * N + v /\ v + N * k = k * N + v
      BY <3>1
    <3>4. i * N + v = Signed(WORD, a) * Signed(WORD, b) /\ j * N + v = Signed(WORD, a) * Val(b) /\ k * N + v = Val(a) * Val(b)
      BY <3>2, <3>3, Zenon
    <3> QED BY <3>4, Zenon DEF N, i, j, k, v
  <2> QED BY <2>5, <2>7, Zenon DEF ProductHalves, hs, hsu, hu, l
<1> QED BY <1>1, ResultsHold, PTL

-----------------------------------------------------------------------------
(* Sums, shifts and comparisons *)

\* XLEN - 1 is a mask of low bits.
LEMMA ShiftMask ==
  ASSUME BYTE \in {1, 2, 4, 8}
  PROVE  \E d \in 2..5 : Num(WORD - 1) = Bits(d) /\ 2^d = WORD
<1>1. \A d \in 2..5 : Num(2^d - 1) = Bits(d)
  <2> SUFFICES ASSUME NEW d \in 2..5 PROVE Num(2^d - 1) = Bits(d)
    OBVIOUS
  <2>1. 2^d - 1 \in Nat /\ 2^d - 1 < 2^31
    <3>1. 2^2 = 4 /\ 2^3 = 8 /\ 2^4 = 16 /\ 2^5 = 32 /\ 32 < 2^31 /\ 2^31 \in Nat
      BY SMT
    <3>2. d = 2 \/ d = 3 \/ d = 4 \/ d = 5
      OBVIOUS
    <3>3. 2^d \in {4, 8, 16, 32}
      BY <3>1, <3>2
    <3> DEFINE e == 2^d
               f == 2^31
    <3>4. e \in {4, 8, 16, 32} /\ 32 < f /\ f \in Nat
      BY <3>1, <3>3, Zenon
    <3> HIDE DEF e, f
    <3>5. e - 1 \in Nat /\ e - 1 < f
      BY <3>4
    <3> QED BY <3>5, Zenon DEF e, f
  <2>2. Num(2^d - 1) \in Words(31) /\ Val(Num(2^d - 1)) = 2^d - 1
    BY <2>1, ValNum, Zenon
  <2>3. Bits(d) \in Words(31) /\ d \in Nat /\ d \in 0..32
    BY DEF Words, Bits
  <2>4. Val(Bits(d)) = Val({d}) - 1
    BY <2>3, ValOnes, Zenon
  <2>5. Val({d}) = 2^d
    BY <2>3, ValPower, Zenon
  <2>6. 31 \in Nat
    OBVIOUS
  <2>7. Val(Num(2^d - 1)) = Val(Bits(d))
    BY <2>2, <2>4, <2>5, Zenon
  <2> QED BY <2>2, <2>3, <2>6, <2>7, ValInjective, Zenon
<1>2. \E d \in 2..5 : 2^d = WORD
  <2>1. 2^2 = 4 /\ 2^3 = 8 /\ 2^4 = 16 /\ 2^5 = 32
    OBVIOUS
  <2>2. WORD = 4 \/ WORD = 8 \/ WORD = 16 \/ WORD = 32
    BY DEF WORD
  <2> QED BY <2>1, <2>2
<1> QED BY <1>1, <1>2, Zenon

\* b & (XLEN-1) is b mod XLEN.
LEMMA ShiftAmount ==
  ASSUME BYTE \in {1, 2, 4, 8}, NEW z
  PROVE  /\ A32!Shamt(z, WORD) = U(z) % WORD /\ Shamt(z, WORD) = U(z) % WORD
         /\ U(z) % WORD \in 0..(WORD - 1) /\ 2^(U(z) % WORD) = Val({U(z) % WORD})
<1> DEFINE y == Trunc(WORD, z)
           k == Val(z \cap Num(WORD - 1))
<1>1. A32!Shamt(z, WORD) = k /\ Shamt(z, WORD) = k
  BY SameWords32, Zenon DEF A32!Shamt, Shamt
<1>2. PICK d \in 2..5 : Num(WORD - 1) = Bits(d) /\ 2^d = WORD
  BY ShiftMask
<1>3. d \in Nat /\ d \in 0..32 /\ Val({d}) = WORD
  <2>1. d \in 0..32 /\ d \in Nat
    OBVIOUS
  <2>2. Val({d}) = 2^d
    BY <2>1, ValPower, Zenon
  <2> QED BY <1>2, <2>1, <2>2, Zenon
<1>4. WORD \in 4..32 /\ WORD \in Nat \ {0} /\ WORD \in Nat /\ d \in 0..WORD
  <2>1. WORD \in 4..32 /\ WORD \in Nat \ {0} /\ WORD \in Nat
    BY DEF WORD
  <2>2. 2^5 = 32 /\ (d = 2 \/ d = 3 \/ d = 4 \/ d = 5)
    OBVIOUS
  <2>3. d = 5 => WORD = 32
    BY <1>2, <2>2, Zenon
  <2> QED BY <2>1, <2>2, <2>3
<1>5. y \in Words(WORD)
  BY DEF Trunc, Words
<1>6. z \cap Num(WORD - 1) = Trunc(d, y)
  BY <1>2, <1>4 DEF Trunc, Bits
<1> HIDE DEF y
<1>7. Same(WORD, Val(y), Val(Trunc(d, y)))
  BY <1>3, <1>4, <1>5, TruncIsModulo, Zenon
<1>8. Val(Trunc(d, y)) \in 0..(WORD - 1)
  <2>1. Trunc(d, y) \in Words(d)
    BY DEF Trunc, Words
  <2>2. Val(Trunc(d, y)) \in Nat /\ Val(Trunc(d, y)) < WORD
    BY <1>3, <2>1, ValRange
  <2> QED BY <1>4, <2>2
<1>9. Val(y) \in Int
  <2>1. Val(y) \in Nat
    BY <1>4, <1>5, ValRange, Zenon
  <2> QED BY <2>1
<1>10. Val(y) % WORD = Val(Trunc(d, y))
  BY <1>4, <1>7, <1>8, <1>9, SameIsEqual, Zenon
<1>11. U(z) % WORD = k
  BY <1>6, <1>10, Zenon DEF U, y
<1>12. k \in 0..(WORD - 1)
  BY <1>6, <1>8, Zenon
<1> HIDE DEF k
<1>13. k \in 0..32
  BY <1>4, <1>12
<1>14. 2^k = Val({k})
  BY <1>13, ValPower, Zenon
<1> QED BY <1>1, <1>11, <1>12, <1>14, Zenon

\* +, - and * of words are those of signed numbers, wrapped.
LEMMA Sums ==
  ASSUME NEW n \in Nat \ {0}, NEW x \in Words(n), NEW y \in Words(n)
  PROVE  LET N == Val({n})
         IN /\ Val(Add(n, x, y)) = (Signed(n, x) + Signed(n, y)) % N
            /\ Val(Sub(n, x, y)) = (Signed(n, x) - Signed(n, y)) % N
            /\ Val(Mul(n, x, y)) = (Signed(n, x) * Signed(n, y)) % N
<1> DEFINE N == Val({n})
           sx == Signed(n, x)
           sy == Signed(n, y)
<1>1. n \in Nat /\ N \in Int
  <2>1. n \in Nat
    OBVIOUS
  <2> QED BY <2>1, PowerIsNat
<1>2. \A w \in Words(n) : Val(w) \in Int /\ Signed(n, w) \in Int /\ Same(N, Val(w), Signed(n, w))
  <2> SUFFICES ASSUME NEW w \in Words(n) PROVE Val(w) \in Int /\ Signed(n, w) \in Int /\ Same(N, Val(w), Signed(n, w))
    OBVIOUS
  <2> HIDE DEF N
  <2>1. Val(w) \in Nat /\ Signed(n, w) \in Int
    BY SignedRange, Zenon
  <2>2. Val(w) \in Int
    BY <2>1
  <2>3. Same(N, Signed(n, w), Val(w))
    BY <1>1, WordsAreModular DEF N
  <2> QED BY <1>1, <2>1, <2>2, <2>3, SameIsEquivalence
<1>3. \A w \in Words(n), i, j \in Int : Same(N, Val(w), i) /\ Same(N, i, j) => Val(w) = j % N
  <2> HIDE DEF N
  <2> SUFFICES ASSUME NEW w \in Words(n), NEW i \in Int, NEW j \in Int, Same(N, Val(w), i), Same(N, i, j)
               PROVE  Val(w) = j % N
    OBVIOUS
  <2>1. Same(N, Val(w), j)
    BY <1>1, <1>2, SameIsEquivalence
  <2> QED BY <2>1, WordIsTheNumber DEF N
<1>4. Add(n, x, y) \in Words(n) /\ Sub(n, x, y) \in Words(n) /\ Mul(n, x, y) \in Words(n)
  BY <1>1, AddIsWord, SubIsWord, ValMul
<1>5. /\ Same(N, Val(Add(n, x, y)), Val(x) + Val(y))
      /\ Same(N, Val(Sub(n, x, y)), Val(x) - Val(y))
      /\ Same(N, Val(Mul(n, x, y)), Val(x) * Val(y))
  BY <1>1, WordsAreModular DEF N
<1> HIDE DEF N, sx, sy
<1>6. /\ Val(x) \in Int /\ Val(y) \in Int /\ sx \in Int /\ sy \in Int
      /\ Same(N, Val(x), sx) /\ Same(N, Val(y), sy)
  BY <1>2 DEF sx, sy
<1>7. Same(N, Val(x) + Val(y), sx + sy) /\ Same(N, Val(x) - Val(y), sx - sy) /\ Same(N, Val(x) * Val(y), sx * sy)
  BY <1>1, <1>6, SameArithmetic
<1>8. /\ Val(x) + Val(y) \in Int /\ Val(x) - Val(y) \in Int /\ Val(x) * Val(y) \in Int
      /\ sx + sy \in Int /\ sx - sy \in Int /\ sx * sy \in Int
  BY <1>6
<1>9. /\ Val(Add(n, x, y)) = (sx + sy) % N /\ Val(Sub(n, x, y)) = (sx - sy) % N
      /\ Val(Mul(n, x, y)) = (sx * sy) % N
  BY <1>3, <1>4, <1>5, <1>7, <1>8, Zenon
<1> QED BY <1>9, Zenon DEF N, sx, sy

\* Shifts multiply and divide by powers of 2.
LEMMA Shifts ==
  ASSUME NEW n \in Nat \ {0}, NEW x \in Words(n), NEW k \in 0..(n - 1)
  PROVE  /\ ShiftL(n, x, k) \in Words(n) /\ ShiftR(n, x, k) \in Words(n) /\ ShiftRA(n, x, k) \in Words(n)
         /\ Val(ShiftL(n, x, k)) = (Val(x) * Val({k})) % Val({n})
         /\ Val(ShiftR(n, x, k)) = Val(x) \div Val({k})
         /\ Signed(n, ShiftRA(n, x, k)) = Signed(n, x) \div Val({k})
<1>1. n \in Nat /\ k \in 0..n /\ k \in Nat
  OBVIOUS
<1>2. ShiftL(n, x, k) \in Words(n) /\ ShiftR(n, x, k) \in Words(n) /\ ShiftRA(n, x, k) \in Words(n)
  BY DEF ShiftL, ShiftR, ShiftRA, Words
<1>3. Val(x) \in Nat /\ Val({k}) \in Nat \ {0}
  BY <1>1, ValRange, PowerIsNat
<1>4. Val(ShiftL(n, x, k)) = (Val(x) * Val({k})) % Val({n})
  <2>1. Same(Val({n}), Val(ShiftL(n, x, k)), Val(x) * Val({k}))
    BY <1>1, WordsAreModular
  <2>2. Val(x) * Val({k}) \in Int
    BY <1>3
  <2> QED BY <1>2, <2>1, <2>2, WordIsTheNumber, Zenon
<1>5. Val(ShiftR(n, x, k)) = Val(x) \div Val({k})
  <2> DEFINE low == Val(Trunc(k, x))
             f == From(x)[k]
             Y == Val({k})
             X == Val(x)
  <2>1. X = low + Y * f
    BY <1>1, Splits, Zenon
  <2>2. Val(ShiftR(n, x, k)) = f
    BY <1>1, ValShiftR
  <2>3. low \in 0..(Y - 1)
    <3>1. Trunc(k, x) \in Words(k)
      BY DEF Trunc, Words
    <3>2. low \in Nat /\ low < Y
      BY <1>1, <3>1, ValRange
    <3> HIDE DEF low, Y
    <3> QED BY <1>3, <3>2 DEF Y
  <2>4. f \in Int
    BY <1>1, FromStep
  <2> HIDE DEF low, f, Y, X
  <2>5. X \in Int /\ Y \in Nat \ {0} /\ X = Y * f + low
    BY <1>3, <2>1, <2>3, <2>4 DEF X, Y
  <2>6. X \div Y = f
    BY <2>3, <2>4, <2>5, QuotientIs, Zenon
  <2> QED BY <2>2, <2>6 DEF X, Y
<1>6. Signed(n, ShiftRA(n, x, k)) = Signed(n, x) \div Val({k})
  BY SignedShiftRA, Zenon
<1> QED BY <1>2, <1>4, <1>5, <1>6, Zenon

\* What the properties say of each operation, on words.
LEMMA ArithmeticOfResults ==
  ASSUME BYTE \in {1, 2, 4, 8}, NEW x \in Words(WORD), NEW y \in Words(WORD), NEW k \in 0..(WORD - 1)
  PROVE  /\ LtS(WORD, x, y) <=> S(x) - S(y) < 0
         /\ LtU(x, y) <=> Val(Sub(WORD, x, y)) # U(x) - U(y)
         /\ Wraps(S(x) + S(y), Add(WORD, x, y)) /\ Wraps(S(x) - S(y), Sub(WORD, x, y))
         /\ Wraps(S(x) * S(y), Mul(WORD, x, y))
         /\ Wraps(U(x) * Val({k}), ShiftL(WORD, x, k))
         /\ Val(ShiftR(WORD, x, k)) = U(x) \div Val({k}) /\ U(ShiftR(WORD, x, k)) = U(x) \div Val({k})
         /\ S(ShiftRA(WORD, x, k)) = S(x) \div Val({k})
         /\ \A w \in {Add(WORD, x, y), Sub(WORD, x, y), Mul(WORD, x, y), ShiftL(WORD, x, k),
                      ShiftR(WORD, x, k), ShiftRA(WORD, x, k)} : w \in Words(WORD)
<1> USE BYTE \in 1..8
<1>1. WORD \in Nat \ {0} /\ WORD \in Nat
  BY Widths
<1>2. \A w \in Words(WORD) : S(w) = Signed(WORD, w) /\ U(w) = Val(w) /\ Trunc(WORD, w) = w
  BY SignedIs DEF S, U
<1>3. Val({WORD}) = 2^WORD
  BY SignedIs
<1>4. /\ ShiftL(WORD, x, k) \in Words(WORD) /\ ShiftR(WORD, x, k) \in Words(WORD)
      /\ ShiftRA(WORD, x, k) \in Words(WORD)
      /\ Val(ShiftL(WORD, x, k)) = (Val(x) * Val({k})) % 2^WORD
      /\ Val(ShiftR(WORD, x, k)) = Val(x) \div Val({k})
      /\ Signed(WORD, ShiftRA(WORD, x, k)) = Signed(WORD, x) \div Val({k})
  BY <1>1, <1>3, Shifts, Zenon
<1>5. /\ Add(WORD, x, y) \in Words(WORD) /\ Sub(WORD, x, y) \in Words(WORD) /\ Mul(WORD, x, y) \in Words(WORD)
  BY <1>1, AddIsWord, SubIsWord, ValMul
<1>6. /\ Val(Add(WORD, x, y)) = (Signed(WORD, x) + Signed(WORD, y)) % 2^WORD
      /\ Val(Sub(WORD, x, y)) = (Signed(WORD, x) - Signed(WORD, y)) % 2^WORD
      /\ Val(Mul(WORD, x, y)) = (Signed(WORD, x) * Signed(WORD, y)) % 2^WORD
  BY <1>1, <1>3, Sums, Zenon
<1>7. LtS(WORD, x, y) <=> S(x) - S(y) < 0
  <2>1. LtS(WORD, x, y) <=> Signed(WORD, x) < Signed(WORD, y)
    BY <1>1, SignedOrder
  <2>2. Signed(WORD, x) \in Int /\ Signed(WORD, y) \in Int
    BY SignedIs
  <2> QED BY <1>2, <2>1, <2>2
<1>8. LtU(x, y) <=> Val(Sub(WORD, x, y)) # U(x) - U(y)
  <2> DEFINE s == Val(Sub(WORD, x, y))
             N == Val({WORD})
  <2>1. LtU(x, y) <=> Val(x) < Val(y)
    BY <1>1, ValOrder
  <2>2. Val(x) \in Nat /\ Val(y) \in Nat /\ s \in Nat /\ Val(x) < N /\ N \in Nat
    BY <1>1, <1>5, ValRange, PowerIsNat
  <2>3. Same(N, s, Val(x) - Val(y))
    BY <1>1, WordsAreModular
  <2>4. Val(x) - Val(y) \in 0..(N - 1) => s = Val(x) - Val(y)
    <3>1. Val(x) - Val(y) \in Int
      BY <2>2
    <3> QED BY <1>1, <1>5, <2>3, <3>1, WordIsTheNumber, Zenon
  <2> HIDE DEF s, N
  <2>5. LtU(x, y) <=> s # Val(x) - Val(y)
    BY <2>1, <2>2, <2>4
  <2> QED BY <1>2, <2>5, Zenon DEF s
<1>9. /\ Wraps(S(x) + S(y), Add(WORD, x, y)) /\ Wraps(S(x) - S(y), Sub(WORD, x, y))
      /\ Wraps(S(x) * S(y), Mul(WORD, x, y))
  BY <1>2, <1>5, <1>6, Zenon DEF Wraps
<1>10. /\ Wraps(U(x) * Val({k}), ShiftL(WORD, x, k))
       /\ Val(ShiftR(WORD, x, k)) = U(x) \div Val({k}) /\ U(ShiftR(WORD, x, k)) = U(x) \div Val({k})
       /\ S(ShiftRA(WORD, x, k)) = S(x) \div Val({k})
  BY <1>2, <1>4, Zenon DEF Wraps
<1> QED BY <1>4, <1>5, <1>7, <1>8, <1>9, <1>10, Zenon

\* Comparisons, sums and shifts agree on every pair of operands (exec_alu_reg).
THEOREM ArithmeticAgreesHolds ==
  ASSUME BYTE \in {1, 2, 4, 8}
  PROVE  ASpec => []ArithmeticAgrees
<1>1. ResultsAreComputed => ArithmeticAgrees
  <2> SUFFICES ASSUME ResultsAreComputed, Done32 PROVE ArithmeticAgrees
    BY DEF ArithmeticAgrees
  <2> DEFINE k == U(b) % WORD
             f == Val({k})
  <2>1. a \in Words(WORD) /\ b \in Words(WORD) /\ \A op \in RegOps : res32[op] = The(A32!alu_reg(op, a, b))
    BY DEF ResultsAreComputed
  <2>2. A32!Shamt(b, WORD) = k /\ k \in 0..(WORD - 1) /\ 2^k = f
    BY ShiftAmount, Zenon
  <2>3. /\ {"ADD", "SUB", "SLL", "SLT", "SLTU", "SRL", "SRA"} \subseteq RegOps
    BY DEF RegOps
  <2> HIDE DEF k
  <2>4. /\ res32["ADD"] = Add(WORD, a, b) /\ res32["SUB"] = Sub(WORD, a, b)
        /\ res32["SLL"] = ShiftL(WORD, a, k) /\ res32["SRL"] = ShiftR(WORD, a, k)
        /\ res32["SRA"] = ShiftRA(WORD, a, k)
    BY <2>1, <2>2, <2>3, Results32
  <2>5. /\ res32["SLT"] = (IF LtS(WORD, a, b) THEN {0} ELSE {})
        /\ res32["SLTU"] = (IF LtU(a, b) THEN {0} ELSE {})
    <3>1. /\ res32["SLT"] = The(A32!alu_reg("SLT", a, b))
          /\ res32["SLTU"] = The(A32!alu_reg("SLTU", a, b))
      BY <2>1, <2>3
    <3>2. The(A32!alu_reg("SLT", a, b)) = (IF LtS(WORD, a, b) THEN {0} ELSE {})
      BY Results32
    <3>3. The(A32!alu_reg("SLTU", a, b)) = (IF LtU(a, b) THEN {0} ELSE {})
      BY Results32
    <3> QED BY <3>1, <3>2, <3>3, Zenon
  <2>6. /\ (res32["SLT"] = {0}) <=> LtS(WORD, a, b)
        /\ (res32["SLTU"] = {0}) <=> LtU(a, b)
    <3>1. {0} # {}
      OBVIOUS
    <3> QED BY <2>5, <3>1, Zenon
  <2>7. /\ LtS(WORD, a, b) <=> S(a) - S(b) < 0
        /\ LtU(a, b) <=> Val(Sub(WORD, a, b)) # U(a) - U(b)
        /\ Wraps(S(a) + S(b), Add(WORD, a, b))
        /\ Wraps(U(a) * f, ShiftL(WORD, a, k))
        /\ Val(ShiftR(WORD, a, k)) = U(a) \div f
        /\ S(ShiftRA(WORD, a, k)) = S(a) \div f
    BY <2>1, <2>2, ArithmeticOfResults, Zenon
  <2> HIDE DEF f
  <2>8. /\ (res32["SLT"] = {0}) <=> S(a) - S(b) < 0
        /\ (res32["SLTU"] = {0}) <=> Val(res32["SUB"]) # U(a) - U(b)
        /\ Wraps(S(a) + S(b), res32["ADD"])
        /\ Wraps(U(a) * 2^k, res32["SLL"])
        /\ Val(res32["SRL"]) = U(a) \div 2^k
        /\ S(res32["SRA"]) = S(a) \div 2^k
    BY <2>2, <2>4, <2>6, <2>7, Zenon
  <2> QED BY <2>8, Zenon DEF ArithmeticAgrees, k
<1> QED BY <1>1, ResultsHold, PTL

\* W operations use low halves and leave sign-extended results (exec_rv64).
THEOREM WordResultsAreSignedHolds ==
  ASSUME BYTE \in {1, 2, 4, 8}
  PROVE  ASpec => []WordResultsAreSigned
<1>1. ResultsAreComputed => WordResultsAreSigned
  <2> SUFFICES ASSUME ResultsAreComputed, Done64 PROVE WordResultsAreSigned
    BY DEF WordResultsAreSigned
  <2> DEFINE x == Trunc(WORD, a)
             y == Trunc(WORD, b)
             k == U(b) % WORD
             f == Val({k})
             q == DivResult(x, y)
             r == RemResult(x, y)
  <2>1. /\ \A op \in WordOps : res64[op] = The(alu_reg(op, a, b))
        /\ \A op \in Rv64Ops : res64[op] = rv64_word(op, a, b, {})
    BY DEF ResultsAreComputed
  <2>2. Shamt(b, WORD) = k /\ k \in 0..(WORD - 1) /\ 2^k = f
    BY ShiftAmount, Zenon
  <2>3. x \in Words(WORD) /\ y \in Words(WORD) /\ S(x) = S(a) /\ S(y) = S(b) /\ U(x) = U(a)
    BY OnlyTheLowHalf, Zenon
  <2>4. {"MULW", "DIVW", "REMW"} \subseteq WordOps /\ {"ADDW", "SUBW", "SLLW", "SRLW", "SRAW"} \subseteq Rv64Ops
    BY DEF WordOps, Rv64Ops
  <2> HIDE DEF k
  <2>5. /\ res64["ADDW"] = Extended(Add(WORD, x, y)) /\ res64["SUBW"] = Extended(Sub(WORD, x, y))
        /\ res64["MULW"] = Extended(Mul(WORD, x, y)) /\ res64["SLLW"] = Extended(ShiftL(WORD, x, k))
        /\ res64["SRLW"] = Extended(ShiftR(WORD, x, k)) /\ res64["SRAW"] = Extended(ShiftRA(WORD, x, k))
    BY <2>1, <2>2, <2>4, Results64
  <2>6. res64["DIVW"] = Extended(q) /\ res64["REMW"] = Extended(r)
    BY <2>1, <2>4, Results64
  <2> HIDE DEF x, y, f
  <2>7. q \in Words(WORD) /\ r \in Words(WORD)
    <3>1. BYTE \in 1..8
      OBVIOUS
    <3> QED BY <2>3, <3>1, Quotient, Zenon
  <2> HIDE DEF q, r
  <2>8. /\ Wraps(S(x) + S(y), Add(WORD, x, y)) /\ Wraps(S(x) - S(y), Sub(WORD, x, y))
        /\ Wraps(S(x) * S(y), Mul(WORD, x, y))
        /\ Wraps(U(x) * f, ShiftL(WORD, x, k)) /\ U(ShiftR(WORD, x, k)) = U(x) \div f
        /\ S(ShiftRA(WORD, x, k)) = S(x) \div f
        /\ \A w \in {Add(WORD, x, y), Sub(WORD, x, y), Mul(WORD, x, y), ShiftL(WORD, x, k),
                     ShiftR(WORD, x, k), ShiftRA(WORD, x, k)} : w \in Words(WORD)
    BY <2>2, <2>3, ArithmeticOfResults, Zenon DEF f
  <2>9. \A w \in Words(WORD) : /\ S(Extended(w)) = S(w) /\ U(Extended(w)) = U(w)
                               /\ Extended(w) = SignExt(WORD, 2 * WORD, Trunc(WORD, Extended(w)))
                               /\ \A i : Wraps(i, w) => Wraps(i, Extended(w))
    BY ExtendedKeeps, Zenon DEF S, U, Wraps, Extended
  <2>10. \A op \in SignedWordOps : res64[op] = SignExt(WORD, 2 * WORD, Trunc(WORD, res64[op]))
    <3>1. \A op \in SignedWordOps : op \in {"MULW", "DIVW", "REMW", "ADDW", "SUBW", "SLLW", "SRLW", "SRAW"}
      BY DEF SignedWordOps, WordOps, Rv64Ops
    <3>2. \A op \in {"MULW", "DIVW", "REMW", "ADDW", "SUBW", "SLLW", "SRLW", "SRAW"} :
            \E w \in Words(WORD) : res64[op] = Extended(w)
      BY <2>5, <2>6, <2>7, <2>8
    <3> QED BY <2>9, <3>1, <3>2, Zenon
  <2>11. /\ Wraps(S(a) + S(b), res64["ADDW"]) /\ Wraps(S(a) - S(b), res64["SUBW"])
         /\ Wraps(S(a) * S(b), res64["MULW"])
    BY <2>3, <2>5, <2>8, <2>9, Zenon
  <2>12. /\ Wraps(U(a) * 2^k, res64["SLLW"]) /\ U(res64["SRLW"]) = U(a) \div 2^k
         /\ S(res64["SRAW"]) = S(a) \div 2^k
    BY <2>2, <2>3, <2>5, <2>8, <2>9, Zenon
  <2> QED BY <2>10, <2>11, <2>12, Zenon DEF WordResultsAreSigned, k
<1> QED BY <1>1, ResultsHold, PTL

-----------------------------------------------------------------------------
(* Floating point *)

\* The formats of the run are formats.
LEMMA FormatsAreFormats == Format(Short) /\ Format(Long)
BY WidthAssumption, FormatAssumption DEF Format, Short, Long, WORD

\* ShortUnits and LongUnits count the units of every number of their format.
LEMMA UnitsAreUnits ==
  /\ \A x \in Words(Width(Short)) : Number(Short, x) => x \in DOMAIN ShortUnits /\ ShortUnits[x] = Units(Short, x)
  /\ \A x \in Words(Width(Long)) : Number(Long, x) => x \in DOMAIN LongUnits /\ LongUnits[x] = Units(Long, x)
BY DEF ShortUnits, LongUnits, Numbers

\* The order of one-bit words.
LEMMA OrderOfBits ==
  ASSUME NEW i \in Int, NEW j \in Int
  PROVE  LtU({i}, {j}) <=> i < j
BY DEF LtU

\* FLT, FLE, FEQ, FMIN, FMAX and FCLASS agree with the values of the
\* patterns, whatever the format (exec_float_single, exec_float_double).
THEOREM FloatsAreOrderedHolds == ASpec => []FloatsAreOrdered
<1>1. ResultsAreComputed => FloatsAreOrdered
  <2> SUFFICES ASSUME ResultsAreComputed, resf # <<>> PROVE FloatsAreOrdered
    BY DEF FloatsAreOrdered
  <2> DEFINE u == Units(Short, a)
             w == Units(Short, b)
             both == Number(Short, a) /\ Number(Short, b)
             c == ClassOf(Short, a)
             d == ClassOf(Short, b)
             class(x) == resf.class[x]
             Says(op) == resf.compare[op] = {0}
  <2>1. a \in Words(Width(Short)) /\ b \in Words(Width(Short)) /\ resf = FloatResults /\ Format(Short)
    BY FormatsAreFormats, Zenon DEF ResultsAreComputed
  <2>2. /\ \A op \in CompareOps : resf.compare[op] = The(integer_results(Short, op, a, b))
        /\ \A x \in {a, b} : resf.class[x] = The(integer_results(Short, "FCLASS", x, {}))
        /\ \A op \in FloatOps : resf.arith[op] = float_results(Short, op, a, b, {})
    BY <2>1 DEF FloatResults
  <2>3. class(a) = {c} /\ class(b) = {d}
    <3>1. \A x : integer_results(Short, "FCLASS", x, {}) = {fclass(Short, x)}
      BY DEF integer_results
    <3> QED BY <2>2, <3>1, ClassIs, TheOne, Zenon
  <2>4. /\ Says("FLT") <=> Less(Short, a, b)
        /\ Says("FLE") <=> Less(Short, a, b) \/ Equal(Short, a, b)
        /\ Says("FEQ") <=> Equal(Short, a, b)
    <3>1. /\ integer_results(Short, "FEQ", a, b) = {Flag(Equal(Short, a, b))}
          /\ integer_results(Short, "FLT", a, b) = {Flag(Less(Short, a, b))}
          /\ integer_results(Short, "FLE", a, b) = {Flag(Less(Short, a, b) \/ Equal(Short, a, b))}
      BY DEF integer_results
    <3>2. "FEQ" \in CompareOps /\ "FLT" \in CompareOps /\ "FLE" \in CompareOps
      BY DEF CompareOps
    <3>3. \A t \in BOOLEAN : Flag(t) = {0} <=> t
      BY DEF Flag, One
    <3>4. /\ Equal(Short, a, b) \in BOOLEAN /\ Less(Short, a, b) \in BOOLEAN
          /\ (Less(Short, a, b) \/ Equal(Short, a, b)) \in BOOLEAN
      BY DEF Equal, Less
    <3>5. /\ resf.compare["FEQ"] = Flag(Equal(Short, a, b))
          /\ resf.compare["FLT"] = Flag(Less(Short, a, b))
          /\ resf.compare["FLE"] = Flag(Less(Short, a, b) \/ Equal(Short, a, b))
      BY <2>2, <3>1, <3>2, TheOne, Zenon
    <3> QED BY <3>3, <3>4, <3>5, Zenon
  <2>5. both => ShortUnits[a] = u /\ ShortUnits[b] = w
    BY <2>1, UnitsAreUnits, Zenon
  <2>6. u \in Int /\ w \in Int
    BY <2>1, UnitsGrow
  <2>7. /\ Says("FLT") <=> (both /\ ShortUnits[a] < ShortUnits[b])
        /\ Says("FLE") <=> (both /\ ShortUnits[a] <= ShortUnits[b])
        /\ Says("FEQ") <=> (both /\ ShortUnits[a] = ShortUnits[b])
    <3>1. /\ Equal(Short, a, b) <=> both /\ u = w
          /\ Less(Short, a, b) <=> both /\ u < w
      BY <2>1, ComparesUnits, Zenon
    <3> HIDE DEF u, w, both, Says
    <3> QED BY <2>4, <2>5, <2>6, <3>1
  <2>8. /\ resf.arith["FMIN"] = Extremes(Short, a, b, TRUE)
        /\ resf.arith["FMAX"] = Extremes(Short, a, b, FALSE)
    <3>1. "FMIN" \in FloatOps /\ "FMAX" \in FloatOps
      BY DEF FloatOps
    <3>2. /\ float_results(Short, "FMIN", a, b, {}) = Extremes(Short, a, b, TRUE)
          /\ float_results(Short, "FMAX", a, b, {}) = Extremes(Short, a, b, FALSE)
      BY DEF float_results
    <3> QED BY <2>2, <3>1, <3>2, Zenon
  <2>9. both => \A r \in resf.arith["FMIN"], s \in resf.arith["FMAX"] :
                  /\ {ShortUnits[r], ShortUnits[s]} = {ShortUnits[a], ShortUnits[b]}
                  /\ ShortUnits[r] <= ShortUnits[s]
    <3> SUFFICES ASSUME both, NEW r \in Extremes(Short, a, b, TRUE), NEW s \in Extremes(Short, a, b, FALSE)
                 PROVE  /\ {ShortUnits[r], ShortUnits[s]} = {ShortUnits[a], ShortUnits[b]}
                        /\ ShortUnits[r] <= ShortUnits[s]
      BY <2>8, Zenon
    <3>1. AreExtremes(Short, a, b, r, s)
      BY <2>1, ExtremesAre, Zenon
    <3>2. \A x \in {a, b} : ShortUnits[x] = Units(Short, x)
      BY <2>5
    <3> QED BY <3>1, <3>2, Zenon DEF AreExtremes
  <2>10. /\ (Number(Short, a) /\ ~Number(Short, b) /\ ShortMan - 1 \in b)
              => resf.arith["FMIN"] = {a} /\ resf.arith["FMAX"] = {a}
         /\ (~Number(Short, a) /\ Number(Short, b) /\ ShortMan - 1 \in a)
              => resf.arith["FMIN"] = {b} /\ resf.arith["FMAX"] = {b}
    <3>1. Short.man = ShortMan
      BY DEF Short
    <3>2. ASSUME NEW x, NEW y, NEW least, Number(Short, x), ~Number(Short, y), Short.man - 1 \in y
          PROVE  Extremes(Short, x, y, least) = {x} /\ Extremes(Short, y, x, least) = {x}
      BY <3>2, QuietNaNIsAvoided
    <3>3. ASSUME Number(Short, a), ~Number(Short, b), Short.man - 1 \in b
          PROVE  Extremes(Short, a, b, TRUE) = {a} /\ Extremes(Short, a, b, FALSE) = {a}
      BY <3>2, <3>3, Zenon
    <3>4. ASSUME ~Number(Short, a), Number(Short, b), Short.man - 1 \in a
          PROVE  Extremes(Short, a, b, TRUE) = {b} /\ Extremes(Short, a, b, FALSE) = {b}
      BY <3>2, <3>4, Zenon
    <3> QED BY <2>8, <3>1, <3>3, <3>4, Zenon
  <2>11. Cardinality(class(a)) = 1
    BY <2>3, FS_Singleton, Zenon
  <2>12. /\ c \in 0..9 /\ d \in 0..9
         /\ Number(Short, a) <=> c \in 0..7
         /\ both /\ c < d => u <= w
         /\ both /\ c = d /\ c \in {0, 3, 4, 7} => a = b
         /\ Number(Short, a) /\ c \in {2, 5} => AbsVal(u) < Power(Short.man)
    BY <2>1, ClassesAreOrdered, Zenon
  <2> HIDE DEF c, d, u, w, class
  <2>13. Number(Short, a) <=> class(a) \subseteq 0..7
    BY <2>3, <2>12
  <2>14. both => (LtU(class(a), class(b)) => ShortUnits[a] <= ShortUnits[b])
    <3>1. LtU({c}, {d}) <=> c < d
      BY <2>12, OrderOfBits
    <3> QED BY <2>3, <2>5, <2>12, <3>1, Zenon
  <2>15. both /\ class(a) = class(b) /\ class(a) \in {{0}, {3}, {4}, {7}} => a = b
    <3>1. {c} = {d} => c = d
      OBVIOUS
    <3>2. {c} \in {{0}, {3}, {4}, {7}} => c \in {0, 3, 4, 7}
      OBVIOUS
    <3> QED BY <2>3, <2>12, <3>1, <3>2, Zenon
  <2>16. both /\ class(a) \in {{2}, {5}} => AbsVal(ShortUnits[a]) < Power(ShortMan)
    <3>1. {c} \in {{2}, {5}} => c \in {2, 5}
      OBVIOUS
    <3>2. Short.man = ShortMan
      BY DEF Short
    <3> QED BY <2>3, <2>5, <2>12, <3>1, <3>2, Zenon
  <2> QED BY <2>7, <2>9, <2>10, <2>11, <2>13, <2>14, <2>15, <2>16, Zenon DEF FloatsAreOrdered, class
<1> QED BY <1>1, ResultsHold, PTL

\* The nearest value to n / d units, in the words of the properties.
LEMMA NearestIs ==
  ASSUME NEW n, NEW d, NEW r
  PROVE  /\ IsNearest(Short, r, n, d) => Nearest(ShortUnits, {r}, n, d)
         /\ IsNearest(Long, r, n, d) => Nearest(LongUnits, {r}, n, d)
<1>1. /\ DOMAIN ShortUnits = Numbers(Short) /\ \A z \in Numbers(Short) : ShortUnits[z] = Units(Short, z)
      /\ DOMAIN LongUnits = Numbers(Long) /\ \A z \in Numbers(Long) : LongUnits[z] = Units(Long, z)
  BY DEF ShortUnits, LongUnits
<1>2. r \in {r}
  OBVIOUS
<1>3. ASSUME IsNearest(Short, r, n, d) PROVE Nearest(ShortUnits, {r}, n, d)
  BY <1>1, <1>2, <1>3, Zenon DEF IsNearest, Nearest
<1>4. ASSUME IsNearest(Long, r, n, d) PROVE Nearest(LongUnits, {r}, n, d)
  BY <1>1, <1>2, <1>4, Zenon DEF IsNearest, Nearest
<1> QED BY <1>3, <1>4

\* What a conversion to an integer can give is an int, whatever the operand.
LEMMA ToWordIsWord ==
  ASSUME NEW f, NEW x, NEW signed, NEW w \in ToWord(f, x, signed)
  PROVE  w \in Words(WORD)
<1>1. /\ \A v : Trunc(WORD, v) \in Words(WORD)
      /\ {} \in Words(WORD) /\ {WORD - 1} \in Words(WORD) /\ Bits(WORD - 1) \in Words(WORD) /\ Bits(WORD) \in Words(WORD)
  BY Widths DEF Trunc, Words, Bits
<1> DEFINE exact == Exact(f, x)
           whole == {i \in exact.pow : i >= 0}
           negative == exact.neg /\ whole # {}
           value == Trunc(WORD, IF negative THEN Neg(WORD, whole) ELSE whole)
<1>2. w \in {value, {}, {WORD - 1}, Bits(WORD - 1), Bits(WORD)}
  BY DEF ToWord
<1> HIDE DEF value
<1>3. value \in Words(WORD)
  BY <1>1 DEF value
<1> QED BY <1>1, <1>2, <1>3

\* The wide format counts in units that divide those of the narrow one.
LEMMA UnitsDivide ==
  /\ Short.exp <= Long.exp /\ Short.man <= Long.man /\ LowestPower(Long) <= LowestPower(Short)
  /\ OneLong \div OneShort = Power(LowestPower(Short) - LowestPower(Long))
<1> DEFINE L == LowestPower(Short)
           H == LowestPower(Long)
           p == Power(-L)
           d == Power(L - H)
<1>1. Short.exp <= Long.exp /\ Short.man <= Long.man
  BY FormatAssumption DEF Short, Long
<1>2. L \in Int /\ H \in Int /\ L <= -1 /\ H <= L /\ OneShort = p /\ OneLong = Power(-H)
  BY <1>1, FormatsAreFormats, WiderFormat, LowestPowerIs DEF OneShort, OneLong
<1>3. -L \in Nat /\ L - H \in Nat /\ (-L) + (L - H) = -H
  <2> HIDE DEF L, H
  <2> QED BY <1>2
<1>4. Power(-H) = p * d /\ p \in Nat \ {0} /\ d \in Nat \ {0}
  <2>1. Power((-L) + (L - H)) = Power(-L) * Power(L - H) /\ Power(-L) \in Nat \ {0} /\ Power(L - H) \in Nat \ {0}
    <3> HIDE DEF L, H
    <3> QED BY <1>3, PowersAdd, PowersDouble, Zenon
  <2> QED BY <1>3, <2>1
<1>5. (p * d) \div p = d
  <2> HIDE DEF p, d
  <2>1. p * d = p * d + 0 /\ p * d \in Nat /\ 0 \in Nat /\ 0 < p
    BY <1>4
  <2>2. p * d = d * p
    BY <1>4
  <2> QED BY <1>4, <2>1, <2>2, QuotientIs
<1> QED BY <1>1, <1>2, <1>4, <1>5

\* FCVT between the formats and from and to both kinds of integer
\* (exec_float_single, exec_float_double), for every pattern and register.
THEOREM FloatConversionsHolds ==
  ASSUME BYTE \in 1..8
  PROVE  ASpec => []FloatConversions
<1>1. ResultsAreComputed => FloatConversions
  <2> SUFFICES ASSUME ResultsAreComputed, resc # <<>> PROVE FloatConversions
    BY Zenon DEF FloatConversions
  <2> DEFINE units == LongUnits[a]
             u == Units(Long, a)
             q == AbsVal(u) \div OneLong
             k == IF u < 0 THEN -q ELSE q
             whole == IF units < 0 THEN -(AbsVal(units) \div OneLong) ELSE units \div OneLong
             register == Val(a) - IF 2 * WORD - 1 \in a THEN Power(2 * WORD) ELSE 0
             low == Trunc(Width(Short), a)
  <2>1. /\ resc.W = integer_results(Long, "FCVT_W", a, {}) /\ resc.WU = integer_results(Long, "FCVT_WU", a, {})
        /\ resc.fromW = from_register(Long, "FCVT_F_W", a) /\ resc.fromWU = from_register(Long, "FCVT_F_WU", a)
        /\ resc.narrow = Converted(Long, Short, a) /\ resc.widened = Converted(Short, Long, low)
        /\ a \in Words(2 * WORD)
    BY DEF ResultsAreComputed, ConversionResults
  <2>2. Format(Short) /\ Format(Long) /\ XLEN = 2 * WORD /\ WORD \in Nat \ {0} /\ 2 * WORD \in Nat \ {0}
        /\ WORD \in 1..(2 * WORD)
    BY FormatsAreFormats, Widths, Zenon
  <2>3. Width(Long) = 2 * WORD
    BY <2>2 DEF Width, SignAt, Long, Format
  <2>4. Finite(Long, a) => units = u
    BY <2>1, <2>3, UnitsAreUnits, Zenon DEF Finite
  <2>5. u \in Int
    BY <2>2, UnitsGrow
  <2>6. Finite(Long, a) => whole = k
    <3>1. u >= 0 => AbsVal(u) = u
      BY <2>5 DEF AbsVal
    <3>2. u < 0 \/ u >= 0
      BY <2>5
    <3> HIDE DEF u
    <3> QED BY <2>4, <3>1, <3>2, Zenon
  <2>7. /\ resc.W = {Signed32(v) : v \in ToWord(Long, a, TRUE)}
        /\ resc.WU = ToWord(Long, a, FALSE)
    BY <2>1 DEF integer_results
  <2>8. \A v \in Words(WORD) : /\ Signed32(v) = SignExt(WORD, 2 * WORD, Trunc(WORD, Signed32(v)))
                               /\ S(Signed32(v)) = Signed(WORD, v)
    <3> SUFFICES ASSUME NEW v \in Words(WORD)
                 PROVE  /\ Signed32(v) = SignExt(WORD, 2 * WORD, Trunc(WORD, Signed32(v)))
                        /\ S(Signed32(v)) = Signed(WORD, v)
      OBVIOUS
    <3>1. Signed32(v) = Extended(v)
      BY <2>2, Zenon DEF Signed32, Extended
    <3>2. Trunc(WORD, v) = v /\ Trunc(WORD, Extended(v)) = v
      BY ExtendedKeeps, Zenon
    <3>3. SVal(WORD, v) = Signed(WORD, v)
      BY SignedIs, Zenon
    <3> QED BY <3>1, <3>2, <3>3, Zenon DEF Extended, S
  <2>9. \A r \in resc.W : r = SignExt(WORD, 2 * WORD, Trunc(WORD, r))
    BY <2>7, <2>8, ToWordIsWord, Zenon
  <2>10. Finite(Long, a) => TruncatesTo(Long, a, k)
    <3>1. q = AbsVal(Units(Long, a)) \div UnitsInOne(Long) /\ k = IF Units(Long, a) < 0 THEN -q ELSE q
      BY DEF OneLong
    <3> HIDE DEF q, k
    <3> QED BY <2>2, <3>1, ToWordIs
  <2>11. Finite(Long, a) /\ whole \in -Power(WORD - 1)..(Power(WORD - 1) - 1)
           => \E r \in resc.W : resc.W = {r} /\ S(r) = whole
    <3> SUFFICES ASSUME Finite(Long, a), whole \in -Power(WORD - 1)..(Power(WORD - 1) - 1)
                 PROVE  \E r \in resc.W : resc.W = {r} /\ S(r) = whole
      OBVIOUS
    <3> HIDE DEF whole, k
    <3>1. PICK w \in Words(WORD) : ToWord(Long, a, TRUE) = {w} /\ Signed(WORD, w) = whole
      BY <2>6, <2>10, Zenon DEF TruncatesTo
    <3>2. resc.W = {Signed32(w)}
      BY <2>7, <3>1
    <3>3. S(Signed32(w)) = whole
      BY <2>8, <3>1
    <3> QED BY <3>2, <3>3
  <2>12. Finite(Long, a) /\ whole \in 0..(Power(WORD) - 1)
           => \E r \in resc.WU : resc.WU = {r} /\ Val(r) = whole
    <3> HIDE DEF whole, k
    <3> QED BY <2>6, <2>7, <2>10 DEF TruncatesTo
  <2>13. Nearest(LongUnits, {resc.fromW}, register * OneLong, 1)
    <3> DEFINE w == Abs(2 * WORD, a)
               s == Negative(2 * WORD, a)
    <3>1. register = Signed(2 * WORD, a)
      BY Zenon DEF Signed, Power
    <3>2. w \in Words(2 * WORD) /\ Val(w) = IF s THEN -Signed(2 * WORD, a) ELSE Signed(2 * WORD, a)
      BY <2>1, <2>2, AbsIsMagnitude, Zenon
    <3>3. Signed(2 * WORD, a) \in Int /\ (s <=> Signed(2 * WORD, a) < 0) /\ s \in BOOLEAN
      <4>1. Signed(2 * WORD, a) \in Int /\ (s <=> Signed(2 * WORD, a) < 0)
        BY <2>1, <2>2, SignedRange, Zenon
      <4>2. s \in BOOLEAN
        BY DEF Negative
      <4> QED BY <4>1, <4>2
    <3> HIDE DEF w, s, register
    <3>4. register \in Int /\ AbsVal(register) = Val(w) /\ (register < 0 => s) /\ (register > 0 => ~s)
      BY <3>1, <3>2, <3>3 DEF AbsVal
    <3>5. 2 * WORD \in Nat
      BY <2>2
    <3>6. IsNearest(Long, Rounded(Long, [neg |-> s, pow |-> w]), register * UnitsInOne(Long), 1)
      BY <2>2, <3>2, <3>3, <3>4, <3>5, RoundedInteger
    <3>7. resc.fromW = Rounded(Long, [neg |-> s, pow |-> w])
      <4>1. from_register(Long, "FCVT_F_W", a) = Rounded(Long, Integer(2 * WORD, a))
        BY <2>2 DEF from_register
      <4>2. Integer(2 * WORD, a) = [neg |-> s, pow |-> w]
        BY DEF Integer, s, w
      <4> QED BY <2>1, <4>1, <4>2
    <3> QED BY <3>6, <3>7, NearestIs, Zenon DEF OneLong
  <2>14. Nearest(LongUnits, {resc.fromWU}, Val(a) * OneLong, 1)
    <3>1. 2 * WORD \in Nat /\ FALSE \in BOOLEAN
      BY <2>2
    <3>2. Val(a) \in Nat
      BY <2>1, <3>1, ValRange
    <3>3. Val(a) \in Int /\ AbsVal(Val(a)) = Val(a) /\ (Val(a) < 0 => FALSE) /\ (Val(a) > 0 => ~FALSE)
      BY <3>2 DEF AbsVal
    <3>4. IsNearest(Long, Rounded(Long, [neg |-> FALSE, pow |-> a]), Val(a) * UnitsInOne(Long), 1)
      BY <2>1, <2>2, <3>1, <3>3, RoundedInteger
    <3>5. resc.fromWU = Rounded(Long, [neg |-> FALSE, pow |-> a])
      BY <2>1 DEF from_register
    <3> QED BY <3>4, <3>5, NearestIs, Zenon DEF OneLong
  <2>15. Finite(Long, a) => Nearest(ShortUnits, {resc.narrow}, units, OneLong \div OneShort)
    <3> SUFFICES ASSUME Finite(Long, a) PROVE Nearest(ShortUnits, {resc.narrow}, u, OneLong \div OneShort)
      BY <2>4, Zenon
    <3>1. IsNearest(Short, Converted(Long, Short, a), u, OneLong \div OneShort)
      BY <2>2, UnitsDivide, NarrowIsNearest, Zenon
    <3> QED BY <2>1, <3>1, NearestIs, Zenon
  <2>16. Finite(Short, low) => LongUnits[resc.widened] = ShortUnits[low] * (OneLong \div OneShort)
    <3> SUFFICES ASSUME Finite(Short, low) PROVE LongUnits[resc.widened] = ShortUnits[low] * (OneLong \div OneShort)
      OBVIOUS
    <3>1. low \in Words(Width(Short))
      BY DEF Trunc, Words
    <3> HIDE DEF low
    <3>2. ShortUnits[low] = Units(Short, low)
      BY <3>1, UnitsAreUnits, Zenon DEF Finite
    <3>3. /\ resc.widened \in Numbers(Long)
          /\ Units(Long, resc.widened) = Units(Short, low) * (OneLong \div OneShort)
      BY <2>1, <2>2, UnitsDivide, WidenedIsExact, Zenon
    <3>4. LongUnits[resc.widened] = Units(Long, resc.widened)
      BY <3>3 DEF LongUnits
    <3> QED BY <3>2, <3>3, <3>4, Zenon
  <2>17. Number(Long, a) <=> Number(Short, resc.narrow)
    BY <2>1, <2>2, ConvertedNumber, Zenon
  <2> HIDE DEF u, k, q
  <2> QED BY <2>9, <2>11, <2>12, <2>13, <2>14, <2>15, <2>16, <2>17, Zenon DEF FloatConversions
<1> QED BY <1>1, ResultsHold, PTL

\* The third operands are patterns of the narrow format.
LEMMA ThirdsArePatterns == Thirds \subseteq Words(Width(Short))
<1> DEFINE s == SignAt(Short)
<1>1. s \in Nat /\ s >= 3 /\ Width(Short) = s + 1 /\ Short.man \in Nat /\ Short.man <= s /\ Short.man = ShortMan
  BY FormatsAreFormats DEF Format, SignAt, Width, Short
<1>2. Unit(Short) = ShortMan..(s - 2) /\ Infinity(Short) = ShortMan..(s - 1)
  BY <1>1 DEF Unit, Infinity
<1> HIDE DEF s
<1>3. Bits(s + 1) = 0..s /\ Bits(s) = 0..(s - 1)
  BY <1>1 DEF Bits
<1>4. Unit(Short) \subseteq 0..s /\ Infinity(Short) \subseteq 0..s /\ Bits(s) \subseteq 0..s /\ 0 \in 0..s /\ s \in 0..s
  BY <1>1, <1>2, <1>3
<1>5. \A c \in Thirds : c \subseteq 0..s
  BY <1>4 DEF Thirds, s
<1> QED BY <1>1, <1>3, <1>5 DEF Words

\* A result and its opposite: one of them is negative.
LEMMA OneNegative ==
  ASSUME NEW R, NEW Q, OneIsNegative(Short, R, Q)
  PROVE  Cardinality({r \in R \cup Q : SignAt(Short) \in r}) = 1
<1>1. PICK r : R = {r} /\ Q = {Negated(Short, r)}
  BY DEF OneIsNegative
<1> DEFINE q == Negated(Short, r)
           N == {y \in R \cup Q : SignAt(Short) \in y}
<1>2. SignAt(Short) \in q <=> SignAt(Short) \notin r
  BY FormatsAreFormats, NegatedIs, Zenon DEF IsNegative
<1> HIDE DEF q
<1>3. \A y : y \in N <=> (y = r \/ y = q) /\ SignAt(Short) \in y
  BY <1>1 DEF q
<1> HIDE DEF N
<1>4. \E y : N = {y}
  <2>1. CASE SignAt(Short) \in r
    <3>1. \A y : y \in N <=> y = r
      BY <1>2, <1>3, <2>1
    <3>2. N = {r}
      BY <3>1
    <3> QED BY <3>2
  <2>2. CASE SignAt(Short) \notin r
    <3>1. \A y : y \in N <=> y = q
      BY <1>2, <1>3, <2>2
    <3>2. N = {q}
      BY <3>1
    <3> QED BY <3>2
  <2> QED BY <2>1, <2>2
<1>5. Cardinality(N) = 1
  BY <1>4, FS_Singleton, Zenon
<1> QED BY <1>5 DEF N

\* The nearest square root, in the words of the property.
LEMMA RootIs ==
  ASSUME NEW n, NEW r, IsNearestRoot(Short, r, n)
  PROVE  r \in Words(Width(Short)) /\ NearestRoot(r, n)
<1>1. /\ DOMAIN ShortUnits = Numbers(Short) /\ \A z \in Numbers(Short) : ShortUnits[z] = Units(Short, z)
  BY DEF ShortUnits
<1>2. /\ r \in Numbers(Short)
      /\ \A z \in Numbers(Short) :
           LET sum == Units(Short, r) + Units(Short, z)
           IN /\ Units(Short, z) > Units(Short, r) => 4 * n * OneShort <= sum * sum
              /\ Units(Short, z) \in 0..(Units(Short, r) - 1) => 4 * n * OneShort >= sum * sum
  BY Zenon DEF IsNearestRoot, OneShort
<1>3. NearestRoot(r, n)
  BY <1>1, <1>2, Zenon DEF NearestRoot
<1> QED BY <1>2, <1>3 DEF Numbers

\* Of finite operands, sums, products, quotients, square roots and fused
\* operations are rounded to the nearest value, whatever the format
\* (exec_float_single, exec_float_double).
THEOREM FloatsAreNearestHolds == ASpec => []FloatsAreNearest
<1>1. ResultsAreComputed => FloatsAreNearest
  <2> SUFFICES ASSUME ResultsAreComputed, resf # <<>>, Finite(Short, a), Finite(Short, b) PROVE FloatsAreNearest
    BY Zenon DEF FloatsAreNearest
  <2> DEFINE finite == Finite(Short, a) /\ Finite(Short, b)
             m == ShortUnits[a]
             n == ShortUnits[b]
             Promise(op, c) == CASE op = "FMADD"  -> m * n + OneShort * ShortUnits[c]
                                 [] op = "FMSUB"  -> m * n - OneShort * ShortUnits[c]
                                 [] op = "FNMSUB" -> OneShort * ShortUnits[c] - m * n
                                 [] op = "FNMADD" -> -(m * n) - OneShort * ShortUnits[c]
             Negatives(results) == {r \in results : SignAt(Short) \in r}
             u == Units(Short, a)
             w == Units(Short, b)
  <2>1. a \in Words(Width(Short)) /\ b \in Words(Width(Short)) /\ resf = FloatResults /\ Format(Short)
    BY FormatsAreFormats, Zenon DEF ResultsAreComputed
  <2>2. /\ \A op \in FloatOps : resf.arith[op] = float_results(Short, op, a, b, {})
        /\ \A op \in FusedOps, c \in Thirds : resf.fused[op][c] = float_results(Short, op, a, b, c)
    BY <2>1 DEF FloatResults
  <2>3. /\ resf.arith["FADD"] = fadd(Short, a, b) /\ resf.arith["FSUB"] = fsub(Short, a, b)
        /\ resf.arith["FMUL"] = fmul(Short, a, b) /\ resf.arith["FDIV"] = fdiv(Short, a, b)
        /\ resf.arith["FSQRT"] = fsqrt(Short, a)
    BY <2>2 DEF float_results, FloatOps
  <2>4. \A c \in Thirds : /\ resf.fused["FMADD"][c] = fused(Short, "FMADD", a, b, c)
                          /\ resf.fused["FMSUB"][c] = fused(Short, "FMSUB", a, b, c)
                          /\ resf.fused["FNMSUB"][c] = fused(Short, "FNMSUB", a, b, c)
                          /\ resf.fused["FNMADD"][c] = fused(Short, "FNMADD", a, b, c)
    BY <2>2 DEF float_results, FusedOps
  <2>5. finite => m = u /\ n = w
    BY <2>1, UnitsAreUnits, Zenon DEF Finite
  <2>6. u \in Int /\ w \in Int /\ OneShort \in Nat \ {0} /\ OneShort = UnitsInOne(Short)
    BY <2>1, UnitsSign, PowersOfExact DEF OneShort
  <2>7. ASSUME NEW R, NEW k, NEW d, \E r : R = {r} /\ IsNearest(Short, r, k, d)
        PROVE  Nearest(ShortUnits, R, k, d)
    BY <2>7, NearestIs, Zenon
  <2>9. finite => /\ Nearest(ShortUnits, resf.arith["FADD"], m + n, 1)
                  /\ Nearest(ShortUnits, resf.arith["FSUB"], m - n, 1)
                  /\ Nearest(ShortUnits, resf.arith["FMUL"], m * n, OneShort)
    <3> SUFFICES ASSUME finite
                 PROVE  /\ Nearest(ShortUnits, fadd(Short, a, b), u + w, 1)
                        /\ Nearest(ShortUnits, fsub(Short, a, b), u - w, 1)
                        /\ Nearest(ShortUnits, fmul(Short, a, b), u * w, UnitsInOne(Short))
      BY <2>3, <2>5, <2>6, Zenon
    <3>1. /\ \E r : fadd(Short, a, b) = {r} /\ IsNearest(Short, r, u + w, 1)
          /\ \E r : fsub(Short, a, b) = {r} /\ IsNearest(Short, r, u - w, 1)
          /\ \E r : fmul(Short, a, b) = {r} /\ IsNearest(Short, r, u * w, UnitsInOne(Short))
      BY <2>1, SumsAreNearest
    <3> QED BY <2>7, <3>1, Zenon
  <2> HIDE DEF u, w, m, n
  <2>10. finite => /\ n > 0 => Nearest(ShortUnits, resf.arith["FDIV"], OneShort * m, n)
                   /\ n < 0 => Nearest(ShortUnits, resf.arith["FDIV"], -(OneShort * m), -n)
    <3> SUFFICES ASSUME finite, n # 0
                 PROVE  /\ n > 0 => Nearest(ShortUnits, resf.arith["FDIV"], OneShort * m, n)
                        /\ n < 0 => Nearest(ShortUnits, resf.arith["FDIV"], -(OneShort * m), -n)
      BY <2>5, <2>6
    <3> DEFINE N == OneShort * m
    <3>1. \E r : fdiv(Short, a, b) = {r} /\ IsNearest(Short, r, IF n < 0 THEN -N ELSE N, AbsVal(n))
      <4>1. Units(Short, b) = n /\ Units(Short, a) = m /\ Units(Short, b) # 0 /\ Finite(Short, a) /\ Finite(Short, b)
        BY <2>5 DEF u, w
      <4>2. N = UnitsInOne(Short) * Units(Short, a)
        BY <2>6, <4>1
      <4> HIDE DEF N, finite
      <4>3. \E r : /\ fdiv(Short, a, b) = {r}
                   /\ IsNearest(Short, r, IF Units(Short, b) < 0 THEN -N ELSE N, AbsVal(Units(Short, b)))
        BY <2>1, <4>1, <4>2, DivisionIsNearest
      <4> QED BY <4>1, <4>3, Zenon
    <3> HIDE DEF N
    <3>2. Nearest(ShortUnits, resf.arith["FDIV"], IF n < 0 THEN -N ELSE N, AbsVal(n))
      BY <2>3, <2>7, <3>1, Zenon
    <3>3. n \in Int
      BY <2>5, <2>6
    <3> QED BY <3>2, <3>3 DEF AbsVal, N
  <2>12. finite => (m >= 0 => \E r \in Words(Width(Short)) : resf.arith["FSQRT"] = {r} /\ NearestRoot(r, m))
    <3> SUFFICES ASSUME finite, m >= 0
                 PROVE  \E r \in Words(Width(Short)) : resf.arith["FSQRT"] = {r} /\ NearestRoot(r, m)
      OBVIOUS
    <3>1. \E r : fsqrt(Short, a) = {r} /\ IsNearestRoot(Short, r, m)
      BY <2>1, <2>5, SquareRootIsNearest DEF u
    <3> QED BY <2>3, <3>1, RootIs, Zenon
  <2>13. finite => \A op \in FusedOps, c \in Thirds :
                     Finite(Short, c) => Nearest(ShortUnits, resf.fused[op][c], Promise(op, c), OneShort)
    <3> SUFFICES ASSUME finite, NEW op \in FusedOps, NEW c \in Thirds, Finite(Short, c)
                 PROVE  Nearest(ShortUnits, resf.fused[op][c], Promise(op, c), OneShort)
      OBVIOUS
    <3> DEFINE p == m * n
               k == ShortUnits[c]
    <3>1. k = Units(Short, c)
      BY ThirdsArePatterns, UnitsAreUnits, Zenon DEF Finite
    <3>2. p = Units(Short, a) * Units(Short, b)
      BY <2>5 DEF u, w
    <3> HIDE DEF p, k
    <3>3. /\ \E r : fused(Short, "FMADD", a, b, c) = {r} /\ IsNearest(Short, r, p + OneShort * k, OneShort)
          /\ \E r : fused(Short, "FMSUB", a, b, c) = {r} /\ IsNearest(Short, r, p - OneShort * k, OneShort)
          /\ \E r : fused(Short, "FNMSUB", a, b, c) = {r} /\ IsNearest(Short, r, OneShort * k - p, OneShort)
          /\ \E r : fused(Short, "FNMADD", a, b, c) = {r} /\ IsNearest(Short, r, -p - OneShort * k, OneShort)
      BY <2>1, <2>6, <3>1, <3>2, FusedAreNearest
    <3>4. /\ Nearest(ShortUnits, resf.fused["FMADD"][c], p + OneShort * k, OneShort)
          /\ Nearest(ShortUnits, resf.fused["FMSUB"][c], p - OneShort * k, OneShort)
          /\ Nearest(ShortUnits, resf.fused["FNMSUB"][c], OneShort * k - p, OneShort)
          /\ Nearest(ShortUnits, resf.fused["FNMADD"][c], -p - OneShort * k, OneShort)
      BY <2>4, <2>7, <3>3, Zenon
    <3> QED BY <3>4 DEF FusedOps, p, k
  <2>14. finite => \A c \in Thirds :
                     /\ Cardinality(Negatives(resf.fused["FMADD"][c] \cup resf.fused["FNMADD"][c])) = 1
                     /\ Cardinality(Negatives(resf.fused["FMSUB"][c] \cup resf.fused["FNMSUB"][c])) = 1
    <3> SUFFICES ASSUME finite, NEW c \in Thirds
                 PROVE  /\ Cardinality(Negatives(resf.fused["FMADD"][c] \cup resf.fused["FNMADD"][c])) = 1
                        /\ Cardinality(Negatives(resf.fused["FMSUB"][c] \cup resf.fused["FNMSUB"][c])) = 1
      OBVIOUS
    <3>1. /\ OneIsNegative(Short, resf.fused["FMADD"][c], resf.fused["FNMADD"][c])
          /\ OneIsNegative(Short, resf.fused["FMSUB"][c], resf.fused["FNMSUB"][c])
      BY <2>1, <2>4, FusedOpposites, Zenon
    <3> QED BY <3>1, OneNegative, Zenon
  <2> QED BY <2>9, <2>10, <2>12, <2>13, <2>14, Zenon DEF FloatsAreNearest, m, n
<1> QED BY <1>1, ResultsHold, PTL

\* With an infinity, a NaN or a division by zero the results are the NaNs,
\* infinities and zeros of IEEE 754, whatever the format (exec_float_single,
\* exec_float_double).
THEOREM FloatExceptionsHolds == ASpec => []FloatExceptions
<1>1. ResultsAreComputed => FloatExceptions
  <2> SUFFICES ASSUME ResultsAreComputed, resf # <<>> PROVE FloatExceptions
    BY Zenon DEF FloatExceptions
  <2>1. resf = FloatResults /\ Format(Short)
    BY FormatsAreFormats, Zenon DEF ResultsAreComputed
  <2>2. /\ \A op \in FloatOps : resf.arith[op] = float_results(Short, op, a, b, {})
        /\ \A op \in FusedOps, c \in Thirds : resf.fused[op][c] = float_results(Short, op, a, b, c)
    BY <2>1 DEF FloatResults
  <2>3. /\ resf.arith["FADD"] = fadd(Short, a, b) /\ resf.arith["FSUB"] = fsub(Short, a, b)
        /\ resf.arith["FMUL"] = fmul(Short, a, b) /\ resf.arith["FDIV"] = fdiv(Short, a, b)
        /\ resf.arith["FSQRT"] = fsqrt(Short, a)
    BY <2>2 DEF float_results, FloatOps
  <2>4. \A c \in Thirds : /\ resf.fused["FMADD"][c] = fused(Short, "FMADD", a, b, c)
                          /\ resf.fused["FMSUB"][c] = fused(Short, "FMSUB", a, b, c)
                          /\ resf.fused["FNMSUB"][c] = fused(Short, "FNMSUB", a, b, c)
                          /\ resf.fused["FNMADD"][c] = fused(Short, "FNMADD", a, b, c)
    BY <2>2 DEF float_results, FusedOps
  <2> DEFINE nan(x) == IsNaN(Short, x)
             inf(x) == IsInf(Short, x)
             zero(x) == IsZero(Short, x)
             neg(x) == IsNegative(Short, x)
             unlike == ~(neg(a) <=> neg(b))
             invalid == (inf(a) \/ inf(b)) /\ (zero(a) \/ zero(b))
             Sum(results, infinite, negative) ==
               SumAtInfinity(Short, results, inf(a), neg(a), infinite, negative)
  <2>5. AddExceptions(Short, a, b) /\ DivisionExceptions(Short, a, b)
    BY <2>1, AddSpecial, DivisionSpecial, Zenon
  <2>6. /\ nan(a) \/ nan(b) => \A op \in {"FADD", "FSUB", "FMUL", "FDIV"} : OnlyNaNs(Short, resf.arith[op])
        /\ (~nan(a) /\ ~nan(b) /\ (inf(a) \/ inf(b))) =>
             /\ Sum(resf.arith["FADD"], inf(b), neg(b))
             /\ Sum(resf.arith["FSUB"], inf(b), ~neg(b))
             /\ IF invalid THEN OnlyNaNs(Short, resf.arith["FMUL"])
                           ELSE OnlyInfinity(Short, resf.arith["FMUL"], unlike)
    BY <2>3, <2>5 DEF AddExceptions, DivisionExceptions
  <2>7. (~nan(a) /\ ~nan(b)) =>
          /\ (inf(a) /\ inf(b)) \/ (zero(a) /\ zero(b)) => OnlyNaNs(Short, resf.arith["FDIV"])
          /\ (inf(a) /\ ~inf(b)) \/ (zero(b) /\ ~zero(a)) => OnlyInfinity(Short, resf.arith["FDIV"], unlike)
          /\ (inf(b) /\ ~inf(a)) \/ (zero(a) /\ ~zero(b)) => OnlyZero(Short, resf.arith["FDIV"], unlike)
    BY <2>3, <2>5 DEF DivisionExceptions
  <2>8. /\ nan(a) \/ (neg(a) /\ ~zero(a)) => OnlyNaNs(Short, resf.arith["FSQRT"])
        /\ (inf(a) /\ ~neg(a)) \/ zero(a) => resf.arith["FSQRT"] = {a}
    BY <2>1, <2>3, RootSpecial
  <2>9. ASSUME NEW op \in FusedOps, NEW c \in Thirds
        PROVE  IF nan(a) \/ nan(b) \/ nan(c) \/ invalid THEN OnlyNaNs(Short, resf.fused[op][c])
               ELSE (inf(a) \/ inf(b) \/ inf(c)) =>
                      SumAtInfinity(Short, resf.fused[op][c],
                        inf(a) \/ inf(b), IF op \in {"FNMSUB", "FNMADD"} THEN ~unlike ELSE unlike,
                        inf(c), IF op \in {"FMSUB", "FNMADD"} THEN ~neg(c) ELSE neg(c))
    <3>1. /\ FusedExceptions(Short, "FMADD", a, b, c, FALSE, FALSE)
          /\ FusedExceptions(Short, "FMSUB", a, b, c, FALSE, TRUE)
          /\ FusedExceptions(Short, "FNMSUB", a, b, c, TRUE, FALSE)
          /\ FusedExceptions(Short, "FNMADD", a, b, c, TRUE, TRUE)
      BY <2>1, FusedSpecial, Zenon
    <3>2. CASE op = "FMADD"
      BY <2>4, <3>1, <3>2 DEF FusedExceptions
    <3>3. CASE op = "FMSUB"
      BY <2>4, <3>1, <3>3 DEF FusedExceptions
    <3>4. CASE op = "FNMSUB"
      BY <2>4, <3>1, <3>4 DEF FusedExceptions
    <3>5. CASE op = "FNMADD"
      BY <2>4, <3>1, <3>5 DEF FusedExceptions
    <3> QED BY <3>2, <3>3, <3>4, <3>5 DEF FusedOps
  <2> QED BY <2>6, <2>7, <2>8, <2>9, Zenon DEF FloatExceptions
<1> QED BY <1>1, ResultsHold, PTL
=============================================================================
