-------------------------------- MODULE Alu --------------------------------
(***************************************************************************)
(* The values exec_alu_reg, exec_alu_imm, exec_rv64, exec_branch and       *)
(* exec_atomic compute, with the code's own case distinctions. Signed      *)
(* overflow, which C leaves undefined in the W operations, wraps.          *)
(***************************************************************************)
EXTENDS Config

One == {0}
IntMin(n) == {n-1}
Flag(b) == IF b THEN One ELSE {}
\* Mutant: the cast to int32_t is forgotten.
Unsigned32(x) == Trunc(WORD, x)
\* (int64_t)(int32_t)x
Signed32(x) == SignExt(WORD, XLEN, Trunc(WORD, x))
Low32(x) == Trunc(WORD, x)
\* Mutant: the shift amount is not masked.
ShamtUnmasked(b, n) == Val(b)
Shamt(b, n) == Val(b \cap Num(n - 1))  \* b & (n-1), n a power of 2

\* The high half of the 64-bit product: a set of results, because on RV64
\* the code shifts a 64-bit value by 64, which C leaves undefined.
HighHalf(x, y) ==
  IF XLEN > WORD THEN Words(XLEN)
          ELSE {ShiftR(XLEN, Mul(2*WORD, x, y), XLEN)}
\* Mutant: the operand is widened without its sign.
WideUnsigned(x) == x
Wide(x) == SignExt(XLEN, 2*WORD, x)

\* Mutant: the two special results are exchanged.
DivCaseSwapped(n, a, b, onZero, onOverflow, otherwise) ==
  IF b = {} THEN onOverflow
  ELSE IF a = IntMin(n) /\ b = Bits(n) THEN onZero ELSE otherwise
DivCase(n, a, b, onZero, onOverflow, otherwise) ==
  IF b = {} THEN onZero
  ELSE IF a = IntMin(n) /\ b = Bits(n) THEN onOverflow ELSE otherwise

\* exec_alu_reg: the results `type` can give on regs[rs1] and regs[rs2].
\* Bits(XLEN) is ~0ULL and -1.
alu_reg(type, a, b) ==
  LET a32 == Low32(a)
      b32 == Low32(b)
  IN CASE type = "ADD"    -> {Add(XLEN, a, b)}
       [] type = "SUB"    -> {Sub(XLEN, a, b)}
       [] type = "SLL"    -> {ShiftL(XLEN, a, Shamt(b, XLEN))}
       [] type = "SLT"    -> {Flag(LtS(XLEN, a, b))}
       [] type = "SLTU"   -> {Flag(LtU(a, b))}
       [] type = "XOR"    -> {SymDiff(a, b)}
       [] type = "SRL"    -> {ShiftR(XLEN, a, Shamt(b, XLEN))}
       [] type = "SRA"    -> {ShiftRA(XLEN, a, Shamt(b, XLEN))}
       [] type = "OR"     -> {a \cup b}
       [] type = "AND"    -> {a \cap b}
       [] type = "MUL"    -> {Mul(XLEN, a, b)}
       [] type = "MULH"   -> HighHalf(Wide(a), Wide(b))
       [] type = "MULHSU" -> HighHalf(Wide(a), b)
       [] type = "MULHU"  -> HighHalf(a, b)
       [] type = "DIV"    -> {DivCase(XLEN, a, b, Bits(XLEN), a, DivS(XLEN, a, b))}
       [] type = "DIVU"   -> {IF b = {} THEN Bits(XLEN) ELSE DivU(XLEN, a, b)}
       [] type = "REM"    -> {DivCase(XLEN, a, b, a, {}, RemS(XLEN, a, b))}
       [] type = "REMU"   -> {IF b = {} THEN a ELSE RemU(XLEN, a, b)}
       [] type = "MULW"   -> {Signed32(Mul(WORD, a32, b32))}
       [] type = "DIVW"   -> {Signed32(DivCase(WORD, a32, b32, Bits(WORD), a32, DivS(WORD, a32, b32)))}
       [] type = "DIVUW"  -> {IF b32 = {} THEN Bits(XLEN) ELSE DivU(WORD, a32, b32)}
       [] type = "REMW"   -> {Signed32(DivCase(WORD, a32, b32, a32, {}, RemS(WORD, a32, b32)))}
       [] type = "REMUW"  -> {IF b32 = {} THEN a32 ELSE RemU(WORD, a32, b32)}

\* exec_alu_imm. decoded->imm is a uint32_t: on RV64 the cast to sreg_t
\* does not sign-extend it, and a word's bit set is unchanged.
alu_imm(type, a, imm) ==
  CASE type = "ADDI"  -> Add(XLEN, a, imm)
    [] type = "SLTI"  -> Flag(LtS(XLEN, a, imm))
    [] type = "SLTIU" -> Flag(LtU(a, imm))
    [] type = "XORI"  -> SymDiff(a, imm)
    [] type = "ORI"   -> a \cup imm
    [] type = "ANDI"  -> a \cap imm
    [] type = "SLLI"  -> ShiftL(XLEN, a, Val(imm))
    [] type = "SRLI"  -> ShiftR(XLEN, a, Val(imm))
    [] type = "SRAI"  -> ShiftRA(XLEN, a, Val(imm))

\* exec_rv64, the W operations that OP-32 and OP-IMM-32 decode to.
rv64_word(type, a, b, imm) ==
  LET a32 == Low32(a)
      b32 == Low32(b)
      k   == Shamt(b, WORD)
  IN Signed32(
     CASE type = "ADDIW" -> Add(WORD, a32, imm)
       [] type = "SLLIW" -> ShiftL(WORD, a32, Val(imm))
       [] type = "SRLIW" -> ShiftR(WORD, a32, Val(imm))
       [] type = "SRAIW" -> ShiftRA(WORD, a32, Val(imm))
       [] type = "ADDW"  -> Add(WORD, a32, b32)
       [] type = "SUBW"  -> Sub(WORD, a32, b32)
       [] type = "SLLW"  -> ShiftL(WORD, a32, k)
       [] type = "SRLW"  -> ShiftR(WORD, a32, k)
       [] type = "SRAW"  -> ShiftRA(WORD, a32, k))

\* exec_branch: whether the branch is taken.
taken(type, a, b) ==
  CASE type = "BEQ"  -> a = b
    [] type = "BNE"  -> a # b
    [] type = "BLT"  -> LtS(XLEN, a, b)
    [] type = "BGE"  -> ~LtS(XLEN, a, b)
    [] type = "BLTU" -> LtU(a, b)
    [] type = "BGEU" -> ~LtU(a, b)

\* exec_atomic: whether AMOMIN .. AMOMAXU keep `temp`, the n-bit value they
\* read. The unsigned .W comparisons are of a uint32_t with all of regs[rs2].
\* Mutant: the signed comparisons are made on unsigned values.
KeepsUnsigned(type, n, temp, b) ==
  IF type \in {"AMOMIN", "AMOMINU"} THEN LtU(temp, b) ELSE LtU(b, temp)
Keeps(type, n, temp, b) ==
  CASE type = "AMOMIN"  -> LtS(n, temp, Trunc(n, b))
    [] type = "AMOMAX"  -> LtS(n, Trunc(n, b), temp)
    [] type = "AMOMINU" -> LtU(temp, b)
    [] type = "AMOMAXU" -> LtU(b, temp)
\* What an AMO stores.
amo(type, n, temp, b) ==
  LET bn == Trunc(n, b)
  IN CASE type = "AMOSWAP" -> bn
       [] type = "AMOADD"  -> Add(n, temp, bn)
       [] type = "AMOXOR"  -> SymDiff(temp, bn)
       [] type = "AMOAND"  -> temp \cap bn
       [] type = "AMOOR"   -> temp \cup bn
       [] OTHER -> IF Keeps(type, n, temp, b) THEN temp ELSE bn
=============================================================================
