--------------------------- MODULE EmulatorProofs --------------------------
(***************************************************************************)
(* What decode_instruction and expand_compressed return for every word:    *)
(* operands that name registers, an instruction type for which             *)
(* instruction_table has a handler, and even jump offsets. Then theorems   *)
(* about the hart and the harness, for every register width, memory size,  *)
(* set of instructions and length of the file; and about memory.c for      *)
(* every address and width: the bounds check, the bytes a read finds and a *)
(* write leaves, and the accesses that are made in two halves.             *)
(***************************************************************************)
EXTENDS Emulator, WordsProofs

-----------------------------------------------------------------------------
(* Fields *)

\* The powers of 2 that bound the fields.
LEMMA SmallPowers == Val({1}) = 2 /\ Val({2}) = 4 /\ Val({3}) = 8 /\ Val({5}) = 32 /\ Val({7}) = 128
<1>1. 2^1 = 2 /\ 2^2 = 4 /\ 2^3 = 8 /\ 2^5 = 32 /\ 2^7 = 128
  OBVIOUS
<1> QED BY <1>1, ValPower

\* So it stands for a number of that width.
LEMMA Fields ==
  ASSUME NEW w
  PROVE  /\ Opcode(w) \in 0..127 /\ Field(w, 25, 31) \in 0..127
         /\ Field(w, 12, 14) \in 0..7
         /\ Field(w, 7, 11) \in 0..31 /\ Field(w, 15, 19) \in 0..31
         /\ Field(w, 20, 24) \in 0..31 /\ Field(w, 27, 31) \in 0..31
<1>1. \A lo, hi, n \in Nat : n = hi - lo + 1 => Field(w, lo, hi) \in Nat /\ Field(w, lo, hi) < Val({n})
  BY SliceIsWord, ValRange DEF Field
<1>2. /\ Field(w, 0, 6) \in Nat /\ Field(w, 0, 6) < Val({7})
      /\ Field(w, 25, 31) \in Nat /\ Field(w, 25, 31) < Val({7})
      /\ Field(w, 12, 14) \in Nat /\ Field(w, 12, 14) < Val({3})
      /\ Field(w, 7, 11) \in Nat /\ Field(w, 7, 11) < Val({5})
      /\ Field(w, 15, 19) \in Nat /\ Field(w, 15, 19) < Val({5})
      /\ Field(w, 20, 24) \in Nat /\ Field(w, 20, 24) < Val({5})
      /\ Field(w, 27, 31) \in Nat /\ Field(w, 27, 31) < Val({5})
  BY <1>1
<1> QED BY <1>2, SmallPowers DEF Opcode

\* Bit 12 is the lowest of funct3: it is clear when funct3 is 2.
LEMMA LowFunct3 ==
  ASSUME NEW w, Field(w, 12, 14) = 2
  PROVE  12 \notin w
<1>1. Slice(w, 12, 14, 0) \in Words(3) /\ \A i \in Bits(3) : i \in Slice(w, 12, 14, 0) <=> i + 12 \in w
  BY SliceIsWord
<1>2. {1} \in Words(3) /\ 0 \in Bits(3) /\ 0 \notin {1}
  BY DEF Words, Bits
<1>3. Slice(w, 12, 14, 0) = {1}
  BY <1>1, <1>2, ValInjective, SmallPowers DEF Field
<1> QED BY <1>1, <1>2, <1>3

\* The same, for any place.
LEMMA SlicesAreWords ==
  \A w : \A lo, hi, n \in Nat : n = hi - lo + 1 =>
    /\ Slice(w, lo, hi, 0) \in Words(n)
    /\ \A i \in Bits(n) : i \in Slice(w, lo, hi, 0) <=> i + lo \in w
    /\ Field(w, lo, hi) \in Nat /\ Field(w, lo, hi) < Val({n})
<1> TAKE w
<1> TAKE lo, hi, n \in Nat
<1> HAVE n = hi - lo + 1
<1> QED BY SliceIsWord, ValRange DEF Field

-----------------------------------------------------------------------------
(* The decoded type *)

Unknown == {"UNKNOWN"}
\* What an opcode can decode to: the types of one group of handlers.
OpcodeTypes(opcode) ==
  CASE opcode \in {55, 23} -> UpperTypes
    [] opcode = 111 -> {"JAL"}
    [] opcode = 103 -> {"JALR"}
    [] opcode = 99  -> BranchTypes \cup Unknown
    [] opcode = 35  -> StoreTypes \cup Unknown
    [] opcode = 3   -> LoadTypes \cup Unknown
    [] opcode = 19  -> AluImmTypes \cup Unknown
    [] opcode = 51  -> AluRegTypes \cup Unknown
    [] opcode = 115 -> SystemTypes \cup Unknown
    [] opcode = 47  -> AmoTypes \cup {"LR", "SC"} \cup Unknown
    [] opcode = 7   -> {"FLW", "FLD"} \cup Unknown
    [] opcode = 39  -> {"FSW"} \cup Unknown
    [] opcode \in FusedOpcodes \cup {83} -> FloatSingleTypes \cup FloatDoubleTypes \cup Unknown
    [] opcode \in {27, 59} /\ RV64 -> Rv64Types \cup Unknown
    [] OTHER -> Unknown

\* The decode tables.
LEMMA Tables ==
  ASSUME NEW funct7 \in 0..127, NEW funct3 \in 0..7
  PROVE  /\ op_table(funct7)[funct3 + 1] \in AluRegTypes \cup Unknown
         /\ op_imm_table(funct7)[funct3 + 1] \in AluImmTypes \cup Unknown
         /\ load_table[funct3 + 1] \in LoadTypes \cup Unknown
         /\ store_table[funct3 + 1] \in StoreTypes \cup Unknown
         /\ branch_table[funct3 + 1] \in BranchTypes \cup Unknown
<1>1. funct3 + 1 \in 1..8
  OBVIOUS
<1>2. op_table(funct7)[funct3 + 1] \in AluRegTypes \cup Unknown
  BY <1>1 DEF op_table, Unknowns, AluRegTypes, Unknown
<1>3. op_imm_table(funct7)[funct3 + 1] \in AluImmTypes \cup Unknown
  BY <1>1 DEF op_imm_table, Unknowns, AluImmTypes, Unknown
<1>4. load_table[funct3 + 1] \in LoadTypes \cup Unknown
  BY <1>1 DEF load_table, Unknowns, LoadTypes, Unknown
<1>5. store_table[funct3 + 1] \in StoreTypes \cup Unknown
  BY <1>1 DEF store_table, Unknowns, StoreTypes, Unknown
<1>6. branch_table[funct3 + 1] \in BranchTypes \cup Unknown
  BY <1>1 DEF branch_table, BranchTypes, Unknown
<1> QED BY <1>2, <1>3, <1>4, <1>5, <1>6

\* The comparison chains.
LEMMA Chains ==
  ASSUME NEW funct3 \in 0..7, NEW funct7 \in 0..127, NEW x, NEW opcode \in FusedOpcodes
  PROVE  /\ SystemType(funct3, x) \in SystemTypes \cup Unknown
         /\ Op32Type(funct7, funct3) \in {"ADDW", "SUBW", "SLLW", "SRLW", "SRAW"} \cup Unknown
         /\ OpImm32Type(funct7, funct3) \in {"ADDIW", "SLLIW", "SRLIW", "SRAIW"} \cup Unknown
         /\ FpLoad(funct3) \in {"FLW", "FLD"} \cup Unknown
         /\ Fused(opcode, funct7) \in ToFloatTypes \cup Unknown
         /\ amo_table(x, funct3) \in AmoTypes \cup {"LR", "SC"} \cup Unknown
<1>1. SystemType(funct3, x) \in SystemTypes \cup Unknown
  BY DEF SystemType, SystemTypes, TrapTypes, ReturnTypes, CsrTypes, FenceTypes, Unknown
<1>2. Op32Type(funct7, funct3) \in {"ADDW", "SUBW", "SLLW", "SRLW", "SRAW"} \cup Unknown
  BY DEF Op32Type, Unknown
<1>3. OpImm32Type(funct7, funct3) \in {"ADDIW", "SLLIW", "SRLIW", "SRAIW"} \cup Unknown
  BY DEF OpImm32Type, Unknown
<1>4. FpLoad(funct3) \in {"FLW", "FLD"} \cup Unknown
  BY DEF FpLoad, Unknown
<1>5. Fused(opcode, funct7) \in ToFloatTypes \cup Unknown
  BY DEF Fused, FusedOpcodes, ToFloatTypes, Unknown
<1>6. amo_table(x, funct3) \in AmoTypes \cup {"LR", "SC"} \cup Unknown
  BY DEF amo_table, AmoTypes, Unknown
<1> QED BY <1>1, <1>2, <1>3, <1>4, <1>5, <1>6

\* OP-FP's chain.
LEMMA FpChain ==
  ASSUME NEW funct7 \in 0..127, NEW funct3 \in 0..7, NEW rs2 \in 0..31
  PROVE  OpFpType(funct7, funct3, rs2) \in FloatSingleTypes \cup FloatDoubleTypes \cup Unknown
<1> DEFINE op == funct7 \div 2
           t == OpFpType(funct7, funct3, rs2)
           all == FloatSingleTypes \cup FloatDoubleTypes \cup Unknown
<1>1. {"FADD", "FSUB", "FMUL", "FDIV", "FSQRT", "FSGNJ", "FSGNJN", "FSGNJX", "FMIN", "FMAX", "FLE", "FLT", "FEQ",
       "FCVT_W", "FCVT_WU", "FCVT_F_W", "FCVT_F_WU", "FCLASS", "FMV_X_W", "FMV_W_X", "FCVT_S_D", "FCVT_D_S",
       "UNKNOWN"} \subseteq all
  BY DEF FloatSingleTypes, FloatDoubleTypes, BothWidths, ToFloatTypes, ToRegisterTypes, FromRegisterTypes, Unknown
<1>2. op \notin {8, 10, 40, 48, 52}
        => t \in {"FADD", "FSUB", "FMUL", "FDIV", "FSQRT", "FCLASS", "FMV_X_W", "FMV_W_X", "FCVT_S_D",
                  "FCVT_D_S", "UNKNOWN"}
  BY DEF OpFpType
<1>3. op = 8 => t \in {"FSGNJ", "FSGNJN", "FSGNJX", "UNKNOWN"}
  BY DEF OpFpType
<1>4. op = 10 => t \in {"FMIN", "FMAX", "UNKNOWN"}
  BY DEF OpFpType
<1>5. op = 40 => t \in {"FLE", "FLT", "FEQ", "UNKNOWN"}
  BY DEF OpFpType
<1>6. op = 48 => t \in {"FCVT_W", "FCVT_WU", "UNKNOWN"}
  BY DEF OpFpType
<1>7. op = 52 => t \in {"FCVT_F_W", "FCVT_F_WU", "UNKNOWN"}
  BY DEF OpFpType
<1> HIDE DEF t, all, op
<1> QED BY <1>1, <1>2, <1>3, <1>4, <1>5, <1>6, <1>7 DEF t, all
\* An opcode decodes to the types of its own handlers, or to UNKNOWN.
LEMMA TypeOfOpcode ==
  ASSUME NEW w
  PROVE  decode_instruction(w).inst_type \in OpcodeTypes(Opcode(w))
<1> DEFINE op == Opcode(w)
           f3 == Field(w, 12, 14)
           f7 == Field(w, 25, 31)
           t == TypeAndImm(w, op, f3, f7)[1]
<1>1. f3 \in 0..7 /\ f7 \in 0..127 /\ 0 \in 0..127 /\ Field(w, 20, 24) \in 0..31
  BY Fields
<1>2. decode_instruction(w).inst_type = t
  BY DEF decode_instruction, instruction_t
<1> SUFFICES t \in OpcodeTypes(op)
  BY <1>2 DEF op
<1> HIDE DEF op, f3, f7
<1>3. CASE op \in {55, 23, 111, 103}
  BY <1>3 DEF TypeAndImm, OpcodeTypes, UpperTypes, FusedOpcodes
<1>4. CASE op = 99
  <2>1. t = branch_table[f3 + 1]
    BY <1>4 DEF TypeAndImm, FusedOpcodes
  <2> HIDE DEF t
  <2> QED BY <1>1, <1>4, <2>1, Tables DEF OpcodeTypes, FusedOpcodes
<1>5. CASE op = 35
  <2>1. t = store_table[f3 + 1]
    BY <1>5 DEF TypeAndImm, FusedOpcodes
  <2> HIDE DEF t
  <2> QED BY <1>1, <1>5, <2>1, Tables DEF OpcodeTypes, FusedOpcodes
<1>6. CASE op = 3
  <2>1. t = load_table[f3 + 1]
    BY <1>6 DEF TypeAndImm, FusedOpcodes
  <2> HIDE DEF t
  <2> QED BY <1>1, <1>6, <2>1, Tables DEF OpcodeTypes, FusedOpcodes
<1>7. CASE op = 19
  <2>1. t \in {op_imm_table(f7)[f3 + 1], op_imm_table(0)[f3 + 1]}
    BY <1>7 DEF TypeAndImm, FusedOpcodes
  <2> HIDE DEF t
  <2>2. /\ op_imm_table(f7)[f3 + 1] \in AluImmTypes \cup Unknown
        /\ op_imm_table(0)[f3 + 1] \in AluImmTypes \cup Unknown
    BY <1>1, Tables
  <2> QED BY <1>7, <2>1, <2>2 DEF OpcodeTypes, FusedOpcodes
<1>8. CASE op = 51
  <2>1. t = op_table(f7)[f3 + 1]
    BY <1>8 DEF TypeAndImm, FusedOpcodes
  <2> HIDE DEF t
  <2>2. op_table(f7)[f3 + 1] \in AluRegTypes \cup Unknown
    BY <1>1, Tables
  <2> QED BY <1>8, <2>1, <2>2 DEF OpcodeTypes, FusedOpcodes
<1>9. CASE op = 115
  <2>1. t = SystemType(f3, Field(w, 20, 31))
    BY <1>9 DEF TypeAndImm, FusedOpcodes
  <2> HIDE DEF t
  <2> QED BY <1>1, <1>9, <2>1, Chains DEF OpcodeTypes, FusedOpcodes
<1>10. CASE op = 47
  <2>1. t = amo_table(Field(w, 27, 31), f3)
    BY <1>10 DEF TypeAndImm, FusedOpcodes
  <2> HIDE DEF t
  <2> QED BY <1>1, <1>10, <2>1, Chains DEF OpcodeTypes, FusedOpcodes
<1>11. CASE op = 7
  <2>1. t = FpLoad(f3)
    BY <1>11 DEF TypeAndImm, FusedOpcodes
  <2> HIDE DEF t
  <2> QED BY <1>1, <1>11, <2>1, Chains DEF OpcodeTypes, FusedOpcodes
<1>12. CASE op = 39
  <2>1. t \in {"FSW", "UNKNOWN"}
    BY <1>12 DEF TypeAndImm, FusedOpcodes
  <2> HIDE DEF t
  <2> QED BY <1>12, <2>1 DEF OpcodeTypes, Unknown, FusedOpcodes
<1>13. CASE op \in FusedOpcodes
  <2>1. t = Fused(op, f7)
    BY <1>13 DEF TypeAndImm, FusedOpcodes
  <2>2. t \in ToFloatTypes \cup Unknown
    BY <1>1, <1>13, <2>1, Chains
  <2>3. OpcodeTypes(op) = FloatSingleTypes \cup FloatDoubleTypes \cup Unknown
    BY <1>13 DEF OpcodeTypes, FusedOpcodes
  <2>4. ToFloatTypes \subseteq FloatSingleTypes
    BY DEF FloatSingleTypes, BothWidths
  <2> HIDE DEF t
  <2> QED BY <2>2, <2>3, <2>4
<1>14. CASE op = 83
  <2>1. t = OpFpType(f7, f3, Field(w, 20, 24))
    BY <1>14 DEF TypeAndImm, FusedOpcodes
  <2>2. OpcodeTypes(op) = FloatSingleTypes \cup FloatDoubleTypes \cup Unknown
    BY <1>14 DEF OpcodeTypes, FusedOpcodes
  <2> HIDE DEF t
  <2> QED BY <1>1, <2>1, <2>2, FpChain
<1>15. CASE op \in {27, 59} /\ RV64
  <2>1. /\ op = 27 => t = OpImm32Type(f7, f3)
        /\ op = 59 => t = Op32Type(f7, f3)
    BY <1>15 DEF TypeAndImm, FusedOpcodes
  <2>2. OpcodeTypes(op) = Rv64Types \cup Unknown
    BY <1>15 DEF OpcodeTypes, FusedOpcodes
  <2>3. t \in {"ADDW", "SUBW", "SLLW", "SRLW", "SRAW", "ADDIW", "SLLIW", "SRLIW", "SRAIW"} \cup Unknown
    BY <1>1, <1>15, <2>1, Chains DEF FusedOpcodes
  <2> HIDE DEF t
  <2> QED BY <1>15, <2>2, <2>3 DEF Rv64Types
<1>16. CASE /\ op \notin {55, 23, 111, 103, 99, 35, 3, 19, 51, 115, 47, 7, 39, 83} \cup FusedOpcodes
            /\ ~(op \in {27, 59} /\ RV64)
  <2>1. t = "UNKNOWN"
    BY <1>16 DEF TypeAndImm, FusedOpcodes
  <2>2. OpcodeTypes(op) = Unknown
    BY <1>16 DEF OpcodeTypes, FusedOpcodes
  <2> QED BY <2>1, <2>2 DEF Unknown
<1> HIDE DEF t
<1> QED BY <1>3, <1>4, <1>5, <1>6, <1>7, <1>8, <1>9, <1>10, <1>11, <1>12, <1>13, <1>14, <1>15, <1>16
-----------------------------------------------------------------------------
(* What follows for the record *)

\* Only AMO words decode to atomics, branch and JAL words to those, and
\* SYSTEM words to returns.
LEMMA OpcodeOfType ==
  ASSUME NEW opcode, NEW t \in OpcodeTypes(opcode)
  PROVE  /\ t \in {"LR", "SC"} \cup AmoTypes => opcode = 47
         /\ t \in BranchTypes => opcode = 99
         /\ t = "JAL" => opcode = 111
         /\ t \in ReturnTypes => opcode = 115
<1>1. t \in {"LR", "SC"} \cup AmoTypes => opcode = 47
  BY DEF OpcodeTypes, UpperTypes, BranchTypes, StoreTypes, LoadTypes, AluImmTypes, AluRegTypes, SystemTypes,
       TrapTypes, ReturnTypes, CsrTypes, FenceTypes, AmoTypes, FusedOpcodes, FloatSingleTypes, FloatDoubleTypes,
       BothWidths, ToFloatTypes, ToRegisterTypes, FromRegisterTypes, Rv64Types, Unknown
<1>2. t \in BranchTypes => opcode = 99
  BY DEF OpcodeTypes, UpperTypes, BranchTypes, StoreTypes, LoadTypes, AluImmTypes, AluRegTypes, SystemTypes,
       TrapTypes, ReturnTypes, CsrTypes, FenceTypes, AmoTypes, FusedOpcodes, FloatSingleTypes, FloatDoubleTypes,
       BothWidths, ToFloatTypes, ToRegisterTypes, FromRegisterTypes, Rv64Types, Unknown
<1>3. t = "JAL" => opcode = 111
  BY DEF OpcodeTypes, UpperTypes, BranchTypes, StoreTypes, LoadTypes, AluImmTypes, AluRegTypes, SystemTypes,
       TrapTypes, ReturnTypes, CsrTypes, FenceTypes, AmoTypes, FusedOpcodes, FloatSingleTypes, FloatDoubleTypes,
       BothWidths, ToFloatTypes, ToRegisterTypes, FromRegisterTypes, Rv64Types, Unknown
<1>4. t \in ReturnTypes => opcode = 115
  BY DEF OpcodeTypes, UpperTypes, BranchTypes, StoreTypes, LoadTypes, AluImmTypes, AluRegTypes, SystemTypes,
       TrapTypes, ReturnTypes, CsrTypes, FenceTypes, AmoTypes, FusedOpcodes, FloatSingleTypes, FloatDoubleTypes,
       BothWidths, ToFloatTypes, ToRegisterTypes, FromRegisterTypes, Rv64Types, Unknown
<1> QED BY <1>1, <1>2, <1>3, <1>4

\* The offsets of jumps and branches are even.
LEMMA OffsetsAreEven ==
  ASSUME NEW w, decode_instruction(w).inst_type \in {"JAL"} \cup BranchTypes
  PROVE  0 \notin decode_instruction(w).imm
<1> DEFINE t == decode_instruction(w).inst_type
<1>1. t \in OpcodeTypes(Opcode(w))
  BY TypeOfOpcode
<1>2. Opcode(w) \in {111, 99}
  <2> HIDE DEF t
  <2>1. t \in {"JAL"} \cup BranchTypes
    BY DEF t
  <2> QED BY <1>1, <2>1, OpcodeOfType
<1>3. decode_instruction(w).imm = TypeAndImm(w, Opcode(w), Field(w, 12, 14), Field(w, 25, 31))[2]
  BY DEF decode_instruction, instruction_t
<1>4. decode_instruction(w).imm \in {JumpImm(w), BranchImm(w)}
  BY <1>2, <1>3 DEF TypeAndImm, FusedOpcodes
<1>5. 0 \notin Slice(w, 24, 31, 12) /\ 0 \notin Slice(w, 21, 30, 1) /\ 0 \notin Slice(w, 20, 20, 11)
      /\ 0 \notin Slice(w, 25, 30, 5) /\ 0 \notin Slice(w, 8, 11, 1) /\ 0 \notin Slice(w, 7, 7, 11)
  <2>1. \A lo, hi, at \in Nat : at > 0 => 0 \notin Slice(w, lo, hi, at)
    BY SlicePlace
  <2> QED BY <2>1
<1>6. 0 \notin SignFrom(31, w, 20) /\ 0 \notin SignFrom(31, w, 12)
  BY DEF SignFrom
<1> QED BY <1>4, <1>5, <1>6 DEF JumpImm, BranchImm

\* A doubleword atomic exists on RV64 only.
LEMMA WideAtomics ==
  ASSUME NEW w, decode_instruction(w).inst_type \in {"LR", "SC"} \cup AmoTypes, decode_instruction(w).wide
  PROVE  RV64
<1> DEFINE t == decode_instruction(w).inst_type
           f3 == Field(w, 12, 14)
<1>1. t \in OpcodeTypes(Opcode(w)) /\ t \in {"LR", "SC"} \cup AmoTypes
  BY TypeOfOpcode
<1>2. Opcode(w) = 47
  <2> HIDE DEF t
  <2> QED BY <1>1, OpcodeOfType
<1>3. t = TypeAndImm(w, 47, f3, Field(w, 25, 31))[1]
  BY <1>2 DEF decode_instruction, instruction_t
<1>4. t = amo_table(Field(w, 27, 31), f3)
  <2> HIDE DEF t, f3
  <2> QED BY <1>3 DEF TypeAndImm, FusedOpcodes
<1>5. 12 \in w
  BY <1>2 DEF decode_instruction, instruction_t
<1>6. f3 # 2
  BY <1>5, LowFunct3
<1>7. ~RV64 => amo_table(Field(w, 27, 31), f3) = "UNKNOWN"
  <2> HIDE DEF f3
  <2> QED BY <1>6 DEF amo_table
<1> HIDE DEF t
<1> QED BY <1>1, <1>4, <1>7 DEF AmoTypes
-----------------------------------------------------------------------------
(* Expansion *)

\* A word has the opcode that its seven lowest bits are.
LEMMA OpcodeOfLow ==
  ASSUME NEW op \in 0..127, NEW w, \A i \in 0..6 : i \in w <=> i \in Num(op)
  PROVE  Opcode(w) = op
<1>1. op \in Nat /\ op < 2^31
  BY SMT
<1>2. Num(op) \in Words(31) /\ Val(Num(op)) = op
  BY <1>1, ValNum
<1>3. {7} \in Words(31) /\ op < Val({7})
  BY SmallPowers DEF Words, Bits
<1>4. LtU(Num(op), {7})
  BY <1>2, <1>3, ValOrder
<1>5. Num(op) \subseteq 0..6
  <2>1. Num(op) \subseteq 0..30
    BY <1>2 DEF Words, Bits
  <2> QED BY <1>4, <2>1 DEF LtU
<1>6. Slice(w, 0, 6, 0) \in Words(7) /\ \A i \in Bits(7) : i \in Slice(w, 0, 6, 0) <=> i + 0 \in w
  BY SliceIsWord
<1>7. Bits(7) = 0..6
  BY DEF Bits
<1>8. Slice(w, 0, 6, 0) = Num(op)
  <2>1. \A i \in 0..6 : i \in Slice(w, 0, 6, 0) <=> i \in Num(op)
    BY <1>6, <1>7
  <2>2. Slice(w, 0, 6, 0) \subseteq 0..6
    BY <1>6, <1>7 DEF Words
  <2> QED BY <1>5, <2>1, <2>2
<1> QED BY <1>2, <1>8 DEF Opcode, Field

\* Above the opcode, a format only sets higher bits.
LEMMA AtIsHigh ==
  ASSUME NEW x \in SUBSET Nat, NEW k \in Nat, k >= 7, NEW i \in 0..6
  PROVE  i \notin At(x, k)
  BY DEF At, ShiftL
\* And so does a field that is put there.
LEMMA SliceIsHigh ==
  ASSUME NEW x, NEW lo \in Nat, NEW hi \in Nat, NEW k \in Nat, k >= 7, NEW i \in 0..6
  PROVE  i \notin Slice(x, lo, hi, k)
  BY SlicePlace

\* So a format sets the bits below 7 to its opcode only.
LEMMA FixedIsLow ==
  ASSUME NEW op, NEW f3, NEW i \in 0..6
  PROVE  /\ i \in Fixed(f3, op) <=> i \in Num(op)
         /\ \A x \in SUBSET Nat : /\ i \notin At(x, 7) /\ i \notin At(x, 15) /\ i \notin At(x, 20)
                                /\ i \notin At(x, 25)
         /\ \A k : i \notin At(Num(k), 25)
<1>1. \A k : Num(k) \in SUBSET Nat
  BY DEF Num
<1>2. \A x \in SUBSET Nat : /\ i \notin At(x, 7) /\ i \notin At(x, 12) /\ i \notin At(x, 15)
                            /\ i \notin At(x, 20) /\ i \notin At(x, 25)
  BY AtIsHigh
<1> QED BY <1>1, <1>2 DEF Fixed

\* The opcodes an expansion is built with; C.EBREAK has the one of SYSTEM.
Codes == {3, 7, 19, 35, 39, 51, 55, 99, 103, 111}
Ebreak == Num(1048691)
Plain(word) == word = {} \/ word = Ebreak \/ Opcode(word) \in Codes

\* They are these ten.
LEMMA OpcodesOfExpansion ==
  /\ 3 \in Codes /\ 7 \in Codes /\ 19 \in Codes /\ 35 \in Codes /\ 39 \in Codes
  /\ 51 \in Codes /\ 55 \in Codes /\ 99 \in Codes /\ 103 \in Codes /\ 111 \in Codes
BY DEF Codes

\* A word is plain when its low bits are those of such an opcode.
LEMMA PlainByOpcode ==
  ASSUME NEW op \in Codes, NEW w, \A i \in 0..6 : i \in w <=> i \in Num(op)
  PROVE  Plain(w)
<1>1. op \in 0..127
  BY DEF Codes
<1> QED BY <1>1, OpcodeOfLow DEF Plain

\* What each format builds with one of them.
LEMMA ImmediateIsPlain ==
  ASSUME NEW op \in Codes, NEW rd \in SUBSET Nat, NEW rs1 \in SUBSET Nat, NEW imm \in SUBSET Nat,
         NEW f3, NEW f7
  PROVE  /\ Plain(encode_i(op, rd, rs1, imm, f3))
         /\ Plain(encode_i(op, rd, rs1, imm, f3) \cup At(Num(f7), 25))
<1>1. \A i \in 0..6 : /\ i \in encode_i(op, rd, rs1, imm, f3) <=> i \in Num(op)
                      /\ i \in encode_i(op, rd, rs1, imm, f3) \cup At(Num(f7), 25) <=> i \in Num(op)
  BY FixedIsLow DEF encode_i
<1> QED BY <1>1, PlainByOpcode
\* The register format.
LEMMA RegisterIsPlain ==
  ASSUME NEW op \in Codes, NEW rd \in SUBSET Nat, NEW rs1 \in SUBSET Nat, NEW rs2 \in SUBSET Nat,
         NEW f3, NEW f7
  PROVE  Plain(encode_r(op, rd, rs1, rs2, f3, f7))
<1>1. \A i \in 0..6 : i \in encode_r(op, rd, rs1, rs2, f3, f7) <=> i \in Num(op)
  BY FixedIsLow DEF encode_r
<1> QED BY <1>1, PlainByOpcode
\* Stores and branches.
LEMMA StoreIsPlain ==
  ASSUME NEW op \in Codes, NEW rs1 \in SUBSET Nat, NEW rs2 \in SUBSET Nat, NEW imm \in SUBSET Nat,
         NEW f3
  PROVE  Plain(encode_s(op, rs1, rs2, imm, f3)) /\ Plain(encode_b(op, rs1, rs2, imm, f3))
<1>1. \A x : \A i \in 0..6 :
        /\ i \notin Slice(x, 5, 11, 25) /\ i \notin Slice(x, 0, 4, 7)
        /\ i \notin Slice(x, 12, 12, 31) /\ i \notin Slice(x, 5, 10, 25)
        /\ i \notin Slice(x, 1, 4, 8) /\ i \notin Slice(x, 11, 11, 7)
  BY SliceIsHigh
<1>2. \A i \in 0..6 : i \in encode_s(op, rs1, rs2, imm, f3) <=> i \in Num(op)
  BY <1>1, FixedIsLow DEF encode_s
<1>3. \A i \in 0..6 : i \in encode_b(op, rs1, rs2, imm, f3) <=> i \in Num(op)
  BY <1>1, FixedIsLow DEF encode_b
<1> QED BY <1>2, <1>3, PlainByOpcode
\* Upper immediates and jumps.
LEMMA JumpIsPlain ==
  ASSUME NEW op \in Codes, NEW rd \in SUBSET Nat, NEW imm \in SUBSET Nat
  PROVE  Plain(encode_u(op, rd, imm)) /\ Plain(encode_j(op, rd, imm))
<1>1. \A x : \A i \in 0..6 :
        /\ i \notin Slice(x, 12, 31, 12)
        /\ i \notin Slice(x, 20, 20, 31) /\ i \notin Slice(x, 1, 10, 21)
        /\ i \notin Slice(x, 11, 11, 20) /\ i \notin Slice(x, 12, 19, 12)
  BY SliceIsHigh
<1>2. \A i \in 0..6 : i \in encode_u(op, rd, imm) <=> i \in Num(op)
  BY <1>1, FixedIsLow DEF encode_u
<1>3. \A i \in 0..6 : i \in encode_j(op, rd, imm) <=> i \in Num(op)
  BY <1>1, FixedIsLow DEF encode_j
<1> QED BY <1>2, <1>3, PlainByOpcode

\* The operands an expansion is built from.
LEMMA ExpansionOperands ==
  ASSUME NEW c
  PROVE  /\ Zero \in SUBSET Nat /\ Ra \in SUBSET Nat /\ Sp \in SUBSET Nat
         /\ RegLow(c) \in SUBSET Nat /\ RegHigh(c) \in SUBSET Nat /\ Rd(c) \in SUBSET Nat
         /\ Rs2(c) \in SUBSET Nat
         /\ WordImm(c) \in SUBSET Nat /\ DoubleImm(c) \in SUBSET Nat /\ Addi4Imm(c) \in SUBSET Nat
         /\ Imm6(c) \in SUBSET Nat /\ ShamtImm(c) \in SUBSET Nat /\ SpImm(c) \in SUBSET Nat
         /\ JImm(c) \in SUBSET Nat /\ BImm(c) \in SUBSET Nat /\ LwspImm(c) \in SUBSET Nat
         /\ FldspImm(c) \in SUBSET Nat /\ SwspImm(c) \in SUBSET Nat /\ FsdspImm(c) \in SUBSET Nat
         /\ At(Imm6(c), 12) \in SUBSET Nat
<1>1. \A lo, hi, at \in Nat : Slice(c, lo, hi, at) \in SUBSET Nat
  BY SlicePlace
<1>2. \A from \in Nat : Sign(c, from) \in SUBSET Nat
  BY DEF Sign
<1>3. Zero \in SUBSET Nat /\ Ra \in SUBSET Nat /\ Sp \in SUBSET Nat
  BY DEF Zero, Ra, Sp
<1>4. RegLow(c) \in SUBSET Nat /\ RegHigh(c) \in SUBSET Nat /\ Rd(c) \in SUBSET Nat /\ Rs2(c) \in SUBSET Nat
  BY <1>1 DEF RegLow, RegHigh, Rd, Rs2
<1>5. WordImm(c) \in SUBSET Nat /\ DoubleImm(c) \in SUBSET Nat /\ Addi4Imm(c) \in SUBSET Nat
  BY <1>1 DEF WordImm, DoubleImm, Addi4Imm
<1>6. Imm6(c) \in SUBSET Nat /\ ShamtImm(c) \in SUBSET Nat /\ SpImm(c) \in SUBSET Nat
  BY <1>1, <1>2 DEF Imm6, ShamtImm, SpImm
<1>7. JImm(c) \in SUBSET Nat /\ BImm(c) \in SUBSET Nat
  BY <1>1, <1>2 DEF JImm, BImm
<1>8. LwspImm(c) \in SUBSET Nat /\ FldspImm(c) \in SUBSET Nat /\ SwspImm(c) \in SUBSET Nat
      /\ FsdspImm(c) \in SUBSET Nat
  BY <1>1 DEF LwspImm, FldspImm, SwspImm, FsdspImm
<1>9. At(Imm6(c), 12) \in SUBSET Nat
  BY DEF At, ShiftL, Bits
<1> QED BY <1>3, <1>4, <1>5, <1>6, <1>7, <1>8, <1>9
\* The number of a short word, bit by bit.
LEMMA SixBits ==
  ASSUME NEW x \in Words(6)
  PROVE  Val(x) = Digit(x, 0) + 2 * Digit(x, 1) + 4 * Digit(x, 2) + 8 * Digit(x, 3)
                    + 16 * Digit(x, 4) + 32 * Digit(x, 5)
<1>1. /\ From(x)[6] = 0
      /\ \A i \in Bits(6) : From(x)[i] = 2 * From(x)[i + 1] + Digit(x, i)
  BY FromStep
<1>2. /\ From(x)[5] = 2 * From(x)[6] + Digit(x, 5) /\ From(x)[4] = 2 * From(x)[5] + Digit(x, 4)
      /\ From(x)[3] = 2 * From(x)[4] + Digit(x, 3) /\ From(x)[2] = 2 * From(x)[3] + Digit(x, 2)
      /\ From(x)[1] = 2 * From(x)[2] + Digit(x, 1) /\ From(x)[0] = 2 * From(x)[1] + Digit(x, 0)
  BY <1>1 DEF Bits
<1>3. \A i : Digit(x, i) \in 0..1
  BY DEF Digit
<1> QED BY <1>1, <1>2, <1>3 DEF Val

\* The group of C.SUB is complete: with bits 15:13 at 4, bits 11:10 are below
\* 3 or funct6 is 0x23 or 0x27.
LEMMA MiscAluComplete ==
  ASSUME NEW c, Field(c, 13, 15) = 4
  PROVE  Field(c, 10, 11) \in 0..2 \/ Field(c, 10, 15) \in {35, 39}
<1> DEFINE x == Slice(c, 10, 11, 0)
           y == Slice(c, 10, 15, 0)
           z == Slice(c, 13, 15, 0)
<1>1. /\ x \in Words(2) /\ \A i \in Bits(2) : i \in x <=> i + 10 \in c
      /\ y \in Words(6) /\ \A i \in Bits(6) : i \in y <=> i + 10 \in c
      /\ z \in Words(3) /\ \A i \in Bits(3) : i \in z <=> i + 13 \in c
  <2>1. /\ 2 \in Nat /\ 3 \in Nat /\ 6 \in Nat /\ 10 \in Nat /\ 11 \in Nat /\ 13 \in Nat /\ 15 \in Nat
        /\ 2 = 11 - 10 + 1 /\ 6 = 15 - 10 + 1 /\ 3 = 15 - 13 + 1
    OBVIOUS
  <2>2. x \in Words(2) /\ \A i \in Bits(2) : i \in x <=> i + 10 \in c
    BY <2>1, SlicesAreWords, Zenon
  <2>3. y \in Words(6) /\ \A i \in Bits(6) : i \in y <=> i + 10 \in c
    BY <2>1, SlicesAreWords, Zenon
  <2>4. z \in Words(3) /\ \A i \in Bits(3) : i \in z <=> i + 13 \in c
    BY <2>1, SlicesAreWords, Zenon
  <2> QED BY <2>2, <2>3, <2>4
<1> HIDE DEF x, y, z
<1>2. x \in Words(6) /\ z \in Words(6)
  BY <1>1 DEF Words, Bits
<1>3. Val(z) = 4 /\ 2 \in z /\ 1 \notin z /\ 0 \notin z
  <2>1. Val(z) = 4
    BY DEF Field, z
  <2>2. 3 \notin z /\ 4 \notin z /\ 5 \notin z
    BY <1>1 DEF Words, Bits
  <2> QED BY <1>2, <2>1, <2>2, SixBits DEF Digit
<1>4. 15 \in c /\ 14 \notin c /\ 13 \notin c
  BY <1>1, <1>3 DEF Bits
<1>5. 5 \in y /\ 4 \notin y /\ 3 \notin y /\ (0 \in y <=> 0 \in x) /\ (1 \in y <=> 1 \in x)
  BY <1>1, <1>4 DEF Bits
<1>6. 2 \notin x /\ 3 \notin x /\ 4 \notin x /\ 5 \notin x
  BY <1>1 DEF Words, Bits
<1>7. Val(x) \in 0..2 \/ (0 \in x /\ 1 \in x)
  BY <1>2, <1>6, SixBits DEF Digit
<1>8. 0 \in x /\ 1 \in x => Val(y) \in {35, 39}
  BY <1>1, <1>5, SixBits DEF Digit
<1> QED BY <1>7, <1>8 DEF Field, x, y

\* The first quadrant expands to loads and stores.
LEMMA Quadrant0IsPlain ==
  ASSUME NEW c, NEW funct3
  PROVE  Plain(Quadrant0(c, funct3))
<1>1. RegLow(c) \in SUBSET Nat /\ RegHigh(c) \in SUBSET Nat /\ Sp \in SUBSET Nat
      /\ Addi4Imm(c) \in SUBSET Nat /\ DoubleImm(c) \in SUBSET Nat /\ WordImm(c) \in SUBSET Nat
  BY ExpansionOperands
<1>2. Plain({})
  BY DEF Plain
<1>3. Plain(encode_i(19, RegLow(c), Sp, Addi4Imm(c), 0))
  BY <1>1, OpcodesOfExpansion, ImmediateIsPlain
<1>4. /\ Plain(encode_i(7, RegLow(c), RegHigh(c), DoubleImm(c), 3))
      /\ Plain(encode_i(3, RegLow(c), RegHigh(c), WordImm(c), 2))
      /\ Plain(encode_i(3, RegLow(c), RegHigh(c), DoubleImm(c), 3))
      /\ Plain(encode_i(7, RegLow(c), RegHigh(c), WordImm(c), 2))
  BY <1>1, OpcodesOfExpansion, ImmediateIsPlain
<1>5. /\ Plain(encode_s(39, RegHigh(c), RegLow(c), DoubleImm(c), 3))
      /\ Plain(encode_s(35, RegHigh(c), RegLow(c), WordImm(c), 2))
      /\ Plain(encode_s(35, RegHigh(c), RegLow(c), DoubleImm(c), 3))
      /\ Plain(encode_s(39, RegHigh(c), RegLow(c), WordImm(c), 2))
  BY <1>1, OpcodesOfExpansion, StoreIsPlain
<1> QED BY <1>2, <1>3, <1>4, <1>5 DEF Quadrant0

\* C.SRLI to C.AND.
LEMMA MiscAluIsPlain ==
  ASSUME NEW c, Field(c, 13, 15) = 4
  PROVE  Plain(MiscAlu(c))
<1>1. RegHigh(c) \in SUBSET Nat /\ RegLow(c) \in SUBSET Nat /\ ShamtImm(c) \in SUBSET Nat
      /\ Imm6(c) \in SUBSET Nat
  BY ExpansionOperands
<1>2. /\ Plain(encode_i(19, RegHigh(c), RegHigh(c), ShamtImm(c), 5))
      /\ Plain(encode_i(19, RegHigh(c), RegHigh(c), ShamtImm(c), 5) \cup At(Num(32), 25))
      /\ Plain(encode_i(19, RegHigh(c), RegHigh(c), Imm6(c), 7))
  BY <1>1, OpcodesOfExpansion, ImmediateIsPlain
<1>3. /\ Plain(encode_r(51, RegHigh(c), RegHigh(c), RegLow(c), 0, 32))
      /\ Plain(encode_r(51, RegHigh(c), RegHigh(c), RegLow(c), 4, 0))
      /\ Plain(encode_r(51, RegHigh(c), RegHigh(c), RegLow(c), 6, 0))
      /\ Plain(encode_r(51, RegHigh(c), RegHigh(c), RegLow(c), 7, 0))
  BY <1>1, OpcodesOfExpansion, RegisterIsPlain
<1>4. Field(c, 10, 11) \in 0..2 \/ Field(c, 10, 15) \in {35, 39}
  BY MiscAluComplete
<1>5. CASE Field(c, 10, 11) \in 0..2
  BY <1>2, <1>3, <1>5 DEF MiscAlu
<1>6. CASE Field(c, 10, 11) \notin 0..2 /\ Field(c, 10, 15) \in {35, 39}
  BY <1>3, <1>6 DEF MiscAlu
<1> QED BY <1>4, <1>5, <1>6

\* The quadrants are told apart by three bits.
LEMMA Funct3IsSmall == \A c : Field(c, 13, 15) \in 0..7
<1> TAKE c
<1>1. 13 \in Nat /\ 15 \in Nat /\ 3 \in Nat /\ 3 = 15 - 13 + 1
  OBVIOUS
<1>2. Field(c, 13, 15) \in Nat /\ Field(c, 13, 15) < Val({3})
  BY <1>1, SlicesAreWords, Zenon
<1> QED BY <1>2, SmallPowers

\* The second quadrant expands to an immediate operation, a jump or a branch.
LEMMA Quadrant1IsPlain ==
  ASSUME NEW c
  PROVE  Plain(Quadrant1(c, Field(c, 13, 15)))
<1> DEFINE f3 == Field(c, 13, 15)
<1>1. f3 \in 0..7
  BY Funct3IsSmall
<1>2. f3 = 4 => Plain(MiscAlu(c))
  BY MiscAluIsPlain
<1>3. /\ Rd(c) \in SUBSET Nat /\ RegHigh(c) \in SUBSET Nat /\ Zero \in SUBSET Nat /\ Ra \in SUBSET Nat
      /\ Sp \in SUBSET Nat /\ Imm6(c) \in SUBSET Nat /\ JImm(c) \in SUBSET Nat /\ SpImm(c) \in SUBSET Nat
      /\ BImm(c) \in SUBSET Nat /\ At(Imm6(c), 12) \in SUBSET Nat
  BY ExpansionOperands
<1>4. /\ Plain(encode_i(19, Rd(c), Rd(c), Imm6(c), 0)) /\ Plain(encode_i(19, Rd(c), Zero, Imm6(c), 0))
      /\ Plain(encode_i(19, Sp, Sp, SpImm(c), 0))
  BY <1>3, OpcodesOfExpansion, ImmediateIsPlain
<1>5. /\ Plain(encode_j(111, Ra, JImm(c))) /\ Plain(encode_j(111, Zero, JImm(c)))
      /\ Plain(encode_u(55, Rd(c), At(Imm6(c), 12)))
  BY <1>3, OpcodesOfExpansion, JumpIsPlain
<1>6. /\ Plain(encode_b(99, RegHigh(c), Zero, BImm(c), 0))
      /\ Plain(encode_b(99, RegHigh(c), Zero, BImm(c), 1))
  BY <1>3, OpcodesOfExpansion, StoreIsPlain
<1> HIDE DEF f3
<1>7. Plain(Quadrant1(c, f3))
  BY <1>1, <1>2, <1>4, <1>5, <1>6 DEF Quadrant1
<1> QED BY <1>7 DEF f3

\* The third quadrant expands to those of the stack pointer, or C.EBREAK.
LEMMA Quadrant2IsPlain ==
  ASSUME NEW c
  PROVE  Plain(Quadrant2(c, Field(c, 13, 15)))
<1> DEFINE f3 == Field(c, 13, 15)
<1>1. f3 \in 0..7
  BY Funct3IsSmall
<1>2. /\ Rd(c) \in SUBSET Nat /\ Rs2(c) \in SUBSET Nat /\ Zero \in SUBSET Nat /\ Ra \in SUBSET Nat
      /\ Sp \in SUBSET Nat /\ ShamtImm(c) \in SUBSET Nat /\ FldspImm(c) \in SUBSET Nat
      /\ LwspImm(c) \in SUBSET Nat /\ FsdspImm(c) \in SUBSET Nat /\ SwspImm(c) \in SUBSET Nat
      /\ {} \in SUBSET Nat
  BY ExpansionOperands
<1>3. Plain({}) /\ Plain(Ebreak)
  BY DEF Plain
<1>4. /\ Plain(encode_i(103, Ra, Rd(c), {}, 0)) /\ Plain(encode_i(103, Zero, Rd(c), {}, 0))
      /\ Plain(encode_i(19, Rd(c), Rd(c), ShamtImm(c), 1))
      /\ Plain(encode_i(7, Rd(c), Sp, FldspImm(c), 3))
      /\ Plain(encode_i(3, Rd(c), Sp, LwspImm(c), 2)) /\ Plain(encode_i(7, Rd(c), Sp, LwspImm(c), 2))
  BY <1>2, OpcodesOfExpansion, ImmediateIsPlain
<1>5. /\ Plain(encode_s(39, Sp, Rs2(c), FsdspImm(c), 3)) /\ Plain(encode_s(35, Sp, Rs2(c), SwspImm(c), 2))
      /\ Plain(encode_s(39, Sp, Rs2(c), SwspImm(c), 2))
  BY <1>2, OpcodesOfExpansion, StoreIsPlain
<1>6. /\ Plain(encode_r(51, Rd(c), Rd(c), Rs2(c), 0, 0)) /\ Plain(encode_r(51, Rd(c), Zero, Rs2(c), 0, 0))
  BY <1>2, OpcodesOfExpansion, RegisterIsPlain
<1>7. Plain(JumpOrAdd(c))
  BY <1>3, <1>4, <1>6 DEF JumpOrAdd, Ebreak
<1> HIDE DEF f3
<1>8. Plain(Quadrant2(c, f3))
  BY <1>1, <1>3, <1>4, <1>5, <1>7 DEF Quadrant2
<1> QED BY <1>8 DEF f3
\* A compressed word is of one of the three quadrants.
LEMMA QuadrantsAreThree ==
  ASSUME NEW c, ~({0, 1} \subseteq c)
  PROVE  Field(c, 0, 1) \in 0..2
<1> DEFINE x == Slice(c, 0, 1, 0)
<1>1. 0 \in Nat /\ 1 \in Nat /\ 2 \in Nat /\ 2 = 1 - 0 + 1
  OBVIOUS
<1>2. x \in Words(2) /\ \A i \in Bits(2) : i \in x <=> i + 0 \in c
  BY <1>1, SlicesAreWords, Zenon
<1> HIDE DEF x
<1>3. x \in Words(6) /\ 2 \notin x /\ 3 \notin x /\ 4 \notin x /\ 5 \notin x
  BY <1>2 DEF Words, Bits
<1>4. 0 \notin x \/ 1 \notin x
  BY <1>2 DEF Bits
<1>5. Val(x) \in 0..2
  BY <1>3, <1>4, SixBits DEF Digit
<1> QED BY <1>5 DEF Field, x

\* What the expansion of any of them is.
LEMMA ExpansionIsPlain ==
  ASSUME NEW c, ~({0, 1} \subseteq c)
  PROVE  Plain(expand_compressed(c))
<1>1. Field(c, 0, 1) \in 0..2
  BY QuadrantsAreThree
<1>2. /\ Plain(Quadrant0(c, Field(c, 13, 15))) /\ Plain(Quadrant1(c, Field(c, 13, 15)))
      /\ Plain(Quadrant2(c, Field(c, 13, 15)))
  BY Quadrant0IsPlain, Quadrant1IsPlain, Quadrant2IsPlain
<1> QED BY <1>1, <1>2 DEF expand_compressed

\* C.EBREAK's word is not one of a return: its funct12 is odd.
LEMMA EbreakIsNoReturn == decode_instruction(Ebreak).inst_type \notin ReturnTypes
<1> DEFINE t == decode_instruction(Ebreak).inst_type
           x == Slice(Ebreak, 20, 31, 0)
<1>1. 20 \in Ebreak
  <2>1. 1048691 \div 2^20 = 1
    BY SMT
  <2> QED BY <2>1 DEF Ebreak, Num
<1>2. 20 \in Nat /\ 31 \in Nat /\ 12 \in Nat /\ 12 = 31 - 20 + 1
  OBVIOUS
<1>3. x \in Words(12) /\ \A i \in Bits(12) : i \in x <=> i + 20 \in Ebreak
  BY <1>2, SlicesAreWords, Zenon
<1> HIDE DEF x
<1>4. 0 \in x /\ 0 \in Bits(12)
  BY <1>1, <1>3 DEF Bits
<1>5. From(x)[1] \in Nat /\ From(x)[0] = 2 * From(x)[1] + 1
  BY <1>3, <1>4, FromStep DEF Digit
<1>6. Field(Ebreak, 20, 31) # 770 /\ Field(Ebreak, 20, 31) # 258
  BY <1>5 DEF Field, Val, x
<1>7. t \in OpcodeTypes(Opcode(Ebreak))
  BY TypeOfOpcode
<1>8. CASE Opcode(Ebreak) = 115
  <2>1. t = SystemType(Field(Ebreak, 12, 14), Field(Ebreak, 20, 31))
    BY <1>8 DEF decode_instruction, instruction_t, TypeAndImm, FusedOpcodes
  <2>2. Field(Ebreak, 12, 14) \in 0..7
    BY Fields
  <2> HIDE DEF t
  <2>3. \A f3 \in 0..7 : \A f12 : f12 # 770 /\ f12 # 258 => SystemType(f3, f12) \notin {"MRET", "SRET"}
    <3> TAKE f3 \in 0..7
    <3> TAKE f12
    <3> HAVE f12 # 770 /\ f12 # 258
    <3>1. CASE f3 = 0
      BY <3>1 DEF SystemType
    <3>2. CASE f3 = 1
      BY <3>2 DEF SystemType
    <3>3. CASE f3 \in 2..7
      BY <3>3 DEF SystemType
    <3> QED BY <3>1, <3>2, <3>3
  <2>4. t \notin ReturnTypes
    BY <1>6, <2>1, <2>2, <2>3 DEF ReturnTypes
  <2> QED BY <2>4 DEF t
<1>9. CASE Opcode(Ebreak) # 115
  <2> HIDE DEF t
  <2>1. t \notin ReturnTypes
    BY <1>7, <1>9, OpcodeOfType
  <2> QED BY <2>1 DEF t
<1> QED BY <1>8, <1>9

-----------------------------------------------------------------------------
(* The instruction that reaches a handler *)

\* Its operands name registers.
THEOREM OperandsNameRegisters ==
  ASSUME NEW i \in Instructions
  PROVE  /\ Decoded[i].rd \in Registers /\ Decoded[i].rs1 \in Registers
         /\ Decoded[i].rs2 \in Registers /\ Decoded[i].rs3 \in Registers
<1> DEFINE w == Expanded(i)
           d == decode_instruction(w)
<1>1. d.rd \in 0..31 /\ d.rs1 \in 0..31 /\ d.rs2 \in 0..31 /\ d.rs3 \in 0..31
  BY Fields DEF decode_instruction, instruction_t
<1>2. Decoded[i].rd = d.rd /\ Decoded[i].rs1 = d.rs1 /\ Decoded[i].rs2 = d.rs2 /\ Decoded[i].rs3 = d.rs3
  BY DEF Decoded, Fetched, Dispatched
<1> HIDE DEF d
<1>3. 0..31 \subseteq Registers
  BY RegistersAssumption DEF Registers
<1> QED BY <1>1, <1>2, <1>3

\* A jump or a branch has an even offset.
THEOREM DecodedOffsetsAreEven ==
  ASSUME NEW i \in Instructions, Decoded[i].inst_type \in {"JAL"} \cup BranchTypes
  PROVE  0 \notin Decoded[i].imm
<1> DEFINE d == decode_instruction(Expanded(i))
<1>1. /\ Decoded[i].inst_type \in {"NONE", d.inst_type}
      /\ Decoded[i].imm = Trunc(WORD, d.imm)
  BY DEF Decoded, Fetched, Dispatched
<1> HIDE DEF d
<1>2. d.inst_type \in {"JAL"} \cup BranchTypes
  BY <1>1 DEF BranchTypes
<1>3. 0 \notin d.imm
  BY <1>2, OffsetsAreEven DEF d
<1> QED BY <1>1, <1>3 DEF Trunc

\* No compressed word returns from a trap.
LEMMA ReturnsAreLong ==
  ASSUME NEW i \in Instructions, Decoded[i].inst_type \in ReturnTypes
  PROVE  Decoded[i].len = 4
<1> DEFINE w == Expanded(i)
           d == decode_instruction(w)
<1>1. /\ Decoded[i].inst_type = IF w = {} THEN "NONE" ELSE d.inst_type
      /\ Decoded[i].len = Increment(i)
  BY DEF Decoded, Fetched, Dispatched
<1> HIDE DEF d
<1>2. w # {} /\ d.inst_type \in ReturnTypes
  BY <1>1 DEF ReturnTypes
<1>3. ASSUME IsCompressed(i)
      PROVE  FALSE
  <2> DEFINE c == Trunc(16, i)
  <2>1. ~({0, 1} \subseteq c)
    BY <1>3 DEF IsCompressed, Trunc
  <2>2. w = expand_compressed(c)
    BY <1>3 DEF Expanded
  <2>3. Plain(w)
    <3> HIDE DEF c, w
    <3> QED BY <2>1, <2>2, ExpansionIsPlain
  <2>4. w # Ebreak
    <3> HIDE DEF w
    <3> QED BY <1>2, EbreakIsNoReturn DEF d
  <2>5. Opcode(w) \in Codes
    BY <1>2, <2>3, <2>4 DEF Plain
  <2>6. d.inst_type \in OpcodeTypes(Opcode(w))
    BY TypeOfOpcode DEF d
  <2> QED BY <1>2, <2>5, <2>6, OpcodeOfType DEF Codes
<1> QED BY <1>1, <1>3 DEF Increment

\* An atomic of a doubleword runs on RV64 only.
LEMMA DecodedWideAtomics ==
  ASSUME NEW i \in Instructions, Decoded[i].inst_type \in {"LR", "SC"} \cup AmoTypes, Decoded[i].wide
  PROVE  RV64
<1> DEFINE d == decode_instruction(Expanded(i))
<1>1. Decoded[i].inst_type \in {"NONE", d.inst_type} /\ Decoded[i].wide = d.wide
  BY DEF Decoded, Fetched, Dispatched
<1> HIDE DEF d
<1>2. d.inst_type \in {"LR", "SC"} \cup AmoTypes /\ d.wide
  BY <1>1 DEF AmoTypes
<1> QED BY <1>2, WideAtomics DEF d

-----------------------------------------------------------------------------
(* What the handlers share *)

\* A register write keeps the type of the register file and x0.
LEMMA SetRegKeeps ==
  ASSUME NEW rd, NEW value, regs \in [Registers -> Words(XLEN)], SetReg(rd, value)
  PROVE  /\ regs' \in [Registers -> Words(XLEN)]
         /\ ZeroRegister => ZeroRegister'
<1>1. Trunc(XLEN, value) \in Words(XLEN)
  BY TruncIsWord
<1>2. CASE rd = 0
  BY <1>2 DEF SetReg, ZeroRegister
<1>3. CASE rd # 0
  <2>1. regs' = [regs EXCEPT ![rd] = Trunc(XLEN, value)]
    BY <1>3 DEF SetReg
  <2>2. regs' \in [Registers -> Words(XLEN)]
    BY <2>1, <1>1
  <2>3. 0 \in Registers
    BY RegistersAssumption DEF Registers
  <2>4. regs'[0] = regs[0]
    BY <2>1, <2>3, <1>3
  <2> QED BY <2>2, <2>4 DEF ZeroRegister
<1> QED BY <1>2, <1>3

\* Every handler leaves a pc of XLEN bits.
LEMMA LeaveIsWord ==
  ASSUME NEW d, NEW target, Leave(d, target)
  PROVE  pc' \in Words(XLEN)
  BY AddIsWord DEF Leave

\* A memory write changes bytes of mem and neither its size nor their width.
LEMMA WriteKeepsMemory ==
  ASSUME NEW m \in [Addresses -> Byte], NEW address, NEW n, NEW value
  PROVE  memory_write(m, address, n, value) \in [Addresses -> Byte]
<1>1. \A k : ByteOf(value, k) \in Byte
  BY DEF ByteOf, Byte, Words
<1> QED BY <1>1 DEF memory_write

-----------------------------------------------------------------------------
(* One instruction *)

\* The types together with x0, the invariant that every handler keeps.
HartOK == TypeOK /\ ZeroRegister

\* The handlers that write a register and pc, and nothing else.
LEMMA RegisterHandlersKeep ==
  ASSUME HartOK, NEW d,
         \/ exec_alu_reg(d) \/ exec_alu_imm(d) \/ exec_rv64(d) \/ exec_load(d)
         \/ exec_jump(d) \/ exec_upper(d)
  PROVE  HartOK'
<1>1. /\ \E rd, value : SetReg(rd, value)
      /\ \E target : Leave(d, target)
      /\ UNCHANGED <<floats, system, reservation, mem, faulted>>
  BY DEF exec_alu_reg, exec_alu_imm, exec_rv64, exec_load, exec_jump, exec_upper
<1>2. regs' \in [Registers -> Words(XLEN)] /\ ZeroRegister'
  BY <1>1, SetRegKeeps DEF HartOK, TypeOK
<1>3. pc' \in Words(XLEN)
  BY <1>1, LeaveIsWord
<1> QED BY <1>1, <1>2, <1>3 DEF HartOK, TypeOK, floats, system, reservation

\* The handlers that change pc, or pc and memory.
LEMMA StoresAndBranchesKeep ==
  ASSUME HartOK, NEW d,
         exec_store(d) \/ exec_branch(d) \/ exec_fence(d) \/ exec_unknown(d)
  PROVE  HartOK'
<1>1. /\ UNCHANGED <<regs, floats, system, reservation, faulted>>
      /\ \E target : Leave(d, target)
  BY DEF exec_store, exec_branch, exec_fence, exec_unknown
<1>2. pc' \in Words(XLEN)
  BY <1>1, LeaveIsWord
<1>3. mem' \in [Addresses -> Byte]
  <2>1. CASE exec_store(d)
    BY <2>1, WriteKeepsMemory DEF exec_store, Stored, HartOK, TypeOK
  <2>2. CASE exec_branch(d) \/ exec_fence(d) \/ exec_unknown(d)
    BY <2>2 DEF exec_branch, exec_fence, exec_unknown, HartOK, TypeOK
  <2> QED BY <2>1, <2>2
<1> QED BY <1>1, <1>2, <1>3 DEF HartOK, TypeOK, ZeroRegister, floats, system, reservation

\* The previous mode a return restores is one of the four values of a
\* two-bit field.
LEMMA PreviousModeType ==
  ASSUME NEW m, NEW status
  PROVE  PreviousMode(m, status) \in 0..3
  BY DEF PreviousMode, BitOf

\* exec_system: every value a CSR gets is cut to the width of a CSR.
LEMMA SystemKeeps ==
  ASSUME HartOK, NEW d, exec_trap(d) \/ exec_return(d) \/ exec_csr(d)
  PROVE  HartOK'
<1>1. /\ UNCHANGED <<floats, reservation, mem, faulted>>
      /\ \E target : Leave(d, target)
  BY DEF exec_trap, exec_return, exec_csr
<1>2. pc' \in Words(XLEN)
  BY <1>1, LeaveIsWord
<1>3. regs' \in [Registers -> Words(XLEN)] /\ ZeroRegister'
  <2>1. CASE exec_trap(d) \/ exec_return(d)
    BY <2>1 DEF exec_trap, exec_return, HartOK, TypeOK, ZeroRegister
  <2>2. CASE exec_csr(d)
    BY <2>2, SetRegKeeps DEF exec_csr, HartOK, TypeOK
  <2> QED BY <2>1, <2>2
<1>4. privilege' \in 0..3
  <2>1. CASE exec_trap(d)
    BY <2>1 DEF exec_trap, MACHINE_MODE
  <2>2. CASE exec_return(d)
    BY <2>2, PreviousModeType DEF exec_return
  <2>3. CASE exec_csr(d)
    BY <2>3 DEF exec_csr, HartOK, TypeOK
  <2> QED BY <2>1, <2>2, <2>3
<1>5. csrs' \in [Csrs -> Words(WORD)]
  <2>1. CASE exec_trap(d)
    <3> DEFINE epc == IF SavesToSupervisor(d) THEN CSR_SEPC ELSE CSR_MEPC
               cause == IF SavesToSupervisor(d) THEN CSR_SCAUSE ELSE CSR_MCAUSE
               saved == [csrs EXCEPT ![epc] = Trunc(WORD, pc)]
    <3>1. csrs' = [saved EXCEPT ![cause] = Trunc(WORD, Num(Cause(d.inst_type)))]
      BY <2>1 DEF exec_trap
    <3>2. saved \in [Csrs -> Words(WORD)]
      BY TruncIsWord DEF HartOK, TypeOK
    <3> HIDE DEF epc, cause, saved
    <3> QED BY <3>1, <3>2, TruncIsWord
  <2>2. CASE exec_return(d)
    <3>1. \A status, pie, ie, pp : Returned(status, pie, ie, pp) \in Words(WORD)
      BY TruncIsWord DEF Returned
    <3> QED BY <2>2, <3>1 DEF exec_return, HartOK, TypeOK
  <2>3. CASE exec_csr(d)
    <3>1. PICK csr, new : csrs' = [csrs EXCEPT ![csr] = Trunc(WORD, new)]
      BY <2>3 DEF exec_csr
    <3>2. Trunc(WORD, new) \in Words(WORD)
      BY TruncIsWord
    <3> QED BY <3>1, <3>2 DEF HartOK, TypeOK
  <2> QED BY <2>1, <2>2, <2>3
<1> QED BY <1>1, <1>2, <1>3, <1>4, <1>5 DEF HartOK, TypeOK, floats, reservation

\* exec_atomic. A reservation is the content of a register.
LEMMA AtomicKeeps ==
  ASSUME HartOK, NEW d, d.rs1 \in Registers,
         load_reserved(d) \/ store_conditional(d) \/ exec_amo(d)
  PROVE  HartOK'
<1>1. /\ UNCHANGED <<floats, system, faulted>>
      /\ \E value : SetReg(d.rd, value)
      /\ Leave(d, pc)
  BY DEF load_reserved, store_conditional, exec_amo
<1>2. pc' \in Words(XLEN) /\ regs' \in [Registers -> Words(XLEN)] /\ ZeroRegister'
  BY <1>1, LeaveIsWord, SetRegKeeps DEF HartOK, TypeOK
<1>3. mem' \in [Addresses -> Byte]
  <2>1. CASE load_reserved(d)
    BY <2>1 DEF load_reserved, HartOK, TypeOK
  <2>2. CASE store_conditional(d)
    BY <2>2, WriteKeepsMemory DEF store_conditional, HartOK, TypeOK
  <2>3. CASE exec_amo(d)
    BY <2>3, WriteKeepsMemory DEF exec_amo, HartOK, TypeOK
  <2> QED BY <2>1, <2>2, <2>3
<1>4. reserved_address' \in Words(XLEN) /\ reservation_set' \in BOOLEAN
  BY DEF load_reserved, store_conditional, exec_amo, reservation, HartOK, TypeOK
<1> QED BY <1>1, <1>2, <1>3, <1>4 DEF HartOK, TypeOK, floats, system

\* A floating-point register gets 32 or 64 bits, whatever the host computes.
LEMMA SetFregKeeps ==
  ASSUME NEW rd, NEW value, fregs \in [Registers -> Words(WORD)], SetFreg(rd, value)
  PROVE  fregs' \in [Registers -> Words(WORD)]
<1>1. Trunc(WORD, value) \in Words(WORD)
  BY TruncIsWord
<1> QED BY <1>1 DEF SetFreg

\* The same of the double register file.
LEMMA SetDfregKeeps ==
  ASSUME NEW rd, NEW value, dfregs \in [Registers -> Words(2 * WORD)], SetDfreg(rd, value)
  PROVE  dfregs' \in [Registers -> Words(2 * WORD)]
<1>1. Trunc(2 * WORD, value) \in Words(2 * WORD)
  BY TruncIsWord
<1> QED BY <1>1 DEF SetDfreg

\* exec_float_single, exec_float_double and exec_float_mem: each case writes
\* a register of one of the three files, or memory.
LEMMA FloatKeeps ==
  ASSUME HartOK, NEW d,
         exec_float_single(d) \/ exec_float_double(d) \/ exec_float_mem(d)
  PROVE  HartOK'
<1>1. /\ UNCHANGED <<system, reservation, faulted>>
      /\ Leave(d, pc)
  BY DEF exec_float_single, exec_float_double, exec_float_mem
<1>2. regs' = regs \/ \E rd, value : SetReg(rd, value)
  BY DEF exec_float_single, exec_float_double, exec_float_mem
<1>3. regs' \in [Registers -> Words(XLEN)] /\ ZeroRegister'
  BY <1>2, SetRegKeeps DEF HartOK, TypeOK, ZeroRegister
<1>4. fregs' = fregs \/ \E rd, value : SetFreg(rd, value)
  BY DEF exec_float_single, exec_float_double, exec_float_mem, floats
<1>5. dfregs' = dfregs \/ \E rd, value : SetDfreg(rd, value)
  BY DEF exec_float_single, exec_float_double, exec_float_mem, floats
<1>6. /\ fregs' \in [Registers -> Words(WORD)]
      /\ dfregs' \in [Registers -> Words(2 * WORD)]
  BY <1>4, <1>5, SetFregKeeps, SetDfregKeeps DEF HartOK, TypeOK
<1>7. mem' \in [Addresses -> Byte]
  BY WriteKeepsMemory DEF exec_float_single, exec_float_double, exec_float_mem, HartOK, TypeOK
<1>8. pc' \in Words(XLEN)
  BY <1>1, LeaveIsWord
<1> QED BY <1>1, <1>3, <1>6, <1>7, <1>8 DEF HartOK, TypeOK, system, reservation

\* A fault kills the process and leaves the machine as it was.
LEMMA WildAccessKeeps ==
  ASSUME HartOK, NEW d, wild_access(d)
  PROVE  HartOK'
  BY DEF wild_access, HartOK, TypeOK, ZeroRegister, cpu

\* cpu_execute, for any word the file can hold.
LEMMA InstructionKeeps ==
  ASSUME HartOK, NEW i \in Instructions, cpu_execute(i)
  PROVE  HartOK'
<1> DEFINE d == Decoded[i]
<1>1. d.rs1 \in Registers
  BY OperandsNameRegisters
<1>2. \/ exec_alu_reg(d) \/ exec_alu_imm(d) \/ exec_rv64(d) \/ exec_load(d) \/ exec_store(d)
      \/ exec_branch(d) \/ exec_jump(d) \/ exec_upper(d)
      \/ exec_trap(d) \/ exec_return(d) \/ exec_csr(d) \/ exec_fence(d)
      \/ load_reserved(d) \/ store_conditional(d) \/ exec_amo(d)
      \/ exec_float_single(d) \/ exec_float_double(d) \/ exec_float_mem(d)
      \/ wild_access(d) \/ exec_unknown(d)
  BY DEF cpu_execute
<1> HIDE DEF d
<1> QED BY <1>1, <1>2, RegisterHandlersKeep, StoresAndBranchesKeep, SystemKeeps, AtomicKeeps,
           FloatKeeps, WildAccessKeeps

-----------------------------------------------------------------------------
(* The invariants of the hart on its own, fed any sequence of words *)

\* cpu_init and memory_init set every variable to a value of its type.
LEMMA InitOK == Init => HartOK
<1> SUFFICES ASSUME Init PROVE HartOK
  OBVIOUS
<1>1. \A n : {} \in Words(n)
  BY ZeroIsWord
<1>2. mem \in [Addresses -> Byte]
  BY <1>1 DEF Init, memory_init, Byte
<1>3. regs \in [Registers -> Words(XLEN)] /\ csrs \in [Csrs -> Words(WORD)]
  BY <1>1 DEF Init
<1>4. ZeroRegister
  BY RegistersAssumption DEF Init, ZeroRegister, Registers
<1>5. pc \in Words(XLEN) /\ reserved_address \in Words(XLEN)
  BY <1>1, Zenon DEF Init
<1>6. privilege \in 0..3
  BY DEF Init, MACHINE_MODE
<1>7. reservation_set \in BOOLEAN /\ faulted \in BOOLEAN
  BY Zenon DEF Init
<1>8. fregs \in [Registers -> Words(WORD)] /\ dfregs \in [Registers -> Words(2 * WORD)]
  BY <1>1 DEF Init
<1> QED BY <1>2, <1>3, <1>4, <1>5, <1>6, <1>7, <1>8 DEF HartOK, TypeOK

\* The invariant is about the variables of the hart alone.
LEMMA StutterKeeps == HartOK /\ UNCHANGED vars => HartOK'
  BY DEF HartOK, TypeOK, ZeroRegister, vars, cpu

\* Every variable of the hart keeps its C type, whatever words are executed.
THEOREM HartTypeCorrect == Spec => []TypeOK
<1>1. HartOK /\ [Next]_vars => HartOK'
  BY InstructionKeeps, StutterKeeps DEF Next
<1>2. HartOK => TypeOK
  BY DEF HartOK
<1> QED BY InitOK, <1>1, <1>2, PTL DEF Spec

-----------------------------------------------------------------------------
(* The invariants of the program *)

LoopOK ==
  /\ phase \in {"start", "reading", "executing", "printing", "done", "failed"}
  /\ lines_left \in 0..MaxLines
  /\ line \in Instructions \cup {{}}

\* So does main() before its loop.
LEMMA EInitOK == EInit => HartOK /\ LoopOK
  BY InitOK, MaxLinesAssumption DEF EInit, LoopOK

\* Every step of main() keeps both invariants: only executing a line and
\* printing a store touch the hart.
LEMMA ENextKeeps ==
  ASSUME HartOK, LoopOK, [ENext]_evars
  PROVE  HartOK' /\ LoopOK'
<1>1. CASE OpenInput
  BY <1>1, StutterKeeps DEF OpenInput, LoopOK
<1>2. CASE SkipLine
  BY <1>2, StutterKeeps, MaxLinesAssumption DEF SkipLine, LoopOK
<1>3. CASE EndOfFile
  BY <1>3, StutterKeeps DEF EndOfFile, LoopOK
<1>4. ASSUME NEW i \in Instructions, GetLine(i) PROVE HartOK' /\ LoopOK'
  BY <1>4, StutterKeeps, MaxLinesAssumption DEF GetLine, LoopOK
<1>5. CASE ExecuteLine
  <2>1. PICK i \in Instructions : i = line /\ cpu_execute(i)
    BY <1>5 DEF ExecuteLine
  <2>2. HartOK'
    BY <2>1, InstructionKeeps
  <2>3. LoopOK'
    BY <1>5, <2>1 DEF ExecuteLine, LoopOK
  <2> QED BY <2>2, <2>3
<1>6. CASE PrintStore
  <2>1. faulted' \in BOOLEAN
    BY <1>6 DEF PrintStore, Wild
  <2>2. LoopOK' /\ UNCHANGED <<cpu, mem>>
    BY <1>6 DEF PrintStore, LoopOK
  <2> QED BY <2>1, <2>2 DEF HartOK, TypeOK, ZeroRegister, cpu
<1>7. CASE UNCHANGED evars
  BY <1>7, StutterKeeps DEF evars, loop, LoopOK
<1> QED BY <1>1, <1>2, <1>3, <1>4, <1>5, <1>6, <1>7 DEF ENext, ReadInput, Stopped

\* The state of main() and of the hart it drives keep their types over any
\* file, and the program never reads a line it has not got.
THEOREM TypeCorrect == ESpec => []LoopTypeOK
<1>1. HartOK /\ LoopOK => LoopTypeOK
  BY DEF HartOK, LoopOK, LoopTypeOK
<1> QED BY EInitOK, ENextKeeps, <1>1, PTL DEF ESpec

\* x0 reads as zero in every state of the program, over any file.
THEOREM ZeroRegisterHolds == ESpec => []ZeroRegister
<1>1. HartOK => ZeroRegister
  BY DEF HartOK
<1> QED BY EInitOK, ENextKeeps, <1>1, PTL DEF ESpec

-----------------------------------------------------------------------------
(* pc stays even *)

\* Bit 0 of a sum of even words is 0: no carry enters it.
LEMMA EvenSum ==
  ASSUME NEW n, NEW x \in SUBSET Nat, NEW y, Even(x), Even(y)
  PROVE  Even(Add(n, x, y))
<1>1. 0 \notin x /\ 0 \notin y
  BY DEF Even
<1>2. ~Carry(n, x, y, FALSE, 0)
  BY DEF Carry
<1>3. CASE 0 \in Bits(n)
  <2>1. 0 \in Add(n, x, y) <=> ((0 \in x <=> 0 \in y) <=> Carry(n, x, y, FALSE, 0))
    BY <1>3, AddBit, Zenon
  <2> QED BY <1>1, <1>2, <2>1, Zenon DEF Even
<1>4. CASE 0 \notin Bits(n)
  BY <1>4, AddIsWord DEF Words, Even
<1> QED BY <1>3, <1>4

\* So is that of a difference: bit 0 is the carry in and the 1 of the
\* complement.
LEMMA EvenDifference ==
  ASSUME NEW n \in Nat, n > 0, NEW x \in SUBSET Nat, NEW y, Even(x), Even(y)
  PROVE  Even(Sub(n, x, y))
<1>1. 0 \in Bits(n) /\ 0 \in Not(n, y) /\ 0 \notin x
  BY DEF Not, Bits, Even
<1>2. Carry(n, x, Not(n, y), TRUE, 0)
  BY DEF Carry, Bits
<1> QED BY <1>1, <1>2, SubBit, Zenon DEF Even

\* The lengths of the two kinds of word.
LEMMA NumIsEven == Even(Num(2)) /\ Even(Num(4))
  BY DEF Num, Even

\* Words hold the positions of their bits, and a register has at least one.
LEMMA WordsOfNaturals ==
  /\ XLEN \in Nat /\ XLEN > 0 /\ WORD \in Nat
  /\ \A w \in Words(XLEN) \cup Words(WORD) : w \in SUBSET Nat
<1>1. XLEN \in Nat /\ XLEN > 0 /\ WORD \in Nat
  BY WidthAssumption DEF WORD
<1>2. Bits(XLEN) \subseteq Nat /\ Bits(WORD) \subseteq Nat
  BY <1>1 DEF Bits
<1> QED BY <1>1, <1>2 DEF Words

\* What is decoded: a word of 2 or 4 bytes, and an immediate of 32 bits.
LEMMA DecodedFields ==
  ASSUME NEW i \in Instructions
  PROVE  /\ Decoded[i].len \in {2, 4}
         /\ Decoded[i].imm \in Words(WORD) /\ Decoded[i].imm \in SUBSET Nat
         /\ Decoded[i].inst_type \in {"JAL"} \cup BranchTypes => Even(Decoded[i].imm)
<1>1. Decoded[i] = Fetched(i)
  BY DEF Decoded
<1>2. Fetched(i).len = Increment(i)
  BY DEF Fetched, Dispatched
<1>3. Fetched(i).imm = Trunc(WORD, decode_instruction(Expanded(i)).imm)
  BY DEF Fetched, Dispatched
<1>4. Increment(i) \in {2, 4}
  BY DEF Increment
<1>5. Fetched(i).imm \in Words(WORD) /\ Fetched(i).imm \in SUBSET Nat
  BY <1>3, TruncIsWord, WordsOfNaturals
<1> QED BY <1>1, <1>2, <1>4, <1>5, DecodedOffsetsAreEven DEF Even

\* No instruction makes pc odd.
LEMMA InstructionKeepsEven ==
  ASSUME TypeOK, NEW i \in Instructions, cpu_execute(i), Even(pc),
         \A c \in {CSR_MTVEC, CSR_MEPC, CSR_SEPC} : Even(csrs[c])
  PROVE  Even(pc')
<1> DEFINE d == Decoded[i]
<1>1. /\ d.len \in {2, 4}
      /\ d.imm \in SUBSET Nat
      /\ d.inst_type \in {"JAL"} \cup BranchTypes => Even(d.imm)
  BY DecodedFields
<1>2. /\ pc \in SUBSET Nat
      /\ \A c \in {CSR_MTVEC, CSR_MEPC, CSR_SEPC} : csrs[c] \in SUBSET Nat
      /\ \A x, y : Add(XLEN, x, y) \in SUBSET Nat
  BY WordsOfNaturals, CsrsAssumption, AddIsWord DEF TypeOK
<1>3. /\ exec_alu_reg(d) \/ exec_alu_imm(d) \/ exec_rv64(d) \/ exec_load(d) \/ exec_store(d)
           \/ exec_branch(d) \/ exec_jump(d) \/ exec_upper(d)
           \/ exec_trap(d) \/ exec_return(d) \/ exec_csr(d) \/ exec_fence(d)
           \/ load_reserved(d) \/ store_conditional(d) \/ exec_amo(d)
           \/ exec_float_single(d) \/ exec_float_double(d) \/ exec_float_mem(d)
           \/ wild_access(d) \/ exec_unknown(d)
  BY DEF cpu_execute
<1> HIDE DEF d
<1>4. \A target \in SUBSET Nat : Even(target) /\ Leave(d, target) => Even(pc')
  BY <1>1, EvenSum, NumIsEven DEF Leave
<1>5. CASE \/ exec_alu_reg(d) \/ exec_alu_imm(d) \/ exec_rv64(d) \/ exec_load(d) \/ exec_store(d)
           \/ exec_upper(d) \/ exec_csr(d) \/ exec_fence(d)
           \/ load_reserved(d) \/ store_conditional(d) \/ exec_amo(d)
           \/ exec_float_single(d) \/ exec_float_double(d) \/ exec_float_mem(d) \/ exec_unknown(d)
  <2>1. Leave(d, pc)
    BY <1>5 DEF exec_alu_reg, exec_alu_imm, exec_rv64, exec_load, exec_store, exec_upper, exec_csr,
         exec_fence, load_reserved, store_conditional, exec_amo, exec_float_single,
         exec_float_double, exec_float_mem, exec_unknown
  <2> QED BY <2>1, <1>2, <1>4
<1>6. CASE exec_branch(d)
  <2>1. PICK target \in {BranchTarget(d), pc} : Leave(d, target) /\ d.inst_type \in BranchTypes
    BY <1>6 DEF exec_branch, Enters
  <2>2. Even(Add(XLEN, pc, d.imm))
    BY <1>1, <1>2, <2>1, EvenSum
  <2>3. Even(BranchTarget(d))
    BY <2>2, <1>2, WordsOfNaturals, EvenDifference, NumIsEven DEF BranchTarget
  <2>4. BranchTarget(d) \in SUBSET Nat
    BY SubIsWord, WordsOfNaturals DEF BranchTarget
  <2> QED BY <2>1, <2>3, <2>4, <1>2, <1>4
<1>7. CASE exec_jump(d)
  <2>1. Leave(d, JumpTarget(d)) /\ d.inst_type \in {"JAL", "JALR"}
    BY <1>7 DEF exec_jump, Enters, JumpTypes
  <2>2. JumpTarget(d) \in SUBSET Nat
    BY <1>2 DEF JumpTarget
  <2>3. CASE d.inst_type = "JAL"
    BY <2>1, <2>2, <2>3, <1>1, <1>2, <1>4, EvenSum DEF JumpTarget
  <2>4. CASE d.inst_type = "JALR"
    BY <2>1, <2>2, <2>4, <1>4 DEF JumpTarget, Even
  <2> QED BY <2>1, <2>3, <2>4
<1>8. CASE exec_trap(d)
  BY <1>8, <1>2, <1>4 DEF exec_trap
<1>9. CASE exec_return(d)
  BY <1>9, <1>2, <1>4 DEF exec_return
<1>10. CASE wild_access(d)
  BY <1>10 DEF wild_access, cpu
<1> QED BY <1>3, <1>5, <1>6, <1>7, <1>8, <1>9, <1>10

\* Over any file, no step of the program makes pc odd, unless an odd address
\* is in mtvec, mepc or sepc.
THEOREM PcStaysEvenHolds == ESpec => PcStaysEven
<1> DEFINE Start == Even(pc) /\ \A c \in {CSR_MTVEC, CSR_MEPC, CSR_SEPC} : Even(csrs[c])
<1>1. ASSUME HartOK, LoopOK, [ENext]_evars
      PROVE  [Start => Even(pc')]_vars
  <2>1. CASE ExecuteLine
    <3>1. PICK i \in Instructions : cpu_execute(i)
      BY <2>1 DEF ExecuteLine
    <3> QED BY <3>1, <1>1, InstructionKeepsEven DEF HartOK
  <2>2. CASE PrintStore
    BY <2>2 DEF PrintStore, cpu
  <2>3. CASE OpenInput \/ ReadInput \/ Stopped \/ UNCHANGED evars
    BY <2>3 DEF OpenInput, ReadInput, SkipLine, GetLine, EndOfFile, Stopped, evars
  <2> QED BY <1>1, <2>1, <2>2, <2>3 DEF ENext
<1> QED BY EInitOK, ENextKeeps, <1>1, PTL DEF ESpec, PcStaysEven

-----------------------------------------------------------------------------
(* Branches land *)

\* The literals the handlers and cpu_execute use fit any register.
LEMMA Literals ==
  ASSUME BYTE = 8
  PROVE  /\ XLEN \in Nat /\ WORD \in Nat /\ WORD \in 0..XLEN
         /\ \A k \in {0, 2, 4} : /\ Num(k) \in Words(XLEN) /\ Num(k) \in Words(WORD)
                                 /\ Trunc(WORD, Num(k)) = Num(k)
         /\ \A x \in Words(WORD) : x \in Words(XLEN) /\ Trunc(WORD, x) = x
<1>1. WORD = 32 /\ XLEN \in {32, 64}
  BY WidthAssumption DEF WORD
<1>2. \A k : Num(k) \subseteq 0..30
  BY DEF Num
<1>3. 0..30 \subseteq Bits(WORD) /\ Bits(WORD) \subseteq Bits(XLEN)
  BY <1>1 DEF Bits
<1> QED BY <1>1, <1>2, <1>3 DEF Words, Trunc

\* What the handler of a taken branch takes off and what cpu_execute puts
\* back leave it 4 - len short of its target.
LEMMA ShortOfTarget ==
  ASSUME NEW n \in Nat, n > 2, NEW w \in Words(n), NEW len \in {2, 4},
         \A k \in {0, 2, 4} : Num(k) \in Words(n)
  PROVE  Add(n, Sub(n, w, Num(4)), Num(len)) = Sub(n, w, Num(4 - len))
<1> DEFINE v == Sub(n, w, Num(4))
<1>1. v \in Words(n) /\ Add(n, v, Num(4)) = w
  BY SubIsWord, SubThenAdd
<1> HIDE DEF v
<1>2. CASE len = 4
  <2>1. Num(4 - len) = {}
    BY <1>2, NumLiterals
  <2>2. Sub(n, w, {}) = w
    BY AddThenSub, AddZero, ZeroIsWord
  <2> QED BY <1>1, <1>2, <2>1, <2>2 DEF v
<1>3. CASE len = 2
  <2>1. Num(2) \in Words(n) /\ Num(4 - len) = Num(2)
    BY <1>3
  <2>2. Add(n, Num(2), Num(2)) = Num(4)
    BY TwiceTwo, NumLiterals
  <2>3. Add(n, Add(n, v, Num(2)), Num(2)) = w
    BY <1>1, <2>1, <2>2, AddAssociates
  <2>4. Sub(n, w, Num(2)) = Add(n, v, Num(2))
    BY <2>1, <2>3, AddThenSub, AddIsWord
  <2> QED BY <1>3, <2>1, <2>4 DEF v
<1> QED BY <1>2, <1>3

\* A branch offset is a 32-bit word; sign-extended it is the same in its low
\* 32 bits, and in all when it is not negative.
LEMMA OffsetWidens ==
  ASSUME BYTE = 8, NEW imm \in Words(WORD)
  PROVE  LET wide == SignExt(WORD, XLEN, imm)
         IN /\ wide \in Words(XLEN)
            /\ Trunc(WORD, wide) = imm
            /\ ~Negative(WORD, imm) => wide = imm
<1>1. WORD = 32 /\ XLEN \in {32, 64}
  BY WidthAssumption DEF WORD
<1>2. Trunc(WORD, imm) = imm
  BY Literals
<1>3. WORD..(XLEN - 1) \subseteq Bits(XLEN) /\ WORD..(XLEN - 1) \cap Bits(WORD) = {}
  BY <1>1 DEF Bits
<1>4. imm \subseteq Bits(XLEN) /\ imm \subseteq Bits(WORD)
  BY Literals DEF Words
<1> QED BY <1>2, <1>3, <1>4 DEF SignExt, Negative, Trunc, Words

\* A taken branch does, to all of pc when its offset is not negative and to
\* the low 32 bits of it when it is.
LEMMA TakenLands ==
  ASSUME BYTE = 8, pc \in Words(XLEN), NEW d, d.imm \in Words(WORD), d.len \in {2, 4},
         Leave(d, BranchTarget(d)),
         NEW lands, lands = Sub(XLEN, Add(XLEN, pc, SignExt(WORD, XLEN, d.imm)), Num(4 - d.len))
  PROVE  Trunc(WORD, pc') = Trunc(WORD, lands) /\ (~Negative(WORD, d.imm) => pc' = lands)
<1> DEFINE wide == SignExt(WORD, XLEN, d.imm)
           short == Num(4 - d.len)
           Low(imm) == Sub(WORD, Add(WORD, Trunc(WORD, pc), Trunc(WORD, imm)), short)
<1>1. /\ XLEN \in Nat /\ XLEN > 2 /\ WORD \in 0..XLEN
      /\ \A k \in {0, 2, 4} : Num(k) \in Words(XLEN)
      /\ d.imm \in Words(XLEN)
  <2>1. XLEN \in {32, 64}
    BY WidthAssumption DEF WORD
  <2> QED BY <2>1, Literals
<1>2. wide \in Words(XLEN) /\ Trunc(WORD, wide) = d.imm /\ (~Negative(WORD, d.imm) => wide = d.imm)
  BY OffsetWidens
<1>3. pc' = Sub(XLEN, Add(XLEN, pc, d.imm), short)
  BY <1>1, AddIsWord, ShortOfTarget DEF Leave, BranchTarget
<1>4. short \in Words(XLEN) /\ Trunc(WORD, short) = short
  <2>1. 4 - d.len \in {0, 2, 4}
    OBVIOUS
  <2> QED BY <2>1, Literals
<1>5. Trunc(WORD, d.imm) = d.imm
  BY Literals
<1> HIDE DEF wide, short
<1>6. \A imm \in Words(XLEN) : Trunc(WORD, Sub(XLEN, Add(XLEN, pc, imm), short)) = Low(imm)
  <2> TAKE imm \in Words(XLEN)
  <2>1. Trunc(WORD, Add(XLEN, pc, imm)) = Add(WORD, Trunc(WORD, pc), Trunc(WORD, imm))
    BY <1>1, TruncAdd
  <2>2. Add(XLEN, pc, imm) \in Words(XLEN)
    BY AddIsWord
  <2> QED BY <1>1, <1>4, <2>1, <2>2, TruncSub
<1>7. lands = Sub(XLEN, Add(XLEN, pc, wide), short)
  BY DEF wide, short
<1>8. Low(wide) = Low(d.imm)
  BY <1>2, <1>5
<1> HIDE DEF Low
<1> QED BY <1>1, <1>2, <1>3, <1>6, <1>7, <1>8

\* So does every branch instruction, and no other handler takes one.
LEMMA BranchInstructionLands ==
  ASSUME BYTE = 8, HartOK, NEW i \in Instructions, cpu_execute(i), NEW d, d = Decoded[i],
         d.inst_type \in BranchTypes
  PROVE  Lands(d)
<1>1. exec_branch(d)
  <2>1. \/ d.inst_type \in AluRegTypes \cup AluImmTypes \cup Rv64Types \cup LoadTypes \cup StoreTypes
             \cup JumpTypes \cup UpperTypes \cup FenceTypes \cup {"UNKNOWN", "NONE"}
        \/ d.inst_type \in TrapTypes \cup ReturnTypes \cup CsrTypes \cup {"LR", "SC"} \cup AmoTypes
             \cup FloatSingleTypes \cup FloatDoubleTypes \cup FloatMemTypes
        \/ exec_branch(d)
    BY DEF cpu_execute, exec_alu_reg, exec_alu_imm, exec_rv64, exec_load, exec_store, exec_jump,
       exec_upper, exec_trap, exec_return, exec_csr, exec_fence, load_reserved, store_conditional,
       exec_amo, exec_float_single, exec_float_double, exec_float_mem, wild_access, exec_unknown,
       Enters
  <2>2. d.inst_type \notin AluRegTypes \cup AluImmTypes \cup Rv64Types \cup LoadTypes \cup StoreTypes
          \cup JumpTypes \cup UpperTypes \cup FenceTypes \cup {"UNKNOWN", "NONE"}
    BY DEF BranchTypes, AluRegTypes, AluImmTypes, Rv64Types, LoadTypes, StoreTypes, JumpTypes,
       UpperTypes, FenceTypes
  <2>3. d.inst_type \notin TrapTypes \cup ReturnTypes \cup CsrTypes \cup {"LR", "SC"} \cup AmoTypes
          \cup FloatSingleTypes \cup FloatDoubleTypes \cup FloatMemTypes
    BY DEF BranchTypes, TrapTypes, ReturnTypes, CsrTypes, AmoTypes, FloatSingleTypes,
       FloatDoubleTypes, BothWidths, ToFloatTypes, ToRegisterTypes, FromRegisterTypes, FloatMemTypes
  <2> QED BY <2>1, <2>2, <2>3
<1> DEFINE goes == taken(d.inst_type, regs[d.rs1], regs[d.rs2])
<1>2. Leave(d, IF goes THEN BranchTarget(d) ELSE pc) /\ regs' = regs
  BY <1>1 DEF exec_branch
<1>3. d.imm \in Words(WORD) /\ d.len \in {2, 4} /\ pc \in Words(XLEN)
  BY DecodedFields DEF HartOK, TypeOK
<1> HIDE DEF goes
<1>4. CASE goes
  BY <1>2, <1>3, <1>4, TakenLands DEF Lands, goes
<1>5. CASE ~goes
  BY <1>2, <1>5, Zenon DEF Lands, goes, Leave
<1> QED BY <1>4, <1>5

\* Every branch of a program ends at its target when its condition holds and
\* at the next word when not, a taken compressed one 2 bytes short.
THEOREM BranchLandsHolds ==
  ASSUME BYTE = 8
  PROVE  ESpec => BranchLands
<1>1. HartOK /\ LoopOK /\ [ENext]_evars => [Executes(BranchTypes, Lands)]_evars
  <2> SUFFICES ASSUME HartOK, [ENext]_evars
               PROVE  [Executes(BranchTypes, Lands)]_evars
    OBVIOUS
  <2>1. CASE ExecuteLine
    <3>1. PICK i \in Instructions : i = line /\ cpu_execute(i)
      BY <2>1 DEF ExecuteLine
    <3> QED BY <3>1, BranchInstructionLands DEF Executes
  <2>2. CASE OpenInput \/ ReadInput \/ PrintStore \/ Stopped \/ UNCHANGED evars
    <3>1. phase # "executing" \/ phase' = phase
      BY <2>2 DEF OpenInput, ReadInput, SkipLine, GetLine, EndOfFile, PrintStore, Stopped, evars,
           loop
    <3> QED BY <3>1 DEF Executes
  <2> QED BY <2>1, <2>2 DEF ENext
<1> QED BY EInitOK, ENextKeeps, <1>1, PTL DEF ESpec, BranchLands

-----------------------------------------------------------------------------
(* The bounds check *)

\* The widths of the program, and that a shorter word is a longer one.
LEMMA ByteWidths ==
  ASSUME BYTE = 8
  PROVE  /\ WORD = 32 /\ XLEN \in {32, 64} /\ WORD \in 0..XLEN
         /\ Words(31) \subseteq Words(WORD) /\ Words(WORD) \subseteq Words(XLEN)
<1>1. WORD = 32 /\ XLEN \in {32, 64}
  BY WidthAssumption DEF WORD
<1>2. Bits(31) \subseteq Bits(WORD) /\ Bits(WORD) \subseteq Bits(XLEN)
  BY <1>1 DEF Bits
<1> QED BY <1>1, <1>2 DEF Words

\* An offset added to an address below 2^30 does not wrap.
LEMMA AddressPlus ==
  ASSUME BYTE = 8, NEW x \in Words(WORD), NEW k \in 0..8, Val(x) <= 2^30
  PROVE  Val(Add(WORD, x, Num(k))) = Val(x) + k
<1>1. Num(k) \in Words(31) /\ Val(Num(k)) = k
  BY ValNum, SMT
<1>2. WORD = 32 /\ Num(k) \in Words(WORD)
  BY <1>1, ByteWidths
<1>3. 2^31 < Val({32})
  <2>1. {31} \in Words(33) /\ {32} \in Words(33) /\ LtU({31}, {32})
    BY DEF Words, Bits, LtU
  <2>2. Val({31}) < Val({32})
    BY <2>1, ValOrder
  <2> QED BY <2>2, ValPower
<1>4. Val(x) \in Nat
  BY <1>2, ValRange
<1>5. Val(x) + k < Val({32})
  <2>1. {32} \in Words(33)
    BY DEF Words, Bits
  <2>2. Val({32}) \in Nat
    BY <2>1, ValRange
  <2> QED BY <1>3, <1>4, <2>2, SMT
<1> QED BY <1>1, <1>2, <1>5, ValAdd

\* The address of memory's end as a word.
LEMMA MemoryEnd ==
  ASSUME BYTE = 8, NEW x \in Words(WORD)
  PROVE  /\ MEMORY_SIZE \in Nat \ {0} /\ MEMORY_SIZE <= 2^30
         /\ Val(x) \in Nat
         /\ LtU(x, Num(MEMORY_SIZE)) <=> Val(x) < MEMORY_SIZE
<1>1. MEMORY_SIZE \in Nat \ {0} /\ MEMORY_SIZE <= 2^30 /\ MEMORY_SIZE < 2^31
  BY MemoryAssumption, SMT
<1>2. Num(MEMORY_SIZE) \in Words(31) /\ Val(Num(MEMORY_SIZE)) = MEMORY_SIZE
  BY <1>1, ValNum
<1>3. Num(MEMORY_SIZE) \in Words(WORD) /\ WORD \in Nat
  BY <1>2, ByteWidths
<1> QED BY <1>1, <1>2, <1>3, ValOrder, ValRange

\* The check accepts the accesses that lie in memory, and of the others only
\* those that wrap around the end of the address space.
LEMMA AcceptedIsInside ==
  ASSUME BYTE = 8, NEW address, NEW n \in 1..8
  PROVE  /\ Inside(address, n) => Accepted(address, n) /\ ~Wild(address, n)
         /\ ~Inside(address, n) /\ ~Wild(address, n) => ~Accepted(address, n)
         /\ Inside(address, n) => Val(Trunc(WORD, address)) \in Nat
                                  /\ Val(Trunc(WORD, address)) + n <= MEMORY_SIZE
<1> DEFINE x == Trunc(WORD, address)
           y == Add(WORD, x, Num(n - 1))
<1>1. x \in Words(WORD) /\ y \in Words(WORD)
  BY TruncIsWord, AddIsWord
<1>2. /\ LtU(x, Num(MEMORY_SIZE)) <=> Val(x) < MEMORY_SIZE
      /\ LtU(y, Num(MEMORY_SIZE)) <=> Val(y) < MEMORY_SIZE
      /\ MEMORY_SIZE \in Nat /\ MEMORY_SIZE <= 2^30 /\ Val(x) \in Nat
  BY <1>1, MemoryEnd
<1>3. Accepted(address, n) <=> LtU(y, Num(MEMORY_SIZE))
  BY DEF Accepted
<1>4. Wild(address, n) <=> Accepted(address, n) /\ ~LtU(x, Num(MEMORY_SIZE))
  BY DEF Wild
<1>5. Inside(address, n) <=> LtU(x, Num(MEMORY_SIZE)) /\ Val(x) + n <= MEMORY_SIZE
  BY DEF Inside
<1>6. n - 1 \in 0..8
  OBVIOUS
<1>7. Val(x) < MEMORY_SIZE => Val(y) = Val(x) + (n - 1)
  <2> SUFFICES ASSUME Val(x) < MEMORY_SIZE PROVE Val(y) = Val(x) + (n - 1)
    OBVIOUS
  <2>1. Val(x) <= 2^30
    BY <1>2
  <2> QED BY <1>1, <1>6, <2>1, AddressPlus
<1> HIDE DEF x, y
<1>8. Inside(address, n) <=> Val(x) < MEMORY_SIZE /\ Val(x) + n <= MEMORY_SIZE
  BY <1>2, <1>5
<1>9. Accepted(address, n) <=> Val(y) < MEMORY_SIZE
  BY <1>2, <1>3
<1>10. Wild(address, n) <=> Accepted(address, n) /\ ~(Val(x) < MEMORY_SIZE)
  BY <1>2, <1>4
<1>11. Val(x) < MEMORY_SIZE => (Val(y) < MEMORY_SIZE <=> Val(x) + n <= MEMORY_SIZE)
  BY <1>2, <1>7
<1> QED BY <1>2, <1>8, <1>9, <1>10, <1>11 DEF x

\* The bytes of an access that lies in memory are elements of mem.
LEMMA InsideIndices ==
  ASSUME BYTE = 8, NEW address, NEW n \in 1..8, Inside(address, n), NEW k \in 0..(n - 1)
  PROVE  Index(address, k) \in Addresses /\ Index(address, k) = Index(address, 0) + k
<1>1. Val(Trunc(WORD, address)) \in Nat /\ Val(Trunc(WORD, address)) + n <= MEMORY_SIZE
  BY AcceptedIsInside
<1>2. MEMORY_SIZE \in Nat
  BY MemoryAssumption
<1> QED BY <1>1, <1>2 DEF Index, Addresses

\* So is the beginning of one.
LEMMA ShorterInside ==
  ASSUME BYTE = 8, NEW address, NEW n \in 1..8, Inside(address, n), NEW m \in 1..n
  PROVE  Inside(address, m)
<1>1. Val(Trunc(WORD, address)) \in Nat /\ Val(Trunc(WORD, address)) + n <= MEMORY_SIZE
  BY AcceptedIsInside
<1>2. MEMORY_SIZE \in Nat
  BY MemoryAssumption
<1> QED BY <1>1, <1>2 DEF Inside

\* A part of an access that lies in memory lies there too.
LEMMA PartsInside ==
  ASSUME BYTE = 8, NEW address \in Words(XLEN), NEW n \in 1..8, Inside(address, n),
         NEW k \in 0..(n - 1), NEW m \in 1..(n - k)
  PROVE  /\ Inside(Add(XLEN, address, Num(k)), m)
         /\ \A j \in 0..(m - 1) : Index(Add(XLEN, address, Num(k)), j) = Index(address, k + j)
<1> DEFINE x == Trunc(WORD, address)
           y == Trunc(WORD, Add(XLEN, address, Num(k)))
<1>1. Val(x) \in Nat /\ Val(x) + n <= MEMORY_SIZE
  BY AcceptedIsInside
<1>2. x \in Words(WORD) /\ y \in Words(WORD)
  BY TruncIsWord
<1>3. MEMORY_SIZE \in Nat /\ MEMORY_SIZE <= 2^30 /\ (LtU(y, Num(MEMORY_SIZE)) <=> Val(y) < MEMORY_SIZE)
  BY <1>2, MemoryEnd
<1>4. k \in 0..8 /\ Val(x) <= 2^30 /\ k < 2^31
  BY <1>1, <1>3, SMT
<1>5. y = Add(WORD, x, Num(k))
  <2>1. Num(k) \in Words(31)
    BY <1>4, ValNum
  <2>2. Num(k) \in Words(XLEN) /\ Trunc(WORD, Num(k)) = Num(k)
    BY <2>1, ByteWidths DEF Trunc, Words
  <2> QED BY <2>2, ByteWidths, TruncAdd
<1>6. Val(y) = Val(x) + k
  BY <1>2, <1>4, <1>5, AddressPlus
<1> HIDE DEF x, y
<1>7. Inside(Add(XLEN, address, Num(k)), m) <=> LtU(y, Num(MEMORY_SIZE)) /\ Val(y) + m <= MEMORY_SIZE
  BY DEF Inside, y
<1>8. Inside(Add(XLEN, address, Num(k)), m)
  BY <1>1, <1>3, <1>6, <1>7
<1>9. ASSUME NEW j \in 0..(m - 1)
      PROVE  Index(Add(XLEN, address, Num(k)), j) = Index(address, k + j)
  <2>1. Val(y) + j = Val(x) + (k + j)
    BY <1>1, <1>6
  <2> QED BY <2>1 DEF Index, x, y
<1> QED BY <1>8, <1>9
-----------------------------------------------------------------------------
(* What is read is what was written *)

\* A read that is refused returns 0, and a refused write changes nothing.
LEMMA OutsideIsRefused ==
  ASSUME BYTE = 8, NEW m, NEW address, NEW n \in 1..8, ~Inside(address, n), ~Wild(address, n),
         NEW value
  PROVE  memory_read(m, address, n) = {} /\ memory_write(m, address, n, value) = m
<1>1. ~Accepted(address, n)
  BY AcceptedIsInside
<1> QED BY <1>1 DEF memory_read, memory_write

\* A read of n bytes has 8 * n bits, in byte order.
LEMMA ReadInside ==
  ASSUME BYTE = 8, NEW m, NEW address, NEW n \in 1..8, Inside(address, n)
  PROVE  memory_read(m, address, n) = {i \in Bits(8 * n) : (i % 8) \in m[Index(address, i \div 8)]}
<1>1. Accepted(address, n)
  BY AcceptedIsInside
<1>2. n * BYTE = 8 * n
  OBVIOUS
<1> QED BY <1>1, <1>2, Zenon DEF memory_read

\* Bit j of byte k of a read is bit j of the byte at the k-th index.
LEMMA ReadByte ==
  ASSUME BYTE = 8, NEW m \in [Addresses -> Byte], NEW address, NEW n \in 1..8, Inside(address, n),
         NEW k \in 0..(n - 1)
  PROVE  Slice(memory_read(m, address, n), 8 * k, 8 * k + 7, 0) = m[Index(address, k)]
<1> DEFINE w == memory_read(m, address, n)
           s == Slice(w, 8 * k, 8 * k + 7, 0)
           b == m[Index(address, k)]
<1>1. w = {i \in Bits(8 * n) : (i % 8) \in m[Index(address, i \div 8)]}
  BY ReadInside
<1>2. b \in SUBSET (0..7)
  BY InsideIndices DEF Byte, Words, Bits
<1>3. s = {i + 0 - 8 * k : i \in w \cap ((8 * k)..(8 * k + 7))}
  BY DEF Slice
<1>4. \A j \in 0..7 : j + 8 * k \in Bits(8 * n) /\ (j + 8 * k) \div 8 = k /\ (j + 8 * k) % 8 = j
  BY DEF Bits
<1>5. \A j \in 0..7 : j + 8 * k \in w <=> j \in b
  BY <1>1, <1>4
<1> HIDE DEF w, b
<1>6. ASSUME NEW j \in s PROVE j \in b
  <2>1. PICK i \in w \cap ((8 * k)..(8 * k + 7)) : j = i + 0 - 8 * k
    BY <1>3
  <2>2. j \in 0..7 /\ i = j + 8 * k
    BY <2>1
  <2> QED BY <1>5, <2>1, <2>2
<1>7. ASSUME NEW j \in b PROVE j \in s
  <2>1. j \in 0..7
    BY <1>2, <1>7
  <2>2. j + 8 * k \in w \cap ((8 * k)..(8 * k + 7)) /\ j = (j + 8 * k) + 0 - 8 * k
    BY <1>5, <1>7, <2>1
  <2> QED BY <1>3, <2>2
<1> QED BY <1>6, <1>7 DEF w, b

\* A write leaves byte k of the value at the k-th index and no other trace.
LEMMA WriteInside ==
  ASSUME BYTE = 8, NEW m \in [Addresses -> Byte], NEW address, NEW n \in 1..8, Inside(address, n),
         NEW value
  PROVE  /\ memory_write(m, address, n, value) \in [Addresses -> Byte]
         /\ \A k \in 0..(n - 1) :
              memory_write(m, address, n, value)[Index(address, k)] = ByteOf(value, k)
         /\ \A a \in Addresses \ Index(address, 0)..Index(address, n - 1) :
              memory_write(m, address, n, value)[a] = m[a]
<1> DEFINE at == Index(address, 0)
           w == memory_write(m, address, n, value)
<1>1. Accepted(address, n)
  BY AcceptedIsInside
<1>2. w = [a \in Addresses |-> IF a \in at..(at + n - 1) THEN ByteOf(value, a - at) ELSE m[a]]
  BY <1>1 DEF memory_write
<1>3. \A k \in 0..(n - 1) : Index(address, k) \in Addresses /\ Index(address, k) = at + k
  BY InsideIndices
<1>4. at \in Nat
  <2>1. at \in Addresses
    BY <1>3
  <2> QED BY <2>1 DEF Addresses
<1>5. w \in [Addresses -> Byte]
  BY WriteKeepsMemory
<1>6. Index(address, n - 1) = at + n - 1
  BY <1>3, <1>4
<1> HIDE DEF at, w
<1>7. \A k \in 0..(n - 1) : w[Index(address, k)] = ByteOf(value, k)
  <2> TAKE k \in 0..(n - 1)
  <2>1. at + k \in Addresses /\ at + k \in at..(at + n - 1) /\ (at + k) - at = k
    BY <1>3, <1>4
  <2> QED BY <1>2, <1>3, <2>1
<1>8. \A a \in Addresses \ at..Index(address, n - 1) : w[a] = m[a]
  BY <1>2, <1>6
<1> QED BY <1>5, <1>7, <1>8 DEF at, w

\* The bytes outside a write stay as they are.
LEMMA WriteFrame ==
  ASSUME BYTE = 8, NEW m \in [Addresses -> Byte], NEW address, NEW n \in 1..8, Inside(address, n),
         NEW value, NEW last, last = Index(address, n - 1), NEW x \in Addresses \ Index(address, 0)..last
  PROVE  memory_write(m, address, n, value)[x] = m[x]
<1> DEFINE at == Index(address, 0)
<1>1. memory_write(m, address, n, value)
        = [a \in Addresses |-> IF a \in at..(at + n - 1) THEN ByteOf(value, a - at) ELSE m[a]]
  BY AcceptedIsInside DEF memory_write
<1>2. at \in Nat /\ Index(address, n - 1) = at + n - 1
  BY InsideIndices DEF Addresses
<1>3. x \in Addresses /\ x \notin at..(at + n - 1)
  BY <1>2
<1> HIDE DEF at
<1> QED BY <1>1, <1>3

\* A read finds what the write of the same width and address left.
LEMMA WriteThenRead ==
  ASSUME BYTE = 8, NEW m \in [Addresses -> Byte], NEW address, NEW n \in 1..8, Inside(address, n),
         NEW value
  PROVE  memory_read(memory_write(m, address, n, value), address, n) = Trunc(8 * n, value)
<1> DEFINE w == memory_write(m, address, n, value)
<1>1. memory_read(w, address, n) = {i \in Bits(8 * n) : (i % 8) \in w[Index(address, i \div 8)]}
  BY ReadInside
<1>2. \A k \in 0..(n - 1) : w[Index(address, k)] = ByteOf(value, k)
  BY WriteInside
<1> HIDE DEF w
<1>3. \A i \in Bits(8 * n) : (i % 8) \in w[Index(address, i \div 8)] <=> i \in value
  <2> TAKE i \in Bits(8 * n)
  <2>1. i \div 8 \in 0..(n - 1) /\ i % 8 \in 0..7 /\ (i % 8) + 8 * (i \div 8) = i
    BY DEF Bits
  <2>2. w[Index(address, i \div 8)] = ByteOf(value, i \div 8)
    BY <1>2, <2>1
  <2>3. ByteOf(value, i \div 8) = {j \in Bits(8) : j + 8 * (i \div 8) \in value}
    BY DEF ByteOf
  <2>4. i % 8 \in Bits(8)
    BY <2>1 DEF Bits
  <2>5. i % 8 \in ByteOf(value, i \div 8) <=> (i % 8) + 8 * (i \div 8) \in value
    BY <2>3, <2>4, Zenon
  <2> QED BY <2>1, <2>2, <2>5, Zenon
<1> QED BY <1>1, <1>3 DEF Trunc, w

\* Two words make a doubleword: the write of its halves is one write.
LEMMA HalvesWriteWhole ==
  ASSUME BYTE = 8, NEW m \in [Addresses -> Byte], NEW address \in Words(XLEN), Inside(address, 8),
         NEW value, XLEN = 64
  PROVE  memory_write(memory_write(m, address, 4, value), Add(XLEN, address, Num(4)), 4,
                      ShiftR(XLEN, value, WORD))
           = memory_write(m, address, 8, value)
<1> DEFINE next == Add(XLEN, address, Num(4))
           high == ShiftR(XLEN, value, WORD)
           low == memory_write(m, address, 4, value)
           pair == memory_write(low, next, 4, high)
           whole == memory_write(m, address, 8, value)
           at == Index(address, 0)
<1>1. Inside(address, 4)
  BY ShorterInside
<1>2. Inside(next, 4) /\ \A j \in 0..3 : Index(next, j) = Index(address, 4 + j)
  BY PartsInside
<1>3. \A k \in 0..7 : Index(address, k) \in Addresses /\ Index(address, k) = at + k
  BY InsideIndices
<1>4. at \in Nat
  <2>1. at \in Addresses
    BY <1>3
  <2> QED BY <2>1 DEF Addresses
<1>5. \A k \in 0..3 : ByteOf(high, k) = ByteOf(value, 4 + k)
  <2> TAKE k \in 0..3
  <2>1. WORD = 32
    BY ByteWidths
  <2>2. \A i \in Bits(8) : i + 8 * k \in Bits(64) /\ (i + 8 * k) + 32 = i + 8 * (4 + k)
    BY DEF Bits
  <2>3. \A i \in Bits(8) : i + 8 * k \in high <=> i + 8 * (4 + k) \in value
    BY <2>1, <2>2 DEF ShiftR
  <2> QED BY <2>3 DEF ByteOf
<1>6. /\ low \in [Addresses -> Byte]
      /\ \A k \in 0..3 : low[at + k] = ByteOf(value, k)
      /\ \A a \in Addresses \ at..(at + 3) : low[a] = m[a]
  <2>1. /\ low \in [Addresses -> Byte]
        /\ \A k \in 0..(4 - 1) : low[Index(address, k)] = ByteOf(value, k)
        /\ \A a \in Addresses \ Index(address, 0)..Index(address, 4 - 1) : low[a] = m[a]
    BY <1>1, WriteInside
  <2> HIDE DEF low, at
  <2> QED BY <1>3, <2>1 DEF at
<1>7. /\ whole \in [Addresses -> Byte]
      /\ \A k \in 0..7 : whole[at + k] = ByteOf(value, k)
      /\ \A a \in Addresses \ at..(at + 7) : whole[a] = m[a]
  <2>1. /\ whole \in [Addresses -> Byte]
        /\ \A k \in 0..(8 - 1) : whole[Index(address, k)] = ByteOf(value, k)
        /\ \A a \in Addresses \ Index(address, 0)..Index(address, 8 - 1) : whole[a] = m[a]
    BY WriteInside
  <2> HIDE DEF whole, at
  <2> QED BY <1>3, <2>1 DEF at
<1>8. /\ pair \in [Addresses -> Byte]
      /\ \A k \in 0..3 : pair[at + 4 + k] = ByteOf(high, k)
      /\ \A a \in Addresses \ (at + 4)..(at + 7) : pair[a] = low[a]
  <2>1. /\ pair \in [Addresses -> Byte]
        /\ \A k \in 0..(4 - 1) : pair[Index(next, k)] = ByteOf(high, k)
        /\ \A a \in Addresses \ Index(next, 0)..Index(next, 4 - 1) : pair[a] = low[a]
    BY <1>2, <1>6, WriteInside
  <2> HIDE DEF pair, low, next, high, at
  <2>2. Index(next, 0) = at + 4 /\ Index(next, 3) = at + 7 /\ \A k \in 0..3 : Index(next, k) = at + 4 + k
    BY <1>2, <1>3, <1>4
  <2> QED BY <2>1, <2>2
<1> HIDE DEF pair, whole, low, next, high, at
<1>9. ASSUME NEW a \in Addresses PROVE pair[a] = whole[a]
  <2>1. a \in Nat
    BY DEF Addresses
  <2>2. CASE a \in at..(at + 3)
    <3>1. a - at \in 0..3 /\ a - at \in 0..7 /\ at + (a - at) = a /\ a \notin (at + 4)..(at + 7)
      BY <1>4, <2>1, <2>2
    <3> QED BY <1>6, <1>7, <1>8, <3>1
  <2>3. CASE a \in (at + 4)..(at + 7)
    <3>1. a - at - 4 \in 0..3 /\ 4 + (a - at - 4) \in 0..7 /\ at + 4 + (a - at - 4) = a
          /\ at + (4 + (a - at - 4)) = a
      BY <1>4, <2>1, <2>3
    <3> QED BY <1>5, <1>7, <1>8, <3>1
  <2>4. CASE a \notin at..(at + 7)
    BY <1>4, <1>6, <1>7, <1>8, <2>1, <2>4
  <2> QED BY <1>4, <2>1, <2>2, <2>3, <2>4
<1>10. pair = whole
  BY <1>7, <1>8, <1>9
<1> QED BY <1>10 DEF pair, whole, low, next, high

\* And the read of its halves is one read.
LEMMA HalvesReadWhole ==
  ASSUME BYTE = 8, NEW m \in [Addresses -> Byte], NEW address \in Words(XLEN), Inside(address, 8)
  PROVE  memory_read(m, address, 4) \cup ShiftL(64, memory_read(m, Add(XLEN, address, Num(4)), 4), 32)
           = memory_read(m, address, 8)
<1> DEFINE next == Add(XLEN, address, Num(4))
           low == memory_read(m, address, 4)
           high == memory_read(m, next, 4)
<1>1. Inside(address, 4)
  BY ShorterInside
<1>2. Inside(next, 4) /\ \A j \in 0..3 : Index(next, j) = Index(address, 4 + j)
  BY PartsInside
<1>3. low = {i \in Bits(8 * 4) : (i % 8) \in m[Index(address, i \div 8)]}
  BY <1>1, ReadInside
<1>4. high = {i \in Bits(8 * 4) : (i % 8) \in m[Index(next, i \div 8)]}
  BY <1>2, ReadInside
<1>5. memory_read(m, address, 8) = {i \in Bits(8 * 8) : (i % 8) \in m[Index(address, i \div 8)]}
  BY ReadInside
<1> HIDE DEF next, low, high
<1>6. ASSUME NEW i \in 0..31
      PROVE  i \in low <=> (i % 8) \in m[Index(address, i \div 8)]
  BY <1>3 DEF Bits
<1>7. ASSUME NEW i \in 32..63
      PROVE  i - 32 \in high <=> (i % 8) \in m[Index(address, i \div 8)]
  <2>1. i - 32 \in Bits(8 * 4) /\ (i - 32) % 8 = i % 8 /\ (i - 32) \div 8 \in 0..3
        /\ 4 + ((i - 32) \div 8) = i \div 8
    BY DEF Bits
  <2>2. Index(next, (i - 32) \div 8) = Index(address, i \div 8)
    BY <1>2, <2>1
  <2> QED BY <1>4, <2>1, <2>2
<1>8. low \subseteq 0..31 /\ high \subseteq 0..31
  BY <1>3, <1>4 DEF Bits
<1>9. \A i \in ShiftL(64, high, 32) : i \in 32..63 /\ i - 32 \in high
  BY <1>8 DEF ShiftL, Bits
<1>10. \A i \in 32..63 : i - 32 \in high => i \in ShiftL(64, high, 32)
  BY DEF ShiftL, Bits
<1>11. \A i : i \in low \cup ShiftL(64, high, 32)
               <=> i \in 0..63 /\ (i % 8) \in m[Index(address, i \div 8)]
  <2> TAKE i
  <2>1. CASE i \in 0..31
    <3>1. i \notin ShiftL(64, high, 32) /\ i \in 0..63
      BY <1>9, <2>1
    <3> QED BY <1>6, <2>1, <3>1
  <2>2. CASE i \in 32..63
    <3>1. i \notin low /\ i \in 0..63
      BY <1>8, <2>2
    <3> QED BY <1>7, <1>9, <1>10, <2>2, <3>1
  <2>3. CASE i \notin 0..63
    <3>1. i \notin 0..31 /\ i \notin 32..63
      BY <2>3
    <3>2. i \notin low /\ i \notin ShiftL(64, high, 32)
      BY <1>8, <1>9, <3>1
    <3> QED BY <2>3, <3>2
  <2>4. 0..63 = (0..31) \cup (32..63)
    OBVIOUS
  <2> QED BY <2>1, <2>2, <2>3, <2>4
<1> QED BY <1>5, <1>11 DEF Bits, low, high, next

\* A slice of a word depends only on the bits it is cut from.
LEMMA SliceOfLow ==
  ASSUME NEW n \in Nat, NEW x, NEW y, x \cap Bits(n) = y \cap Bits(n), NEW lo \in Nat, NEW hi \in Nat, hi < n
  PROVE  Slice(x, lo, hi, 0) = Slice(y, lo, hi, 0)
<1>1. lo..hi \subseteq Bits(n)
  BY DEF Bits
<1>2. x \cap (lo..hi) = y \cap (lo..hi)
  BY <1>1
<1> QED BY <1>2 DEF Slice

\* A word whose low bits are those of a read has its bytes, and the sign of
\* the read is the top bit of the last of them.
LEMMA BytesOfRead ==
  ASSUME BYTE = 8, NEW m \in [Addresses -> Byte], NEW address, NEW n \in 1..8, Inside(address, n),
         NEW x, x \cap Bits(8 * n) = memory_read(m, address, n)
  PROVE  /\ \A k \in 0..(n - 1) : Slice(x, 8 * k, 8 * k + 7, 0) = m[Index(address, k)]
         /\ 8 * n - 1 \in memory_read(m, address, n) <=> 7 \in m[Index(address, n - 1)]
<1> DEFINE v == memory_read(m, address, n)
<1>1. v = {i \in Bits(8 * n) : (i % 8) \in m[Index(address, i \div 8)]}
  BY ReadInside
<1>2. \A k \in 0..(n - 1) : Slice(v, 8 * k, 8 * k + 7, 0) = m[Index(address, k)]
  BY ReadByte
<1> HIDE DEF v
<1>3. x \cap Bits(8 * n) = v \cap Bits(8 * n)
  BY <1>1 DEF v
<1>4. ASSUME NEW k \in 0..(n - 1)
      PROVE  Slice(x, 8 * k, 8 * k + 7, 0) = m[Index(address, k)]
  <2>1. 8 * n \in Nat /\ 8 * k \in Nat /\ 8 * k + 7 \in Nat /\ 8 * k + 7 < 8 * n
    OBVIOUS
  <2>2. Slice(x, 8 * k, 8 * k + 7, 0) = Slice(v, 8 * k, 8 * k + 7, 0)
    BY <1>3, <2>1, SliceOfLow
  <2> QED BY <1>2, <2>2
<1>5. 8 * n - 1 \in Bits(8 * n) /\ (8 * n - 1) % 8 = 7 /\ (8 * n - 1) \div 8 = n - 1
  BY DEF Bits
<1>6. 8 * n - 1 \in v <=> 7 \in m[Index(address, n - 1)]
  BY <1>1, <1>5
<1> QED BY <1>4, <1>6 DEF v
=============================================================================
