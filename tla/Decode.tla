------------------------------- MODULE Decode ------------------------------
(***************************************************************************)
(* decode.c and decode_table.c: from an instruction word (a set of bit     *)
(* positions in 0..31) to the decoded record the handlers read. The opcode *)
(* field of instruction_t is not kept: nothing reads it after decoding.    *)
(* An inst_type is named without its width (.W or .D, _S or _D), which is  *)
(* a field of its own: FADD is INST_FADD_S or INST_FADD_D.                 *)
(***************************************************************************)
EXTENDS Config, Sequences

Unknowns == [i \in 1..8 |-> "UNKNOWN"]

\* op_table[funct7], by funct3.
op_table(funct7) ==
  CASE funct7 = 0  -> <<"ADD", "SLL", "SLT", "SLTU", "XOR", "SRL", "OR", "AND">>
    [] funct7 = 32 -> [Unknowns EXCEPT ![1] = "SUB", ![6] = "SRA"]
    [] funct7 = 1  ->
         IF RV64 THEN <<"MULW", "MULH", "MULHSU", "MULHU", "DIVW", "DIVUW", "REMW", "REMUW">>
                 ELSE <<"MUL", "MULH", "MULHSU", "MULHU", "DIV", "DIVU", "REM", "REMU">>
    [] OTHER -> Unknowns

op_imm_table(funct7) ==
  CASE funct7 = 0  -> <<"ADDI", "SLLI", "SLTI", "SLTIU", "XORI", "SRLI", "ORI", "ANDI">>
    [] funct7 = 32 -> [Unknowns EXCEPT ![6] = "SRAI"]
    [] OTHER -> Unknowns

load_table ==
  IF RV64 THEN <<"LB", "LH", "LW", "LD", "LBU", "LHU", "LWU", "UNKNOWN">>
          ELSE [Unknowns EXCEPT ![1] = "LB", ![2] = "LH", ![3] = "LW", ![5] = "LBU", ![6] = "LHU"]

store_table ==
  IF RV64 THEN [Unknowns EXCEPT ![1] = "SB", ![2] = "SH", ![3] = "SW", ![4] = "SD"]
          ELSE [Unknowns EXCEPT ![1] = "SB", ![2] = "SH", ![3] = "SW"]

branch_table ==
  <<"BEQ", "BNE", "UNKNOWN", "UNKNOWN", "BLT", "BGE", "BLTU", "BGEU">>

\* amo_table[funct5][funct3]: the operation, then the width it works on.
amo_table(funct5, funct3) ==
  LET op == CASE funct5 = 2  -> "LR"      [] funct5 = 3  -> "SC"
              [] funct5 = 1  -> "AMOSWAP" [] funct5 = 0  -> "AMOADD"
              [] funct5 = 4  -> "AMOXOR"  [] funct5 = 12 -> "AMOAND"
              [] funct5 = 8  -> "AMOOR"   [] funct5 = 16 -> "AMOMIN"
              [] funct5 = 20 -> "AMOMAX"  [] funct5 = 24 -> "AMOMINU"
              [] funct5 = 28 -> "AMOMAXU" [] OTHER -> "UNKNOWN"
      defined == funct3 = 2 \/ (RV64 /\ funct3 = 3)
  IN IF defined THEN op ELSE "UNKNOWN"

\* OPCODE_SYSTEM's chain of comparisons.
SystemType(funct3, funct12) ==
  CASE funct3 = 0 ->
         (CASE funct12 = 0   -> "ECALL"  [] funct12 = 1   -> "EBREAK"
            [] funct12 = 770 -> "MRET"   [] funct12 = 258 -> "SRET"
            [] funct12 = 2   -> "URET"   [] funct12 = 261 -> "WFI"
            [] funct12 \div 32 = 9 -> "SFENCE_VMA"
            [] OTHER -> "FENCE")
    [] funct3 = 1 -> IF funct12 = 1 THEN "FENCE_I" ELSE "CSRRW"
    [] OTHER -> <<"CSRRS", "CSRRC", "UNKNOWN", "CSRRWI", "CSRRSI", "CSRRCI">>[funct3 - 1]

\* Mutant: funct7 is not looked at.
Op32TypeIgnoringFunct7(funct7, funct3) ==
  CASE funct3 = 0 -> "ADDW" [] funct3 = 1 -> "SLLW" [] funct3 = 5 -> "SRLW" [] OTHER -> "UNKNOWN"
\* OPCODE_OP_32 and OPCODE_OP_IMM_32 (RV64 only).
Op32Type(funct7, funct3) ==
  CASE funct7 = 0 /\ funct3 = 0  -> "ADDW" [] funct7 = 32 /\ funct3 = 0 -> "SUBW"
    [] funct7 = 0 /\ funct3 = 1  -> "SLLW" [] funct7 = 0 /\ funct3 = 5  -> "SRLW"
    [] funct7 = 32 /\ funct3 = 5 -> "SRAW" [] OTHER -> "UNKNOWN"

OpImm32Type(funct7, funct3) ==
  CASE funct3 = 0 -> "ADDIW"
    [] funct3 = 1 -> "SLLIW"
    [] funct3 = 5 /\ funct7 = 0  -> "SRLIW"
    [] funct3 = 5 /\ funct7 = 32 -> "SRAIW"
    [] OTHER -> "UNKNOWN"

-----------------------------------------------------------------------------
(* Immediates *)

SignFrom(bit, w, at) == IF bit \in w THEN at..31 ELSE {}

DefaultImm(w) == Slice(w, 20, 31, 0)
UpperImm(w)   == Slice(w, 12, 31, 12)
\* The first field comes from bits 31:24: the code shifts by 12 before it
\* masks with 0xFF000, where bits 19:12 of the word hold imm[19:12].
JumpImm(w)    == Slice(w, 24, 31, 12) \cup Slice(w, 21, 30, 1) \cup Slice(w, 20, 20, 11)
                   \cup SignFrom(31, w, 20)
\* Mutant: bit 7 is taken for imm[0], as in the S-type.
BranchImmAsStore(w) == Slice(w, 25, 30, 5) \cup Slice(w, 7, 11, 0) \cup SignFrom(31, w, 12)
BranchImm(w)  == Slice(w, 25, 30, 5) \cup Slice(w, 8, 11, 1) \cup Slice(w, 7, 7, 11)
                   \cup SignFrom(31, w, 12)
\* Mutant: the sign is not extended.
StoreImmUnsigned(w) == Slice(w, 25, 31, 5) \cup Slice(w, 7, 11, 0)
StoreImm(w)   == Slice(w, 25, 31, 5) \cup Slice(w, 7, 11, 0) \cup SignFrom(31, w, 12)
\* Mutant: the sign is not extended here either.
OpImmUnsigned(w) == DefaultImm(w)
OpImm(w)      == DefaultImm(w) \cup SignFrom(31, w, 12)
ShiftImm(w)   == Slice(w, 20, IF RV64 THEN 25 ELSE 24, 0)
ShiftImm32(w) == Slice(w, 20, 24, 0)

FpLoad(funct3) == CASE funct3 = 2 -> "FLW" [] funct3 = 3 -> "FLD" [] OTHER -> "UNKNOWN"
Fused(opcode, funct7) ==
  IF funct7 % 4 > 1 THEN "UNKNOWN"
  ELSE CASE opcode = 67 -> "FMADD" [] opcode = 71 -> "FMSUB"
         [] opcode = 75 -> "FNMSUB" [] opcode = 79 -> "FNMADD"

\* OPCODE_OP_FP's chain of comparisons: the low bit of funct7 is the width.
\* The moves and conversions of 64-bit integers are never decoded.
OpFpType(funct7, funct3, rs2) ==
  LET op == funct7 \div 2
  IN CASE op = 0 -> "FADD" [] op = 2 -> "FSUB" [] op = 4 -> "FMUL" [] op = 6 -> "FDIV"
       [] op = 22 /\ rs2 = 0    -> "FSQRT"
       [] op = 8  /\ funct3 < 3 -> <<"FSGNJ", "FSGNJN", "FSGNJX">>[funct3 + 1]
       [] op = 10 /\ funct3 < 2 -> <<"FMIN", "FMAX">>[funct3 + 1]
       [] op = 40 /\ funct3 < 3 -> <<"FLE", "FLT", "FEQ">>[funct3 + 1]
       [] op = 48 /\ rs2 < 2    -> <<"FCVT_W", "FCVT_WU">>[rs2 + 1]
       [] op = 52 /\ rs2 < 2    -> <<"FCVT_F_W", "FCVT_F_WU">>[rs2 + 1]
       [] op = 56 /\ rs2 = 0 /\ funct3 = 1 -> "FCLASS"
       [] funct7 = 112 /\ rs2 = 0 /\ funct3 = 0 -> "FMV_X_W"
       [] funct7 = 120 /\ rs2 = 0 /\ funct3 = 0 -> "FMV_W_X"
       [] funct7 = 32 /\ rs2 = 1 -> "FCVT_S_D"
       [] funct7 = 33 /\ rs2 = 0 -> "FCVT_D_S"
       [] OTHER -> "UNKNOWN"
Opcode(w) == Field(w, 0, 6)
FusedOpcodes == {67, 71, 75, 79}

\* The type and the immediate the opcode's case of the switch assigns.
TypeAndImm(w, opcode, funct3, funct7) ==
  LET shift == funct3 \in {1, 5}
  IN CASE opcode = 55  -> <<"LUI", UpperImm(w)>>
       [] opcode = 23  -> <<"AUIPC", UpperImm(w)>>
       [] opcode = 111 -> <<"JAL", JumpImm(w)>>
       [] opcode = 103 -> <<"JALR", DefaultImm(w)>>
       [] opcode = 99  -> <<branch_table[funct3 + 1], BranchImm(w)>>
       [] opcode = 35  -> <<store_table[funct3 + 1], StoreImm(w)>>
       [] opcode = 3   -> <<load_table[funct3 + 1], DefaultImm(w)>>
       [] opcode = 19  ->
            LET entry == op_imm_table(IF shift THEN funct7 ELSE 0)[funct3 + 1]
            IN  <<entry, IF shift /\ entry # "UNKNOWN" THEN ShiftImm(w) ELSE OpImm(w)>>
       [] opcode = 51  -> <<op_table(funct7)[funct3 + 1], DefaultImm(w)>>
       [] opcode = 115 -> <<SystemType(funct3, Field(w, 20, 31)), DefaultImm(w)>>
       [] opcode = 47  -> <<amo_table(Field(w, 27, 31), funct3), DefaultImm(w)>>
       [] opcode = 7   -> <<FpLoad(funct3), DefaultImm(w)>>
       [] opcode = 39  -> <<IF funct3 = 2 THEN "FSW" ELSE "UNKNOWN", DefaultImm(w)>>
       [] opcode \in FusedOpcodes -> <<Fused(opcode, funct7), DefaultImm(w)>>
       [] opcode = 83  -> <<OpFpType(funct7, funct3, Field(w, 20, 24)), DefaultImm(w)>>
       [] opcode = 27 /\ RV64 ->
            <<OpImm32Type(funct7, funct3), IF shift THEN ShiftImm32(w) ELSE DefaultImm(w)>>
       [] opcode = 59 /\ RV64 -> <<Op32Type(funct7, funct3), DefaultImm(w)>>
       [] OTHER -> <<"UNKNOWN", DefaultImm(w)>>

\* The fields of instruction_t, with the first two as assigned above.
instruction_t(w, type_and_imm) ==
  [inst_type |-> type_and_imm[1], imm |-> type_and_imm[2],
   rd  |-> Field(w, 7, 11), rs1 |-> Field(w, 15, 19), rs2 |-> Field(w, 20, 24),
   rs3 |-> Field(w, 27, 31),                          \* read by the handlers from the word
   wide |-> IF Opcode(w) = 47 THEN 12 \in w ELSE 25 \in w]   \* .D if set, .W or .S if not
decode_instruction(w) ==
  instruction_t(w, TypeAndImm(w, Opcode(w), Field(w, 12, 14), Field(w, 25, 31)))
=============================================================================
