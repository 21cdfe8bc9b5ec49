----------------------------- MODULE Assembler -----------------------------
(***************************************************************************)
(* assemble_line of assembler.py, from a parsed line to the word it emits. *)
(* Registers and immediates are numbers here, as in the source text.       *)
(* Mnemonics are spelt like the inst_type they should decode to. Loads and *)
(* stores are not here: their pattern wants a comma after the register, in *)
(* a line that was split at its commas, so no word is emitted for them.    *)
(***************************************************************************)
EXTENDS Formats

\* mnemonic |-> <<opcode, funct3, funct7>>
RTable ==
  [ADD |-> <<51, 0, 0>>, SUB |-> <<51, 0, 32>>, SLL |-> <<51, 1, 0>>, SLT |-> <<51, 2, 0>>,
   SLTU |-> <<51, 3, 0>>, XOR |-> <<51, 4, 0>>, SRL |-> <<51, 5, 0>>, SRA |-> <<51, 5, 32>>,
   OR |-> <<51, 6, 0>>, AND |-> <<51, 7, 0>>,
   MUL |-> <<51, 0, 1>>, MULH |-> <<51, 1, 1>>, MULHSU |-> <<51, 2, 1>>, MULHU |-> <<51, 3, 1>>,
   DIV |-> <<51, 4, 1>>, DIVU |-> <<51, 5, 1>>, REM |-> <<51, 6, 1>>, REMU |-> <<51, 7, 1>>,
   ADDW |-> <<59, 0, 0>>, SUBW |-> <<59, 0, 32>>, SLLW |-> <<59, 1, 0>>,
   SRLW |-> <<59, 5, 0>>, SRAW |-> <<59, 5, 32>>]
\* mnemonic |-> <<opcode, funct3, bits or-ed in at 25>>
ITable ==
  [ADDI |-> <<19, 0, 0>>, SLTI |-> <<19, 2, 0>>, SLTIU |-> <<19, 3, 0>>, XORI |-> <<19, 4, 0>>,
   ORI |-> <<19, 6, 0>>, ANDI |-> <<19, 7, 0>>, SLLI |-> <<19, 1, 0>>, SRLI |-> <<19, 5, 0>>,
   SRAI |-> <<19, 5, 32>>, JALR |-> <<103, 0, 0>>, ADDIW |-> <<27, 0, 0>>,
   SLLIW |-> <<27, 1, 0>>, SRLIW |-> <<27, 5, 0>>, SRAIW |-> <<27, 5, 32>>]
BTable == [BEQ |-> 0, BNE |-> 1, BLT |-> 4, BGE |-> 5, BLTU |-> 6, BGEU |-> 7]
UTable == [LUI |-> 55, AUIPC |-> 23]
FixedWords ==
  [ECALL |-> 115, EBREAK |-> 1048691, MRET |-> 807403635, SRET |-> 270532723, WFI |-> 273678451,
   NOP |-> 19]
R(n) == Num(n)
Imm(k) == IF k >= 0 THEN Num(k) ELSE Neg(32, Num(-k))

r_type(m, rd, rs1, rs2) ==
  encode_r(RTable[m][1], R(rd), R(rs1), R(rs2), RTable[m][2], RTable[m][3])
i_type(m, rd, rs1, imm) ==
  encode_i(ITable[m][1], R(rd), R(rs1), Imm(imm), ITable[m][2]) \cup At(Num(ITable[m][3]), 25)
b_type(m, rs1, rs2, imm) == encode_b(99, R(rs1), R(rs2), Imm(imm), BTable[m])
u_type(m, rd, imm) == encode_u(UTable[m], R(rd), Imm(imm))
jal(rd, imm) == encode_j(111, R(rd), Imm(imm))
fixed(m) == Num(FixedWords[m])
=============================================================================
