------------------------------ MODULE MCControl ----------------------------
(***************************************************************************)
(* Control flow on RV32: files of a few lines over branches, jumps, traps  *)
(* and the instructions that give them their targets, 32-bit and           *)
(* compressed.                                                             *)
(***************************************************************************)
EXTENDS Emulator, Assembler

csrrw(rd, number, rs1) == encode_i(115, R(rd), R(rs1), Num(number), 1)
c_beqz(off) ==
  {14, 15, 0} \cup Slice(Imm(off), 3, 4, 10) \cup Slice(Imm(off), 1, 2, 3)
c_nop == {0}
c_zero == {}

\* x1 holds addresses (odd ones too), x8 is the register of c.beqz.
ControlInstructions ==
  { i_type("ADDI", 1, 0, 13), i_type("ADDI", 8, 8, 1),
    b_type("BEQ", 0, 8, 12), b_type("BNE", 1, 8, -8), b_type("BLT", 8, 1, 6),
    b_type("BGE", 0, 1, 8), b_type("BLTU", 8, 1, 10), b_type("BGEU", 1, 8, -2),
    jal(1, 8), i_type("JALR", 0, 1, 3), i_type("JALR", 1, 1, 0), u_type("AUIPC", 1, 0),
    r_type("SUB", 8, 1, 8), c_nop, c_zero, c_beqz(6), Num(15),
    csrrw(0, CSR_MTVEC, 1), fixed("ECALL"), fixed("MRET"), fixed("WFI") }

-----------------------------------------------------------------------------
\* cpu.c:69 says of jumps and taken branches "PC already modified, don't
\* increment": a JAL ends at pc + imm.
JumpLands ==
  [][Executes({"JAL"}, LAMBDA d : d.len = 4 => pc' = Add(XLEN, pc, d.imm))]_evars
=============================================================================
