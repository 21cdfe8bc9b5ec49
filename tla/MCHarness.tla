------------------------------ MODULE MCHarness ----------------------------
(***************************************************************************)
(* main.c as the Makefile builds it, for RV64, on files of stores, which   *)
(* it prints, of instructions with negative immediates, which the decoder  *)
(* leaves at 32 bits, and of those that would hold a hart back: a branch   *)
(* to itself, WFI, a trap without a handler. Stores reach below and past   *)
(* both ends of memory.                                                    *)
(***************************************************************************)
EXTENDS Emulator, Assembler

store(f3, rs2, rs1, off) == encode_s(35, R(rs1), R(rs2), Imm(off), f3)
HarnessInstructions ==
  { i_type("ADDI", 1, 0, 6), i_type("ADDI", 2, 0, -1),
    store(0, 2, 1, 0), store(1, 2, 1, -4), store(2, 2, 0, 0), store(2, 2, 1, 0),
    store(0, 2, 0, -2), store(5, 2, 0, 0),
    store(3, 2, 1, -6), i_type("XORI", 2, 1, -1), i_type("ANDI", 1, 2, -4),
    b_type("BEQ", 0, 0, 0), b_type("BNE", 1, 0, -8), b_type("BLT", 2, 1, 12),
    fixed("WFI"), fixed("ECALL") }

-----------------------------------------------------------------------------
\* The 12-bit immediate of the instruction, sign-extended to a register.
SignedImm == SignExt(12, XLEN, Slice(Expanded(line), 20, 31, 0))

ReachesBelow32(d) ==
  d.rd # 0 =>
    LET full == alu_imm(d.inst_type, regs[d.rs1], SignedImm)
        upper == regs'[d.rd] \ Bits(WORD)
        before == regs[d.rs1] \ Bits(WORD)
    IN /\ Trunc(WORD, regs'[d.rd]) = Trunc(WORD, full)
       /\ upper = IF ~Negative(XLEN, SignedImm) THEN full \ Bits(WORD)
                  ELSE IF d.inst_type = "ANDI" THEN {}
                  ELSE IF d.inst_type # "ADDI" THEN before
                  ELSE Add(XLEN, regs[d.rs1], Trunc(WORD, SignedImm)) \ Bits(WORD)
\* The low 32 bits of ADDI, XORI, ORI and ANDI, and so every address that a
\* program makes with them and memory.c sees, are what the sign-extended
\* immediate gives, in spite of a decoded immediate of 32 bits on RV64; and
\* the upper half of the result is that of rs1, or cleared by ANDI, or
\* carried into by ADDI, but never filled with the sign.
ImmediatesReachBelow32 ==
  [][Executes({"ADDI", "XORI", "ORI", "ANDI"}, ReachesBelow32)]_evars
=============================================================================
