------------------------------ MODULE Formats ------------------------------
(***************************************************************************)
(* The instruction formats as assembler.py's encode_* functions put them   *)
(* together. expand_compressed builds the words it returns with the same   *)
(* shifts. Registers and immediates are words (an immediate is a 32-bit    *)
(* two's complement one), opcodes and function codes numbers; bits that    *)
(* Python's unbounded integers carry above bit 31 are cut off, as the      *)
(* emulator's %x conversion to uint32_t does.                              *)
(***************************************************************************)
EXTENDS Words

At(x, k) == ShiftL(32, x, k)
Fixed(f3, op) == At(Num(f3), 12) \cup Num(op)

encode_r(op, rd, rs1, rs2, f3, f7) ==
  At(Num(f7), 25) \cup At(rs2, 20) \cup At(rs1, 15) \cup At(rd, 7) \cup Fixed(f3, op)
encode_i(op, rd, rs1, imm, f3) ==
  At(imm, 20) \cup At(rs1, 15) \cup At(rd, 7) \cup Fixed(f3, op)
\* Mutant: the two source registers are exchanged.
encode_s_swapped(op, rs1, rs2, imm, f3) ==
  Slice(imm, 5, 11, 25) \cup At(rs1, 20) \cup At(rs2, 15) \cup Slice(imm, 0, 4, 7)
    \cup Fixed(f3, op)
encode_s(op, rs1, rs2, imm, f3) ==
  Slice(imm, 5, 11, 25) \cup At(rs2, 20) \cup At(rs1, 15) \cup Slice(imm, 0, 4, 7)
    \cup Fixed(f3, op)
encode_b(op, rs1, rs2, imm, f3) ==
  Slice(imm, 12, 12, 31) \cup Slice(imm, 5, 10, 25) \cup At(rs2, 20) \cup At(rs1, 15)
    \cup Slice(imm, 1, 4, 8) \cup Slice(imm, 11, 11, 7) \cup Fixed(f3, op)
encode_u(op, rd, imm) == Slice(imm, 12, 31, 12) \cup At(rd, 7) \cup Num(op)
encode_j(op, rd, imm) ==
  Slice(imm, 20, 20, 31) \cup Slice(imm, 1, 10, 21) \cup Slice(imm, 11, 11, 20)
    \cup Slice(imm, 12, 19, 12) \cup At(rd, 7) \cup Num(op)
=============================================================================
