------------------------------ MODULE MCDecode -----------------------------
(***************************************************************************)
(* The path of one instruction from its source to the decoded record: a    *)
(* line of assembly goes through assembler.py, a 16-bit word through       *)
(* expand_compressed; both end in decode_instruction. The sources are      *)
(* every 16-bit word and, for every mnemonic, all combinations of the      *)
(* given operands.                                                         *)
(***************************************************************************)
EXTENDS Assembler

\* The immediates that the I, B, U and J formats can hold.
Short == -2048..2047
Offsets == {k \in -4096..4094 : k % 2 = 0}
Uppers == {k \in Int : -2147483647 <= k /\ k <= 2147483647}
Jumps == {k \in Int : -1048576 <= k /\ k <= 1048574 /\ k % 2 = 0}
\* Registers, shift amounts, and some immediates of each of these formats.
CONSTANTS Regs, Amounts, ImmI, ImmB, ImmU, ImmJ
ASSUME OperandsAssumption ==
  /\ Regs \subseteq 0..31 /\ Amounts \subseteq 0..31
  /\ ImmI \subseteq Short /\ ImmB \subseteq Offsets /\ ImmU \subseteq Uppers /\ ImmJ \subseteq Jumps
\* Those of the runs: at and near both ends, and around the scattered bits.
EdgesI == {-2048, -1, 0, 1, 2047}
EdgesB == {-4096, -2, 0, 4, 2048, 4094}
EdgesU == {-4096, -1, 0, 4096, 74565, 2147479552}
EdgesJ == {-1048576, -2, 0, 8, 14, 16, 2048}

D32 == INSTANCE Decode WITH XLEN <- 32, BYTE <- 8
D64 == INSTANCE Decode WITH XLEN <- 64, BYTE <- 8
C32 == INSTANCE Compressed WITH XLEN <- 32, BYTE <- 8
C64 == INSTANCE Compressed WITH XLEN <- 64, BYTE <- 8

VARIABLES source, word, emitted
dvars == <<source, word, emitted>>

Shifts == {"SLLI", "SRLI", "SRAI", "SLLIW", "SRLIW", "SRAIW"}
LineOf(fmt, ms, rds, rs1s, rs2s, imms) ==
  [fmt : {fmt}, m : ms, rd : rds, rs1 : rs1s, rs2 : rs2s, imm : imms]
Lines ==
  UNION {
    LineOf("R", DOMAIN RTable, Regs, Regs, Regs, {0}),
    LineOf("I", DOMAIN ITable \ Shifts, Regs, Regs, {0}, ImmI),
    LineOf("I", Shifts, Regs, Regs, {0}, Amounts),
    LineOf("B", DOMAIN BTable, {0}, Regs, Regs, ImmB),
    LineOf("U", DOMAIN UTable, Regs, {0}, {0}, ImmU),
    LineOf("J", {"JAL"}, Regs, {0}, {0}, ImmJ),
    LineOf("F", DOMAIN FixedWords, {0}, {0}, {0}, {0}) }
Halfwords == {[fmt |-> "C", c |-> c] : c \in {h \in Words(16) : ~({0, 1} \subseteq h)}}

DInit == source \in Lines \cup Halfwords /\ word = {} /\ emitted = FALSE

Assemble ==
  /\ ~emitted /\ emitted' = TRUE /\ source.fmt # "C"
  /\ word' = CASE source.fmt = "R" -> r_type(source.m, source.rd, source.rs1, source.rs2)
               [] source.fmt = "I" -> i_type(source.m, source.rd, source.rs1, source.imm)
               [] source.fmt = "B" -> b_type(source.m, source.rs1, source.rs2, source.imm)
               [] source.fmt = "U" -> u_type(source.m, source.rd, source.imm)
               [] source.fmt = "J" -> jal(source.rd, source.imm)
               [] source.fmt = "F" -> fixed(source.m)
  /\ UNCHANGED source
Expand ==
  /\ ~emitted /\ emitted' = TRUE /\ source.fmt = "C"
  /\ word' = C32!expand_compressed(source.c)
  /\ UNCHANGED source
DSpec == DInit /\ [][Assemble \/ Expand]_dvars

-----------------------------------------------------------------------------
Is(fmts) == emitted /\ source.fmt \in fmts
Rv64Only == {"ADDW", "SUBW", "SLLW", "SRLW", "SRAW", "ADDIW", "SLLIW", "SRLIW", "SRAIW"}

\* The operands of the source that a format has are those of the record. The
\* immediate is sign-extended to 32 bits, but that of JALR and ADDIW, which
\* stays at 12: a negative one comes out as 4096 more. LUI and AUIPC lose the
\* low 12 bits of theirs: 0x12345 (rv64gc.s:37) comes out as 0x12000.
Unextended == {"JALR", "ADDIW"}
SameOperands(d) ==
  /\ source.fmt \in {"R", "I", "U", "J"} => d.rd = source.rd
  /\ source.fmt \in {"R", "I", "B"} => d.rs1 = source.rs1
  /\ source.fmt \in {"R", "B"} => d.rs2 = source.rs2
  /\ source.fmt \in {"I", "B", "U", "J"} =>
       d.imm = Imm(IF source.m \in Unextended /\ source.imm < 0 THEN source.imm + 4096 ELSE source.imm)
                 \ IF source.fmt = "U" THEN 0..11 ELSE {}

\* The assembler and the RV32 decoder agree: what assembler.py emits for a
\* line decodes to that line's mnemonic, registers and immediate, over the
\* whole range of the format. (Not for jal.)
AssembledDecodesBack ==
  (Is({"R", "I", "B", "U", "F"}) /\ source.m \notin Rv64Only)
    => LET d == D32!decode_instruction(word)
       IN d.inst_type = (IF source.m = "NOP" THEN "ADDI" ELSE source.m) /\ SameOperands(d)

\* The same for the instructions only an RV64 build knows.
WordOpsDecodeBack ==
  (Is({"R", "I"}) /\ source.m \in Rv64Only)
    => LET d == D64!decode_instruction(word)
       IN d.inst_type = source.m /\ SameOperands(d)

\* decode.c:42 says of the J-type immediate "imm[19:12]": a jal offset that
\* the assembler encoded comes back from the decoder.
JalOffsetDecodesBack ==
  Is({"J"}) => SameOperands(D32!decode_instruction(word))

\* assembler.py and the RV64 decoder agree on the OP instructions: the test
\* program rv64gc.s calls itself an RV64GC ISA test suite and comments
\* "mul x13, x1, x2 # Multiply".
MulDecodesBackOnRv64 ==
  Is({"R"}) => D64!decode_instruction(word).inst_type = source.m

-----------------------------------------------------------------------------
(* Compressed words, as bits of source.c *)

Quadrant == C32!Field(source.c, 0, 1)
Funct3 == C32!Field(source.c, 13, 15)
Group(quadrant, funct3) == Quadrant = quadrant /\ Funct3 = funct3
JumpOrAdd == Group(2, 4)
LongShift == 12 \in source.c /\ (Group(2, 0) \/ (Group(1, 4) /\ 11 \notin source.c))
Fsd == Group(0, 5) \/ Group(2, 5)
\* The words of the group of C.SUB, C.XOR, C.OR and C.AND but C.SUB's own:
\* bits 6:5, which tell the four apart, are not looked at, nor is bit 12.
NotSub == Group(1, 4) /\ {10, 11} \subseteq source.c /\ {5, 6, 12} \cap source.c # {}
\* What decode.c's comments call the expansion, on an RV32 or an RV64 build.
NamedExpansion(rv64) ==
  CASE Group(0, 0) -> "ADDI"   [] Group(0, 2) -> "LW"  [] Group(0, 6) -> "SW"
    [] Group(1, 0) -> "ADDI"   [] Group(1, 1) -> "JAL" [] Group(1, 2) -> "ADDI"
    [] Group(1, 3) -> IF C32!Rd(source.c) = {1} THEN "ADDI" ELSE "LUI"
    [] Group(1, 5) -> "JAL"    [] Group(1, 6) -> "BEQ" [] Group(1, 7) -> "BNE"
    [] Group(2, 0) -> "SLLI"   [] Group(2, 2) -> "LW"  [] Group(2, 6) -> "SW"
    [] JumpOrAdd /\ C32!Rs2(source.c) # {} -> "ADD"             \* C.MV, C.ADD
    [] JumpOrAdd /\ C32!Rs2(source.c) = {} ->                   \* C.EBREAK, C.JR, C.JALR
         IF source.c = {1, 12, 15} THEN "EBREAK" ELSE "JALR"
    [] Group(1, 4) /\ 11 \notin source.c -> IF 10 \in source.c THEN "SRAI" ELSE "SRLI"
    [] Group(1, 4) /\ 11 \in source.c -> IF 10 \in source.c THEN "SUB" ELSE "ANDI"
    [] Group(0, 1) \/ Group(2, 1) -> "FLD"
    [] Group(0, 3) -> IF rv64 THEN "LD" ELSE "FLW"
    [] Group(0, 7) -> IF rv64 THEN "SD" ELSE "FSW"
    [] Group(2, 3) -> "FLW"    [] Group(2, 7) -> "FSW"
    [] Fsd -> "FSD"
Expanded32 == D32!decode_instruction(word)
Expanded64 == D64!decode_instruction(C64!expand_compressed(source.c))
ExpandsToNamed ==
  Expanded32.inst_type = NamedExpansion(FALSE) /\ Expanded64.inst_type = NamedExpansion(TRUE)
\* "jalr x0, 0(rd)", "add rd, x0, rs2", "jalr x1, 0(rd)", "add rd, rd, rs2":
\* bit 12 says whether the jump links and whether the sum has two terms.
JumpOrAddOperands(d) ==
  LET full == 12 \in source.c
      rd   == C32!Field(source.c, 7, 11)
  IN /\ d.inst_type = "JALR" => d.rs1 = rd /\ d.rd = IF full THEN 1 ELSE 0
     /\ d.inst_type = "ADD"  => /\ d.rd = rd /\ d.rs1 = IF full THEN rd ELSE 0
                                /\ d.rs2 = C32!Field(source.c, 2, 6)

\* Every 16-bit word expands to nothing or to a word that decodes to the
\* instruction the comment beside its case names, on RV32 and on RV64, and
\* the four that share a case (C.JR, C.MV, C.JALR, C.ADD) to its registers.
\* The words of three groups do not: FloatStoresDecodeBack and MiscAluIsNamed.
ExpansionIsTheNamedInstruction ==
  (Is({"C"}) /\ word # {} /\ ~LongShift /\ ~Fsd /\ ~NotSub) =>
    /\ ExpandsToNamed
    /\ JumpOrAdd => JumpOrAddOperands(Expanded32) /\ JumpOrAddOperands(Expanded64)

\* A compressed branch keeps its offset and register through expansion and
\* decoding: an even offset in -256..254 and one of x8..x15.
CompressedBranchOperands ==
  (Is({"C"}) /\ Quadrant = 1 /\ Funct3 \in {6, 7})
    => LET d == D32!decode_instruction(word)
           k == {i \in 0..31 : CASE i = 0 -> FALSE [] i \in {1, 2} -> i + 2 \in source.c
                                 [] i \in {3, 4} -> i + 7 \in source.c [] i = 5 -> 2 \in source.c
                                 [] i \in {6, 7} -> i - 1 \in source.c [] OTHER -> 12 \in source.c}
       IN d.imm = k /\ d.rs1 = 8 + C32!Field(source.c, 7, 9) /\ d.rs2 = 0

\* The record of the 16-bit word that differs from source.c in funct3.
Twin(funct3) == (source.c \ 13..15) \cup ShiftL(16, Num(funct3), 13)
Record32(funct3) == D32!decode_instruction(C32!expand_compressed(Twin(funct3)))
Record64(funct3) == D64!decode_instruction(C64!expand_compressed(Twin(funct3)))

\* A compressed load and the compressed store of its width with the same
\* operand bits name the same memory operand and the same register, so what
\* one saves the other restores: C.SW with C.LW and C.FLW, and on RV64 C.SD
\* with C.LD and C.FLD. Their offsets are scattered over the two words by
\* different code and collected by different cases of the decoder.
CompressedAccessesMeet ==
  (Is({"C"}) /\ Group(0, 6)) =>
    LET Meet(load, store) == load.rs1 = store.rs1 /\ load.imm = store.imm /\ load.rd = store.rs2
    IN /\ \A funct3 \in {2, 3} : Meet(Record32(funct3), Record32(6))
       /\ \A funct3 \in {1, 3} : Meet(Record64(funct3), Record64(7))
       /\ Meet(Record64(2), Record64(6))

\* decode.c:467 says of the expansion of C.FSW "fsw frs2, imm(rs1)", and 447
\* of that of C.FSD "fsd rs2, imm(rs1)": the first has the offset that C.SW has
\* with the same bits, the second decodes to a store of a double.
FloatStoresDecodeBack ==
  (Is({"C"}) /\ Group(0, 7)) =>
    /\ Record32(7).imm = Record32(6).imm
    /\ Record32(5).inst_type = "FSD" /\ Record64(5).inst_type = "FSD"

\* decode.c:500 names C.SRLI to C.AND as the cases of their group, 512 C.OR as
\* one of the last four, 505 "srli rd, rd, shamt" for a shamt of six bits: a
\* word of C.OR is or-ed, and the word of C.SRLI by 32 or more with the same
\* register is a shift on RV64.
MiscAluIsNamed ==
  (Is({"C"}) /\ Group(1, 4) /\ {10, 11, 6} \subseteq source.c /\ {5, 12} \cap source.c = {}) =>
    LET long == (source.c \ {10, 11}) \cup {12}
    IN /\ D32!decode_instruction(word).inst_type = "OR"
       /\ D64!decode_instruction(C64!expand_compressed(long)).inst_type = "SRLI"
=============================================================================
