----------------------------- MODULE Compressed ----------------------------
(***************************************************************************)
(* expand_compressed: from a 16-bit word (a set of positions in 0..15) to  *)
(* the 32-bit word that is decoded and executed in its place. The empty    *)
(* word is the code's 0: "invalid", and cpu_execute then does nothing but  *)
(* advance pc by 2.                                                        *)
(***************************************************************************)
EXTENDS Config, Formats

Zero == {}
Ra == {0}
Sp == {1}
\* The three-bit register fields: x8 .. x15.
RegLow(c)  == Slice(c, 2, 4, 0) \cup {3}
RegHigh(c) == Slice(c, 7, 9, 0) \cup {3}
Rd(c)  == Slice(c, 7, 11, 0)
Rs2(c) == Slice(c, 2, 6, 0)
Sign(c, from) == IF 12 \in c THEN from..31 ELSE {}

\* The immediates, field by field as the code extracts them.
WordImm(c)   == Slice(c, 5, 5, 2) \cup Slice(c, 12, 12, 6) \cup Slice(c, 9, 11, 3)
DoubleImm(c) == Slice(c, 10, 12, 3) \cup Slice(c, 5, 6, 6)
Addi4Imm(c)  == Slice(c, 11, 12, 4) \cup Slice(c, 7, 10, 6) \cup Slice(c, 6, 6, 2)
                  \cup Slice(c, 5, 5, 3)
Imm6(c)      == Slice(c, 2, 6, 0) \cup Sign(c, 5)
ShamtImm(c)  == Slice(c, 2, 6, 0) \cup Slice(c, 12, 12, 5)
SpImm(c)     == Slice(c, 6, 6, 4) \cup Slice(c, 5, 5, 6) \cup Slice(c, 3, 4, 7)
                  \cup Slice(c, 2, 2, 5) \cup Sign(c, 9)
JImm(c)      == Slice(c, 8, 8, 10) \cup Slice(c, 9, 10, 8) \cup Slice(c, 6, 6, 7)
                  \cup Slice(c, 7, 7, 6) \cup Slice(c, 2, 2, 5) \cup Slice(c, 11, 11, 4)
                  \cup Slice(c, 3, 5, 1) \cup Sign(c, 11)
\* Mutant: the sign starts a bit too high.
BImmSignAt9(c) == Slice(c, 10, 11, 3) \cup Slice(c, 5, 6, 6) \cup Slice(c, 3, 4, 1)
                    \cup Slice(c, 2, 2, 5) \cup Sign(c, 9)
BImm(c)      == Slice(c, 10, 11, 3) \cup Slice(c, 5, 6, 6) \cup Slice(c, 3, 4, 1)
                  \cup Slice(c, 2, 2, 5) \cup Sign(c, 8)
LwspImm(c)   == Slice(c, 4, 6, 2) \cup Slice(c, 12, 12, 5) \cup Slice(c, 8, 9, 6)
FldspImm(c)  == Slice(c, 4, 6, 2) \cup Slice(c, 12, 12, 5) \cup Slice(c, 3, 5, 6)
SwspImm(c)   == Slice(c, 9, 12, 2) \cup Slice(c, 7, 8, 6)
FsdspImm(c)  == Slice(c, 10, 12, 3) \cup Slice(c, 7, 9, 6)

Quadrant0(c, funct3) ==
  LET load(op, imm, f3)  == encode_i(op, RegLow(c), RegHigh(c), imm, f3)
      store(op, imm, f3) == encode_s(op, RegHigh(c), RegLow(c), imm, f3)
  IN CASE funct3 = 0 ->
            IF Addi4Imm(c) = {} THEN {} ELSE encode_i(19, RegLow(c), Sp, Addi4Imm(c), 0)
       [] funct3 = 1 -> load(7, DoubleImm(c), 3)
       [] funct3 = 2 -> load(3, WordImm(c), 2)
       [] funct3 = 3 -> IF RV64 THEN load(3, DoubleImm(c), 3) ELSE load(7, WordImm(c), 2)
       [] funct3 = 5 -> store(39, DoubleImm(c), 3)
       [] funct3 = 6 -> store(35, WordImm(c), 2)
       [] funct3 = 7 -> IF RV64 THEN store(35, DoubleImm(c), 3) ELSE store(39, WordImm(c), 2)
       [] OTHER -> {}

\* C.SRLI .. C.AND. When bits 11:10 are 11, funct6 (bits 15:10) is 0x23 or
\* 0x27, so the branches that return or and and are never taken.
MiscAlu(c) ==
  LET rd == RegHigh(c)
      r(f3, f7) == encode_r(51, rd, rd, RegLow(c), f3, f7)
      funct6 == Field(c, 10, 15)
  IN CASE Field(c, 10, 11) = 0 -> encode_i(19, rd, rd, ShamtImm(c), 5)
       [] Field(c, 10, 11) = 1 -> encode_i(19, rd, rd, ShamtImm(c), 5) \cup At(Num(32), 25)
       [] Field(c, 10, 11) = 2 -> encode_i(19, rd, rd, Imm6(c), 7)
       [] funct6 = 35 -> r(0, 32)
       [] funct6 = 39 -> r(4, 0)
       [] funct6 = 43 -> r(6, 0)
       [] funct6 = 47 -> r(7, 0)

Quadrant1(c, funct3) ==
  CASE funct3 = 0 -> encode_i(19, Rd(c), Rd(c), Imm6(c), 0)
    [] funct3 = 1 -> encode_j(111, Ra, JImm(c))
    [] funct3 = 2 -> encode_i(19, Rd(c), Zero, Imm6(c), 0)
    [] funct3 = 3 -> IF Rd(c) = Sp THEN encode_i(19, Sp, Sp, SpImm(c), 0)
                                   ELSE encode_u(55, Rd(c), At(Imm6(c), 12))
    [] funct3 = 4 -> MiscAlu(c)
    [] funct3 = 5 -> encode_j(111, Zero, JImm(c))
    [] funct3 = 6 -> encode_b(99, RegHigh(c), Zero, BImm(c), 0)
    [] funct3 = 7 -> encode_b(99, RegHigh(c), Zero, BImm(c), 1)

\* Mutant: the jumps are not told apart, both link.
JumpOrAddLinking(c) ==
  CASE Rs2(c) # {} -> encode_r(51, Rd(c), IF 12 \in c THEN Rd(c) ELSE Zero, Rs2(c), 0, 0)
    [] Rs2(c) = {} /\ 12 \in c /\ Rd(c) = {} -> Num(1048691)
    [] OTHER -> encode_i(103, Ra, Rd(c), {}, 0)
\* C.JR, C.MV, C.EBREAK, C.JALR, C.ADD
JumpOrAdd(c) ==
  LET link == 12 \in c
  IN CASE Rs2(c) # {} -> encode_r(51, Rd(c), IF link THEN Rd(c) ELSE Zero, Rs2(c), 0, 0)
       [] Rs2(c) = {} /\ link /\ Rd(c) = {} -> Num(1048691)
       [] OTHER -> encode_i(103, IF link THEN Ra ELSE Zero, Rd(c), {}, 0)

Quadrant2(c, funct3) ==
  CASE funct3 = 0 -> IF Rd(c) = {} THEN {} ELSE encode_i(19, Rd(c), Rd(c), ShamtImm(c), 1)
    [] funct3 = 1 -> encode_i(7, Rd(c), Sp, FldspImm(c), 3)
    [] funct3 = 2 -> IF Rd(c) = {} THEN {} ELSE encode_i(3, Rd(c), Sp, LwspImm(c), 2)
    [] funct3 = 3 -> encode_i(7, Rd(c), Sp, LwspImm(c), 2)
    [] funct3 = 4 -> JumpOrAdd(c)
    [] funct3 = 5 -> encode_s(39, Sp, Rs2(c), FsdspImm(c), 3)
    [] funct3 = 6 -> encode_s(35, Sp, Rs2(c), SwspImm(c), 2)
    [] funct3 = 7 -> encode_s(39, Sp, Rs2(c), SwspImm(c), 2)

expand_compressed(c) ==
  LET quadrant == Field(c, 0, 1)
      funct3 == Field(c, 13, 15)
  IN CASE quadrant = 0 -> Quadrant0(c, funct3)
       [] quadrant = 1 -> Quadrant1(c, funct3)
       [] quadrant = 2 -> Quadrant2(c, funct3)
=============================================================================
