------------------------------- MODULE Config ------------------------------
(***************************************************************************)
(* The build configuration (cpu.h, Makefile, CMakeLists.txt). XLEN is the  *)
(* width of reg_t. A byte has BYTE bits, 8 in the program; a smaller BYTE  *)
(* scales uint32_t (WORD bits) and uint64_t with it, so that arithmetic    *)
(* can be checked on every pair of operands.                               *)
(***************************************************************************)
EXTENDS Words

CONSTANTS XLEN, BYTE
WORD == 4 * BYTE
ASSUME WidthAssumption == BYTE \in Nat \ {0} /\ XLEN \in {WORD, 2 * WORD}
RV64 == XLEN > WORD
=============================================================================
