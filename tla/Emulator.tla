------------------------------ MODULE Emulator -----------------------------
(***************************************************************************)
(* main.c: the harness feeds cpu_execute the words of instruction.hex in   *)
(* file order, whatever pc holds, and prints a result after each. The file *)
(* is any sequence of at most MaxLines lines; a line is an instruction or  *)
(* one that is skipped (a comment, an empty line, no hexadecimal number).  *)
(***************************************************************************)
EXTENDS Cpu

CONSTANT MaxLines       \* bound on the length of the file
ASSUME MaxLinesAssumption == MaxLines \in Nat

VARIABLES phase,        \* where main() is
          lines_left,   \* lines the file can still have
          line          \* the instruction being executed or line, {} if none

loop == <<phase, lines_left, line>>
evars == <<vars, loop>>

LoopTypeOK ==
  /\ TypeOK
  /\ phase \in {"start", "reading", "executing", "printing", "done", "failed"}
  /\ lines_left \in 0..MaxLines
  /\ line \in Instructions \cup {{}}

EInit == Init /\ phase = "start" /\ lines_left = MaxLines /\ line = {}

\* fopen succeeds, or main returns 1.
OpenInput ==
  /\ phase = "start"
  /\ phase' \in {"reading", "failed"}
  /\ UNCHANGED <<vars, lines_left, line>>

\* fgets delivers a line that holds no instruction.
SkipLine ==
  /\ phase = "reading" /\ lines_left > 0 /\ ~faulted
  /\ lines_left' = lines_left - 1
  /\ UNCHANGED <<vars, phase, line>>

\* fgets and sscanf deliver an instruction.
GetLine(instruction) ==
  /\ phase = "reading" /\ lines_left > 0 /\ ~faulted
  /\ phase' = "executing" /\ line' = instruction
  /\ lines_left' = lines_left - 1
  /\ UNCHANGED vars

\* cpu_execute, and then print_result, which touches memory only for the
\* STORE opcode.
ExecuteLine ==
  /\ phase = "executing"
  /\ \E instruction \in Instructions : instruction = line /\ cpu_execute(instruction)
  /\ IF Opcode(line) = 35 THEN phase' = "printing" /\ line' = line
                          ELSE phase' = "reading" /\ line' = {}
  /\ UNCHANGED lines_left

\* print_result decodes the store's immediate and works out its address
\* again, on 32 bits, and reads the word there as it is after the store, with
\* memory_read_word's checks.
PrintImm ==
  LET imm11_5 == Slice(line, 25, 31, 0)
  IN ShiftL(WORD, imm11_5, 5) \cup Slice(line, 7, 11, 0) \cup (IF 6 \in imm11_5 THEN 12..31 ELSE {})
PrintAddress ==
  Add(WORD, Trunc(WORD, regs[Field(line, 15, 19)]), PrintImm)
PrintStore ==
  /\ phase = "printing" /\ ~faulted
  /\ faulted' = Wild(PrintAddress, 4)
  /\ phase' = "reading" /\ line' = {}
  /\ UNCHANGED <<cpu, mem, lines_left>>

EndOfFile ==
  /\ phase = "reading" /\ ~faulted
  /\ phase' = "done"
  /\ UNCHANGED <<vars, lines_left, line>>

\* main has returned, or the process has died.
Stopped ==
  /\ phase \in {"done", "failed"} \/ faulted
  /\ UNCHANGED evars

\* What fgets can return.
ReadInput ==
  SkipLine \/ EndOfFile \/ \E instruction \in Instructions : GetLine(instruction)
ENext == OpenInput \/ ReadInput \/ ExecuteLine \/ PrintStore \/ Stopped
ESpec == EInit /\ [][ENext]_evars
\* The one thread of the process is scheduled while it has something to do:
\* whichever of its steps main() is at is taken.
EFairSpec ==
  /\ ESpec
  /\ WF_evars(OpenInput) /\ WF_evars(ReadInput)
  /\ WF_evars(ExecuteLine) /\ WF_evars(PrintStore)

-----------------------------------------------------------------------------
\* If the step executes an instruction of these types, then P.
Executes(types, P(_)) ==
  (phase = "executing" /\ phase' # phase /\ Decoded[line].inst_type \in types)
    => P(Decoded[line])

\* Where a branch is to end, and what it is to leave alone.
Lands(d) ==
  LET goes == taken(d.inst_type, regs[d.rs1], regs[d.rs2])
      lands == IF goes THEN Sub(XLEN, Add(XLEN, pc, SignExt(WORD, XLEN, d.imm)), Num(4 - d.len))
                       ELSE Add(XLEN, pc, Num(d.len))
  IN /\ Trunc(WORD, pc') = Trunc(WORD, lands)
     /\ ~(goes /\ Negative(WORD, d.imm)) => pc' = lands
     /\ regs' = regs
\* A branch ends, after the handler took 4 off and cpu_execute added the
\* length of the word back, at pc + imm when its condition holds and at the
\* next word when not; its operands are unchanged. A taken compressed branch
\* ends 2 bytes before its target. On RV64, where the offset is not
\* sign-extended, this is true of a backward branch up to 4 GiB.
BranchLands == [][Executes(BranchTypes, Lands)]_evars

\* What print_result shows of a store is what the store wrote: when a word
\* lies in memory at the store's own address or at the one main.c works out
\* itself, the low bytes of the word that is printed are those of rs2.
ShownIsStored ==
  LET d == Decoded[line]
      n == IF d.inst_type = "SD" THEN 4 ELSE Size(d.inst_type)
  IN (phase = "printing" /\ ~faulted /\ d.inst_type \in StoreTypes
        /\ (Inside(Effective(d), 4) \/ Inside(PrintAddress, 4)))
       => Trunc(BYTE * n, memory_read(mem, PrintAddress, 4)) = Trunc(BYTE * n, regs[d.rs2])

\* The harness ends on every file: no instruction, not a branch back to
\* itself nor a wait for an interrupt, keeps main from reading the next line.
ReachesTheEnd == <>(phase \in {"done", "failed"} \/ faulted)
=============================================================================
