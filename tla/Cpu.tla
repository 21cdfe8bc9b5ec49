--------------------------------- MODULE Cpu -------------------------------
(***************************************************************************)
(* The hart of cpu.c and jump_table.c: cpu_t, the memory it works on, and  *)
(* one action per handler of instruction_table. An action is the whole of  *)
(* cpu_execute for one instruction word: expansion, decoding, dispatch,    *)
(* the handler, and the addition of 2 or 4 to pc that follows every        *)
(* handler, jumps and traps included.                                      *)
(***************************************************************************)
EXTENDS Float, Compressed, Decode, Memory

CONSTANTS NUM_REGISTERS,   \* 32 in the program
          Csrs,            \* the CSR numbers the instructions use, of 0..4095
          Instructions     \* the words the instruction file may hold

CSR_SSTATUS == 256   CSR_SEPC == 321   CSR_SCAUSE == 322
CSR_MSTATUS == 768   CSR_MTVEC == 773  CSR_MEPC == 833   CSR_MCAUSE == 834

ASSUME RegistersAssumption == NUM_REGISTERS \in Nat /\ NUM_REGISTERS >= 32
ASSUME CsrsAssumption ==
  {CSR_SSTATUS, CSR_SEPC, CSR_SCAUSE, CSR_MSTATUS, CSR_MTVEC, CSR_MEPC, CSR_MCAUSE}
    \subseteq Csrs
ASSUME InstructionsAssumption == Instructions \subseteq Words(32)

USER_MODE == 0
SUPERVISOR_MODE == 1
MACHINE_MODE == 3

VARIABLES regs, fregs, dfregs, pc, csrs, privilege, reserved_address, reservation_set,
          mem,
          faulted     \* the process died of a memory access outside mem

reservation == <<reserved_address, reservation_set>>
system == <<csrs, privilege>>
floats == <<fregs, dfregs>>   \* two register files: a float register is not the half of a double one
cpu == <<regs, fregs, dfregs, pc, csrs, privilege, reserved_address, reservation_set>>
vars == <<cpu, mem, faulted>>

Registers == 0..(NUM_REGISTERS - 1)
TypeOK ==
  /\ regs \in [Registers -> Words(XLEN)]
  /\ fregs \in [Registers -> Words(WORD)]
  /\ dfregs \in [Registers -> Words(2 * WORD)]
  /\ pc \in Words(XLEN)
  /\ csrs \in [Csrs -> Words(WORD)]
  /\ privilege \in 0..3
  /\ reserved_address \in Words(XLEN)
  /\ reservation_set \in BOOLEAN
  /\ mem \in [Addresses -> Byte]
  /\ faulted \in BOOLEAN

\* cpu_init and memory_init
Init ==
  /\ regs = [r \in Registers |-> {}]
  /\ fregs = [r \in Registers |-> {}]
  /\ dfregs = [r \in Registers |-> {}]
  /\ pc = {}
  /\ csrs = [c \in Csrs |-> {}]
  /\ privilege = MACHINE_MODE
  /\ reserved_address = {}
  /\ reservation_set = FALSE
  /\ mem = memory_init
  /\ faulted = FALSE

-----------------------------------------------------------------------------
(* cpu_execute up to the dispatch *)

IsCompressed(instruction) == ~({0, 1} \subseteq instruction)
Increment(instruction) == IF IsCompressed(instruction) THEN 2 ELSE 4

Expanded(instruction) ==
  IF IsCompressed(instruction) THEN expand_compressed(Trunc(16, instruction)) ELSE instruction
\* What reaches cpu_execute_decoded: a decoded word with the increment its
\* caller adds, and "NONE" when a compressed word has no expansion.
Dispatched(word, d, len) ==
  [inst_type |-> IF word = {} THEN "NONE" ELSE d.inst_type,
   imm |-> Trunc(WORD, d.imm), rd |-> d.rd, rs1 |-> d.rs1, rs2 |-> d.rs2,
   rs3 |-> d.rs3, wide |-> d.wide, len |-> len]
Fetched(instruction) ==
  LET Dispatch(word) == Dispatched(word, decode_instruction(word), Increment(instruction))
  IN Dispatch(Expanded(instruction))
Decoded == [i \in Instructions |-> Fetched(i)]

\* init_jump_table: the types each handler is entered for.
AluRegTypes ==
  {"ADD", "SUB", "SLL", "SLT", "SLTU", "XOR", "SRL", "SRA", "OR", "AND", "MUL", "MULH",
   "MULHSU", "MULHU", "DIV", "DIVU", "REM", "REMU"}
    \cup IF RV64 THEN {"MULW", "DIVW", "DIVUW", "REMW", "REMUW"} ELSE {}
AluImmTypes ==
  {"ADDI", "SLTI", "SLTIU", "XORI", "ORI", "ANDI", "SLLI", "SRLI", "SRAI"}
LoadTypes == {"LB", "LH", "LW", "LBU", "LHU"} \cup IF RV64 THEN {"LWU", "LD"} ELSE {}
StoreTypes == {"SB", "SH", "SW"} \cup IF RV64 THEN {"SD"} ELSE {}
BranchTypes == {"BEQ", "BNE", "BLT", "BGE", "BLTU", "BGEU"}
JumpTypes == {"JAL", "JALR"}
UpperTypes == {"LUI", "AUIPC"}
TrapTypes == {"ECALL", "EBREAK", "URET"}
ReturnTypes == {"MRET", "SRET"}
CsrTypes == {"CSRRW", "CSRRS", "CSRRC", "CSRRWI", "CSRRSI", "CSRRCI"}
FenceTypes == {"FENCE", "FENCE_I", "SFENCE_VMA", "WFI"}
SystemTypes == TrapTypes \cup ReturnTypes \cup CsrTypes \cup FenceTypes
AmoTypes ==
  {"AMOSWAP", "AMOADD", "AMOXOR", "AMOAND", "AMOOR", "AMOMIN", "AMOMAX", "AMOMINU", "AMOMAXU"}
\* What a floating-point case writes: one of its registers, or one of regs.
ToFloatTypes ==
  {"FADD", "FSUB", "FMUL", "FDIV", "FSQRT", "FMIN", "FMAX", "FSGNJ", "FSGNJN", "FSGNJX",
   "FMADD", "FMSUB", "FNMSUB", "FNMADD"}
ToRegisterTypes == {"FEQ", "FLT", "FLE", "FCLASS", "FCVT_W", "FCVT_WU"}
FromRegisterTypes == {"FCVT_F_W", "FCVT_F_WU"}
BothWidths == ToFloatTypes \cup ToRegisterTypes \cup FromRegisterTypes
FloatSingleTypes == BothWidths \cup {"FMV_X_W", "FMV_W_X"}
FloatDoubleTypes == BothWidths \cup {"FCVT_S_D", "FCVT_D_S"}
FloatMemTypes == {"FLW", "FSW", "FLD"}
Rv64Types ==
  IF RV64 THEN {"ADDIW", "SLLIW", "SRLIW", "SRAIW", "ADDW", "SUBW", "SLLW", "SRLW", "SRAW"}
          ELSE {}

\* csrs has an entry for every CSR that is named.
ASSUME NamedCsrsAssumption ==
  \A i \in Instructions : Fetched(i).inst_type \in CsrTypes => Val(Fetched(i).imm) \in Csrs

-----------------------------------------------------------------------------
(* What the handlers share *)

\* Mutant: without the guard.
SetAnyReg(rd, value) == regs' = [regs EXCEPT ![rd] = Trunc(XLEN, value)]
\* cpu->regs[rd] = value, under the handlers' guard that x0 stays 0.
SetReg(rd, value) ==
  regs' = IF rd = 0 THEN regs ELSE [regs EXCEPT ![rd] = Trunc(XLEN, value)]
\* Control leaves the handler with pc = target; cpu_execute adds 2 or 4.
Leave(d, target) == pc' = Add(XLEN, target, Num(d.len))
\* cpu->regs[rs1] + (sreg_t)imm
Effective(d) == Add(XLEN, regs[d.rs1], d.imm)

Size(type) == CASE type \in {"LB", "LBU", "SB"} -> 1
                [] type \in {"LH", "LHU", "SH"} -> 2
                [] OTHER -> 4
\* Mutant: a doubleword atomic accesses a word.
AmoSizeWord(d) == 4
\* LD, SD and FLD are two word accesses; every other access is one of memory.c's.
PairTypes == {"LD", "SD", "FLD"}
Halves(address) == {<<address, 4>>, <<Add(XLEN, address, Num(4)), 4>>}
AmoSize(d) == IF d.wide THEN 8 ELSE 4

\* Mutants: the address, or the flag, is not compared.
ScWithFlag(d) == reservation_set
ScWithAddress(d) == reserved_address = regs[d.rs1]
ScSucceeds(d) == reservation_set /\ reserved_address = regs[d.rs1]

\* The memory accesses the handler of d makes in the current state.
Accesses(d) ==
  CASE d.inst_type \in LoadTypes \cup StoreTypes ->
         IF d.inst_type \in LoadTypes /\ d.rd = 0 THEN {}
         ELSE IF d.inst_type \in {"LD", "SD"} THEN Halves(Effective(d))
         ELSE {<<Effective(d), Size(d.inst_type)>>}
    [] d.inst_type = "LR" /\ d.rd # 0 -> {<<regs[d.rs1], AmoSize(d)>>}
    [] d.inst_type = "SC" /\ d.rd # 0 ->
         IF ScSucceeds(d) THEN {<<regs[d.rs1], AmoSize(d)>>} ELSE {}
    [] d.inst_type \in AmoTypes -> {<<regs[d.rs1], AmoSize(d)>>}
    [] d.inst_type = "FSW" \/ (d.inst_type = "FLW" /\ d.rd # 0) -> {<<Effective(d), 4>>}
    [] d.inst_type = "FLD" /\ d.rd # 0 -> Halves(Effective(d))
    [] OTHER -> {}
Faults(d) == \E access \in Accesses(d) : Wild(access[1], access[2])

-----------------------------------------------------------------------------
(* The handlers *)

\* instruction_table[d.inst_type] is the handler of these types.
Enters(d, types) == ~faulted /\ d.inst_type \in types

exec_alu_reg(d) ==
  /\ Enters(d, AluRegTypes)
  /\ \E value \in alu_reg(d.inst_type, regs[d.rs1], regs[d.rs2]) : SetReg(d.rd, value)
  /\ Leave(d, pc)
  /\ UNCHANGED <<floats, system, reservation, mem, faulted>>

exec_alu_imm(d) ==
  /\ Enters(d, AluImmTypes)
  /\ SetReg(d.rd, alu_imm(d.inst_type, regs[d.rs1], d.imm))
  /\ Leave(d, pc)
  /\ UNCHANGED <<floats, system, reservation, mem, faulted>>

exec_rv64(d) ==
  /\ Enters(d, Rv64Types)
  /\ SetReg(d.rd, rv64_word(d.inst_type, regs[d.rs1], regs[d.rs2], d.imm))
  /\ Leave(d, pc)
  /\ UNCHANGED <<floats, system, reservation, mem, faulted>>

\* Mutant: the sign of LB and LH is not extended.
LoadedUnsigned(type, address) == memory_read(mem, address, Size(type))
\* The value a load puts in rd.
Loaded(type, address) ==
  LET n == Size(type)
      value == memory_read(mem, address, n)
  IN CASE type \in {"LBU", "LHU", "LWU"} -> value
       [] type = "LD" -> value \cup ShiftL(XLEN, memory_read(mem, Add(XLEN, address, Num(4)), 4), WORD)
       [] OTHER -> SignExt(n * BYTE, XLEN, value)

exec_load(d) ==
  /\ Enters(d, LoadTypes)
  /\ ~Faults(d)
  /\ SetReg(d.rd, Loaded(d.inst_type, Effective(d)))
  /\ Leave(d, pc)
  /\ UNCHANGED <<floats, system, reservation, mem, faulted>>

\* Mutant: the halves of SD are exchanged.
StoredSwapped(type, address, value) ==
  LET low == memory_write(mem, address, Size(type),
                          IF type = "SD" THEN ShiftR(XLEN, value, WORD) ELSE value)
  IN IF type # "SD" THEN low ELSE memory_write(low, Add(XLEN, address, Num(4)), 4, value)
\* SD writes its halves one after the other, each with its own check.
Stored(type, address, value) ==
  LET low == memory_write(mem, address, Size(type), value)
  IN IF type # "SD" THEN low
     ELSE memory_write(low, Add(XLEN, address, Num(4)), 4, ShiftR(XLEN, value, WORD))

exec_store(d) ==
  /\ Enters(d, StoreTypes)
  /\ ~Faults(d)
  /\ mem' = Stored(d.inst_type, Effective(d), regs[d.rs2])
  /\ Leave(d, pc)
  /\ UNCHANGED <<regs, floats, system, reservation, faulted>>

\* Mutant: the handler forgets that its caller adds 4.
BranchTargetPlain(d) == Add(XLEN, pc, d.imm)
\* pc += (sreg_t)imm - 4: the handler takes back the 4 its caller will add.
BranchTarget(d) == Sub(XLEN, Add(XLEN, pc, d.imm), Num(4))
exec_branch(d) ==
  /\ Enters(d, BranchTypes)
  /\ Leave(d, IF taken(d.inst_type, regs[d.rs1], regs[d.rs2]) THEN BranchTarget(d) ELSE pc)
  /\ UNCHANGED <<regs, floats, system, reservation, mem, faulted>>

\* Mutant: JALR keeps bit 0.
JumpTargetUnmasked(d) == Add(XLEN, IF d.inst_type = "JAL" THEN pc ELSE regs'[d.rs1], d.imm)
\* rd is written before JALR reads rs1, so JALR sees its own link if they
\* are the same register.
JumpTarget(d) ==
  IF d.inst_type = "JAL" THEN Add(XLEN, pc, d.imm)
  ELSE Add(XLEN, regs'[d.rs1], d.imm) \ {0}
exec_jump(d) ==
  /\ Enters(d, JumpTypes)
  /\ SetReg(d.rd, Add(XLEN, pc, Num(4)))
  /\ Leave(d, JumpTarget(d))
  /\ UNCHANGED <<floats, system, reservation, mem, faulted>>

exec_upper(d) ==
  /\ Enters(d, UpperTypes)
  /\ SetReg(d.rd, IF d.inst_type = "LUI" THEN d.imm ELSE Add(XLEN, pc, d.imm))
  /\ Leave(d, pc)
  /\ UNCHANGED <<floats, system, reservation, mem, faulted>>

(* exec_system, in four groups of its cases *)

\* ECALL, EBREAK and URET. An ECALL from S-mode saves to sepc and scause;
\* all of them enter M-mode at mtvec. The old privilege is not saved.
Cause(type) == CASE type = "URET"   -> 2
                 [] type = "EBREAK" -> 3
                 [] type = "ECALL"  ->
                      IF privilege \in {USER_MODE, SUPERVISOR_MODE} THEN 8 ELSE 11
\* Mutant: EBREAK and URET are saved like ECALL.
SavesToSupervisorAlways(d) == privilege = SUPERVISOR_MODE
SavesToSupervisor(d) == d.inst_type = "ECALL" /\ privilege = SUPERVISOR_MODE
exec_trap(d) ==
  LET epc   == IF SavesToSupervisor(d) THEN CSR_SEPC ELSE CSR_MEPC
      cause == IF SavesToSupervisor(d) THEN CSR_SCAUSE ELSE CSR_MCAUSE
  IN /\ Enters(d, TrapTypes)
     /\ csrs' = [csrs EXCEPT ![epc] = Trunc(WORD, pc), ![cause] = Trunc(WORD, Num(Cause(d.inst_type)))]
     /\ privilege' = MACHINE_MODE
     /\ Leave(d, csrs[CSR_MTVEC])
     /\ UNCHANGED <<regs, floats, reservation, mem, faulted>>

\* MRET and SRET: mstatus keeps MPIE, MIE and MPP at bits 7, 3 and 12:11,
\* sstatus SPIE, SIE and SPP at bits 5, 1 and 8. The previous-enable bit is
\* or-ed into the enable bit.
\* Mutant: the previous mode is not cleared.
ReturnedKeepsMode(status, pie, ie, pp) ==
  Trunc(WORD, (status \ {pie}) \cup (IF pie \in status THEN {ie} ELSE {}) \cup {pie})
\* Mutant: the enable bit is cleared before it is set.
ReturnedClearing(status, pie, ie, pp) ==
  Trunc(WORD, ((status \ {pie, ie}) \cup (IF pie \in status THEN {ie} ELSE {}) \cup {pie}) \ pp)
Returned(status, pie, ie, pp) ==
  Trunc(WORD, ((status \ {pie}) \cup (IF pie \in status THEN {ie} ELSE {}) \cup {pie}) \ pp)
BitOf(status, i) == IF i \in status THEN 1 ELSE 0
\* Mutant: MPP is masked with 7 instead of 3.
PreviousModeWide(m, status) ==
  IF m THEN BitOf(status, 11) + 2 * BitOf(status, 12) + 4 * BitOf(status, 13)
       ELSE BitOf(status, 8)
PreviousMode(m, status) ==
  IF m THEN BitOf(status, 11) + 2 * BitOf(status, 12) ELSE BitOf(status, 8)
exec_return(d) ==
  LET m      == d.inst_type = "MRET"
      status == IF m THEN CSR_MSTATUS ELSE CSR_SSTATUS
      old    == csrs[status]
  IN /\ Enters(d, ReturnTypes)
     /\ Leave(d, csrs[IF m THEN CSR_MEPC ELSE CSR_SEPC])
     /\ privilege' = PreviousMode(m, old)
     /\ csrs' = [csrs EXCEPT ![status] =
                   IF m THEN Returned(old, 7, 3, {11, 12}) ELSE Returned(old, 5, 1, {8})]
     /\ UNCHANGED <<regs, floats, reservation, mem, faulted>>

\* The CSR instructions. rd is written before rs1 is read: with rd = rs1 the
\* register forms combine the CSR with its own old value.
Combined(type, old, source) ==
  CASE type \in {"CSRRW", "CSRRWI"} -> source
    [] type \in {"CSRRS", "CSRRSI"} -> old \cup source
    [] type \in {"CSRRC", "CSRRCI"} -> old \ source
CsrSource(d) ==
  IF d.inst_type \in {"CSRRW", "CSRRS", "CSRRC"} THEN regs'[d.rs1] ELSE Num(d.rs1)
\* Mutant: the CSR is written first, so rd gets its new value.
exec_csr_writing_first(d) ==
  LET csr == Val(d.imm)
      source == IF d.inst_type \in {"CSRRW", "CSRRS", "CSRRC"} THEN regs[d.rs1] ELSE Num(d.rs1)
  IN /\ Enters(d, CsrTypes)
     /\ csrs' = [csrs EXCEPT ![csr] = Trunc(WORD, Combined(d.inst_type, @, source))]
     /\ SetReg(d.rd, csrs'[csr])
     /\ Leave(d, pc)
     /\ UNCHANGED <<floats, privilege, reservation, mem, faulted>>
exec_csr(d) ==
  LET csr == Val(d.imm)
  IN /\ Enters(d, CsrTypes)
     /\ SetReg(d.rd, csrs[csr])
     /\ csrs' = [csrs EXCEPT ![csr] = Trunc(WORD, Combined(d.inst_type, @, CsrSource(d)))]
     /\ Leave(d, pc)
     /\ UNCHANGED <<floats, privilege, reservation, mem, faulted>>

\* Mutant: WFI waits, for an interrupt that never comes.
exec_fence_waiting(d) ==
  /\ Enters(d, FenceTypes \ {"WFI"})
  /\ Leave(d, pc)
  /\ UNCHANGED <<regs, floats, system, reservation, mem, faulted>>
exec_fence(d) ==
  /\ Enters(d, FenceTypes)
  /\ Leave(d, pc)
  /\ UNCHANGED <<regs, floats, system, reservation, mem, faulted>>

-----------------------------------------------------------------------------
(* exec_atomic. LR and SC do nothing at all when rd is x0. *)

\* What an n-byte atomic returns: a word is sign-extended.
AtomicResult(d, value) == IF d.wide THEN value ELSE SignExt(WORD, XLEN, value)

load_reserved(d) ==
  /\ Enters(d, {"LR"})
  /\ ~Faults(d)
  /\ SetReg(d.rd, AtomicResult(d, memory_read(mem, regs[d.rs1], AmoSize(d))))
  /\ IF d.rd = 0 THEN UNCHANGED reservation
     ELSE reserved_address' = regs[d.rs1] /\ reservation_set' = TRUE
  /\ Leave(d, pc)
  /\ UNCHANGED <<floats, system, mem, faulted>>

\* SC reports 0 for success, 1 for failure, and ends the reservation.
store_conditional(d) ==
  /\ Enters(d, {"SC"})
  /\ ~Faults(d)
  /\ SetReg(d.rd, Flag(~ScSucceeds(d)))
  /\ mem' = IF d.rd # 0 /\ ScSucceeds(d)
            THEN memory_write(mem, regs[d.rs1], AmoSize(d), regs[d.rs2]) ELSE mem
  /\ reservation_set' = (reservation_set /\ d.rd = 0)
  /\ Leave(d, pc)
  /\ UNCHANGED <<floats, system, reserved_address, faulted>>

exec_amo(d) ==
  LET address == regs[d.rs1]
      n    == AmoSize(d)
      temp == memory_read(mem, address, n)
  IN /\ Enters(d, AmoTypes)
     /\ ~Faults(d)
     /\ mem' = memory_write(mem, address, n, amo(d.inst_type, n * BYTE, temp, regs[d.rs2]))
     /\ SetReg(d.rd, AtomicResult(d, temp))
     /\ Leave(d, pc)
     /\ UNCHANGED <<floats, system, reservation, faulted>>

-----------------------------------------------------------------------------
(* The floating-point handlers. f0 is a register like the others, except    *)
(* that FLW and FLD test rd as if it were x0.                               *)

\* cpu->fregs[rd] = value and cpu->dfregs[rd] = value
SetFreg(rd, value)  == fregs' = [fregs EXCEPT ![rd] = Trunc(WORD, value)]
SetDfreg(rd, value) == dfregs' = [dfregs EXCEPT ![rd] = Trunc(2 * WORD, value)]
\* What a case of either handler can leave in regs[rd] or in its own rd.
ToRegister(f, file, d) == integer_results(f, d.inst_type, file[d.rs1], file[d.rs2])
ToFloat(f, file, d) ==
  IF d.inst_type \in FromRegisterTypes
  THEN {from_register(f, d.inst_type, regs[d.rs1])}
  ELSE float_results(f, d.inst_type, file[d.rs1], file[d.rs2], file[d.rs3])

exec_float_single(d) ==
  /\ Enters(d, FloatSingleTypes) /\ ~d.wide
  /\ \/ /\ d.inst_type \in ToRegisterTypes
        /\ \E value \in ToRegister(Single, fregs, d) : SetReg(d.rd, value)
        /\ UNCHANGED fregs
     \/ d.inst_type = "FMV_X_W" /\ SetReg(d.rd, Signed32(fregs[d.rs1])) /\ UNCHANGED fregs
     \/ /\ d.inst_type \in ToFloatTypes \cup FromRegisterTypes
        /\ \E value \in ToFloat(Single, fregs, d) : SetFreg(d.rd, value)
        /\ UNCHANGED regs
     \/ d.inst_type = "FMV_W_X" /\ SetFreg(d.rd, regs[d.rs1]) /\ UNCHANGED regs
  /\ Leave(d, pc)
  /\ UNCHANGED <<dfregs, system, reservation, mem, faulted>>

exec_float_double(d) ==
  /\ Enters(d, FloatDoubleTypes) /\ (d.wide \/ d.inst_type = "FCVT_S_D")
  /\ \/ /\ d.inst_type \in ToRegisterTypes
        /\ \E value \in ToRegister(Double, dfregs, d) : SetReg(d.rd, value)
        /\ UNCHANGED floats
     \/ /\ d.inst_type \in ToFloatTypes \cup FromRegisterTypes
        /\ \E value \in ToFloat(Double, dfregs, d) : SetDfreg(d.rd, value)
        /\ UNCHANGED <<regs, fregs>>
     \/ /\ d.inst_type = "FCVT_D_S"
        /\ SetDfreg(d.rd, Converted(Single, Double, fregs[d.rs1]))
        /\ UNCHANGED <<regs, fregs>>
     \/ /\ d.inst_type = "FCVT_S_D"
        /\ SetFreg(d.rd, Converted(Double, Single, dfregs[d.rs1]))
        /\ UNCHANGED <<regs, dfregs>>
  /\ Leave(d, pc)
  /\ UNCHANGED <<system, reservation, mem, faulted>>

\* Mutant: the upper half is read first.
DoubleSwapped(address) ==
  memory_read(mem, Add(XLEN, address, Num(4)), 4)
    \cup ShiftL(2 * WORD, memory_read(mem, address, 4), WORD)
DoubleAt(address) ==
  memory_read(mem, address, 4)
    \cup ShiftL(2 * WORD, memory_read(mem, Add(XLEN, address, Num(4)), 4), WORD)
exec_float_mem(d) ==
  /\ Enters(d, FloatMemTypes)
  /\ ~Faults(d)
  /\ \/ d.inst_type = "FSW" /\ mem' = memory_write(mem, Effective(d), 4, fregs[d.rs2])
        /\ UNCHANGED floats
     \/ d.inst_type = "FLW" /\ d.rd # 0 /\ SetFreg(d.rd, memory_read(mem, Effective(d), 4))
        /\ UNCHANGED <<dfregs, mem>>
     \/ d.inst_type = "FLD" /\ d.rd # 0 /\ SetDfreg(d.rd, DoubleAt(Effective(d)))
        /\ UNCHANGED <<fregs, mem>>
     \/ d.inst_type \in {"FLW", "FLD"} /\ d.rd = 0 /\ UNCHANGED <<floats, mem>>
  /\ Leave(d, pc)
  /\ UNCHANGED <<regs, system, reservation, faulted>>

-----------------------------------------------------------------------------
\* A memory access that passes the bounds check outside mem ends the process.
wild_access(d) ==
  /\ Enters(d, LoadTypes \cup StoreTypes \cup FloatMemTypes \cup {"LR", "SC"} \cup AmoTypes)
  /\ Faults(d)
  /\ faulted' = TRUE
  /\ UNCHANGED <<cpu, mem>>

\* exec_unknown only prints; a word without expansion has no handler.
exec_unknown(d) ==
  /\ Enters(d, {"UNKNOWN", "NONE"})
  /\ Leave(d, pc)
  /\ UNCHANGED <<regs, floats, system, reservation, mem, faulted>>

\* cpu_execute for one word.
cpu_execute(instruction) ==
  \E d \in {Decoded[instruction]} :
     \/ exec_alu_reg(d) \/ exec_alu_imm(d) \/ exec_rv64(d) \/ exec_load(d) \/ exec_store(d)
     \/ exec_branch(d) \/ exec_jump(d) \/ exec_upper(d)
     \/ exec_trap(d) \/ exec_return(d) \/ exec_csr(d) \/ exec_fence(d)
     \/ load_reserved(d) \/ store_conditional(d) \/ exec_amo(d)
     \/ exec_float_single(d) \/ exec_float_double(d) \/ exec_float_mem(d)
     \/ wild_access(d) \/ exec_unknown(d)

Next == \E instruction \in Instructions : cpu_execute(instruction)
Spec == Init /\ [][Next]_vars

-----------------------------------------------------------------------------
(* Properties *)

\* x0 reads as zero after any program: every handler leaves it alone.
ZeroRegister == regs[0] = {}

Even(word) == 0 \notin word
\* pc never becomes odd, unless software puts an odd address in mtvec, mepc
\* or sepc: JALR clears bit 0, offsets are even and the increments keep it.
PcStaysEven ==
  [][(Even(pc) /\ \A c \in {CSR_MTVEC, CSR_MEPC, CSR_SEPC} : Even(csrs[c])) => Even(pc')]_vars
=============================================================================
