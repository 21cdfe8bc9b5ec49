----------------------------- MODULE TrapsProofs ----------------------------
(***************************************************************************)
(* Theorems about traps, returns and CSR instructions, for every set of    *)
(* instructions and length of the file. The history variables of MCTraps   *)
(* are related to the CSRs by two inductive invariants.                    *)
(***************************************************************************)
EXTENDS MCTraps, EmulatorProofs

\* The history variables only watch: without them a step is one of main().
LEMMA TNextIsENext == [TNext]_tvars => [ENext]_evars
  BY DEF TNext, tvars, ENext

\* What holds of the program holds of it with the history variables.
LEMMA TracedKeeps == TSpec => [](HartOK /\ LoopOK)
<1>1. TInit => HartOK /\ LoopOK
  BY EInitOK DEF TInit
<1> QED BY <1>1, TNextIsENext, ENextKeeps, PTL DEF TSpec

-----------------------------------------------------------------------------
(* What one instruction does to the CSRs *)

\* Only traps, returns and CSR instructions write CSRs.
LEMMA CsrsChange ==
  ASSUME NEW i \in Instructions, cpu_execute(i), NEW d, d = Decoded[i]
  PROVE  \/ exec_trap(d) /\ d.inst_type \in TrapTypes
         \/ exec_return(d) /\ d.inst_type \in ReturnTypes
         \/ exec_csr(d) /\ d.inst_type \in CsrTypes
         \/ csrs' = csrs /\ d.inst_type \notin TrapTypes \cup ReturnTypes \cup CsrTypes
<1>1. \/ exec_alu_reg(d) \/ exec_alu_imm(d) \/ exec_rv64(d) \/ exec_load(d) \/ exec_store(d)
      \/ exec_branch(d) \/ exec_jump(d) \/ exec_upper(d)
      \/ exec_trap(d) \/ exec_return(d) \/ exec_csr(d) \/ exec_fence(d)
      \/ load_reserved(d) \/ store_conditional(d) \/ exec_amo(d)
      \/ exec_float_single(d) \/ exec_float_double(d) \/ exec_float_mem(d)
      \/ wild_access(d) \/ exec_unknown(d)
  BY DEF cpu_execute
<1>2. CASE exec_trap(d) \/ exec_return(d) \/ exec_csr(d)
  BY <1>2 DEF exec_trap, exec_return, exec_csr, Enters
<1>3. CASE \/ exec_alu_reg(d) \/ exec_alu_imm(d) \/ exec_rv64(d) \/ exec_load(d)
           \/ exec_store(d) \/ exec_branch(d) \/ exec_jump(d) \/ exec_upper(d)
           \/ exec_fence(d) \/ exec_unknown(d)
  <2>1. csrs' = csrs
    BY <1>3 DEF exec_alu_reg, exec_alu_imm, exec_rv64, exec_load, exec_store, exec_branch,
         exec_jump, exec_upper, exec_fence, exec_unknown, system
  <2>2. d.inst_type \in AluRegTypes \cup AluImmTypes \cup Rv64Types \cup LoadTypes \cup StoreTypes
          \cup BranchTypes \cup JumpTypes \cup UpperTypes \cup FenceTypes \cup {"UNKNOWN", "NONE"}
    BY <1>3 DEF exec_alu_reg, exec_alu_imm, exec_rv64, exec_load, exec_store, exec_branch,
         exec_jump, exec_upper, exec_fence, exec_unknown, Enters
  <2>3. d.inst_type \notin TrapTypes \cup ReturnTypes \cup CsrTypes
    BY <2>2 DEF AluRegTypes, AluImmTypes, Rv64Types, LoadTypes, StoreTypes, BranchTypes,
         JumpTypes, UpperTypes, FenceTypes, TrapTypes, ReturnTypes, CsrTypes
  <2> QED BY <2>1, <2>3
<1>4. CASE \/ load_reserved(d) \/ store_conditional(d) \/ exec_amo(d)
           \/ exec_float_single(d) \/ exec_float_double(d) \/ exec_float_mem(d) \/ wild_access(d)
  <2>1. csrs' = csrs
    BY <1>4 DEF load_reserved, store_conditional, exec_amo, exec_float_single,
         exec_float_double, exec_float_mem, wild_access, system, cpu
  <2>2. d.inst_type \in {"LR", "SC"} \cup AmoTypes \cup FloatSingleTypes \cup FloatDoubleTypes
          \cup FloatMemTypes \cup LoadTypes \cup StoreTypes
    BY <1>4 DEF load_reserved, store_conditional, exec_amo, exec_float_single,
         exec_float_double, exec_float_mem, wild_access, Enters
  <2>3. d.inst_type \notin TrapTypes \cup ReturnTypes \cup CsrTypes
    BY <2>2 DEF AmoTypes, FloatSingleTypes, FloatDoubleTypes, BothWidths, ToFloatTypes,
         ToRegisterTypes, FromRegisterTypes, FloatMemTypes, LoadTypes, StoreTypes, TrapTypes,
         ReturnTypes, CsrTypes
  <2> QED BY <2>1, <2>3
<1> QED BY <1>1, <1>2, <1>3, <1>4

\* The CSRs a trap writes: the pc and the cause, and neither status register.
LEMMA TrapWrites ==
  ASSUME HartOK, NEW d, exec_trap(d)
  PROVE  /\ \A c \in Epcs : csrs'[c] = IF Traps(d, c) THEN Trunc(WORD, pc) ELSE csrs[c]
         /\ \A c \in Statuses : csrs'[c] = csrs[c]
<1> DEFINE epc == IF SavesToSupervisor(d) THEN CSR_SEPC ELSE CSR_MEPC
           cause == IF SavesToSupervisor(d) THEN CSR_SCAUSE ELSE CSR_MCAUSE
<1>1. csrs' = [csrs EXCEPT ![epc] = Trunc(WORD, pc), ![cause] = Trunc(WORD, Num(Cause(d.inst_type)))]
  BY DEF exec_trap
<1>2. /\ {CSR_MEPC, CSR_SEPC, CSR_MCAUSE, CSR_SCAUSE} \subseteq Csrs
      /\ Statuses \subseteq Csrs
  BY CsrsAssumption DEF Statuses
<1>3. cause \notin Epcs \cup Statuses /\ epc \notin Statuses
  BY DEF Epcs, Statuses, CSR_MEPC, CSR_SEPC, CSR_MCAUSE, CSR_SCAUSE, CSR_MSTATUS, CSR_SSTATUS
<1>4. \A c \in Epcs : Traps(d, c) <=> c = epc
  BY DEF exec_trap, Enters, Traps, SavesToSupervisor, Epcs, CSR_MEPC, CSR_SEPC
<1>5. csrs \in [Csrs -> Words(WORD)] /\ Epcs \subseteq Csrs
  BY <1>2 DEF HartOK, TypeOK, Epcs
<1> HIDE DEF epc, cause
<1>6. \A c \in Csrs \ {cause} : csrs'[c] = IF c = epc THEN Trunc(WORD, pc) ELSE csrs[c]
  BY <1>1, <1>5
<1> QED BY <1>2, <1>3, <1>4, <1>5, <1>6

\* A CSR instruction leaves the CSRs it does not name alone.
LEMMA CsrWrites ==
  ASSUME HartOK, NEW d, exec_csr(d), NEW c \in Csrs, ~Names(d, c)
  PROVE  csrs'[c] = csrs[c]
  BY DEF exec_csr, Enters, Names, HartOK, TypeOK
-----------------------------------------------------------------------------
(* The status registers settle *)

ReturnsOK == returns \in [Statuses -> 0..2] /\ ReturnsSettle

\* What a return does to the status register it goes through: the previous
\* mode becomes user mode, the previous-enable bit 1, and the enable bit the
\* larger of what it and the previous-enable bit were.
LEMMA ReturnSettles ==
  ASSUME BYTE = 8, HartOK, NEW d, exec_return(d), NEW c \in Statuses, ReturnsBy(d, c)
  PROVE  /\ RestoresUserMode(c)' /\ RestoresEnabled(c)'
         /\ RestoresEnabled(c) \/ Enabled(c) => Enabled(c)'
<1>1. WORD = 32 /\ \A x, k : k \in Trunc(32, x) <=> k \in x /\ k \in 0..31
  BY DEF WORD, Trunc, Bits
<1>2. c \in Csrs /\ csrs \in [Csrs -> Words(WORD)]
  BY CsrsAssumption DEF Statuses, HartOK, TypeOK
<1>3. CASE c = CSR_MSTATUS
  <2>1. d.inst_type = "MRET"
    BY <1>3 DEF ReturnsBy
  <2>2. csrs'[c] = Returned(csrs[c], 7, 3, {11, 12})
    BY <1>2, <1>3, <2>1 DEF exec_return
  <2>3. 7 \in csrs'[c] /\ 11 \notin csrs'[c] /\ 12 \notin csrs'[c] /\ (7 \in csrs[c] \/ 3 \in csrs[c] => 3 \in csrs'[c])
    BY <1>1, <2>2 DEF Returned
  <2>4. PreviousMode(TRUE, csrs'[c]) = 0
    BY <2>3 DEF PreviousMode, BitOf
  <2>5. (c = CSR_MSTATUS) = TRUE
    BY <1>3
  <2>6. RestoresUserMode(c)'
    BY <2>4, <2>5, Zenon DEF RestoresUserMode, USER_MODE
  <2> QED BY <1>3, <2>3, <2>6 DEF RestoresEnabled, Enabled
<1>4. CASE c # CSR_MSTATUS
  <2>1. c = CSR_SSTATUS /\ d.inst_type = "SRET"
    BY <1>4 DEF ReturnsBy, Statuses
  <2>2. csrs'[c] = Returned(csrs[c], 5, 1, {8})
    BY <1>2, <2>1 DEF exec_return
  <2>3. 5 \in csrs'[c] /\ 8 \notin csrs'[c] /\ (5 \in csrs[c] \/ 1 \in csrs[c] => 1 \in csrs'[c])
    BY <1>1, <2>2 DEF Returned
  <2>4. PreviousMode(FALSE, csrs'[c]) = 0
    BY <2>3 DEF PreviousMode, BitOf
  <2>5. (c = CSR_MSTATUS) = FALSE
    BY <1>4
  <2>6. RestoresUserMode(c)'
    BY <2>4, <2>5, Zenon DEF RestoresUserMode, USER_MODE
  <2> QED BY <1>4, <2>3, <2>6 DEF RestoresEnabled, Enabled
<1> QED BY <1>3, <1>4

\* A return leaves the other status register, and all of xEPC, alone.
LEMMA ReturnWrites ==
  ASSUME HartOK, NEW d, exec_return(d), NEW c \in Statuses \cup Epcs,
         c \in Statuses => ~ReturnsBy(d, c)
  PROVE  csrs'[c] = csrs[c]
<1> DEFINE status == IF d.inst_type = "MRET" THEN CSR_MSTATUS ELSE CSR_SSTATUS
<1>1. d.inst_type \in {"MRET", "SRET"}
  BY DEF exec_return, Enters, ReturnTypes
<1>2. c # status
  BY <1>1 DEF ReturnsBy, Statuses, Epcs, CSR_MEPC, CSR_SEPC, CSR_MSTATUS, CSR_SSTATUS
<1>3. c \in Csrs /\ csrs \in [Csrs -> Words(WORD)]
  BY CsrsAssumption DEF Statuses, Epcs, HartOK, TypeOK
<1>4. PICK new : csrs' = [csrs EXCEPT ![status] = new]
  BY DEF exec_return
<1> HIDE DEF status
<1> QED BY <1>2, <1>3, <1>4

\* One instruction, with what the history remembers of it, keeps the claim.
LEMMA SettledStays ==
  ASSUME BYTE = 8, HartOK, ReturnsOK, NEW i \in Instructions, cpu_execute(i), NEW d,
         d = Decoded[i], Remember(d)
  PROVE  ReturnsOK'
<1>1. returns' \in [Statuses -> 0..2]
  BY DEF Remember, ReturnsOK
<1>2. ASSUME NEW c \in Statuses
      PROVE  /\ returns'[c] >= 1 => RestoresUserMode(c)' /\ RestoresEnabled(c)'
             /\ returns'[c] >= 2 => Enabled(c)'
             /\ asked'[c] => Enabled(c)'
  <2>1. /\ returns[c] >= 1 => RestoresUserMode(c) /\ RestoresEnabled(c)
        /\ returns[c] >= 2 => Enabled(c)
        /\ asked[c] => Enabled(c)
    BY DEF ReturnsOK, ReturnsSettle
  <2> returns[c] \in 0..2
    BY DEF ReturnsOK
  <2>2. returns'[c] = IF Names(d, c) THEN 0
                      ELSE IF ReturnsBy(d, c) /\ returns[c] < 2 THEN returns[c] + 1 ELSE returns[c]
    BY DEF Remember
  <2>3. asked'[c] = IF Names(d, c) THEN Enabled(c)' ELSE asked[c]
    BY DEF Remember
  <2>4. CASE Names(d, c)
    <3>1. returns'[c] = 0
      BY <2>2, <2>4, Zenon
    <3>2. ~(returns'[c] >= 1) /\ ~(returns'[c] >= 2)
      BY <3>1
    <3>3. asked'[c] = Enabled(c)'
      BY <2>3, <2>4, Zenon
    <3> QED BY <3>2, <3>3, Zenon
  <2>5. CASE ~Names(d, c) /\ ReturnsBy(d, c)
    <3>1. d.inst_type \in ReturnTypes
      BY <2>5 DEF ReturnsBy, ReturnTypes
    <3>2. d.inst_type \notin TrapTypes \cup CsrTypes
      BY <3>1 DEF ReturnTypes, TrapTypes, CsrTypes
    <3>3. exec_return(d)
      BY <3>1, <3>2, CsrsChange
    <3>4. /\ RestoresUserMode(c)' /\ RestoresEnabled(c)'
          /\ RestoresEnabled(c) \/ Enabled(c) => Enabled(c)'
      BY <2>5, <3>3, ReturnSettles
    <3>5. returns'[c] >= 2 => returns[c] >= 1
      BY <2>1, <2>2, <2>5
    <3>6. asked'[c] = asked[c]
      BY <2>5, <2>3, Zenon
    <3> QED BY <2>1, <3>4, <3>5, <3>6
  <2>6. CASE ~Names(d, c) /\ ~ReturnsBy(d, c)
    <3>1. csrs'[c] = csrs[c]
      BY <2>6, CsrsChange, TrapWrites, ReturnWrites, CsrWrites, CsrsAssumption DEF Statuses
    <3>2. returns'[c] = returns[c] /\ asked'[c] = asked[c]
      BY <2>2, <2>6, <2>3, Zenon
    <3>3. /\ RestoresUserMode(c)' <=> RestoresUserMode(c)
          /\ RestoresEnabled(c)' <=> RestoresEnabled(c)
          /\ Enabled(c)' <=> Enabled(c)
      BY <3>1, Zenon DEF RestoresUserMode, RestoresEnabled, Enabled
    <3> QED BY <2>1, <3>2, <3>3
  <2> QED BY <2>4, <2>5, <2>6
<1> QED BY <1>1, <1>2 DEF ReturnsOK, ReturnsSettle

\* However many traps are taken, once a return went through mstatus or
\* sstatus its previous mode is user mode and its previous-enable bit set
\* until software names the register, and after a second return its enable
\* bit is set too; a set enable bit stays set.
THEOREM ReturnsSettleHolds ==
  ASSUME BYTE = 8
  PROVE  TSpec => []ReturnsSettle
<1>1. TInit => ReturnsOK
  BY DEF TInit, ReturnsOK, ReturnsSettle
<1>2. HartOK /\ LoopOK /\ ReturnsOK /\ [TNext]_tvars => ReturnsOK'
  <2> SUFFICES ASSUME HartOK, ReturnsOK, [TNext]_tvars
               PROVE  ReturnsOK'
    OBVIOUS
  <2>1. CASE ExecuteLine /\ Remember(Decoded[line])
    <3>1. PICK i \in Instructions : i = line /\ cpu_execute(i)
      BY <2>1 DEF ExecuteLine
    <3> QED BY <2>1, <3>1, SettledStays
  <2>2. CASE (OpenInput \/ ReadInput \/ PrintStore \/ Stopped) /\ UNCHANGED <<saved, returns, asked>>
    <3>1. csrs' = csrs
      BY <2>2 DEF OpenInput, ReadInput, SkipLine, GetLine, EndOfFile, PrintStore, Stopped, evars, vars, cpu
    <3> QED BY <2>2, <3>1, Zenon DEF ReturnsOK, ReturnsSettle, RestoresUserMode, RestoresEnabled, Enabled
  <2>3. CASE UNCHANGED tvars
    BY <2>3, Zenon DEF tvars, evars, vars, cpu, ReturnsOK, ReturnsSettle, RestoresUserMode,
         RestoresEnabled, Enabled
  <2> QED BY <2>1, <2>2, <2>3 DEF TNext
<1>3. ReturnsOK => ReturnsSettle
  BY DEF ReturnsOK
<1> QED BY TracedKeeps, <1>1, <1>2, <1>3, PTL DEF TSpec

-----------------------------------------------------------------------------
(* Returns resume past their trap *)

SavedOK == \A c \in Epcs : saved[c] # None => Trunc(WORD, saved[c]) = csrs[c]

\* A CSR holds the low 32 bits of the pc a trap saves there.
LEMMA SavedIsKept ==
  ASSUME HartOK, SavedOK, NEW i \in Instructions, cpu_execute(i), NEW d,
         d = Decoded[i], Remember(d)
  PROVE  SavedOK'
<1> SUFFICES ASSUME NEW c \in Epcs, saved'[c] # None
             PROVE  Trunc(WORD, saved'[c]) = csrs'[c]
  BY DEF SavedOK
<1>1. saved'[c] = IF Traps(d, c) THEN pc ELSE IF Names(d, c) THEN None ELSE saved[c]
  BY DEF Remember
<1>2. CASE Traps(d, c)
  <2>1. d.inst_type \in TrapTypes /\ d.inst_type \notin ReturnTypes \cup CsrTypes
    BY <1>2 DEF Traps, TrapTypes, ReturnTypes, CsrTypes
  <2>2. exec_trap(d)
    BY <2>1, CsrsChange
  <2>3. csrs'[c] = Trunc(WORD, pc)
    BY <1>2, <2>2, TrapWrites
  <2> QED BY <1>1, <1>2, <2>3
<1>3. CASE ~Traps(d, c)
  <2>1. ~Names(d, c) /\ saved'[c] = saved[c] /\ saved[c] # None
    BY <1>1, <1>3, Zenon
  <2>2. c \notin Statuses /\ c \in Csrs
    BY CsrsAssumption DEF Epcs, Statuses, CSR_MEPC, CSR_SEPC, CSR_MSTATUS, CSR_SSTATUS
  <2>3. csrs'[c] = csrs[c]
    BY <1>3, <2>1, <2>2, CsrsChange, TrapWrites, ReturnWrites, CsrWrites
  <2> QED BY <2>1, <2>3 DEF SavedOK
<1> QED BY <1>2, <1>3

\* Where a return goes: to the instruction after the one at mepc or sepc.
LEMMA ReturnGoesTo ==
  ASSUME NEW i \in Instructions, cpu_execute(i), NEW d, d = Decoded[i], NEW c \in Epcs,
         ReturnsBy(d, IF c = CSR_MEPC THEN CSR_MSTATUS ELSE CSR_SSTATUS)
  PROVE  pc' = Add(XLEN, csrs[c], Num(4))
<1>1. d.inst_type = IF c = CSR_MEPC THEN "MRET" ELSE "SRET"
  BY DEF ReturnsBy, CSR_MSTATUS, CSR_SSTATUS
<1>2. d.inst_type \in ReturnTypes /\ d.inst_type \notin TrapTypes \cup CsrTypes
  BY <1>1 DEF TrapTypes, ReturnTypes, CsrTypes
<1>3. exec_return(d)
  BY <1>2, CsrsChange
<1>4. d.len = 4
  BY <1>2, ReturnsAreLong
<1>5. Leave(d, csrs[c])
  BY <1>1, <1>3 DEF exec_return, Epcs
<1> QED BY <1>4, <1>5 DEF Leave

\* However traps are nested, a return resumes past the last trap that saved its
\* pc in the register it goes through, unless software wrote that register in
\* between.
THEOREM ReturnResumesPastTrapHolds == TSpec => ReturnResumesPastTrap
<1> DEFINE Resumes == \A c \in Epcs :
              (saved[c] # None /\ Returning(IF c = CSR_MEPC THEN CSR_MSTATUS ELSE CSR_SSTATUS))
                => pc' = Add(XLEN, Trunc(WORD, saved[c]), Num(4))
<1>1. TInit => SavedOK
  BY DEF TInit, SavedOK
<1>2. HartOK /\ LoopOK /\ SavedOK /\ [TNext]_tvars => SavedOK' /\ [Resumes]_tvars
  <2> SUFFICES ASSUME HartOK, SavedOK, [TNext]_tvars
               PROVE  SavedOK' /\ [Resumes]_tvars
    OBVIOUS
  <2>1. CASE ExecuteLine /\ Remember(Decoded[line])
    <3>1. PICK i \in Instructions : i = line /\ cpu_execute(i)
      BY <2>1 DEF ExecuteLine
    <3>2. SavedOK'
      BY <2>1, <3>1, SavedIsKept
    <3>3. Resumes
      BY <3>1, ReturnGoesTo DEF SavedOK, Returning
    <3> QED BY <3>2, <3>3
  <2>2. CASE (OpenInput \/ ReadInput \/ PrintStore \/ Stopped) /\ UNCHANGED <<saved, returns, asked>>
    <3>1. csrs' = csrs
      BY <2>2 DEF OpenInput, ReadInput, SkipLine, GetLine, EndOfFile, PrintStore, Stopped, evars, vars, cpu
    <3>2. phase # "executing" \/ phase' = phase
      BY <2>2 DEF OpenInput, ReadInput, SkipLine, GetLine, EndOfFile, PrintStore, Stopped, evars, loop
    <3> QED BY <2>2, <3>1, <3>2 DEF SavedOK, Returning
  <2>3. CASE UNCHANGED tvars
    BY <2>3 DEF tvars, evars, vars, cpu, SavedOK
  <2> QED BY <2>1, <2>2, <2>3 DEF TNext
<1> QED BY TracedKeeps, <1>1, <1>2, PTL DEF TSpec, ReturnResumesPastTrap

-----------------------------------------------------------------------------
(* CSR instructions exchange *)

\* Cutting off the bits above a CSR's commutes with combining.
LEMMA CombinedIsCut ==
  ASSUME NEW type \in CsrTypes, NEW old \in Words(WORD), NEW source
  PROVE  Trunc(WORD, Combined(type, old, source)) = Combined(type, old, Trunc(WORD, source))
<1>1. CASE type \in {"CSRRW", "CSRRWI"}
  <2>1. \A s : Combined(type, old, s) = s
    BY <1>1 DEF Combined
  <2> QED BY <2>1
<1>2. CASE type \in {"CSRRS", "CSRRSI"}
  <2>1. \A s : Combined(type, old, s) = old \cup s
    BY <1>2 DEF Combined
  <2> QED BY <2>1 DEF Trunc, Words
<1>3. CASE type \in {"CSRRC", "CSRRCI"}
  <2>1. \A s : Combined(type, old, s) = old \ s
    BY <1>3 DEF Combined
  <2> QED BY <2>1 DEF Trunc, Words
<1> QED BY <1>1, <1>2, <1>3 DEF CsrTypes

\* rd is written before rs1 is read, so a source that is also rd is the old CSR.
LEMMA SourceIsRead ==
  ASSUME BYTE = 8, HartOK, NEW d, d.rd \in Registers, d.rs1 \in Registers, NEW old \in Words(WORD),
         SetReg(d.rd, old)
  PROVE  Trunc(WORD, CsrSource(d)) = Source(d, old) /\ (d.rd # 0 => regs'[d.rd] = old)
<1>1. \A k : Trunc(WORD, Num(k)) = Num(k)
  <2>1. \A k : Num(k) \subseteq 0..30
    BY DEF Num
  <2>2. WORD = 32 /\ 0..30 \subseteq Bits(WORD)
    BY DEF WORD, Bits
  <2> QED BY <2>1, <2>2 DEF Trunc
<1>2. Trunc(XLEN, old) = old /\ Trunc(WORD, old) = old
  <2>1. XLEN \in {32, 64} /\ WORD = 32
    BY WidthAssumption DEF WORD
  <2>2. Bits(WORD) \subseteq Bits(XLEN)
    BY <2>1 DEF Bits
  <2> QED BY <2>2 DEF Trunc, Words
<1>3. d.rd # 0 => regs' = [regs EXCEPT ![d.rd] = old]
  BY <1>2 DEF SetReg
<1>4. d.rd = 0 => regs' = regs
  BY DEF SetReg
<1>5. regs \in [Registers -> Words(XLEN)]
  BY DEF HartOK, TypeOK
<1>6. regs'[d.rs1] = IF d.rs1 = d.rd /\ d.rd # 0 THEN old ELSE regs[d.rs1]
  BY <1>3, <1>4, <1>5
<1> QED BY <1>1, <1>2, <1>3, <1>5, <1>6 DEF CsrSource, Source

\* Every CSR instruction does.
LEMMA CsrInstructionExchanges ==
  ASSUME BYTE = 8, HartOK, NEW i \in Instructions, cpu_execute(i), NEW d, d = Decoded[i],
         d.inst_type \in CsrTypes
  PROVE  Exchanges(d)
<1> DEFINE csr == Val(d.imm)
           old == csrs[csr]
<1>1. d.inst_type \notin TrapTypes \cup ReturnTypes
  BY DEF TrapTypes, ReturnTypes, CsrTypes
<1>2. exec_csr(d)
  BY <1>1, CsrsChange
<1>3. /\ SetReg(d.rd, old)
      /\ csrs' = [csrs EXCEPT ![csr] = Trunc(WORD, Combined(d.inst_type, old, CsrSource(d)))]
  BY <1>2 DEF exec_csr
<1>4. csr \in Csrs /\ d.rd \in Registers /\ d.rs1 \in Registers
  BY NamedCsrsAssumption, OperandsNameRegisters DEF Decoded
<1>5. old \in Words(WORD)
  BY <1>4 DEF HartOK, TypeOK
<1> HIDE DEF csr, old
<1>6. Trunc(WORD, CsrSource(d)) = Source(d, old) /\ (d.rd # 0 => regs'[d.rd] = old)
  BY <1>3, <1>4, <1>5, SourceIsRead
<1>7. Trunc(WORD, Combined(d.inst_type, old, CsrSource(d))) = Combined(d.inst_type, old, Source(d, old))
  BY <1>5, <1>6, CombinedIsCut
<1> QED BY <1>3, <1>6, <1>7, Zenon DEF Exchanges, Combined, csr, old

\* A CSR instruction puts the old CSR in rd and its source, combined with
\* the old value, in the CSR, and changes no other; only a source that is
\* also rd has been overwritten.
THEOREM CsrsExchangeHolds ==
  ASSUME BYTE = 8
  PROVE  TSpec => CsrsExchange
<1>1. HartOK /\ LoopOK /\ [TNext]_tvars => [Executes(CsrTypes, Exchanges)]_tvars
  <2> SUFFICES ASSUME HartOK, [TNext]_tvars
               PROVE  [Executes(CsrTypes, Exchanges)]_tvars
    OBVIOUS
  <2>1. CASE ExecuteLine
    <3>1. PICK i \in Instructions : i = line /\ cpu_execute(i)
      BY <2>1 DEF ExecuteLine
    <3> QED BY <3>1, CsrInstructionExchanges DEF Executes
  <2>2. CASE OpenInput \/ ReadInput \/ PrintStore \/ Stopped \/ UNCHANGED tvars
    <3>1. phase # "executing" \/ phase' = phase
      BY <2>2 DEF OpenInput, ReadInput, SkipLine, GetLine, EndOfFile, PrintStore, Stopped, evars,
           loop, tvars
    <3> QED BY <3>1 DEF Executes
  <2> QED BY <2>1, <2>2 DEF TNext
<1> QED BY TracedKeeps, <1>1, PTL DEF TSpec, CsrsExchange
=============================================================================
