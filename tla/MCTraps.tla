------------------------------- MODULE MCTraps -----------------------------
(***************************************************************************)
(* Traps, returns and privilege on RV32: files of ECALL, EBREAK, URET,     *)
(* MRET, SRET and the CSR accesses a handler makes. Three history          *)
(* variables remember what a handler would have to know.                   *)
(***************************************************************************)
EXTENDS Emulator, Assembler

VARIABLES saved,       \* per xEPC: the pc of the last trap that used it, since
                       \* when no CSR instruction named it, or None
          returns,     \* per xSTATUS: the returns through it, at most 2, since
                       \* a CSR instruction named it
          asked        \* per xSTATUS: whether that CSR instruction left its
                       \* enable bit set
tvars == <<evars, saved, returns, asked>>

None == {-1}              \* not a word
Epcs == {CSR_MEPC, CSR_SEPC}
Statuses == {CSR_MSTATUS, CSR_SSTATUS}

csr_op(f3, rd, number, rs1) == encode_i(115, R(rd), R(rs1), Num(number), f3)
c_ebreak == {1, 12, 15}

\* x1 is 256 (SPP, a handler address) or 12288 (an MPP of 2 and the bit above).
TrapInstructions ==
  { i_type("ADDI", 1, 0, 256), u_type("LUI", 1, 12288),
    fixed("ECALL"), fixed("EBREAK"), fixed("MRET"), fixed("SRET"),
    encode_i(115, {}, {}, Num(2), 0), c_ebreak,
    csr_op(1, 0, CSR_SSTATUS, 1), csr_op(2, 0, CSR_MSTATUS, 1), csr_op(6, 0, CSR_MSTATUS, 8),
    csr_op(7, 0, CSR_MSTATUS, 8), csr_op(1, 0, CSR_MTVEC, 1), csr_op(3, 1, CSR_MEPC, 1),
    csr_op(2, 2, CSR_MEPC, 1) }

TInit ==
  /\ EInit
  /\ saved = [c \in Epcs |-> None]
  /\ returns = [c \in Statuses |-> 0]
  /\ asked = [c \in Statuses |-> FALSE]

Names(d, csr) == d.inst_type \in CsrTypes /\ Val(d.imm) = csr
Traps(d, epc) ==
  /\ d.inst_type \in TrapTypes
  /\ epc = IF d.inst_type = "ECALL" /\ privilege = SUPERVISOR_MODE THEN CSR_SEPC ELSE CSR_MEPC
ReturnsBy(d, status) ==
  d.inst_type = IF status = CSR_MSTATUS THEN "MRET" ELSE "SRET"
Enabled(c) == (IF c = CSR_MSTATUS THEN 3 ELSE 1) \in csrs[c]

Remember(d) ==
  /\ saved' = [c \in Epcs |-> IF Traps(d, c) THEN pc ELSE IF Names(d, c) THEN None ELSE saved[c]]
  /\ returns' = [c \in Statuses |->
                   IF Names(d, c) THEN 0
                   ELSE IF ReturnsBy(d, c) /\ returns[c] < 2 THEN returns[c] + 1 ELSE returns[c]]
  /\ asked' = [c \in Statuses |-> IF Names(d, c) THEN Enabled(c)' ELSE asked[c]]
TNext ==
  \/ ExecuteLine /\ Remember(Decoded[line])
  \/ (OpenInput \/ ReadInput \/ PrintStore \/ Stopped) /\ UNCHANGED <<saved, returns, asked>>
TSpec == TInit /\ [][TNext]_tvars

-----------------------------------------------------------------------------
\* The step executes the return instruction of this status register.
Returning(status) ==
  phase = "executing" /\ phase' # phase /\ ReturnsBy(Decoded[line], status)

\* However traps of the two kinds are nested, the return through mepc (sepc)
\* resumes at the instruction 4 bytes after the last trap that saved its pc
\* there, unless a CSR instruction named mepc (sepc) in between: ECALLs from
\* S-mode do not disturb mepc and the others do not disturb sepc. Of the pc a
\* CSR keeps 32 bits: all of it on RV32, on RV64 the return clears the rest.
ReturnResumesPastTrap ==
  [][\A c \in Epcs :
       (saved[c] # None /\ Returning(IF c = CSR_MEPC THEN CSR_MSTATUS ELSE CSR_SSTATUS))
         => pc' = Add(XLEN, Trunc(WORD, saved[c]), Num(4))]_tvars

\* The source of a CSR instruction: a register, its own rd overwritten, or
\* the 5 bits of the rs1 field.
Source(d, old) ==
  IF d.inst_type \notin {"CSRRW", "CSRRS", "CSRRC"} THEN Num(d.rs1)
  ELSE IF d.rs1 = d.rd /\ d.rd # 0 THEN old
  ELSE Trunc(WORD, regs[d.rs1])
Exchanges(d) ==
  LET csr == Val(d.imm)
      old == csrs[csr]
  IN /\ d.rd # 0 => regs'[d.rd] = old
     /\ csrs' = [csrs EXCEPT ![csr] =
          CASE d.inst_type \in {"CSRRW", "CSRRWI"} -> Source(d, old)
            [] d.inst_type \in {"CSRRS", "CSRRSI"} -> old \cup Source(d, old)
            [] d.inst_type \in {"CSRRC", "CSRRCI"} -> old \ Source(d, old)]

\* A CSR instruction exchanges: rd gets the old value, and the CSR is set to,
\* or-ed with or cleared by the value its source had before the instruction;
\* no other CSR changes. The exception is a source that is also rd: it has
\* been overwritten, so CSRRW and CSRRS leave the CSR and CSRRC clears it.
CsrsExchange == [][Executes(CsrTypes, Exchanges)]_tvars

\* What a return through a status register would restore.
RestoresUserMode(c) == PreviousMode(c = CSR_MSTATUS, csrs[c]) = USER_MODE
RestoresEnabled(c) == (IF c = CSR_MSTATUS THEN 7 ELSE 5) \in csrs[c]
\* The status registers settle: once a return went through mstatus (sstatus)
\* and until software names it, its previous mode is user mode and its
\* previous-enable bit set, whatever traps were taken (trap entry saves
\* neither); after a second return the enable bit is set too. An enable bit
\* that software left set stays set: a return ors the previous-enable bit
\* into it, so no trap and no return ever clears it.
ReturnsSettle ==
  \A c \in Statuses :
    /\ returns[c] >= 1 => RestoresUserMode(c) /\ RestoresEnabled(c)
    /\ returns[c] >= 2 => Enabled(c)
    /\ asked[c] => Enabled(c)
=============================================================================
