---------------------------- MODULE AtomicsProofs ---------------------------
(***************************************************************************)
(* The emulator implements LinkedMemory, for every register width, memory  *)
(* size, set of instructions and length of the file: each step of main()   *)
(* is a step of the abstract linked memory or leaves all of it alone. And  *)
(* what its memory accesses do: the bytes a load finds and a store leaves, *)
(* SC's report and the result of an AMO.                                   *)
(***************************************************************************)
EXTENDS MCAtomics, EmulatorProofs

\* The history variable only watches: without it a step is one of main().
LEMMA MNextIsENext == [MNext]_mvars => [ENext]_evars
  BY DEF MNext, mvars, ENext

\* What holds of the program holds of it with the history variable.
LEMMA WatchedKeeps == MSpec => [](HartOK /\ LoopOK)
<1>1. MInit => HartOK /\ LoopOK
  BY EInitOK DEF MInit
<1> QED BY <1>1, MNextIsENext, ENextKeeps, PTL DEF MSpec

-----------------------------------------------------------------------------
(* What an access writes *)

\* A write changes the bytes of its span, if it is accepted, and no other.
LEMMA WriteReaches ==
  ASSUME NEW m \in [Addresses -> Byte], NEW address, NEW n, NEW value, ~Wild(address, n),
         NEW a \in Addresses, memory_write(m, address, n, value)[a] # m[a]
  PROVE  a \in Reaches(address, n)
<1>1. Accepted(address, n)
  BY DEF memory_write
<1>2. a \in Index(address, 0)..(Index(address, 0) + n - 1)
  BY <1>1 DEF memory_write
<1> QED BY <1>1, <1>2 DEF Reaches

\* So do the two writes of SD, and each write stays within the cells of the
\* access it belongs to.
LEMMA SpansAreCells ==
  ASSUME NEW address, NEW a
  PROVE  /\ \A n \in {1, 2, 4, 8} : a \in Reaches(address, n) => a \in CellsOf(address)
         /\ a \in Reaches(Add(XLEN, address, Num(4)), 4) => a \in CellsOf(address)
<1> DEFINE Parts == {<<address, n>> : n \in {1, 2, 4, 8}} \cup Halves(address)
<1>1. \A part \in Parts : Reaches(part[1], part[2]) \subseteq CellsOf(address)
  BY DEF CellsOf
<1>2. \A n \in {1, 2, 4, 8} : <<address, n>> \in Parts
  OBVIOUS
<1>3. <<Add(XLEN, address, Num(4)), 4>> \in Parts
  BY DEF Halves
<1> HIDE DEF Parts
<1>4. \A x, n : <<x, n>> \in Parts => Reaches(x, n) \subseteq CellsOf(address)
  <2> TAKE x, n
  <2>1. <<x, n>>[1] = x /\ <<x, n>>[2] = n
    OBVIOUS
  <2> QED BY <1>1, <2>1, Zenon
<1> QED BY <1>2, <1>3, <1>4, Zenon

\* An instruction that has not ended the process makes no wild access.
LEMMA NotWild ==
  ASSUME NEW d, ~Faults(d), NEW address, NEW n, <<address, n>> \in Accesses(d)
  PROVE  ~Wild(address, n)
<1>1. <<address, n>>[1] = address /\ <<address, n>>[2] = n
  OBVIOUS
<1> QED BY <1>1, Zenon DEF Faults

\* The address and the memory an instruction works on, as the abstract
\* memory sees them.
Touches(d) ==
  /\ mem' \in [Addresses -> Byte]
  /\ \A a \in Addresses : mem'[a] # mem[a] => a \in CellsOf(Operand(d)[1])

\* A store changes bytes within the span of its address only.
LEMMA StoreTouches ==
  ASSUME HartOK, NEW d, exec_store(d)
  PROVE  Touches(d)
<1> DEFINE address == Effective(d)
           n == Size(d.inst_type)
           low == memory_write(mem, address, n, regs[d.rs2])
<1>1. d.inst_type \in StoreTypes /\ ~Faults(d) /\ mem' = Stored(d.inst_type, address, regs[d.rs2])
  BY DEF exec_store, Enters
<1>2. d.inst_type \notin {"LR", "SC"} \cup AmoTypes \cup LoadTypes
  BY <1>1 DEF StoreTypes, AmoTypes, LoadTypes
<1>3. Operand(d)[1] = address
  BY <1>2 DEF Operand
<1>4. n \in {1, 2, 4, 8} /\ (d.inst_type = "SD" => n = 4)
  BY DEF Size
<1>5. Accesses(d) = IF d.inst_type = "SD" THEN Halves(address) ELSE {<<address, n>>}
  <2>1. /\ d.inst_type \in LoadTypes \cup StoreTypes /\ d.inst_type \notin LoadTypes
        /\ d.inst_type # "LR" /\ d.inst_type # "SC" /\ d.inst_type \notin AmoTypes
        /\ d.inst_type # "FSW" /\ d.inst_type # "FLW" /\ d.inst_type # "FLD" /\ d.inst_type # "LD"
    BY <1>1, <1>2 DEF StoreTypes, LoadTypes
  <2>2. d.inst_type \in {"LD", "SD"} <=> d.inst_type = "SD"
    BY <2>1
  <2>3. Accesses(d) = IF d.inst_type \in {"LD", "SD"} THEN Halves(address) ELSE {<<address, n>>}
    BY <2>1, Zenon DEF Accesses
  <2> QED BY <2>2, <2>3
<1>6. ~Wild(address, n)
  <2>1. <<address, n>> \in Accesses(d)
    BY <1>4, <1>5 DEF Halves
  <2> QED BY <1>1, <2>1, NotWild
<1>7. mem \in [Addresses -> Byte] /\ low \in [Addresses -> Byte]
  BY WriteKeepsMemory DEF HartOK, TypeOK
<1>8. ASSUME NEW a \in Addresses, low[a] # mem[a]
      PROVE  a \in CellsOf(address)
  BY <1>4, <1>6, <1>7, <1>8, WriteReaches, SpansAreCells
<1>9. CASE d.inst_type # "SD"
  <2>1. mem' = low
    BY <1>1, <1>9 DEF Stored
  <2> QED BY <1>3, <1>7, <1>8, <2>1 DEF Touches
<1>10. CASE d.inst_type = "SD"
  <2> DEFINE next == Add(XLEN, address, Num(4))
             high == ShiftR(XLEN, regs[d.rs2], WORD)
  <2>1. mem' = memory_write(low, next, 4, high)
    BY <1>1, <1>10 DEF Stored
  <2>2. ~Wild(next, 4)
    <3>1. <<next, 4>> \in Accesses(d)
      BY <1>5, <1>10 DEF Halves
    <3> QED BY <1>1, <3>1, NotWild
  <2>3. mem' \in [Addresses -> Byte]
    BY <1>7, <2>1, WriteKeepsMemory
  <2>4. ASSUME NEW a \in Addresses, mem'[a] # low[a]
        PROVE  a \in CellsOf(address)
    <3>1. a \in Reaches(next, 4)
      BY <1>7, <2>1, <2>2, <2>4, WriteReaches
    <3> QED BY <3>1, SpansAreCells
  <2> HIDE DEF low, address
  <2> QED BY <1>3, <1>8, <2>3, <2>4 DEF Touches
<1> QED BY <1>9, <1>10

\* An AMO and a successful SC make one access, of 4 or 8 bytes.
LEMMA AtomicTouches ==
  ASSUME HartOK, NEW d, NEW value, ~Faults(d), Accesses(d) = {<<regs[d.rs1], AmoSize(d)>>},
         d.inst_type \in {"SC"} \cup AmoTypes,
         mem' = memory_write(mem, regs[d.rs1], AmoSize(d), value)
  PROVE  Touches(d)
<1>1. Operand(d)[1] = regs[d.rs1]
  BY DEF Operand
<1>2. AmoSize(d) \in {1, 2, 4, 8}
  BY DEF AmoSize
<1>3. ~Wild(regs[d.rs1], AmoSize(d))
  BY NotWild
<1>4. mem \in [Addresses -> Byte] /\ mem' \in [Addresses -> Byte]
  BY WriteKeepsMemory DEF HartOK, TypeOK
<1>5. ASSUME NEW a \in Addresses, mem'[a] # mem[a]
      PROVE  a \in CellsOf(regs[d.rs1])
  <2>1. a \in Reaches(regs[d.rs1], AmoSize(d))
    BY <1>3, <1>4, <1>5, WriteReaches
  <2> QED BY <1>2, <2>1, SpansAreCells
<1> QED BY <1>1, <1>4, <1>5 DEF Touches

\* So does an AMO.
LEMMA AmoTouches ==
  ASSUME HartOK, NEW d, exec_amo(d)
  PROVE  Touches(d)
<1>1. d.inst_type \in AmoTypes /\ ~Faults(d)
  BY DEF exec_amo, Enters
<1>2. /\ d.inst_type \notin LoadTypes \cup StoreTypes
      /\ d.inst_type # "LR" /\ d.inst_type # "SC"
      /\ d.inst_type # "FSW" /\ d.inst_type # "FLW" /\ d.inst_type # "FLD"
  BY <1>1 DEF AmoTypes, LoadTypes, StoreTypes
<1>3. Accesses(d) = {<<regs[d.rs1], AmoSize(d)>>}
  BY <1>1, <1>2, Zenon DEF Accesses
<1>4. PICK value : mem' = memory_write(mem, regs[d.rs1], AmoSize(d), value)
  BY DEF exec_amo
<1> QED BY <1>1, <1>3, <1>4, AtomicTouches

\* And an SC that stores.
LEMMA ScTouches ==
  ASSUME HartOK, NEW d, store_conditional(d), d.rd # 0, ScSucceeds(d)
  PROVE  Touches(d)
<1>1. d.inst_type = "SC" /\ ~Faults(d)
  BY DEF store_conditional, Enters
<1>2. /\ d.inst_type \notin LoadTypes \cup StoreTypes /\ d.inst_type \notin AmoTypes
      /\ d.inst_type # "LR"
      /\ d.inst_type # "FSW" /\ d.inst_type # "FLW" /\ d.inst_type # "FLD"
  BY <1>1 DEF AmoTypes, LoadTypes, StoreTypes
<1>3. Accesses(d) = {<<regs[d.rs1], AmoSize(d)>>}
  BY <1>1, <1>2, Zenon DEF Accesses
<1>4. mem' = memory_write(mem, regs[d.rs1], AmoSize(d), regs[d.rs2])
  BY DEF store_conditional
<1> QED BY <1>1, <1>3, <1>4, AtomicTouches

\* Of the floating-point instructions, FSW writes memory.
LEMMA FloatTouches ==
  ASSUME HartOK, NEW d, exec_float_mem(d)
  PROVE  Touches(d)
<1>1. mem \in [Addresses -> Byte]
  BY DEF HartOK, TypeOK
<1>2. d.inst_type \in FloatMemTypes /\ ~Faults(d)
  BY DEF exec_float_mem, Enters
<1>3. CASE mem' = mem
  BY <1>1, <1>3 DEF Touches
<1>4. CASE mem' # mem
  <2>1. d.inst_type = "FSW" /\ mem' = memory_write(mem, Effective(d), 4, fregs[d.rs2])
    BY <1>4 DEF exec_float_mem
  <2>2. /\ d.inst_type \notin LoadTypes \cup StoreTypes /\ d.inst_type \notin AmoTypes
        /\ d.inst_type # "LR" /\ d.inst_type # "SC"
    BY <2>1 DEF AmoTypes, LoadTypes, StoreTypes
  <2>3. Accesses(d) = {<<Effective(d), 4>>}
    BY <2>1, <2>2, Zenon DEF Accesses
  <2>4. Operand(d)[1] = Effective(d)
    BY <2>2 DEF Operand
  <2>5. ~Wild(Effective(d), 4)
    BY <1>2, <2>3, NotWild
  <2>6. mem' \in [Addresses -> Byte]
    BY <1>1, <2>1, WriteKeepsMemory
  <2>7. ASSUME NEW a \in Addresses, mem'[a] # mem[a]
        PROVE  a \in CellsOf(Effective(d))
    <3>1. a \in Reaches(Effective(d), 4)
      BY <1>1, <2>1, <2>5, <2>7, WriteReaches
    <3> QED BY <3>1, SpansAreCells
  <2> QED BY <2>4, <2>6, <2>7 DEF Touches
<1> QED BY <1>3, <1>4

-----------------------------------------------------------------------------
(* One instruction as a step of the abstract memory *)

\* The step serves the access that was asked for before it.
Serves ==
  /\ Linked!Reserve \/ Linked!Succeed \/ Linked!Fail \/ Linked!Write \/ Linked!Other \/ Linked!End
  /\ faulted \/ faulted' => Linked!End
\* What the memory sees before the step is this instruction's access.
Presents(d) == Request = Operand(d)[1] /\ Kind = Asks(d)

\* The kinds of access.
LEMMA KindsAsked ==
  ASSUME NEW d
  PROVE  /\ d.inst_type = "LR" => Asks(d) = IF d.rd # 0 THEN "reserve" ELSE "none"
         /\ d.inst_type = "SC" => Asks(d) = IF d.rd # 0 THEN "conditional" ELSE "none"
         /\ d.inst_type \in StoreTypes \cup {"FSW"} \cup AmoTypes => Asks(d) = "write"
         /\ d.inst_type \notin {"LR", "SC", "FSW"} \cup StoreTypes \cup AmoTypes => Asks(d) = "none"
         /\ Asks(d) \in Linked!Kinds
<1>1. {"LR", "SC"} \cap (StoreTypes \cup {"FSW"} \cup AmoTypes) = {}
  BY DEF StoreTypes, AmoTypes
<1>2. CASE d.inst_type = "LR"
  BY <1>1, <1>2 DEF Asks, Linked!Kinds
<1>3. CASE d.inst_type = "SC"
  BY <1>1, <1>3 DEF Asks, Linked!Kinds
<1>4. CASE d.inst_type \in StoreTypes \cup {"FSW"} \cup AmoTypes
  BY <1>1, <1>4 DEF Asks, Linked!Kinds
<1>5. CASE d.inst_type \notin {"LR", "SC", "FSW"} \cup StoreTypes \cup AmoTypes
  BY <1>5 DEF Asks, Linked!Kinds
<1> QED BY <1>1, <1>2, <1>3, <1>4, <1>5

\* Instructions that are neither LR nor SC leave the reservation alone, and
\* those that are no access leave memory alone too.
LEMMA PlainServes ==
  ASSUME NEW d, Touches(d), UNCHANGED reservation, Presents(d), reply' = "none",
         ~faulted, ~faulted', Asks(d) = "write" \/ (Asks(d) = "none" /\ mem' = mem)
  PROVE  Serves
<1>1. Link' = Link
  BY DEF reservation, Link
<1>2. CASE Asks(d) = "write"
  <2>1. Linked!Writes
    BY DEF Linked!Writes, Touches, Presents
  <2> QED BY <1>1, <1>2, <2>1 DEF Serves, Linked!Write, Presents
<1>3. CASE Asks(d) = "none" /\ mem' = mem
  BY <1>1, <1>3 DEF Serves, Linked!Other, Presents
<1> QED BY <1>2, <1>3

\* SC: success at the reserved address, failure, or nothing when rd is x0.
LEMMA ScServes ==
  ASSUME HartOK, NEW d, store_conditional(d), d.rd \in Registers, Presents(d),
         reply' = Reply(d)
  PROVE  Serves
<1>1. /\ d.inst_type = "SC" /\ Request = regs[d.rs1] /\ ~faulted /\ ~faulted'
      /\ Kind = IF d.rd # 0 THEN "conditional" ELSE "none"
  BY KindsAsked DEF store_conditional, Enters, Operand, Presents
<1>2. CASE d.rd = 0
  <2>1. reply' = "none" /\ mem' = mem /\ UNCHANGED reservation
    BY <1>2 DEF store_conditional, reservation, Reply, HartOK, TypeOK
  <2> QED BY <1>1, <1>2, <2>1 DEF Serves, Linked!Other, Link, reservation
<1>3. CASE d.rd # 0
  <2>1. Link' = NoAddress
    BY <1>3 DEF store_conditional, Link
  <2>2. regs'[d.rd] = Trunc(XLEN, Flag(~ScSucceeds(d)))
    BY <1>3 DEF store_conditional, SetReg, HartOK, TypeOK
  <2>3. CASE ScSucceeds(d)
    <3>1. reply' = "ok"
      BY <1>1, <1>3, <2>2, <2>3 DEF Flag, Trunc, Reply
    <3>2. Link = Request
      BY <1>1, <2>3 DEF Link, ScSucceeds
    <3>3. Linked!Writes
      BY <1>3, <2>3, ScTouches DEF Linked!Writes, Touches, Presents
    <3> QED BY <1>1, <1>3, <2>1, <3>1, <3>2, <3>3 DEF Serves, Linked!Succeed
  <2>4. CASE ~ScSucceeds(d)
    <3>1. 0 \in Trunc(XLEN, Flag(~ScSucceeds(d)))
      BY <2>4, WordsOfNaturals DEF Flag, One, Trunc, Bits
    <3>2. reply' = "failed"
      BY <1>1, <1>3, <2>2, <3>1 DEF Reply
    <3>3. mem' = mem
      BY <2>4 DEF store_conditional
    <3> QED BY <1>1, <1>3, <2>1, <3>2, <3>3 DEF Serves, Linked!Fail
  <2> QED BY <2>3, <2>4
<1> QED BY <1>2, <1>3

\* LR links the address it reads, unless rd is x0.
LEMMA LrServes ==
  ASSUME NEW d, load_reserved(d), Presents(d), reply' = Reply(d)
  PROVE  Serves
<1>1. /\ d.inst_type = "LR" /\ Request = regs[d.rs1] /\ ~faulted /\ ~faulted'
      /\ Kind = IF d.rd # 0 THEN "reserve" ELSE "none"
  BY KindsAsked DEF load_reserved, Enters, Operand, Presents
<1>2. reply' = "none" /\ mem' = mem
  BY <1>1 DEF load_reserved, Reply
<1>3. CASE d.rd = 0
  BY <1>1, <1>2, <1>3 DEF load_reserved, reservation, Link, Serves, Linked!Other
<1>4. CASE d.rd # 0
  BY <1>1, <1>2, <1>4 DEF load_reserved, Link, Serves, Linked!Reserve
<1> QED BY <1>3, <1>4

\* A handler that is not of exec_atomic's LR and SC touches at most its own
\* cells and no reservation.
LEMMA OthersTouch ==
  ASSUME HartOK, NEW d,
         \/ exec_alu_reg(d) \/ exec_alu_imm(d) \/ exec_rv64(d) \/ exec_load(d) \/ exec_store(d)
         \/ exec_branch(d) \/ exec_jump(d) \/ exec_upper(d)
         \/ exec_trap(d) \/ exec_return(d) \/ exec_csr(d) \/ exec_fence(d) \/ exec_amo(d)
         \/ exec_float_single(d) \/ exec_float_double(d) \/ exec_float_mem(d) \/ exec_unknown(d)
  PROVE  /\ Touches(d) /\ UNCHANGED reservation /\ d.inst_type # "SC" /\ ~faulted /\ ~faulted'
         /\ Asks(d) = "write" \/ (Asks(d) = "none" /\ mem' = mem)
<1>1. CASE exec_store(d)
  <2>1. Asks(d) = "write"
    BY <1>1, KindsAsked DEF exec_store, Enters
  <2> QED BY <1>1, <2>1, StoreTouches DEF exec_store, Enters, StoreTypes
<1>2. CASE exec_amo(d)
  <2>1. Asks(d) = "write"
    BY <1>2, KindsAsked DEF exec_amo, Enters
  <2> QED BY <1>2, <2>1, AmoTouches DEF exec_amo, Enters, AmoTypes
<1>3. CASE exec_float_mem(d)
  <2>1. d.inst_type \in FloatMemTypes
    BY <1>3 DEF exec_float_mem, Enters
  <2>2. CASE d.inst_type = "FSW"
    <3>1. Asks(d) = "write"
      BY <2>2, KindsAsked
    <3> QED BY <1>3, <2>2, <3>1, FloatTouches DEF exec_float_mem, Enters
  <2>3. CASE d.inst_type # "FSW"
    <3>1. d.inst_type \notin {"LR", "SC", "FSW"} \cup StoreTypes \cup AmoTypes
      BY <2>1, <2>3 DEF FloatMemTypes, StoreTypes, AmoTypes
    <3>2. Asks(d) = "none" /\ mem' = mem
      BY <1>3, <2>3, <3>1, KindsAsked DEF exec_float_mem
    <3> QED BY <1>3, <3>1, <3>2, FloatTouches DEF exec_float_mem, Enters
  <2> QED BY <2>2, <2>3
<1>4. CASE \/ exec_alu_reg(d) \/ exec_alu_imm(d) \/ exec_rv64(d) \/ exec_load(d)
           \/ exec_branch(d) \/ exec_jump(d) \/ exec_upper(d)
           \/ exec_trap(d) \/ exec_return(d) \/ exec_csr(d) \/ exec_fence(d)
           \/ exec_float_single(d) \/ exec_float_double(d) \/ exec_unknown(d)
  <2>1. mem' = mem /\ UNCHANGED reservation /\ UNCHANGED faulted /\ ~faulted
    BY <1>4 DEF exec_alu_reg, exec_alu_imm, exec_rv64, exec_load, exec_branch, exec_jump,
         exec_upper, exec_trap, exec_return, exec_csr, exec_fence, exec_float_single,
         exec_float_double, exec_unknown, Enters
  <2>2. d.inst_type \in AluRegTypes \cup AluImmTypes \cup Rv64Types \cup LoadTypes \cup BranchTypes
          \cup JumpTypes \cup UpperTypes \cup TrapTypes \cup ReturnTypes \cup CsrTypes
          \cup FenceTypes \cup FloatSingleTypes \cup FloatDoubleTypes \cup {"UNKNOWN", "NONE"}
    BY <1>4 DEF exec_alu_reg, exec_alu_imm, exec_rv64, exec_load, exec_branch, exec_jump,
         exec_upper, exec_trap, exec_return, exec_csr, exec_fence, exec_float_single,
         exec_float_double, exec_unknown, Enters
  <2>3. d.inst_type \notin {"LR", "SC", "FSW"} \cup StoreTypes \cup AmoTypes
    BY <2>2 DEF AluRegTypes, AluImmTypes, Rv64Types, LoadTypes, StoreTypes, BranchTypes, JumpTypes,
         UpperTypes, TrapTypes, ReturnTypes, CsrTypes, FenceTypes, AmoTypes, FloatSingleTypes,
         FloatDoubleTypes, BothWidths, ToFloatTypes, ToRegisterTypes, FromRegisterTypes
  <2>4. Asks(d) = "none"
    BY <2>3, KindsAsked
  <2> QED BY <2>1, <2>3, <2>4 DEF Touches, HartOK, TypeOK
<1> QED BY <1>1, <1>2, <1>3, <1>4

\* cpu_execute for any word.
LEMMA InstructionServes ==
  ASSUME HartOK, NEW i \in Instructions, cpu_execute(i), NEW d, d = Decoded[i],
         Presents(d), reply' = IF faulted' THEN "none" ELSE Reply(d)
  PROVE  Serves
<1>1. d.rd \in Registers
  BY OperandsNameRegisters
<1>2. \/ exec_alu_reg(d) \/ exec_alu_imm(d) \/ exec_rv64(d) \/ exec_load(d) \/ exec_store(d)
      \/ exec_branch(d) \/ exec_jump(d) \/ exec_upper(d)
      \/ exec_trap(d) \/ exec_return(d) \/ exec_csr(d) \/ exec_fence(d)
      \/ load_reserved(d) \/ store_conditional(d) \/ exec_amo(d)
      \/ exec_float_single(d) \/ exec_float_double(d) \/ exec_float_mem(d)
      \/ wild_access(d) \/ exec_unknown(d)
  BY DEF cpu_execute
<1>3. CASE load_reserved(d) \/ store_conditional(d)
  <2>1. ~faulted'
    BY <1>3 DEF load_reserved, store_conditional, Enters
  <2>2. reply' = Reply(d)
    BY <2>1
  <2> QED BY <1>1, <1>3, <2>2, LrServes, ScServes
<1>4. CASE wild_access(d)
  <2>1. reply' = "none" /\ mem' = mem /\ UNCHANGED reservation /\ faulted' = TRUE
    BY <1>4 DEF wild_access, cpu, reservation
  <2> QED BY <2>1 DEF Serves, Linked!End, Link, reservation
<1>5. CASE ~(load_reserved(d) \/ store_conditional(d) \/ wild_access(d))
  <2>1. /\ Touches(d) /\ UNCHANGED reservation /\ d.inst_type # "SC" /\ ~faulted /\ ~faulted'
        /\ Asks(d) = "write" \/ (Asks(d) = "none" /\ mem' = mem)
    BY <1>2, <1>5, OthersTouch
  <2>2. reply' = "none"
    BY <2>1 DEF Reply
  <2> QED BY <2>1, <2>2, PlainServes
<1> QED BY <1>3, <1>4, <1>5

-----------------------------------------------------------------------------
(* The refinement *)

\* What is executed has been read from the file.
LineRead == phase = "executing" => line \in Instructions

\* A line is executed only after it was read: it is one of Instructions.
LEMMA LineIsRead == MSpec => []LineRead
<1>1. MInit => LineRead
  BY DEF MInit, EInit, LineRead
<1>2. LineRead /\ [ENext]_evars => LineRead'
  BY DEF LineRead, ENext, OpenInput, ReadInput, SkipLine, GetLine, EndOfFile, ExecuteLine,
     PrintStore, Stopped, evars, loop
<1> QED BY <1>1, <1>2, MNextIsENext, PTL DEF MSpec

\* Every address the program presents is a word of a register's width.
LEMMA RequestIsAddress ==
  ASSUME HartOK, LineRead
  PROVE  Request \in Words(XLEN)
<1>1. CASE phase = "executing"
  <2> DEFINE d == Decoded[line]
  <2>1. d.rs1 \in Registers
    BY <1>1, OperandsNameRegisters DEF LineRead
  <2> HIDE DEF d
  <2>2. regs[d.rs1] \in Words(XLEN) /\ Effective(d) \in Words(XLEN)
    BY <2>1, AddIsWord DEF HartOK, TypeOK, Effective
  <2>3. Operand(d)[1] \in {regs[d.rs1], Effective(d)}
    BY DEF Operand
  <2> QED BY <1>1, <2>2, <2>3 DEF Request, d
<1>2. CASE phase # "executing"
  BY <1>2, ZeroIsWord DEF Request
<1> QED BY <1>1, <1>2

\* What is presented to the memory is an address of XLEN bits.
LEMMA RequestsAreAddresses == MSpec => [](Request \in Words(XLEN))
<1>1. HartOK /\ LineRead => Request \in Words(XLEN)
  BY RequestIsAddress
<1> QED BY <1>1, WatchedKeeps, LineIsRead, PTL

\* Every step of main() is a step of the abstract memory: only executing a
\* line serves an access, the others present one or do nothing.
LEMMA StepIsLinked ==
  ASSUME HartOK, (Request \in Words(XLEN))', [MNext]_mvars
  PROVE  [Linked!LNext]_Linked!lvars
<1>1. Request' \in Words(XLEN) /\ Kind' \in Linked!Kinds
  BY KindsAsked DEF Kind, Linked!Kinds
<1>2. CASE ExecuteLine /\ reply' = IF faulted' THEN "none" ELSE Reply(Decoded[line])
  <2>1. PICK i \in Instructions : i = line /\ cpu_execute(i)
    BY <1>2 DEF ExecuteLine
  <2>2. Presents(Decoded[line])
    BY <1>2 DEF ExecuteLine, Request, Kind, Presents
  <2>3. Serves
    BY <1>2, <2>1, <2>2, InstructionServes
  <2> QED BY <1>1, <2>3 DEF Serves, Linked!LNext
<1>3. CASE (OpenInput \/ ReadInput \/ PrintStore \/ Stopped) /\ reply' = "none"
  <2>1. mem' = mem /\ UNCHANGED reservation
    BY <1>3 DEF OpenInput, ReadInput, SkipLine, GetLine, EndOfFile, PrintStore, Stopped, evars,
         vars, cpu, reservation
  <2>2. /\ phase # "executing" \/ faulted
        /\ faulted \/ faulted' => faulted' = TRUE
    <3>1. faulted \in BOOLEAN
      BY DEF HartOK, TypeOK
    <3>2. CASE PrintStore
      BY <3>1, <3>2 DEF PrintStore, Wild
    <3>3. CASE OpenInput \/ ReadInput
      BY <3>1, <3>3 DEF OpenInput, ReadInput, SkipLine, GetLine, EndOfFile, vars
    <3>4. CASE Stopped
      BY <3>1, <3>4 DEF Stopped, evars, vars
    <3> QED BY <1>3, <3>2, <3>3, <3>4
  <2>3. Linked!Other \/ Linked!End
    BY <1>3, <2>1, <2>2 DEF Linked!Other, Linked!End, Link, reservation, Kind
  <2>4. faulted \/ faulted' => Linked!End
    BY <1>3, <2>1, <2>2 DEF Linked!End, Link, reservation
  <2> QED BY <1>1, <2>3, <2>4 DEF Linked!LNext
<1>4. CASE UNCHANGED mvars
  <2>1. UNCHANGED <<regs, reserved_address, reservation_set, mem, phase, line, reply>>
    BY <1>4 DEF mvars, evars, vars, cpu, loop
  <2>2. \A d : Operand(d)' = Operand(d)
    BY <2>1, Zenon DEF Operand, Effective
  <2>3. Request' = Request /\ Kind' = Kind /\ faulted' = faulted
    BY <1>4, <2>1, <2>2, Zenon DEF Request, Kind, mvars, evars, vars
  <2>4. Link' = Link
    BY <2>1 DEF Link
  <2> QED BY <2>1, <2>3, <2>4 DEF Linked!lvars
<1> QED BY <1>2, <1>3, <1>4 DEF MNext

\* The emulator implements the linked memory: on any file, reservations taken
\* by LR alone, one success per reservation and at its address only, nothing
\* written by a failing SC or one to x0, and no byte written outside the
\* access an instruction makes.
THEOREM LinkedSpecHolds == MSpec => LinkedSpec
<1>1. MInit => Linked!LInit
  <2> SUFFICES ASSUME MInit PROVE Linked!LInit
    OBVIOUS
  <2>1. mem = [a \in Addresses |-> {}]
    BY DEF MInit, EInit, Init, memory_init
  <2>2. Link = NoAddress
    BY DEF MInit, EInit, Init, Link
  <2>3. Request \in Words(XLEN)
    BY ZeroIsWord DEF MInit, EInit, Request
  <2>4. reply = "none" /\ Kind = "none" /\ faulted = FALSE
    BY DEF MInit, EInit, Init, Kind
  <2> QED BY <2>1, <2>2, <2>3, <2>4 DEF Linked!LInit
<1>2. HartOK /\ (Request \in Words(XLEN))' /\ [MNext]_mvars
        => [Linked!LNext]_Linked!lvars
  BY StepIsLinked
<1> QED BY <1>1, <1>2, WatchedKeeps, RequestsAreAddresses, PTL DEF MSpec, LinkedSpec, Linked!LSpec

-----------------------------------------------------------------------------
(* The accesses of an instruction *)

\* Whether the handler accesses memory at all, and the accesses it then makes.
Makes(d) ==
  \/ d.inst_type \in StoreTypes \cup AmoTypes \cup {"FSW"}
  \/ d.inst_type \in ReadTypes \cup {"LR"} /\ d.rd # 0
  \/ d.inst_type = "SC" /\ d.rd # 0 /\ ScSucceeds(d)
Whole(d) ==
  IF d.inst_type \in PairTypes THEN Halves(Operand(d)[1]) ELSE {<<Operand(d)[1], Operand(d)[2]>>}

\* The operand of loads, stores and the floating-point ones, and of atomics.
LEMMA Operands ==
  ASSUME NEW d
  PROVE  /\ d.inst_type \in LoadTypes \cup StoreTypes \cup FloatMemTypes
              => /\ Operand(d)[1] = Effective(d)
                 /\ Operand(d)[2] = IF d.inst_type \in PairTypes THEN 8 ELSE Size(d.inst_type)
         /\ d.inst_type \in {"LR", "SC"} \cup AmoTypes
              => /\ Operand(d)[1] = regs[d.rs1] /\ Operand(d)[2] = AmoSize(d)
                 /\ d.inst_type \notin PairTypes
         /\ Operand(d)[2] \in {1, 2, 4, 8}
<1>1. d.inst_type \in LoadTypes \cup StoreTypes \cup FloatMemTypes
        => d.inst_type \notin {"LR", "SC"} \cup AmoTypes
  BY DEF LoadTypes, StoreTypes, FloatMemTypes, AmoTypes
<1>2. d.inst_type \in {"LR", "SC"} \cup AmoTypes => d.inst_type \notin PairTypes
  BY DEF AmoTypes, PairTypes
<1>3. CASE d.inst_type \in {"LR", "SC"} \cup AmoTypes
  <2>1. Operand(d) = <<regs[d.rs1], IF d.wide THEN 8 ELSE 4>>
    BY <1>3, Zenon DEF Operand
  <2> QED BY <1>1, <1>2, <1>3, <2>1 DEF AmoSize
<1>4. CASE d.inst_type \notin {"LR", "SC"} \cup AmoTypes
  <2>1. Operand(d) = <<Effective(d), IF d.inst_type \in PairTypes THEN 8 ELSE Size(d.inst_type)>>
    BY <1>4, Zenon DEF Operand
  <2>2. Size(d.inst_type) \in {1, 2, 4}
    BY DEF Size
  <2> QED BY <1>4, <2>1, <2>2
<1> QED BY <1>3, <1>4

\* What the handlers access is what the model says they do.
LEMMA AccessesMade ==
  ASSUME NEW d, d.inst_type \in MemoryTypes
  PROVE  Accesses(d) = IF Makes(d) THEN Whole(d) ELSE {}
<1> DEFINE a == Operand(d)[1]
           n == Operand(d)[2]
<1>1. CASE d.inst_type \in LoadTypes \cup StoreTypes
  <2>1. /\ d.inst_type \notin AmoTypes /\ d.inst_type # "SC" /\ d.inst_type # "LR"
        /\ d.inst_type \in {"LD", "SD"} <=> d.inst_type \in PairTypes
        /\ d.inst_type \in LoadTypes => d.inst_type \notin StoreTypes
        /\ d.inst_type # "FSW" /\ d.inst_type # "FLW" /\ d.inst_type # "FLD"
    BY <1>1 DEF LoadTypes, StoreTypes, AmoTypes, PairTypes
  <2>2. Accesses(d) = IF d.inst_type \in LoadTypes /\ d.rd = 0 THEN {}
                      ELSE IF d.inst_type \in {"LD", "SD"} THEN Halves(Effective(d))
                      ELSE {<<Effective(d), Size(d.inst_type)>>}
    BY <1>1, <2>1, Zenon DEF Accesses
  <2>3. /\ a = Effective(d)
        /\ n = IF d.inst_type \in PairTypes THEN 8 ELSE Size(d.inst_type)
    BY <1>1, Operands
  <2>4. Makes(d) <=> ~(d.inst_type \in LoadTypes /\ d.rd = 0)
    BY <1>1, <2>1 DEF Makes, ReadTypes
  <2> QED BY <2>1, <2>2, <2>3, <2>4 DEF Whole
<1>2. CASE d.inst_type \in FloatMemTypes
  <2>1. /\ d.inst_type \notin AmoTypes /\ d.inst_type # "SC" /\ d.inst_type # "LR"
        /\ d.inst_type \notin LoadTypes \cup StoreTypes
        /\ d.inst_type \in PairTypes <=> d.inst_type = "FLD"
    BY <1>2 DEF LoadTypes, StoreTypes, AmoTypes, PairTypes, FloatMemTypes
  <2>2. Accesses(d) = IF d.inst_type = "FSW" \/ (d.inst_type = "FLW" /\ d.rd # 0) THEN {<<Effective(d), 4>>}
                      ELSE IF d.inst_type = "FLD" /\ d.rd # 0 THEN Halves(Effective(d)) ELSE {}
    BY <2>1, Zenon DEF Accesses
  <2>3. a = Effective(d) /\ (d.inst_type # "FLD" => n = 4)
    BY <1>2, <2>1, Operands DEF Size, FloatMemTypes
  <2>4. Makes(d) <=> (d.inst_type = "FSW" \/ d.rd # 0)
    BY <1>2, <2>1 DEF Makes, ReadTypes, FloatMemTypes
  <2>5. d.inst_type \in {"FSW", "FLW", "FLD"}
    BY <1>2 DEF FloatMemTypes
  <2> QED BY <2>1, <2>2, <2>3, <2>4, <2>5 DEF Whole
<1>3. CASE d.inst_type \in {"LR", "SC"} \cup AmoTypes
  <2>1. /\ d.inst_type \notin LoadTypes \cup StoreTypes
        /\ d.inst_type # "FSW" /\ d.inst_type # "FLW" /\ d.inst_type # "FLD"
        /\ d.inst_type \in AmoTypes => d.inst_type # "LR" /\ d.inst_type # "SC"
    BY <1>3 DEF LoadTypes, StoreTypes, AmoTypes
  <2>2. a = regs[d.rs1] /\ n = AmoSize(d) /\ d.inst_type \notin PairTypes
    BY <1>3, Operands
  <2>3. Whole(d) = {<<regs[d.rs1], AmoSize(d)>>}
    BY <2>2 DEF Whole
  <2>4. CASE d.inst_type = "LR"
    <3>1. Makes(d) <=> d.rd # 0
      BY <2>1, <2>4 DEF Makes
    <3>2. Accesses(d) = IF d.rd # 0 THEN {<<regs[d.rs1], AmoSize(d)>>} ELSE {}
      <4>1. d.inst_type \notin AmoTypes /\ d.inst_type # "SC"
        BY <2>4 DEF AmoTypes
      <4> QED BY <2>1, <2>4, <4>1, Zenon DEF Accesses
    <3> QED BY <2>3, <3>1, <3>2
  <2>5. CASE d.inst_type = "SC"
    <3>1. d.inst_type \notin AmoTypes /\ d.inst_type # "LR"
      BY <2>5 DEF AmoTypes
    <3>2. Makes(d) <=> d.rd # 0 /\ ScSucceeds(d)
      BY <2>1, <2>5, <3>1 DEF Makes, ReadTypes
    <3>3. Accesses(d) = IF d.rd # 0 THEN (IF ScSucceeds(d) THEN {<<regs[d.rs1], AmoSize(d)>>} ELSE {}) ELSE {}
      BY <2>1, <2>5, <3>1, Zenon DEF Accesses
    <3> QED BY <2>3, <3>2, <3>3
  <2>6. CASE d.inst_type \in AmoTypes
    <3>1. Makes(d)
      BY <2>6 DEF Makes
    <3>2. Accesses(d) = {<<regs[d.rs1], AmoSize(d)>>}
      BY <2>1, <2>6, Zenon DEF Accesses
    <3> QED BY <2>3, <3>1, <3>2
  <2> QED BY <1>3, <2>4, <2>5, <2>6
<1> QED BY <1>1, <1>2, <1>3 DEF MemoryTypes, ReadTypes, FloatMemTypes

\* The handler an instruction of these types reaches.
LEMMA MemoryHandlers ==
  ASSUME NEW i \in Instructions, cpu_execute(i), NEW d, d = Decoded[i], d.inst_type \in MemoryTypes
  PROVE  \/ exec_load(d) \/ exec_store(d) \/ load_reserved(d) \/ store_conditional(d)
         \/ exec_amo(d) \/ exec_float_mem(d) \/ wild_access(d)
<1>1. \/ exec_alu_reg(d) \/ exec_alu_imm(d) \/ exec_rv64(d) \/ exec_load(d) \/ exec_store(d)
      \/ exec_branch(d) \/ exec_jump(d) \/ exec_upper(d)
      \/ exec_trap(d) \/ exec_return(d) \/ exec_csr(d) \/ exec_fence(d)
      \/ load_reserved(d) \/ store_conditional(d) \/ exec_amo(d)
      \/ exec_float_single(d) \/ exec_float_double(d) \/ exec_float_mem(d)
      \/ wild_access(d) \/ exec_unknown(d)
  BY DEF cpu_execute
<1>2. d.inst_type \notin AluRegTypes \cup AluImmTypes \cup Rv64Types \cup BranchTypes
        \cup JumpTypes \cup UpperTypes \cup TrapTypes \cup ReturnTypes \cup CsrTypes
        \cup FenceTypes \cup FloatSingleTypes \cup FloatDoubleTypes \cup {"UNKNOWN", "NONE"}
  BY DEF MemoryTypes, ReadTypes, LoadTypes, StoreTypes, AmoTypes, AluRegTypes, AluImmTypes, Rv64Types,
       BranchTypes, JumpTypes, UpperTypes, TrapTypes, ReturnTypes, CsrTypes, FenceTypes, FloatSingleTypes,
       FloatDoubleTypes, BothWidths, ToFloatTypes, ToRegisterTypes, FromRegisterTypes
<1>3. ~(\/ exec_alu_reg(d) \/ exec_alu_imm(d) \/ exec_rv64(d) \/ exec_branch(d) \/ exec_jump(d)
        \/ exec_upper(d) \/ exec_trap(d) \/ exec_return(d) \/ exec_csr(d) \/ exec_fence(d)
        \/ exec_float_single(d) \/ exec_float_double(d) \/ exec_unknown(d))
  BY <1>2 DEF exec_alu_reg, exec_alu_imm, exec_rv64, exec_branch, exec_jump, exec_upper, exec_trap,
       exec_return, exec_csr, exec_fence, exec_float_single, exec_float_double, exec_unknown, Enters
<1> QED BY <1>1, <1>3

\* The addresses that are presented are of XLEN bits.
LEMMA OperandIsWord ==
  ASSUME HartOK, NEW i \in Instructions, NEW d, d = Decoded[i]
  PROVE  /\ d.rs1 \in Registers /\ d.rs2 \in Registers /\ d.rd \in Registers
         /\ Operand(d)[1] \in Words(XLEN)
<1>1. d.rs1 \in Registers /\ d.rs2 \in Registers /\ d.rd \in Registers
  BY OperandsNameRegisters
<1>2. regs[d.rs1] \in Words(XLEN) /\ Effective(d) \in Words(XLEN)
  BY <1>1, AddIsWord DEF HartOK, TypeOK, Effective
<1>3. Operand(d)[1] \in {regs[d.rs1], Effective(d)}
  BY DEF Operand
<1> QED BY <1>1, <1>2, <1>3

\* An access inside memory does not end the process, nor do its halves.
LEMMA InsideDoesNotFault ==
  ASSUME BYTE = 8, HartOK, NEW i \in Instructions, NEW d, d = Decoded[i], d.inst_type \in MemoryTypes,
         Inside(Operand(d)[1], Operand(d)[2])
  PROVE  ~Faults(d)
<1> DEFINE a == Operand(d)[1]
           n == Operand(d)[2]
<1>1. n \in {1, 2, 4, 8} /\ n \in 1..8 /\ a \in Words(XLEN)
  BY Operands, OperandIsWord
<1>2. ~Wild(a, n)
  BY <1>1, AcceptedIsInside
<1>3. CASE d.inst_type \in PairTypes
  <2>1. n = 8
    <3>1. d.inst_type \in LoadTypes \cup StoreTypes \cup FloatMemTypes
      BY <1>3 DEF MemoryTypes, PairTypes, ReadTypes, AmoTypes, FloatMemTypes
    <3> QED BY <1>3, <3>1, Operands
  <2>2. Inside(a, 4) /\ Inside(Add(XLEN, a, Num(4)), 4)
    BY <1>1, <2>1, ShorterInside, PartsInside
  <2>3. ~Wild(a, 4) /\ ~Wild(Add(XLEN, a, Num(4)), 4)
    BY <2>2, AcceptedIsInside
  <2>4. Accesses(d) \subseteq {<<a, 4>>, <<Add(XLEN, a, Num(4)), 4>>}
    BY <1>3, AccessesMade DEF Whole, Halves
  <2> HIDE DEF a
  <2> QED BY <2>3, <2>4 DEF Faults
<1>4. CASE d.inst_type \notin PairTypes
  <2>1. Accesses(d) \subseteq {<<a, n>>}
    BY <1>4, AccessesMade DEF Whole
  <2> HIDE DEF a, n
  <2> QED BY <1>2, <2>1 DEF Faults
<1> QED BY <1>3, <1>4

\* What the handler of an access outside memory reads is 0, and what it
\* writes is dropped.
LEMMA OutsideDoesNothing ==
  ASSUME BYTE = 8, NEW d, d.inst_type \in MemoryTypes, Makes(d), ~Faults(d),
         Outside(d, Operand(d)[1], Operand(d)[2]), NEW m, NEW value
  PROVE  /\ d.inst_type \notin PairTypes
              => /\ memory_read(m, Operand(d)[1], Operand(d)[2]) = {}
                 /\ memory_write(m, Operand(d)[1], Operand(d)[2], value) = m
         /\ d.inst_type \in PairTypes
              => /\ memory_read(m, Operand(d)[1], 4) = {}
                 /\ memory_read(m, Add(XLEN, Operand(d)[1], Num(4)), 4) = {}
                 /\ memory_write(m, Operand(d)[1], 4, value) = m
                 /\ memory_write(m, Add(XLEN, Operand(d)[1], Num(4)), 4, value) = m
<1> DEFINE a == Operand(d)[1]
           n == Operand(d)[2]
           next == Add(XLEN, a, Num(4))
<1>1. Accesses(d) = Whole(d)
  BY AccessesMade
<1>2. CASE d.inst_type \in PairTypes
  <2>1. <<a, 4>> \in Halves(a) /\ <<next, 4>> \in Halves(a) /\ Accesses(d) = Halves(a)
    BY <1>1, <1>2 DEF Whole, Halves
  <2>2. ~Wild(a, 4) /\ ~Wild(next, 4)
    BY <2>1, NotWild
  <2>3. ~Inside(a, 4) /\ ~Inside(next, 4)
    <3>1. \A half \in Halves(a) : ~Inside(half[1], half[2])
      BY <1>2 DEF Outside
    <3>2. \A x, k : <<x, k>> \in Halves(a) => ~Inside(x, k)
      <4> TAKE x, k
      <4>1. <<x, k>>[1] = x /\ <<x, k>>[2] = k
        OBVIOUS
      <4> QED BY <3>1, <4>1, Zenon
    <3> QED BY <2>1, <3>2, Zenon
  <2> HIDE DEF a, next
  <2>4. 4 \in 1..8
    OBVIOUS
  <2>5. memory_read(m, a, 4) = {} /\ memory_write(m, a, 4, value) = m
    BY <2>2, <2>3, <2>4, OutsideIsRefused, Zenon
  <2>6. memory_read(m, next, 4) = {} /\ memory_write(m, next, 4, value) = m
    BY <2>2, <2>3, <2>4, OutsideIsRefused, Zenon
  <2> QED BY <1>2, <2>5, <2>6 DEF a, next
<1>3. CASE d.inst_type \notin PairTypes
  <2>1. <<a, n>> \in Accesses(d)
    BY <1>1, <1>3 DEF Whole
  <2>2. ~Wild(a, n) /\ ~Inside(a, n) /\ n \in 1..8
    BY <1>3, <2>1, NotWild, Operands DEF Outside
  <2> QED BY <1>3, <2>2, OutsideIsRefused
<1> QED BY <1>2, <1>3
\* The other steps of main() execute nothing.
LEMMA OnlyExecuteLineExecutes ==
  ASSUME OpenInput \/ ReadInput \/ PrintStore \/ Stopped \/ UNCHANGED mvars
  PROVE  phase # "executing" \/ phase' = phase
  BY DEF OpenInput, ReadInput, SkipLine, GetLine, EndOfFile, PrintStore, Stopped, evars, loop, mvars

-----------------------------------------------------------------------------
(* All or nothing *)

\* 0 stays 0 through every conversion of a loaded value.
LEMMA ZeroStays ==
  \A m, n, k : Trunc(n, {}) = {} /\ SignExt(m, n, {}) = {} /\ ShiftL(n, {}, k) = {}
  BY DEF Trunc, SignExt, ShiftL

\* What the handlers leave in the register they write.
LEMMA RegisterWritten ==
  ASSUME HartOK, NEW rd \in Registers, NEW value
  PROVE  /\ rd # 0 /\ SetReg(rd, value) => regs'[rd] = Trunc(XLEN, value)
         /\ SetFreg(rd, value) => fregs'[rd] = Trunc(WORD, value)
         /\ SetDfreg(rd, value) => dfregs'[rd] = Trunc(2 * WORD, value)
  BY DEF SetReg, SetFreg, SetDfreg, HartOK, TypeOK

\* A load outside memory puts 0 in its register.
LEMMA LoadOutside ==
  ASSUME BYTE = 8, HartOK, NEW d, d.rd \in Registers, exec_load(d), d.rd # 0,
         Outside(d, Operand(d)[1], Operand(d)[2])
  PROVE  regs'[d.rd] = {}
<1> DEFINE a == Effective(d)
           value == Loaded(d.inst_type, a)
<1>1. d.inst_type \in LoadTypes /\ ~Faults(d) /\ SetReg(d.rd, value)
  BY DEF exec_load, Enters
<1>2. Makes(d) /\ d.inst_type \in MemoryTypes /\ Operand(d)[1] = a
  BY <1>1, Operands DEF Makes, ReadTypes, MemoryTypes
<1>3. d.inst_type \in PairTypes <=> d.inst_type = "LD"
  BY <1>1 DEF LoadTypes, PairTypes
<1>4. memory_read(mem, a, Size(d.inst_type)) = {}
  <2>1. CASE d.inst_type = "LD"
    <3>1. Size(d.inst_type) = 4
      BY <2>1 DEF Size
    <3> QED BY <1>1, <1>2, <1>3, <2>1, <3>1, OutsideDoesNothing
  <2>2. CASE d.inst_type # "LD"
    <3>1. Operand(d)[2] = Size(d.inst_type)
      BY <1>1, <1>3, <2>2, Operands
    <3> QED BY <1>1, <1>2, <1>3, <2>2, <3>1, OutsideDoesNothing
  <2> QED BY <2>1, <2>2
<1>5. d.inst_type = "LD" => memory_read(mem, Add(XLEN, a, Num(4)), 4) = {}
  BY <1>1, <1>2, <1>3, OutsideDoesNothing
<1>6. value = {}
  <2> HIDE DEF a
  <2>1. CASE d.inst_type \in {"LBU", "LHU", "LWU"}
    BY <1>4, <2>1 DEF Loaded
  <2>2. CASE d.inst_type = "LD"
    BY <1>4, <1>5, <2>2, ZeroStays DEF Loaded
  <2>3. CASE d.inst_type \notin {"LBU", "LHU", "LWU", "LD"}
    BY <1>4, <2>3, ZeroStays DEF Loaded
  <2> QED BY <2>1, <2>2, <2>3
<1> HIDE DEF value
<1> QED BY <1>1, <1>6, RegisterWritten, ZeroStays

\* So do LR and the AMOs.
LEMMA AtomicOutside ==
  ASSUME BYTE = 8, HartOK, NEW d, d.rd \in Registers, load_reserved(d) \/ exec_amo(d), d.rd # 0,
         Outside(d, Operand(d)[1], Operand(d)[2])
  PROVE  regs'[d.rd] = {}
<1> DEFINE value == memory_read(mem, regs[d.rs1], AmoSize(d))
<1>1. d.inst_type \in {"LR"} \cup AmoTypes /\ ~Faults(d) /\ SetReg(d.rd, AtomicResult(d, value))
  BY DEF load_reserved, exec_amo, Enters
<1>2. Makes(d) /\ d.inst_type \in MemoryTypes
  BY <1>1 DEF Makes, MemoryTypes
<1>3. Operand(d)[1] = regs[d.rs1] /\ Operand(d)[2] = AmoSize(d) /\ d.inst_type \notin PairTypes
  BY <1>1, Operands
<1>4. value = {}
  BY <1>1, <1>2, <1>3, OutsideDoesNothing
<1>5. AtomicResult(d, value) = {}
  BY <1>4, ZeroStays DEF AtomicResult
<1> HIDE DEF value
<1> QED BY <1>1, <1>5, RegisterWritten, ZeroStays

\* And FLW and FLD.
LEMMA FloatOutside ==
  ASSUME BYTE = 8, HartOK, NEW d, d.rd \in Registers, exec_float_mem(d), d.rd # 0,
         Outside(d, Operand(d)[1], Operand(d)[2])
  PROVE  /\ d.inst_type = "FLW" => fregs'[d.rd] = {}
         /\ d.inst_type = "FLD" => dfregs'[d.rd] = {}
<1> DEFINE a == Effective(d)
<1>1. d.inst_type \in FloatMemTypes /\ ~Faults(d)
  BY DEF exec_float_mem, Enters
<1>2. Makes(d) /\ d.inst_type \in MemoryTypes /\ Operand(d)[1] = a
  BY <1>1, Operands DEF Makes, ReadTypes, MemoryTypes, FloatMemTypes
<1>3. CASE d.inst_type = "FLW"
  <2>1. Operand(d)[2] = 4 /\ d.inst_type \notin PairTypes
    BY <1>1, <1>3, Operands DEF PairTypes, Size
  <2>2. memory_read(mem, a, 4) = {}
    BY <1>1, <1>2, <2>1, OutsideDoesNothing
  <2>3. SetFreg(d.rd, {})
    BY <1>3, <2>2 DEF exec_float_mem
  <2> QED BY <1>3, <2>3, RegisterWritten, ZeroStays
<1>4. CASE d.inst_type = "FLD"
  <2>1. d.inst_type \in PairTypes
    BY <1>4 DEF PairTypes
  <2>2. memory_read(mem, a, 4) = {} /\ memory_read(mem, Add(XLEN, a, Num(4)), 4) = {}
    BY <1>1, <1>2, <2>1, OutsideDoesNothing
  <2>3. DoubleAt(a) = {}
    BY <2>2, ZeroStays DEF DoubleAt
  <2>4. SetDfreg(d.rd, {})
    BY <1>4, <2>3 DEF exec_float_mem
  <2> QED BY <1>4, <2>4, RegisterWritten, ZeroStays
<1> QED BY <1>3, <1>4

\* A store, an AMO or an SC outside memory leaves it as it was.
LEMMA WriteOutside ==
  ASSUME BYTE = 8, NEW d, d.inst_type \in MemoryTypes,
         \/ exec_load(d) \/ exec_store(d) \/ load_reserved(d) \/ store_conditional(d)
         \/ exec_amo(d) \/ exec_float_mem(d) \/ wild_access(d),
         Outside(d, Operand(d)[1], Operand(d)[2])
  PROVE  mem' = mem
<1> DEFINE a == Operand(d)[1]
           n == Operand(d)[2]
<1>1. CASE exec_load(d) \/ load_reserved(d) \/ wild_access(d)
  BY <1>1 DEF exec_load, load_reserved, wild_access
<1>2. CASE exec_store(d)
  <2>1. d.inst_type \in StoreTypes /\ ~Faults(d) /\ mem' = Stored(d.inst_type, Effective(d), regs[d.rs2])
    BY <1>2 DEF exec_store, Enters
  <2>2. Makes(d) /\ a = Effective(d) /\ (d.inst_type \in PairTypes <=> d.inst_type = "SD")
    BY <2>1, Operands DEF Makes, StoreTypes, PairTypes
  <2>3. n = IF d.inst_type = "SD" THEN 8 ELSE Size(d.inst_type)
    BY <2>1, <2>2, Operands
  <2>4. CASE d.inst_type = "SD"
    <3>1. \A value : /\ memory_write(mem, a, 4, value) = mem
                     /\ memory_write(mem, Add(XLEN, a, Num(4)), 4, value) = mem
      BY <2>1, <2>2, <2>4, OutsideDoesNothing
    <3>2. Size(d.inst_type) = 4
      BY <2>4 DEF Size
    <3> QED BY <2>1, <2>2, <2>4, <3>1, <3>2 DEF Stored
  <2>5. CASE d.inst_type # "SD"
    <3>1. \A value : memory_write(mem, a, n, value) = mem
      BY <2>1, <2>2, <2>5, OutsideDoesNothing
    <3> QED BY <2>1, <2>2, <2>3, <2>5, <3>1 DEF Stored
  <2> QED BY <2>4, <2>5
<1>3. CASE store_conditional(d)
  <2>1. d.inst_type = "SC" /\ ~Faults(d)
    BY <1>3 DEF store_conditional, Enters
  <2>2. CASE d.rd # 0 /\ ScSucceeds(d)
    <3>1. Makes(d) /\ a = regs[d.rs1] /\ n = AmoSize(d) /\ d.inst_type \notin PairTypes
      BY <2>1, <2>2, Operands DEF Makes
    <3>2. mem' = memory_write(mem, a, n, regs[d.rs2])
      BY <1>3, <2>2, <3>1 DEF store_conditional
    <3> QED BY <2>1, <3>1, <3>2, OutsideDoesNothing
  <2>3. CASE ~(d.rd # 0 /\ ScSucceeds(d))
    BY <1>3, <2>3 DEF store_conditional
  <2> QED BY <2>2, <2>3
<1>4. CASE exec_amo(d)
  <2>1. d.inst_type \in AmoTypes /\ ~Faults(d)
    BY <1>4 DEF exec_amo, Enters
  <2>2. Makes(d) /\ a = regs[d.rs1] /\ n = AmoSize(d) /\ d.inst_type \notin PairTypes
    BY <2>1, Operands DEF Makes
  <2>3. PICK value : mem' = memory_write(mem, a, n, value)
    BY <1>4, <2>2 DEF exec_amo
  <2> QED BY <2>1, <2>2, <2>3, OutsideDoesNothing
<1>5. CASE exec_float_mem(d)
  <2>1. d.inst_type \in FloatMemTypes /\ ~Faults(d)
    BY <1>5 DEF exec_float_mem, Enters
  <2>2. CASE d.inst_type = "FSW"
    <3>1. Makes(d) /\ a = Effective(d) /\ n = 4 /\ d.inst_type \notin PairTypes
      BY <2>1, <2>2, Operands DEF Makes, PairTypes, Size
    <3>2. mem' = memory_write(mem, a, n, fregs[d.rs2])
      BY <1>5, <2>2, <3>1 DEF exec_float_mem
    <3> QED BY <2>1, <3>1, <3>2, OutsideDoesNothing
  <2>3. CASE d.inst_type # "FSW"
    BY <1>5, <2>3 DEF exec_float_mem
  <2> QED BY <2>2, <2>3
<1> QED BY <1>1, <1>2, <1>3, <1>4, <1>5

\* One instruction.
LEMMA InstructionIsAllOrNothing ==
  ASSUME BYTE = 8, HartOK, NEW i \in Instructions, cpu_execute(i), NEW d, d = Decoded[i],
         d.inst_type \in MemoryTypes
  PROVE  AllOrNothing(d)
<1> DEFINE a == Operand(d)[1]
           n == Operand(d)[2]
<1>1. \/ exec_load(d) \/ exec_store(d) \/ load_reserved(d) \/ store_conditional(d)
      \/ exec_amo(d) \/ exec_float_mem(d) \/ wild_access(d)
  BY MemoryHandlers
<1>2. d.rd \in Registers
  BY OperandIsWord
<1>3. Inside(a, n) => ~faulted'
  <2>1. Inside(a, n) => ~wild_access(d)
    BY InsideDoesNotFault DEF wild_access
  <2>2. ~wild_access(d) => ~faulted'
    BY <1>1 DEF exec_load, exec_store, load_reserved, store_conditional, exec_amo, exec_float_mem, Enters
  <2> QED BY <1>1, <2>1, <2>2
<1>4. ASSUME Outside(d, a, n), d.inst_type \in ReadTypes \cup {"LR"} \cup AmoTypes, d.rd # 0, ~faulted'
      PROVE  Result(d) = {}
  <2>1. ~wild_access(d)
    BY <1>4 DEF wild_access
  <2>2. CASE d.inst_type \in LoadTypes
    <3>1. exec_load(d)
      BY <1>1, <2>1, <2>2 DEF exec_store, load_reserved, store_conditional, exec_amo, exec_float_mem,
           Enters, LoadTypes, StoreTypes, AmoTypes, FloatMemTypes
    <3>2. Result(d) = regs'[d.rd]
      BY <2>2 DEF Result, LoadTypes
    <3> QED BY <1>2, <1>4, <3>1, <3>2, LoadOutside
  <2>3. CASE d.inst_type \in {"LR"} \cup AmoTypes
    <3>1. load_reserved(d) \/ exec_amo(d)
      BY <1>1, <2>1, <2>3 DEF exec_load, exec_store, store_conditional, exec_float_mem,
           Enters, LoadTypes, StoreTypes, AmoTypes, FloatMemTypes
    <3>2. Result(d) = regs'[d.rd]
      BY <2>3 DEF Result, AmoTypes
    <3> QED BY <1>2, <1>4, <3>1, <3>2, AtomicOutside
  <2>4. CASE d.inst_type \in {"FLW", "FLD"}
    <3>1. exec_float_mem(d)
      BY <1>1, <2>1, <2>4 DEF exec_load, exec_store, load_reserved, store_conditional, exec_amo,
           Enters, LoadTypes, StoreTypes, AmoTypes
    <3>2. Result(d) = IF d.inst_type = "FLW" THEN fregs'[d.rd] ELSE dfregs'[d.rd]
      BY <2>4 DEF Result
    <3> QED BY <1>2, <1>4, <2>4, <3>1, <3>2, FloatOutside
  <2> QED BY <1>4, <2>2, <2>3, <2>4 DEF ReadTypes
<1>5. Outside(d, a, n) => mem' = mem
  BY <1>1, WriteOutside
<1> QED BY <1>3, <1>4, <1>5 DEF AllOrNothing

\* An access outside memory writes nothing and returns 0 or ends the process,
\* and one inside memory never ends it: over every file, memory size and
\* address, through the wrap of the bounds check too.
THEOREM AccessesAreAllOrNothingHolds ==
  ASSUME BYTE = 8
  PROVE  MSpec => AccessesAreAllOrNothing
<1>1. HartOK /\ LoopOK /\ [MNext]_mvars => [Executes(MemoryTypes, AllOrNothing)]_mvars
  <2> SUFFICES ASSUME HartOK, [MNext]_mvars
               PROVE  [Executes(MemoryTypes, AllOrNothing)]_mvars
    OBVIOUS
  <2>1. CASE ExecuteLine
    <3>1. PICK i \in Instructions : i = line /\ cpu_execute(i)
      BY <2>1 DEF ExecuteLine
    <3> QED BY <3>1, InstructionIsAllOrNothing DEF Executes
  <2>2. CASE OpenInput \/ ReadInput \/ PrintStore \/ Stopped \/ UNCHANGED mvars
    BY <2>2, OnlyExecuteLineExecutes DEF Executes
  <2> QED BY <2>1, <2>2 DEF MNext
<1> QED BY WatchedKeeps, <1>1, PTL DEF MSpec, AccessesAreAllOrNothing
-----------------------------------------------------------------------------
(* Stores *)

\* A store inside memory is one write of its bytes, SD's two writes too.
LEMMA StoreIsOneWrite ==
  ASSUME BYTE = 8, HartOK, NEW d, Operand(d)[1] \in Words(XLEN), exec_store(d) \/ exec_float_mem(d),
         d.inst_type \in StoreTypes \cup {"FSW"}, Inside(Operand(d)[1], Operand(d)[2])
  PROVE  mem' = memory_write(mem, Operand(d)[1], Operand(d)[2], StoreData(d))
<1> DEFINE a == Operand(d)[1]
           n == Operand(d)[2]
<1>1. CASE d.inst_type = "FSW"
  <2>1. exec_float_mem(d)
    BY <1>1 DEF exec_store, Enters, StoreTypes
  <2>2. a = Effective(d) /\ n = 4
    BY <1>1, Operands DEF PairTypes, Size, FloatMemTypes
  <2>3. mem' = memory_write(mem, a, n, fregs[d.rs2])
    BY <1>1, <2>1, <2>2 DEF exec_float_mem
  <2> QED BY <1>1, <2>3 DEF StoreData
<1>2. CASE d.inst_type \in StoreTypes
  <2>1. exec_store(d) /\ StoreData(d) = regs[d.rs2]
    BY <1>2 DEF exec_float_mem, Enters, StoreTypes, FloatMemTypes, StoreData
  <2>2. a = Effective(d) /\ n = IF d.inst_type = "SD" THEN 8 ELSE Size(d.inst_type)
    BY <1>2, Operands DEF PairTypes, StoreTypes
  <2>3. mem' = Stored(d.inst_type, a, regs[d.rs2])
    BY <2>1, <2>2 DEF exec_store
  <2>4. CASE d.inst_type # "SD"
    BY <2>1, <2>2, <2>3, <2>4 DEF Stored
  <2>5. CASE d.inst_type = "SD"
    <3>1. Size(d.inst_type) = 4 /\ XLEN = 64
      <4>1. RV64
        BY <1>2, <2>5 DEF StoreTypes
      <4> QED BY <2>5, <4>1, ByteWidths DEF Size, RV64
    <3>2. mem' = memory_write(memory_write(mem, a, 4, regs[d.rs2]), Add(XLEN, a, Num(4)), 4,
                              ShiftR(XLEN, regs[d.rs2], WORD))
      BY <2>3, <2>5, <3>1 DEF Stored
    <3>3. mem \in [Addresses -> Byte]
      BY DEF HartOK, TypeOK
    <3>4. n = 8
      BY <2>2, <2>5
    <3> QED BY <2>1, <3>1, <3>2, <3>3, <3>4, HalvesWriteWhole
  <2> QED BY <2>4, <2>5
<1> QED BY <1>1, <1>2

\* A byte that is read alone is the byte that was written at its place.
LEMMA WriteThenReadByte ==
  ASSUME BYTE = 8, NEW m \in [Addresses -> Byte], NEW address \in Words(XLEN), NEW n \in {1, 2, 4, 8},
         Inside(address, n), NEW value, NEW k \in 0..(n - 1), 8 * n <= XLEN
  PROVE  memory_read(memory_write(m, address, n, value), Add(XLEN, address, Num(k)), 1)
           = Trunc(8, ShiftR(XLEN, value, 8 * k))
<1> DEFINE w == memory_write(m, address, n, value)
           next == Add(XLEN, address, Num(k))
<1>1. Inside(next, 1) /\ Index(next, 0) = Index(address, k)
  <2>1. n \in 1..8 /\ 1 \in 1..(n - k) /\ 0 \in 0..(1 - 1) /\ k + 0 = k
    OBVIOUS
  <2> QED BY <2>1, PartsInside
<1>2. w[Index(address, k)] = ByteOf(value, k)
  BY WriteInside
<1>3. memory_read(w, next, 1) = {i \in Bits(8 * 1) : (i % 8) \in w[Index(next, i \div 8)]}
  BY <1>1, ReadInside
<1> HIDE DEF w, next
<1>4. \A i \in Bits(8) : i % 8 = i /\ i \div 8 = 0
  BY DEF Bits
<1>5. memory_read(w, next, 1) = {i \in Bits(8) : i \in ByteOf(value, k)}
  BY <1>1, <1>2, <1>3, <1>4
<1>6. XLEN \in {32, 64}
  BY ByteWidths
<1>7. \A i \in Bits(8) : i \in ShiftR(XLEN, value, 8 * k) <=> i + 8 * k \in value
  BY <1>6 DEF Bits, ShiftR
<1> QED BY <1>5, <1>7 DEF ByteOf, Trunc, w, next

\* So what is stored is read back, whole and by bytes.
LEMMA InstructionReadsBack ==
  ASSUME BYTE = 8, HartOK, NEW i \in Instructions, cpu_execute(i), NEW d, d = Decoded[i],
         d.inst_type \in StoreTypes \cup {"FSW"}
  PROVE  ReadsBack(d)
<1> DEFINE a == Operand(d)[1]
           n == Operand(d)[2]
<1> SUFFICES ASSUME Inside(a, n)
             PROVE  /\ memory_read(mem', a, n) = Trunc(BYTE * n, StoreData(d))
                    /\ \A k \in 0..(n - 1) :
                         memory_read(mem', Add(XLEN, a, Num(k)), 1)
                           = Trunc(BYTE, ShiftR(XLEN, StoreData(d), BYTE * k))
                    /\ \A x \in Addresses \ Index(a, 0)..Index(a, n - 1) : mem'[x] = mem[x]
  BY DEF ReadsBack
<1>1. d.inst_type \in MemoryTypes /\ a \in Words(XLEN) /\ mem \in [Addresses -> Byte]
  BY OperandIsWord DEF MemoryTypes, HartOK, TypeOK
<1>2. n \in {1, 2, 4, 8} /\ n \in 1..8 /\ 8 * n <= XLEN
  <2>1. n \in {1, 2, 4, 8} /\ XLEN \in {32, 64}
    BY Operands, ByteWidths
  <2>2. n = 8 => XLEN = 64
    <3>1. d.inst_type \in PairTypes => RV64
      BY DEF PairTypes, StoreTypes
    <3>2. d.inst_type \in LoadTypes \cup StoreTypes \cup FloatMemTypes
      BY DEF FloatMemTypes
    <3>3. d.inst_type \notin PairTypes => n \in {1, 2, 4}
      BY <3>2, Operands DEF Size
    <3> QED BY <2>1, <3>1, <3>3, ByteWidths DEF RV64
  <2> QED BY <2>1, <2>2
<1>3. exec_store(d) \/ exec_float_mem(d)
  <2>1. ~wild_access(d)
    BY <1>1, InsideDoesNotFault DEF wild_access
  <2> QED BY <1>1, <2>1, MemoryHandlers DEF exec_load, load_reserved, store_conditional, exec_amo,
           Enters, LoadTypes, StoreTypes, AmoTypes
<1>4. mem' = memory_write(mem, a, n, StoreData(d))
  BY <1>1, <1>3, StoreIsOneWrite
<1> HIDE DEF a, n
<1>5. memory_read(mem', a, n) = Trunc(8 * n, StoreData(d))
  BY <1>1, <1>2, <1>4, WriteThenRead
<1>6. \A k \in 0..(n - 1) :
        memory_read(mem', Add(XLEN, a, Num(k)), 1) = Trunc(8, ShiftR(XLEN, StoreData(d), 8 * k))
  BY <1>1, <1>2, <1>4, WriteThenReadByte
<1>7. \A x \in Addresses \ Index(a, 0)..Index(a, n - 1) : mem'[x] = mem[x]
  <2> DEFINE last == Index(a, n - 1)
  <2> SUFFICES ASSUME NEW x \in Addresses \ Index(a, 0)..last PROVE mem'[x] = mem[x]
    OBVIOUS
  <2>0. last = Index(a, n - 1)
    OBVIOUS
  <2> HIDE DEF last
  <2>1. Inside(a, n) /\ mem \in [Addresses -> Byte] /\ n \in 1..8
    BY <1>1, <1>2
  <2>2. \A value : memory_write(mem, a, n, value)[x] = mem[x]
    BY <2>0, <2>1, WriteFrame
  <2>3. memory_write(mem, a, n, StoreData(d))[x] = mem[x]
    BY <2>2
  <2> QED BY <1>4, <2>3
<1> QED BY <1>5, <1>6, <1>7

\* What is stored inside memory is what is read back, and no other byte
\* changes: for every value, width and address, misaligned or not, through
\* one write or SD's two.
THEOREM StoresReadBackHolds ==
  ASSUME BYTE = 8
  PROVE  MSpec => StoresReadBack
<1>1. HartOK /\ LoopOK /\ [MNext]_mvars => [Executes(StoreTypes \cup {"FSW"}, ReadsBack)]_mvars
  <2> SUFFICES ASSUME HartOK, [MNext]_mvars
               PROVE  [Executes(StoreTypes \cup {"FSW"}, ReadsBack)]_mvars
    OBVIOUS
  <2>1. CASE ExecuteLine
    <3>1. PICK i \in Instructions : i = line /\ cpu_execute(i)
      BY <2>1 DEF ExecuteLine
    <3> QED BY <3>1, InstructionReadsBack DEF Executes
  <2>2. CASE OpenInput \/ ReadInput \/ PrintStore \/ Stopped \/ UNCHANGED mvars
    BY <2>2, OnlyExecuteLineExecutes DEF Executes
  <2> QED BY <2>1, <2>2 DEF MNext
<1> QED BY WatchedKeeps, <1>1, PTL DEF MSpec, StoresReadBack

-----------------------------------------------------------------------------
(* SC *)

\* An SC that reports success has written its operand, or nothing when that
\* lies outside memory.
LEMMA ScReports ==
  ASSUME BYTE = 8, HartOK, NEW d, d.rd \in Registers, store_conditional(d), reply' = Reply(d)
  PROVE  StoresReported(d)
<1> DEFINE a == Operand(d)[1]
           n == Operand(d)[2]
<1> SUFFICES ASSUME d.rd # 0, reply' = "ok"
             PROVE  IF Inside(a, n) THEN memory_read(mem', a, n) = Trunc(BYTE * n, regs[d.rs2])
                                    ELSE mem' = mem
  BY DEF StoresReported
<1>1. d.inst_type = "SC" /\ ~Faults(d)
  BY DEF store_conditional, Enters
<1>2. a = regs[d.rs1] /\ n = AmoSize(d) /\ d.inst_type \notin PairTypes
  BY <1>1, Operands
<1>3. ScSucceeds(d)
  <2>1. regs'[d.rd] = Trunc(XLEN, Flag(~ScSucceeds(d)))
    BY DEF store_conditional, SetReg, HartOK, TypeOK
  <2>2. regs'[d.rd] = {}
    BY <1>1 DEF Reply
  <2>3. ~ScSucceeds(d) => 0 \in Trunc(XLEN, Flag(~ScSucceeds(d)))
    BY WordsOfNaturals DEF Flag, One, Trunc, Bits
  <2> QED BY <2>1, <2>2, <2>3
<1>4. mem' = memory_write(mem, a, n, regs[d.rs2])
  BY <1>2, <1>3 DEF store_conditional
<1>5. n \in 1..8 /\ mem \in [Addresses -> Byte]
  BY Operands DEF HartOK, TypeOK
<1>6. CASE Inside(a, n)
  <2> HIDE DEF a, n
  <2> QED BY <1>4, <1>5, <1>6, WriteThenRead
<1>7. CASE ~Inside(a, n)
  <2>1. Makes(d) /\ d.inst_type \in MemoryTypes /\ Outside(d, a, n)
    BY <1>1, <1>2, <1>3, <1>7 DEF Makes, MemoryTypes, Outside
  <2> QED BY <1>1, <1>2, <1>4, <1>7, <2>1, OutsideDoesNothing
<1> QED BY <1>6, <1>7

\* An SC that reports success over any file has stored what it was to, if
\* its address is inside memory, and otherwise nothing.
THEOREM ScStoresWhatItReportsHolds ==
  ASSUME BYTE = 8
  PROVE  MSpec => ScStoresWhatItReports
<1>1. HartOK /\ LoopOK /\ [MNext]_mvars => [Executes({"SC"}, StoresReported)]_mvars
  <2> SUFFICES ASSUME HartOK, [MNext]_mvars
               PROVE  [Executes({"SC"}, StoresReported)]_mvars
    OBVIOUS
  <2>1. CASE ExecuteLine /\ reply' = IF faulted' THEN "none" ELSE Reply(Decoded[line])
    <3>1. PICK i \in Instructions : i = line /\ cpu_execute(i)
      BY <2>1 DEF ExecuteLine
    <3> DEFINE d == Decoded[line]
    <3>2. d = Decoded[i]
      BY <3>1
    <3> HIDE DEF d
    <3> SUFFICES ASSUME d.inst_type = "SC" PROVE StoresReported(d)
      BY DEF Executes, d
    <3>3. d.rd \in Registers
      BY <3>2, OperandIsWord
    <3>4. CASE store_conditional(d)
      <4>1. ~faulted'
        BY <3>4 DEF store_conditional, Enters
      <4>2. reply' = Reply(d)
        BY <2>1, <4>1 DEF d
      <4> QED BY <3>3, <3>4, <4>2, ScReports
    <3>5. CASE ~store_conditional(d)
      <4>1. d.inst_type \in MemoryTypes
        BY DEF MemoryTypes
      <4>2. wild_access(d)
        BY <3>1, <3>2, <3>5, <4>1, MemoryHandlers DEF exec_load, exec_store, load_reserved, exec_amo,
           exec_float_mem, Enters, LoadTypes, StoreTypes, AmoTypes, FloatMemTypes
      <4>3. reply' = "none"
        BY <2>1, <4>2 DEF wild_access
      <4> QED BY <4>3 DEF StoresReported
    <3> QED BY <3>4, <3>5
  <2>2. CASE OpenInput \/ ReadInput \/ PrintStore \/ Stopped \/ UNCHANGED mvars
    BY <2>2, OnlyExecuteLineExecutes DEF Executes
  <2> QED BY <2>1, <2>2 DEF MNext
<1> QED BY WatchedKeeps, <1>1, PTL DEF MSpec, ScStoresWhatItReports

-----------------------------------------------------------------------------
(* Loads *)

\* What a load inside memory leaves in its register is one read of its
\* width, with the sign in the upper bits or not.
LEMMA LoadIsOneRead ==
  ASSUME BYTE = 8, HartOK, NEW d, d.rd \in Registers, Operand(d)[1] \in Words(XLEN),
         exec_load(d) \/ exec_float_mem(d), d.inst_type \in ReadTypes, d.rd # 0,
         Inside(Operand(d)[1], Operand(d)[2]),
         NEW v, v = memory_read(mem, Operand(d)[1], Operand(d)[2])
  PROVE  /\ v \in Words(8 * Operand(d)[2])
         /\ d.inst_type \in {"LB", "LH", "LW"}
              => 8 * Operand(d)[2] <= XLEN /\ Result(d) = SignExt(8 * Operand(d)[2], XLEN, v)
         /\ d.inst_type \notin {"LB", "LH", "LW"} => Result(d) = v
<1> DEFINE a == Operand(d)[1]
           n == Operand(d)[2]
<1>1. a = Effective(d) /\ n = (IF d.inst_type \in PairTypes THEN 8 ELSE Size(d.inst_type)) /\ n \in 1..8
  <2>1. d.inst_type \in LoadTypes \cup FloatMemTypes
    BY DEF ReadTypes, FloatMemTypes
  <2> QED BY <2>1, Operands
<1>2. v \in Words(8 * n)
  BY <1>1, ReadInside DEF Words
<1>3. WORD = 32 /\ XLEN \in {32, 64} /\ mem \in [Addresses -> Byte]
  BY ByteWidths DEF HartOK, TypeOK
<1>4. CASE d.inst_type \in LoadTypes
  <2>1. exec_load(d)
    BY <1>4 DEF exec_float_mem, Enters, LoadTypes, FloatMemTypes
  <2>2. Result(d) = Trunc(XLEN, Loaded(d.inst_type, a))
    <3>1. SetReg(d.rd, Loaded(d.inst_type, a))
      BY <1>1, <2>1 DEF exec_load
    <3>2. Result(d) = regs'[d.rd]
      BY <1>4 DEF Result, LoadTypes
    <3> HIDE DEF a
    <3> QED BY <3>1, <3>2, RegisterWritten
  <2>3. CASE d.inst_type \in {"LBU", "LHU", "LWU"}
    <3>1. n = Size(d.inst_type) /\ n \in {1, 2, 4} /\ 8 * n <= XLEN
      <4>1. n = Size(d.inst_type) /\ Size(d.inst_type) \in {1, 2, 4}
        BY <1>1, <2>3 DEF PairTypes, Size
      <4> HIDE DEF n
      <4> QED BY <1>3, <4>1
    <3>2. Loaded(d.inst_type, a) = v
      BY <2>3, <3>1 DEF Loaded
    <3>3. Trunc(XLEN, v) = v
      BY <1>2, <1>3, <3>1 DEF Trunc, Words, Bits
    <3> QED BY <1>2, <2>2, <2>3, <3>2, <3>3
  <2>4. CASE d.inst_type \in {"LB", "LH", "LW"}
    <3>1. n = Size(d.inst_type) /\ n \in {1, 2, 4} /\ 8 * n <= XLEN
      BY <1>1, <1>3, <2>4 DEF PairTypes, Size
    <3>2. Loaded(d.inst_type, a) = SignExt(8 * n, XLEN, v)
      BY <2>4, <3>1 DEF Loaded
    <3>3. Trunc(XLEN, SignExt(8 * n, XLEN, v)) = SignExt(8 * n, XLEN, v)
      BY <1>3, <3>1 DEF Trunc, SignExt, Bits
    <3> QED BY <1>2, <2>2, <2>4, <3>1, <3>2, <3>3
  <2>5. CASE d.inst_type = "LD"
    <3>1. n = 8 /\ Size(d.inst_type) = 4 /\ XLEN = 64
      <4>1. RV64
        BY <1>4, <2>5 DEF LoadTypes
      <4> QED BY <1>1, <1>3, <2>5, <4>1 DEF PairTypes, Size, RV64
    <3>2. Loaded(d.inst_type, a)
            = memory_read(mem, a, 4) \cup ShiftL(64, memory_read(mem, Add(XLEN, a, Num(4)), 4), 32)
      BY <1>3, <2>5, <3>1 DEF Loaded
    <3>3. Loaded(d.inst_type, a) = v
      BY <1>3, <3>1, <3>2, HalvesReadWhole
    <3>4. Trunc(XLEN, v) = v
      BY <1>2, <3>1 DEF Trunc, Words, Bits
    <3> QED BY <1>2, <2>2, <2>5, <3>3, <3>4
  <2> QED BY <1>4, <2>3, <2>4, <2>5 DEF LoadTypes
<1>5. CASE d.inst_type = "FLW"
  <2>1. exec_float_mem(d) /\ n = 4
    BY <1>1, <1>5 DEF exec_load, Enters, LoadTypes, PairTypes, Size
  <2>2. SetFreg(d.rd, memory_read(mem, a, n))
    BY <1>1, <1>5, <2>1 DEF exec_float_mem
  <2>3. Result(d) = Trunc(WORD, v)
    BY <1>5, <2>2, RegisterWritten DEF Result
  <2>4. Trunc(WORD, v) = v
    BY <1>2, <1>3, <2>1 DEF Trunc, Words, Bits
  <2> QED BY <1>2, <1>5, <2>3, <2>4
<1>6. CASE d.inst_type = "FLD"
  <2>1. exec_float_mem(d) /\ n = 8
    BY <1>1, <1>6 DEF exec_load, Enters, LoadTypes, PairTypes
  <2>2. SetDfreg(d.rd, DoubleAt(a))
    BY <1>1, <1>6, <2>1 DEF exec_float_mem
  <2>3. DoubleAt(a) = memory_read(mem, a, 4) \cup ShiftL(64, memory_read(mem, Add(XLEN, a, Num(4)), 4), 32)
    BY <1>3 DEF DoubleAt
  <2>4. DoubleAt(a) = v
    BY <1>3, <2>1, <2>3, HalvesReadWhole
  <2>5. Result(d) = Trunc(2 * WORD, v)
    BY <1>6, <2>2, <2>4, RegisterWritten DEF Result
  <2>6. Trunc(2 * WORD, v) = v
    BY <1>2, <1>3, <2>1 DEF Trunc, Words, Bits
  <2> QED BY <1>2, <1>6, <2>5, <2>6
<1> QED BY <1>4, <1>5, <1>6 DEF ReadTypes

\* So the register holds the bytes of memory and the sign or zeros above.
LEMMA InsideMatchesBytes ==
  ASSUME BYTE = 8, HartOK, NEW i \in Instructions, cpu_execute(i), NEW d, d = Decoded[i],
         d.inst_type \in ReadTypes, d.rd # 0, Inside(Operand(d)[1], Operand(d)[2])
  PROVE  LET a == Operand(d)[1]
             n == Operand(d)[2]
         IN /\ \A k \in 0..(n - 1) :
                 Slice(Result(d), BYTE * k, BYTE * k + BYTE - 1, 0) = mem[Index(a, k)]
            /\ Result(d) \ Bits(BYTE * n) = Filled(d, a, n)
<1> DEFINE a == Operand(d)[1]
           n == Operand(d)[2]
           v == memory_read(mem, a, n)
<1>1. d.inst_type \in MemoryTypes /\ a \in Words(XLEN) /\ d.rd \in Registers
      /\ mem \in [Addresses -> Byte] /\ n \in 1..8
  BY OperandIsWord, Operands DEF MemoryTypes, HartOK, TypeOK
<1>2. exec_load(d) \/ exec_float_mem(d)
  <2>1. ~wild_access(d)
    BY <1>1, InsideDoesNotFault DEF wild_access
  <2> QED BY <1>1, <2>1, MemoryHandlers DEF exec_store, load_reserved, store_conditional, exec_amo,
           Enters, LoadTypes, StoreTypes, AmoTypes, ReadTypes
<1>3. /\ v \in Words(8 * n)
      /\ d.inst_type \in {"LB", "LH", "LW"} => 8 * n <= XLEN /\ Result(d) = SignExt(8 * n, XLEN, v)
      /\ d.inst_type \notin {"LB", "LH", "LW"} => Result(d) = v
  BY <1>1, <1>2, LoadIsOneRead
<1> HIDE DEF a, n
<1>4. Result(d) \cap Bits(8 * n) = v
  <2>1. SignExt(8 * n, XLEN, v) \cap Bits(8 * n) = v
    BY <1>1, <1>3 DEF SignExt, Trunc, Words, Bits
  <2> QED BY <1>3, <2>1 DEF Words
<1>5. /\ \A k \in 0..(n - 1) : Slice(Result(d), 8 * k, 8 * k + 7, 0) = mem[Index(a, k)]
      /\ 8 * n - 1 \in v <=> 7 \in mem[Index(a, n - 1)]
  <2>1. Inside(a, n)
    BY DEF a, n
  <2> QED BY <1>1, <1>4, <2>1, BytesOfRead
<1>6. \A k \in 0..(n - 1) : 8 * k + 8 - 1 = 8 * k + 7
  BY <1>1
<1>7. \A k \in 0..(n - 1) : Slice(Result(d), 8 * k, 8 * k + 8 - 1, 0) = mem[Index(a, k)]
  BY <1>5, <1>6
<1>8. Result(d) \ Bits(8 * n) = Filled(d, a, n)
  <2>1. CASE d.inst_type \in {"LB", "LH", "LW"}
    <3>1. Filled(d, a, n) = IF 8 * n - 1 \in v THEN Bits(XLEN) \ Bits(8 * n) ELSE {}
      BY <1>5, <2>1 DEF Filled
    <3>2. Bits(XLEN) \ Bits(8 * n) = (8 * n)..(XLEN - 1)
      <4>1. XLEN \in {32, 64}
        BY ByteWidths
      <4> QED BY <1>1, <1>3, <2>1, <4>1 DEF Bits
    <3>3. SignExt(8 * n, XLEN, v) \ Bits(8 * n) = IF 8 * n - 1 \in v THEN (8 * n)..(XLEN - 1) ELSE {}
      <4> HIDE DEF v
      <4>1. ((8 * n)..(XLEN - 1)) \cap Bits(8 * n) = {}
        BY <1>1 DEF Bits
      <4> QED BY <1>3, <4>1 DEF SignExt, Trunc, Words
    <3> QED BY <1>3, <2>1, <3>1, <3>2, <3>3
  <2>2. CASE d.inst_type \notin {"LB", "LH", "LW"}
    BY <1>3, <2>2 DEF Filled, Words
  <2> QED BY <2>1, <2>2
<1> QED BY <1>7, <1>8 DEF a, n

\* What LD and FLD leave in their register is two reads of a word.
LEMMA PairIsTwoReads ==
  ASSUME BYTE = 8, HartOK, NEW d, d.rd \in Registers, d.rd # 0, d.inst_type \in ReadTypes,
         d.inst_type \in {"LD", "FLD"}, exec_load(d) \/ exec_float_mem(d)
  PROVE  LET a    == Operand(d)[1]
             next == Add(XLEN, a, Num(4))
             low  == memory_read(mem, a, 4)
             high == memory_read(mem, next, 4)
         IN /\ low \in Words(32) /\ high \in Words(32)
            /\ Result(d) = low \cup ShiftL(64, high, 32)
            /\ ~Wild(a, 4) /\ ~Wild(next, 4)
<1> DEFINE a    == Operand(d)[1]
           next == Add(XLEN, a, Num(4))
           low  == memory_read(mem, a, 4)
           high == memory_read(mem, next, 4)
<1>1. a = Effective(d) /\ d.inst_type \in MemoryTypes /\ d.inst_type \in PairTypes
  <2>1. d.inst_type \in LoadTypes \cup FloatMemTypes
    BY DEF ReadTypes, FloatMemTypes
  <2>2. a = Effective(d)
    BY <2>1, Operands
  <2> QED BY <2>2 DEF MemoryTypes, PairTypes
<1>2. WORD = 32 /\ XLEN \in {32, 64}
  BY ByteWidths
<1>3. ~Wild(a, 4) /\ ~Wild(next, 4)
  <2>1. Makes(d) /\ ~Faults(d)
    BY DEF Makes, ReadTypes, exec_load, exec_float_mem, Enters
  <2>2. Accesses(d) = Halves(a)
    BY <1>1, <2>1, AccessesMade DEF Whole
  <2>3. <<a, 4>> \in Accesses(d) /\ <<next, 4>> \in Accesses(d)
    BY <2>2 DEF Halves
  <2> QED BY <2>1, <2>3, NotWild
<1>4. \A address : memory_read(mem, address, 4) \in Words(32)
  <2>1. 4 * BYTE = 32
    OBVIOUS
  <2> QED BY <2>1 DEF memory_read, Words
<1>5. low \cup ShiftL(64, high, 32) \in Words(64)
  BY <1>4 DEF ShiftL, Words, Bits
<1>6. Trunc(64, low \cup ShiftL(64, high, 32)) = low \cup ShiftL(64, high, 32)
  BY <1>5 DEF Trunc, Words
<1>7. CASE d.inst_type = "LD"
  <2>1. exec_load(d)
    BY <1>7 DEF exec_float_mem, Enters, FloatMemTypes
  <2>2. XLEN = 64
    <3>1. RV64
      BY <1>7, <2>1 DEF exec_load, Enters, LoadTypes
    <3> QED BY <1>2, <3>1 DEF RV64
  <2>3. Loaded(d.inst_type, a) = low \cup ShiftL(64, high, 32)
    BY <1>2, <1>7, <2>2 DEF Loaded, Size
  <2>4. SetReg(d.rd, low \cup ShiftL(64, high, 32))
    BY <1>1, <2>1, <2>3 DEF exec_load
  <2>5. Result(d) = regs'[d.rd]
    BY <1>7 DEF Result
  <2>6. regs'[d.rd] = Trunc(64, low \cup ShiftL(64, high, 32))
    BY <2>2, <2>4, RegisterWritten
  <2> QED BY <1>3, <1>4, <1>6, <2>5, <2>6
<1>8. CASE d.inst_type = "FLD"
  <2>1. exec_float_mem(d)
    BY <1>8 DEF exec_load, Enters, LoadTypes
  <2>2. DoubleAt(a) = low \cup ShiftL(64, high, 32)
    BY <1>2 DEF DoubleAt
  <2>3. SetDfreg(d.rd, DoubleAt(a))
    BY <1>1, <1>8, <2>1 DEF exec_float_mem
  <2>4. Result(d) = dfregs'[d.rd]
    BY <1>8 DEF Result
  <2>5. dfregs'[d.rd] = Trunc(64, low \cup ShiftL(64, high, 32))
    BY <1>2, <2>2, <2>3, RegisterWritten
  <2> QED BY <1>3, <1>4, <1>6, <2>4, <2>5
<1> QED BY <1>7, <1>8

\* The bytes of two words side by side.
LEMMA BytesOfPair ==
  ASSUME NEW low \in Words(32), NEW high \in Words(32), NEW x,
         x = low \cup ShiftL(64, high, 32)
  PROVE  \A k \in 0..3 :
         /\ Slice(x, 8 * k, 8 * k + 7, 0) = Slice(low, 8 * k, 8 * k + 7, 0)
         /\ Slice(x, 8 * (4 + k), 8 * (4 + k) + 7, 0) = Slice(high, 8 * k, 8 * k + 7, 0)
<1> TAKE k \in 0..3
<1>1. x \cap (8 * k)..(8 * k + 7) = low \cap (8 * k)..(8 * k + 7)
  BY DEF ShiftL, Words, Bits
<1>2. \A i : i \in x \cap (8 * (4 + k))..(8 * (4 + k) + 7)
                <=> i \in Int /\ i - 32 \in high \cap (8 * k)..(8 * k + 7)
  BY DEF ShiftL, Words, Bits
<1>3. Slice(x, 8 * (4 + k), 8 * (4 + k) + 7, 0) \subseteq Slice(high, 8 * k, 8 * k + 7, 0)
  <2> SUFFICES ASSUME NEW i \in x \cap (8 * (4 + k))..(8 * (4 + k) + 7)
               PROVE  i + 0 - 8 * (4 + k) \in Slice(high, 8 * k, 8 * k + 7, 0)
    BY DEF Slice
  <2>1. i \in Int /\ i - 32 \in high \cap (8 * k)..(8 * k + 7)
    BY <1>2
  <2>2. i + 0 - 8 * (4 + k) = (i - 32) + 0 - 8 * k
    BY <2>1
  <2> QED BY <2>1, <2>2 DEF Slice
<1>4. Slice(high, 8 * k, 8 * k + 7, 0) \subseteq Slice(x, 8 * (4 + k), 8 * (4 + k) + 7, 0)
  <2> SUFFICES ASSUME NEW j \in high \cap (8 * k)..(8 * k + 7)
               PROVE  j + 0 - 8 * k \in Slice(x, 8 * (4 + k), 8 * (4 + k) + 7, 0)
    BY DEF Slice
  <2>1. (j + 32) - 32 = j /\ j + 32 \in Int
    OBVIOUS
  <2>2. j + 32 \in x \cap (8 * (4 + k))..(8 * (4 + k) + 7)
    BY <1>2, <2>1
  <2>3. j + 0 - 8 * k = (j + 32) + 0 - 8 * (4 + k)
    OBVIOUS
  <2> QED BY <2>2, <2>3 DEF Slice
<1> QED BY <1>1, <1>3, <1>4 DEF Slice

\* A read of a word inside memory has its bytes, one outside has none.
LEMMA BytesOfWord ==
  ASSUME BYTE = 8, NEW m \in [Addresses -> Byte], NEW address, ~Wild(address, 4), NEW k \in 0..3
  PROVE  Slice(memory_read(m, address, 4), 8 * k, 8 * k + 7, 0)
           = IF Inside(address, 4) THEN m[Index(address, k)] ELSE {}
<1>1. 4 \in 1..8 /\ k \in 0..(4 - 1)
  OBVIOUS
<1>2. CASE Inside(address, 4)
  BY <1>1, <1>2, ReadByte
<1>3. CASE ~Inside(address, 4)
  <2>1. memory_read(m, address, 4) = {}
    BY <1>1, <1>3, OutsideIsRefused
  <2> QED BY <1>3, <2>1 DEF Slice
<1> QED BY <1>2, <1>3

\* Torn or not, each half of LD and FLD is its own read.
LEMMA HalvesMatch ==
  ASSUME BYTE = 8, HartOK, NEW i \in Instructions, cpu_execute(i), NEW d, d = Decoded[i],
         d.inst_type \in ReadTypes, d.inst_type \in {"LD", "FLD"}, d.rd # 0, ~faulted'
  PROVE  HalfMatches(d, Operand(d)[1], 0) /\ HalfMatches(d, Add(XLEN, Operand(d)[1], Num(4)), 1)
<1> DEFINE a == Operand(d)[1]
           next == Add(XLEN, a, Num(4))
           low == memory_read(mem, a, 4)
           high == memory_read(mem, next, 4)
<1>1. d.rd \in Registers /\ mem \in [Addresses -> Byte] /\ d.inst_type \in MemoryTypes
  BY OperandsNameRegisters DEF HartOK, TypeOK, MemoryTypes
<1>2. exec_load(d) \/ exec_float_mem(d)
  <2>1. ~wild_access(d)
    BY DEF wild_access
  <2> QED BY <1>1, <2>1, MemoryHandlers DEF exec_store, load_reserved, store_conditional, exec_amo,
           Enters, StoreTypes, AmoTypes
<1> HIDE DEF a, next, low, high
<1>3. /\ low \in Words(32) /\ high \in Words(32)
      /\ Result(d) = low \cup ShiftL(64, high, 32)
      /\ ~Wild(a, 4) /\ ~Wild(next, 4)
  BY <1>1, <1>2, PairIsTwoReads, Zenon DEF a, next, low, high
<1>4. \A k \in 0..3 :
        /\ Slice(Result(d), 8 * k, 8 * k + 7, 0) = Slice(low, 8 * k, 8 * k + 7, 0)
        /\ Slice(Result(d), 8 * (4 + k), 8 * (4 + k) + 7, 0) = Slice(high, 8 * k, 8 * k + 7, 0)
  BY <1>3, BytesOfPair
<1>5. ASSUME NEW address, ~Wild(address, 4), NEW k \in 0..3
      PROVE  Slice(memory_read(mem, address, 4), 8 * k, 8 * k + 7, 0)
               = IF Inside(address, 4) THEN mem[Index(address, k)] ELSE {}
  BY <1>1, <1>5, BytesOfWord, Zenon
<1>6. ASSUME NEW k \in 0..3
      PROVE  /\ BYTE * (4 * 0 + k) = 8 * k /\ BYTE * (4 * 1 + k) = 8 * (4 + k)
             /\ 8 * k + BYTE - 1 = 8 * k + 7 /\ 8 * (4 + k) + BYTE - 1 = 8 * (4 + k) + 7
  OBVIOUS
<1>7. ASSUME NEW k \in 0..3
      PROVE  /\ Slice(Result(d), BYTE * (4 * 0 + k), BYTE * (4 * 0 + k) + BYTE - 1, 0)
                   = IF Inside(a, 4) THEN mem[Index(a, k)] ELSE {}
             /\ Slice(Result(d), BYTE * (4 * 1 + k), BYTE * (4 * 1 + k) + BYTE - 1, 0)
                   = IF Inside(next, 4) THEN mem[Index(next, k)] ELSE {}
  <2>1. /\ Slice(low, 8 * k, 8 * k + 7, 0) = IF Inside(a, 4) THEN mem[Index(a, k)] ELSE {}
        /\ Slice(high, 8 * k, 8 * k + 7, 0) = IF Inside(next, 4) THEN mem[Index(next, k)] ELSE {}
    BY <1>3, <1>5, Zenon DEF low, high
  <2>2. /\ Slice(Result(d), 8 * k, 8 * k + 7, 0) = IF Inside(a, 4) THEN mem[Index(a, k)] ELSE {}
        /\ Slice(Result(d), 8 * (4 + k), 8 * (4 + k) + 7, 0)
             = IF Inside(next, 4) THEN mem[Index(next, k)] ELSE {}
    BY <1>4, <2>1
  <2>3. /\ BYTE * (4 * 0 + k) = 8 * k /\ BYTE * (4 * 1 + k) = 8 * (4 + k)
        /\ 8 * k + BYTE - 1 = 8 * k + 7 /\ 8 * (4 + k) + BYTE - 1 = 8 * (4 + k) + 7
    BY <1>6
  <2> QED BY <2>2, <2>3
<1>8. HalfMatches(d, a, 0) /\ HalfMatches(d, next, 1)
  BY <1>7, Zenon DEF HalfMatches
<1> QED BY <1>8 DEF a, next

\* Both together.
LEMMA InstructionMatchesBytes ==
  ASSUME BYTE = 8, HartOK, NEW i \in Instructions, cpu_execute(i), NEW d, d = Decoded[i],
         d.inst_type \in ReadTypes
  PROVE  MatchesBytes(d)
<1>1. d.inst_type \in PairTypes => d.inst_type \in {"LD", "FLD"}
  BY DEF PairTypes, ReadTypes, LoadTypes
<1>2. ASSUME d.rd # 0, Inside(Operand(d)[1], Operand(d)[2])
      PROVE  /\ \A k \in 0..(Operand(d)[2] - 1) :
                  Slice(Result(d), BYTE * k, BYTE * k + BYTE - 1, 0) = mem[Index(Operand(d)[1], k)]
             /\ Result(d) \ Bits(BYTE * Operand(d)[2]) = Filled(d, Operand(d)[1], Operand(d)[2])
  BY <1>2, InsideMatchesBytes
<1>3. ASSUME d.rd # 0, d.inst_type \in PairTypes, ~faulted'
      PROVE  HalfMatches(d, Operand(d)[1], 0) /\ HalfMatches(d, Add(XLEN, Operand(d)[1], Num(4)), 1)
  BY <1>1, <1>3, HalvesMatch
<1> QED BY <1>2, <1>3, Zenon DEF MatchesBytes

\* Over every file, a load leaves in its register the bytes at its address,
\* lowest first, misaligned or not and through one access or two; of two, one
\* outside memory leaves 0 in its half and the other what is there.
THEOREM LoadsMatchBytesHolds ==
  ASSUME BYTE = 8
  PROVE  MSpec => LoadsMatchBytes
<1>1. HartOK /\ LoopOK /\ [MNext]_mvars => [Executes(ReadTypes, MatchesBytes)]_mvars
  <2> SUFFICES ASSUME HartOK, [MNext]_mvars
               PROVE  [Executes(ReadTypes, MatchesBytes)]_mvars
    OBVIOUS
  <2>1. CASE ExecuteLine
    <3>1. PICK i \in Instructions : i = line /\ cpu_execute(i)
      BY <2>1 DEF ExecuteLine
    <3> QED BY <3>1, InstructionMatchesBytes DEF Executes
  <2>2. CASE OpenInput \/ ReadInput \/ PrintStore \/ Stopped \/ UNCHANGED mvars
    BY <2>2, OnlyExecuteLineExecutes DEF Executes
  <2> QED BY <2>1, <2>2 DEF MNext
<1> QED BY WatchedKeeps, <1>1, PTL DEF MSpec, LoadsMatchBytes

-----------------------------------------------------------------------------
(* AMOs *)

\* What an AMO computes is the sum, copy, combination or choice it names.
LEMMA AmoValue ==
  ASSUME HartOK, NEW d, d.inst_type \in AmoTypes, NEW n \in Nat \ {0}, NEW old \in Words(n)
  PROVE  /\ amo(d.inst_type, n, old, regs[d.rs2]) \in Words(n)
         /\ Combines(d, n, old, amo(d.inst_type, n, old, regs[d.rs2]))
<1> DEFINE arg == Trunc(n, regs[d.rs2])
           new == amo(d.inst_type, n, old, regs[d.rs2])
           keeps == Keeps(d.inst_type, n, old, regs[d.rs2])
<1>1. arg \in Words(n)
  BY TruncIsWord
<1>2. CASE d.inst_type \in {"AMOSWAP", "AMOXOR", "AMOAND", "AMOOR"}
  <2>1. /\ d.inst_type = "AMOSWAP" => new = arg
        /\ d.inst_type = "AMOXOR" => new = SymDiff(old, arg)
        /\ d.inst_type = "AMOAND" => new = old \cap arg
        /\ d.inst_type = "AMOOR" => new = old \cup arg
    BY <1>2 DEF amo
  <2>2. SymDiff(SymDiff(old, arg), arg) = old /\ SymDiff(old, arg) \in Words(n)
    BY <1>1 DEF SymDiff, Words
  <2>3. new \in Words(n)
    BY <1>1, <1>2, <2>1, <2>2 DEF Words
  <2> HIDE DEF arg, new
  <2>4. Combines(d, n, old, new)
    BY <1>2, <2>1, <2>2 DEF Combines, arg
  <2> QED BY <2>3, <2>4 DEF new
<1>3. CASE d.inst_type = "AMOADD"
  <2>1. new = Add(n, old, arg)
    BY <1>3 DEF amo
  <2>2. Sub(n, new, arg) = old /\ new \in Words(n)
    BY <1>1, <2>1, AddThenSub, AddIsWord
  <2> HIDE DEF arg, new
  <2>3. Combines(d, n, old, new)
    BY <1>3, <2>2 DEF Combines, arg
  <2> QED BY <2>2, <2>3 DEF new
<1>4. CASE d.inst_type \in {"AMOMIN", "AMOMAX", "AMOMINU", "AMOMAXU"}
  <2>1. new = IF keeps THEN old ELSE arg
    BY <1>4 DEF amo
  <2>2. /\ ~LtU(old, old) /\ ~LtU(arg, arg) /\ ~(LtU(old, arg) /\ LtU(arg, old))
        /\ ~LtS(n, old, old) /\ ~LtS(n, arg, arg) /\ ~(LtS(n, old, arg) /\ LtS(n, arg, old))
    BY <1>1, OrderIsStrict, SignedOrderIsStrict
  <2>3. /\ d.inst_type = "AMOMIN" => keeps = LtS(n, old, arg)
        /\ d.inst_type = "AMOMAX" => keeps = LtS(n, arg, old)
        /\ d.inst_type = "AMOMINU" => keeps = LtU(old, regs[d.rs2])
        /\ d.inst_type = "AMOMAXU" => keeps = LtU(regs[d.rs2], old)
    BY <1>4 DEF Keeps
  <2>4. new \in Words(n)
    BY <1>1, <2>1
  <2> HIDE DEF arg, new, keeps
  <2>5. ASSUME d.inst_type = "AMOMIN" PROVE Combines(d, n, old, new)
    <3>1. new \in {old, arg} /\ ~LtS(n, old, new) /\ ~LtS(n, arg, new)
      BY <2>1, <2>2, <2>3, <2>5
    <3> QED BY <2>5, <3>1 DEF Combines, arg
  <2>6. ASSUME d.inst_type = "AMOMAX" PROVE Combines(d, n, old, new)
    <3>1. new \in {old, arg} /\ ~LtS(n, new, old) /\ ~LtS(n, new, arg)
      BY <2>1, <2>2, <2>3, <2>6
    <3> QED BY <2>6, <3>1 DEF Combines, arg
  <2>7. ASSUME d.inst_type = "AMOMINU" PROVE Combines(d, n, old, new)
    <3>1. new \in {old, arg} /\ (regs[d.rs2] = arg => ~LtU(old, new) /\ ~LtU(arg, new))
      BY <2>1, <2>2, <2>3, <2>7
    <3> QED BY <2>7, <3>1 DEF Combines, arg
  <2>8. ASSUME d.inst_type = "AMOMAXU" PROVE Combines(d, n, old, new)
    <3>1. new \in {old, arg} /\ (regs[d.rs2] = arg => ~LtU(new, old) /\ ~LtU(new, arg))
      BY <2>1, <2>2, <2>3, <2>8
    <3> QED BY <2>8, <3>1 DEF Combines, arg
  <2> QED BY <1>4, <2>4, <2>5, <2>6, <2>7, <2>8 DEF new
<1> QED BY <1>2, <1>3, <1>4 DEF AmoTypes

\* An AMO inside memory leaves in memory what it computes from what it reads.
LEMMA InstructionCombines ==
  ASSUME BYTE = 8, HartOK, NEW i \in Instructions, cpu_execute(i), NEW d, d = Decoded[i],
         d.inst_type \in AmoTypes
  PROVE  AmoCombines(d)
<1> DEFINE a == Operand(d)[1]
           n == Operand(d)[2]
           old == memory_read(mem, a, n)
           new == amo(d.inst_type, 8 * n, old, regs[d.rs2])
<1> SUFFICES ASSUME Inside(a, n)
             PROVE  /\ d.rd # 0 => regs'[d.rd] = IF d.wide THEN old ELSE SignExt(WORD, XLEN, old)
                    /\ Combines(d, BYTE * n, old, memory_read(mem', a, n))
  BY DEF AmoCombines
<1>1. d.inst_type \in MemoryTypes /\ d.rd \in Registers /\ mem \in [Addresses -> Byte]
      /\ n \in {4, 8} /\ n \in 1..8
      /\ a = regs[d.rs1] /\ n = AmoSize(d)
  BY OperandIsWord, Operands DEF MemoryTypes, HartOK, TypeOK, AmoSize
<1>2. exec_amo(d)
  <2>1. ~wild_access(d)
    BY <1>1, InsideDoesNotFault DEF wild_access
  <2> QED BY <1>1, <2>1, MemoryHandlers DEF exec_load, exec_store, load_reserved, store_conditional,
           exec_float_mem, Enters, LoadTypes, StoreTypes, AmoTypes, FloatMemTypes
<1>3. mem' = memory_write(mem, a, n, new) /\ SetReg(d.rd, AtomicResult(d, old))
  <2>1. n * BYTE = 8 * n
    BY <1>1
  <2> QED BY <1>1, <1>2, <2>1 DEF exec_amo
<1>4. old \in Words(8 * n)
  BY <1>1, ReadInside DEF Words
<1> HIDE DEF a, n, old
<1>5. new \in Words(8 * n) /\ Combines(d, 8 * n, old, new)
  <2>1. 8 * n \in Nat \ {0}
    BY <1>1
  <2> QED BY <1>4, <2>1, AmoValue
<1> HIDE DEF new
<1>6. memory_read(mem', a, n) = new
  <2>1. memory_read(mem', a, n) = Trunc(8 * n, new)
    BY <1>1, <1>3, WriteThenRead
  <2> QED BY <1>5, <2>1 DEF Trunc, Words
<1>7. ASSUME d.rd # 0
      PROVE  regs'[d.rd] = IF d.wide THEN old ELSE SignExt(WORD, XLEN, old)
  <2>1. regs'[d.rd] = Trunc(XLEN, AtomicResult(d, old))
    BY <1>1, <1>3, <1>7, RegisterWritten
  <2>2. AtomicResult(d, old) \in Words(XLEN)
    <3>1. CASE d.wide
      <4>1. n = 8 /\ RV64
        BY <1>1, <3>1, DecodedWideAtomics DEF AmoSize
      <4>2. 8 * n = XLEN
        BY <4>1, WidthAssumption DEF RV64, WORD
      <4> QED BY <1>4, <3>1, <4>2 DEF AtomicResult
    <3>2. CASE ~d.wide
      <4>1. n = 4
        BY <1>1, <3>2 DEF AmoSize
      <4>2. old \in Words(32) /\ WORD = 32 /\ XLEN \in {32, 64}
        BY <1>4, <4>1, WidthAssumption DEF WORD
      <4>3. SignExt(WORD, XLEN, old) \in Words(XLEN)
        BY <4>2 DEF SignExt, Trunc, Words, Bits
      <4> QED BY <3>2, <4>3 DEF AtomicResult
    <3> QED BY <3>1, <3>2
  <2> QED BY <2>1, <2>2 DEF AtomicResult, Trunc, Words
<1> QED BY <1>5, <1>6, <1>7

\* Over every file, an AMO inside memory returns what was there and leaves
\* there what its name says of that and rs2, at any alignment.
THEOREM AmosCombineHolds ==
  ASSUME BYTE = 8
  PROVE  MSpec => AmosCombine
<1>1. HartOK /\ LoopOK /\ [MNext]_mvars => [Executes(AmoTypes, AmoCombines)]_mvars
  <2> SUFFICES ASSUME HartOK, [MNext]_mvars
               PROVE  [Executes(AmoTypes, AmoCombines)]_mvars
    OBVIOUS
  <2>1. CASE ExecuteLine
    <3>1. PICK i \in Instructions : i = line /\ cpu_execute(i)
      BY <2>1 DEF ExecuteLine
    <3> QED BY <3>1, InstructionCombines DEF Executes
  <2>2. CASE OpenInput \/ ReadInput \/ PrintStore \/ Stopped \/ UNCHANGED mvars
    BY <2>2, OnlyExecuteLineExecutes DEF Executes
  <2> QED BY <2>1, <2>2 DEF MNext
<1> QED BY WatchedKeeps, <1>1, PTL DEF MSpec, AmosCombine
=============================================================================
