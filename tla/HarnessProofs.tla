---------------------------- MODULE HarnessProofs ---------------------------
(***************************************************************************)
(* What main.c prints of a store, and what the 32-bit immediates of the    *)
(* decoder do to a 64-bit register, for every file of every instructions.  *)
(***************************************************************************)
EXTENDS MCHarness, EmulatorProofs

-----------------------------------------------------------------------------
(* A store and its address *)

\* A word with opcode 35 has the store's immediate, and is not compressed.
LEMMA StoreWord ==
  ASSUME NEW i \in Instructions, Opcode(i) = 35
  PROVE  /\ Expanded(i) = i
         /\ Decoded[i].imm = Trunc(WORD, StoreImm(i))
         /\ Decoded[i].rs1 = Field(i, 15, 19)
<1> DEFINE x == Slice(i, 0, 6, 0)
<1>1. 0 \in Nat /\ 6 \in Nat /\ 7 \in Nat /\ 7 = 6 - 0 + 1
  OBVIOUS
<1>2. x \in Words(7) /\ \A k \in Bits(7) : k \in x <=> k + 0 \in i
  BY <1>1, SlicesAreWords, Zenon
<1>3. Val(x) = 35
  BY DEF Opcode, Field
<1> HIDE DEF x
<1>4. x \in Words(31) /\ Num(35) \in Words(31) /\ Val(Num(35)) = 35
  <2>1. 35 < 2^31
    BY SMT
  <2>2. Bits(7) \subseteq Bits(31)
    BY DEF Bits
  <2> QED BY <1>2, <2>1, <2>2, ValNum DEF Words
<1>5. x = Num(35)
  BY <1>3, <1>4, ValInjective
<1>6. 0 \in Num(35) /\ 1 \in Num(35)
  <2>1. 2^0 = 1 /\ 2^1 = 2
    OBVIOUS
  <2> QED BY <2>1 DEF Num
<1>7. {0, 1} \subseteq i
  BY <1>2, <1>5, <1>6 DEF Bits
<1>8. Expanded(i) = i
  BY <1>7 DEF Expanded, IsCompressed
<1>9. decode_instruction(i).imm = StoreImm(i) /\ decode_instruction(i).rs1 = Field(i, 15, 19)
  BY DEF decode_instruction, instruction_t, TypeAndImm, FusedOpcodes
<1>10. Decoded[i].imm = Trunc(WORD, decode_instruction(i).imm) /\ Decoded[i].rs1 = decode_instruction(i).rs1
  BY <1>8 DEF Decoded, Fetched, Dispatched
<1> QED BY <1>8, <1>9, <1>10

\* A store's immediate has 32 bits.
LEMMA StoreImmIsWord ==
  ASSUME NEW w
  PROVE  StoreImm(w) \in Words(32)
<1>1. Slice(w, 25, 31, 5) = {i + 5 - 25 : i \in w \cap (25..31)} /\ Slice(w, 7, 11, 0) = {i + 0 - 7 : i \in w \cap (7..11)}
  BY DEF Slice
<1>2. Slice(w, 25, 31, 5) \subseteq 0..31 /\ Slice(w, 7, 11, 0) \subseteq 0..31 /\ SignFrom(31, w, 12) \subseteq 0..31
  BY <1>1 DEF SignFrom
<1> QED BY <1>2 DEF StoreImm, Words, Bits

\* print_result's decoding of it is the decoder's.
LEMMA PrintImmIsStoreImm ==
  ASSUME BYTE = 8
  PROVE  PrintImm = StoreImm(line)
<1> DEFINE x == Slice(line, 25, 31, 0)
<1>1. \A k \in Int : k \in x <=> k \in 0..6 /\ k + 25 \in line
  <2> TAKE k \in Int
  <2>1. x = {i + 0 - 25 : i \in line \cap (25..31)}
    BY DEF Slice
  <2>2. ASSUME k \in x PROVE k \in 0..6 /\ k + 25 \in line
    <3>1. PICK i \in line \cap (25..31) : k = i + 0 - 25
      BY <2>1, <2>2
    <3>2. k + 25 = i /\ k \in 0..6
      BY <3>1
    <3> QED BY <3>1, <3>2
  <2>3. ASSUME k \in 0..6, k + 25 \in line PROVE k \in x
    <3>1. k + 25 \in line \cap (25..31) /\ k = (k + 25) + 0 - 25
      BY <2>3
    <3> QED BY <2>1, <3>1
  <2> QED BY <2>2, <2>3
<1>2. Slice(line, 25, 31, 5) = {i + 5 - 25 : i \in line \cap (25..31)}
  BY DEF Slice
<1>3. WORD = 32
  BY ByteWidths
<1> HIDE DEF x
<1>4. ShiftL(WORD, x, 5) = Slice(line, 25, 31, 5)
  <2>1. ASSUME NEW k \in ShiftL(WORD, x, 5) PROVE k \in Slice(line, 25, 31, 5)
    <3>1. k \in 0..31 /\ k - 5 \in 0..6 /\ (k - 5) + 25 \in line
      BY <1>1, <1>3, <2>1 DEF ShiftL, Bits
    <3>2. (k - 5) + 25 \in line \cap (25..31) /\ k = ((k - 5) + 25) + 5 - 25
      BY <3>1
    <3> QED BY <1>2, <3>2
  <2>2. ASSUME NEW i \in line \cap (25..31) PROVE i + 5 - 25 \in ShiftL(WORD, x, 5)
    <3>1. i - 25 \in 0..6 /\ (i - 25) + 25 = i /\ (i + 5 - 25) - 5 = i - 25 /\ i + 5 - 25 \in 0..31
      OBVIOUS
    <3>2. i - 25 \in x
      BY <1>1, <3>1
    <3> QED BY <1>3, <3>1, <3>2 DEF ShiftL, Bits
  <2> QED BY <1>2, <2>1, <2>2
<1>5. 6 \in x <=> 31 \in line
  BY <1>1
<1> QED BY <1>4, <1>5 DEF PrintImm, StoreImm, SignFrom, x

\* print_result's address is the low word of the store's.
LEMMA PrintAddressIsLow ==
  ASSUME BYTE = 8, HartOK, line \in Instructions, Opcode(line) = 35
  PROVE  PrintAddress = Trunc(WORD, Effective(Decoded[line]))
<1> DEFINE d == Decoded[line]
<1>1. d.imm = Trunc(WORD, StoreImm(line)) /\ d.rs1 = Field(line, 15, 19) /\ d.rs1 \in Registers
  BY StoreWord, OperandsNameRegisters
<1> HIDE DEF d
<1>2. WORD = 32 /\ XLEN \in Nat /\ WORD \in 0..XLEN /\ Words(WORD) \subseteq Words(XLEN)
  BY ByteWidths
<1>3. Trunc(WORD, StoreImm(line)) = StoreImm(line) /\ StoreImm(line) \in Words(XLEN)
  BY <1>2, StoreImmIsWord DEF Trunc, Words
<1>4. regs[d.rs1] \in Words(XLEN)
  BY <1>1 DEF HartOK, TypeOK
<1>5. Trunc(WORD, Add(XLEN, regs[d.rs1], StoreImm(line)))
        = Add(WORD, Trunc(WORD, regs[d.rs1]), Trunc(WORD, StoreImm(line)))
  BY <1>2, <1>3, <1>4, TruncAdd
<1> QED BY <1>1, <1>3, <1>5, PrintImmIsStoreImm DEF PrintAddress, Effective, d

\* memory.c sees the low word of an address only.
LEMMA LowAddress ==
  ASSUME NEW m, NEW address, NEW n
  PROVE  memory_read(m, Trunc(WORD, address), n) = memory_read(m, address, n)
<1>1. Trunc(WORD, Trunc(WORD, address)) = Trunc(WORD, address)
  BY DEF Trunc
<1> QED BY <1>1, Zenon DEF memory_read, Accepted, Index

-----------------------------------------------------------------------------
(* What the store leaves there *)

\* The low bytes of a read are a shorter read.
LEMMA ReadShorter ==
  ASSUME BYTE = 8, NEW m, NEW address, NEW n \in 1..8, Inside(address, n), NEW k \in 1..n
  PROVE  Trunc(8 * k, memory_read(m, address, n)) = memory_read(m, address, k)
<1>1. Inside(address, k) /\ k \in 1..8
  BY ShorterInside
<1>2. memory_read(m, address, n) = {i \in Bits(8 * n) : (i % 8) \in m[Index(address, i \div 8)]}
  BY ReadInside
<1>3. memory_read(m, address, k) = {i \in Bits(8 * k) : (i % 8) \in m[Index(address, i \div 8)]}
  BY <1>1, ReadInside
<1>4. Bits(8 * k) \subseteq Bits(8 * n)
  BY DEF Bits
<1> QED BY <1>2, <1>3, <1>4 DEF Trunc

\* Cut twice, a word is cut to the shorter of the two.
LEMMA TruncTwice ==
  ASSUME NEW n \in Nat, NEW k \in 0..n, NEW x
  PROVE  Trunc(k, Trunc(n, x)) = Trunc(k, x)
<1>1. Bits(k) \subseteq Bits(n)
  BY DEF Bits
<1> QED BY <1>1 DEF Trunc

\* A write of at most a word, read back by a word.
LEMMA ShortWriteShows ==
  ASSUME BYTE = 8, NEW m \in [Addresses -> Byte], NEW address, Inside(address, 4), NEW n \in 1..4, NEW value
  PROVE  Trunc(8 * n, memory_read(memory_write(m, address, n, value), address, 4)) = Trunc(8 * n, value)
<1> DEFINE w == memory_write(m, address, n, value)
<1>1. 4 \in 1..8 /\ n \in 1..8 /\ n \in 1..4
  OBVIOUS
<1>2. Inside(address, n)
  BY <1>1, ShorterInside
<1>3. Trunc(8 * n, memory_read(w, address, 4)) = memory_read(w, address, n)
  <2> HIDE DEF w
  <2> QED BY <1>1, ReadShorter
<1>4. memory_read(w, address, n) = Trunc(8 * n, value)
  BY <1>1, <1>2, WriteThenRead
<1> QED BY <1>3, <1>4

\* SD's low half, whether its high half is inside memory or refused.
LEMMA PairWriteShows ==
  ASSUME BYTE = 8, XLEN = 64, NEW m \in [Addresses -> Byte], NEW address \in Words(XLEN), Inside(address, 4),
         NEW value, ~Wild(Add(XLEN, address, Num(4)), 4)
  PROVE  Trunc(32, memory_read(memory_write(memory_write(m, address, 4, value), Add(XLEN, address, Num(4)), 4,
                                            ShiftR(XLEN, value, WORD)), address, 4))
           = Trunc(32, value)
<1> DEFINE next == Add(XLEN, address, Num(4))
           low == memory_write(m, address, 4, value)
           w == memory_write(low, next, 4, ShiftR(XLEN, value, WORD))
<1>1. 4 \in 1..8 /\ 8 \in 1..8 /\ 4 \in 1..4 /\ 4 \in 0..8 /\ 32 = 8 * 4
  OBVIOUS
<1>2. CASE Inside(address, 8)
  <2>1. w = memory_write(m, address, 8, value)
    BY <1>2, HalvesWriteWhole
  <2>2. memory_read(memory_write(m, address, 8, value), address, 8) = Trunc(64, value)
    BY <1>1, <1>2, WriteThenRead
  <2> HIDE DEF w
  <2>3. Trunc(32, memory_read(w, address, 8)) = memory_read(w, address, 4)
    BY <1>1, <1>2, ReadShorter
  <2>4. Trunc(32, Trunc(64, value)) = Trunc(32, value)
    BY TruncTwice
  <2>5. memory_read(w, address, 4) = Trunc(32, value)
    BY <2>1, <2>2, <2>3, <2>4
  <2>6. Trunc(32, Trunc(32, value)) = Trunc(32, value)
    BY TruncTwice
  <2> QED BY <2>5, <2>6 DEF w
<1>3. CASE ~Inside(address, 8)
  <2>1. ~Inside(next, 4)
    <3> SUFFICES ASSUME Inside(next, 4) PROVE FALSE
      OBVIOUS
    <3> DEFINE x == Trunc(WORD, address)
               y == Trunc(WORD, next)
    <3>1. Val(x) \in Nat /\ Val(x) + 4 <= MEMORY_SIZE
      BY <1>1, AcceptedIsInside
    <3>2. Val(y) \in Nat /\ Val(y) + 4 <= MEMORY_SIZE
      BY <1>1, AcceptedIsInside
    <3>3. MEMORY_SIZE <= 2^30 /\ MEMORY_SIZE \in Nat /\ 2^30 \in Nat
      BY MemoryAssumption
    <3>4. WORD \in 0..XLEN /\ x \in Words(WORD) /\ WORD = 32
      BY ByteWidths, TruncIsWord
    <3>5. Num(4) \in Words(31) /\ Num(4) \in Words(XLEN) /\ Trunc(WORD, Num(4)) = Num(4)
      BY ByteWidths, NumLiterals DEF Words, Bits, Trunc
    <3>6. y = Add(WORD, x, Num(4))
      <4>1. XLEN \in Nat
        OBVIOUS
      <4> QED BY <3>4, <3>5, <4>1, TruncAdd
    <3> HIDE DEF x, y
    <3>7. Val(y) = Val(x) + 4
      BY <1>1, <3>1, <3>3, <3>4, <3>6, AddressPlus
    <3>8. Val(x) + 8 <= MEMORY_SIZE
      BY <3>1, <3>2, <3>7
    <3> QED BY <1>3, <3>8 DEF Inside, x
  <2>2. w = low
    <3>1. ~Wild(next, 4)
      OBVIOUS
    <3> HIDE DEF low, next
    <3>2. \A v : memory_write(low, next, 4, v) = low
      BY <1>1, <2>1, <3>1, OutsideIsRefused
    <3> QED BY <3>2
  <2>3. Trunc(8 * 4, memory_read(low, address, 4)) = Trunc(8 * 4, value)
    BY <1>1, ShortWriteShows
  <2> QED BY <1>1, <2>2, <2>3
<1> QED BY <1>2, <1>3
\* What exec_store leaves at its address, by a word read.
LEMMA StoreShows ==
  ASSUME BYTE = 8, HartOK, NEW d, d.rs1 \in Registers, exec_store(d), Inside(Effective(d), 4),
         NEW n, n = IF d.inst_type = "SD" THEN 4 ELSE Size(d.inst_type)
  PROVE  Trunc(8 * n, memory_read(mem', Effective(d), 4)) = Trunc(8 * n, regs[d.rs2])
<1> DEFINE a == Effective(d)
           v == regs[d.rs2]
<1>1. d.inst_type \in StoreTypes /\ ~Faults(d) /\ mem' = Stored(d.inst_type, a, v)
  BY DEF exec_store, Enters
<1>2. mem \in [Addresses -> Byte] /\ a \in Words(XLEN)
  BY AddIsWord DEF HartOK, TypeOK, Effective
<1>3. Size(d.inst_type) \in 1..4 /\ (d.inst_type = "SD" => Size(d.inst_type) = 4)
  BY DEF Size
<1>4. CASE d.inst_type # "SD"
  <2>1. mem' = memory_write(mem, a, n, v) /\ n \in 1..4
    BY <1>1, <1>3, <1>4 DEF Stored
  <2> HIDE DEF a, v
  <2>2. Trunc(8 * n, memory_read(memory_write(mem, a, n, v), a, 4)) = Trunc(8 * n, v)
    BY <1>2, <2>1, ShortWriteShows DEF a
  <2> QED BY <2>1, <2>2 DEF a, v
<1>5. CASE d.inst_type = "SD"
  <2>1. mem' = memory_write(memory_write(mem, a, 4, v), Add(XLEN, a, Num(4)), 4, ShiftR(XLEN, v, WORD))
    BY <1>1, <1>3, <1>5 DEF Stored
  <2>2. XLEN = 64
    <3>1. RV64
      BY <1>1, <1>5 DEF StoreTypes
    <3> QED BY <3>1, ByteWidths DEF RV64
  <2>3. ~Wild(Add(XLEN, a, Num(4)), 4)
    <3>1. Accesses(d) = Halves(a)
      BY <1>1, <1>5 DEF Accesses, LoadTypes, AmoTypes
    <3> QED BY <1>1, <3>1 DEF Faults, Halves
  <2> HIDE DEF a, v
  <2>4. Trunc(32, memory_read(memory_write(memory_write(mem, a, 4, v), Add(XLEN, a, Num(4)), 4,
                                           ShiftR(XLEN, v, WORD)), a, 4))
          = Trunc(32, v)
    BY <1>2, <2>2, <2>3, PairWriteShows DEF a
  <2>5. 8 * n = 32
    BY <1>5
  <2> QED BY <2>1, <2>4, <2>5 DEF a, v
<1> QED BY <1>4, <1>5

-----------------------------------------------------------------------------
(* What is printed *)

\* The handler that StoreTypes enter.
LEMMA StoreHandler ==
  ASSUME NEW d, d.inst_type \in StoreTypes, NEW i \in Instructions, cpu_execute(i), d = Decoded[i]
  PROVE  exec_store(d) \/ wild_access(d)
<1>1. \/ exec_alu_reg(d) \/ exec_alu_imm(d) \/ exec_rv64(d) \/ exec_load(d) \/ exec_store(d)
      \/ exec_branch(d) \/ exec_jump(d) \/ exec_upper(d)
      \/ exec_trap(d) \/ exec_return(d) \/ exec_csr(d) \/ exec_fence(d)
      \/ load_reserved(d) \/ store_conditional(d) \/ exec_amo(d)
      \/ exec_float_single(d) \/ exec_float_double(d) \/ exec_float_mem(d)
      \/ wild_access(d) \/ exec_unknown(d)
  BY DEF cpu_execute
<1>2. ~(\/ exec_alu_reg(d) \/ exec_alu_imm(d) \/ exec_rv64(d) \/ exec_load(d) \/ exec_branch(d)
        \/ exec_jump(d) \/ exec_upper(d) \/ exec_fence(d) \/ exec_unknown(d))
  BY DEF exec_alu_reg, exec_alu_imm, exec_rv64, exec_load, exec_branch, exec_jump, exec_upper, exec_fence,
     exec_unknown, Enters, StoreTypes, AluRegTypes, AluImmTypes, Rv64Types, LoadTypes, BranchTypes, JumpTypes,
     UpperTypes, FenceTypes
<1>3. ~(\/ exec_trap(d) \/ exec_return(d) \/ exec_csr(d) \/ load_reserved(d) \/ store_conditional(d)
        \/ exec_amo(d) \/ exec_float_single(d) \/ exec_float_double(d) \/ exec_float_mem(d))
  BY DEF exec_trap, exec_return, exec_csr, load_reserved, store_conditional, exec_amo, exec_float_single,
     exec_float_double, exec_float_mem, Enters, StoreTypes, TrapTypes, ReturnTypes, CsrTypes, AmoTypes,
     FloatSingleTypes, FloatDoubleTypes, BothWidths, ToFloatTypes, ToRegisterTypes, FromRegisterTypes,
     FloatMemTypes
<1> QED BY <1>1, <1>2, <1>3

\* The inductive invariant: between the store and print_result its line is a
\* word of opcode 35, and what it stored is still there.
StillThere(d) ==
  LET n == IF d.inst_type = "SD" THEN 4 ELSE Size(d.inst_type)
  IN (~faulted /\ d.inst_type \in StoreTypes /\ Inside(Effective(d), 4))
       => Trunc(8 * n, memory_read(mem, Effective(d), 4)) = Trunc(8 * n, regs[d.rs2])
ToPrint ==
  phase = "printing" => line \in Instructions /\ Opcode(line) = 35 /\ StillThere(Decoded[line])

\* Only executing a line leads to printing, and then the store was made.
LEMMA ToPrintKeeps ==
  ASSUME BYTE = 8, HartOK, LoopOK, ToPrint, [ENext]_evars
  PROVE  ToPrint'
<1>1. CASE ExecuteLine
  <2>1. PICK i \in Instructions : i = line /\ cpu_execute(i)
    BY <1>1 DEF ExecuteLine
  <2> DEFINE d == Decoded[i]
             n == IF d.inst_type = "SD" THEN 4 ELSE Size(d.inst_type)
  <2>2. ASSUME ~faulted', d.inst_type \in StoreTypes, Inside(Effective(d)', 4)
        PROVE  Trunc(8 * n, memory_read(mem', Effective(d)', 4)) = Trunc(8 * n, regs'[d.rs2])
    <3>1. d.rs1 \in Registers /\ d = Decoded[i]
      BY OperandsNameRegisters
    <3> HIDE DEF d
    <3>2. exec_store(d)
      BY <2>1, <2>2, <3>1, StoreHandler DEF wild_access
    <3>3. regs' = regs /\ Effective(d)' = Effective(d)
      BY <3>2 DEF exec_store, Effective
    <3> QED BY <2>2, <3>1, <3>2, <3>3, StoreShows
  <2>3. StillThere(d)'
    BY <2>2 DEF StillThere
  <2>4. phase' = "printing" => line' = i /\ Opcode(i) = 35
    BY <1>1, <2>1 DEF ExecuteLine
  <2> QED BY <2>3, <2>4 DEF ToPrint
<1>2. CASE UNCHANGED evars
  BY <1>2 DEF ToPrint, StillThere, evars, vars, cpu, loop, Effective
<1>3. CASE OpenInput \/ ReadInput \/ PrintStore \/ Stopped
  <2>1. phase' # "printing" \/ UNCHANGED evars
    BY <1>3 DEF OpenInput, ReadInput, SkipLine, GetLine, EndOfFile, PrintStore, Stopped
  <2> QED BY <1>2, <2>1 DEF ToPrint
<1> QED BY <1>1, <1>2, <1>3 DEF ENext

\* On every file, what print_result shows of a store that is inside memory
\* is what the store wrote, although main.c works out the address again, on
\* 32 bits and from the line as it is.
THEOREM ShownIsStoredHolds ==
  ASSUME BYTE = 8
  PROVE  ESpec => []ShownIsStored
<1>1. EInit => ToPrint
  BY DEF EInit, ToPrint
<1>2. HartOK /\ ToPrint => ShownIsStored
  <2> DEFINE d == Decoded[line]
             n == IF d.inst_type = "SD" THEN 4 ELSE Size(d.inst_type)
  <2> SUFFICES ASSUME HartOK, ToPrint, phase = "printing", ~faulted, d.inst_type \in StoreTypes,
                      Inside(Effective(d), 4) \/ Inside(PrintAddress, 4)
               PROVE  Trunc(BYTE * n, memory_read(mem, PrintAddress, 4)) = Trunc(BYTE * n, regs[d.rs2])
    BY DEF ShownIsStored
  <2>1. PrintAddress = Trunc(WORD, Effective(d))
    BY PrintAddressIsLow DEF ToPrint
  <2>2. Trunc(WORD, Trunc(WORD, Effective(d))) = Trunc(WORD, Effective(d))
    BY DEF Trunc
  <2>3. Inside(Effective(d), 4)
    BY <2>1, <2>2, Zenon DEF Inside
  <2>4. Trunc(8 * n, memory_read(mem, Effective(d), 4)) = Trunc(8 * n, regs[d.rs2])
    BY <2>3 DEF ToPrint, StillThere
  <2> QED BY <2>1, <2>4, LowAddress
<1> QED BY EInitOK, ENextKeeps, ToPrintKeeps, <1>1, <1>2, PTL DEF ESpec
-----------------------------------------------------------------------------
(* 32-bit immediates *)

BelowTypes == {"ADDI", "XORI", "ORI", "ANDI"}

\* The four instructions are decoded with the immediate of OP-IMM.
LEMMA BelowImmediate ==
  ASSUME NEW i \in Instructions, Decoded[i].inst_type \in BelowTypes
  PROVE  Decoded[i].imm = Trunc(WORD, OpImm(Expanded(i)))
<1> DEFINE w == Expanded(i)
           d == decode_instruction(w)
           f3 == Field(w, 12, 14)
           f7 == Field(w, 25, 31)
<1>1. Decoded[i].inst_type \in {"NONE", d.inst_type} /\ Decoded[i].imm = Trunc(WORD, d.imm)
  BY DEF Decoded, Fetched, Dispatched
<1>2. d.inst_type \in OpcodeTypes(Opcode(w))
  BY TypeOfOpcode
<1>3. f3 \in 0..7
  BY Fields
<1>4. /\ d.inst_type = TypeAndImm(w, Opcode(w), f3, f7)[1]
      /\ d.imm = TypeAndImm(w, Opcode(w), f3, f7)[2]
  BY DEF decode_instruction, instruction_t
<1> HIDE DEF d, f3, f7, w
<1>5. d.inst_type \in BelowTypes
  BY <1>1 DEF BelowTypes
<1>6. Opcode(w) = 19
  BY <1>2, <1>5 DEF BelowTypes, OpcodeTypes, UpperTypes, BranchTypes, StoreTypes, LoadTypes, AluRegTypes,
     SystemTypes, TrapTypes, ReturnTypes, CsrTypes, FenceTypes, AmoTypes, FusedOpcodes, FloatSingleTypes,
     FloatDoubleTypes, BothWidths, ToFloatTypes, ToRegisterTypes, FromRegisterTypes, Rv64Types, Unknown
<1>7. CASE f3 \notin {1, 5}
  BY <1>1, <1>4, <1>6, <1>7 DEF TypeAndImm, FusedOpcodes, w
<1>8. CASE f3 \in {1, 5}
  <2>1. d.inst_type = op_imm_table(f7)[f3 + 1]
    BY <1>4, <1>6, <1>8 DEF TypeAndImm, FusedOpcodes
  <2>2. op_imm_table(f7)[f3 + 1] \in {"SLLI", "SRLI", "SRAI", "UNKNOWN"}
    BY <1>8 DEF op_imm_table, Unknowns
  <2> QED BY <1>5, <2>1, <2>2 DEF BelowTypes
<1> QED BY <1>7, <1>8

\* That immediate is the low word of the sign-extended one.
LEMMA ImmediateIsLow ==
  ASSUME BYTE = 8, NEW w
  PROVE  LET wide == SignExt(12, XLEN, Slice(w, 20, 31, 0))
         IN /\ OpImm(w) = Trunc(WORD, wide) /\ OpImm(w) \in Words(WORD)
            /\ wide \in Words(XLEN)
            /\ ~Negative(XLEN, wide) => OpImm(w) = wide
<1> DEFINE s == Slice(w, 20, 31, 0)
           wide == SignExt(12, XLEN, s)
<1>1. 20 \in Nat /\ 31 \in Nat /\ 12 \in Nat /\ 12 = 31 - 20 + 1
  OBVIOUS
<1>2. s \in Words(12) /\ \A k \in Bits(12) : k \in s <=> k + 20 \in w
  BY <1>1, SlicesAreWords, Zenon
<1>3. OpImm(w) = s \cup SignFrom(31, w, 12)
  BY DEF OpImm, DefaultImm
<1> HIDE DEF s
<1>4. s \subseteq 0..11 /\ (11 \in s <=> 31 \in w)
  BY <1>2 DEF Words, Bits
<1>5. wide = s \cup IF 31 \in w THEN 12..(XLEN - 1) ELSE {}
  <2>1. Bits(12) = 0..11
    BY DEF Bits
  <2>2. Trunc(12, s) = s
    BY <1>4, <2>1 DEF Trunc
  <2>3. 12 - 1 = 11
    OBVIOUS
  <2> QED BY <1>4, <2>2, <2>3 DEF SignExt
<1>6. OpImm(w) = s \cup IF 31 \in w THEN 12..31 ELSE {}
  BY <1>3 DEF SignFrom
<1>7. WORD = 32 /\ XLEN \in {32, 64}
  BY ByteWidths
<1> HIDE DEF wide
<1>8. OpImm(w) = Trunc(WORD, wide) /\ OpImm(w) \in Words(WORD) /\ wide \in Words(XLEN)
  <2>1. Bits(WORD) = 0..31 /\ 0..11 \subseteq 0..31 /\ 12..31 \subseteq 0..31
    BY <1>7 DEF Bits
  <2>2. 0..31 \subseteq Bits(XLEN) /\ 12..(XLEN - 1) \subseteq Bits(XLEN)
    BY <1>7 DEF Bits
  <2>3. (12..(XLEN - 1)) \cap 0..31 = 12..31
    BY <1>7
  <2>4. OpImm(w) \in Words(WORD)
    BY <1>4, <1>6, <2>1 DEF Words
  <2>5. wide \in Words(XLEN)
    BY <1>4, <1>5, <2>1, <2>2 DEF Words
  <2>6. OpImm(w) = Trunc(WORD, wide)
    BY <1>4, <1>5, <1>6, <2>1, <2>3 DEF Trunc
  <2> QED BY <2>4, <2>5, <2>6
<1>9. ~Negative(XLEN, wide) => OpImm(w) = wide
  <2>1. 31 \in w => XLEN - 1 \in wide
    BY <1>5, <1>7
  <2> QED BY <1>5, <1>6, <2>1 DEF Negative
<1> QED BY <1>8, <1>9 DEF wide, s

\* What the four operations give with the low word of an immediate.
LEMMA LowImmediateReaches ==
  ASSUME BYTE = 8, NEW type \in BelowTypes, NEW x \in Words(XLEN), NEW wide \in Words(XLEN),
         NEW imm, imm = Trunc(WORD, wide), ~Negative(XLEN, wide) => imm = wide
  PROVE  LET r == alu_imm(type, x, imm)
             full == alu_imm(type, x, wide)
         IN /\ r \in Words(XLEN)
            /\ Trunc(WORD, r) = Trunc(WORD, full)
            /\ r \ Bits(WORD) = IF ~Negative(XLEN, wide) THEN full \ Bits(WORD)
                                ELSE IF type = "ANDI" THEN {}
                                ELSE IF type # "ADDI" THEN x \ Bits(WORD)
                                ELSE Add(XLEN, x, Trunc(WORD, wide)) \ Bits(WORD)
<1> DEFINE r == alu_imm(type, x, imm)
           full == alu_imm(type, x, wide)
<1>1. WORD = 32 /\ XLEN \in Nat /\ WORD \in 0..XLEN /\ Words(WORD) \subseteq Words(XLEN)
  BY ByteWidths
<1>2. imm \subseteq Bits(WORD) /\ imm \in Words(XLEN) /\ Trunc(WORD, imm) = imm
  BY <1>1 DEF Trunc, Words
<1>3. CASE type = "ADDI"
  <2>1. r = Add(XLEN, x, imm) /\ full = Add(XLEN, x, wide)
    BY <1>3 DEF alu_imm
  <2>2. Trunc(WORD, r) = Trunc(WORD, full)
    BY <1>1, <1>2, <2>1, TruncAdd
  <2> QED BY <1>3, <2>1, <2>2, AddIsWord
<1>4. CASE type = "ANDI"
  <2>1. r = x \cap imm /\ full = x \cap wide
    BY <1>4 DEF alu_imm
  <2>2. Trunc(WORD, r) = Trunc(WORD, full) /\ r \ Bits(WORD) = {} /\ r \in Words(XLEN)
    BY <1>2, <2>1 DEF Trunc, Words
  <2> QED BY <1>4, <2>1, <2>2
<1>5. CASE type = "ORI"
  <2>1. r = x \cup imm /\ full = x \cup wide
    BY <1>5 DEF alu_imm
  <2>2. Trunc(WORD, r) = Trunc(WORD, full) /\ r \ Bits(WORD) = x \ Bits(WORD) /\ r \in Words(XLEN)
    BY <1>2, <2>1 DEF Trunc, Words
  <2> QED BY <1>5, <2>1, <2>2
<1>6. CASE type = "XORI"
  <2>1. r = SymDiff(x, imm) /\ full = SymDiff(x, wide)
    BY <1>6 DEF alu_imm
  <2>2. Trunc(WORD, r) = Trunc(WORD, full) /\ r \ Bits(WORD) = x \ Bits(WORD) /\ r \in Words(XLEN)
    BY <1>2, <2>1 DEF Trunc, Words, SymDiff
  <2> QED BY <1>6, <2>1, <2>2
<1> QED BY <1>3, <1>4, <1>5, <1>6 DEF BelowTypes

\* The handler that ADDI, XORI, ORI and ANDI enter.
LEMMA BelowHandler ==
  ASSUME NEW d, d.inst_type \in BelowTypes, NEW i \in Instructions, cpu_execute(i), d = Decoded[i]
  PROVE  exec_alu_imm(d)
<1>1. \/ exec_alu_reg(d) \/ exec_alu_imm(d) \/ exec_rv64(d) \/ exec_load(d) \/ exec_store(d)
      \/ exec_branch(d) \/ exec_jump(d) \/ exec_upper(d)
      \/ exec_trap(d) \/ exec_return(d) \/ exec_csr(d) \/ exec_fence(d)
      \/ load_reserved(d) \/ store_conditional(d) \/ exec_amo(d)
      \/ exec_float_single(d) \/ exec_float_double(d) \/ exec_float_mem(d)
      \/ wild_access(d) \/ exec_unknown(d)
  BY DEF cpu_execute
<1>2. ~(\/ exec_alu_reg(d) \/ exec_store(d) \/ exec_rv64(d) \/ exec_load(d) \/ exec_branch(d)
        \/ exec_jump(d) \/ exec_upper(d) \/ exec_fence(d) \/ exec_unknown(d))
  BY DEF exec_alu_reg, exec_store, exec_rv64, exec_load, exec_branch, exec_jump, exec_upper, exec_fence,
     exec_unknown, Enters, StoreTypes, AluRegTypes, BelowTypes, Rv64Types, LoadTypes, BranchTypes, JumpTypes,
     UpperTypes, FenceTypes
<1>3. ~(\/ exec_trap(d) \/ exec_return(d) \/ exec_csr(d) \/ load_reserved(d) \/ store_conditional(d)
        \/ exec_amo(d) \/ exec_float_single(d) \/ exec_float_double(d) \/ exec_float_mem(d))
  BY DEF exec_trap, exec_return, exec_csr, load_reserved, store_conditional, exec_amo, exec_float_single,
     exec_float_double, exec_float_mem, Enters, BelowTypes, TrapTypes, ReturnTypes, CsrTypes, AmoTypes,
     FloatSingleTypes, FloatDoubleTypes, BothWidths, ToFloatTypes, ToRegisterTypes, FromRegisterTypes,
     FloatMemTypes
<1>4. ~wild_access(d)
  <2>1. Accesses(d) = {}
    BY DEF Accesses, BelowTypes, LoadTypes, StoreTypes, AmoTypes
  <2> QED BY <2>1 DEF wild_access, Faults
<1> QED BY <1>1, <1>2, <1>3, <1>4

\* So does every such instruction.
LEMMA InstructionReachesBelow32 ==
  ASSUME BYTE = 8, HartOK, NEW i \in Instructions, i = line, cpu_execute(i), NEW d, d = Decoded[i],
         d.inst_type \in BelowTypes
  PROVE  ReachesBelow32(d)
<1> DEFINE r == alu_imm(d.inst_type, regs[d.rs1], d.imm)
<1>1. exec_alu_imm(d)
  BY BelowHandler
<1>2. d.rs1 \in Registers /\ d.rd \in Registers
  BY OperandsNameRegisters
<1>3. regs[d.rs1] \in Words(XLEN)
  BY <1>2 DEF HartOK, TypeOK
<1>4. /\ d.imm = Trunc(WORD, OpImm(Expanded(i)))
      /\ OpImm(Expanded(i)) = Trunc(WORD, SignedImm) /\ OpImm(Expanded(i)) \in Words(WORD)
      /\ SignedImm \in Words(XLEN)
      /\ ~Negative(XLEN, SignedImm) => OpImm(Expanded(i)) = SignedImm
  BY BelowImmediate, ImmediateIsLow DEF SignedImm
<1>5. d.imm = OpImm(Expanded(i))
  BY <1>4 DEF Trunc, Words
<1>6. d.imm = Trunc(WORD, SignedImm) /\ (~Negative(XLEN, SignedImm) => d.imm = SignedImm)
  BY <1>4, <1>5
<1>7. d.rd # 0 => regs'[d.rd] = Trunc(XLEN, r)
  BY <1>1, <1>2 DEF exec_alu_imm, SetReg, HartOK, TypeOK
<1> DEFINE full == alu_imm(d.inst_type, regs[d.rs1], SignedImm)
<1>8. /\ r \in Words(XLEN)
      /\ Trunc(WORD, r) = Trunc(WORD, full)
      /\ r \ Bits(WORD) = IF ~Negative(XLEN, SignedImm) THEN full \ Bits(WORD)
                          ELSE IF d.inst_type = "ANDI" THEN {}
                          ELSE IF d.inst_type # "ADDI" THEN regs[d.rs1] \ Bits(WORD)
                          ELSE Add(XLEN, regs[d.rs1], Trunc(WORD, SignedImm)) \ Bits(WORD)
  BY <1>3, <1>4, <1>6, LowImmediateReaches
<1> HIDE DEF r
<1>9. Trunc(XLEN, r) = r
  BY <1>8 DEF Trunc, Words
<1> QED BY <1>7, <1>8, <1>9, Zenon DEF ReachesBelow32

\* On every file, the low word of what ADDI, XORI, ORI and ANDI give is that
\* of the operation on the sign-extended immediate, and their upper word is
\* never filled with its sign.
THEOREM ImmediatesReachBelow32Holds ==
  ASSUME BYTE = 8
  PROVE  ESpec => ImmediatesReachBelow32
<1>1. HartOK /\ LoopOK /\ [ENext]_evars => [Executes({"ADDI", "XORI", "ORI", "ANDI"}, ReachesBelow32)]_evars
  <2> SUFFICES ASSUME HartOK, [ENext]_evars
               PROVE  [Executes({"ADDI", "XORI", "ORI", "ANDI"}, ReachesBelow32)]_evars
    OBVIOUS
  <2>1. CASE ExecuteLine
    <3>1. PICK i \in Instructions : i = line /\ cpu_execute(i)
      BY <2>1 DEF ExecuteLine
    <3> QED BY <3>1, InstructionReachesBelow32 DEF Executes, BelowTypes
  <2>2. CASE OpenInput \/ ReadInput \/ PrintStore \/ Stopped \/ UNCHANGED evars
    <3>1. phase # "executing" \/ phase' = phase
      BY <2>2 DEF OpenInput, ReadInput, SkipLine, GetLine, EndOfFile, PrintStore, Stopped, evars, loop
    <3> QED BY <3>1 DEF Executes
  <2> QED BY <2>1, <2>2 DEF ENext
<1> QED BY EInitOK, ENextKeeps, <1>1, PTL DEF ESpec, ImmediatesReachBelow32
=============================================================================
