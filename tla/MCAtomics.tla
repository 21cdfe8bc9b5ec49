------------------------------ MODULE MCAtomics ----------------------------
(***************************************************************************)
(* Loads, stores, atomics and the traffic of the floating-point registers  *)
(* at and around the end of memory, on RV32 and RV64. The history variable *)
(* is what a program learns from an SC.                                    *)
(***************************************************************************)
EXTENDS Emulator, Assembler

VARIABLE reply         \* of the step just taken, if it was an SC with a result
mvars == <<evars, reply>>

load(f3, rd, rs1, off)   == encode_i(3, R(rd), R(rs1), Imm(off), f3)
store(f3, rs2, rs1, off) == encode_s(35, R(rs1), R(rs2), Imm(off), f3)
atomic(f5, f3, rd, rs2, rs1) == encode_r(47, R(rd), R(rs1), R(rs2), f3, 4 * f5)
lr(f3, rd, rs1)      == atomic(2, f3, rd, 0, rs1)
sc(f3, rd, rs2, rs1) == atomic(3, f3, rd, rs2, rs1)
fload(f3, rd, rs1) == encode_i(7, R(rd), R(rs1), {}, f3)
fsw(rs2, rs1)      == encode_s(39, R(rs1), R(rs2), {}, 2)
fp(f7, rd, rs1, rs2, f3) == encode_r(83, R(rd), R(rs1), R(rs2), f3, f7)

\* x1 is an address: 0, a misaligned one, the last cells, -3, where the bounds
\* check of a word wraps, or -4, where the second half of SD is at 0 again. x2 is data, positive or negative.
CommonProgram ==
  { i_type("ADDI", 1, 1, 5), i_type("ADDI", 1, 0, -3), i_type("ADDI", 2, 2, 77),
    i_type("ADDI", 2, 0, -300),
    store(0, 2, 0, 8), store(1, 2, 1, 3), store(2, 2, 1, 0) }
Rv32Program == CommonProgram \cup
  { load(0, 3, 1, 0), load(1, 3, 1, 0), load(2, 3, 1, 0), load(4, 3, 1, 0),
    lr(2, 3, 1), lr(2, 0, 1), sc(2, 3, 2, 1), sc(2, 0, 2, 1),
    atomic(0, 2, 3, 2, 1), atomic(16, 2, 0, 2, 1), atomic(28, 2, 3, 2, 1),
    atomic(4, 2, 3, 2, 1), atomic(8, 2, 3, 2, 1), atomic(12, 2, 0, 2, 1),
    fload(2, 2, 1), fload(2, 0, 1), fsw(2, 1),
    fp(120, 2, 2, 0, 0), fp(112, 3, 2, 0, 0),              \* FMV.W.X, FMV.X.W
    fp(16, 2, 2, 2, 1), fp(112, 3, 2, 0, 1) }              \* FSGNJN.S, FCLASS.S
Rv64Program == CommonProgram \cup
  { load(3, 3, 1, 0), load(6, 3, 1, 0), store(3, 2, 1, 0),
    lr(3, 3, 1), lr(2, 3, 1), sc(3, 3, 2, 1), sc(2, 3, 2, 1),
    atomic(1, 3, 3, 2, 1), atomic(20, 2, 3, 2, 1), atomic(24, 2, 3, 2, 1), atomic(24, 3, 3, 2, 1),
    i_type("ADDI", 1, 0, -4),
    fload(3, 2, 1), fsw(2, 1), fp(33, 2, 2, 0, 0), fp(32, 2, 2, 1, 0),  \* FCVT.D.S, FCVT.S.D
    fp(105, 2, 2, 0, 0), fp(81, 3, 2, 2, 1),               \* FCVT.D.W, FLT.D
    r_type("ADDW", 2, 2, 2), r_type("MUL", 2, 2, 2), i_type("ADDIW", 2, 2, 1) }

MInit == EInit /\ reply = "none"
Reply(d) ==
  IF d.inst_type # "SC" \/ d.rd = 0 THEN "none" ELSE IF regs'[d.rd] = {} THEN "ok" ELSE "failed"
MNext ==
  \/ ExecuteLine /\ reply' = IF faulted' THEN "none" ELSE Reply(Decoded[line])
  \/ (OpenInput \/ ReadInput \/ PrintStore \/ Stopped) /\ reply' = "none"
MSpec == MInit /\ [][MNext]_mvars

-----------------------------------------------------------------------------
\* The memory operand of an instruction.
Operand(d) ==
  IF d.inst_type \in {"LR", "SC"} \cup AmoTypes
  THEN <<regs[d.rs1], IF d.wide THEN 8 ELSE 4>>
  ELSE <<Effective(d), IF d.inst_type \in PairTypes THEN 8 ELSE Size(d.inst_type)>>

\* The bytes of memory that an access at an address may write: those of one
\* of memory.c's accesses there, or of one of the two halves of SD.
Reaches(address, n) ==
  IF Accepted(address, n) /\ ~Wild(address, n)
  THEN Addresses \cap Index(address, 0)..(Index(address, 0) + n - 1) ELSE {}
CellsOf(address) ==
  UNION {Reaches(part[1], part[2]) : part \in {<<address, n>> : n \in {1, 2, 4, 8}} \cup Halves(address)}
NoAddress == {-1}
Link == IF reservation_set THEN reserved_address ELSE NoAddress
\* The address the line that has been read will access.
Request == IF phase = "executing" THEN Operand(Decoded[line])[1] ELSE {}
\* And what it asks of memory; an LR or SC to x0 asks for nothing.
Asks(d) ==
  CASE d.inst_type = "LR" /\ d.rd # 0 -> "reserve"
    [] d.inst_type = "SC" /\ d.rd # 0 -> "conditional"
    [] d.inst_type \in StoreTypes \cup {"FSW"} \cup AmoTypes -> "write"
    [] OTHER -> "none"
Kind == IF phase = "executing" THEN Asks(Decoded[line]) ELSE "none"
Linked == INSTANCE LinkedMemory
  WITH Values <- Byte, Empty <- {}, Links <- Words(XLEN), NoLink <- NoAddress, Cells <- CellsOf,
       memory <- mem, link <- Link, kind <- Kind, request <- Request, ended <- faulted

\* Memory, the reservation of cpu_t and what SC puts in rd implement the
\* abstract linked memory: every LR takes the reservation and nothing else
\* does, one success per LR, at the reserved address only, every SC ends the
\* reservation and a failing one writes nothing, and no store, AMO, load, trap
\* or dropped access touches the reservation or a byte outside its own access.
\* An LR or SC to x0 changes neither memory nor the reservation.
LinkedSpec == Linked!LSpec

ReadTypes == LoadTypes \cup {"FLW", "FLD"}
MemoryTypes == ReadTypes \cup StoreTypes \cup {"FSW", "LR", "SC"} \cup AmoTypes
\* What the instruction put in its rd.
Result(d) == CASE d.inst_type = "FLW" -> fregs'[d.rd]
               [] d.inst_type = "FLD" -> dfregs'[d.rd]
               [] OTHER -> regs'[d.rd]
\* No part of the access is inside memory by itself.
Outside(d, a, n) ==
  IF d.inst_type \in PairTypes THEN \A half \in Halves(a) : ~Inside(half[1], half[2])
                              ELSE ~Inside(a, n)

AllOrNothing(d) ==
  LET a == Operand(d)[1]
      n == Operand(d)[2]
  IN /\ Inside(a, n) => ~faulted'
     /\ Outside(d, a, n)
          => /\ mem' = mem
             /\ d.inst_type \in ReadTypes \cup {"LR"} \cup AmoTypes /\ d.rd # 0 /\ ~faulted'
                  => Result(d) = {}
\* An access that is not wholly inside memory writes nothing and returns 0,
\* or ends the process where the bounds check wraps; one that is inside never
\* ends it. (LD, SD and FLD may be torn: one half inside and one not.)
AccessesAreAllOrNothing == [][Executes(MemoryTypes, AllOrNothing)]_mvars

\* LB, LH and LW fill the upper bits with the sign of the highest byte.
Filled(d, a, n) ==
  IF d.inst_type \in {"LB", "LH", "LW"} /\ BYTE - 1 \in mem[Index(a, n - 1)]
  THEN Bits(XLEN) \ Bits(BYTE * n) ELSE {}
\* One word of a register, half an LD or FLD: the bytes of memory at its own
\* address, or 0 when they are not all inside memory.
HalfMatches(d, address, h) ==
  \A k \in 0..3 : LET low == BYTE * (4 * h + k)
                  IN Slice(Result(d), low, low + BYTE - 1, 0)
                       = IF Inside(address, 4) THEN mem[Index(address, k)] ELSE {}
MatchesBytes(d) ==
  LET a == Operand(d)[1]
      n == Operand(d)[2]
  IN d.rd # 0 =>
       /\ Inside(a, n) =>
            /\ \A k \in 0..(n - 1) : Slice(Result(d), BYTE * k, BYTE * k + BYTE - 1, 0) = mem[Index(a, k)]
            /\ Result(d) \ Bits(BYTE * n) = Filled(d, a, n)
       /\ (d.inst_type \in PairTypes /\ ~faulted') =>
            HalfMatches(d, a, 0) /\ HalfMatches(d, Add(XLEN, a, Num(4)), 1)
\* What a load leaves in its register is, byte by byte, what is in memory at
\* its address, lowest first, misaligned or not and through two accesses or
\* one; LB, LH and LW fill the rest with the sign, the others with zeros. An
\* LD or FLD that is torn by an end of memory delivers the word that is inside
\* in its own half and 0 in the other.
LoadsMatchBytes == [][Executes(ReadTypes, MatchesBytes)]_mvars

\* The register a store takes its bytes from.
StoreData(d) == IF d.inst_type = "FSW" THEN fregs[d.rs2] ELSE regs[d.rs2]
ReadsBack(d) ==
  LET a == Operand(d)[1]
      n == Operand(d)[2]
  IN Inside(a, n) =>
       /\ memory_read(mem', a, n) = Trunc(BYTE * n, StoreData(d))
       /\ \A k \in 0..(n - 1) :
            memory_read(mem', Add(XLEN, a, Num(k)), 1) = Trunc(BYTE, ShiftR(XLEN, StoreData(d), BYTE * k))
       /\ \A x \in Addresses \ Index(a, 0)..Index(a, n - 1) : mem'[x] = mem[x]
\* What is stored is what is read back, by the widest load and by the loads
\* of its parts: a store leaves the low bytes of rs2 at its address in
\* little-endian order and every other byte as it was. (FSW too, but its
\* address is the one the decoder gives it.)
StoresReadBack == [][Executes(StoreTypes \cup {"FSW"}, ReadsBack)]_mvars

StoresReported(d) ==
  LET a == Operand(d)[1]
      n == Operand(d)[2]
  IN (d.rd # 0 /\ reply' = "ok") =>
       IF Inside(a, n) THEN memory_read(mem', a, n) = Trunc(BYTE * n, regs[d.rs2]) ELSE mem' = mem
\* An SC that reports success has stored all its bytes of rs2 if they are
\* inside memory. If they are not, it reports success all the same, and has
\* stored none of them.
ScStoresWhatItReports == [][Executes({"SC"}, StoresReported)]_mvars

\* What the AMO leaves in memory, of n bits, from what was there and rs2.
Combines(d, n, old, new) ==
  LET arg == Trunc(n, regs[d.rs2])
  IN CASE d.inst_type = "AMOADD"  -> Sub(n, new, arg) = old
       [] d.inst_type = "AMOSWAP" -> new = arg
       [] d.inst_type = "AMOXOR"  -> SymDiff(new, arg) = old
       [] d.inst_type = "AMOAND"  -> new = old \cap arg
       [] d.inst_type = "AMOOR"   -> new = old \cup arg
       [] d.inst_type = "AMOMIN"  -> new \in {old, arg} /\ ~LtS(n, old, new) /\ ~LtS(n, arg, new)
       [] d.inst_type = "AMOMAX"  -> new \in {old, arg} /\ ~LtS(n, new, old) /\ ~LtS(n, new, arg)
       [] d.inst_type \in {"AMOMINU", "AMOMAXU"} ->
            /\ new \in {old, arg}
            /\ regs[d.rs2] = arg => IF d.inst_type = "AMOMINU"
                                    THEN ~LtU(old, new) /\ ~LtU(arg, new)
                                    ELSE ~LtU(new, old) /\ ~LtU(new, arg)
AmoCombines(d) ==
  LET a   == Operand(d)[1]
      n   == Operand(d)[2]
      old == memory_read(mem, a, n)
  IN Inside(a, n) =>
       /\ d.rd # 0 => regs'[d.rd] = IF d.wide THEN old ELSE SignExt(WORD, XLEN, old)
       /\ Combines(d, BYTE * n, old, memory_read(mem', a, n))
\* An AMO returns what a load of its width would have and stores the sum,
\* the copy, the bitwise combination, the smaller or the larger of that and
\* rs2, also when rd is x0 or when the address is misaligned. (AMOMINU.W and AMOMAXU.W compare with
\* all of rs2: on RV64 they choose rightly only when rs2 is below 2^32.)
AmosCombine == [][Executes(AmoTypes, AmoCombines)]_mvars
=============================================================================
