# A verification project for the RV32/64 emulator

The program is an instruction-set emulator in C: `main.c` reads instruction
words in hexadecimal from `instruction.hex` and feeds them one by one to
`cpu_execute`, which decodes and executes them on a `cpu_t` and a `memory_t`.
`assembler.py` produces such files. There is one process and one thread, and
nothing is persisted: the hard part is not concurrency but that a long sequence
of legal instructions, at the edges of the integer types and of memory, must
keep the architectural state right. This directory models it in TLA+, checks
the models with TLC and proves theorems about them with TLAPS.

## Inventory

| Component | Source | State | Operations | What makes it correct |
|---|---|---|---|---|
| configuration | `core/cpu.h`, build files | XLEN (32 or 64) | none | the same code is right at both widths |
| decoder | `core/decode.c` 9-400, `core/decode_table.c` | constant tables | `decode_instruction` | an encoded instruction comes back with its name, registers and immediate |
| compressed expansion | `core/decode.c` 403-599 | none | `expand_compressed` | each 16-bit word becomes the instruction its case names |
| hart | `core/cpu.c` 11-71, `core/jump_table.c` 1-741 | registers, pc, CSRs, privilege, reservation | `cpu_init`, `cpu_execute`, one handler per instruction group | x0 is zero, pc lands where it should, traps and returns fit, arithmetic is right at every edge |
| floating point | `core/jump_table.c` 742-967 | `fregs`, `dfregs`, two separate files | `exec_float_single`, `exec_float_double`, `exec_float_mem` | results are the nearest values, comparisons order them, bit patterns survive moves, loads and stores |
| memory | `core/memory.c` | 1 MiB of bytes | read and write of 1, 2, 4, 8 bytes | no access beyond the array, no torn write, what is stored is read back |
| harness | `main.c` | position in the file | `main`, `print_result` | it ends on every file and shows what was stored |
| assembler | `assembler.py` | none | `assemble_line` | what it emits decodes to what was written |
| former switch | `core/cpu.c` 73-826 | | | not compiled (`#if 0`) |

Interaction is by call: `main` -> `cpu_execute` -> `expand_compressed`,
`decode_instruction` -> the handler in `instruction_table` -> `memory.c`; then
`cpu_execute` adds 2 or 4 to pc whatever the handler did, and `main` calls
`print_result`, which decodes a store a second time and reads memory again.
Fetching is by file position: pc is computed and printed but never used to
choose the next word.

What is hard to get right here, with the properties that watch it:

- **Handler and caller share pc.** A branch must subtract what its caller will
  add, for every kind of word (`BranchLands`, `PcStaysEven`; `JumpLands` fails).
- **Order of reads and writes inside a handler**: JALR and the CSR instructions
  write rd before they read rs1 (`CsrsExchange`, `PcStaysEven`).
- **Protocols over several instructions**: LR/SC (`LinkedSpec`,
  `ScStoresWhatItReports`), trap and return (`ReturnResumesPastTrap`,
  `ReturnsSettle`).
- **Edges of the address space**: the bounds check wraps; an 8-byte access is two
  4-byte ones (`AccessesAreAllOrNothing`, `LoadsMatchBytes`, `StoresReadBack`).
- **Edges of the integers**: division by zero and overflow, widths, signs, 32-bit
  immediates in 64-bit registers (`DivisionIdentity`, `ProductHalves`,
  `ArithmeticAgrees`, `WordResultsAreSigned`, `AmosCombine`,
  `ImmediatesReachBelow32`).
- **Edges of floating point**: NaNs, infinities, signed zeros, subnormals, ties,
  conversions that do not fit (`FloatsAreOrdered`, `FloatsAreNearest`,
  `FloatExceptions`, `FloatConversions`).
- **Scattered bit fields**, decoded in two or three places (`AssembledDecodesBack`,
  `WordOpsDecodeBack`, `ExpansionIsTheNamedInstruction`,
  `CompressedBranchOperands`, `CompressedAccessesMeet`, `ShownIsStored`;
  `JalOffsetDecodesBack`, `FloatStoresDecodeBack`, `MiscAluIsNamed` fail).

`PROJECT.json` lists the hazards one by one with the line where each bites.

## Modules

| Module | Models | Notes |
|---|---|---|
| `Words` | C's unsigned integers | a word is the set of positions of its 1 bits: `&`, `\|`, `~`, truncation and zero-extension are set operations, and 64-bit words need no 64-bit numbers |
| `Config` | XLEN, `reg_t` | `BYTE` scales all widths for exhaustive arithmetic |
| `Alu` | the values the integer handlers compute | with the code's case distinctions; undefined results are sets |
| `Float` | the values the floating-point handlers compute | on IEEE 754 bit patterns of any format, by exact arithmetic and one rounding; what C or the host leaves open is a set |
| `Decode` | `decode_instruction` and its tables | |
| `Formats`, `Assembler` | `encode_*`, `assemble_line` | |
| `Compressed` | `expand_compressed` | |
| `Memory` | `memory.c` | one read and one write operator for all widths |
| `Cpu` | `cpu_t`, `cpu_execute`, `instruction_table`, the handlers | extends `Float` (and with it `Alu`), `Decode`, `Compressed` and `Memory`; an action is all of `cpu_execute` for one word: expansion, decoding, handler, increment |
| `Emulator` | `main`, `print_result` | extends `Cpu` with the loop over the file; `print_result`'s own copy of the S-type immediate is a definition of its own (`PrintImm`) |
| `LinkedMemory` | abstract: memory with LR/SC | what `Cpu` and `Memory` promise a program, with no instruction set |
| `MCDecode`, `MCAlu`, `MCControl`, `MCTraps`, `MCHarness`, `MCAtomics` | the instances for TLC and their properties | |
| `WordsProofs` | lemmas about `Words` | laws of the adder, numbers of words, division, products, signs, arithmetic modulo 2^n |
| `EncodingProofs` | theorems of `MCDecode` | from a line or a 16-bit word to the decoded record |
| `EmulatorProofs` | theorems of `Decode`, `Compressed`, `Cpu` and `Emulator`; reading back what `Memory` wrote | for any words, sizes and length of the file |
| `TrapsProofs`, `HarnessProofs` | theorems of `MCTraps` and `MCHarness` | the specifications with history variables |
| `AtomicsProofs` | theorems of `MCAtomics` | the refinement and the accesses to memory |
| `FloatProofs` | lemmas about `Float` | patterns, values and rounding, for every format |
| `AluProofs` | theorems of `MCAlu` | at the real widths |

State and code correspond one to one: `regs`, `fregs`, `dfregs`, `pc`, `csrs`,
`privilege`, `reserved_address` and `reservation_set` are the fields of `cpu_t`,
`mem` is `memory_t`. The code keeps floats and doubles in two arrays, so
`fregs[i]` and `dfregs[i]` are independent words, and FLW and FLD of f0 are
dropped by a test meant for x0. `faulted` is not a C variable: it is set when the process dies
because an access passed the wrapped bounds check and indexed the array 4 GiB
past its start. `phase`, `lines_left` and `line` are main's program counter and
its local variables. `exec_system` is split into `exec_trap`, `exec_return`,
`exec_csr` and `exec_fence`, and `exec_atomic` into `load_reserved`,
`store_conditional` and `exec_amo`, by groups of their cases; a guard (`Enters`)
makes exactly one enabled for each word.

`csrs` is kept on the constant `Csrs`, the numbers the instructions of a run
name, because the other entries of the array of 4096 are never read. A handler
with undefined behaviour is a choice: on RV64 the MULH group shifts a 64-bit
value by 64, so its result is any word; a conversion of a float that does not fit
an integer has the results the targets can produce; an operation that makes a NaN
has the NaNs a host may choose.

## Runs

| Run | Question | Instance | Size |
|---|---|---|---|
| `decode` | Do assembler and decoder agree, is every 16-bit word expanded, on RV32 and RV64, to exactly the instruction its comment names, do compressed loads and stores agree? | all 49152 compressed words; for each mnemonic four registers per operand and immediates at and near both ends | 104420 states |
| `alu` | Is the integer and floating-point arithmetic right? | all pairs of 8-bit words, RV32 scaled to 4 bits and RV64 to 8 (`BYTE = 1`); all pairs of a 6-bit float format, with a third operand for the fused operations, and an 8-bit double (`ShortExp`, `ShortMan`, `LongExp`) | 131072 |
| `control` | Where does pc end, does it stay even, is x0 zero? | 21 words, up to 4 lines, every handler group but memory and float | 30883 |
| `traps` | What can a trap handler rely on? | 15 words, up to 5 lines: a return, a trap, another, and the accesses between | 156059 |
| `harness` | RV64: does main end on every file, does it show what was stored, what do 32-bit immediates do to pc and registers? | 16 words, up to 3 lines, 8 bytes of memory | 863 |
| `atomics32`, `atomics64` | Do memory and LR/SC implement `LinkedMemory`? Are accesses all-or-nothing, byte for byte, combined right, from both register sets? | 25 and 28 words, up to 5 and 4 lines, 9 bytes of memory | 87530, 23823 |
| `decode_jal`, `decode_mul`, `decode_misc_alu`, `decode_float_stores`, `control_jump` | see Findings | | |

The bounds: `MaxLines` bounds the file; the longest scenario a property needs is
four instructions (set up an address, LR, write, SC; set up a CSR, trap, nested
trap, return), and a value that crosses from a float register to memory and back
takes four. A memory of 9 bytes has room for an aligned and a misaligned
doubleword and an end that is no multiple of the access width; addresses 0, 5,
10, -3 and -4 are inside, across and past both ends. `alu` covers every operand
at its width; that its four integer properties hold at widths 32 and 64 too is
proved. A
6-bit float (3 bits of exponent, 2 of fraction) has both zeros, subnormals,
several binades, ties, infinities and quiet and signalling NaNs, and `Float` has
no case that depends on the widths.

Deadlock is checked where `Emulator` runs (`Stopped` is main's return). The
`decode` and `alu` systems take a single step and stop: `CHECK_DEADLOCK FALSE`.

Fairness is used once, in `harness`: main's steps are weakly fair, since the
process is a single thread that the operating system schedules as long as it can
run; a step of main is never blocked. The end of the file is what makes
`ReachesTheEnd` true, and the property is that no instruction stands in the way.

Refinement: `LinkedMemory` has a memory, a link, the kind and the address of the
access the program asks for (`kind`, `request`), the reply to a conditional write,
and whether an access has ended the process. A step serves the access that was
asked for before it, as its kind and no other: a reservation links its address, a
conditional write stores at the linked one or fails, a plain write changes the
cells an access there may touch (`Cells`), anything else leaves memory and link
alone; or the step ends the process. In `MCAtomics` memory is `mem`, the link is
the reserved address when `reservation_set`, kind and request are those of the
line that has been read (`Asks`; an LR or SC to x0 asks for nothing, since the
code then does nothing), and `Cells` are the bytes of memory's accesses there, of
either half of SD included. The history variable `reply` is what the last SC left
in rd. So only an LR takes the reservation, a step that is not an SC at the linked
address cannot report success, a second SC fails without another LR, an SC to x0
stores nothing, and nothing outside the span of an instruction's own address ever
changes.

`MCTraps` adds history variables: what each trap saved (`saved`), the returns that
each status register has been through since software named it (`returns`), and whether
software left its enable bit set (`asked`), which no trap or return clears.

Floats: `FloatsAreNearest` is about finite operands; `FloatExceptions` states the
result for NaN, infinite and zero operands where no nearest value is meant.

### Findings

Five runs show, in seven places, the code doing something else than a comment or
test says.

- `decode.c:42`: the bits labelled `imm[19:12]` are taken from bits 31:24, so a
  jal with a large enough offset decodes to another (`JalOffsetDecodesBack`).
- `decode_table.c:61`: on RV64, MUL, DIV, DIVU, REM and REMU are overwritten by
  their W forms (`MulDecodesBackOnRv64`).
- `decode.c:517`: the comparisons for C.OR and C.AND can never hold, and C.XOR's
  takes other words: all three become sub (`MiscAluIsNamed`).
- `decode.c:332`: FSW returns with the I-type immediate where the expansion of
  C.FSW says `fsw frs2, imm(rs1)` (`decode.c:467`), so its address depends on the
  number of the register it stores (`FloatStoresDecodeBack`).
- `decode.c:332`: the same case knows no doubles, so the words C.FSD and C.FSDSP
  expand to, named `fsd rs2, imm(rs1)` and `fsd rs2, imm(x2)` (`decode.c:447`, 583),
  are UNKNOWN (`FloatStoresDecodeBack`).
- `decode.c:95`: shifts are looked up by all of funct7, of which the lowest bit is
  the sixth of the amount, so the compressed shifts by 32 or more, named `srli`,
  `srai` and `slli` (`decode.c:505`, 508, 550), are UNKNOWN, on RV64 too
  (`MiscAluIsNamed`).
- `cpu.c:52`: 4 is added to pc after jumps too, where `cpu.c:69` says "PC already
  modified, don't increment" (`JumpLands`).

One more disagrees with a line of the test program and has no run of its own:
`assembler.py:36` masks the operand of lui with 0xfffff000 and does not shift it, so
`lui x21, 0x12345` (`rv64gc.s:37`) loads 0x12000. `AssembledDecodesBack` states this
(`SameOperands`), and its operands include that one.

Others are visible in the model and only listed as hazards, because no comment,
test or document was found that says otherwise of them: compressed branches land
2 bytes short; a backward branch on RV64 adds 2^32 too much; load, JALR and ADDIW offsets are not
sign-extended and RV64 immediates are zero-extended; a CSR instruction whose
source is also rd combines the CSR with its own old value; DIVUW and REMUW are not
sign-extended; AMOMINU.W and AMOMAXU.W compare 64 bits; an SC whose write is
dropped reports success; FLW and FLD of f0 are dropped; conversions out of range
are undefined. The properties state what the code does in these cases, or name the
exception, where they would otherwise fail.

## Proofs

All theorems hold for every memory size up to 2^30 bytes, number of registers
from 32 on, set of 32-bit words, and length of the file; XLEN is `WORD` or
`2 * WORD`. Some have a premise on the constants, named below.

| Theorem | Says | Premise |
|---|---|---|
| `TypeCorrect`, `HartTypeCorrect` | every variable of hart and main keeps its C type: `ESpec => []LoopTypeOK`, `Spec => []TypeOK` | |
| `ZeroRegisterHolds` | `ESpec => []ZeroRegister` | |
| `PcStaysEvenHolds` | `ESpec => PcStaysEven` | |
| `BranchLandsHolds` | `ESpec => BranchLands`, for every offset, length of word and pc | `BYTE = 8` |
| `ReturnsSettleHolds` | `TSpec => []ReturnsSettle` | `BYTE = 8` |
| `ReturnResumesPastTrapHolds` | `TSpec => ReturnResumesPastTrap` | |
| `CsrsExchangeHolds` | `TSpec => CsrsExchange` | `BYTE = 8` |
| `LinkedSpecHolds` | `MSpec => LinkedSpec`: the emulator implements the abstract memory | |
| `AccessesAreAllOrNothingHolds`, `LoadsMatchBytesHolds`, `StoresReadBackHolds`, `ScStoresWhatItReportsHolds`, `AmosCombineHolds` | `MSpec =>` the property: no torn access, loads are the bytes of memory, stores are read back, a reported SC has stored, AMOs combine | `BYTE = 8` |
| `ShownIsStoredHolds`, `ImmediatesReachBelow32Holds` | `ESpec =>` the property: main shows what the store left in memory; a 32-bit immediate moves pc and registers as the property says | `BYTE = 8` |
| `DivisionIdentityHolds`, `ProductHalvesHolds` | `ASpec => []` the property, at the width of `Alu`'s words | `BYTE \in 1..8` |
| `ArithmeticAgreesHolds`, `WordResultsAreSignedHolds` | `ASpec => []` the property | `BYTE \in {1, 2, 4, 8}` |
| `FloatsAreOrderedHolds` | `ASpec => []FloatsAreOrdered`, for every format of `FormatAssumption` | |
| `FloatsAreNearestHolds`, `FloatExceptionsHolds` | `ASpec => []` the property, for every such format | |
| `FloatConversionsHolds` | `ASpec => []FloatConversions`, for every pair of such formats | `BYTE \in 1..8` |
| `AssembledDecodesBackHolds`, `WordOpsDecodeBackHolds` | `DSpec => []` the property: what the assembler emits for a line decodes to that line, for all 32 registers and every immediate of its format (of lui's and auipc's, any number, the upper 20 bits) | |
| `ExpansionIsTheNamedInstructionHolds`, `CompressedBranchOperandsHolds`, `CompressedAccessesMeetHolds` | `DSpec => []` the property, for every 16-bit word; the first but for the three groups that `FloatStoresDecodeBack` and `MiscAluIsNamed` show wrong | |
| `OperandsNameRegisters` | every 32-bit word decodes to operands that index the register files | |
| `DecodedOffsetsAreEven` | every 32-bit word that decodes to a branch or JAL has an even offset | |

`BYTE = 8` makes the program's literals fit a word (bit 11 of mstatus is not in a
word of 4 bits); the arithmetic needs less, up to the powers of 2 that the proofs
compute, and where the code masks a shift amount with XLEN - 1, that XLEN is a
power of 2. `ReturnResumesPastTrap` is about the low 32 bits of the saved pc, all that
a CSR of the code holds: on RV32 that is the pc, on RV64 the return clears the rest. The
run is of RV32; the theorem holds of both.

The argument:

- **Types and x0.** The inductive invariant is `HartOK == TypeOK /\ ZeroRegister`
  with `LoopOK` for main: x0 needs the type of `regs` (its domain must contain
  0), and the type of `line` is what makes a word that is executed one of
  `Instructions`. From the bottom up: addition and truncation yield words of the
  width asked for (`AddIsWord`, `TruncIsWord`) whatever their operands, hence no
  case distinction on instructions; `SetReg` keeps the register file and x0; a
  memory write keeps memory's type; each group of handlers keeps `HartOK`;
  `cpu_execute` is one of them; each step of main executes a word or leaves the
  hart alone.
- **Decoder.** A field of five bits is a number below 32 (`Fields`); a type comes
  from one opcode (`TypeOfOpcode`, `OpcodeOfType`), a branch's or JAL's immediate
  has no bit 0 (`OffsetsAreEven`), and a 16-bit word never expands to an atomic or
  a return (`ExpansionIsPlain`). These are facts about all words, where the
  runs see a sample.
- **From source to record.** The invariant of `MCDecode` is that an emitted word is
  the one its source is translated to (`Emitted`). Each format is taken apart where
  it was put together: `RFormat` to `JFormat` give the bits of an encoded word field
  by field, `FieldsAre` turns a field whose bits are known into its number, and
  `Decoded32` and `Cases32` (or their 64-bit twins) read the type from these. An
  immediate is an integer for the assembler and a set of bits for the decoder:
  `ImmExtends` and `ImmSign` say that both are its two's complement. For 16-bit
  words, `Quadrant0Types` to `Quadrant2Types` go through the cases of
  `expand_compressed`; `AluFields` shows which of them are left once the fields that
  select a case overlap, `ShiftCode` what bit 5 of a shift amount does to funct7.
- **Even pc.** Bit 0 of a sum has no carry into it, so even plus or minus even is
  even; offsets are even (`DecodedOffsetsAreEven`), JALR clears the bit, and the
  rest adds 2 or 4.
- **Branches.** `WordsProofs` proves the laws of the adder that `Words` defines by
  generated and killed carries: the carry's recurrence (`CarryStep`), and from it
  `SubThenAdd`, `AddThenSub`, `AddAssociates`, `TruncAdd` and `TruncSub`, each by
  induction on the position of a bit (`UpToTheWidth`, which is
  well-foundedness of < on Nat in its set form: a set of bad positions would have
  a smallest one). Then what the handler takes off and the caller puts back is
  the target less 4 - length (`ShortOfTarget`), for a sign-extended offset in the
  low 32 bits (`OffsetWidens`, `TakenLands`).
- **Traps.** `csrs` is written by the trap, return and CSR handlers only
  (`CsrsChange`). `ReturnsOK` strengthens `ReturnsSettle` with the range of the
  history variable `returns`, since the second return needs the first one's
  previous-enable bit, and an enable bit that software set is still there because
  traps leave it and returns or into it; `SavedOK` says that the low 32 bits of what `saved` remembers are in the CSR.
- **Order of floats.** A pattern without its sign is read as a number, its place
  (`Place`); the values are those of a growing function of the places (`Grid`,
  `GridGrows`), and NaNs, infinities, normal numbers and zeros are ranges of places
  (`ClassesOfPlace`). So values are in the order of the signed places
  (`UnitsGrow`), which the comparisons and classes follow.
- **Rounding.** An exact number is counted in units of half a smallest subnormal or
  finer (`Amount`). `RoundedPattern` says where `Rounded` puts it: between two
  consecutive values of the format or on the first of them, by comparison with the
  midpoint, ties to the even pattern, a carry into the exponent and the overflow to
  infinity included (`Assembled`, `RestIs`). As the values grow with the places, the
  neighbour that is nearer is the nearest of all (`NearestPlace`), whatever the
  scale of the number (`ScaledRounding`), hence `RoundedIsNearest`: what comes out is
  the nearest value to what went in. Conversions give it an integer or the powers of
  the other format; widening needs in addition that the wide format has a place for
  every value of the narrow one (`ExactPlace`).
- **Exact operations.** `Times` and `Plus` compute in words wide enough that nothing
  wraps (`TimesIs`, `PlusIs`), so `fma` rounds the exact sum once (`FmaIsNearest`), and
  sums and products are its cases with 1 and -0. `Over` and `SquareRoot` go digit by
  digit, with a function that refers to itself; it exists (`RecursionExists`), and after
  i digits dividend * 2^i is twice divisor * digits plus the rest (`Divided`), or root^2
  plus the rest is the part of the operand that was read, the rest at most twice the
  root (`RootOf`). There are two digits more than a format keeps (`QuotientIsLong`,
  `RootIsLong`), which puts every boundary between values at an even count of the last
  digit's half; then all that matters of the rest is whether it is zero
  (`EnoughDigits`, `StickyDigit`, `StickyRoot`). A root is not a number of units: that
  it is the nearest is said of the squares of the midpoints (`SquaresAlike`,
  `NearestRootPlace`).
- **Refinement.** `Touches` is what a handler does to memory: a write stays within
  the cells of its access (`WriteReaches`, `SpansAreCells`); every handler is
  mapped to Reserve, Succeed, Fail, Write, Other or End, the one its instruction
  asks for (`KindsAsked`), with the type of the request as a second invariant
  (`RequestsAreAddresses`).
- **Numbers.** `Val` is a recursive function on bit positions. Its recursion has a
  solution, built from the top of the word downwards (`FromExists`), so its
  equation holds (`FromSolves`), and a fact about it is proved by finite induction
  from the top bit down (`DownToZero`): the number of a word is below 2^n, a word
  is determined by it, `Add` adds it and `Sub` subtracts it modulo 2^n, a slice
  divides it.
- **Memory.** From the numbers of addresses: an access within bounds touches
  consecutive cells and no other, and a read at the address of a write of the same
  width gives the written word (`WriteThenRead`); two 4-byte halves make eight.
- **Harness.** What main remembers between the execution of a store and
  `print_result` is invariant: the word to print is the one executed, and
  what it stored is still in memory.
- **Arithmetic.** The invariant of `MCAlu` is that each result is the value its
  handler computes from the operands (`ResultsAreComputed`). Division: `Wrap`
  inverts `Val` below 2^n, the unsigned quotient and remainder are those of the
  integers, and the signed ones follow by cases of the two signs. Products: the
  partial sums of `Mul` are the products modulo 2^n, and the two halves of the
  product at double width are what MUL and MULH give. Agreement of the two
  widths: both sides are equal modulo 2^n of the narrow one.

Assumptions, all on constants and evaluated by TLC in the runs: the widths and
sizes (`WidthAssumption`; `MemoryAssumption`, 1 to 2^30 bytes, of which the
program has 2^20; `RegistersAssumption`, at least 32, since a field of five bits
indexes them; `MaxLinesAssumption`; of `MCAlu`, that its own words are RV64's (`Rv64Assumption`) and
that exponents have 2 to 16 bits, and a float no more of them or of fraction bits than
a double (`FormatAssumption`); `OperandsAssumption` of
`MCDecode`, that a line has registers below 32 and immediates that its format
holds, -2^31 of lui and auipc excepted, which is no integer literal of TLC), that `csrs` has
an entry for every CSR the code or a word names (`CsrsAssumption`,
`NamedCsrsAssumption`), and that the words of a file have 32 bits
(`InstructionsAssumption`). The bound on memory is needed because the code's
bounds check adds in 32 bits and the model writes sizes as C's positive `int`
literals.

Only model-checked, out of the prover's reach: `ReachesTheEnd`, which needs fairness.

## Not modelled

- The cases FCVT.L[U].D, FCVT.D.L[U], FMV.X.D and FMV.D.X of `exec_float_double`,
  for which the decoder has no entry.
- Rounding modes other than the host's default and the exception flags: the code
  neither reads the rounding field nor keeps `fcsr`.
- `system_table` and `op_fp_table`, which nothing reads; the switch of `cpu.c`
  73-826 under `#if 0`, more than a fifth of the source lines.
- What is printed, except the value `print_result` shows of a store; the trace
  of registers.
- In `assembler.py`, splitting of lines and parsing of register names and numbers,
  and loads and stores: its pattern wants a comma that the split has removed, so
  it emits no word for them.
- Build files and the test program.

## Plan

1. Done: words, decoding, expansion, hart with the floating-point handlers,
   memory, harness, the LR/SC refinement, and the theorems above.
2. Next, models: files with RV64 compressed loads and stores in `atomics64` (they
   are only expanded in `decode`), and a run of `traps` on RV64 with a pc of more
   than 32 bits.
