------------------------------- MODULE Memory ------------------------------
(***************************************************************************)
(* memory.c: MEMORY_SIZE bytes behind a bounds check. The state is the     *)
(* function mem : 0..MEMORY_SIZE-1 -> bytes; the functions of memory.c are *)
(* the operators below, one for all widths (n bytes, n in {1, 2, 4, 8}).   *)
(*                                                                         *)
(* Addresses are uint32_t: what a caller passes is cut to WORD bits, and   *)
(* the check `address + (n-1) >= MEMORY_SIZE` adds on WORD bits, so it     *)
(* wraps for the last n-1 addresses of the 32-bit space.                   *)
(***************************************************************************)
EXTENDS Config

CONSTANT MEMORY_SIZE
ASSUME MemoryAssumption == MEMORY_SIZE \in 1..2^30   \* 2^20 in the program

Addresses == 0..(MEMORY_SIZE - 1)
Byte == Words(BYTE)
memory_init == [a \in Addresses |-> {}]

\* The access passes the check at the top of the memory.c function.
Accepted(address, n) ==
  LtU(Add(WORD, Trunc(WORD, address), Num(n - 1)), Num(MEMORY_SIZE))
\* It passes and yet starts outside mem: the addition wrapped. The array is
\* then indexed about 4 GiB past its start, which is undefined in C and ends
\* the process with a fault on the 64-bit hosts the build files target.
Wild(address, n) ==
  Accepted(address, n) /\ ~LtU(Trunc(WORD, address), Num(MEMORY_SIZE))

\* The index of byte k of an accepted access, and that byte of a value.
Index(address, k) == Val(Trunc(WORD, address)) + k
\* Mutant: the value is not shifted.
ByteOfLow(value, k) == Trunc(BYTE, value)
ByteOf(value, k) == {i \in Bits(BYTE) : i + BYTE * k \in value}

\* memory_read_*: the little-endian value, 0 when out of bounds.
memory_read(mem, address, n) ==
  IF ~Accepted(address, n) THEN {}
  ELSE {i \in Bits(n * BYTE) : (i % BYTE) \in mem[Index(address, i \div BYTE)]}

\* Mutant: each byte has its own check, so an access over the end is clipped.
memory_write_clipped(mem, address, n, value) ==
  IF ~LtU(Trunc(WORD, address), Num(MEMORY_SIZE)) THEN mem
  ELSE LET at == Index(address, 0)
       IN [a \in Addresses |->
             IF a \in at..(at + n - 1) THEN ByteOf(value, a - at) ELSE mem[a]]
\* memory_write_*: the new contents, unchanged when out of bounds.
memory_write(mem, address, n, value) ==
  IF ~Accepted(address, n) THEN mem
  ELSE LET at == Index(address, 0)
       IN [a \in Addresses |->
             IF a \in at..(at + n - 1) THEN ByteOf(value, a - at) ELSE mem[a]]

-----------------------------------------------------------------------------
\* What the bounds check is for: all n bytes are in mem.
Inside(address, n) ==
  /\ LtU(Trunc(WORD, address), Num(MEMORY_SIZE))
  /\ Val(Trunc(WORD, address)) + n <= MEMORY_SIZE
=============================================================================
