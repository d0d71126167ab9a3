------------------------------- MODULE Bytes -------------------------------
(***************************************************************************)
(* Little-endian integers as libkzr puts them on a byte stream.            *)
(*                                                                         *)
(* A byte is a digit 0 .. Base-1.  Base is 256 in the code; a smaller base *)
(* keeps every width (two, four and eight digits) and every limit, and     *)
(* makes the limits reachable.  A shift by eight bits is a division by     *)
(* Base.  A uint64_t is the pair <<low, high>> of its uint32_t halves,     *)
(* which is how the code encodes and builds it.                            *)
(***************************************************************************)
EXTENDS Integers, Sequences

CONSTANT Base   \* number of values of a byte

ASSUME BaseAssumption == Base \in Nat /\ Base >= 2

Byte == 0 .. Base - 1
M16  == Base * Base          \* number of values of a uint16_t

(* `uint16_t len = n; len != n` is the test the encoders make. *)
FitsU16(n) == n % M16 = n
(* `uint32_t len = n; len != n`: nothing is left above 32 bits. *)
FitsU32(n) == n \div M16 < M16

U16 == 0 .. M16 - 1
U32 == 0 .. M16 * M16 - 1
U64 == U32 \X U32

(* MessageStream::encode(uint16_t), (uint32_t), (uint64_t). *)
Encode16(v) == << v % Base, (v \div Base) % Base >>
Encode32(v) == Encode16(v % M16) \o Encode16(v \div M16)
Encode64(v) == Encode32(v[1]) \o Encode32(v[2])

(* The build() functions. *)
Build16(lower, upper) == upper * Base + lower

(* Mutant of Build32: the halves change places. *)
Build32Swapped(lowest, lower, high, highest) ==
  Build16(lowest, lower) * M16 + Build16(high, highest)

Build32(lowest, lower, high, highest) ==
  Build16(high, highest) * M16 + Build16(lowest, lower)
=============================================================================
