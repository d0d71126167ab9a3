-------------------------------- MODULE Wire --------------------------------
(***************************************************************************)
(* What one call of a MessageStream does to the std::stringstream inside   *)
(* it: the encoders, the decoders and peek().                              *)
(*                                                                         *)
(* A stream is its buffer, the get and put positions in it, and whether    *)
(* the stringstream is good().  eofbit and failbit are one flag here: both *)
(* make every later get and put do nothing, and nothing a caller of the    *)
(* library can reach clears them.  badbit is never set on a stringstream.  *)
(***************************************************************************)
EXTENDS Bytes, SequencesExt

-----------------------------------------------------------------------------
(* The stringstream (external). *)

Fresh == [buf |-> << >>, g |-> 0, p |-> 0, good |-> TRUE]

(* put() and write(): at the put position, over what is there already. *)
Put(s, bytes) ==
  IF s.good
  THEN [s EXCEPT !.buf = SubSeq(s.buf, 1, s.p) \o bytes
                         \o SubSeq(s.buf, s.p + Len(bytes) + 1, Len(s.buf)),
                 !.p = s.p + Len(bytes)]
  ELSE s

(* Mutants of Load: the positions stay, and the flags are cleared. *)
LoadInPlace(s, input) == [s EXCEPT !.buf = input]
LoadCleared(s, input) == [s EXCEPT !.buf = input, !.g = 0, !.p = 0, !.good = TRUE]

(* str(input): new buffer, both positions at its start, flags as they were. *)
Load(s, input) == [s EXCEPT !.buf = input, !.g = 0, !.p = 0]

Unread(s) == IF s.good THEN SubSeq(s.buf, s.g + 1, Len(s.buf)) ELSE << >>

(* get() and read() of n bytes in all: taking more than there is fails. *)
Take(s, n) ==
  IF n <= Len(Unread(s)) THEN [s EXCEPT !.g = @ + n]
  ELSE [s EXCEPT !.g = @ + Len(Unread(s)), !.good = FALSE]

-----------------------------------------------------------------------------
(* Encoding: the bytes put before the call returns or throws. *)

Done(bytes) == [bytes |-> bytes, ok |-> TRUE]
Thrown      == [bytes |-> << >>, ok |-> FALSE]

(* Mutant of EncodeString: the length is put before it is checked. *)
EncodeStringUnchecked(v) ==
  [bytes |-> Encode16(Len(v)) \o (IF FitsU16(Len(v)) THEN v ELSE << >>), ok |-> FitsU16(Len(v))]

EncodeString(v) ==
  IF FitsU16(Len(v)) THEN Done(Encode16(Len(v)) \o v) ELSE Thrown

(* `msg << a << b ...', each part what one << does: no part is reached     *)
(* once one before it has thrown.                                          *)
EncodeAll(parts) ==
  LET Reached(i) == \A j \in 1 .. i - 1 : parts[j].ok
  IN  [bytes |-> FlattenSeq([i \in DOMAIN parts |-> IF Reached(i) THEN parts[i].bytes ELSE << >>]),
       ok |-> \A i \in DOMAIN parts : parts[i].ok]

(* operator<<(MessageStream&, const std::vector<T>&), one part an element. *)
EncodeVector(parts) ==
  IF FitsU16(Len(parts)) THEN EncodeAll(<<Done(Encode16(Len(parts)))>> \o parts) ELSE Thrown

EncodeValue(type, v) ==
  CASE type = "u8"  -> Done(<<v>>)
    [] type = "u16" -> Done(Encode16(v))
    [] type = "u32" -> Done(Encode32(v))
    [] type = "u64" -> Done(Encode64(v))
    [] type = "str" -> EncodeString(v)

(* What a variable of a type that encode and decode know can hold. *)
HasType(type, v) ==
  /\ type = "u8"  => v \in Byte
  /\ type = "u16" => v \in U16
  /\ type = "u32" => v \in Nat /\ FitsU32(v)
  /\ type = "u64" => v \in Nat \X Nat /\ FitsU32(v[1]) /\ FitsU32(v[2])
  /\ type = "str" => v \in Seq(Byte)

ValueTypes == {"u8", "u16", "u32", "u64", "str"}

-----------------------------------------------------------------------------
(* Decoding.  A cursor walks over the unread bytes and, past their end,    *)
(* over the uninitialised temporaries the decoders then build from: no     *)
(* decoder looks at the state of the stringstream.  A decoder gives the    *)
(* decoded value and the cursor after it.                                  *)

Cursor(s, junk) == [bytes |-> Unread(s), junk |-> junk, at |-> 1]
Skip(c, n) == [c EXCEPT !.at = @ + n]
Taken(c) == c.at - 1

ByteAt(c, k) ==
  LET i == c.at + k
      n == Len(c.bytes)
  IN  IF i <= n THEN c.bytes[i] ELSE c.junk[((i - n - 1) % Len(c.junk)) + 1]

U16At(c) == Build16(ByteAt(c, 0), ByteAt(c, 1))
U32At(c) == Build32(ByteAt(c, 0), ByteAt(c, 1), ByteAt(c, 2), ByteAt(c, 3))

(* build(decode<uint32_t>(), decode<uint32_t>()): which argument gets the  *)
(* first word is the compiler's choice.                                    *)
U64At(c, order) ==
  IF order = "leftToRight" THEN <<U32At(c), U32At(Skip(c, 4))>>
                           ELSE <<U32At(Skip(c, 4)), U32At(c)>>

(* decode(std::string&): reserve() does not change the size of the string, *)
(* so only the characters it already had are visible afterwards.           *)
StringAt(c, old) ==
  [i \in DOMAIN old |->
     IF i <= U16At(c) /\ c.at + 1 + i <= Len(c.bytes) THEN c.bytes[c.at + 1 + i] ELSE old[i]]

DecodeValue(type, c, old, order) ==
  CASE type = "u8"  -> [v |-> ByteAt(c, 0), c |-> Skip(c, 1)]
    [] type = "u16" -> [v |-> U16At(c), c |-> Skip(c, 2)]
    [] type = "u32" -> [v |-> U32At(c), c |-> Skip(c, 4)]
    [] type = "u64" -> [v |-> U64At(c, order), c |-> Skip(c, 8)]
    [] type = "str" -> [v |-> StringAt(c, old), c |-> Skip(c, 2 + U16At(c))]

-----------------------------------------------------------------------------
(* peek(): the answer of stringstream::peek, -1 at the end, is compared    *)
(* with the bool eof().  A zero byte equals false; -1 equals neither value *)
(* and is returned as the byte 0xFF.                                       *)
Nullopt == -1
PeekResult(s) ==
  IF Unread(s) = << >> THEN Base - 1
  ELSE IF Head(Unread(s)) = 0 THEN Nullopt ELSE Head(Unread(s))
Peeked(s) == IF Unread(s) = << >> THEN [s EXCEPT !.good = FALSE] ELSE s
=============================================================================
