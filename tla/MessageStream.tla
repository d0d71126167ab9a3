--------------------------- MODULE MessageStream ---------------------------
(***************************************************************************)
(* One MessageStream in the hands of a caller: every order in which the    *)
(* public calls can follow one another.  A caller decodes the types it     *)
(* encoded, in that order, or runs past the end.                           *)
(***************************************************************************)
EXTENDS Wire

CONSTANTS
  Junk,        \* what uninitialised stack bytes may hold (repeated as needed)
  EvalOrders,  \* orders in which the compiler may evaluate call arguments
  Items,       \* the typed values a caller encodes, [type, value]
  Targets,     \* what a std::string holds before it is decoded into
  Inputs,      \* byte strings given to str() and write()
  MaxLen       \* bound: no bytes are added once the buffer is this long

ASSUME MessageStreamAssumption ==
  /\ Junk \subseteq Seq(Byte) \ {<< >>}
  /\ EvalOrders \subseteq {"leftToRight", "rightToLeft"}
  /\ \A item \in Items : item.type \in ValueTypes /\ HasType(item.type, item.value)
  /\ Targets \subseteq Seq(Byte) /\ Inputs \subseteq Seq(Byte)
  /\ MaxLen \in Nat

-----------------------------------------------------------------------------
VARIABLES
  stream,    \* the stream
  result,    \* the last call and what it told its caller
  pending,   \* ghost: items put on the good stream and not decoded yet
  overlaid   \* ghost: bytes given to str() were written over

vars == <<stream, result, pending, overlaid>>

AsItems(bytes) == [i \in DOMAIN bytes |-> [type |-> "u8", value |-> bytes[i]]]

WritesOver(bytes) == stream.good /\ stream.p < Len(stream.buf) /\ bytes # << >>

Init ==
  /\ stream = Fresh
  /\ result = [call |-> "none"]
  /\ pending = << >>
  /\ overlaid = FALSE

(* MessageStream::encode, all overloads. *)
Encode(item) ==
  LET e == EncodeValue(item.type, item.value)
  IN  /\ Len(stream.buf) < MaxLen
      /\ stream' = Put(stream, e.bytes)
      /\ result' = [call |-> IF e.ok THEN "encode" ELSE "encode threw"]
      /\ pending' = IF e.ok /\ stream.good THEN Append(pending, item) ELSE pending
      /\ overlaid' = (overlaid \/ WritesOver(e.bytes))

(* MessageStream::decode of the type the next pending item has. *)
Decode(old, order, junk) ==
  /\ pending # << >>
  /\ LET item == Head(pending)
         c == Cursor(stream, junk)
         d == DecodeValue(item.type, c, old, order)
     IN  /\ stream' = Take(stream, Taken(d.c))
         /\ result' = [call |-> "decode", type |-> item.type, got |-> d.v, want |-> item.value]
  /\ pending' = Tail(pending)
  /\ UNCHANGED overlaid

(* MessageStream::decode by a caller that expects more than was encoded. *)
Overrun(type, old, order, junk) ==
  /\ pending = << >>
  /\ LET d == DecodeValue(type, Cursor(stream, junk), old, order)
     IN  /\ stream' = Take(stream, Taken(d.c))
         /\ result' = [call |-> "overrun"]
  /\ UNCHANGED <<pending, overlaid>>

Peek ==
  /\ stream' = Peeked(stream)
  /\ result' = [call |-> "peek", got |-> PeekResult(stream), atEnd |-> Unread(stream) = << >>]
  /\ UNCHANGED <<pending, overlaid>>

Str(input) ==
  /\ stream' = Load(stream, input)
  /\ result' = [call |-> "str"]
  /\ pending' = AsItems(input)
  /\ overlaid' = FALSE

Reset ==
  /\ stream' = Load(stream, << >>)
  /\ result' = [call |-> "reset"]
  /\ pending' = << >>
  /\ overlaid' = FALSE

(* MessageStream::write: throws only if badbit is set, which it never is. *)
Write(str) ==
  /\ Len(stream.buf) < MaxLen
  /\ stream' = Put(stream, str)
  /\ result' = [call |-> "write", data |-> str]
  /\ pending' = IF stream.good THEN pending \o AsItems(str) ELSE pending
  /\ overlaid' = (overlaid \/ WritesOver(str))

Next ==
  \/ \E item \in Items : Encode(item)
  \/ \E old \in Targets, order \in EvalOrders, junk \in Junk :
       \/ Decode(old, order, junk)
       \/ \E type \in ValueTypes : Overrun(type, old, order, junk)
  \/ Peek
  \/ \E input \in Inputs : Str(input) \/ Write(input)
  \/ Reset

Spec == Init /\ [][Next]_vars

-----------------------------------------------------------------------------
(* Types, and both positions inside the buffer. *)
TypeOK ==
  /\ stream \in [buf : Seq(Byte), g : Nat, p : Nat, good : BOOLEAN]
  /\ stream.g <= Len(stream.buf)
  /\ stream.p <= Len(stream.buf)
  /\ pending \in Seq(Items \cup [type : {"u8"}, value : Byte])
  /\ overlaid \in BOOLEAN

(* What is left to read is exactly the encoding of what was put and not    *)
(* yet decoded, however encode, decode, write, peek, str and reset follow  *)
(* one another, as long as the stream is good and nothing given to str()   *)
(* was written over: each decoder takes just the bytes its encoder put,    *)
(* and an encode that throws has put none.                                 *)
UnreadIsPending ==
  stream.good /\ ~overlaid =>
    Unread(stream) =
      FlattenSeq([i \in DOMAIN pending |-> EncodeValue(pending[i].type, pending[i].value).bytes])

Swapped(v) == <<v[2], v[1]>>

(* Integers come back in the order they went in with the value they had;   *)
(* of a uint64_t at least the two halves do, in one order or the other.    *)
IntegersInOrder ==
  result.call = "decode" /\ stream.good /\ ~overlaid =>
    CASE result.type \in {"u8", "u16", "u32"} -> result.got = result.want
      [] result.type = "u64" -> result.got \in {result.want, Swapped(result.want)}
      [] OTHER -> TRUE

(* A stream that was read or peeked past its end is dead for good: from    *)
(* then on only str() and reset() touch the buffer, no encode or write     *)
(* adds a byte, and not even reset() makes it usable again.                *)
FailureIsSticky ==
  [][~stream.good =>
       /\ ~stream'.good
       /\ (result'.call \notin {"str", "reset"} => stream' = stream)]_vars

(* The stream is a queue of bytes with the contract of ByteQueue. *)
Queue == INSTANCE ByteQueue
           WITH queue <- Unread(stream), dead <- ~stream.good, blurred <- overlaid,
                call <- result.call

ImplementsByteQueue == Queue!Spec

(* A decoded string is the string that was encoded. *)
StringsSurvive ==
  result.call = "decode" /\ stream.good /\ ~overlaid =>
    (result.type = "str" => result.got = result.want)

(* A decoded uint64_t is the one that was encoded. *)
WideIntegersSurvive ==
  result.call = "decode" /\ stream.good /\ ~overlaid =>
    (result.type = "u64" => result.got = result.want)
=============================================================================
