---------------------------- MODULE Interaction ----------------------------
(***************************************************************************)
(* Requests, responses and interactions: the variants that are put on a    *)
(* MessageStream and deduced from it again by peeking at the first byte.   *)
(*                                                                         *)
(* One stream and one Interaction variable, `thing', that its owner        *)
(* encodes from and decodes into in any order, through any of the three    *)
(* variants, with a fresh alternative (operator>>) or again into the       *)
(* object it already holds (decode of the alternative).                    *)
(***************************************************************************)
EXTENDS Message

CONSTANTS
  Messages,    \* the messages a caller encodes
  Arrivals,    \* the messages whose bytes are given to str(), whole or cut
  Junk,        \* what uninitialised stack bytes may hold (repeated as needed)
  EvalOrders,  \* orders in which the compiler may evaluate call arguments
  MaxLen,      \* bound: nothing is encoded once the buffer is this long
  MaxHeld      \* bound: no decode into an object with more elements than this

ASSUME InteractionAssumption ==
  /\ Junk \subseteq Seq(Byte) \ {<< >>}
  /\ EvalOrders \subseteq {"leftToRight", "rightToLeft"}
  /\ \A m \in Messages \cup Arrivals : Wellformed(m)
  /\ \A m \in Arrivals : m.kind \in Kind /\ EncodeMessage(m).ok
  /\ \A k \in Kind : Code[k] + 1 < Base - 1   \* operations are bytes, and none is 0xFF
  /\ Base % 2 = 0                             \* 0xFF is odd
  /\ MaxLen \in Nat /\ MaxHeld \in Nat

VARIABLES
  stream,    \* the MessageStream
  thing,     \* the Interaction variable
  result,    \* the last call and how it ended
  pending,   \* ghost: messages encoded whole and not decoded yet
  damaged    \* ghost: the unread bytes need not be a row of whole messages

vars == <<stream, thing, result, pending, damaged>>

(* A default-constructed std::variant holds its first alternative. *)
Init ==
  /\ stream = Fresh
  /\ thing = UndefinedMessage("Response")
  /\ result = [call |-> "none"]
  /\ pending = << >>
  /\ damaged = FALSE

-----------------------------------------------------------------------------
(* operator<<, all three: a visit down to encode() of the alternative. *)
Encode(m) ==
  LET e == EncodeMessage(m)
  IN  /\ Len(stream.buf) < MaxLen
      /\ stream' = Put(stream, e.bytes)
      /\ result' = [call |-> "encode", ok |-> e.ok]
      /\ pending' = IF e.ok /\ stream.good THEN Append(pending, m) ELSE pending
      /\ damaged' = (damaged \/ (stream.good /\ e.bytes # << >>
                                 /\ (~e.ok \/ stream.p < Len(stream.buf))))
      /\ UNCHANGED thing

(* How a decode ends: the stream and the variable after it, and the object *)
(* that decode() was called on.                                            *)
Failed(s, v) == [stream |-> s, thing |-> v, into |-> v, ok |-> FALSE]

DecodeInto(m, s, order, junk) ==
  LET d == DecodeMessage(m, Cursor(s, junk), order)
  IN  [stream |-> Take(s, Taken(d.c)), thing |-> d.v, into |-> m, ok |-> TRUE]

(* Mutant of DecodeVariant: an unknown operation is passed over. *)
DecodeVariantLenient(dir, s, v, order, junk) ==
  LET op   == PeekResult(s)
      kind == convert(op)
  IN  IF op = Nullopt THEN Failed(Peeked(s), v)
      ELSE IF kind = "Undefined" THEN [Failed(Peeked(s), v) EXCEPT !.ok = TRUE]
      ELSE DecodeInto(NewMessage(kind, dir), Peeked(s), order, junk)

(* operator>>(MessageStream&, Request&) and its twin for Response, on the  *)
(* variable v.                                                             *)
DecodeVariant(dir, s, v, order, junk) ==
  LET op   == PeekResult(s)
      kind == convert(op)
  IN  IF op = Nullopt \/ kind = "Undefined"
      THEN Failed(Peeked(s), v)
      ELSE DecodeInto(NewMessage(kind, dir), Peeked(s), order, junk)

(* Mutant of DecodeEither: everything is taken for a request. *)
DecodeEitherOneSided(s, v, order, junk) ==
  IF PeekResult(s) = Nullopt
  THEN Failed(Peeked(s), v)
  ELSE DecodeVariant("Request", Peeked(s), UndefinedMessage("Request"), order, junk)

(* operator>>(MessageStream&, Interaction&): the variant for the parity of *)
(* the first byte is emplaced before it is decoded.                        *)
DecodeEither(s, v, order, junk) ==
  LET op  == PeekResult(s)
      dir == IF isRequest(op) THEN "Request" ELSE "Response"
  IN  IF op = Nullopt
      THEN Failed(Peeked(s), v)
      ELSE DecodeVariant(dir, Peeked(s), UndefinedMessage(dir), order, junk)

(* The message at the front of the unread bytes, where that is known. *)
Known == ~damaged /\ stream.good /\ pending # << >>

(* The outcome r of a decode, and the ghosts.  A message decoded as one of *)
(* the other direction leaves the stream in the middle of things.          *)
Decoded(call, r) ==
  /\ stream' = r.stream
  /\ thing' = r.thing
  /\ result' = [call |-> call, ok |-> r.ok, into |-> r.into,
                sent |-> IF Known THEN Head(pending) ELSE UndefinedMessage("Request")]
  /\ pending' = IF r.ok /\ pending # << >> THEN Tail(pending) ELSE pending
  /\ damaged' = (damaged \/ (r.ok /\ Known /\ r.thing.dir # Head(pending).dir))

DecodeInteraction(order, junk) ==
  Decoded("interaction", DecodeEither(stream, thing, order, junk))

(* `msg >> std::get<Request>(thing)', and the same for Response. *)
DecodeHeld(order, junk) ==
  Decoded("variant", DecodeVariant(thing.dir, stream, thing, order, junk))

Holds(m, n) ==
  \A f \in DOMAIN m.body :
    MemberType(m.kind, m.dir, f) \in {"strs", "qids", "data"} => Len(m.body[f]) <= n

(* `msg.decode(...)' of the alternative thing holds, by a caller who knows *)
(* that the next message is of that class.  UndefinedMessage throws.       *)
DecodeAgain(order, junk) ==
  /\ Known
  /\ thing.kind \in {"Undefined", Head(pending).kind}
  /\ thing.dir = Head(pending).dir
  /\ thing.kind # "Undefined" => Holds(thing, MaxHeld)
  /\ Decoded("again", IF thing.kind = "Undefined" THEN Failed(stream, thing)
                      ELSE DecodeInto(thing, stream, order, junk))

(* The arrivals as they are on the wire. *)
Arriving == [m \in Arrivals |-> EncodeMessage(m).bytes]

(* str(input) with the first n bytes of an arrival. *)
Str(m, n) ==
  /\ stream' = Load(stream, SubSeq(Arriving[m], 1, n))
  /\ result' = [call |-> "str"]
  /\ pending' = IF n = Len(Arriving[m]) THEN <<m>> ELSE << >>
  /\ damaged' = (n < Len(Arriving[m]))
  /\ UNCHANGED thing

Reset ==
  /\ stream' = Load(stream, << >>)
  /\ result' = [call |-> "reset"]
  /\ pending' = << >>
  /\ damaged' = FALSE
  /\ UNCHANGED thing

Next ==
  \/ \E m \in Messages : Encode(m)
  \/ \E order \in EvalOrders, junk \in Junk :
       \/ DecodeInteraction(order, junk)
       \/ DecodeHeld(order, junk)
       \/ DecodeAgain(order, junk)
  \/ \E m \in Arrivals : \E n \in 1 .. Len(Arriving[m]) : Str(m, n)
  \/ Reset

Spec == Init /\ [][Next]_vars

-----------------------------------------------------------------------------
(* Types: positions inside the buffer, and an object has the members of    *)
(* its class.                                                              *)
TypeOK ==
  /\ stream.buf \in Seq(Byte) /\ stream.good \in BOOLEAN
  /\ stream.g \in 0 .. Len(stream.buf) /\ stream.p \in 0 .. Len(stream.buf)
  /\ thing.kind \in Kind \cup {"Undefined"} /\ thing.dir \in {"Request", "Response"}
  /\ DOMAIN thing.body = IF thing.kind = "Undefined" THEN {"op", "tag"}
                         ELSE MemberNames(thing.kind, thing.dir)
  /\ \A i \in DOMAIN pending : pending[i].kind \in Kind
  /\ damaged \in BOOLEAN

(* The unread bytes are the pending messages one after the other: decode() *)
(* of every class takes exactly what encode() of that class put, whichever *)
(* way the decode was asked for, so the next message starts where this one *)
(* ends.                                                                   *)
MessagesTile ==
  stream.good /\ ~damaged =>
    Unread(stream) = FlattenSeq([i \in DOMAIN pending |-> EncodeMessage(pending[i]).bytes])

Halves(v) == {v, <<v[2], v[1]>>}

QidAgrees(got, sent) ==
  /\ got.type = sent.type /\ got.version = sent.version
  /\ got.path \in Halves(sent.path)

(* The last Len(sent) elements of a vector that held n before. *)
Added(got, n) == SubSeq(got, n + 1, Len(got))

MemberAgrees(type, got, sent, old) ==
  CASE type \in {"u8", "u16", "u32"} -> got = sent
    [] type = "u64" -> got \in Halves(sent)
    [] type = "str" -> Len(got) = Len(old)
    [] type = "data" -> Added(got, Len(old)) = sent
    [] type = "strs" -> Len(got) = Len(old) + Len(sent)
    [] type = "qid" -> QidAgrees(got, sent)
    [] type = "qids" ->
         /\ Len(got) = Len(old) + Len(sent)
         /\ \A i \in DOMAIN sent : QidAgrees(Added(got, Len(old))[i], sent[i])
    [] type = "stat" ->
         /\ QidAgrees(got.qid, sent.qid)
         /\ \A f \in {"type", "dev", "mode", "atime", "mtime"} : got[f] = sent[f]
         /\ got.length \in Halves(sent.length)

(* What survives a trip over the stream: a message decoded from a stream   *)
(* in good order is of the class that was sent and every operation, tag,   *)
(* integer, qid, data byte and element count is the one sent; vectors come *)
(* after what the object held, and a string keeps the length it had.       *)
FixedPartsSurvive ==
  result.call \in {"interaction", "variant", "again"} /\ result.ok
    /\ result.sent.kind # "Undefined" /\ thing.dir = result.sent.dir =>
      /\ thing.kind = result.sent.kind
      /\ \A f \in MemberNames(thing.kind, thing.dir) :
           MemberAgrees(MemberType(thing.kind, thing.dir, f),
                        thing.body[f], result.sent.body[f], result.into.body[f])

(* Whatever bytes it is given, an Interaction that decodes at all holds    *)
(* the alternative its operation byte stands for, on the side the parity   *)
(* of that byte says; a request so decoded has one operation that answers  *)
(* it, and a response none.                                                *)
DirectionAgrees ==
  result.call = "interaction" /\ result.ok =>
    LET op == thing.body["op"]
    IN  /\ op = translateConcept(thing.kind, thing.dir)
        /\ expectedResponseKind(op) =
             IF thing.dir = "Request" THEN translateConcept(thing.kind, "Response") ELSE RBad

(* Nothing is decoded out of nothing: with no byte left, or on a stream    *)
(* that has failed, all variants throw, and the variable then holds what   *)
(* it held or an alternative that cannot be encoded.                       *)
NothingFromNothing ==
  [][result'.call \in {"interaction", "variant"} /\ Unread(stream) = << >> =>
       /\ ~result'.ok
       /\ thing' = thing \/ ~EncodeMessage(thing').ok]_vars

(* A message that was cut off on its way decodes without an exception,     *)
(* with junk for the members that did not come, but wherever it was cut    *)
(* the decode asks for a byte that is not there: the stream has failed     *)
(* after it, and no second message is made up from what remains.           *)
CutMessageIsTheLast ==
  [][result.call = "str" /\ damaged /\ result'.call = "interaction" => ~stream'.good]_vars
=============================================================================
