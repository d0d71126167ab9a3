------------------------- MODULE InteractionProofs -------------------------
(***************************************************************************)
(* Proofs about Interaction, for every set of well-formed messages.  The   *)
(* inductive invariant says that the stream and the variable are what they *)
(* should be, that every pending message was encoded whole, and that the   *)
(* unread bytes are the pending messages.                                  *)
(***************************************************************************)
EXTENDS Interaction, MessageProofs

Sendable == {m \in Messages \cup Arrivals : EncodeMessage(m).ok}

(* What an object keeps through every decode: its strings and vectors are  *)
(* sequences, its Stat has all its members.                                *)
Sequential(v) == v \in Seq({v[i] : i \in DOMAIN v})

Shaped(type, v) ==
  /\ type \in {"str", "strs", "qids", "data"} => Sequential(v)
  /\ type = "stat" => StatNames \subseteq DOMAIN v

Shape(m) ==
  m.kind \in Kind =>
    \A f \in MemberNames(m.kind, m.dir) : Shaped(MemberType(m.kind, m.dir, f), m.body[f])

Core ==
  /\ Proper(stream)
  /\ Object(thing)
  /\ Shape(thing)
  /\ pending \in Seq(Sendable)
  /\ damaged \in BOOLEAN
  /\ MessagesTile

IInv == Core /\ FixedPartsSurvive /\ DirectionAgrees

(* A pending message is well formed and of a class, and its first byte is  *)
(* its operation.                                                          *)
LEMMA SendableIs ==
  ASSUME NEW m \in Sendable
  PROVE  /\ Wellformed(m) /\ EncodeMessage(m).ok /\ m.kind \in Kind
         /\ m.dir \in {"Request", "Response"}
         /\ EncodeMessage(m).bytes \in Seq(Byte) /\ Len(EncodeMessage(m).bytes) >= 1
         /\ EncodeMessage(m).bytes[1] = translateConcept(m.kind, m.dir)
<1>1. Wellformed(m) /\ EncodeMessage(m).ok
  BY InteractionAssumption DEF Sendable
<1>2. EncodeMessage(m).bytes \in Seq(Byte)
  BY <1>1, EncodeMessageIs, EncodingIs
<1>3. m.dir \in {"Request", "Response"}
  BY <1>1 DEF Wellformed
<1> QED
  BY <1>1, <1>2, <1>3, EncodeMessageIs

(* The pending messages, as they are on the wire. *)
Row(msgs) == [i \in DOMAIN msgs |-> EncodeMessage(msgs[i]).bytes]

LEMMA RowType ==
  ASSUME NEW msgs \in Seq(Sendable)
  PROVE  /\ Row(msgs) \in Seq(Seq(Byte)) /\ Len(Row(msgs)) = Len(msgs)
         /\ \A i \in 1 .. Len(msgs) : Row(msgs)[i] = EncodeMessage(msgs[i]).bytes
         /\ FlattenSeq(Row(msgs)) \in Seq(Byte)
<1>1. Len(msgs) \in Nat /\ DOMAIN msgs = 1 .. Len(msgs) /\ \A i \in 1 .. Len(msgs) : msgs[i] \in Sendable
  OBVIOUS
<1>2. \A i \in 1 .. Len(msgs) : EncodeMessage(msgs[i]).bytes \in Seq(Byte)
  BY <1>1, SendableIs
<1>3. Row(msgs) \in Seq(Seq(Byte)) /\ Len(Row(msgs)) = Len(msgs)
      /\ \A i \in 1 .. Len(msgs) : Row(msgs)[i] = EncodeMessage(msgs[i]).bytes
  BY <1>1, <1>2 DEF Row
<1>4. << >> \in Seq(Byte)
  OBVIOUS
<1> QED
  BY <1>3, <1>4, FlattenAppend

LEMMA RowAppend ==
  ASSUME NEW msgs \in Seq(Sendable), NEW m \in Sendable
  PROVE  /\ Append(msgs, m) \in Seq(Sendable)
         /\ FlattenSeq(Row(Append(msgs, m))) = FlattenSeq(Row(msgs)) \o EncodeMessage(m).bytes
<1> DEFINE n == Len(msgs)
           t == Append(msgs, m)
           b == EncodeMessage(m).bytes
           r == Row(msgs)
           u == Append(r, b)
<1>1. n \in Nat /\ t \in Seq(Sendable) /\ Len(t) = n + 1 /\ t[n + 1] = m
      /\ \A i \in 1 .. n : t[i] = msgs[i]
  BY AppendProperties
<1>2. b \in Seq(Byte)
  BY SendableIs
<1>3. r \in Seq(Seq(Byte)) /\ Len(r) = n /\ \A i \in 1 .. n : r[i] = EncodeMessage(msgs[i]).bytes
  BY RowType
<1>4. /\ Row(t) \in Seq(Seq(Byte)) /\ Len(Row(t)) = n + 1
      /\ \A i \in 1 .. n + 1 : Row(t)[i] = EncodeMessage(t[i]).bytes
  BY <1>1, RowType
<1> HIDE DEF r
<1>5. u \in Seq(Seq(Byte)) /\ Len(u) = n + 1 /\ u[n + 1] = b /\ \A i \in 1 .. n : u[i] = r[i]
  BY <1>2, <1>3, AppendProperties
<1> HIDE DEF t, u, b
<1>6. \A i \in 1 .. n + 1 : Row(t)[i] = u[i]
  <2> SUFFICES ASSUME NEW i \in 1 .. n + 1 PROVE Row(t)[i] = u[i]
    OBVIOUS
  <2>1. i = n + 1 \/ i \in 1 .. n
    BY <1>1
  <2> QED
    BY <1>1, <1>3, <1>4, <1>5, <2>1 DEF b
<1>7. Row(t) = u
  BY <1>4, <1>5, <1>6, SeqEqual
<1>8. FlattenSeq(u) = FlattenSeq(r) \o b
  BY <1>2, <1>3, FlattenAppend DEF u
<1> QED
  BY <1>1, <1>7, <1>8 DEF t, b, r

LEMMA RowHead ==
  ASSUME NEW msgs \in Seq(Sendable), msgs # << >>
  PROVE  /\ Head(msgs) \in Sendable /\ Tail(msgs) \in Seq(Sendable)
         /\ FlattenSeq(Row(msgs)) = EncodeMessage(Head(msgs)).bytes \o FlattenSeq(Row(Tail(msgs)))
<1> DEFINE n == Len(msgs)
           r == Row(msgs)
           t == Tail(msgs)
<1>1. n \in Nat /\ n >= 1 /\ Head(msgs) = msgs[1] /\ msgs[1] \in Sendable
      /\ t \in Seq(Sendable) /\ Len(t) = n - 1 /\ \A i \in 1 .. n - 1 : t[i] = msgs[i + 1]
  BY HeadTailProperties
<1>2. r \in Seq(Seq(Byte)) /\ Len(r) = n /\ \A i \in 1 .. n : r[i] = EncodeMessage(msgs[i]).bytes
  BY RowType
<1>3. /\ Row(t) \in Seq(Seq(Byte)) /\ Len(Row(t)) = n - 1
      /\ \A i \in 1 .. n - 1 : Row(t)[i] = EncodeMessage(t[i]).bytes
  BY <1>1, RowType
<1> HIDE DEF r, t, n
<1>4. r # << >> /\ Head(r) = EncodeMessage(msgs[1]).bytes
  BY <1>1, <1>2
<1>5. Tail(r) \in Seq(Seq(Byte)) /\ Len(Tail(r)) = n - 1 /\ \A i \in 1 .. n - 1 : Tail(r)[i] = r[i + 1]
  BY <1>2, <1>4, HeadTailProperties
<1>6. \A i \in 1 .. n - 1 : Row(t)[i] = Tail(r)[i]
  <2> SUFFICES ASSUME NEW i \in 1 .. n - 1 PROVE Row(t)[i] = Tail(r)[i]
    OBVIOUS
  <2>1. i + 1 \in 1 .. n
    BY <1>1
  <2> QED
    BY <1>1, <1>2, <1>3, <1>5, <2>1
<1>7. Row(t) = Tail(r)
  BY <1>3, <1>5, <1>6, SeqEqual
<1>8. FlattenSeq(r) = Head(r) \o FlattenSeq(Tail(r))
  BY <1>2, <1>4, FlattenHead
<1> QED
  BY <1>1, <1>4, <1>7, <1>8 DEF r, t

LEMMA TileIs ==
  MessagesTile <=> (stream.good /\ ~damaged => Unread(stream) = FlattenSeq(Row(pending)))
BY DEF MessagesTile, Row

LEMMA TileNext ==
  MessagesTile' <=> (stream'.good /\ ~damaged' => Unread(stream') = FlattenSeq(Row(pending')))
BY DEF MessagesTile, Row
-----------------------------------------------------------------------------
(* Objects. *)

LEMMA SequentialIs ==
  ASSUME NEW S, NEW v \in Seq(S)
  PROVE  Sequential(v) /\ Len(v) \in Nat /\ DOMAIN v = 1 .. Len(v)
<1>1. Len(v) \in Nat /\ DOMAIN v = 1 .. Len(v) /\ v = [i \in 1 .. Len(v) |-> v[i]]
  OBVIOUS
<1> DEFINE R == {v[i] : i \in DOMAIN v}
<1>2. \A i \in 1 .. Len(v) : v[i] \in R
  BY <1>1
<1> HIDE DEF R
<1>3. v \in Seq(R)
  BY <1>1, <1>2
<1> QED
  BY <1>1, <1>3 DEF Sequential, R

LEMMA EmptySequential == Sequential(<< >>)
BY DEF Sequential

(* The types of the first two members of every class. *)
LEMMA HeaderTypes ==
  ASSUME NEW kind \in Kind, NEW dir
  PROVE  /\ "op" \in MemberNames(kind, dir) /\ MemberType(kind, dir, "op") = "u8"
         /\ "tag" \in MemberNames(kind, dir) /\ MemberType(kind, dir, "tag") = "u16"
<1> DEFINE s == Class(kind, dir).encode
<1>1. Len(s) \in Nat /\ Len(s) >= 2 /\ s[1] = <<"op", "u8">> /\ s[2] = <<"tag", "u16">>
  BY ClassFields
<1>2. \A i \in 1 .. Len(s) : s[i][1] \in MemberNames(kind, dir)
                             /\ MemberType(kind, dir, s[i][1]) = s[i][2]
  BY MemberNamesIs
<1> HIDE DEF s
<1>3. 1 \in 1 .. Len(s) /\ 2 \in 1 .. Len(s)
  BY <1>1
<1>4. s[1][1] = "op" /\ s[1][2] = "u8" /\ s[2][1] = "tag" /\ s[2][2] = "u16"
  BY <1>1
<1> QED
  BY <1>2, <1>3, <1>4, Zenon

LEMMA DefaultShaped ==
  ASSUME NEW type
  PROVE  Shaped(type, Default(type))
<1>1. ASSUME type \in {"str", "strs", "qids", "data"} PROVE Default(type) = << >>
  BY <1>1 DEF Default
<1>2. ASSUME type = "stat" PROVE StatNames \subseteq DOMAIN Default(type)
  <2>1. Default("stat") = DefaultStat
    BY DEF Default
  <2>2. DOMAIN DefaultStat = {"type", "dev", "qid", "mode", "atime", "mtime", "length", "name",
                              "uid", "gid", "muid"}
    BY DEF DefaultStat
  <2> QED
    BY <1>2, <2>1, <2>2 DEF StatNames
<1> QED
  BY <1>1, <1>2, EmptySequential DEF Shaped

(* A constructor gives an object of its class. *)
LEMMA NewObject ==
  ASSUME NEW kind \in Kind, NEW dir \in {"Request", "Response"}
  PROVE  /\ Object(NewMessage(kind, dir)) /\ Shape(NewMessage(kind, dir))
         /\ NewMessage(kind, dir).kind = kind /\ NewMessage(kind, dir).dir = dir
<1> DEFINE m == NewMessage(kind, dir)
           N == MemberNames(kind, dir)
<1>1. kind # "Undefined"
  BY ConvertIs
<1>2. m.kind = kind /\ m.dir = dir /\ m = [kind |-> m.kind, dir |-> m.dir, body |-> m.body]
  BY DEF NewMessage
<1>3. DOMAIN m.body = N
  BY DEF NewMessage
<1>4. \A f \in N : f \notin {"op", "tag"} => m.body[f] = Default(MemberType(kind, dir, f))
  BY DEF NewMessage
<1> HIDE DEF m
<1>5. Object(m)
  BY <1>1, <1>2, <1>3 DEF Object
<1>6. ASSUME NEW f \in N PROVE Shaped(MemberType(kind, dir, f), m.body[f])
  <2>1. CASE f \in {"op", "tag"}
    <3>1. MemberType(kind, dir, f) \in {"u8", "u16"}
      BY <2>1, HeaderTypes
    <3> QED
      BY <3>1 DEF Shaped
  <2>2. CASE f \notin {"op", "tag"}
    BY <1>4, <2>2, DefaultShaped, Zenon
  <2> QED
    BY <2>1, <2>2
<1> QED
  BY <1>2, <1>5, <1>6 DEF Shape, m

LEMMA UndefinedObject ==
  ASSUME NEW dir \in {"Request", "Response"}
  PROVE  /\ Object(UndefinedMessage(dir)) /\ Shape(UndefinedMessage(dir))
         /\ ~EncodeMessage(UndefinedMessage(dir)).ok
         /\ UndefinedMessage(dir).kind = "Undefined"
<1> DEFINE m == UndefinedMessage(dir)
<1>1. m.kind = "Undefined" /\ m.dir = dir /\ m = [kind |-> m.kind, dir |-> m.dir, body |-> m.body]
  BY DEF UndefinedMessage
<1>2. DOMAIN m.body = {"op", "tag"}
  BY DEF UndefinedMessage
<1> HIDE DEF m
<1>3. "Undefined" \notin Kind
  BY KindIs
<1>4. ~EncodeMessage(m).ok
  BY <1>1 DEF EncodeMessage, Thrown
<1> QED
  BY <1>1, <1>2, <1>3, <1>4 DEF Object, Shape, m
-----------------------------------------------------------------------------
(* What a decode leaves in a member. *)

(* The elements of a vector come after what it held, one for each step. *)
VectorValue(h, type, n, old, order) ==
  /\ Sequential(h[n].v) /\ Len(h[n].v) = Len(old) + n
  /\ \A j \in 1 .. n :
       h[n].v[Len(old) + j] = DecodePart(type, h[j - 1].c, Default(type), order).v

LEMMA VectorValues ==
  ASSUME NEW h, NEW type, NEW n \in Nat, NEW c, NEW old, Sequential(old), NEW order,
         Runs(h, "element", [i \in 1 .. n |-> type], n, [v |-> old, c |-> c], order)
  PROVE  VectorValue(h, type, n, old, order)
<1> DEFINE S == {old[i] : i \in DOMAIN old}
           got(j) == DecodePart(type, h[j - 1].c, Default(type), order).v
           T == S \cup {got(j) : j \in 1 .. n}
           m == Len(old)
           Good(i) == /\ h[i].v \in Seq(T) /\ Len(h[i].v) = m + i
                      /\ \A j \in 1 .. i : h[i].v[m + j] = got(j)
           P == {i \in 0 .. n : Good(i)}
<1>1. old \in Seq(T) /\ m \in Nat
  <2>1. old \in Seq(S)
    BY DEF Sequential
  <2> HIDE DEF S
  <2> QED
    BY <2>1
<1>2. \A j \in 1 .. n : got(j) \in T
  OBVIOUS
<1>3. h[0].v = old
  BY DEF Runs
<1>4. \A i \in 1 .. n : h[i].v = Append(h[i - 1].v, got(i))
  <2> SUFFICES ASSUME NEW i \in 1 .. n PROVE h[i].v = Append(h[i - 1].v, got(i))
    OBVIOUS
  <2>1. h[i] = Step("element", type, h[i - 1], order)
    BY DEF Runs
  <2> QED
    BY <2>1 DEF Step, ElementStep
<1> HIDE DEF S, T, got
<1>5. 0 \in P
  BY <1>1, <1>3
<1>6. ASSUME NEW i \in 1 .. n, i - 1 \in P PROVE i \in P
  <2> DEFINE w == h[i - 1].v
             x == got(i)
  <2>1. w \in Seq(T) /\ Len(w) = m + (i - 1) /\ \A j \in 1 .. i - 1 : w[m + j] = got(j)
    BY <1>6
  <2>2. x \in T /\ h[i].v = Append(w, x)
    BY <1>2, <1>4
  <2> HIDE DEF w, x
  <2>3. /\ Append(w, x) \in Seq(T) /\ Len(Append(w, x)) = Len(w) + 1
        /\ Append(w, x)[Len(w) + 1] = x /\ \A k \in 1 .. Len(w) : Append(w, x)[k] = w[k]
    BY <2>1, <2>2, AppendProperties
  <2>4. Len(w) + 1 = m + i
    BY <1>1, <2>1
  <2>5. ASSUME NEW j \in 1 .. i PROVE h[i].v[m + j] = got(j)
    <3>1. CASE j = i
      BY <2>2, <2>3, <2>4, <3>1 DEF x
    <3>2. CASE j \in 1 .. i - 1
      <4>1. m + j \in 1 .. Len(w)
        BY <1>1, <2>1, <3>2
      <4> QED
        BY <2>1, <2>2, <2>3, <3>2, <4>1
    <3> QED
      BY <3>1, <3>2
  <2>6. h[i].v \in Seq(T) /\ Len(h[i].v) = m + i
    BY <2>2, <2>3, <2>4
  <2>7. Good(i) /\ i \in 0 .. n
    BY <2>5, <2>6
  <2> HIDE DEF Good
  <2> QED
    BY <2>7
<1>7. n \in P
  <2> HIDE DEF P
  <2> QED
    BY <1>5, <1>6, UpTo
<1>8. Good(n)
  BY <1>7
<1> QED
  BY <1>8, SequentialIs DEF VectorValue, got

(* A string keeps its length. *)
LEMMA StringValue ==
  ASSUME NEW c, NEW old, Sequential(old)
  PROVE  Sequential(StringAt(c, old)) /\ Len(StringAt(c, old)) = Len(old)
<1> DEFINE S == {old[i] : i \in DOMAIN old}
           x(i) == IF i <= U16At(c) /\ c.at + 1 + i <= Len(c.bytes) THEN c.bytes[c.at + 1 + i] ELSE old[i]
           T == {x(i) : i \in DOMAIN old}
<1>1. old \in Seq(S)
  BY DEF Sequential
<1>2. Len(old) \in Nat /\ DOMAIN old = 1 .. Len(old)
  BY <1>1, SequentialIs
<1>3. StringAt(c, old) = [i \in 1 .. Len(old) |-> x(i)]
  BY <1>2 DEF StringAt
<1>4. \A i \in 1 .. Len(old) : x(i) \in T
  BY <1>2
<1> HIDE DEF x, T
<1>5. StringAt(c, old) \in Seq(T) /\ Len(StringAt(c, old)) = Len(old)
  BY <1>2, <1>3, <1>4
<1> QED
  BY <1>5, SequentialIs

(* Data comes after what was held. *)
LEMMA DataValue ==
  ASSUME NEW c \in Cursors, NEW old, Sequential(old)
  PROVE  LET v == DecodeData(c, old).v
         IN  /\ Sequential(v) /\ Len(v) = Len(old) + U32At(c)
             /\ \A i \in 1 .. U32At(c) : v[Len(old) + i] = ByteAt(Skip(c, 4), i - 1)
<1> DEFINE S == {old[i] : i \in DOMAIN old}
           T == S \cup Byte
           n == U32At(c)
           new == [i \in 1 .. n |-> ByteAt(Skip(c, 4), i - 1)]
           v == DecodeData(c, old).v
<1>1. old \in Seq(S)
  BY DEF Sequential
<1>2. n \in Nat
  BY U32AtType
<1>3. Skip(c, 4) \in Cursors
  BY SkipType
<1>4. \A i \in 1 .. n : ByteAt(Skip(c, 4), i - 1) \in Byte
  BY <1>2, <1>3, ByteAtType
<1>5. v = old \o new
  BY DEF DecodeData
<1> HIDE DEF S, n, v
<1>6. old \in Seq(T) /\ Len(old) \in Nat
  BY <1>1
<1>7. new \in Seq(T) /\ Len(new) = n /\ \A i \in 1 .. n : new[i] = ByteAt(Skip(c, 4), i - 1)
  BY <1>2, <1>4
<1> HIDE DEF new, T
<1>8. /\ old \o new \in Seq(T) /\ Len(old \o new) = Len(old) + n
      /\ \A i \in 1 .. Len(old) + n :
           (old \o new)[i] = IF i <= Len(old) THEN old[i] ELSE new[i - Len(old)]
  BY <1>6, <1>7, ConcatProperties
<1>9. ASSUME NEW i \in 1 .. n PROVE v[Len(old) + i] = ByteAt(Skip(c, 4), i - 1)
  <2>1. Len(old) + i \in 1 .. Len(old) + n /\ ~(Len(old) + i <= Len(old)) /\ (Len(old) + i) - Len(old) = i
    BY <1>2, <1>6
  <2> QED
    BY <1>5, <1>7, <1>8, <2>1
<1>10. Sequential(v)
  BY <1>5, <1>8, SequentialIs
<1> QED
  BY <1>5, <1>8, <1>9, <1>10 DEF n, v
(* The members of a Stat, each from its own place. *)
StatValue(h, old, order) ==
  LET xs == Stat.decode
      v  == h[Len(Stat.decode)].v
  IN  /\ DOMAIN v = DOMAIN old
      /\ \A i \in 1 .. Len(xs) :
           v[xs[i][1]] = DecodePart(xs[i][2], h[i - 1].c, old[xs[i][1]], order).v

LEMMA StatValues ==
  ASSUME NEW h, NEW c, NEW old, StatNames \subseteq DOMAIN old, NEW order,
         Runs(h, "part", Stat.decode, Len(Stat.decode), [v |-> old, c |-> Skip(c, 2)], order)
  PROVE  StatValue(h, old, order)
<1> DEFINE xs == Stat.decode
           n == Len(xs)
           start == [v |-> old, c |-> Skip(c, 2)]
<1>1. Fields(xs, PartTypes, StatNames)
  BY StatMatches DEF Matches
<1>2. Runs(h, "part", xs, n, start, order) /\ start.v = old
  OBVIOUS
<1> HIDE DEF xs, start
<1>3. n \in Nat /\ \A i \in 1 .. n : xs[i][1] \in StatNames
  BY <1>1, FieldIs
<1>4. \A i, j \in 1 .. n : xs[i][1] = xs[j][1] => i = j
  BY <1>1 DEF Fields
<1> HIDE DEF n
<1>5. \A i \in 1 .. n : xs[i][1] \in DOMAIN start.v
  BY <1>2, <1>3
<1>6. /\ DOMAIN h[n].v = DOMAIN start.v
      /\ \A i \in 1 .. n :
           h[n].v[xs[i][1]] = ValueAt("part", xs[i][2], h[i - 1].c, start.v[xs[i][1]], order)
  <2>1. n \in Nat /\ Runs(h, "part", xs, n, start, order) /\ Named(xs, n, DOMAIN start.v)
        /\ "part" \in {"part", "member"}
    BY <1>2, <1>3, <1>4, <1>5 DEF Named
  <2>2. RunValue(h, "part", xs, n, start, order)
    BY <2>1, RunValues, Zenon
  <2> QED
    BY <2>2 DEF RunValue
<1> QED
  BY <1>2, <1>6 DEF ValueAt, StatValue, xs, n

(* Decoding into a member keeps its shape. *)
LEMMA MemberShaped ==
  ASSUME NEW type \in MemberTypes, NEW c \in Cursors, NEW old, Shaped(type, old), NEW order
  PROVE  Shaped(type, DecodeMember(type, c, old, order).v)
<1>1. ASSUME type = "str" PROVE Shaped(type, DecodeMember(type, c, old, order).v)
  <2>1. DecodeMember("str", c, old, order) = DecodePart("str", c, old, order)
    BY <1>1, Listed, DecodeMemberIs
  <2>2. DecodePart("str", c, old, order).v = StringAt(c, old)
    BY DecodeValueIs DEF DecodePart
  <2>3. Sequential(old)
    BY <1>1 DEF Shaped
  <2> QED
    BY <1>1, <2>1, <2>2, <2>3, StringValue DEF Shaped
<1>2. ASSUME NEW part, Sequential(old) PROVE Sequential(DecodeVector(part, c, old, order).v)
  <2> DEFINE n == U16At(c)
  <2>1. n \in Nat
    BY U16AtType
  <2>2. PICK h : /\ Runs(h, "element", [i \in 1 .. n |-> part], n, [v |-> old, c |-> Skip(c, 2)], order)
                 /\ DecodeVector(part, c, old, order) = h[n]
    BY <2>1, DecodeVectorRuns
  <2> HIDE DEF n
  <2>3. VectorValue(h, part, n, old, order)
    BY <1>2, <2>1, <2>2, VectorValues
  <2> QED
    BY <2>2, <2>3 DEF VectorValue
<1>3. ASSUME type \in {"strs", "qids"} PROVE Shaped(type, DecodeMember(type, c, old, order).v)
  BY <1>2, <1>3, DecodeMemberIs DEF Shaped
<1>4. ASSUME type = "data" PROVE Shaped(type, DecodeMember(type, c, old, order).v)
  <2>1. Sequential(old)
    BY <1>4 DEF Shaped
  <2>2. Sequential(DecodeData(c, old).v)
    BY <2>1, DataValue
  <2> QED
    BY <1>4, <2>2, DecodeMemberIs DEF Shaped
<1>5. ASSUME type = "stat" PROVE Shaped(type, DecodeMember(type, c, old, order).v)
  <2> DEFINE n == Len(Stat.decode)
  <2>1. n \in Nat
    BY StatMatches, FieldIs DEF Matches
  <2>2. PICK h : /\ Runs(h, "part", Stat.decode, n, [v |-> old, c |-> Skip(c, 2)], order)
                 /\ DecodeStat(c, old, order) = h[n]
    BY <2>1, DecodeStatRuns
  <2>3. StatNames \subseteq DOMAIN old
    BY <1>5 DEF Shaped
  <2>4. DOMAIN h[n].v = DOMAIN old
    BY <2>2, <2>3, StatValues DEF StatValue
  <2> QED
    BY <1>5, <2>2, <2>3, <2>4, DecodeMemberIs DEF Shaped
<1>6. ASSUME type \notin {"str", "strs", "qids", "data", "stat"}
      PROVE  Shaped(type, DecodeMember(type, c, old, order).v)
  BY <1>6 DEF Shaped
<1> QED
  BY <1>1, <1>3, <1>4, <1>5, <1>6

(* Every member of a decoded object is what its decoder made of it. *)
BodyRun(h, o, c, order) ==
  LET fields == Class(o.kind, o.dir).encode
  IN  /\ Runs(h, "member", fields, Len(fields), [v |-> o.body, c |-> c], order)
      /\ DecodeMessage(o, c, order) =
           [v |-> [o EXCEPT !.body = h[Len(fields)].v], c |-> h[Len(fields)].c]

LEMMA BodyValues ==
  ASSUME NEW o, Object(o), o.kind \in Kind, NEW c, NEW order, NEW h, BodyRun(h, o, c, order)
  PROVE  LET s == Class(o.kind, o.dir).encode
         IN  \A i \in 1 .. Len(s) :
               DecodeMessage(o, c, order).v.body[s[i][1]] =
                 DecodeMember(s[i][2], h[i - 1].c, o.body[s[i][1]], order).v
<1> DEFINE s == Class(o.kind, o.dir).encode
           n == Len(s)
           start == [v |-> o.body, c |-> c]
           d == DecodeMessage(o, c, order).v
<1>1. /\ n \in Nat /\ \A i, j \in 1 .. n : s[i][1] = s[j][1] => i = j
  BY ClassFields
<1>2. /\ Runs(h, "member", s, n, start, order)
      /\ DecodeMessage(o, c, order) = [v |-> [o EXCEPT !.body = h[n].v], c |-> h[n].c]
  BY DEF BodyRun
<1>3. DOMAIN o.body = MemberNames(o.kind, o.dir)
  BY ConvertIs DEF Object
<1>4. \A i \in 1 .. n : s[i][1] \in DOMAIN start.v
  BY <1>3, MemberNamesIs
<1>5. start.v = o.body
  OBVIOUS
<1>6. d = [o EXCEPT !.body = h[n].v]
  BY <1>2
<1> HIDE DEF s, n, start, d
<1>7. \A i \in 1 .. n :
        h[n].v[s[i][1]] = ValueAt("member", s[i][2], h[i - 1].c, start.v[s[i][1]], order)
  <2>1. n \in Nat /\ Runs(h, "member", s, n, start, order) /\ Named(s, n, DOMAIN start.v)
        /\ "member" \in {"part", "member"}
    BY <1>1, <1>2, <1>4 DEF Named
  <2>2. RunValue(h, "member", s, n, start, order)
    BY <2>1, RunValues, Zenon
  <2> QED
    BY <2>2 DEF RunValue
<1>8. o = [kind |-> o.kind, dir |-> o.dir, body |-> o.body]
  BY DEF Object
<1>9. d.body = h[n].v
  BY <1>6, <1>8
<1> QED
  BY <1>5, <1>7, <1>9 DEF ValueAt, s, n, d

(* Decoding into an object keeps its shape. *)
LEMMA DecodedShape ==
  ASSUME NEW o, Object(o), Shape(o), o.kind \in Kind, NEW c \in Cursors, NEW order
  PROVE  Shape(DecodeMessage(o, c, order).v)
<1> DEFINE s == Class(o.kind, o.dir).encode
           n == Len(s)
           start == [v |-> o.body, c |-> c]
           d == DecodeMessage(o, c, order).v
<1>1. /\ Class(o.kind, o.dir).decode = s /\ n \in Nat
      /\ \A i \in 1 .. n : s[i][2] \in MemberTypes /\ s[i] = <<s[i][1], s[i][2]>>
  BY ClassFields
<1>2. PICK h : BodyRun(h, o, c, order)
  BY <1>1, DecodeMessageRuns DEF BodyRun
<1>3. Runs(h, "member", s, n, start, order) /\ start.c \in Cursors
  BY <1>2 DEF BodyRun
<1>4. \A i \in 1 .. n : d.body[s[i][1]] = DecodeMember(s[i][2], h[i - 1].c, o.body[s[i][1]], order).v
  BY <1>2, BodyValues
<1>5. d.kind = o.kind /\ d.dir = o.dir
  BY DecodedObject
<1>6. /\ \A i \in 1 .. n : s[i][1] \in MemberNames(o.kind, o.dir)
                           /\ MemberType(o.kind, o.dir, s[i][1]) = s[i][2]
      /\ \A f \in MemberNames(o.kind, o.dir) : \E i \in 1 .. n : f = s[i][1]
  BY MemberNamesIs
<1> HIDE DEF s, n, start, d
<1>7. \A i \in 1 .. n : Leads("member", s[i], order)
  BY <1>1, MemberCursor, StepIs DEF Leads
<1>8. \A i \in 0 .. n : h[i].c \in Cursors
  BY <1>1, <1>3, <1>7, RunCursors
<1>9. ASSUME NEW f \in MemberNames(o.kind, o.dir)
      PROVE  Shaped(MemberType(o.kind, o.dir, f), d.body[f])
  <2>1. PICK i \in 1 .. n : f = s[i][1]
    BY <1>6
  <2>2. i - 1 \in 0 .. n
    BY <1>1
  <2>3. h[i - 1].c \in Cursors
    BY <1>8, <2>2
  <2> DEFINE type == s[i][2]
             old == o.body[s[i][1]]
             e == h[i - 1].c
  <2>4. type \in MemberTypes /\ MemberType(o.kind, o.dir, f) = type
        /\ d.body[f] = DecodeMember(type, e, old, order).v
    BY <1>1, <1>4, <1>6, <2>1
  <2>5. Shaped(type, old)
    BY <1>6, <2>1 DEF Shape
  <2> HIDE DEF type, old, e
  <2>6. Shaped(type, DecodeMember(type, e, old, order).v)
    BY <2>3, <2>4, <2>5, MemberShaped DEF e
  <2> QED
    BY <2>4, <2>6
<1> QED
  BY <1>5, <1>9 DEF Shape, d
-----------------------------------------------------------------------------
(* What comes back of a member. *)

Joined(x, a, b, S, m, n) ==
  /\ x \in Seq(S) /\ Len(x) = m + n
  /\ \A i \in 1 .. m : x[i] = a[i]
  /\ \A i \in 1 .. n : x[m + i] = b[i]

LEMMA ConcatAt ==
  ASSUME NEW S, NEW a \in Seq(S), NEW b \in Seq(S), NEW m \in Nat, NEW n \in Nat,
         Len(a) = m, Len(b) = n
  PROVE  Joined(a \o b, a, b, S, m, n)
<1>1. /\ a \o b \in Seq(S) /\ Len(a \o b) = m + n
      /\ \A i \in 1 .. m + n : (a \o b)[i] = IF i <= m THEN a[i] ELSE b[i - m]
  BY ConcatProperties
<1>2. \A i \in 1 .. m : i \in 1 .. m + n /\ i <= m
  OBVIOUS
<1>3. \A i \in 1 .. n : m + i \in 1 .. m + n /\ ~(m + i <= m) /\ (m + i) - m = i
  OBVIOUS
<1> QED
  BY <1>1, <1>2, <1>3 DEF Joined

(* Where the members of a fixed size are in a Stat. *)
LEMMA StatFields ==
  /\ Len(Stat.encode) \in Nat /\ Len(Stat.encode) >= 7
  /\ Stat.encode[1] = <<"type", "u16">> /\ Stat.encode[2] = <<"dev", "u32">>
  /\ Stat.encode[3] = <<"qid", "qid">> /\ Stat.encode[4] = <<"mode", "u32">>
  /\ Stat.encode[5] = <<"atime", "u32">> /\ Stat.encode[6] = <<"mtime", "u32">>
  /\ Stat.encode[7] = <<"length", "u64">>
<1> DEFINE a == << <<"type", "u16">>, <<"dev", "u32">> >>
           b == << <<"mode", "u32">>, <<"atime", "u32">>, <<"mtime", "u32">>, <<"length", "u64">> >>
           d == << <<"uid", "str">>, <<"gid", "str">>, <<"muid", "str">> >>
           q == << <<"qid", "qid">> >>
           n == << <<"name", "str">> >>
           S == {"type", "dev", "mode", "atime", "mtime", "length", "uid", "gid", "muid", "qid", "name"}
                  \X {"u16", "u32", "u64", "str", "qid"}
           y == a \o q
           z == y \o b
           w == z \o n
<1>1. Stat.encode = w \o d
  BY DEF Stat, Members, HasQid, HasName
<1>2. /\ a \in Seq(S) /\ b \in Seq(S) /\ d \in Seq(S) /\ q \in Seq(S) /\ n \in Seq(S)
      /\ Len(a) = 2 /\ Len(q) = 1 /\ Len(b) = 4 /\ Len(n) = 1 /\ Len(d) = 3
      /\ a[1] = <<"type", "u16">> /\ a[2] = <<"dev", "u32">> /\ q[1] = <<"qid", "qid">>
      /\ b[1] = <<"mode", "u32">> /\ b[2] = <<"atime", "u32">> /\ b[3] = <<"mtime", "u32">>
      /\ b[4] = <<"length", "u64">>
  OBVIOUS
<1> HIDE DEF a, b, d, q, n, S
<1>3. y \in Seq(S) /\ Len(y) = 3 /\ y[1] = a[1] /\ y[2] = a[2] /\ y[3] = q[1]
  <2>1. a \in Seq(S) /\ q \in Seq(S) /\ Len(a) = 2 /\ Len(q) = 1 /\ 1 \in Nat /\ 2 \in Nat
    BY <1>2
  <2>2. Joined(y, a, q, S, 2, 1)
    BY <2>1, ConcatAt, Zenon
  <2> HIDE DEF y
  <2> QED
    BY <2>2 DEF Joined
<1> HIDE DEF y
<1>4. /\ z \in Seq(S) /\ Len(z) = 7 /\ z[1] = y[1] /\ z[2] = y[2] /\ z[3] = y[3]
      /\ z[4] = b[1] /\ z[5] = b[2] /\ z[6] = b[3] /\ z[7] = b[4]
  <2>1. y \in Seq(S) /\ b \in Seq(S) /\ Len(y) = 3 /\ Len(b) = 4 /\ 3 \in Nat /\ 4 \in Nat
    BY <1>2, <1>3
  <2>2. Joined(z, y, b, S, 3, 4)
    BY <2>1, ConcatAt, Zenon
  <2> HIDE DEF z
  <2> QED
    BY <2>2 DEF Joined
<1> HIDE DEF z
<1>5. w \in Seq(S) /\ Len(w) = 8 /\ \A i \in 1 .. 7 : w[i] = z[i]
  <2>1. z \in Seq(S) /\ n \in Seq(S) /\ Len(z) = 7 /\ Len(n) = 1 /\ 7 \in Nat /\ 1 \in Nat
    BY <1>2, <1>4
  <2>2. Joined(w, z, n, S, 7, 1)
    BY <2>1, ConcatAt, Zenon
  <2> HIDE DEF w
  <2> QED
    BY <2>2 DEF Joined
<1> HIDE DEF w
<1> DEFINE s == w \o d
<1>6. Len(s) = 11 /\ \A i \in 1 .. 8 : s[i] = w[i]
  <2>1. w \in Seq(S) /\ d \in Seq(S) /\ Len(w) = 8 /\ Len(d) = 3 /\ 8 \in Nat /\ 3 \in Nat
    BY <1>2, <1>5
  <2>2. Joined(s, w, d, S, 8, 3)
    BY <2>1, ConcatAt, Zenon
  <2> HIDE DEF s
  <2> QED
    BY <2>2 DEF Joined
<1>7. Stat.encode = s
  BY <1>1
<1> HIDE DEF s
<1>8. /\ s[1] = a[1] /\ s[2] = a[2] /\ s[3] = q[1] /\ s[4] = b[1] /\ s[5] = b[2]
      /\ s[6] = b[3] /\ s[7] = b[4]
  BY <1>3, <1>4, <1>5, <1>6
<1>9. Len(s) \in Nat /\ Len(s) >= 7
  BY <1>6
<1> QED
  BY <1>2, <1>7, <1>8, <1>9, Zenon
LEMMA SamePart ==
  ASSUME NEW got, NEW sent
  PROVE  /\ QidSame(got, sent) => QidAgrees(got, sent)
         /\ PartSame("qid", got, sent) => QidAgrees(got, sent)
         /\ PartSame("u8", got, sent) => got = sent
         /\ PartSame("u16", got, sent) => got = sent
         /\ PartSame("u32", got, sent) => got = sent
         /\ PartSame("u64", got, sent) => got \in Halves(sent)
<1>1. QidSame(got, sent) => QidAgrees(got, sent)
  BY DEF QidSame, QidAgrees, Halves
<1> QED
  BY <1>1 DEF PartSame, Agrees, Halves

Adds(got, m, n) ==
  /\ Len(Added(got, m)) = n /\ Sequential(Added(got, m))
  /\ \A i \in 1 .. n : Added(got, m)[i] = got[m + i]

LEMMA AddedIs ==
  ASSUME NEW got, Sequential(got), NEW m \in Nat, NEW n \in Nat, Len(got) = m + n
  PROVE  Adds(got, m, n)
<1> DEFINE S == {got[i] : i \in DOMAIN got}
           a == SubSeq(got, m + 1, Len(got))
<1>1. got \in Seq(S)
  BY DEF Sequential
<1> HIDE DEF S
<1>2. m \in 0 .. Len(got) /\ Len(got) - m = n
  OBVIOUS
<1>3. a \in Seq(S) /\ Len(a) = Len(got) - m /\ \A i \in 1 .. Len(got) - m : a[i] = got[m + i]
  BY <1>1, <1>2, RestType
<1> HIDE DEF a
<1>4. Sequential(a)
  BY <1>3, SequentialIs
<1> QED
  BY <1>2, <1>3, <1>4 DEF Adds, Added, a

(* Vectors. *)
LEMMA VectorAgrees ==
  ASSUME NEW type \in PartTypes, NEW S, NEW v \in Seq(S), \A x \in S : HasPartType(type, x),
         EncodeVector(Elements(type, v)).ok,
         NEW c \in Cursors, Under(c, EncodeVector(Elements(type, v)).bytes),
         NEW old, Sequential(old), NEW order
  PROVE  LET got == DecodeVector(type, c, old, order).v
         IN  /\ Len(got) = Len(old) + Len(v)
             /\ \A i \in 1 .. Len(v) : PartSame(type, Added(got, Len(old))[i], v[i])
<1> DEFINE parts == Elements(type, v)
           got == DecodeVector(type, c, old, order).v
           n == Len(v)
<1>1. /\ parts \in Seq(Encodings) /\ Len(parts) = n /\ n \in Nat
      /\ \A i \in 1 .. n : HasPartType(type, v[i]) /\ parts[i] = EncodePart(type, v[i])
  BY ElementsType
<1>2. PICK h : VectorRun(h, type, parts, c, old, order)
  BY VectorMemberTiles
<1>3. \A i \in 1 .. n : parts[i].ok
  BY <1>1, EncodeVectorIs
<1> HIDE DEF parts, n, got
<1>4. /\ Runs(h, "element", [i \in 1 .. n |-> type], n, [v |-> old, c |-> Skip(c, 2)], order)
      /\ got = h[n].v
      /\ \A i \in 1 .. n : h[i - 1].c \in Cursors /\ Under(h[i - 1].c, parts[i].bytes)
  BY <1>1, <1>2 DEF VectorRun, got
<1>5. VectorValue(h, type, n, old, order)
  BY <1>1, <1>4, VectorValues
<1>6. /\ Sequential(got) /\ Len(got) = Len(old) + n
      /\ \A j \in 1 .. n : got[Len(old) + j] = DecodePart(type, h[j - 1].c, Default(type), order).v
  BY <1>4, <1>5 DEF VectorValue
<1>7. Len(old) \in Nat
  BY SequentialIs DEF Sequential
<1>8. \A i \in 1 .. n : Added(got, Len(old))[i] = got[Len(old) + i]
  <2>1. n \in Nat /\ Len(old) \in Nat /\ Sequential(got) /\ Len(got) = Len(old) + n
    BY <1>1, <1>6, <1>7
  <2>2. Adds(got, Len(old), n)
    BY <2>1, AddedIs, Zenon
  <2> QED
    BY <2>2 DEF Adds
<1>9. ASSUME NEW i \in 1 .. n PROVE PartSame(type, Added(got, Len(old))[i], v[i])
  <2> DEFINE x == v[i]
             e == h[i - 1].c
  <2>1. HasPartType(type, x) /\ EncodePart(type, x).ok /\ e \in Cursors /\ Under(e, EncodePart(type, x).bytes)
    BY <1>1, <1>3, <1>4
  <2>2. Added(got, Len(old))[i] = DecodePart(type, e, Default(type), order).v
    BY <1>6, <1>8
  <2> HIDE DEF x, e
  <2>3. PartSame(type, DecodePart(type, e, Default(type), order).v, x)
    BY <2>1, PartTiles
  <2> QED
    BY <2>2, <2>3 DEF x
<1> QED
  BY <1>6, <1>9 DEF got, n

(* Data. *)
LEMMA DataAgrees ==
  ASSUME NEW v \in Seq(Byte), EncodeData(v).ok, NEW c \in Cursors, Under(c, EncodeData(v).bytes),
         NEW old, Sequential(old)
  PROVE  Added(DecodeData(c, old).v, Len(old)) = v
<1> DEFINE got == DecodeData(c, old).v
           n == Len(v)
           m == Len(old)
           a == Added(got, m)
<1>1. U32At(c) = n /\ \A i \in 1 .. n : ByteAt(Skip(c, 4), i - 1) = v[i]
  BY DataTiles
<1>2. /\ Sequential(got) /\ Len(got) = m + U32At(c)
      /\ \A i \in 1 .. U32At(c) : got[m + i] = ByteAt(Skip(c, 4), i - 1)
  BY DataValue
<1>3. n \in Nat /\ m \in Nat
  BY SequentialIs DEF Sequential
<1> HIDE DEF got, n, m
<1>4. Len(a) = n /\ Sequential(a) /\ \A i \in 1 .. n : a[i] = got[m + i]
  <2>1. n \in Nat /\ m \in Nat /\ Sequential(got) /\ Len(got) = m + n
    BY <1>1, <1>2, <1>3
  <2>2. Adds(got, m, n)
    BY <2>1, AddedIs, Zenon
  <2> QED
    BY <2>2 DEF Adds
<1>5. \A i \in 1 .. n : a[i] = v[i]
  BY <1>1, <1>2, <1>4
<1> HIDE DEF a
<1> DEFINE R == {a[i] : i \in DOMAIN a}
<1>6. a \in Seq(R)
  BY <1>4 DEF Sequential
<1> HIDE DEF R
<1>7. a \in Seq(R \cup Byte) /\ v \in Seq(R \cup Byte)
  BY <1>6
<1>8. a = v
  BY <1>4, <1>5, <1>7, SeqEqual DEF n
<1> QED
  BY <1>8 DEF a, got, m
(* A Stat: of its members those of a fixed size. *)
LEMMA StatAgrees ==
  ASSUME NEW v, IsStat(v), EncodeStat(v).ok, NEW c \in Cursors, Under(c, EncodeStat(v).bytes),
         NEW old, StatNames \subseteq DOMAIN old, NEW order
  PROVE  LET got == DecodeStat(c, old, order).v
         IN  /\ QidAgrees(got.qid, v.qid)
             /\ \A f \in {"type", "dev", "mode", "atime", "mtime"} : got[f] = v[f]
             /\ got.length \in Halves(v.length)
<1> DEFINE s == Stat.encode
           n == Len(s)
           got == DecodeStat(c, old, order).v
           Is(i) == PartSame(s[i][2], got[s[i][1]], v[s[i][1]])
<1>1. /\ n \in Nat /\ Stat.decode = s /\ Len(StatParts(v)) = n
      /\ \A i \in 1 .. n : /\ s[i][2] \in PartTypes /\ HasPartType(s[i][2], v[s[i][1]])
                           /\ StatParts(v)[i] = EncodePart(s[i][2], v[s[i][1]])
  BY StatPartsType
<1>2. \A i \in 1 .. n : StatParts(v)[i].ok
  BY EncodeStatIs
<1>3. PICK h : StatRun(h, v, c, old, order)
  BY StatTiles
<1>4. /\ Runs(h, "part", Stat.decode, Len(Stat.decode), [v |-> old, c |-> Skip(c, 2)], order)
      /\ got = h[Len(Stat.decode)].v
      /\ \A i \in 1 .. n : h[i - 1].c \in Cursors /\ Under(h[i - 1].c, StatParts(v)[i].bytes)
  BY <1>1, <1>3 DEF StatRun
<1>5. \A i \in 1 .. n : got[s[i][1]] = DecodePart(s[i][2], h[i - 1].c, old[s[i][1]], order).v
  <2>1. Runs(h, "part", Stat.decode, Len(Stat.decode), [v |-> old, c |-> Skip(c, 2)], order)
    BY <1>4
  <2>2. StatValue(h, old, order)
    BY <2>1, StatValues, Zenon
  <2>3. Stat.decode = s /\ Len(Stat.decode) = n /\ got = h[Len(Stat.decode)].v
    BY <1>1, <1>4
  <2> HIDE DEF s, n, got
  <2> QED
    BY <2>2, <2>3 DEF StatValue
<1>6. n >= 7
  BY StatFields
<1>7. /\ s[1] = <<"type", "u16">> /\ s[2] = <<"dev", "u32">> /\ s[3] = <<"qid", "qid">>
      /\ s[4] = <<"mode", "u32">> /\ s[5] = <<"atime", "u32">> /\ s[6] = <<"mtime", "u32">>
      /\ s[7] = <<"length", "u64">>
  BY StatFields
<1> HIDE DEF s, got, n
<1>8. ASSUME NEW i \in 1 .. n PROVE Is(i)
  <2> DEFINE type == s[i][2]
             x == v[s[i][1]]
             e == h[i - 1].c
             was == old[s[i][1]]
  <2>1. /\ type \in PartTypes /\ HasPartType(type, x) /\ EncodePart(type, x).ok
        /\ e \in Cursors /\ Under(e, EncodePart(type, x).bytes)
        /\ got[s[i][1]] = DecodePart(type, e, was, order).v
    BY <1>1, <1>2, <1>4, <1>5
  <2> HIDE DEF type, x, e, was
  <2>2. PartSame(type, DecodePart(type, e, was, order).v, x)
    BY <2>1, PartTiles
  <2> QED
    BY <2>1, <2>2 DEF type, x
<1>9. Is(1) /\ Is(2) /\ Is(3) /\ Is(4) /\ Is(5) /\ Is(6) /\ Is(7)
  <2>1. 1 \in 1 .. n /\ 2 \in 1 .. n /\ 3 \in 1 .. n /\ 4 \in 1 .. n /\ 5 \in 1 .. n /\ 6 \in 1 .. n
        /\ 7 \in 1 .. n
    BY <1>1, <1>6
  <2> HIDE DEF Is
  <2> QED
    BY <1>8, <2>1
<1>10. /\ PartSame("u16", got["type"], v["type"]) /\ PartSame("u32", got["dev"], v["dev"])
       /\ PartSame("qid", got["qid"], v["qid"]) /\ PartSame("u32", got["mode"], v["mode"])
       /\ PartSame("u32", got["atime"], v["atime"]) /\ PartSame("u32", got["mtime"], v["mtime"])
       /\ PartSame("u64", got["length"], v["length"])
  BY <1>7, <1>9
<1>11. /\ got["type"] = v["type"] /\ got["dev"] = v["dev"] /\ QidAgrees(got["qid"], v["qid"])
       /\ got["mode"] = v["mode"] /\ got["atime"] = v["atime"] /\ got["mtime"] = v["mtime"]
       /\ got["length"] \in Halves(v["length"])
  BY <1>10, SamePart
<1>12. \A f \in {"type", "dev", "mode", "atime", "mtime"} : got[f] = v[f]
  BY <1>11
<1> QED
  BY <1>11, <1>12 DEF got

(* MemberAgrees, type by type. *)
LEMMA MemberAgreesIs ==
  ASSUME NEW type \in MemberTypes, NEW got, NEW sent, NEW old,
         type \in {"u8", "u16", "u32"} => got = sent,
         type = "u64" => got \in Halves(sent),
         type = "str" => Len(got) = Len(old),
         type = "data" => Added(got, Len(old)) = sent,
         type = "strs" => Len(got) = Len(old) + Len(sent),
         type = "qid" => QidAgrees(got, sent),
         type = "qids" => /\ Len(got) = Len(old) + Len(sent)
                          /\ \A i \in DOMAIN sent : QidAgrees(Added(got, Len(old))[i], sent[i]),
         type = "stat" => /\ QidAgrees(got.qid, sent.qid)
                          /\ \A f \in {"type", "dev", "mode", "atime", "mtime"} : got[f] = sent[f]
                          /\ got.length \in Halves(sent.length)
  PROVE  MemberAgrees(type, got, sent, old)
<1>1. \/ type \in {"u8", "u16", "u32"} \/ type = "u64" \/ type = "str" \/ type = "data" \/ type = "strs"
      \/ type = "qid" \/ type = "qids" \/ type = "stat"
  BY DEF MemberTypes, PartTypes, ValueTypes
<1> QED
  BY <1>1 DEF MemberAgrees
(* What a member holds after its encoding was decoded into it. *)
LEMMA MemberValue ==
  ASSUME NEW type \in MemberTypes, NEW v, HasMemberType(type, v), EncodeMember(type, v).ok,
         NEW c \in Cursors, Under(c, EncodeMember(type, v).bytes),
         NEW old, Shaped(type, old), NEW order
  PROVE  MemberAgrees(type, DecodeMember(type, c, old, order).v, v, old)
<1> DEFINE got == DecodeMember(type, c, old, order).v
<1>1. ASSUME type \in PartTypes
      PROVE  /\ got = DecodePart(type, c, old, order).v /\ PartSame(type, got, v)
  <2>1. HasPartType(type, v) /\ EncodeMember(type, v) = EncodePart(type, v)
    BY <1>1, MemberHolds, EncodeMemberIs
  <2>2. got = DecodePart(type, c, old, order).v
    BY <1>1, DecodeMemberIs
  <2>3. PartSame(type, DecodePart(type, c, old, order).v, v)
    BY <1>1, <2>1, PartTiles
  <2> QED
    BY <2>2, <2>3
<1>2. /\ type \in {"u8", "u16", "u32"} => got = v
      /\ type = "u64" => got \in Halves(v)
      /\ type = "qid" => QidAgrees(got, v)
  <2> HIDE DEF got
  <2> QED
    BY <1>1, Listed, SamePart
<1>3. ASSUME type = "str" PROVE Len(got) = Len(old)
  <2>1. got = StringAt(c, old)
    BY <1>1, <1>3, Listed, DecodeValueIs DEF DecodePart
  <2> QED
    BY <1>3, <2>1, StringValue DEF Shaped
<1>4. ASSUME type = "data" PROVE Added(got, Len(old)) = v
  <2>1. v \in Seq(Byte) /\ EncodeMember(type, v) = EncodeData(v) /\ got = DecodeData(c, old).v
    BY <1>4, MemberHolds, EncodeMemberIs, DecodeMemberIs
  <2>2. Sequential(old)
    BY <1>4 DEF Shaped
  <2>3. Added(DecodeData(c, old).v, Len(old)) = v
    BY <2>1, <2>2, DataAgrees
  <2> QED
    BY <2>1, <2>3
<1>5. ASSUME type = "strs" PROVE Len(got) = Len(old) + Len(v)
  <2>1. /\ v \in Seq(Seq(Byte)) /\ \A x \in Seq(Byte) : HasPartType("str", x)
        /\ EncodeMember(type, v) = EncodeVector(Elements("str", v))
        /\ got = DecodeVector("str", c, old, order).v
    BY <1>5, MemberHolds, EncodeMemberIs, DecodeMemberIs
  <2>2. Sequential(old) /\ "str" \in PartTypes
    BY <1>5, Listed DEF Shaped
  <2>3. EncodeVector(Elements("str", v)).ok /\ Under(c, EncodeVector(Elements("str", v)).bytes)
    BY <2>1
  <2>4. Len(DecodeVector("str", c, old, order).v) = Len(old) + Len(v)
    BY <2>1, <2>2, <2>3, VectorAgrees
  <2> QED
    BY <2>1, <2>4
<1>6. ASSUME type = "qids"
      PROVE  /\ Len(got) = Len(old) + Len(v)
             /\ \A i \in DOMAIN v : QidAgrees(Added(got, Len(old))[i], v[i])
  <2>1. /\ v \in Seq(Qids) /\ \A x \in Qids : HasPartType("qid", x)
        /\ EncodeMember(type, v) = EncodeVector(Elements("qid", v))
        /\ got = DecodeVector("qid", c, old, order).v
    BY <1>6, MemberHolds, EncodeMemberIs, DecodeMemberIs
  <2>2. Sequential(old) /\ "qid" \in PartTypes
    BY <1>6, Listed DEF Shaped
  <2>3. EncodeVector(Elements("qid", v)).ok /\ Under(c, EncodeVector(Elements("qid", v)).bytes)
    BY <2>1
  <2> DEFINE w == DecodeVector("qid", c, old, order).v
  <2>4. /\ Len(w) = Len(old) + Len(v)
        /\ \A i \in 1 .. Len(v) : PartSame("qid", Added(w, Len(old))[i], v[i])
    BY <2>1, <2>2, <2>3, VectorAgrees
  <2>5. DOMAIN v = 1 .. Len(v) /\ got = w
    BY <2>1
  <2> HIDE DEF w, got
  <2> QED
    BY <2>4, <2>5, SamePart
<1>7. ASSUME type = "stat"
      PROVE  /\ QidAgrees(got.qid, v.qid)
             /\ \A f \in {"type", "dev", "mode", "atime", "mtime"} : got[f] = v[f]
             /\ got.length \in Halves(v.length)
  <2>1. IsStat(v) /\ EncodeMember(type, v) = EncodeStat(v) /\ got = DecodeStat(c, old, order).v
    BY <1>7, MemberHolds, EncodeMemberIs, DecodeMemberIs
  <2>2. StatNames \subseteq DOMAIN old
    BY <1>7 DEF Shaped
  <2>3. EncodeStat(v).ok /\ Under(c, EncodeStat(v).bytes)
    BY <2>1
  <2> HIDE DEF got
  <2> QED
    BY <2>1, <2>2, <2>3, StatAgrees
<1> HIDE DEF got
<1>8. MemberAgrees(type, got, v, old)
  BY <1>2, <1>3, <1>4, <1>5, <1>6, <1>7, MemberAgreesIs
<1> QED
  BY <1>8 DEF got

(* What the members hold after a message was decoded into an object of its *)
(* class.                                                                  *)
BodyAgrees(d, m, o) ==
  \A f \in MemberNames(m.kind, m.dir) :
    MemberAgrees(MemberType(m.kind, m.dir, f), d.body[f], m.body[f], o.body[f])

LEMMA MessageAgrees ==
  ASSUME NEW m, Wellformed(m), EncodeMessage(m).ok, NEW o, Object(o), Shape(o),
         o.kind = m.kind, o.dir = m.dir,
         NEW c \in Cursors, Under(c, EncodeMessage(m).bytes), NEW order
  PROVE  BodyAgrees(DecodeMessage(o, c, order).v, m, o)
<1> DEFINE s == Class(m.kind, m.dir).encode
           n == Len(s)
           d == DecodeMessage(o, c, order).v
           parts == MessageParts(m)
<1>1. m.kind \in Kind /\ \A i \in 1 .. Len(parts) : parts[i].ok
  BY EncodeMessageIs
<1>2. /\ Len(parts) = n
      /\ \A i \in 1 .. n : /\ s[i][2] \in MemberTypes /\ HasMemberType(s[i][2], m.body[s[i][1]])
                           /\ parts[i] = EncodeMember(s[i][2], m.body[s[i][1]])
  BY <1>1, MessagePartsType
<1>3. PICK h : MessageRun(h, o, m, c, order)
  BY MessageTiles
<1>4. \A i \in 1 .. n : h[i - 1].c \in Cursors /\ Under(h[i - 1].c, parts[i].bytes)
  BY <1>3 DEF MessageRun
<1>5. BodyRun(h, o, c, order)
  BY <1>3 DEF MessageRun, BodyRun
<1>6. \A i \in 1 .. n : d.body[s[i][1]] = DecodeMember(s[i][2], h[i - 1].c, o.body[s[i][1]], order).v
  BY <1>1, <1>5, BodyValues
<1>7. /\ \A i \in 1 .. n : s[i][1] \in MemberNames(m.kind, m.dir)
                           /\ MemberType(m.kind, m.dir, s[i][1]) = s[i][2]
      /\ \A f \in MemberNames(m.kind, m.dir) : \E i \in 1 .. n : f = s[i][1]
  BY <1>1, MemberNamesIs
<1> HIDE DEF s, n, d, parts
<1>8. ASSUME NEW f \in MemberNames(m.kind, m.dir)
      PROVE  MemberAgrees(MemberType(m.kind, m.dir, f), d.body[f], m.body[f], o.body[f])
  <2>1. PICK i \in 1 .. n : f = s[i][1]
    BY <1>7
  <2> DEFINE type == s[i][2]
             v == m.body[s[i][1]]
             old == o.body[s[i][1]]
             e == h[i - 1].c
  <2>2. /\ type \in MemberTypes /\ HasMemberType(type, v) /\ EncodeMember(type, v).ok
        /\ e \in Cursors /\ Under(e, EncodeMember(type, v).bytes)
        /\ d.body[f] = DecodeMember(type, e, old, order).v
        /\ MemberType(m.kind, m.dir, f) = type
    BY <1>1, <1>2, <1>4, <1>6, <1>7, <2>1
  <2>3. Shaped(type, old)
    BY <1>1, <1>7, <2>1, <2>2 DEF Shape
  <2>4. m.body[f] = v /\ o.body[f] = old
    BY <2>1
  <2> HIDE DEF type, v, old, e
  <2>5. MemberAgrees(type, DecodeMember(type, e, old, order).v, v, old)
    BY <2>2, <2>3, MemberValue
  <2> QED
    BY <2>2, <2>4, <2>5
<1> QED
  BY <1>8 DEF BodyAgrees, d
-----------------------------------------------------------------------------
(* Peeking. *)

(* The byte peek() gives at the end of a stream is no operation. *)
LEMMA NoOperation == convert(Base - 1) = "Undefined"
<1>1. convert(Base - 1) \in Kind \cup {"Undefined"}
      /\ (convert(Base - 1) \in Kind =>
            Base - 1 \in {Code[convert(Base - 1)], Code[convert(Base - 1)] + 1})
  BY ConvertFinds
<1>2. \A k \in Kind : Base - 1 \notin {Code[k], Code[k] + 1}
  <2> TAKE k \in Kind
  <2>1. Code[k] \in 100 .. 126 /\ Code[k] + 1 < Base - 1 /\ Base \in Nat
    BY CodesApart, InteractionAssumption, BaseType
  <2> QED
    BY <2>1
<1> QED
  BY <1>1, <1>2

LEMMA PeekedIs ==
  ASSUME NEW s, Proper(s)
  PROVE  /\ Proper(Peeked(s)) /\ Peeked(Peeked(s)) = Peeked(s)
         /\ PeekResult(Peeked(s)) = PeekResult(s)
         /\ Peeked(s).good => Peeked(s) = s
         /\ Unread(s) = << >> => convert(PeekResult(s)) = "Undefined" /\ PeekResult(s) # Nullopt
         /\ Unread(s) # << >> => /\ s.good /\ Peeked(s) = s /\ Head(Unread(s)) \in Byte
                                 /\ PeekResult(s) \in {Nullopt, Head(Unread(s))}
                                 /\ Head(Unread(s)) # Nullopt
<1>1. Unread(s) \in Seq(Byte) /\ (~s.good => Unread(s) = << >>)
  BY UnreadType
<1>2. CASE Unread(s) = << >>
  <2> DEFINE p == Peeked(s)
  <2>1. p = [s EXCEPT !.good = FALSE]
    BY <1>2 DEF Peeked
  <2>2. Proper(p) /\ ~p.good
    BY <2>1 DEF Proper, Streams
  <2>3. Unread(p) = << >>
    BY <2>2, UnreadType
  <2>4. Peeked(p) = p
    BY <2>1, <2>3 DEF Peeked, Proper, Streams
  <2>5. PeekResult(s) = Base - 1 /\ PeekResult(p) = Base - 1
    BY <1>2, <2>3 DEF PeekResult
  <2>6. Base - 1 # Nullopt
    BY BaseType DEF Nullopt
  <2> QED
    BY <1>2, <2>2, <2>4, <2>5, <2>6, NoOperation
<1>3. CASE Unread(s) # << >>
  <2>1. s.good /\ Peeked(s) = s
    BY <1>1, <1>3 DEF Peeked
  <2>2. Head(Unread(s)) \in Byte
    BY <1>1, <1>3
  <2>3. Head(Unread(s)) # Nullopt
    BY <2>2, BaseType DEF Byte, Nullopt
  <2>4. PeekResult(s) \in {Nullopt, Head(Unread(s))}
    BY <1>3 DEF PeekResult
  <2> QED
    BY <1>3, <2>1, <2>2, <2>3, <2>4
<1> QED
  BY <1>2, <1>3

(* How a decode of a variant ends: the stream is at its end or starts with *)
(* no operation, and nothing was decoded; or a new message of the class    *)
(* that its first byte stands for was decoded.                             *)
Refused(r, s, v, dir) ==
  r = Failed(Peeked(s), v) \/ r = Failed(Peeked(s), UndefinedMessage(dir))

Deduced(r, s, dir, order, junk) ==
  LET op == Head(Unread(s))
  IN  /\ Unread(s) # << >> /\ convert(op) \in Kind
      /\ r = DecodeInto(NewMessage(convert(op), dir), s, order, junk)

LEMMA VariantOutcome ==
  ASSUME NEW s, Proper(s), NEW v, NEW dir, NEW order, NEW junk
  PROVE  LET r == DecodeVariant(dir, s, v, order, junk)
         IN  r = Failed(Peeked(s), v) \/ Deduced(r, s, dir, order, junk)
<1> DEFINE op == PeekResult(s)
           r == DecodeVariant(dir, s, v, order, junk)
<1>1. CASE op = Nullopt \/ convert(op) = "Undefined"
  BY <1>1 DEF DecodeVariant
<1>2. CASE ~(op = Nullopt \/ convert(op) = "Undefined")
  <2>1. r = DecodeInto(NewMessage(convert(op), dir), Peeked(s), order, junk)
    BY <1>2 DEF DecodeVariant
  <2>2. Unread(s) # << >>
    BY <1>2, PeekedIs
  <2>3. Peeked(s) = s /\ op = Head(Unread(s))
    BY <1>2, <2>2, PeekedIs
  <2>4. convert(op) \in Kind
    BY <1>2, ConvertFinds
  <2> HIDE DEF op, r
  <2>5. Deduced(r, s, dir, order, junk)
    BY <2>1, <2>2, <2>3, <2>4 DEF Deduced
  <2> QED
    BY <2>5 DEF r
<1> QED
  BY <1>1, <1>2

LEMMA EitherOutcome ==
  ASSUME NEW s, Proper(s), NEW v, NEW order, NEW junk
  PROVE  LET r == DecodeEither(s, v, order, junk)
         IN  \E dir \in {"Request", "Response"} :
               \/ Refused(r, s, v, dir)
               \/ Deduced(r, s, dir, order, junk) /\ (dir = "Request" <=> isRequest(Head(Unread(s))))
<1> DEFINE op  == PeekResult(s)
           dir == IF isRequest(op) THEN "Request" ELSE "Response"
           r == DecodeEither(s, v, order, junk)
           u == UndefinedMessage(dir)
<1>1. dir \in {"Request", "Response"} /\ (dir = "Request" <=> isRequest(op))
  OBVIOUS
<1>2. CASE op = Nullopt
  <2>1. r = Failed(Peeked(s), v)
    BY <1>2 DEF DecodeEither
  <2>2. Refused(r, s, v, dir)
    BY <2>1 DEF Refused
  <2> QED
    BY <1>1, <2>2
<1>3. CASE op # Nullopt
  <2>1. r = DecodeVariant(dir, Peeked(s), u, order, junk)
    BY <1>3 DEF DecodeEither
  <2>2. Proper(Peeked(s)) /\ Peeked(Peeked(s)) = Peeked(s)
    BY PeekedIs
  <2> HIDE DEF dir, r, u
  <2>3. r = Failed(Peeked(Peeked(s)), u) \/ Deduced(r, Peeked(s), dir, order, junk)
    BY <2>1, <2>2, VariantOutcome
  <2>4. CASE r = Failed(Peeked(Peeked(s)), u)
    <3>1. Refused(r, s, v, dir)
      BY <2>2, <2>4 DEF Refused, u
    <3> QED
      BY <1>1, <3>1 DEF r
  <2>5. CASE Deduced(r, Peeked(s), dir, order, junk)
    <3>1. Unread(Peeked(s)) # << >>
      BY <2>5 DEF Deduced
    <3>2. Unread(s) # << >>
      <4>1. Peeked(s).good
        BY <2>2, <3>1, PeekedIs
      <4>2. Peeked(s) = s
        BY <4>1, PeekedIs
      <4> QED
        BY <3>1, <4>2
    <3>3. Peeked(s) = s /\ op = Head(Unread(s))
      BY <1>3, <3>2, PeekedIs
    <3>4. Deduced(r, s, dir, order, junk) /\ (dir = "Request" <=> isRequest(Head(Unread(s))))
      BY <1>1, <2>5, <3>3
    <3> QED
      BY <1>1, <3>4 DEF r
  <2> QED
    BY <2>3, <2>4, <2>5
<1> QED
  BY <1>2, <1>3
-----------------------------------------------------------------------------
(* decode() of an alternative. *)

Leaves(r, o, s) ==
  /\ r.ok = TRUE /\ r.into = o
  /\ Proper(r.stream) /\ (r.stream.good => s.good)
  /\ Object(r.thing) /\ Shape(r.thing) /\ r.thing.kind = o.kind /\ r.thing.dir = o.dir
  /\ Unread(s) # << >> => r.thing.body["op"] = Head(Unread(s))

LEMMA IntoIs ==
  ASSUME NEW o, Object(o), Shape(o), o.kind \in Kind, NEW s, Proper(s), NEW order, NEW junk \in Junk
  PROVE  Leaves(DecodeInto(o, s, order, junk), o, s)
<1> DEFINE c == Cursor(s, junk)
           d == DecodeMessage(o, c, order)
           n == Taken(d.c)
           r == DecodeInto(o, s, order, junk)
<1>1. junk \in Seq(Byte) \ {<< >>}
  BY InteractionAssumption
<1>2. c \in Cursors /\ c.at = 1 /\ c.bytes = Unread(s)
  BY <1>1, CursorUnder DEF Cursor
<1>3. r.stream = Take(s, n) /\ r.thing = d.v /\ r.into = o /\ r.ok = TRUE
  BY DEF DecodeInto
<1> HIDE DEF c, r
<1>4. d.c \in Cursors
  BY <1>2, MessageCursor
<1>5. n \in Nat
  BY <1>4 DEF Cursors, Taken
<1>6. Object(d.v) /\ d.v.kind = o.kind /\ d.v.dir = o.dir /\ d.v.body["op"] = ByteAt(c, 0)
  BY <1>2, DecodedObject
<1>7. Shape(d.v)
  BY <1>2, DecodedShape
<1> HIDE DEF d, n
<1>8. Proper(Take(s, n)) /\ (Take(s, n).good => s.good)
  BY <1>5, TakeType
<1>9. ASSUME Unread(s) # << >> PROVE ByteAt(c, 0) = Head(Unread(s))
  <2>1. Unread(s) \in Seq(Byte)
    BY UnreadType
  <2>2. 1 + 0 = 1 /\ 1 <= Len(Unread(s)) /\ Head(Unread(s)) = Unread(s)[1]
    BY <1>9, <2>1
  <2> QED
    BY <1>2, <2>2 DEF ByteAt
<1> QED
  BY <1>3, <1>6, <1>7, <1>8, <1>9 DEF Leaves, r

Receives(r, m, o, rest) == Unread(r.stream) = rest /\ BodyAgrees(r.thing, m, o)

(* When the unread bytes start with a message of the class of the object,  *)
(* that message is what decode() takes and what the object then holds.     *)
LEMMA IntoTakes ==
  ASSUME NEW m \in Sendable, NEW o, Object(o), Shape(o), o.kind = m.kind, o.dir = m.dir,
         NEW s, Proper(s), s.good, NEW rest \in Seq(Byte), Unread(s) = EncodeMessage(m).bytes \o rest,
         NEW order, NEW junk \in Junk
  PROVE  Receives(DecodeInto(o, s, order, junk), m, o, rest)
<1> DEFINE c == Cursor(s, junk)
           d == DecodeMessage(o, c, order)
           n == Taken(d.c)
           b == EncodeMessage(m).bytes
           r == DecodeInto(o, s, order, junk)
<1>1. junk \in Seq(Byte) \ {<< >>}
  BY InteractionAssumption
<1>2. Wellformed(m) /\ EncodeMessage(m).ok /\ b \in Seq(Byte)
  BY SendableIs
<1>3. c \in Cursors /\ c.at = 1 /\ Under(c, b)
  BY <1>1, <1>2, CursorUnder
<1>4. r.stream = Take(s, n) /\ r.thing = d.v
  BY DEF DecodeInto
<1> HIDE DEF c, r
<1>5. d.c = Skip(c, Len(b))
  BY <1>2, <1>3, DecodeTakesMessage
<1>6. BodyAgrees(d.v, m, o)
  BY <1>2, <1>3, MessageAgrees
<1>7. Len(b) \in Nat
  BY <1>2
<1> HIDE DEF b
<1>8. n = Len(b)
  <2>1. Skip(c, Len(b)).at = c.at + Len(b)
    BY <1>3, <1>7, SkipType
  <2> QED
    BY <1>3, <1>5, <1>7, <2>1 DEF Taken
<1> HIDE DEF n, d
<1>9. Unread(Take(s, n)) = rest
  <2>1. SubSeq(b \o rest, Len(b) + 1, Len(b \o rest)) = rest /\ Len(b) \in 0 .. Len(b \o rest)
    BY <1>2, RestOfConcat
  <2>2. Unread(s) = b \o rest
    BY DEF b
  <2>3. n <= Len(Unread(s))
    BY <1>8, <2>1, <2>2
  <2>4. n \in Nat
    BY <1>7, <1>8
  <2>5. Unread(Take(s, n)) = SubSeq(Unread(s), n + 1, Len(Unread(s)))
    BY <2>3, <2>4, TakeType
  <2> QED
    BY <1>8, <2>1, <2>2, <2>5
<1> QED
  BY <1>4, <1>6, <1>9 DEF Receives, r

-----------------------------------------------------------------------------
(* The actions. *)

LEMMA NoDecode ==
  ASSUME result.call \notin {"interaction", "variant", "again"}
  PROVE  FixedPartsSurvive /\ DirectionAgrees
BY DEF FixedPartsSurvive, DirectionAgrees

LEMMA NoDecodeNext ==
  ASSUME result'.call \notin {"interaction", "variant", "again"} \/ result'.ok = FALSE
  PROVE  FixedPartsSurvive' /\ DirectionAgrees'
BY DEF FixedPartsSurvive, DirectionAgrees

LEMMA CoreNext ==
  ASSUME Proper(stream'), Object(thing'), Shape(thing'), pending' \in Seq(Sendable), damaged' \in BOOLEAN,
         stream'.good /\ ~damaged' => Unread(stream') = FlattenSeq(Row(pending'))
  PROVE  Core'
BY TileNext DEF Core

LEMMA InitIInv == Init => IInv
<1> SUFFICES ASSUME Init PROVE IInv
  OBVIOUS
<1>1. stream = [buf |-> << >>, g |-> 0, p |-> 0, good |-> TRUE]
  BY DEF Init, Fresh
<1>2. Proper(stream)
  BY <1>1 DEF Proper, Streams
<1>3. thing = UndefinedMessage("Response") /\ pending = << >> /\ damaged = FALSE /\ result.call = "none"
  BY DEF Init
<1>4. Object(thing) /\ Shape(thing)
  BY <1>3, UndefinedObject
<1>5. Unread(stream) = << >>
  BY <1>1, SubSeqEmpty DEF Unread
<1>6. FlattenSeq(Row(<< >>)) = << >>
  <2>1. Row(<< >>) = << >>
    BY DEF Row
  <2> QED
    BY <2>1, FlattenEmpty
<1>7. pending \in Seq(Sendable) /\ damaged \in BOOLEAN
  <2>1. << >> \in Seq(Sendable)
    OBVIOUS
  <2> QED
    BY <1>3, <2>1
<1>8. Core
  BY <1>2, <1>3, <1>4, <1>5, <1>6, <1>7, TileIs DEF Core
<1> QED
  BY <1>3, <1>8, NoDecode DEF IInv

(* An encode that ends well adds a message; one that throws after it has   *)
(* put bytes, or puts them over others, does damage.                       *)
LEMMA EncodeIInv ==
  ASSUME IInv, NEW m \in Messages, Encode(m)
  PROVE  IInv'
<1> DEFINE e == EncodeMessage(m)
           b == e.bytes
<1>1. Wellformed(m)
  BY InteractionAssumption
<1>2. e \in Encodings
  BY <1>1, EncodeMessageIs
<1>3. b \in Seq(Byte) /\ e.ok \in BOOLEAN
  BY <1>2, EncodingIs
<1>4. e.ok => m \in Sendable
  BY DEF Sendable
<1>5. /\ stream' = Put(stream, b) /\ thing' = thing /\ result'.call = "encode"
      /\ pending' = IF e.ok /\ stream.good THEN Append(pending, m) ELSE pending
      /\ damaged' = (damaged \/ (stream.good /\ b # << >>
                                 /\ (~e.ok \/ stream.p < Len(stream.buf))))
  BY DEF Encode
<1>6. /\ Proper(stream) /\ Object(thing) /\ Shape(thing) /\ pending \in Seq(Sendable)
      /\ damaged \in BOOLEAN
      /\ (stream.good /\ ~damaged => Unread(stream) = FlattenSeq(Row(pending)))
  BY TileIs DEF IInv, Core
<1> HIDE DEF e, b
<1>7. Proper(stream') /\ stream'.good = stream.good
  BY <1>3, <1>5, <1>6, PutType
<1>8. pending' \in Seq(Sendable)
  BY <1>4, <1>5, <1>6, AppendProperties
<1>9. damaged' \in BOOLEAN
  BY <1>5
<1>10. ASSUME stream'.good, ~damaged' PROVE Unread(stream') = FlattenSeq(Row(pending'))
  <2>1. stream.good /\ ~damaged /\ (b # << >> => e.ok /\ ~(stream.p < Len(stream.buf)))
    BY <1>5, <1>7, <1>10
  <2>2. Unread(stream') = Unread(stream) \o b
    BY <1>3, <1>5, <1>6, <2>1, PutAtEnd
  <2>3. CASE e.ok
    <3>1. m \in Sendable /\ pending' = Append(pending, m)
      BY <1>4, <1>5, <2>1, <2>3
    <3>2. FlattenSeq(Row(Append(pending, m))) = FlattenSeq(Row(pending)) \o b
      BY <1>6, <3>1, RowAppend DEF b, e
    <3> QED
      BY <1>6, <2>1, <2>2, <3>1, <3>2
  <2>4. CASE ~e.ok
    <3>1. b = << >> /\ pending' = pending
      BY <1>5, <2>1, <2>4
    <3>2. Unread(stream) \o << >> = Unread(stream)
      BY <1>6, UnreadType, ConcatEmptySeq
    <3> QED
      BY <1>6, <2>1, <2>2, <3>1, <3>2
  <2> QED
    BY <2>3, <2>4
<1>11. Core'
  BY <1>5, <1>6, <1>7, <1>8, <1>9, <1>10, CoreNext
<1>12. FixedPartsSurvive' /\ DirectionAgrees'
  BY <1>5, NoDecodeNext
<1> QED
  BY <1>11, <1>12 DEF IInv
(* A decode that throws before it takes a byte. *)
LEMMA FailureIInv ==
  ASSUME IInv, NEW call, NEW s, s = stream \/ s = Peeked(stream),
         NEW v, Object(v), Shape(v), Decoded(call, Failed(s, v))
  PROVE  IInv'
<1>1. /\ Proper(stream) /\ pending \in Seq(Sendable) /\ damaged \in BOOLEAN
      /\ (stream.good /\ ~damaged => Unread(stream) = FlattenSeq(Row(pending)))
  BY TileIs DEF IInv, Core
<1>2. /\ stream' = s /\ thing' = v /\ result'.ok = FALSE /\ pending' = pending
      /\ damaged' = damaged
  BY <1>1 DEF Decoded, Failed
<1>3. Proper(stream') /\ (stream'.good => stream' = stream)
  BY <1>1, <1>2, PeekedIs
<1>4. Core'
  BY <1>1, <1>2, <1>3, CoreNext
<1> QED
  BY <1>2, <1>4, NoDecodeNext DEF IInv

(* A decode that takes a message.  When the messages on the stream are     *)
(* known, the object is of the class of the first of them: if it also has  *)
(* the direction of that message, it takes just that message.              *)
LEMMA SuccessIInv ==
  ASSUME IInv, NEW call, NEW o, Object(o), Shape(o), o.kind \in Kind, NEW order, NEW junk \in Junk,
         Decoded(call, DecodeInto(o, stream, order, junk)),
         stream.good /\ ~damaged => pending # << >> /\ o.kind = Head(pending).kind
  PROVE  Core' /\ FixedPartsSurvive'
<1> DEFINE r == DecodeInto(o, stream, order, junk)
           m == Head(pending)
           rest == FlattenSeq(Row(Tail(pending)))
<1>1. /\ Proper(stream) /\ pending \in Seq(Sendable) /\ damaged \in BOOLEAN
      /\ (stream.good /\ ~damaged => Unread(stream) = FlattenSeq(Row(pending)))
  BY TileIs DEF IInv, Core
<1>2. /\ r.ok = TRUE /\ r.into = o
      /\ Proper(r.stream) /\ (r.stream.good => stream.good)
      /\ Object(r.thing) /\ Shape(r.thing) /\ r.thing.kind = o.kind /\ r.thing.dir = o.dir
  <2>1. Leaves(r, o, stream)
    BY <1>1, IntoIs, Zenon
  <2> HIDE DEF r
  <2> QED
    BY <2>1 DEF Leaves
<1>3. /\ stream' = r.stream /\ thing' = r.thing
      /\ result' = [call |-> call, ok |-> r.ok, into |-> r.into,
                    sent |-> IF Known THEN m ELSE UndefinedMessage("Request")]
      /\ pending' = IF r.ok /\ pending # << >> THEN Tail(pending) ELSE pending
      /\ damaged' = (damaged \/ (r.ok /\ Known /\ r.thing.dir # m.dir))
  BY DEF Decoded
<1>4. Known <=> ~damaged /\ stream.good /\ pending # << >>
  BY DEF Known
<1>5. ASSUME Known, o.dir = m.dir
      PROVE  /\ Unread(r.stream) = rest /\ BodyAgrees(r.thing, m, o)
             /\ o.kind = m.kind
  <2>1. pending # << >> /\ stream.good /\ ~damaged /\ o.kind = m.kind
    BY <1>4, <1>5
  <2>2. m \in Sendable /\ Tail(pending) \in Seq(Sendable)
        /\ FlattenSeq(Row(pending)) = EncodeMessage(m).bytes \o rest
    BY <1>1, <2>1, RowHead
  <2>3. rest \in Seq(Byte)
    BY <2>2, RowType
  <2>4. Unread(stream) = EncodeMessage(m).bytes \o rest
    BY <1>1, <2>1, <2>2
  <2> HIDE DEF m, rest
  <2>5. Receives(r, m, o, rest)
    BY <1>1, <1>5, <2>1, <2>2, <2>3, <2>4, IntoTakes, Zenon
  <2> HIDE DEF r
  <2> QED
    BY <2>1, <2>5 DEF Receives
<1> HIDE DEF r
<1>6. pending' \in Seq(Sendable) /\ (pending # << >> => pending' = Tail(pending))
  BY <1>1, <1>2, <1>3, RowHead
<1>7. damaged' \in BOOLEAN
  BY <1>3
<1>8. ASSUME stream'.good, ~damaged' PROVE Unread(stream') = FlattenSeq(Row(pending'))
  <2>1. stream.good /\ ~damaged
    BY <1>2, <1>3, <1>8
  <2>2. pending # << >>
    BY <2>1
  <2>3. Known
    BY <1>4, <2>1, <2>2
  <2>4. o.dir = m.dir
    BY <1>2, <1>3, <1>8, <2>3
  <2> QED
    BY <1>3, <1>5, <1>6, <2>2, <2>3, <2>4
<1>9. Core'
  BY <1>2, <1>3, <1>6, <1>7, <1>8, CoreNext
<1>10. FixedPartsSurvive'
  <2> SUFFICES ASSUME result'.sent.kind # "Undefined", thing'.dir = result'.sent.dir
               PROVE  /\ thing'.kind = result'.sent.kind
                      /\ \A f \in MemberNames(thing'.kind, thing'.dir) :
                           MemberAgrees(MemberType(thing'.kind, thing'.dir, f),
                                        thing'.body[f], result'.sent.body[f], result'.into.body[f])
    BY DEF FixedPartsSurvive
  <2>1. result'.sent = (IF Known THEN m ELSE UndefinedMessage("Request")) /\ result'.into = o
    BY <1>2, <1>3
  <2>2. Known
    <3>1. UndefinedMessage("Request").kind = "Undefined"
      BY DEF UndefinedMessage
    <3> QED
      BY <2>1, <3>1
  <2>3. result'.sent = m
    BY <2>1, <2>2
  <2>4. thing' = r.thing /\ o.dir = m.dir
    BY <1>2, <1>3, <2>3
  <2>5. o.kind = m.kind /\ BodyAgrees(thing', m, o)
    BY <1>5, <2>2, <2>4
  <2>6. thing'.kind = m.kind /\ thing'.dir = m.dir
    BY <1>2, <2>4, <2>5
  <2> HIDE DEF m
  <2> QED
    BY <2>1, <2>3, <2>5, <2>6 DEF BodyAgrees
<1> QED
  BY <1>9, <1>10

(* The first byte names the class of the first pending message. *)
LEMMA FirstByte ==
  ASSUME IInv, stream.good, ~damaged, Unread(stream) # << >>
  PROVE  pending # << >> /\ convert(Head(Unread(stream))) = Head(pending).kind
<1>1. Proper(stream) /\ pending \in Seq(Sendable) /\ Unread(stream) = FlattenSeq(Row(pending))
  BY TileIs DEF IInv, Core
<1>2. pending # << >>
  <2>1. ASSUME pending = << >> PROVE FALSE
    <3>1. Row(<< >>) = << >>
      BY DEF Row
    <3> QED
      BY <1>1, <2>1, <3>1, FlattenEmpty
  <2> QED
    BY <2>1
<1> DEFINE m == Head(pending)
           b == EncodeMessage(m).bytes
           rest == FlattenSeq(Row(Tail(pending)))
<1>3. m \in Sendable /\ Tail(pending) \in Seq(Sendable) /\ Unread(stream) = b \o rest
  BY <1>1, <1>2, RowHead
<1>4. /\ m.kind \in Kind /\ b \in Seq(Byte) /\ Len(b) >= 1 /\ b[1] = translateConcept(m.kind, m.dir)
      /\ rest \in Seq(Byte)
  BY <1>3, SendableIs, RowType
<1> HIDE DEF m, b, rest
<1>5. Head(Unread(stream)) = b[1]
  <2>1. /\ b \o rest \in Seq(Byte) /\ Len(b) \in Nat /\ Len(rest) \in Nat /\ Len(b \o rest) = Len(b) + Len(rest)
        /\ \A i \in 1 .. Len(b) + Len(rest) : (b \o rest)[i] = IF i <= Len(b) THEN b[i] ELSE rest[i - Len(b)]
    BY <1>4, ConcatProperties
  <2>2. (b \o rest)[1] = b[1]
    BY <1>4, <2>1
  <2> QED
    BY <1>3, <2>1, <2>2
<1>6. translateConcept(m.kind, m.dir) \in {Code[m.kind], Code[m.kind] + 1}
  BY <1>4 DEF translateConcept, getTMessageForm, getRMessageForm
<1>7. convert(b[1]) = m.kind
  BY <1>4, <1>6, ConvertFinds
<1> QED
  BY <1>2, <1>5, <1>7 DEF m
LEMMA RefusedIInv ==
  ASSUME IInv, NEW call, NEW dir \in {"Request", "Response"}, NEW r,
         Decoded(call, r), Refused(r, stream, thing, dir)
  PROVE  IInv'
<1>1. Object(thing) /\ Shape(thing)
  BY DEF IInv, Core
<1>2. Object(UndefinedMessage(dir)) /\ Shape(UndefinedMessage(dir))
  BY UndefinedObject
<1>3. CASE r = Failed(Peeked(stream), thing)
  BY <1>1, <1>3, FailureIInv
<1>4. CASE r = Failed(Peeked(stream), UndefinedMessage(dir))
  BY <1>2, <1>4, FailureIInv
<1> QED
  BY <1>3, <1>4 DEF Refused

LEMMA DeducedIInv ==
  ASSUME IInv, NEW call, NEW dir \in {"Request", "Response"}, NEW order, NEW junk \in Junk, NEW r,
         Decoded(call, r), Deduced(r, stream, dir, order, junk)
  PROVE  /\ Core' /\ FixedPartsSurvive' /\ result'.call = call
         /\ thing'.dir = dir /\ thing'.kind = convert(Head(Unread(stream)))
         /\ thing'.body["op"] = Head(Unread(stream))
<1> DEFINE k == convert(Head(Unread(stream)))
           o == NewMessage(k, dir)
<1>1. Unread(stream) # << >> /\ k \in Kind /\ r = DecodeInto(o, stream, order, junk)
  BY DEF Deduced
<1>2. Object(o) /\ Shape(o) /\ o.kind = k /\ o.dir = dir
  BY <1>1, NewObject
<1>3. Proper(stream)
  BY DEF IInv, Core
<1>4. ASSUME stream.good, ~damaged PROVE pending # << >> /\ k = Head(pending).kind
  BY <1>1, <1>4, FirstByte
<1> HIDE DEF k, o
<1>5. o.kind \in Kind /\ Decoded(call, DecodeInto(o, stream, order, junk))
  BY <1>1, <1>2
<1>6. stream.good /\ ~damaged => pending # << >> /\ o.kind = Head(pending).kind
  BY <1>2, <1>4
<1>7. Core' /\ FixedPartsSurvive'
  BY <1>2, <1>5, <1>6, SuccessIInv
<1>8. Leaves(r, o, stream)
  BY <1>1, <1>2, <1>3, <1>5, IntoIs, Zenon
<1>9. thing' = r.thing /\ result'.call = call
  BY DEF Decoded
<1> QED
  BY <1>1, <1>2, <1>7, <1>8, <1>9 DEF Leaves, k

(* The operation, the class and the direction that one byte stands for. *)
LEMMA OperationAgrees ==
  ASSUME NEW op, convert(op) \in Kind, NEW dir \in {"Request", "Response"},
         dir = "Request" <=> isRequest(op)
  PROVE  /\ op = translateConcept(convert(op), dir)
         /\ expectedResponseKind(op) =
              IF dir = "Request" THEN translateConcept(convert(op), "Response") ELSE RBad
<1> DEFINE k == convert(op)
<1>1. op \in {Code[k], Code[k] + 1}
  BY ConvertFinds
<1>2. Code[k] % 2 = 0 /\ (Code[k] + 1) % 2 = 1
  BY CodesApart
<1>3. /\ translateConcept(k, "Request") = Code[k]
      /\ translateConcept(k, "Response") = Code[k] + 1
  BY DEF translateConcept, getTMessageForm, getRMessageForm
<1> HIDE DEF k
<1>4. CASE dir = "Request"
  <2>1. isRequest(op)
    BY <1>4
  <2>2. op = Code[k]
    BY <1>1, <1>2, <2>1 DEF isRequest
  <2>3. k \in Kind
    BY DEF k
  <2>4. expectedResponseKind(op) = op + 1
    BY <2>1, <2>2, <2>3 DEF expectedResponseKind
  <2> QED
    BY <1>3, <1>4, <2>2, <2>4 DEF k
<1>5. CASE dir = "Response"
  <2>1. ~isRequest(op)
    BY <1>5
  <2>2. op = Code[k] + 1
    BY <1>1, <1>2, <2>1 DEF isRequest
  <2>3. expectedResponseKind(op) = RBad
    BY <2>1 DEF expectedResponseKind
  <2> QED
    BY <1>3, <1>5, <2>2, <2>3 DEF k
<1> QED
  BY <1>4, <1>5

LEMMA DecodeInteractionIInv ==
  ASSUME IInv, NEW order, NEW junk \in Junk, DecodeInteraction(order, junk)
  PROVE  IInv'
<1> DEFINE r == DecodeEither(stream, thing, order, junk)
<1>1. Decoded("interaction", r)
  BY DEF DecodeInteraction
<1>2. Proper(stream)
  BY DEF IInv, Core
<1>3. PICK dir \in {"Request", "Response"} :
        \/ Refused(r, stream, thing, dir)
        \/ /\ Deduced(r, stream, dir, order, junk)
           /\ (dir = "Request" <=> isRequest(Head(Unread(stream))))
  BY <1>2, EitherOutcome
<1> HIDE DEF r
<1>4. CASE Refused(r, stream, thing, dir)
  BY <1>1, <1>4, RefusedIInv
<1>5. CASE Deduced(r, stream, dir, order, junk) /\ (dir = "Request" <=> isRequest(Head(Unread(stream))))
  <2> DEFINE op == Head(Unread(stream))
  <2>1. /\ Core' /\ FixedPartsSurvive' /\ thing'.dir = dir /\ thing'.kind = convert(op)
        /\ thing'.body["op"] = op
    BY <1>1, <1>5, DeducedIInv
  <2>2. convert(op) \in Kind
    BY <1>5 DEF Deduced
  <2> HIDE DEF op
  <2>3. dir = "Request" <=> isRequest(op)
    BY <1>5 DEF op
  <2>4. /\ op = translateConcept(convert(op), dir)
        /\ expectedResponseKind(op) =
             IF dir = "Request" THEN translateConcept(convert(op), "Response") ELSE RBad
    BY <2>2, <2>3, OperationAgrees
  <2>5. DirectionAgrees'
    BY <2>1, <2>4 DEF DirectionAgrees
  <2> QED
    BY <2>1, <2>5 DEF IInv
<1> QED
  BY <1>3, <1>4, <1>5

LEMMA DecodeHeldIInv ==
  ASSUME IInv, NEW order, NEW junk \in Junk, DecodeHeld(order, junk)
  PROVE  IInv'
<1> DEFINE r == DecodeVariant(thing.dir, stream, thing, order, junk)
<1>1. Decoded("variant", r)
  BY DEF DecodeHeld
<1>2. Proper(stream) /\ thing.dir \in {"Request", "Response"}
  BY DEF IInv, Core, Object
<1>3. r = Failed(Peeked(stream), thing) \/ Deduced(r, stream, thing.dir, order, junk)
  BY <1>2, VariantOutcome
<1> HIDE DEF r
<1>4. CASE r = Failed(Peeked(stream), thing)
  <2>1. Refused(r, stream, thing, thing.dir)
    BY <1>4 DEF Refused
  <2> QED
    BY <1>1, <1>2, <2>1, RefusedIInv
<1>5. CASE Deduced(r, stream, thing.dir, order, junk)
  <2>1. Core' /\ FixedPartsSurvive' /\ result'.call = "variant"
    BY <1>1, <1>2, <1>5, DeducedIInv
  <2>2. DirectionAgrees'
    BY <2>1 DEF DirectionAgrees
  <2> QED
    BY <2>1, <2>2 DEF IInv
<1> QED
  BY <1>3, <1>4, <1>5

LEMMA DecodeAgainIInv ==
  ASSUME IInv, NEW order, NEW junk \in Junk, DecodeAgain(order, junk)
  PROVE  IInv'
<1>1. Object(thing) /\ Shape(thing) /\ pending \in Seq(Sendable)
  BY DEF IInv, Core
<1>2. /\ pending # << >> /\ thing.kind \in {"Undefined", Head(pending).kind}
      /\ Decoded("again", IF thing.kind = "Undefined" THEN Failed(stream, thing)
                          ELSE DecodeInto(thing, stream, order, junk))
  BY DEF DecodeAgain, Known
<1>3. CASE thing.kind = "Undefined"
  <2>1. Decoded("again", Failed(stream, thing))
    BY <1>2, <1>3
  <2> QED
    BY <1>1, <2>1, FailureIInv
<1>4. CASE thing.kind # "Undefined"
  <2>1. Decoded("again", DecodeInto(thing, stream, order, junk)) /\ thing.kind = Head(pending).kind
    BY <1>2, <1>4
  <2>2. Head(pending) \in Sendable
    BY <1>1, <1>2, RowHead
  <2>3. thing.kind \in Kind
    BY <2>1, <2>2, SendableIs
  <2>4. stream.good /\ ~damaged => pending # << >> /\ thing.kind = Head(pending).kind
    BY <1>2, <2>1
  <2>5. Core' /\ FixedPartsSurvive'
    BY <1>1, <2>1, <2>3, <2>4, SuccessIInv
  <2>6. DirectionAgrees'
    BY <2>1 DEF Decoded, DirectionAgrees
  <2> QED
    BY <2>5, <2>6 DEF IInv
<1> QED
  BY <1>3, <1>4
LEMMA LoadIs ==
  ASSUME NEW s, Proper(s), NEW b \in Seq(Byte)
  PROVE  Proper(Load(s, b)) /\ (Load(s, b).good => Unread(Load(s, b)) = b)
<1> DEFINE l == Load(s, b)
<1>1. l \in Streams /\ l.g = 0 /\ l.p = 0 /\ l.buf = b
  BY DEF Load, Proper, Streams
<1>2. Proper(l)
  BY <1>1 DEF Proper
<1>3. 0 + 1 = 1 /\ SubSeq(b, 1, Len(b)) = b
  BY SubSeqFull
<1> QED
  BY <1>1, <1>2, <1>3 DEF Unread

(* A whole arrival is one message; a part of one is damage. *)
LEMMA StrIInv ==
  ASSUME IInv, NEW m \in Arrivals, NEW n \in 1 .. Len(Arriving[m]), Str(m, n)
  PROVE  IInv'
<1> DEFINE b == Arriving[m]
<1>1. Arriving[m] = EncodeMessage(m).bytes
  BY DEF Arriving
<1>2. m \in Sendable
  BY InteractionAssumption DEF Sendable
<1>3. b \in Seq(Byte) /\ Len(b) \in Nat
  BY <1>1, <1>2, SendableIs
<1>4. /\ stream' = Load(stream, SubSeq(b, 1, n)) /\ thing' = thing /\ result'.call = "str"
      /\ pending' = IF n = Len(b) THEN <<m>> ELSE << >>
      /\ damaged' = (n < Len(b))
  BY DEF Str
<1>5. Proper(stream) /\ Object(thing) /\ Shape(thing)
  BY DEF IInv, Core
<1> HIDE DEF b
<1>6. SubSeq(b, 1, n) \in Seq(Byte)
  BY <1>3, FrontType DEF b
<1>7. Proper(stream') /\ (stream'.good => Unread(stream') = SubSeq(b, 1, n))
  BY <1>4, <1>5, <1>6, LoadIs
<1>8. pending' \in Seq(Sendable) /\ damaged' \in BOOLEAN
  <2>1. << >> \in Seq(Sendable) /\ <<m>> \in Seq(Sendable)
    BY <1>2
  <2> QED
    BY <1>4, <2>1
<1>9. ASSUME stream'.good, ~damaged' PROVE Unread(stream') = FlattenSeq(Row(pending'))
  <2>1. n = Len(b)
    <3>1. ~(n < Len(b))
      BY <1>4, <1>9, Zenon
    <3>2. n \in 1 .. Len(b)
      BY DEF b
    <3> QED
      BY <1>3, <3>1, <3>2
  <2>2. SubSeq(b, 1, n) = b
    BY <1>3, <2>1, SubSeqFull
  <2>3. pending' = <<m>> /\ Row(<<m>>) = <<b>>
    BY <1>1, <1>4, <2>1 DEF Row, b
  <2>4. FlattenSeq(<<b>>) = b
    BY <1>3, FlattenOne
  <2> QED
    BY <1>7, <1>9, <2>2, <2>3, <2>4
<1>10. Core'
  BY <1>4, <1>5, <1>7, <1>8, <1>9, CoreNext
<1> QED
  BY <1>4, <1>10, NoDecodeNext DEF IInv

LEMMA ResetIInv ==
  ASSUME IInv, Reset
  PROVE  IInv'
<1>1. /\ stream' = Load(stream, << >>) /\ thing' = thing /\ result'.call = "reset"
      /\ pending' = << >> /\ damaged' = FALSE
  BY DEF Reset
<1>2. Proper(stream) /\ Object(thing) /\ Shape(thing)
  BY DEF IInv, Core
<1>3. << >> \in Seq(Byte) /\ << >> \in Seq(Sendable)
  OBVIOUS
<1>4. Proper(stream') /\ (stream'.good => Unread(stream') = << >>)
  BY <1>1, <1>2, <1>3, LoadIs
<1>5. Row(<< >>) = << >>
  BY DEF Row
<1>6. damaged' \in BOOLEAN
  BY <1>1
<1>7. Core'
  BY <1>1, <1>2, <1>3, <1>4, <1>5, <1>6, FlattenEmpty, CoreNext
<1> QED
  BY <1>1, <1>7, NoDecodeNext DEF IInv

LEMMA NextIInv == IInv /\ [Next]_vars => IInv'
<1> SUFFICES ASSUME IInv, [Next]_vars PROVE IInv'
  OBVIOUS
<1>1. ASSUME NEW m \in Messages, Encode(m) PROVE IInv'
  BY <1>1, EncodeIInv
<1>2. ASSUME NEW order \in EvalOrders, NEW junk \in Junk,
             DecodeInteraction(order, junk) \/ DecodeHeld(order, junk) \/ DecodeAgain(order, junk)
      PROVE  IInv'
  BY <1>2, DecodeInteractionIInv, DecodeHeldIInv, DecodeAgainIInv
<1>3. ASSUME NEW m \in Arrivals, NEW n \in 1 .. Len(Arriving[m]), Str(m, n) PROVE IInv'
  BY <1>3, StrIInv
<1>4. CASE Reset
  BY <1>4, ResetIInv
<1>5. CASE UNCHANGED vars
  <2>1. stream' = stream /\ thing' = thing /\ result' = result /\ pending' = pending /\ damaged' = damaged
    BY <1>5 DEF vars
  <2>2. Core'
    BY <2>1, CoreNext, TileIs DEF IInv, Core
  <2>3. FixedPartsSurvive' /\ DirectionAgrees'
    BY <2>1 DEF IInv, FixedPartsSurvive, DirectionAgrees
  <2> QED
    BY <2>2, <2>3 DEF IInv
<1> QED
  BY <1>1, <1>2, <1>3, <1>4, <1>5 DEF Next

-----------------------------------------------------------------------------
(* The inductive invariant holds in every reachable state. *)
THEOREM Invariant == Spec => []IInv
<1>1. Init => IInv
  BY InitIInv
<1>2. IInv /\ [Next]_vars => IInv'
  BY NextIInv
<1> QED
  BY <1>1, <1>2, PTL DEF Spec

(* The positions of the stream stay inside its buffer and the variable     *)
(* holds an object of a class, with the members of that class, whatever    *)
(* was decoded into it.                                                    *)
THEOREM TypeCorrect == Spec => []TypeOK
<1>1. IInv => TypeOK
  <2> SUFFICES ASSUME IInv PROVE TypeOK
    OBVIOUS
  <2>1. Proper(stream) /\ Object(thing) /\ pending \in Seq(Sendable) /\ damaged \in BOOLEAN
    BY DEF IInv, Core
  <2>2. /\ stream.buf \in Seq(Byte) /\ stream.good \in BOOLEAN
        /\ stream.g \in 0 .. Len(stream.buf) /\ stream.p \in 0 .. Len(stream.buf)
    BY <2>1 DEF Proper, Streams
  <2>3. /\ thing.kind \in Kind \cup {"Undefined"} /\ thing.dir \in {"Request", "Response"}
        /\ DOMAIN thing.body = IF thing.kind = "Undefined" THEN {"op", "tag"}
                               ELSE MemberNames(thing.kind, thing.dir)
    BY <2>1 DEF Object
  <2>4. \A i \in DOMAIN pending : pending[i].kind \in Kind
    <3>1. \A i \in DOMAIN pending : pending[i] \in Sendable
      BY <2>1
    <3> QED
      BY <3>1, SendableIs
  <2> QED
    BY <2>1, <2>2, <2>3, <2>4 DEF TypeOK
<1> QED
  BY <1>1, Invariant, PTL

(* The unread bytes of a stream in good order are the pending messages:    *)
(* decode() of every class takes what encode() of that class put, in every *)
(* interleaving of encodes and decodes through all three variants.         *)
THEOREM MessagesStayWhole == Spec => []MessagesTile
<1>1. IInv => MessagesTile
  BY DEF IInv, Core
<1> QED
  BY <1>1, Invariant, PTL

(* A message decoded from a stream in good order is of the class that was  *)
(* sent and agrees with it in every member that survives the trip.         *)
THEOREM FixedPartsComeBack == Spec => []FixedPartsSurvive
<1>1. IInv => FixedPartsSurvive
  BY DEF IInv
<1> QED
  BY <1>1, Invariant, PTL

(* Whatever the bytes are, an Interaction that decodes holds the class and *)
(* the direction that its operation byte stands for.                       *)
THEOREM DirectionsAgree == Spec => []DirectionAgrees
<1>1. IInv => DirectionAgrees
  BY DEF IInv
<1> QED
  BY <1>1, Invariant, PTL
LEMMA NothingStep ==
  ASSUME IInv, [Next]_vars, result'.call \in {"interaction", "variant"}, Unread(stream) = << >>,
         vars' # vars
  PROVE  result'.ok = FALSE /\ (thing' = thing \/ ~EncodeMessage(thing').ok)
<1>1. Proper(stream) /\ thing.dir \in {"Request", "Response"}
  BY DEF IInv, Core, Object
<1>2. ASSUME NEW call, NEW r, NEW dir \in {"Request", "Response"}, Decoded(call, r),
             Refused(r, stream, thing, dir)
      PROVE  result'.ok = FALSE /\ (thing' = thing \/ ~EncodeMessage(thing').ok)
  <2>1. result'.ok = r.ok /\ thing' = r.thing
    BY <1>2 DEF Decoded
  <2>2. r.ok = FALSE /\ (r.thing = thing \/ r.thing = UndefinedMessage(dir))
    BY <1>2 DEF Refused, Failed
  <2> QED
    BY <2>1, <2>2, UndefinedObject
<1>3. ASSUME NEW r, NEW dir, NEW order, NEW junk, Deduced(r, stream, dir, order, junk) PROVE FALSE
  BY <1>3 DEF Deduced
<1>4. ASSUME NEW order, NEW junk, DecodeInteraction(order, junk)
      PROVE  result'.ok = FALSE /\ (thing' = thing \/ ~EncodeMessage(thing').ok)
  <2> DEFINE r == DecodeEither(stream, thing, order, junk)
  <2>1. Decoded("interaction", r)
    BY <1>4 DEF DecodeInteraction
  <2>2. \E dir \in {"Request", "Response"} :
           \/ Refused(r, stream, thing, dir)
           \/ Deduced(r, stream, dir, order, junk)
    BY <1>1, EitherOutcome
  <2> HIDE DEF r
  <2> QED
    BY <1>2, <1>3, <2>1, <2>2
<1>5. ASSUME NEW order, NEW junk, DecodeHeld(order, junk)
      PROVE  result'.ok = FALSE /\ (thing' = thing \/ ~EncodeMessage(thing').ok)
  <2> DEFINE r == DecodeVariant(thing.dir, stream, thing, order, junk)
  <2>1. Decoded("variant", r)
    BY <1>5 DEF DecodeHeld
  <2>2. r = Failed(Peeked(stream), thing) \/ Deduced(r, stream, thing.dir, order, junk)
    BY <1>1, VariantOutcome
  <2> HIDE DEF r
  <2>3. Refused(r, stream, thing, thing.dir)
    BY <1>3, <2>2 DEF Refused
  <2> QED
    BY <1>1, <1>2, <2>1, <2>3
<1>6. /\ \A m \in Messages : ~Encode(m)
      /\ \A order, junk : ~DecodeAgain(order, junk)
      /\ \A m \in Arrivals : \A n \in 1 .. Len(Arriving[m]) : ~Str(m, n)
      /\ ~Reset
  BY DEF Encode, DecodeAgain, Decoded, Str, Reset
<1> QED
  BY <1>4, <1>5, <1>6 DEF Next

(* With no byte left, or on a stream that has failed, all variants throw,  *)
(* and the variable holds what it held or what cannot be encoded.          *)
THEOREM NothingComesFromNothing == Spec => NothingFromNothing
<1>1. IInv /\ [Next]_vars =>
        [result'.call \in {"interaction", "variant"} /\ Unread(stream) = << >> =>
           /\ ~result'.ok
           /\ thing' = thing \/ ~EncodeMessage(thing').ok]_vars
  BY NothingStep
<1> QED
  BY <1>1, Invariant, PTL DEF Spec, NothingFromNothing
=============================================================================
