------------------------ MODULE MessageStreamProofs ------------------------
(***************************************************************************)
(* Proofs about MessageStream: for every base, every set of items, every   *)
(* input and every order of calls.                                         *)
(***************************************************************************)
EXTENDS MessageStream, WireProofs

(* What can be pending: an item of the caller, or a byte given to str() or *)
(* write(); and of these what an encoder does not refuse.                  *)
Elements == Items \cup [type : {"u8"}, value : Byte]
Encodes(e) == EncodeValue(e.type, e.value).ok
Encoding(e) == EncodeValue(e.type, e.value).bytes
Sendable == {e \in Elements : Encodes(e)}

EncodedSeq(q) == [i \in DOMAIN q |-> Encoding(q[i])]

(* The inductive invariant: what is pending was encoded without an         *)
(* exception, so a decoder never meets an item that put no bytes.          *)
IInv ==
  /\ TypeOK
  /\ pending \in Seq(Sendable)
  /\ UnreadIsPending
  /\ IntegersInOrder

-----------------------------------------------------------------------------
(* Sequences of items. *)

(* Every element has one of the types, and a value of that type. *)
LEMMA ElementType ==
  ASSUME NEW e \in Elements
  PROVE  /\ e.type \in ValueTypes /\ HasType(e.type, e.value)
         /\ Encoding(e) \in Seq(Byte)
         /\ Encodes(e) => Len(Encoding(e)) >= 1
         /\ ~Encodes(e) => Encoding(e) = << >>
<1>1. e.type \in ValueTypes /\ HasType(e.type, e.value)
  <2>1. CASE e \in Items
    BY <2>1, MessageStreamAssumption
  <2>2. CASE e \in [type : {"u8"}, value : Byte]
    BY <2>2 DEF ValueTypes, HasType
  <2> QED
    BY <2>1, <2>2 DEF Elements
<1>2. AllOrNothing(EncodeValue(e.type, e.value))
  BY <1>1, EncodeValueType
<1> QED
  BY <1>1, <1>2 DEF AllOrNothing, Encodings, Encodes, Encoding

LEMMA SendableElements == Sendable \subseteq Elements /\ Seq(Sendable) \subseteq Seq(Elements)
<1>1. Sendable \subseteq Elements
  BY DEF Sendable
<1> QED
  BY <1>1, SeqMonotonic

(* The encodings of a sequence of items, in its order. *)
LEMMA EncodedType ==
  ASSUME NEW q \in Seq(Elements)
  PROVE  /\ EncodedSeq(q) \in Seq(Seq(Byte)) /\ Len(EncodedSeq(q)) = Len(q)
         /\ \A i \in 1 .. Len(q) : EncodedSeq(q)[i] = Encoding(q[i])
         /\ FlattenSeq(EncodedSeq(q)) \in Seq(Byte)
<1>1. Len(q) \in Nat /\ DOMAIN q = 1 .. Len(q) /\ \A i \in 1 .. Len(q) : q[i] \in Elements
  OBVIOUS
<1>2. \A i \in 1 .. Len(q) : Encoding(q[i]) \in Seq(Byte)
  BY <1>1, ElementType
<1>3. EncodedSeq(q) = [i \in 1 .. Len(q) |-> Encoding(q[i])]
  BY <1>1 DEF EncodedSeq
<1>4. EncodedSeq(q) \in Seq(Seq(Byte))
  BY <1>1, <1>2, <1>3
<1>5. Len(EncodedSeq(q)) = Len(q) /\ \A i \in 1 .. Len(q) : EncodedSeq(q)[i] = Encoding(q[i])
  BY <1>1, <1>3
<1>6. << >> \in Seq(Byte)
  OBVIOUS
<1>7. FlattenSeq(EncodedSeq(q)) \in Seq(Byte)
  <2> HIDE DEF EncodedSeq
  <2> QED
    BY <1>4, <1>6, FlattenAppend
<1> QED
  BY <1>4, <1>5, <1>7

(* One more item is encoded last. *)
LEMMA EncodedAppend ==
  ASSUME NEW q \in Seq(Elements), NEW e \in Elements
  PROVE  FlattenSeq(EncodedSeq(Append(q, e))) = FlattenSeq(EncodedSeq(q)) \o Encoding(e)
<1> DEFINE r == Append(q, e)
           s == EncodedSeq(q)
           t == EncodedSeq(r)
           x == Encoding(e)
<1>1. /\ r \in Seq(Elements) /\ Len(r) = Len(q) + 1 /\ Len(q) \in Nat /\ r[Len(q) + 1] = e
      /\ \A i \in 1 .. Len(q) : r[i] = q[i]
  BY AppendProperties
<1> HIDE DEF r
<1>2. /\ s \in Seq(Seq(Byte)) /\ Len(s) = Len(q)
      /\ \A i \in 1 .. Len(q) : s[i] = Encoding(q[i])
  BY EncodedType
<1>3. /\ t \in Seq(Seq(Byte)) /\ Len(t) = Len(r)
      /\ \A i \in 1 .. Len(r) : t[i] = Encoding(r[i])
  BY <1>1, EncodedType
<1>4. x \in Seq(Byte)
  BY ElementType
<1> HIDE DEF s, t
<1>5. t[Len(q) + 1] = x
  BY <1>1, <1>3
<1>6. \A i \in 1 .. Len(q) : t[i] = s[i]
  BY <1>1, <1>2, <1>3
<1> HIDE DEF x
<1>7. /\ Append(s, x) \in Seq(Seq(Byte)) /\ Len(Append(s, x)) = Len(s) + 1
      /\ (\A i \in 1 .. Len(s) : Append(s, x)[i] = s[i]) /\ Append(s, x)[Len(s) + 1] = x
  BY <1>2, <1>4, AppendProperties
<1>8. t = Append(s, x)
  <2> DEFINE a == Append(s, x)
  <2> HIDE DEF a
  <2>1. Len(t) = Len(a)
    BY <1>1, <1>2, <1>3, <1>7 DEF a
  <2>2. ASSUME NEW i \in 1 .. Len(t) PROVE t[i] = a[i]
    <3>1. i \in 1 .. Len(q) \/ i = Len(q) + 1
      BY <1>1, <1>3, <2>2
    <3> QED
      BY <1>2, <1>5, <1>6, <1>7, <3>1 DEF a
  <2> QED
    BY <1>3, <1>7, <2>1, <2>2, SeqEqual DEF a
<1>9. FlattenSeq(Append(s, x)) = FlattenSeq(s) \o x
  BY <1>2, <1>4, FlattenAppend
<1> QED
  BY <1>8, <1>9 DEF r, s, t, x

(* The first item is encoded first. *)
LEMMA EncodedHead ==
  ASSUME NEW q \in Seq(Elements), q # << >>
  PROVE  FlattenSeq(EncodedSeq(q)) = Encoding(Head(q)) \o FlattenSeq(EncodedSeq(Tail(q)))
<1> DEFINE r == Tail(q)
           s == EncodedSeq(q)
           t == EncodedSeq(r)
<1>1. /\ r \in Seq(Elements) /\ Len(r) = Len(q) - 1 /\ Len(q) \in Nat /\ Len(q) >= 1
      /\ \A i \in 1 .. Len(r) : r[i] = q[i + 1]
  BY HeadTailProperties
<1>2. Head(q) = q[1]
  OBVIOUS
<1> HIDE DEF r
<1>3. /\ s \in Seq(Seq(Byte)) /\ Len(s) = Len(q)
      /\ \A i \in 1 .. Len(q) : s[i] = Encoding(q[i])
  BY EncodedType
<1>4. /\ t \in Seq(Seq(Byte)) /\ Len(t) = Len(r)
      /\ \A i \in 1 .. Len(r) : t[i] = Encoding(r[i])
  BY <1>1, EncodedType
<1> HIDE DEF s, t
<1>5. s # << >>
  BY <1>1, <1>3
<1>6. Head(s) = Encoding(q[1])
  <2>1. Head(s) = s[1]
    BY <1>3, <1>5
  <2> QED
    BY <1>1, <1>3, <2>1
<1>7. /\ Tail(s) \in Seq(Seq(Byte)) /\ Len(Tail(s)) = Len(s) - 1
      /\ \A i \in 1 .. Len(Tail(s)) : Tail(s)[i] = s[i + 1]
  BY <1>3, <1>5, HeadTailProperties
<1>8. Tail(s) = t
  <2> DEFINE a == Tail(s)
  <2> HIDE DEF a
  <2>1. Len(a) = Len(t) /\ Len(a) = Len(q) - 1
    BY <1>1, <1>3, <1>4, <1>7 DEF a
  <2>2. ASSUME NEW i \in 1 .. Len(a) PROVE a[i] = t[i]
    <3>1. i + 1 \in 1 .. Len(q) /\ i \in 1 .. Len(r)
      BY <1>1, <2>1, <2>2
    <3>2. a[i] = s[i + 1]
      BY <1>7, <2>2 DEF a
    <3>3. r[i] = q[i + 1]
      BY <1>1, <3>1
    <3> QED
      BY <1>3, <1>4, <3>1, <3>2, <3>3
  <2> QED
    BY <1>4, <1>7, <2>1, <2>2, SeqEqual DEF a
<1>9. FlattenSeq(s) = Head(s) \o FlattenSeq(Tail(s))
  BY <1>3, <1>5, FlattenHead
<1> QED
  BY <1>2, <1>6, <1>8, <1>9 DEF r, s, t

(* A byte is an item whose encoding is that byte. *)
LEMMA AsItemsType ==
  ASSUME NEW b \in Seq(Byte)
  PROVE  /\ AsItems(b) \in Seq(Sendable)
         /\ EncodedSeq(AsItems(b)) = [i \in DOMAIN b |-> <<b[i]>>]
         /\ FlattenSeq(EncodedSeq(AsItems(b))) = b
<1> DEFINE r == AsItems(b)
<1>1. Len(b) \in Nat /\ DOMAIN b = 1 .. Len(b) /\ \A i \in 1 .. Len(b) : b[i] \in Byte
  OBVIOUS
<1>2. r = [i \in 1 .. Len(b) |-> [type |-> "u8", value |-> b[i]]]
  BY <1>1 DEF AsItems
<1>3. ASSUME NEW v \in Byte
      PROVE  /\ [type |-> "u8", value |-> v] \in Sendable
             /\ Encoding([type |-> "u8", value |-> v]) = <<v>>
  <2> DEFINE e == [type |-> "u8", value |-> v]
  <2>1. e.type = "u8" /\ e.value = v /\ e \in Elements
    BY DEF Elements
  <2>2. EncodeValue("u8", v) = Done(<<v>>)
    BY EncodeValueIs
  <2>3. Done(<<v>>).ok /\ Done(<<v>>).bytes = <<v>>
    BY DEF Done
  <2> HIDE DEF e
  <2> QED
    BY <2>1, <2>2, <2>3 DEF e, Sendable, Encodes, Encoding
<1>4. \A i \in 1 .. Len(b) : r[i] \in Sendable /\ Encoding(r[i]) = <<b[i]>>
  <2> TAKE i \in 1 .. Len(b)
  <2>1. r[i] = [type |-> "u8", value |-> b[i]] /\ b[i] \in Byte
    BY <1>1, <1>2
  <2> QED
    BY <1>3, <2>1
<1>5. r \in Seq(Sendable) /\ DOMAIN r = 1 .. Len(b)
  <2> DEFINE f == [i \in 1 .. Len(b) |-> r[i]]
  <2>1. r = f
    BY <1>2
  <2>2. f \in [1 .. Len(b) -> Sendable]
    BY <1>4
  <2>3. r \in [1 .. Len(b) -> Sendable]
    BY <2>1, <2>2
  <2> HIDE DEF r
  <2> QED
    BY <1>1, <2>3
<1> HIDE DEF r
<1>6. EncodedSeq(r) = [i \in DOMAIN b |-> <<b[i]>>]
  BY <1>1, <1>4, <1>5 DEF EncodedSeq
<1> QED
  BY <1>5, <1>6, FlattenSingletons DEF r

(* Items after items. *)
LEMMA EncodedConcat ==
  ASSUME NEW q \in Seq(Elements), NEW r \in Seq(Elements)
  PROVE  FlattenSeq(EncodedSeq(q \o r)) = FlattenSeq(EncodedSeq(q)) \o FlattenSeq(EncodedSeq(r))
<1> DEFINE s == EncodedSeq(q)
           t == EncodedSeq(r)
           w == q \o r
           u == EncodedSeq(w)
           v == s \o t
<1>1. /\ w \in Seq(Elements) /\ Len(w) = Len(q) + Len(r) /\ Len(q) \in Nat /\ Len(r) \in Nat
      /\ \A i \in 1 .. Len(q) + Len(r) : w[i] = IF i <= Len(q) THEN q[i] ELSE r[i - Len(q)]
  BY ConcatProperties
<1> HIDE DEF w
<1>2. /\ s \in Seq(Seq(Byte)) /\ Len(s) = Len(q)
      /\ \A i \in 1 .. Len(q) : s[i] = Encoding(q[i])
  BY EncodedType
<1>3. /\ t \in Seq(Seq(Byte)) /\ Len(t) = Len(r)
      /\ \A i \in 1 .. Len(r) : t[i] = Encoding(r[i])
  BY EncodedType
<1>4. /\ u \in Seq(Seq(Byte)) /\ Len(u) = Len(w)
      /\ \A i \in 1 .. Len(w) : u[i] = Encoding(w[i])
  BY <1>1, EncodedType
<1> HIDE DEF s, t, u
<1>5. /\ v \in Seq(Seq(Byte)) /\ Len(v) = Len(s) + Len(t)
      /\ \A i \in 1 .. Len(s) + Len(t) : v[i] = IF i <= Len(s) THEN s[i] ELSE t[i - Len(s)]
  <2>1. s \in Seq(Seq(Byte)) /\ t \in Seq(Seq(Byte))
    BY <1>2, <1>3
  <2> QED
    BY <2>1, ConcatProperties
<1> HIDE DEF v
<1>6. u = v
  <2>1. Len(u) = Len(v)
    BY <1>1, <1>2, <1>3, <1>4, <1>5
  <2>2. ASSUME NEW i \in 1 .. Len(u) PROVE u[i] = v[i]
    <3>1. i \in 1 .. Len(q) + Len(r) /\ u[i] = Encoding(w[i])
      BY <1>1, <1>4, <2>2
    <3>2. CASE i <= Len(q)
      <4>1. w[i] = q[i] /\ v[i] = s[i] /\ i \in 1 .. Len(q)
        BY <1>1, <1>2, <1>3, <1>5, <3>1, <3>2
      <4> QED
        BY <1>2, <3>1, <4>1
    <3>3. CASE ~(i <= Len(q))
      <4>1. w[i] = r[i - Len(q)] /\ v[i] = t[i - Len(q)] /\ i - Len(q) \in 1 .. Len(r)
        BY <1>1, <1>2, <1>3, <1>5, <3>1, <3>3
      <4> QED
        BY <1>3, <3>1, <4>1
    <3> QED
      BY <3>2, <3>3
  <2> QED
    BY <1>4, <1>5, <2>1, <2>2, SeqEqual
<1>7. FlattenSeq(v) = FlattenSeq(s) \o FlattenSeq(t)
  BY <1>2, <1>3, FlattenConcat DEF v
<1> QED
  BY <1>6, <1>7 DEF s, t, u, w
-----------------------------------------------------------------------------
(* One call on the stream. *)

LEMMA ProperStream == TypeOK <=> Proper(stream) /\ pending \in Seq(Elements) /\ overlaid \in BOOLEAN
BY DEF TypeOK, Proper, Streams, Elements

(* A decoder takes at least a byte, whatever there is to read. *)
LEMMA DecodeTakes ==
  ASSUME NEW s, Proper(s), NEW type \in ValueTypes, NEW junk \in Junk, NEW old, NEW order
  PROVE  /\ Taken(DecodeValue(type, Cursor(s, junk), old, order).c) \in Nat
         /\ Taken(DecodeValue(type, Cursor(s, junk), old, order).c) >= 1
<1> DEFINE c == Cursor(s, junk)
<1>1. junk \in Seq(Byte) \ {<< >>}
  BY MessageStreamAssumption
<1>2. c \in Cursors /\ c.at = 1
  BY <1>1, CursorUnder
<1> HIDE DEF c
<1>3. PICK n \in Nat : n >= 1 /\ DecodeValue(type, c, old, order).c = Skip(c, n)
  BY <1>2, DecodeValueTakes
<1>4. Skip(c, n).at = 1 + n
  BY <1>2, SkipType
<1> QED
  BY <1>3, <1>4 DEF Taken, c

(* A decoder takes just what the encoder of the item put. *)
LEMMA DecodeTakesItem ==
  ASSUME NEW s, Proper(s), NEW e \in Sendable, NEW rest \in Seq(Byte),
         Unread(s) = Encoding(e) \o rest, s.good,
         NEW junk \in Junk, NEW old, NEW order
  PROVE  LET d == DecodeValue(e.type, Cursor(s, junk), old, order)
         IN  /\ Unread(Take(s, Taken(d.c))) = rest
             /\ Agrees(e.type, d.v, e.value)
<1> DEFINE c == Cursor(s, junk)
           d == DecodeValue(e.type, c, old, order)
           x == Encoding(e)
<1>1. junk \in Seq(Byte) \ {<< >>}
  BY MessageStreamAssumption
<1>2. e \in Elements /\ Encodes(e)
  BY DEF Sendable
<1>3. /\ e.type \in ValueTypes /\ HasType(e.type, e.value) /\ x \in Seq(Byte)
      /\ EncodeValue(e.type, e.value).ok /\ EncodeValue(e.type, e.value).bytes = x
  BY <1>2, ElementType DEF Encodes, Encoding
<1>4. c \in Cursors /\ c.at = 1 /\ Under(c, x)
  BY <1>1, <1>3, CursorUnder
<1> HIDE DEF c, x
<1>5. Takes(e.type, e.value, c, old, order)
  BY <1>3, <1>4, DecodeTakesEncoded
<1>6. d.c = Skip(c, Len(x)) /\ Agrees(e.type, d.v, e.value)
  BY <1>3, <1>5 DEF Takes
<1>7. Len(x) \in Nat
  BY <1>3
<1>8. Skip(c, Len(x)).at = 1 + Len(x)
  BY <1>4, <1>7, SkipType
<1>9. Taken(d.c) = Len(x)
  BY <1>6, <1>7, <1>8 DEF Taken
<1>10. /\ SubSeq(x \o rest, Len(x) + 1, Len(x \o rest)) = rest
       /\ Len(x) \in 0 .. Len(x \o rest)
  BY <1>3, RestOfConcat
<1>11. Unread(s) = x \o rest
  BY DEF x
<1>12. Len(x) <= Len(Unread(s))
  BY <1>10, <1>11
<1>13. Unread(Take(s, Len(x))) = SubSeq(Unread(s), Len(x) + 1, Len(Unread(s)))
  BY <1>7, <1>12, TakeType
<1> QED
  BY <1>6, <1>9, <1>10, <1>11, <1>13 DEF c

-----------------------------------------------------------------------------
(* The invariant is inductive. *)

LEMMA UnreadIs ==
  UnreadIsPending <=>
    (stream.good /\ ~overlaid => Unread(stream) = FlattenSeq(EncodedSeq(pending)))
BY DEF UnreadIsPending, EncodedSeq, Encoding

(* A call other than decode says nothing about a decoded value. *)
LEMMA NotDecode == result.call # "decode" => IntegersInOrder
BY DEF IntegersInOrder

(* The same after a step. *)
LEMMA Primed ==
  /\ TypeOK' <=> Proper(stream') /\ pending' \in Seq(Elements) /\ overlaid' \in BOOLEAN
  /\ UnreadIsPending' <=>
       (stream'.good /\ ~overlaid' => Unread(stream') = FlattenSeq(EncodedSeq(pending')))
  /\ result'.call # "decode" => IntegersInOrder'
  /\ IInv' <=> TypeOK' /\ pending' \in Seq(Sendable) /\ UnreadIsPending' /\ IntegersInOrder'
<1>1. TypeOK' <=> Proper(stream') /\ pending' \in Seq(Elements) /\ overlaid' \in BOOLEAN
  BY DEF TypeOK, Proper, Streams, Elements
<1>2. UnreadIsPending' <=>
       (stream'.good /\ ~overlaid' => Unread(stream') = FlattenSeq(EncodedSeq(pending')))
  BY DEF UnreadIsPending, EncodedSeq, Encoding
<1>3. result'.call # "decode" => IntegersInOrder'
  BY DEF IntegersInOrder
<1>4. IInv' <=> TypeOK' /\ pending' \in Seq(Sendable) /\ UnreadIsPending' /\ IntegersInOrder'
  BY DEF IInv
<1> QED
  BY <1>1, <1>2, <1>3, <1>4

LEMMA InitIInv == Init => IInv
<1> SUFFICES ASSUME Init PROVE IInv
  OBVIOUS
<1>1. stream = [buf |-> << >>, g |-> 0, p |-> 0, good |-> TRUE]
  BY DEF Init, Fresh
<1>2. Proper(stream)
  BY <1>1 DEF Proper, Streams
<1>3. pending = << >> /\ overlaid = FALSE /\ result.call # "decode"
  BY DEF Init
<1>4. << >> \in Seq(Sendable) /\ << >> \in Seq(Elements)
  OBVIOUS
<1>5. TypeOK
  BY <1>2, <1>3, <1>4, ProperStream
<1>6. Unread(stream) = << >>
  BY <1>1, SubSeqEmpty DEF Unread
<1>7. FlattenSeq(EncodedSeq(<< >>)) = << >>
  <2>1. EncodedSeq(<< >>) = << >>
    BY DEF EncodedSeq
  <2> QED
    BY <2>1, FlattenEmpty
<1> QED
  BY <1>3, <1>4, <1>5, <1>6, <1>7, UnreadIs, NotDecode DEF IInv

LEMMA EncodeIInv ==
  ASSUME IInv, NEW item \in Items, Encode(item)
  PROVE  IInv'
<1> DEFINE e == EncodeValue(item.type, item.value)
           b == Encoding(item)
<1>1. item \in Elements
  BY DEF Elements
<1>2. /\ b \in Seq(Byte) /\ b = e.bytes /\ (Encodes(item) <=> e.ok)
      /\ (Encodes(item) => Len(b) >= 1) /\ (~Encodes(item) => b = << >>)
  BY <1>1, ElementType DEF Encodes, Encoding
<1>3. /\ stream' = Put(stream, b)
      /\ pending' = IF Encodes(item) /\ stream.good THEN Append(pending, item) ELSE pending
      /\ overlaid' = (overlaid \/ WritesOver(b))
      /\ result'.call # "decode"
  BY <1>2 DEF Encode
<1> HIDE DEF b
<1>4. /\ Proper(stream) /\ pending \in Seq(Elements) /\ overlaid \in BOOLEAN
      /\ pending \in Seq(Sendable)
  BY ProperStream DEF IInv
<1>5. Proper(stream') /\ stream'.good = stream.good
  BY <1>2, <1>3, <1>4, PutType
<1>6. pending' \in Seq(Sendable)
  <2>1. CASE Encodes(item) /\ stream.good
    <3>1. item \in Sendable
      BY <1>1, <2>1 DEF Sendable
    <3> QED
      BY <1>3, <1>4, <2>1, <3>1, AppendProperties
  <2>2. CASE ~(Encodes(item) /\ stream.good)
    BY <1>3, <1>4, <2>2
  <2> QED
    BY <2>1, <2>2
<1>7. TypeOK'
  <2>1. overlaid' \in BOOLEAN
    BY <1>3
  <2> QED
    BY <1>5, <1>6, <2>1, Primed, SendableElements
<1>8. ASSUME stream'.good, ~overlaid'
      PROVE  Unread(stream') = FlattenSeq(EncodedSeq(pending'))
  <2>1. stream.good /\ ~overlaid /\ ~WritesOver(b)
    BY <1>3, <1>5, <1>8
  <2>2. stream.p < Len(stream.buf) => b = << >>
    BY <2>1 DEF WritesOver
  <2>3. Unread(stream') = Unread(stream) \o b
    BY <1>2, <1>3, <1>4, <2>1, <2>2, PutAtEnd
  <2>4. Unread(stream) = FlattenSeq(EncodedSeq(pending))
    BY <2>1, UnreadIs DEF IInv
  <2>5. CASE Encodes(item)
    <3>1. pending' = Append(pending, item)
      BY <1>3, <2>1, <2>5
    <3>2. FlattenSeq(EncodedSeq(Append(pending, item))) = FlattenSeq(EncodedSeq(pending)) \o b
      BY <1>1, <1>4, EncodedAppend DEF b
    <3> QED
      BY <2>3, <2>4, <3>1, <3>2
  <2>6. CASE ~Encodes(item)
    <3>1. pending' = pending /\ b = << >>
      BY <1>2, <1>3, <2>6
    <3>2. Unread(stream) \o << >> = Unread(stream)
      BY <1>4, UnreadType, ConcatEmptySeq
    <3> QED
      BY <2>3, <2>4, <3>1, <3>2
  <2> QED
    BY <2>5, <2>6
<1>9. UnreadIsPending'
  BY <1>8, Primed
<1>10. IntegersInOrder'
  BY <1>3, Primed
<1> QED
  BY <1>6, <1>7, <1>9, <1>10, Primed
(* A write puts its bytes as items. *)
LEMMA WriteIInv ==
  ASSUME IInv, NEW str \in Inputs, Write(str)
  PROVE  IInv'
<1>1. str \in Seq(Byte)
  BY MessageStreamAssumption
<1>2. /\ stream' = Put(stream, str)
      /\ pending' = IF stream.good THEN pending \o AsItems(str) ELSE pending
      /\ overlaid' = (overlaid \/ WritesOver(str))
      /\ result'.call # "decode"
  BY DEF Write
<1>3. /\ Proper(stream) /\ pending \in Seq(Elements) /\ overlaid \in BOOLEAN
      /\ pending \in Seq(Sendable)
  BY ProperStream DEF IInv
<1>4. Proper(stream') /\ stream'.good = stream.good
  BY <1>1, <1>2, <1>3, PutType
<1>5. AsItems(str) \in Seq(Sendable) /\ FlattenSeq(EncodedSeq(AsItems(str))) = str
  BY <1>1, AsItemsType
<1> DEFINE r == AsItems(str)
<1>6. r \in Seq(Sendable) /\ r \in Seq(Elements)
  BY <1>5, SendableElements
<1> HIDE DEF r
<1>7. pending \o r \in Seq(Sendable)
  BY <1>3, <1>6, ConcatProperties
<1>8. pending' \in Seq(Sendable)
  BY <1>2, <1>3, <1>7 DEF r
<1>9. TypeOK'
  <2>1. overlaid' \in BOOLEAN
    BY <1>2
  <2> QED
    BY <1>4, <1>8, <2>1, Primed, SendableElements
<1>10. ASSUME stream'.good, ~overlaid'
       PROVE  Unread(stream') = FlattenSeq(EncodedSeq(pending'))
  <2>1. stream.good /\ ~overlaid /\ ~WritesOver(str)
    BY <1>2, <1>4, <1>10
  <2>2. stream.p < Len(stream.buf) => str = << >>
    BY <2>1 DEF WritesOver
  <2>3. Unread(stream') = Unread(stream) \o str
    BY <1>1, <1>2, <1>3, <2>1, <2>2, PutAtEnd
  <2>4. Unread(stream) = FlattenSeq(EncodedSeq(pending))
    BY <2>1, UnreadIs DEF IInv
  <2>5. FlattenSeq(EncodedSeq(pending \o r)) =
          FlattenSeq(EncodedSeq(pending)) \o FlattenSeq(EncodedSeq(r))
    BY <1>3, <1>6, EncodedConcat
  <2>6. pending' = pending \o r /\ FlattenSeq(EncodedSeq(r)) = str
    BY <1>2, <1>5, <2>1 DEF r
  <2> QED
    BY <2>3, <2>4, <2>5, <2>6
<1>11. UnreadIsPending'
  BY <1>10, Primed
<1>12. IntegersInOrder'
  BY <1>2, Primed
<1> QED
  BY <1>8, <1>9, <1>11, <1>12, Primed

(* A decode takes the first pending item, and nothing of the others. *)
LEMMA DecodeIInv ==
  ASSUME IInv, NEW old \in Targets, NEW order \in EvalOrders, NEW junk \in Junk,
         Decode(old, order, junk)
  PROVE  IInv'
<1> DEFINE item == Head(pending)
           rest == Tail(pending)
           d == DecodeValue(item.type, Cursor(stream, junk), old, order)
           n == Taken(d.c)
<1>1. /\ pending # << >> /\ stream' = Take(stream, n)
      /\ result' = [call |-> "decode", type |-> item.type, got |-> d.v, want |-> item.value]
      /\ pending' = rest /\ overlaid' = overlaid
  BY DEF Decode
<1>2. /\ Proper(stream) /\ pending \in Seq(Elements) /\ overlaid \in BOOLEAN
      /\ pending \in Seq(Sendable)
  BY ProperStream DEF IInv
<1>3. item \in Sendable /\ item \in Elements /\ rest \in Seq(Sendable) /\ rest \in Seq(Elements)
  <2>1. Head(pending) \in Sendable /\ Tail(pending) \in Seq(Sendable)
    BY <1>1, <1>2, HeadTailProperties
  <2> QED
    BY <2>1, SendableElements
<1>4. item.type \in ValueTypes
  BY <1>3, ElementType
<1>5. n \in Nat /\ n >= 1
  BY <1>2, <1>4, DecodeTakes
<1>6. FlattenSeq(EncodedSeq(pending)) = Encoding(item) \o FlattenSeq(EncodedSeq(rest))
  BY <1>1, <1>2, EncodedHead
<1>7. FlattenSeq(EncodedSeq(rest)) \in Seq(Byte)
  BY <1>3, EncodedType
<1> HIDE DEF n, rest
<1>8. Proper(stream') /\ (stream'.good => stream.good)
  BY <1>1, <1>2, <1>5, TakeType
<1>9. TypeOK'
  BY <1>1, <1>2, <1>3, <1>8, Primed
<1>10. ASSUME stream'.good, ~overlaid'
       PROVE  /\ Unread(stream') = FlattenSeq(EncodedSeq(pending'))
              /\ Agrees(item.type, d.v, item.value)
  <2> DEFINE y == FlattenSeq(EncodedSeq(rest))
  <2>1. stream.good /\ ~overlaid
    BY <1>1, <1>8, <1>10
  <2>2. Unread(stream) = Encoding(item) \o y
    BY <1>6, <2>1, UnreadIs DEF IInv
  <2>3. y \in Seq(Byte)
    BY <1>7
  <2> HIDE DEF item, y
  <2>4. Unread(Take(stream, n)) = y /\ Agrees(item.type, d.v, item.value)
    BY <1>2, <1>3, <2>1, <2>2, <2>3, DecodeTakesItem DEF n
  <2> QED
    BY <1>1, <2>4 DEF y, item
<1>11. UnreadIsPending'
  BY <1>10, Primed
<1>12. IntegersInOrder'
  <2>1. result'.type = item.type /\ result'.got = d.v /\ result'.want = item.value
    BY <1>1
  <2> HIDE DEF d, item
  <2>2. ASSUME stream'.good, ~overlaid', result'.type \in {"u8", "u16", "u32"}
        PROVE  result'.got = result'.want
    BY <1>10, <2>1, <2>2 DEF Agrees
  <2>3. ASSUME stream'.good, ~overlaid', result'.type = "u64"
        PROVE  result'.got \in {result'.want, Swapped(result'.want)}
    BY <1>10, <2>1, <2>3 DEF Agrees, Swapped
  <2> HIDE DEF Swapped
  <2> QED
    BY <2>2, <2>3 DEF IntegersInOrder
<1> QED
  BY <1>1, <1>3, <1>9, <1>11, <1>12, Primed

(* Reading past what is pending kills the stream. *)
LEMMA OverrunIInv ==
  ASSUME IInv, NEW type \in ValueTypes, NEW old, NEW order, NEW junk \in Junk,
         Overrun(type, old, order, junk)
  PROVE  IInv'
<1> DEFINE n == Taken(DecodeValue(type, Cursor(stream, junk), old, order).c)
<1>1. /\ pending = << >> /\ stream' = Take(stream, n) /\ result'.call # "decode"
      /\ pending' = pending /\ overlaid' = overlaid
  BY DEF Overrun
<1>2. /\ Proper(stream) /\ pending \in Seq(Elements) /\ overlaid \in BOOLEAN
      /\ pending \in Seq(Sendable)
  BY ProperStream DEF IInv
<1>3. n \in Nat /\ n >= 1
  BY <1>2, DecodeTakes
<1> HIDE DEF n
<1>4. Proper(stream') /\ (stream'.good => stream.good /\ n <= Len(Unread(stream)))
  BY <1>1, <1>2, <1>3, TakeType
<1>5. ASSUME stream'.good, ~overlaid' PROVE FALSE
  <2>1. Unread(stream) = FlattenSeq(EncodedSeq(<< >>))
    BY <1>1, <1>4, <1>5, UnreadIs DEF IInv
  <2>2. EncodedSeq(<< >>) = << >>
    BY DEF EncodedSeq
  <2>3. Len(Unread(stream)) = 0
    BY <2>1, <2>2, FlattenEmpty
  <2> QED
    BY <1>3, <1>4, <1>5, <2>3
<1> QED
  BY <1>1, <1>2, <1>4, <1>5, Primed

LEMMA PeekIInv ==
  ASSUME IInv, Peek
  PROVE  IInv'
<1>1. /\ stream' = Peeked(stream) /\ result'.call # "decode"
      /\ pending' = pending /\ overlaid' = overlaid
  BY DEF Peek
<1>2. /\ Proper(stream) /\ pending \in Seq(Elements) /\ overlaid \in BOOLEAN
      /\ pending \in Seq(Sendable)
  BY ProperStream DEF IInv
<1>3. stream' = stream \/ stream' = [stream EXCEPT !.good = FALSE]
  BY <1>1 DEF Peeked
<1>4. Proper(stream') /\ (stream'.good => stream' = stream)
  BY <1>2, <1>3 DEF Proper, Streams
<1> QED
  BY <1>1, <1>2, <1>4, UnreadIs, Primed DEF IInv

(* str() and reset(): only the bytes given are pending. *)
LEMMA LoadIInv ==
  ASSUME IInv, NEW input \in Seq(Byte), stream' = Load(stream, input),
         pending' = AsItems(input), overlaid' = FALSE, result'.call # "decode"
  PROVE  IInv'
<1>1. stream \in Streams
  BY ProperStream DEF IInv, Proper
<1>2. /\ stream' \in Streams /\ stream'.g = 0 /\ stream'.p = 0
      /\ stream'.buf = input /\ stream'.good = stream.good
  BY <1>1 DEF Load, Streams
<1>3. Proper(stream')
  BY <1>2 DEF Proper
<1>4. /\ AsItems(input) \in Seq(Sendable) /\ AsItems(input) \in Seq(Elements)
      /\ FlattenSeq(EncodedSeq(AsItems(input))) = input
  BY AsItemsType, SendableElements
<1>5. ASSUME stream'.good PROVE Unread(stream') = input
  <2>1. Unread(stream') = SubSeq(input, 0 + 1, Len(input))
    BY <1>2, <1>5 DEF Unread
  <2>2. 0 + 1 = 1 /\ SubSeq(input, 1, Len(input)) = input
    BY SubSeqFull
  <2> QED
    BY <2>1, <2>2
<1> QED
  BY <1>3, <1>4, <1>5, Primed

LEMMA NextIInv == IInv /\ [Next]_vars => IInv'
<1> SUFFICES ASSUME IInv, [Next]_vars PROVE IInv'
  OBVIOUS
<1>1. ASSUME NEW item \in Items, Encode(item) PROVE IInv'
  BY <1>1, EncodeIInv
<1>2. ASSUME NEW old \in Targets, NEW order \in EvalOrders, NEW junk \in Junk,
             Decode(old, order, junk)
      PROVE  IInv'
  BY <1>2, DecodeIInv
<1>3. ASSUME NEW old \in Targets, NEW order \in EvalOrders, NEW junk \in Junk,
             NEW type \in ValueTypes, Overrun(type, old, order, junk)
      PROVE  IInv'
  BY <1>3, OverrunIInv
<1>4. CASE Peek
  BY <1>4, PeekIInv
<1>5. ASSUME NEW input \in Inputs, Str(input) PROVE IInv'
  <2>1. input \in Seq(Byte)
    BY MessageStreamAssumption
  <2> QED
    BY <1>5, <2>1, LoadIInv DEF Str
<1>6. ASSUME NEW input \in Inputs, Write(input) PROVE IInv'
  BY <1>6, WriteIInv
<1>7. CASE Reset
  <2>1. << >> \in Seq(Byte) /\ AsItems(<< >>) = << >>
    BY DEF AsItems
  <2>2. /\ stream' = Load(stream, << >>) /\ pending' = << >> /\ overlaid' = FALSE
        /\ result'.call # "decode"
    BY <1>7 DEF Reset
  <2> QED
    BY <2>1, <2>2, LoadIInv
<1>8. CASE UNCHANGED vars
  BY <1>8 DEF vars, IInv, TypeOK, UnreadIsPending, IntegersInOrder
<1> QED
  BY <1>1, <1>2, <1>3, <1>4, <1>5, <1>6, <1>7, <1>8 DEF Next

(* The inductive invariant holds in every reachable state. *)
THEOREM Invariant == Spec => []IInv
<1>1. Init => IInv
  BY InitIInv
<1>2. IInv /\ [Next]_vars => IInv'
  BY NextIInv
<1> QED
  BY <1>1, <1>2, PTL DEF Spec

(* Both positions of the stringstream stay inside its buffer, whatever     *)
(* calls the caller makes.                                                 *)
THEOREM TypeCorrect == Spec => []TypeOK
<1>1. IInv => TypeOK
  BY DEF IInv
<1> QED
  BY <1>1, Invariant, PTL

(* What is left to read is the encoding of what is pending: encode() and   *)
(* decode() agree on the length of every value of every type, in every     *)
(* order of calls, until a str() is written over or the stream fails.      *)
THEOREM DecodersTakeWhatEncodersPut == Spec => []UnreadIsPending
<1>1. IInv => UnreadIsPending
  BY DEF IInv
<1> QED
  BY <1>1, Invariant, PTL

(* Every integer is decoded with the value it was encoded with, of a       *)
(* uint64_t up to the order of its two halves.                             *)
THEOREM IntegersComeBack == Spec => []IntegersInOrder
<1>1. IInv => IntegersInOrder
  BY DEF IInv
<1> QED
  BY <1>1, Invariant, PTL
-----------------------------------------------------------------------------
(* A failed stream. *)

(* A step from a failed stream leaves it failed, and only str() and        *)
(* reset() change it at all.                                               *)
LEMMA StickyStep ==
  ASSUME IInv, Next, ~stream.good
  PROVE  ~stream'.good /\ (result'.call \notin {"str", "reset"} => stream' = stream)
<1>1. Proper(stream) /\ stream \in Streams /\ Unread(stream) = << >>
  BY ProperStream, UnreadType DEF IInv, Proper
<1>2. ASSUME NEW b \in Seq(Byte), stream' = Put(stream, b) PROVE stream' = stream
  BY <1>1, <1>2, PutType
<1>3. ASSUME NEW type \in ValueTypes, NEW junk \in Junk, NEW old, NEW order,
             stream' = Take(stream, Taken(DecodeValue(type, Cursor(stream, junk), old, order).c))
      PROVE  stream' = stream
  <2> DEFINE n == Taken(DecodeValue(type, Cursor(stream, junk), old, order).c)
  <2>1. n \in Nat /\ n >= 1
    BY <1>1, DecodeTakes
  <2>2. stream' = Take(stream, n)
    BY <1>3
  <2> HIDE DEF n
  <2> QED
    BY <1>1, <2>1, <2>2, TakeType
<1>4. ASSUME NEW item \in Items, Encode(item) PROVE stream' = stream
  <2>1. item \in Elements
    BY DEF Elements
  <2>2. Encoding(item) \in Seq(Byte) /\ stream' = Put(stream, Encoding(item))
    BY <1>4, <2>1, ElementType DEF Encode, Encoding
  <2> QED
    BY <1>2, <2>2
<1>5. ASSUME NEW old \in Targets, NEW order \in EvalOrders, NEW junk \in Junk,
             Decode(old, order, junk)
      PROVE  stream' = stream
  <2>1. pending # << >> /\ pending \in Seq(Elements)
    BY <1>5, ProperStream DEF Decode, IInv
  <2>2. Head(pending) \in Elements
    BY <2>1, HeadTailProperties
  <2>3. Head(pending).type \in ValueTypes
    BY <2>2, ElementType
  <2> QED
    BY <1>3, <1>5, <2>3 DEF Decode
<1>6. ASSUME NEW old \in Targets, NEW order \in EvalOrders, NEW junk \in Junk,
             NEW type \in ValueTypes, Overrun(type, old, order, junk)
      PROVE  stream' = stream
  BY <1>3, <1>6 DEF Overrun
<1>7. CASE Peek
  <2>1. stream' = [stream EXCEPT !.good = FALSE]
    BY <1>1, <1>7 DEF Peek, Peeked
  <2>2. stream.good = FALSE
    BY <1>1 DEF Streams
  <2>3. stream' = stream
    BY <1>1, <2>1, <2>2 DEF Streams
  <2> QED
    BY <2>3
<1>8. ASSUME NEW input \in Inputs, Write(input) PROVE stream' = stream
  <2>1. input \in Seq(Byte)
    BY MessageStreamAssumption
  <2> QED
    BY <1>2, <1>8, <2>1 DEF Write
<1>9. ASSUME NEW input, stream' = Load(stream, input) PROVE ~stream'.good
  BY <1>1, <1>9 DEF Load, Streams
<1>10. ASSUME NEW input \in Inputs, Str(input)
       PROVE  ~stream'.good /\ result'.call \in {"str", "reset"}
  BY <1>9, <1>10 DEF Str
<1>11. CASE Reset
  BY <1>9, <1>11 DEF Reset
<1> QED
  BY <1>4, <1>5, <1>6, <1>7, <1>8, <1>10, <1>11 DEF Next

(* Once a read or a peek went past the end, no call makes the stream       *)
(* usable again: str() and reset() replace its buffer, not its state.      *)
THEOREM FailureSticks == Spec => FailureIsSticky
<1>1. IInv /\ [Next]_vars =>
        [~stream.good => /\ ~stream'.good
                         /\ (result'.call \notin {"str", "reset"} => stream' = stream)]_vars
  BY StickyStep
<1> QED
  BY <1>1, Invariant, PTL DEF Spec, FailureIsSticky

-----------------------------------------------------------------------------
(* The stream implements a queue of bytes. *)

(* A sequence is a prefix of a longer one. *)
LEMMA PrefixOfConcat ==
  ASSUME NEW x \in Seq(Byte), NEW y \in Seq(Byte)
  PROVE  IsPrefix(x, x \o y)
<1> DEFINE s == x \o y
           m == Len(x)
           p == SubSeq(s, 1, m)
<1>1. /\ s \in Seq(Byte) /\ m \in Nat /\ Len(y) \in Nat /\ Len(s) = m + Len(y)
      /\ \A i \in 1 .. m + Len(y) : s[i] = IF i <= m THEN x[i] ELSE y[i - m]
  BY ConcatProperties
<1> HIDE DEF s, m
<1>2. m \in 0 .. Len(s) /\ m <= Len(s) /\ \A i \in 1 .. m : s[i] = x[i]
  BY <1>1
<1>3. p \in Seq(Byte) /\ Len(p) = m /\ \A i \in 1 .. m : p[i] = s[i]
  BY <1>1, <1>2, FrontType
<1> HIDE DEF p
<1>4. p = x
  <2>1. Len(p) = Len(x) /\ \A i \in 1 .. Len(p) : p[i] = x[i]
    BY <1>2, <1>3 DEF m
  <2> QED
    BY <1>3, <2>1, SeqEqual
<1>5. SubSeq(x, 1, Len(x)) = x
  BY SubSeqFull
<1> QED
  BY <1>2, <1>4, <1>5 DEF IsPrefix, p, s, m

(* What is left after the first n elements is a suffix. *)
LEMMA RestIsSuffix ==
  ASSUME NEW u \in Seq(Byte), NEW n \in Nat, n <= Len(u)
  PROVE  IsSuffix(SubSeq(u, n + 1, Len(u)), u)
<1> DEFINE w == SubSeq(u, n + 1, Len(u))
           r == Reverse(w)
           t == Reverse(u)
           k == Len(w)
           p == SubSeq(t, 1, k)
<1>1. Len(u) \in Nat /\ n \in 0 .. Len(u) /\ \A i \in 1 .. Len(u) : u[i] \in Byte
  OBVIOUS
<1>2. /\ w \in Seq(Byte) /\ k = Len(u) - n
      /\ \A i \in 1 .. Len(u) - n : w[i] = u[n + i]
  BY <1>1, RestType
<1> HIDE DEF w
<1>3. k \in Nat /\ k <= Len(u) /\ \A i \in 1 .. k : w[i] \in Byte
  BY <1>1, <1>2
<1>4. r \in Seq(Byte) /\ Len(r) = k /\ \A i \in 1 .. k : r[i] = w[(k - i) + 1]
  <2>1. r = [i \in 1 .. k |-> w[(k - i) + 1]]
    BY DEF Reverse
  <2> HIDE DEF k, r
  <2>2. \A i \in 1 .. k : w[(k - i) + 1] \in Byte
    BY <1>3
  <2> QED
    BY <1>3, <2>1, <2>2
<1>5. /\ t \in Seq(Byte) /\ Len(t) = Len(u)
      /\ \A i \in 1 .. Len(u) : t[i] = u[(Len(u) - i) + 1]
  <2> DEFINE m == Len(u)
  <2>1. t = [i \in 1 .. m |-> u[(m - i) + 1]]
    BY DEF Reverse
  <2> HIDE DEF m, t
  <2>2. m \in Nat /\ \A i \in 1 .. m : u[(m - i) + 1] \in Byte
    BY <1>1 DEF m
  <2>3. t \in Seq(Byte) /\ Len(t) = m /\ \A i \in 1 .. m : t[i] = u[(m - i) + 1]
    BY <2>1, <2>2
  <2> QED
    BY <2>3 DEF m
<1> HIDE DEF r, t, k
<1>6. k \in 0 .. Len(t)
  BY <1>1, <1>3, <1>5
<1>7. p \in Seq(Byte) /\ Len(p) = k /\ \A i \in 1 .. k : p[i] = t[i]
  BY <1>5, <1>6, FrontType
<1> HIDE DEF p
<1>8. p = r
  <2>1. ASSUME NEW i \in 1 .. k PROVE p[i] = r[i]
    <3>1. (k - i) + 1 \in 1 .. Len(u) - n /\ i \in 1 .. Len(u)
      BY <1>1, <1>2, <1>3
    <3>2. n + ((k - i) + 1) = (Len(u) - i) + 1
      BY <1>1, <1>2, <1>3
    <3>3. r[i] = u[n + ((k - i) + 1)]
      BY <1>2, <1>4, <3>1
    <3>4. p[i] = u[(Len(u) - i) + 1]
      BY <1>5, <1>7, <3>1
    <3> QED
      BY <3>2, <3>3, <3>4
  <2>2. Len(p) = Len(r) /\ \A i \in 1 .. Len(p) : p[i] = r[i]
    BY <1>4, <1>7, <2>1
  <2> QED
    BY <1>4, <1>7, <2>2, SeqEqual
<1>9. SubSeq(r, 1, Len(r)) = r
  BY <1>4, SubSeqFull
<1>10. Len(r) <= Len(t) /\ SubSeq(r, 1, Len(r)) = SubSeq(t, 1, Len(r))
  BY <1>3, <1>4, <1>5, <1>8, <1>9 DEF p
<1> QED
  BY <1>10 DEF IsSuffix, IsPrefix, r, t, w
(* The queue's sequences are the stream's. *)
LEMMA QueueOrders ==
  ASSUME NEW x, NEW y
  PROVE  (Queue!IsPrefix(x, y) <=> IsPrefix(x, y)) /\ (Queue!IsSuffix(x, y) <=> IsSuffix(x, y))
BY DEF IsPrefix, IsSuffix, Reverse, Queue!IsPrefix, Queue!IsSuffix, Queue!Reverse

(* Bytes put at the end, over others, or on a dead stream. *)
LEMMA PutImplements ==
  ASSUME IInv, NEW b \in Seq(Byte), stream' = Put(stream, b),
         overlaid' = (overlaid \/ WritesOver(b)), result'.call \in {"encode", "write"}
  PROVE  Queue!Next
<1>1. Proper(stream) /\ overlaid \in BOOLEAN /\ stream.good \in BOOLEAN
  BY ProperStream DEF IInv, Proper, Streams
<1>2. /\ Proper(stream') /\ stream'.good = stream.good
      /\ (~stream.good => stream' = stream)
  BY <1>1, PutType
<1>3. CASE WritesOver(b)
  <2>1. stream.good /\ overlaid' = TRUE
    BY <1>3 DEF WritesOver
  <2>2. Queue!Blur
    BY <1>2, <2>1 DEF Queue!Blur
  <2> QED
    BY <2>2 DEF Queue!Next
<1>4. CASE ~WritesOver(b)
  <2>1. overlaid' = overlaid
    BY <1>1, <1>4
  <2>2. ASSUME stream.good PROVE IsPrefix(Unread(stream), Unread(stream'))
    <3>1. stream.p < Len(stream.buf) => b = << >>
      BY <1>4, <2>2 DEF WritesOver
    <3>2. Unread(stream') = Unread(stream) \o b
      BY <1>1, <2>2, <3>1, PutAtEnd
    <3>3. Unread(stream) \in Seq(Byte)
      BY <1>1, UnreadType
    <3> QED
      BY <3>2, <3>3, PrefixOfConcat
  <2>3. Queue!PutCall
    BY <1>2, <2>1, <2>2, QueueOrders DEF Queue!PutCall
  <2> QED
    BY <2>3 DEF Queue!Next
<1> QED
  BY <1>3, <1>4

(* Bytes taken from the front, or past the end. *)
LEMMA GetImplements ==
  ASSUME IInv, NEW n \in Nat, n >= 1, stream' = Take(stream, n), overlaid' = overlaid,
         result'.call \in {"decode", "overrun"}
  PROVE  Queue!Next
<1>1. Proper(stream) /\ stream.good \in BOOLEAN
  BY ProperStream DEF IInv, Proper, Streams
<1>2. Unread(stream) \in Seq(Byte) /\ Len(Unread(stream)) \in Nat
      /\ (~stream.good => Unread(stream) = << >>)
  BY <1>1, UnreadType
<1>3. /\ Proper(stream')
      /\ stream'.good <=> stream.good /\ n <= Len(Unread(stream))
      /\ n > Len(Unread(stream)) => Unread(stream') = << >>
      /\ ~stream.good => stream' = stream
      /\ n <= Len(Unread(stream)) /\ stream.good =>
           Unread(stream') = SubSeq(Unread(stream), n + 1, Len(Unread(stream)))
  BY <1>1, TakeType
<1>4. stream'.good \in BOOLEAN
  BY <1>3 DEF Proper, Streams
<1>5. CASE stream.good /\ n <= Len(Unread(stream))
  <2>1. IsSuffix(Unread(stream'), Unread(stream))
    BY <1>2, <1>3, <1>5, RestIsSuffix
  <2>2. (~stream'.good) = (~stream.good)
    BY <1>3, <1>5
  <2>3. Queue!GetCall
    BY <2>1, <2>2, QueueOrders DEF Queue!GetCall
  <2> QED
    BY <2>3 DEF Queue!Next
<1>6. CASE ~(stream.good /\ n <= Len(Unread(stream)))
  <2>1. ~stream'.good
    BY <1>3, <1>6
  <2>2. Unread(stream') = << >>
    BY <2>1 DEF Unread
  <2>3. Queue!GetCall
    BY <2>1, <2>2 DEF Queue!GetCall
  <2> QED
    BY <2>3 DEF Queue!Next
<1> QED
  BY <1>5, <1>6

LEMMA PeekImplements ==
  ASSUME IInv, Peek
  PROVE  Queue!Next
<1>1. Proper(stream) /\ stream \in Streams /\ stream.good \in BOOLEAN
  BY ProperStream DEF IInv, Proper, Streams
<1>2. stream' = Peeked(stream) /\ result'.call = "peek" /\ overlaid' = overlaid
  BY DEF Peek
<1>3. CASE Unread(stream) = << >>
  <2>1. stream' = [stream EXCEPT !.good = FALSE]
    BY <1>2, <1>3 DEF Peeked
  <2>2. ~stream'.good
    BY <1>1, <2>1 DEF Streams
  <2>3. Unread(stream') = << >>
    BY <2>2 DEF Unread
  <2>4. Queue!PeekCall
    BY <1>2, <1>3, <2>2, <2>3 DEF Queue!PeekCall
  <2> QED
    BY <2>4 DEF Queue!Next
<1>4. CASE Unread(stream) # << >>
  <2>1. stream' = stream
    BY <1>2, <1>4 DEF Peeked
  <2>2. Queue!PeekCall
    BY <1>2, <1>4, <2>1 DEF Queue!PeekCall
  <2> QED
    BY <2>2 DEF Queue!Next
<1> QED
  BY <1>3, <1>4

LEMMA NextImplements ==
  ASSUME IInv, Next
  PROVE  Queue!Next
<1>1. stream \in Streams /\ Proper(stream) /\ pending \in Seq(Elements) /\ overlaid \in BOOLEAN
  BY ProperStream DEF IInv, Proper
<1>2. ASSUME NEW item \in Items, Encode(item) PROVE Queue!Next
  <2> DEFINE b == Encoding(item)
  <2>1. item \in Elements
    BY DEF Elements
  <2>2. /\ b \in Seq(Byte) /\ (~Encodes(item) => b = << >>)
        /\ stream' = Put(stream, b) /\ overlaid' = (overlaid \/ WritesOver(b))
        /\ result'.call = IF Encodes(item) THEN "encode" ELSE "encode threw"
    BY <1>2, <2>1, ElementType DEF Encode, Encoding, Encodes
  <2> HIDE DEF b
  <2>3. CASE Encodes(item)
    BY <2>2, <2>3, PutImplements
  <2>4. CASE ~Encodes(item)
    <3>1. stream' = stream
      BY <1>1, <2>2, <2>4, PutNothing
    <3>2. overlaid' = overlaid
      BY <1>1, <2>2, <2>4 DEF WritesOver
    <3>3. Queue!PutThrows
      BY <2>2, <2>4, <3>1, <3>2 DEF Queue!PutThrows
    <3> QED
      BY <3>3 DEF Queue!Next
  <2> QED
    BY <2>3, <2>4
<1>3. ASSUME NEW type \in ValueTypes, NEW junk \in Junk, NEW old, NEW order,
             stream' = Take(stream, Taken(DecodeValue(type, Cursor(stream, junk), old, order).c)),
             overlaid' = overlaid, result'.call \in {"decode", "overrun"}
      PROVE  Queue!Next
  <2> DEFINE n == Taken(DecodeValue(type, Cursor(stream, junk), old, order).c)
  <2>1. n \in Nat /\ n >= 1
    BY <1>1, DecodeTakes
  <2>2. stream' = Take(stream, n)
    BY <1>3
  <2> HIDE DEF n
  <2> QED
    BY <1>3, <2>1, <2>2, GetImplements
<1>4. ASSUME NEW old \in Targets, NEW order \in EvalOrders, NEW junk \in Junk,
             Decode(old, order, junk)
      PROVE  Queue!Next
  <2>1. Head(pending) \in Elements
    BY <1>1, <1>4, HeadTailProperties DEF Decode
  <2>2. Head(pending).type \in ValueTypes
    BY <2>1, ElementType
  <2> QED
    BY <1>3, <1>4, <2>2 DEF Decode
<1>5. ASSUME NEW old \in Targets, NEW order \in EvalOrders, NEW junk \in Junk,
             NEW type \in ValueTypes, Overrun(type, old, order, junk)
      PROVE  Queue!Next
  BY <1>3, <1>5 DEF Overrun
<1>6. CASE Peek
  BY <1>6, PeekImplements
<1>7. ASSUME NEW input \in Inputs, Write(input) PROVE Queue!Next
  <2>1. input \in Seq(Byte)
    BY MessageStreamAssumption
  <2> QED
    BY <1>7, <2>1, PutImplements DEF Write
<1>8. ASSUME NEW input, stream' = Load(stream, input)
      PROVE  stream'.good = stream.good /\ (~stream.good => Unread(stream') = << >>)
  <2>1. stream'.good = stream.good
    BY <1>1, <1>8 DEF Load, Streams
  <2> QED
    BY <2>1 DEF Unread
<1>9. ASSUME NEW input \in Inputs, Str(input) PROVE Queue!Next
  <2>1. Queue!Refill
    BY <1>8, <1>9 DEF Str, Queue!Refill
  <2> QED
    BY <2>1 DEF Queue!Next
<1>10. CASE Reset
  <2>1. Unread(stream') = << >>
    <3>1. stream'.buf = << >> /\ stream'.g = 0
      BY <1>1, <1>10 DEF Reset, Load, Streams
    <3>2. SubSeq(<< >>, 0 + 1, Len(<< >>)) = << >>
      BY SubSeqEmpty
    <3> QED
      BY <3>1, <3>2 DEF Unread
  <2>2. Queue!Clear
    BY <1>8, <1>10, <2>1 DEF Reset, Queue!Clear
  <2> QED
    BY <2>2 DEF Queue!Next
<1> QED
  BY <1>2, <1>4, <1>5, <1>6, <1>7, <1>9, <1>10 DEF Next

(* A MessageStream is the queue of bytes that ByteQueue describes: bytes   *)
(* go in at the end, whole or not at all, and come out at the front, until *)
(* the stream fails; only a put after str() breaks the order.              *)
THEOREM StreamIsByteQueue == Spec => ImplementsByteQueue
<1>1. Init => Queue!Init
  <2> SUFFICES ASSUME Init PROVE Queue!Init
    OBVIOUS
  <2>1. stream = [buf |-> << >>, g |-> 0, p |-> 0, good |-> TRUE]
        /\ result.call = "none" /\ overlaid = FALSE
    BY DEF Init, Fresh
  <2>2. Unread(stream) = << >>
    BY <2>1, SubSeqEmpty DEF Unread
  <2> QED
    BY <2>1, <2>2 DEF Queue!Init
<1>2. IInv /\ [Next]_vars => [Queue!Next]_Queue!vars
  <2>1. ASSUME UNCHANGED vars PROVE UNCHANGED Queue!vars
    BY <2>1 DEF vars, Queue!vars
  <2> QED
    BY <2>1, NextImplements
<1> QED
  BY <1>1, <1>2, Invariant, PTL DEF Spec, ImplementsByteQueue, Queue!Spec
=============================================================================
