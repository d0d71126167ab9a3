--------------------------- MODULE SessionProofs ---------------------------
(***************************************************************************)
(* Proofs about Session, for every set of well-formed messages, every base *)
(* and with or without failing system calls.  The stream is the one of     *)
(* Interaction, whose invariant holds of it here too; the connection keeps *)
(* its frames by the lemmas of ConnectionProofs.  What is added is that    *)
(* the buffer is the messages the ghosts say it holds.                     *)
(***************************************************************************)
EXTENDS Session, InteractionProofs

(* The buffers whose frames do not wrap. *)
ShortBuffers == {c \in Seq(Byte) : Len(c) + 4 < M16 * M16}

P == INSTANCE ConnectionProofs WITH Contents <- ShortBuffers

(* The buffer is what the ghosts say, and short enough for its frame. *)
Held ==
  /\ since \in Seq(Sendable)
  /\ spoiled \in BOOLEAN
  /\ stream.buf \in ShortBuffers
  /\ ~spoiled => stream.buf = EncodingOf(since)

(* So is every frame on the wire. *)
FramesHeld ==
  /\ frames \in Seq([held : Seq(Sendable), spoiled : BOOLEAN])
  /\ Len(frames) = Len(accepted)
  /\ \A i \in 1 .. Len(frames) : frames[i].spoiled \/ P!MessageAt(i) = EncodingOf(frames[i].held)

SInv == IInv /\ P!Framed /\ Held /\ FramesHeld

-----------------------------------------------------------------------------
(* The connection. *)

(* What ConnectionProofs asks of its constants, and its hypothesis. *)
LEMMA ConnectionFacts ==
  P!BaseAssumption /\ P!ConnectionAssumption /\ P!NoLengthWraps
<1>1. P!BaseAssumption
  BY BaseAssumption DEF P!BaseAssumption
<1>2. P!ConnectionAssumption
  BY SessionAssumption DEF P!ConnectionAssumption, ShortBuffers, P!Byte, Byte
<1>3. P!NoLengthWraps
  BY DEF P!NoLengthWraps, ShortBuffers, P!M16, M16
<1> QED
  BY <1>1, <1>2, <1>3

(* Connection::write does not depend on what else might be sent. *)
LEMMA SameWrite ==
  ASSUME NEW c, C!Write(c)
  PROVE  P!Write(c)
BY DEF P!Write, C!Write, P!Frame, C!Frame, P!RawWrite, C!RawWrite, P!Moved, C!Moved,
       P!ActualLen, C!ActualLen, P!SizeField, C!SizeField, P!SysError, C!SysError,
       C!FitsU32, P!FitsU32, C!M16, P!M16

(* A connection starts framed. *)
LEMMA InitConnection ==
  ASSUME C!Init
  PROVE  P!Framed
<1>1. P!Init
  BY DEF P!Init, C!Init, P!Idle, C!Idle
<1> QED
  BY <1>1, ConnectionFacts, P!InitFramed

(* The messages on the wire. *)
LEMMA SentIs ==
  ASSUME P!Framed
  PROVE  /\ accepted \in Seq([at : Nat, put : Nat, len : Nat])
         /\ P!Sent = [i \in 1 .. Len(accepted) |-> P!MessageAt(i)]
<1>1. accepted \in Seq([at : Nat, put : Nat, len : Nat])
  BY DEF P!Framed, P!TypeOK
<1>2. DOMAIN accepted = 1 .. Len(accepted)
  BY <1>1
<1> QED
  BY <1>1, <1>2 DEF P!Sent

(* The same after a step. *)
LEMMA SentNextIs ==
  ASSUME P!Framed'
  PROVE  /\ accepted' \in Seq([at : Nat, put : Nat, len : Nat])
         /\ P!SentNext = [i \in 1 .. Len(accepted') |-> P!MessageAt(i)']
<1>1. accepted' \in Seq([at : Nat, put : Nat, len : Nat])
  BY DEF P!Framed, P!TypeOK
<1>2. DOMAIN accepted' = 1 .. Len(accepted')
  BY <1>1
<1>3. \A i : P!MessageAt(i)' = P!MessageAtNext(i)
  BY DEF P!MessageAt, P!MessageAtNext, P!SizeAfter, P!SizeAfterNext
<1> QED
  BY <1>1, <1>2, <1>3 DEF P!SentNext

(* A write adds its message and keeps the others, or adds none. *)
LEMMA WriteAdds ==
  ASSUME P!Framed, NEW c \in ShortBuffers, C!Write(c)
  PROVE  /\ P!Framed'
         /\ \A i \in 1 .. Len(accepted) : P!MessageAt(i)' = P!MessageAt(i)
         /\ \/ accepted' = accepted
            \/ /\ accepted' # accepted
               /\ Len(accepted') = Len(accepted) + 1
               /\ \A i \in 1 .. Len(accepted') : i = Len(accepted) + 1 => P!MessageAt(i)' = c
<1>1. P!Write(c)
  BY SameWrite
<1>2. P!Framed'
  <2>1. [P!Next]_(P!vars)
    BY <1>1 DEF P!Next
  <2> QED
    BY <2>1, ConnectionFacts, P!NextFramed
<1>3. \/ P!SentNext = Append(P!Sent, c) /\ torn' = torn
      \/ P!SentNext = P!Sent /\ torn' \in {torn, TRUE}
  BY <1>1, ConnectionFacts, P!WriteSends
<1> DEFINE n == Len(accepted)
           k == Len(accepted')
<1>4. /\ n \in Nat /\ accepted \in Seq([at : Nat, put : Nat, len : Nat])
      /\ P!Sent = [i \in 1 .. n |-> P!MessageAt(i)]
  BY SentIs
<1>5. /\ k \in Nat /\ P!SentNext = [i \in 1 .. k |-> P!MessageAt(i)']
  BY <1>2, SentNextIs
<1>6. accepted' = accepted \/ k = n + 1
  <2>1. accepted' = accepted \/ \E r : accepted' = Append(accepted, r)
    BY <1>1 DEF P!Write
  <2>2. ASSUME NEW r, accepted' = Append(accepted, r) PROVE k = n + 1
    BY <1>4, <2>2
  <2> QED
    BY <2>1, <2>2
<1> DEFINE T == [i \in 1 .. n |-> P!MessageAt(i)]
           U == [i \in 1 .. k |-> P!MessageAt(i)']
<1>7. T = P!Sent /\ U = P!SentNext
  BY <1>4, <1>5
<1>8. DOMAIN T = 1 .. n /\ DOMAIN U = 1 .. k /\ Len(T) = n
  BY <1>4
<1>9. \A i \in 1 .. n : T[i] = P!MessageAt(i)
  OBVIOUS
<1>10. \A i \in 1 .. k : U[i] = P!MessageAt(i)'
  OBVIOUS
<1>11. CASE P!SentNext = P!Sent
  <2>1. U = T
    BY <1>7, <1>11
  <2> HIDE DEF T, U
  <2>2. k = n
    <3>1. 1 .. k = 1 .. n
      BY <1>8, <2>1
    <3> HIDE DEF n, k
    <3> QED
      BY <1>4, <1>5, <3>1
  <2>3. accepted' = accepted
    BY <1>4, <1>6, <2>2
  <2>4. \A i \in 1 .. n : P!MessageAt(i)' = P!MessageAt(i)
    BY <1>9, <1>10, <2>1, <2>2
  <2> QED
    BY <1>2, <2>3, <2>4
<1>12. CASE P!SentNext = Append(P!Sent, c)
  <2>1. U = Append(T, c)
    BY <1>7, <1>12
  <2>2. /\ Append(T, c) = [i \in 1 .. n + 1 |-> IF i <= n THEN T[i] ELSE c]
    <3> HIDE DEF n
    <3> QED
      BY <1>4
  <2> HIDE DEF T, U
  <2>3. k = n + 1
    <3>1. 1 .. k = 1 .. n + 1
      BY <1>8, <2>1, <2>2
    <3> HIDE DEF n, k
    <3> QED
      BY <1>4, <1>5, <3>1
  <2>4. \A i \in 1 .. n + 1 : U[i] = IF i <= n THEN T[i] ELSE c
    BY <2>1, <2>2
  <2>5. \A i \in 1 .. n : P!MessageAt(i)' = P!MessageAt(i)
    <3> HIDE DEF n, k
    <3> SUFFICES ASSUME NEW i \in 1 .. n PROVE P!MessageAt(i)' = P!MessageAt(i)
      OBVIOUS
    <3>1. i \in 1 .. k /\ i \in 1 .. n + 1 /\ i <= n
      BY <1>4, <2>3
    <3> QED
      BY <1>9, <1>10, <2>4, <3>1
  <2>6. \A i \in 1 .. k : i = n + 1 => P!MessageAt(i)' = c
    <3> HIDE DEF n, k
    <3> SUFFICES ASSUME NEW i \in 1 .. k, i = n + 1 PROVE P!MessageAt(i)' = c
      OBVIOUS
    <3>1. i \in 1 .. n + 1 /\ ~(i <= n)
      BY <1>4, <2>3
    <3>2. U[i] = c
      BY <2>4, <3>1
    <3> QED
      BY <1>10, <3>2
  <2>7. accepted' # accepted
    BY <1>4, <2>3
  <2> QED
    BY <1>2, <2>3, <2>5, <2>6, <2>7
<1> QED
  BY <1>3, <1>11, <1>12

-----------------------------------------------------------------------------
(* The stream. *)

(* One more message. *)
LEMMA EncodingAppend ==
  ASSUME NEW ms \in Seq(Sendable), NEW m \in Sendable
  PROVE  /\ Append(ms, m) \in Seq(Sendable)
         /\ EncodingOf(Append(ms, m)) = EncodingOf(ms) \o EncodeMessage(m).bytes
BY RowAppend DEF EncodingOf, Row

(* No message has no bytes. *)
LEMMA EncodingEmpty == EncodingOf(<< >>) = << >> /\ << >> \in Seq(Sendable)
<1>1. [i \in DOMAIN << >> |-> EncodeMessage(<< >>[i]).bytes] = << >>
  OBVIOUS
<1>2. << >> \in Seq(Sendable)
  OBVIOUS
<1> QED
  BY <1>1, <1>2, FlattenEmpty DEF EncodingOf

(* One message alone. *)
LEMMA EncodingOne ==
  ASSUME NEW m \in Sendable
  PROVE  <<m>> \in Seq(Sendable) /\ EncodingOf(<<m>>) = EncodeMessage(m).bytes
<1> DEFINE b == EncodeMessage(m).bytes
<1>1. b \in Seq(Byte)
  BY SendableIs
<1>2. << >> \in Seq(Sendable) /\ Append(<< >>, m) = <<m>>
  OBVIOUS
<1>3. <<m>> \in Seq(Sendable) /\ EncodingOf(<<m>>) = << >> \o b
  BY <1>2, EncodingAppend, EncodingEmpty
<1>4. << >> \o b = b
  BY <1>1, ConcatEmptySeq
<1> QED
  BY <1>3, <1>4

(* The empty stream can be sent. *)
LEMMA EmptyIsShort == << >> \in ShortBuffers
<1>1. M16 >= 4 /\ M16 \in Nat
  BY BaseAssumption DEF M16
<1>2. M16 * M16 >= 4 * M16
  BY <1>1
<1>3. Len(<< >>) + 4 < M16 * M16
  BY <1>1, <1>2
<1>4. << >> \in Seq(Byte)
  OBVIOUS
<1> QED
  BY <1>3, <1>4 DEF ShortBuffers

(* peek() leaves the buffer as it is. *)
LEMMA PeekedBuffer ==
  ASSUME NEW s, Proper(s)
  PROVE  Peeked(s).buf = s.buf
BY DEF Peeked, Proper, Streams

(* So does a decode, however it ends. *)
LEMMA DecodeKeepsBuffer ==
  ASSUME NEW s, Proper(s), NEW v, NEW order, NEW junk \in Junk
  PROVE  DecodeEither(s, v, order, junk).stream.buf = s.buf
<1> DEFINE r == DecodeEither(s, v, order, junk)
<1>1. PICK dir \in {"Request", "Response"} : Refused(r, s, v, dir) \/ Deduced(r, s, dir, order, junk)
  BY EitherOutcome
<1> HIDE DEF r
<1>2. CASE Refused(r, s, v, dir)
  <2>1. r.stream = Peeked(s)
    BY <1>2 DEF Refused, Failed
  <2> QED
    BY <2>1, PeekedBuffer DEF r
<1>3. CASE Deduced(r, s, dir, order, junk)
  <2> DEFINE o == NewMessage(convert(Head(Unread(s))), dir)
             c == Cursor(s, junk)
             d == DecodeMessage(o, c, order)
             n == Taken(d.c)
  <2>1. convert(Head(Unread(s))) \in Kind /\ r = DecodeInto(o, s, order, junk)
    BY <1>3 DEF Deduced
  <2>2. r.stream = Take(s, n)
    BY <2>1 DEF DecodeInto
  <2>3. Object(o) /\ Shape(o) /\ o.kind \in Kind
    BY <2>1, NewObject DEF NewMessage
  <2>4. junk \in Seq(Byte) \ {<< >>}
    BY InteractionAssumption
  <2>5. c \in Cursors
    BY <2>4, CursorUnder
  <2> HIDE DEF o, c
  <2>6. d.c \in Cursors
    BY <2>3, <2>5, MessageCursor
  <2>7. n \in Nat
    BY <2>6 DEF Cursors, Taken
  <2> HIDE DEF d, n
  <2>8. Take(s, n).buf = s.buf
    BY <2>7, TakeType
  <2> QED
    BY <2>2, <2>8 DEF r
<1> QED
  BY <1>1, <1>2, <1>3

-----------------------------------------------------------------------------
(* The invariant. *)

(* What the parts of the invariant say of the next state. *)
LEMMA HeldNext ==
  ASSUME since' \in Seq(Sendable), spoiled' \in BOOLEAN, stream'.buf \in ShortBuffers,
         ~spoiled' => stream'.buf = EncodingOf(since')
  PROVE  Held'
BY DEF Held, EncodingOf

(* The same for the frames. *)
LEMMA FramesHeldNext ==
  ASSUME frames' \in Seq([held : Seq(Sendable), spoiled : BOOLEAN]), Len(frames') = Len(accepted'),
         \A i \in 1 .. Len(frames') :
           frames'[i].spoiled \/ P!MessageAt(i)' = EncodingOf(frames'[i].held)
  PROVE  FramesHeld'
BY DEF FramesHeld, EncodingOf

(* The invariant holds at first. *)
LEMMA InitSInv == SessionInit => SInv
<1> SUFFICES ASSUME SessionInit PROVE SInv
  OBVIOUS
<1>1. IInv
  BY InitIInv DEF SessionInit
<1>2. P!Framed
  BY InitConnection DEF SessionInit
<1>3. since = << >> /\ spoiled = FALSE /\ frames = << >> /\ accepted = << >> /\ stream.buf = << >>
  BY DEF SessionInit, Init, Fresh, C!Init
<1>4. Held
  BY <1>3, EncodingEmpty, EmptyIsShort DEF Held
<1>5. FramesHeld
  <2>1. << >> \in Seq([held : Seq(Sendable), spoiled : BOOLEAN]) /\ Len(<< >>) = 0
    OBVIOUS
  <2> QED
    BY <1>3, <2>1 DEF FramesHeld
<1> QED
  BY <1>1, <1>2, <1>4, <1>5 DEF SInv

(* Every step is one of Interaction, or leaves its variables alone. *)
LEMMA StreamSteps == SessionNext => [Next]_vars
<1> SUFFICES ASSUME SessionNext PROVE [Next]_vars
  OBVIOUS
<1>1. CASE \E m \in Messages : EncodeNext(m)
  BY <1>1 DEF EncodeNext, Next
<1>2. CASE \E order \in EvalOrders, junk \in Junk : DecodeNext(order, junk)
  BY <1>2 DEF DecodeNext, Next
<1>3. ASSUME NEW m \in Arrivals, Arrive(m) PROVE Next
  <2>1. m \in Sendable /\ Arriving[m] = EncodeMessage(m).bytes
    BY InteractionAssumption DEF Sendable, Arriving
  <2>2. Len(Arriving[m]) \in Nat /\ Len(Arriving[m]) >= 1
    BY <2>1, SendableIs
  <2>3. Len(Arriving[m]) \in 1 .. Len(Arriving[m])
    BY <2>2
  <2>4. Str(m, Len(Arriving[m]))
    BY <1>3 DEF Arrive
  <2> QED
    BY <2>3, <2>4 DEF Next
<1>4. CASE Clear
  BY <1>4 DEF Clear, Next
<1>5. CASE Send
  BY <1>5 DEF Send
<1> QED
  BY <1>1, <1>2, <1>3, <1>4, <1>5 DEF SessionNext

(* Steps that write nothing to the connection. *)
LEMMA QuietStep ==
  ASSUME P!Framed, FramesHeld, UNCHANGED <<connectionVars, frames>>
  PROVE  P!Framed' /\ FramesHeld'
<1>1. UNCHANGED P!vars
  BY DEF connectionVars, P!vars
<1>2. P!Framed'
  BY <1>1, ConnectionFacts, P!NextFramed
<1>3. accepted' = accepted /\ history' = history /\ frames' = frames
  BY DEF connectionVars
<1>4. FramesHeld'
  BY <1>3 DEF FramesHeld, P!MessageAt, P!SizeAfter
<1> QED
  BY <1>2, <1>4

(* An encode appends its message to the buffer, or spoils it. *)
LEMMA EncodeHeld ==
  ASSUME NoFrameWraps, IInv, Held, NEW m \in Messages, EncodeNext(m)
  PROVE  Held'
<1> DEFINE e == EncodeMessage(m)
           b == e.bytes
<1>1. Wellformed(m)
  BY InteractionAssumption
<1>2. e \in Encodings
  BY <1>1, EncodeMessageIs
<1>3. b \in Seq(Byte) /\ e.ok \in BOOLEAN
  BY <1>2, EncodingIs
<1>4. e.ok => m \in Sendable
  BY DEF Sendable
<1>5. MaxLen + Len(b) + 4 <= M16 * M16
  BY DEF NoFrameWraps
<1>6. /\ stream' = Put(stream, b) /\ Len(stream.buf) < MaxLen
      /\ result' = [call |-> "encode", ok |-> e.ok]
  BY DEF EncodeNext, Encode
<1> HIDE DEF e, b
<1>7. /\ since' = IF e.ok THEN Append(since, m) ELSE since
      /\ spoiled' = (spoiled \/ ~e.ok \/ ~stream.good \/ stream.p < Len(stream.buf))
  BY <1>6 DEF EncodeNext
<1>8. /\ Proper(stream) /\ since \in Seq(Sendable) /\ spoiled \in BOOLEAN
      /\ (~spoiled => stream.buf = EncodingOf(since))
  BY DEF IInv, Core, Held
<1>9. since' \in Seq(Sendable)
  BY <1>4, <1>7, <1>8, EncodingAppend
<1>10. spoiled' \in BOOLEAN
  BY <1>7
<1>11. stream'.buf \in ShortBuffers
  <2>1. Proper(stream') /\ Len(stream'.buf) <= Len(stream.buf) + Len(b)
    BY <1>3, <1>6, <1>8, PutType
  <2>2. stream'.buf \in Seq(Byte) /\ Len(stream'.buf) \in Nat
    BY <2>1 DEF Proper, Streams
  <2>3. Len(stream.buf) \in Nat /\ Len(b) \in Nat /\ MaxLen \in Nat /\ M16 * M16 \in Nat
    BY <1>3, <1>8, InteractionAssumption, BaseType DEF Proper, Streams
  <2>4. \A x \in Nat, y \in Nat, z \in Nat, u \in Nat, l \in Nat :
          x <= y + z /\ y < l /\ l + z + 4 <= u => x + 4 < u
    OBVIOUS
  <2>5. Len(stream'.buf) + 4 < M16 * M16
    BY <1>5, <1>6, <2>1, <2>2, <2>3, <2>4, Zenon
  <2> QED
    BY <2>2, <2>5 DEF ShortBuffers
<1>12. ASSUME ~spoiled' PROVE stream'.buf = EncodingOf(since')
  <2>1. ~spoiled /\ e.ok /\ stream.good /\ ~(stream.p < Len(stream.buf))
    BY <1>7, <1>12
  <2>2. stream.p = Len(stream.buf)
    <3>1. stream.p \in Nat /\ Len(stream.buf) \in Nat /\ stream.p <= Len(stream.buf)
      BY <1>8 DEF Proper, Streams
    <3> QED
      BY <2>1, <3>1
  <2>3. stream'.buf = stream.buf \o b
    BY <1>3, <1>6, <1>8, <2>1, <2>2, PutAppends
  <2>4. since' = Append(since, m) /\ m \in Sendable
    BY <1>4, <1>7, <2>1
  <2>5. EncodingOf(Append(since, m)) = EncodingOf(since) \o b
    BY <1>8, <2>4, EncodingAppend DEF b, e
  <2> QED
    BY <1>8, <2>1, <2>3, <2>4, <2>5
<1>13. /\ since' \in Seq(Sendable) /\ spoiled' \in BOOLEAN /\ stream'.buf \in ShortBuffers
       /\ (~spoiled' => stream'.buf = EncodingOf(since'))
  BY <1>9, <1>10, <1>11, <1>12
<1> QED
  BY <1>13, HeldNext

(* A decode moves the read position only. *)
LEMMA DecodeNextHeld ==
  ASSUME IInv, Held, NEW order, NEW junk \in Junk, DecodeNext(order, junk)
  PROVE  Held'
<1>1. /\ Proper(stream) /\ since \in Seq(Sendable) /\ spoiled \in BOOLEAN
      /\ stream.buf \in ShortBuffers /\ (~spoiled => stream.buf = EncodingOf(since))
  BY DEF IInv, Core, Held
<1>2. stream' = DecodeEither(stream, thing, order, junk).stream /\ since' = since /\ spoiled' = spoiled
  BY DEF DecodeNext, DecodeInteraction, Decoded
<1>3. stream'.buf = stream.buf
  BY <1>1, <1>2, DecodeKeepsBuffer
<1> QED
  BY <1>1, <1>2, <1>3, HeldNext

(* A loaded stream holds the message that arrived. *)
LEMMA ArriveHeld ==
  ASSUME NoFrameWraps, IInv, NEW m \in Arrivals, Arrive(m)
  PROVE  Held'
<1> DEFINE b == EncodeMessage(m).bytes
<1>1. m \in Sendable /\ Arriving[m] = b
  BY InteractionAssumption DEF Sendable, Arriving
<1>2. b \in Seq(Byte) /\ Len(b) + 4 < M16 * M16
  BY <1>1, SendableIs DEF NoFrameWraps
<1>3. Proper(stream) /\ since' = <<m>> /\ spoiled' = FALSE
      /\ stream' = Load(stream, SubSeq(Arriving[m], 1, Len(Arriving[m])))
  BY DEF IInv, Core, Arrive, Str
<1>4. stream'.buf = b
  <2> HIDE DEF b
  <2>1. SubSeq(b, 1, Len(b)) = b
    BY <1>2, SubSeqFull
  <2> QED
    BY <1>1, <1>3, <2>1 DEF Load, Proper, Streams
<1>5. <<m>> \in Seq(Sendable) /\ EncodingOf(<<m>>) = b
  BY <1>1, EncodingOne
<1> QED
  BY <1>2, <1>3, <1>4, <1>5, HeldNext DEF ShortBuffers

(* A reset stream holds nothing. *)
LEMMA ClearHeld ==
  ASSUME IInv, Clear
  PROVE  Held'
<1>1. Proper(stream) /\ since' = << >> /\ spoiled' = FALSE /\ stream' = Load(stream, << >>)
  BY DEF IInv, Core, Clear, Reset
<1>2. stream'.buf = << >>
  BY <1>1 DEF Load, Proper, Streams
<1> QED
  BY <1>1, <1>2, EncodingEmpty, EmptyIsShort, HeldNext

(* An accepted write adds a frame that holds what the buffer does. *)
LEMMA SendHeld ==
  ASSUME P!Framed, Held, FramesHeld, Send
  PROVE  P!Framed' /\ Held' /\ FramesHeld'
<1> DEFINE R == [held : Seq(Sendable), spoiled : BOOLEAN]
           f == [held |-> since, spoiled |-> spoiled]
           n == Len(frames)
<1>1. /\ since \in Seq(Sendable) /\ spoiled \in BOOLEAN /\ stream.buf \in ShortBuffers
      /\ (~spoiled => stream.buf = EncodingOf(since))
  BY DEF Held
<1>2. /\ C!Write(stream.buf) /\ stream' = stream /\ since' = since /\ spoiled' = spoiled
      /\ frames' = IF accepted' = accepted THEN frames ELSE Append(frames, f)
  BY DEF Send, SentContents, vars
<1>3. Held'
  BY <1>1, <1>2, HeldNext
<1>4. /\ P!Framed'
      /\ \A i \in 1 .. Len(accepted) : P!MessageAt(i)' = P!MessageAt(i)
      /\ \/ accepted' = accepted
         \/ /\ accepted' # accepted
            /\ Len(accepted') = Len(accepted) + 1
            /\ \A i \in 1 .. Len(accepted') : i = Len(accepted) + 1 => P!MessageAt(i)' = stream.buf
  BY <1>1, <1>2, WriteAdds
<1>5. /\ frames \in Seq(R) /\ Len(frames) = Len(accepted) /\ n \in Nat
      /\ \A i \in 1 .. n : frames[i].spoiled \/ P!MessageAt(i) = EncodingOf(frames[i].held)
  BY DEF FramesHeld
<1>6. f \in R /\ f.held = since /\ f.spoiled = spoiled
  BY <1>1
<1> HIDE DEF R, f, n
<1>7. CASE accepted' = accepted
  <2>1. frames' = frames /\ Len(accepted') = Len(accepted)
    BY <1>2, <1>7
  <2>2. \A i \in 1 .. Len(frames) : frames[i].spoiled \/ P!MessageAt(i)' = EncodingOf(frames[i].held)
    BY <1>4, <1>5 DEF n
  <2>3. FramesHeld'
    BY <1>5, <2>1, <2>2, FramesHeldNext DEF R
  <2> QED
    BY <1>3, <1>4, <2>3
<1>8. CASE accepted' # accepted
  <2>1. frames' = Append(frames, f) /\ Len(accepted') = n + 1
        /\ \A i \in 1 .. n + 1 : i = n + 1 => P!MessageAt(i)' = stream.buf
    BY <1>2, <1>4, <1>5, <1>8 DEF n
  <2>2. /\ frames' \in Seq(R) /\ Len(frames') = n + 1 /\ frames'[n + 1] = f
        /\ \A i \in 1 .. n : frames'[i] = frames[i]
    BY <1>5, <1>6, <2>1, AppendProperties DEF n
  <2>3. ASSUME NEW i \in 1 .. n + 1
        PROVE  frames'[i].spoiled \/ P!MessageAt(i)' = EncodingOf(frames'[i].held)
    <3>1. CASE i = n + 1
      <4>1. frames'[i] = f /\ P!MessageAt(i)' = stream.buf
        BY <2>1, <2>2, <3>1
      <4>2. spoiled \/ P!MessageAt(i)' = EncodingOf(since)
        BY <1>1, <4>1
      <4> QED
        BY <1>6, <4>1, <4>2
    <3>2. CASE i # n + 1
      <4>1. i \in 1 .. n
        BY <1>5, <3>2
      <4>2. P!MessageAt(i)' = P!MessageAt(i) /\ frames'[i] = frames[i]
        BY <1>4, <1>5, <2>2, <4>1 DEF n
      <4>3. frames[i].spoiled \/ P!MessageAt(i) = EncodingOf(frames[i].held)
        BY <1>5, <4>1
      <4> QED
        BY <4>2, <4>3
    <3> QED
      BY <3>1, <3>2
  <2>4. FramesHeld'
    BY <2>1, <2>2, <2>3, FramesHeldNext DEF R
  <2> QED
    BY <1>3, <1>4, <2>4
<1> QED
  BY <1>7, <1>8

(* Every step keeps the invariant. *)
LEMMA NextSInv ==
  ASSUME NoFrameWraps, SInv, [SessionNext]_sessionVars
  PROVE  SInv'
<1>1. IInv /\ P!Framed /\ Held /\ FramesHeld
  BY DEF SInv
<1>2. IInv'
  <2>1. [Next]_vars
    BY StreamSteps DEF sessionVars
  <2> QED
    BY <1>1, <2>1, NextIInv
<1>3. ASSUME NEW m \in Messages, EncodeNext(m) PROVE P!Framed' /\ Held' /\ FramesHeld'
  <2>1. UNCHANGED <<connectionVars, frames>>
    BY <1>3 DEF EncodeNext
  <2> QED
    BY <1>1, <1>3, <2>1, EncodeHeld, QuietStep
<1>4. ASSUME NEW order \in EvalOrders, NEW junk \in Junk, DecodeNext(order, junk)
      PROVE  P!Framed' /\ Held' /\ FramesHeld'
  <2>1. UNCHANGED <<connectionVars, frames>>
    BY <1>4 DEF DecodeNext
  <2> QED
    BY <1>1, <1>4, <2>1, DecodeNextHeld, QuietStep
<1>5. ASSUME NEW m \in Arrivals, Arrive(m) PROVE P!Framed' /\ Held' /\ FramesHeld'
  <2>1. UNCHANGED <<connectionVars, frames>>
    BY <1>5 DEF Arrive
  <2> QED
    BY <1>1, <1>5, <2>1, ArriveHeld, QuietStep
<1>6. CASE Clear
  <2>1. UNCHANGED <<connectionVars, frames>>
    BY <1>6 DEF Clear
  <2>2. P!Framed' /\ Held' /\ FramesHeld'
    BY <1>1, <1>6, <2>1, ClearHeld, QuietStep
  <2> QED
    BY <1>2, <2>2 DEF SInv
<1>7. CASE Send
  <2>1. P!Framed' /\ Held' /\ FramesHeld'
    BY <1>1, <1>7, SendHeld
  <2> QED
    BY <1>2, <2>1 DEF SInv
<1>8. CASE UNCHANGED sessionVars
  <2>1. UNCHANGED <<connectionVars, frames>> /\ since' = since /\ spoiled' = spoiled /\ stream' = stream
    BY <1>8 DEF sessionVars, vars
  <2>2. Held'
    BY <1>1, <2>1, HeldNext DEF Held
  <2> QED
    BY <1>1, <1>2, <2>1, <2>2, QuietStep DEF SInv
<1> QED
  BY <1>2, <1>3, <1>4, <1>5, <1>6, <1>7, <1>8 DEF SessionNext, SInv

(* Where no stream is too long for the length field: what the length field *)
(* of an accepted write delimits on the wire is exactly the messages that  *)
(* were encoded since the stream was last loaded or reset, whatever was    *)
(* decoded, sent and torn meanwhile, unless an encode since then threw,    *)
(* was dropped by a failed stream or wrote over what str() had put.        *)
THEOREM FramesHoldAll ==
  ASSUME NoFrameWraps
  PROVE  SessionSpec => []UnspoiledFramesHoldAll
<1>1. SInv /\ [SessionNext]_sessionVars => SInv'
  BY NextSInv
<1>2. SInv => UnspoiledFramesHoldAll
  <2> SUFFICES ASSUME SInv PROVE UnspoiledFramesHoldAll
    OBVIOUS
  <2>1. /\ frames \in Seq([held : Seq(Sendable), spoiled : BOOLEAN])
        /\ Len(frames) = Len(accepted)
        /\ \A i \in 1 .. Len(frames) : frames[i].spoiled \/ P!MessageAt(i) = EncodingOf(frames[i].held)
    BY DEF SInv, FramesHeld
  <2>2. DOMAIN frames = 1 .. Len(frames)
    BY <2>1
  <2>3. \A i : P!MessageAt(i) = C!MessageAt(i)
    BY DEF P!MessageAt, C!MessageAt, P!SizeAfter, C!SizeAfter, P!Build32, C!Build32,
           P!Build16, C!Build16, P!M16, C!M16
  <2> QED
    BY <2>1, <2>2, <2>3 DEF UnspoiledFramesHoldAll, FrameHolds
<1> QED
  BY <1>1, <1>2, InitSInv, PTL DEF SessionSpec
=============================================================================
