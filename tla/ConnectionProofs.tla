-------------------------- MODULE ConnectionProofs --------------------------
(***************************************************************************)
(* Theorems about Connection, for every base, every set of contents, every *)
(* string size and with or without failing system calls.                   *)
(***************************************************************************)
EXTENDS Connection, WireProofs

-----------------------------------------------------------------------------
(* The length field and the contents are bytes. *)

(* Every length has a length field of four bytes. *)
LEMMA SizeFieldType ==
  ASSUME NEW n \in Nat
  PROVE  SizeField(n) \in Seq(Byte) /\ Len(SizeField(n)) = 4
<1>1. /\ n \div Base \in Nat
      /\ n \div M16 \in Nat
      /\ n % Base \in Byte
  BY DivMod, BaseType, Zenon DEF Byte
<1>2. (n \div M16) \div Base \in Nat
  BY <1>1, DivMod, BaseType, Zenon
<1>3. /\ (n \div Base) % Base \in Byte
      /\ (n \div M16) % Base \in Byte
      /\ ((n \div M16) \div Base) % Base \in Byte
  BY <1>1, <1>2, DivMod, BaseType, Zenon DEF Byte
<1> DEFINE a == n % Base
           b == (n \div Base) % Base
           d == (n \div M16) % Base
           e == ((n \div M16) \div Base) % Base
<1>4. a \in Byte /\ b \in Byte /\ d \in Byte /\ e \in Byte
  BY <1>1, <1>3
<1>5. SizeField(n) = <<a, b, d, e>>
  BY DEF SizeField
<1> HIDE DEF a, b, d, e
<1> QED
  BY <1>4, <1>5

(* Contents are bytes and what is counted is a natural number. *)
LEMMA ContentsType ==
  ASSUME NEW c \in Contents
  PROVE  c \in Seq(Byte) /\ Len(c) \in Nat /\ ActualLen(c) \in Nat
<1>1. c \in Seq(Byte) /\ Len(c) \in Nat
  BY ConnectionAssumption
<1>2. Len(c) + 4 \in Nat
  BY <1>1
<1>3. (Len(c) + 4) % (M16 * M16) \in 0 .. (M16 * M16) - 1
  BY <1>2, DivMod, BaseType, Zenon
<1>4. ActualLen(c) \in 0 .. (M16 * M16) - 1
  BY <1>3, Zenon DEF ActualLen
<1> QED
  BY <1>1, <1>4, BaseType

(* A frame is a string of bytes, four longer than its contents. *)
LEMMA FrameType ==
  ASSUME NEW c \in Contents
  PROVE  /\ Frame(c) \in Seq(Byte)
         /\ Len(Frame(c)) = Len(c) + 4
         /\ \A i \in 1 .. 4 : Frame(c)[i] = SizeField(ActualLen(c))[i]
<1> DEFINE f == SizeField(ActualLen(c))
<1>1. f \in Seq(Byte) /\ Len(f) = 4
  BY ContentsType, SizeFieldType
<1>2. c \in Seq(Byte) /\ Len(c) \in Nat
  BY ContentsType
<1>3. Frame(c) = f \o c
  BY DEF Frame
<1> HIDE DEF f
<1>4. /\ f \o c \in Seq(Byte)
      /\ Len(f \o c) = Len(f) + Len(c)
      /\ \A i \in 1 .. Len(f) + Len(c) :
           (f \o c)[i] = IF i <= Len(f) THEN f[i] ELSE c[i - Len(f)]
  BY <1>1, <1>2, ConcatProperties, Zenon
<1>5. \A i \in 1 .. 4 : (f \o c)[i] = f[i]
  BY <1>1, <1>2, <1>4
<1> QED
  BY <1>1, <1>2, <1>3, <1>4, <1>5 DEF f

-----------------------------------------------------------------------------
(* Types. *)

(* A system call never moves more than it was asked to or than there is. *)
LEMMA RawWriteType ==
  ASSUME TypeOK, NEW c \in Contents, NEW n \in RawWrite(Frame(c))
  PROVE  n \in Int /\ Moved(n) \in 0 .. Len(Frame(c)) /\ (n >= 0 => Moved(n) = n)
<1>1. Len(Frame(c)) \in Nat /\ Len(Frame(c)) >= 4
  BY FrameType, ContentsType
<1>2. n \in {0, SysError, Len(Frame(c))} \cup 1 .. Len(Frame(c))
  BY DEF RawWrite
<1> QED
  BY <1>1, <1>2 DEF Moved, SysError

(* The same for reading. *)
LEMMA RawReadType ==
  ASSUME TypeOK, NEW n \in RawRead
  PROVE  n \in Int /\ Moved(n) \in 0 .. InFlight /\ (n >= 0 => Moved(n) = n)
<1>1. InFlight \in Nat /\ StringSize \in Nat
  BY ConnectionAssumption DEF TypeOK, InFlight
<1>2. Smaller(StringSize, InFlight) \in 0 .. InFlight
  BY <1>1 DEF Smaller
<1>3. n \in {0, SysError} \cup 1 .. Smaller(StringSize, InFlight)
  BY DEF RawRead
<1> QED
  BY <1>1, <1>2, <1>3 DEF Moved, SysError

(* Four bytes build a natural number. *)
LEMMA Build32Type ==
  ASSUME NEW a \in Byte, NEW b \in Byte, NEW c \in Byte, NEW d \in Byte
  PROVE  Build32(a, b, c, d) \in Nat
<1>1. /\ a \in Nat /\ b \in Nat /\ c \in Nat /\ d \in Nat
  BY BaseType DEF Byte
<1>2. Build16(c, d) \in Nat /\ Build16(a, b) \in Nat
  BY <1>1, BaseType DEF Build16
<1> QED
  BY <1>2, BaseType DEF Build32

(* Four unread bytes hold a size. *)
LEMMA MessageSizeType ==
  ASSUME TypeOK, consumed + 4 <= Len(history)
  PROVE  MessageSize \in Nat
<1>1. history \in Seq(Byte) /\ consumed \in Nat /\ Len(history) \in Nat
  BY DEF TypeOK
<1>2. \A k \in 1 .. 4 : history[consumed + k] \in Byte
  BY <1>1
<1>3. /\ history[consumed + 1] \in Byte /\ history[consumed + 2] \in Byte
      /\ history[consumed + 3] \in Byte /\ history[consumed + 4] \in Byte
  BY <1>2
<1> QED
  BY <1>3, Build32Type DEF MessageSize, SizeAfter

(* No byte count passes both checks of the second rawRead. *)
LEMMA BodyNeverComplete ==
  ASSUME TypeOK, NEW n \in Int
  PROVE  ~BodyComplete(n)
BY DEF TypeOK, BodyComplete

(* Appending part of a frame keeps the history a string of bytes. *)
LEMMA HistoryGrows ==
  ASSUME TypeOK, NEW c \in Contents, NEW k \in 0 .. Len(Frame(c))
  PROVE  LET h == history \o SubSeq(Frame(c), 1, k)
         IN  /\ h \in Seq(Byte)
             /\ Len(h) = Len(history) + k
             /\ \A i \in 1 .. Len(history) : h[i] = history[i]
             /\ \A i \in 1 .. k : h[Len(history) + i] = Frame(c)[i]
<1> DEFINE part == SubSeq(Frame(c), 1, k)
<1>1. Frame(c) \in Seq(Byte) /\ Len(Frame(c)) \in Nat
  BY FrameType, ContentsType
<1>2. \A i \in 1 .. k : Frame(c)[i] \in Byte
  BY <1>1
<1>3. part \in Seq(Byte)
  BY <1>1, <1>2
<1>4. Len(part) = k /\ \A i \in 1 .. k : part[i] = Frame(c)[i]
  BY <1>1, <1>2
<1>5. history \in Seq(Byte) /\ Len(history) \in Nat
  BY DEF TypeOK
<1> HIDE DEF part
<1>6. /\ history \o part \in Seq(Byte)
      /\ Len(history \o part) = Len(history) + Len(part)
      /\ \A i \in 1 .. Len(history) + Len(part) :
           (history \o part)[i] =
             IF i <= Len(history) THEN history[i] ELSE part[i - Len(history)]
  BY <1>3, <1>5, ConcatProperties, Zenon
<1>7. \A i \in 1 .. Len(history) : (history \o part)[i] = history[i]
  BY <1>4, <1>5, <1>6
<1>8. \A i \in 1 .. k : (history \o part)[Len(history) + i] = Frame(c)[i]
  <2> TAKE i \in 1 .. k
  <2>1. Len(history) + i \in 1 .. Len(history) + Len(part) /\ ~(Len(history) + i <= Len(history))
    BY <1>1, <1>4, <1>5
  <2>2. (history \o part)[Len(history) + i] = part[(Len(history) + i) - Len(history)]
    BY <1>6, <2>1
  <2>3. (Len(history) + i) - Len(history) = i
    BY <1>1, <1>5
  <2> QED
    BY <1>4, <2>2, <2>3
<1> QED
  BY <1>4, <1>6, <1>7, <1>8 DEF part

(* The first state is well typed. *)
LEMMA InitType == Init => TypeOK
<1> SUFFICES ASSUME Init PROVE TypeOK
  OBVIOUS
<1>1. /\ history = << >> /\ ingested = << >> /\ accepted = << >>
      /\ consumed = 0 /\ readable \in BOOLEAN /\ torn = FALSE
  BY DEF Init
<1>2. \A S : << >> \in Seq(S)
  OBVIOUS
<1>3. history \in Seq(Byte) /\ ingested \in Seq(Seq(Byte))
  BY <1>1, <1>2
<1>4. accepted \in Seq([at : Nat, put : Nat, len : Nat])
  BY <1>1, <1>2, Zenon
<1>5. consumed \in 0 .. Len(history)
  BY <1>1
<1>6. writer \in [valid : BOOLEAN, destroy : BOOLEAN, alive : BOOLEAN]
  BY DEF Init
<1>7. reader \in [pc : {"idle", "body"}, size : Nat]
  BY DEF Init, Idle
<1>8. readable \in BOOLEAN /\ torn \in BOOLEAN
  BY <1>1, Zenon
<1> QED
  BY <1>3, <1>4, <1>5, <1>6, <1>7, <1>8, Zenon DEF TypeOK

(* Connection::write keeps the types. *)
LEMMA WriteType ==
  ASSUME TypeOK, NEW c \in Contents, Write(c)
  PROVE  TypeOK'
<1> PICK n \in RawWrite(Frame(c)) :
      /\ history' = history \o SubSeq(Frame(c), 1, Moved(n))
      /\ accepted' = IF n = ActualLen(c)
                     THEN Append(accepted, [at |-> Len(history), put |-> Moved(n), len |-> Len(c)])
                     ELSE accepted
      /\ torn' = (torn \/ (n # ActualLen(c) /\ Moved(n) > 0))
  BY DEF Write
<1>1. Moved(n) \in 0 .. Len(Frame(c)) /\ Moved(n) \in Nat
  BY RawWriteType, FrameType, ContentsType
<1>2. history' \in Seq(Byte) /\ Len(history') = Len(history) + Moved(n)
  BY <1>1, HistoryGrows
<1>3. consumed' \in 0 .. Len(history')
  BY <1>1, <1>2 DEF TypeOK, Write
<1>4. accepted' \in Seq([at : Nat, put : Nat, len : Nat])
  <2> DEFINE R == [at : Nat, put : Nat, len : Nat]
             r == [at |-> Len(history), put |-> Moved(n), len |-> Len(c)]
  <2>1. r \in R
    BY <1>1, ContentsType DEF TypeOK
  <2>2. accepted \in Seq(R) /\ accepted' \in {accepted, Append(accepted, r)}
    BY DEF TypeOK
  <2> HIDE DEF R, r
  <2>3. Append(accepted, r) \in Seq(R)
    BY <2>1, <2>2
  <2> QED
    BY <2>2, <2>3 DEF R
<1>5. torn' \in BOOLEAN
  BY DEF TypeOK
<1> QED
  BY <1>2, <1>3, <1>4, <1>5 DEF TypeOK, Write

(* So does the first rawRead of Connection::read. *)
LEMMA ReadSizeType ==
  ASSUME TypeOK, ReadSize
  PROVE  TypeOK'
<1> PICK n \in RawRead :
      /\ consumed' = consumed + Moved(n)
      /\ reader' = IF n = 4 /\ MessageSize >= 4
                   THEN [pc |-> "body", size |-> MessageSize]
                   ELSE Idle
  BY DEF ReadSize
<1>1. n \in Int /\ Moved(n) \in 0 .. InFlight /\ (n >= 0 => Moved(n) = n)
  BY RawReadType
<1>2. consumed' \in 0 .. Len(history')
  BY <1>1 DEF TypeOK, ReadSize, InFlight
<1>3. n = 4 => MessageSize \in Nat
  <2> HAVE n = 4
  <2>1. consumed + 4 <= Len(history)
    BY <1>1 DEF TypeOK, InFlight
  <2> QED
    BY <2>1, MessageSizeType
<1>4. reader' \in [pc : {"idle", "body"}, size : Nat]
  BY <1>3 DEF Idle
<1> QED
  BY <1>2, <1>4 DEF TypeOK, ReadSize

(* The second rawRead keeps the types and ingests nothing. *)
LEMMA ReadBodyType ==
  ASSUME TypeOK, ReadBody
  PROVE  TypeOK' /\ ingested' = ingested
<1> PICK n \in RawRead :
      /\ consumed' = consumed + Moved(n)
      /\ ingested' = IF BodyComplete(n) THEN Append(ingested, Storage(n)) ELSE ingested
  BY DEF ReadBody
<1>1. n \in Int /\ Moved(n) \in 0 .. InFlight
  BY RawReadType
<1>2. consumed' \in 0 .. Len(history')
  BY <1>1 DEF TypeOK, ReadBody, InFlight
<1>3. ingested' = ingested
  BY <1>1, BodyNeverComplete
<1> QED
  BY <1>2, <1>3 DEF TypeOK, ReadBody, Idle

(* Every step keeps the types, and none ingests a message. *)
LEMMA NextType ==
  ASSUME TypeOK, [Next]_vars
  PROVE  TypeOK' /\ ingested' = ingested
<1>1. ASSUME NEW c \in Contents, Write(c) PROVE TypeOK' /\ ingested' = ingested
  BY <1>1, WriteType DEF Write
<1>2. ASSUME NEW c \in Contents, WriteTooLong(c) PROVE TypeOK' /\ ingested' = ingested
  BY <1>2 DEF WriteTooLong, TypeOK, vars
<1>3. CASE DestroyWriter
  BY <1>3 DEF DestroyWriter, TypeOK
<1>4. CASE ReadSize
  BY <1>4, ReadSizeType DEF ReadSize
<1>5. CASE ReadBody
  BY <1>5, ReadBodyType
<1>6. CASE UNCHANGED vars
  BY <1>6 DEF vars, TypeOK
<1> QED
  BY <1>1, <1>2, <1>3, <1>4, <1>5, <1>6 DEF Next

(* Type correctness: in particular Connection::read never runs past the    *)
(* bytes the peer has written.                                             *)
THEOREM TypeCorrect == Spec => []TypeOK
<1>1. Init => TypeOK
  BY InitType
<1>2. TypeOK /\ [Next]_vars => TypeOK'
  BY NextType
<1> QED
  BY <1>1, <1>2, PTL DEF Spec

-----------------------------------------------------------------------------
(* Framing. *)

(* FramesTile with the ghost byte counts in the place of the length fields *)
(* on the stream; the two agree where AcceptedIsWhole holds.               *)
CountsTile ==
  torn \/
    /\ \A i \in 1 .. Len(accepted) :
         accepted[i].at = IF i = 1 THEN 0 ELSE accepted[i - 1].at + accepted[i - 1].put
    /\ Len(history) = IF Len(accepted) = 0 THEN 0
                      ELSE accepted[Len(accepted)].at + accepted[Len(accepted)].put

Framed == TypeOK /\ AcceptedIsWhole /\ CountsTile

(* Without wrapping, what is counted is the length of the frame. *)
LEMMA ActualLenIsWhole ==
  ASSUME NoLengthWraps, NEW c \in Contents, FitsU32(Len(c))
  PROVE  ActualLen(c) = Len(c) + 4 /\ ActualLen(c) < M16 * M16 /\ ActualLen(c) = Len(Frame(c))
<1>1. Len(c) + 4 \in Nat /\ Len(c) + 4 < M16 * M16
  BY ContentsType DEF NoLengthWraps
<1>2. (Len(c) + 4) % (M16 * M16) = Len(c) + 4
  BY <1>1, SmallMod, BaseType, Zenon
<1>3. ActualLen(c) = Len(c) + 4
  BY <1>2, Zenon DEF ActualLen
<1> QED
  BY <1>1, <1>3, FrameType

(* The field written is read back as the length it was made from. *)
LEMMA SizeFieldReadsBack ==
  ASSUME NEW n \in Nat, n < M16 * M16
  PROVE  Build32(SizeField(n)[1], SizeField(n)[2], SizeField(n)[3], SizeField(n)[4]) = n
<1> DEFINE a == n % Base
           b == (n \div Base) % Base
           d == (n \div M16) % Base
           e == ((n \div M16) \div Base) % Base
<1>1. SizeField(n) = <<a, b, d, e>>
  BY DEF SizeField
<1>2. Build32(a, b, d, e) = n
  BY FourDigits
<1> HIDE DEF a, b, d, e
<1> QED
  BY <1>1, <1>2

(* The length field after k bytes, in the next state. *)
SizeAfterNext(k) == Build32(history'[k + 1], history'[k + 2], history'[k + 3], history'[k + 4])

(* A length field that is wholly written stays as it is. *)
LEMMA SizeAfterStable ==
  ASSUME TypeOK, NEW k \in Nat, k + 4 <= Len(history),
         \A i \in 1 .. Len(history) : history'[i] = history[i]
  PROVE  SizeAfterNext(k) = SizeAfter(k)
<1>1. Len(history) \in Nat
  BY DEF TypeOK
<1>2. /\ history'[k + 1] = history[k + 1] /\ history'[k + 2] = history[k + 2]
      /\ history'[k + 3] = history[k + 3] /\ history'[k + 4] = history[k + 4]
  BY <1>1
<1> QED
  BY <1>2 DEF SizeAfter, SizeAfterNext

(* The entries of accepted, with their types. *)
LEMMA EntryType ==
  ASSUME TypeOK, NEW i \in 1 .. Len(accepted)
  PROVE  /\ accepted[i].at \in Nat /\ accepted[i].put \in Nat /\ accepted[i].len \in Nat
         /\ i \in DOMAIN accepted
<1> DEFINE R == [at : Nat, put : Nat, len : Nat]
<1>1. accepted \in Seq(R)
  BY DEF TypeOK
<1> HIDE DEF R
<1>2. accepted[i] \in R /\ i \in DOMAIN accepted
  BY <1>1
<1> QED
  BY <1>2 DEF R

(* What FramesTile says follows from the ghost counts. *)
LEMMA CountsGiveTiles ==
  ASSUME Framed
  PROVE  FramesTile
<1>1. \A i \in 1 .. Len(accepted) : SizeAfter(accepted[i].at) = accepted[i].put
  BY DEF Framed, AcceptedIsWhole, TypeOK
<1>2. Len(accepted) \in Nat
  BY DEF Framed, TypeOK
<1>3. CASE torn
  BY <1>3 DEF FramesTile
<1>4. CASE ~torn
  <2>1. \A i \in 1 .. Len(accepted) :
          accepted[i].at = IF i = 1 THEN 0
                           ELSE accepted[i - 1].at + SizeAfter(accepted[i - 1].at)
    <3> TAKE i \in 1 .. Len(accepted)
    <3>1. CASE i = 1
      BY <1>4, <3>1 DEF Framed, CountsTile
    <3>2. CASE i # 1
      <4>1. i - 1 \in 1 .. Len(accepted)
        BY <1>2, <3>2
      <4>2. accepted[i].at = accepted[i - 1].at + accepted[i - 1].put
        BY <1>4, <3>2 DEF Framed, CountsTile
      <4> QED
        BY <1>1, <3>2, <4>1, <4>2
    <3> QED
      BY <3>1, <3>2
  <2>2. Len(history) = IF Len(accepted) = 0 THEN 0
                       ELSE accepted[Len(accepted)].at + SizeAfter(accepted[Len(accepted)].at)
    <3>1. CASE Len(accepted) = 0
      BY <1>4, <3>1 DEF Framed, CountsTile
    <3>2. CASE Len(accepted) # 0
      <4>1. Len(accepted) \in 1 .. Len(accepted)
        BY <1>2, <3>2
      <4> QED
        BY <1>1, <1>4, <3>2, <4>1 DEF Framed, CountsTile
    <3> QED
      BY <3>1, <3>2
  <2> QED
    BY <2>1, <2>2 DEF FramesTile
<1> QED
  BY <1>3, <1>4

(* Connection::write keeps the stream framed. *)
LEMMA WriteFramed ==
  ASSUME NoLengthWraps, Framed, NEW c \in Contents, Write(c)
  PROVE  AcceptedIsWhole' /\ CountsTile'
<1> DEFINE new == [at |-> Len(history), put |-> Len(c) + 4, len |-> Len(c)]
<1>1. TypeOK /\ TypeOK' /\ Len(history) \in Nat /\ Len(accepted) \in Nat
  BY WriteType DEF Framed, TypeOK
<1>2. PICK n \in RawWrite(Frame(c)) :
        /\ history' = history \o SubSeq(Frame(c), 1, Moved(n))
        /\ accepted' = IF n = ActualLen(c)
                       THEN Append(accepted, [at |-> Len(history), put |-> Moved(n), len |-> Len(c)])
                       ELSE accepted
        /\ torn' = (torn \/ (n # ActualLen(c) /\ Moved(n) > 0))
  BY DEF Write
<1>3. n \in Int /\ Moved(n) \in 0 .. Len(Frame(c)) /\ (n >= 0 => Moved(n) = n)
  BY <1>1, RawWriteType
<1>4. /\ Len(history') = Len(history) + Moved(n)
      /\ \A i \in 1 .. Len(history) : history'[i] = history[i]
      /\ \A i \in 1 .. Moved(n) : history'[Len(history) + i] = Frame(c)[i]
  BY <1>1, <1>2, <1>3, HistoryGrows
<1>5. /\ ActualLen(c) = Len(c) + 4 /\ Len(Frame(c)) = Len(c) + 4
      /\ ActualLen(c) < M16 * M16 /\ ActualLen(c) \in Nat /\ Len(c) \in Nat
  BY ActualLenIsWhole, ContentsType DEF Write
<1>6. \A i \in 1 .. Len(accepted) :
        /\ accepted[i].at \in Nat /\ accepted[i].put \in Nat /\ accepted[i].len \in Nat
        /\ accepted[i].put = accepted[i].len + 4
        /\ accepted[i].at + accepted[i].put <= Len(history)
        /\ SizeAfter(accepted[i].at) = accepted[i].put
  BY <1>1, EntryType DEF Framed, AcceptedIsWhole
<1>7. \A i \in 1 .. Len(accepted) :
        /\ accepted[i].at + accepted[i].put <= Len(history')
        /\ SizeAfterNext(accepted[i].at) = accepted[i].put
  <2> TAKE i \in 1 .. Len(accepted)
  <2>1. accepted[i].at + accepted[i].put <= Len(history')
    BY <1>1, <1>3, <1>4, <1>5, <1>6
  <2>2. accepted[i].at \in Nat /\ accepted[i].at + 4 <= Len(history)
    <3>1. /\ accepted[i].at \in Nat /\ accepted[i].len \in Nat
          /\ accepted[i].put = accepted[i].len + 4
          /\ accepted[i].at + accepted[i].put <= Len(history)
      BY <1>6
    <3> QED
      BY <1>1, <3>1
  <2>3. SizeAfterNext(accepted[i].at) = SizeAfter(accepted[i].at)
    BY <1>1, <1>4, <2>2, SizeAfterStable
  <2> QED
    BY <1>6, <2>1, <2>3
<1>8. CASE n # ActualLen(c)
  <2>1. accepted' = accepted
    BY <1>2, <1>8
  <2>2. AcceptedIsWhole'
    <3>1. DOMAIN accepted = 1 .. Len(accepted)
      BY <1>1 DEF TypeOK
    <3> QED
      BY <1>6, <1>7, <2>1, <3>1 DEF AcceptedIsWhole, SizeAfter, SizeAfterNext
  <2>3. ASSUME Moved(n) > 0 PROVE CountsTile'
    <3>1. torn'
      BY <1>2, <1>8, <2>3, Zenon
    <3> QED
      BY <3>1 DEF CountsTile
  <2>4. ASSUME ~(Moved(n) > 0) PROVE CountsTile'
    <3>1. Len(history') = Len(history)
      BY <1>1, <1>3, <1>4, <1>5, <2>4
    <3>2. torn' <=> torn
      BY <1>2, <2>4, Zenon
    <3> QED
      BY <2>1, <3>1, <3>2, Zenon DEF CountsTile, Framed
  <2> QED
    BY <2>2, <2>3, <2>4
<1>9. CASE n = ActualLen(c)
  <2>1. Moved(n) = Len(c) + 4 /\ accepted' = Append(accepted, new) /\ (torn' <=> torn)
    <3>1. Moved(n) = Len(c) + 4
      BY <1>3, <1>5, <1>9
    <3>2. accepted' = Append(accepted, new)
      BY <1>2, <1>9, <3>1, Zenon
    <3>3. torn' <=> torn
      BY <1>2, <1>9, Zenon
    <3> QED
      BY <3>1, <3>2, <3>3, Zenon
  <2>2. new.at = Len(history) /\ new.put = Len(c) + 4 /\ new.len = Len(c)
    OBVIOUS
  <2> HIDE DEF new
  <2>3. /\ Len(accepted') = Len(accepted) + 1
        /\ DOMAIN accepted' = 1 .. Len(accepted) + 1
        /\ accepted'[Len(accepted) + 1] = new
        /\ \A i \in 1 .. Len(accepted) : accepted'[i] = accepted[i]
    BY <1>1, <2>1 DEF TypeOK
  <2>4. SizeAfterNext(Len(history)) = Len(c) + 4
    <3> DEFINE f == SizeField(ActualLen(c))
    <3>1. \A i \in 1 .. 4 : history'[Len(history) + i] = f[i]
      <4> HIDE DEF f
      <4> SUFFICES ASSUME NEW i \in 1 .. 4 PROVE history'[Len(history) + i] = f[i]
        OBVIOUS
      <4>1. Frame(c)[i] = f[i]
        BY FrameType DEF f
      <4>2. i \in 1 .. Moved(n)
        BY <1>5, <2>1
      <4> QED
        BY <1>4, <4>1, <4>2, Zenon
    <3>2. /\ history'[Len(history) + 1] = f[1] /\ history'[Len(history) + 2] = f[2]
          /\ history'[Len(history) + 3] = f[3] /\ history'[Len(history) + 4] = f[4]
      BY <3>1
    <3>3. Build32(f[1], f[2], f[3], f[4]) = ActualLen(c)
      BY <1>5, SizeFieldReadsBack
    <3> HIDE DEF f
    <3> QED
      BY <1>5, <3>2, <3>3 DEF SizeAfterNext
  <2>5. AcceptedIsWhole'
    <3>1. ASSUME NEW i \in 1 .. Len(accepted) + 1
          PROVE  /\ accepted'[i].put = accepted'[i].len + 4
                 /\ accepted'[i].at + accepted'[i].put <= Len(history')
                 /\ SizeAfterNext(accepted'[i].at) = accepted'[i].put
      <4>1. CASE i \in 1 .. Len(accepted)
        BY <1>6, <1>7, <2>3, <4>1
      <4>2. CASE i = Len(accepted) + 1
        BY <1>1, <1>4, <1>5, <2>1, <2>2, <2>3, <2>4, <4>2
      <4> QED
        BY <1>1, <4>1, <4>2
    <3> QED
      BY <2>3, <3>1 DEF AcceptedIsWhole, SizeAfter, SizeAfterNext
  <2>6. ASSUME torn PROVE CountsTile'
    BY <2>1, <2>6, Zenon DEF CountsTile
  <2>7. ASSUME ~torn PROVE CountsTile'
    <3>1. Len(history') = new.at + new.put
      BY <1>1, <1>4, <1>5, <2>1, <2>2
    <3>2. new.at = IF Len(accepted) = 0 THEN 0
                   ELSE accepted[Len(accepted)].at + accepted[Len(accepted)].put
      BY <2>2, <2>7 DEF Framed, CountsTile
    <3>3. ASSUME NEW i \in 1 .. Len(accepted')
          PROVE  accepted'[i].at = IF i = 1 THEN 0
                                   ELSE accepted'[i - 1].at + accepted'[i - 1].put
      <4>1. CASE i \in 1 .. Len(accepted)
        <5>1. i = 1 \/ i - 1 \in 1 .. Len(accepted)
          BY <1>1, <4>1
        <5> QED
          BY <2>3, <2>7, <4>1, <5>1 DEF Framed, CountsTile
      <4>2. CASE i = Len(accepted) + 1
        <5>1. i = 1 \/ (i - 1 = Len(accepted) /\ Len(accepted) \in 1 .. Len(accepted))
          BY <1>1, <4>2
        <5> QED
          BY <1>1, <2>3, <3>2, <4>2, <5>1
      <4> QED
        BY <1>1, <2>3, <4>1, <4>2
    <3> QED
      BY <1>1, <2>3, <3>1, <3>3 DEF CountsTile
  <2> QED
    BY <2>5, <2>6, <2>7
<1> QED
  BY <1>8, <1>9

(* So does every step. *)
LEMMA NextFramed ==
  ASSUME NoLengthWraps, Framed, [Next]_vars
  PROVE  Framed'
<1>1. TypeOK'
  BY NextType DEF Framed
<1>2. ASSUME NEW c \in Contents, Write(c) PROVE AcceptedIsWhole' /\ CountsTile'
  BY <1>2, WriteFramed
<1>3. ASSUME UNCHANGED <<history, accepted, torn>> PROVE AcceptedIsWhole' /\ CountsTile'
  BY <1>3 DEF Framed, AcceptedIsWhole, CountsTile, SizeAfter
<1>4. ASSUME NEW c \in Contents, WriteTooLong(c) PROVE UNCHANGED <<history, accepted, torn>>
  BY <1>4 DEF WriteTooLong, vars
<1>5. DestroyWriter \/ ReadSize \/ ReadBody \/ UNCHANGED vars => UNCHANGED <<history, accepted, torn>>
  BY DEF DestroyWriter, ReadSize, ReadBody, vars
<1>6. AcceptedIsWhole' /\ CountsTile'
  <2>1. CASE \E c \in Contents : Write(c)
    BY <1>2, <2>1
  <2>2. CASE \E c \in Contents : WriteTooLong(c)
    BY <1>3, <1>4, <2>2
  <2>3. CASE DestroyWriter \/ ReadSize \/ ReadBody \/ UNCHANGED vars
    BY <1>3, <1>5, <2>3
  <2> QED
    BY <2>1, <2>2, <2>3, Zenon DEF Next
<1> QED
  BY <1>1, <1>6, Zenon DEF Framed

(* The first state is framed. *)
LEMMA InitFramed == Init => Framed
BY InitType DEF Init, Framed, AcceptedIsWhole, CountsTile

(* Where no length wraps, a Connection::write that returns has put its     *)
(* whole frame on the stream and the length field counts all of it,        *)
(* whatever parts of other frames failing writes have left there.          *)
THEOREM WritesAreWhole ==
  ASSUME NoLengthWraps
  PROVE  Spec => []AcceptedIsWhole
<1>1. Framed /\ [Next]_vars => Framed'
  BY NextFramed
<1>2. Framed => AcceptedIsWhole
  BY DEF Framed
<1> QED
  BY <1>1, <1>2, InitFramed, PTL DEF Spec

(* Where no length wraps and until a write is cut short, following the     *)
(* length fields from the first byte on leads exactly from each accepted   *)
(* frame to the next and ends at the last byte written.                    *)
THEOREM StreamIsFramed ==
  ASSUME NoLengthWraps
  PROVE  Spec => []FramesTile
<1>1. Framed /\ [Next]_vars => Framed'
  BY NextFramed
<1>2. Framed => FramesTile
  BY CountsGiveTiles
<1> QED
  BY <1>1, <1>2, InitFramed, PTL DEF Spec
-----------------------------------------------------------------------------
(* The channel of whole messages. *)

(* Behind its length field a frame holds the contents. *)
LEMMA FrameBody ==
  ASSUME NEW c \in Contents
  PROVE  \A i \in 1 .. Len(c) : Frame(c)[4 + i] = c[i]
<1> DEFINE f == SizeField(ActualLen(c))
<1>1. f \in Seq(Byte) /\ Len(f) = 4 /\ c \in Seq(Byte) /\ Len(c) \in Nat
  BY ContentsType, SizeFieldType
<1>2. Frame(c) = f \o c
  BY DEF Frame
<1> HIDE DEF f
<1>3. \A i \in 1 .. Len(f) + Len(c) : (f \o c)[i] = IF i <= Len(f) THEN f[i] ELSE c[i - Len(f)]
  BY <1>1, ConcatProperties
<1> TAKE i \in 1 .. Len(c)
<1>4. 4 + i \in 1 .. Len(f) + Len(c) /\ ~(4 + i <= Len(f)) /\ (4 + i) - Len(f) = i
  BY <1>1
<1> QED
  BY <1>2, <1>3, <1>4

(* A part of the history that is wholly written stays as it is. *)
LEMMA PartStable ==
  ASSUME NEW h \in Seq(Byte), NEW g \in Seq(Byte), NEW k \in Nat, NEW n \in Nat,
         k + n <= Len(h), \A i \in 1 .. Len(h) : g[i] = h[i], Len(h) <= Len(g)
  PROVE  SubSeq(g, k + 5, k + n) = SubSeq(h, k + 5, k + n)
<1> DEFINE a == k + 5
           b == k + n
           x == SubSeq(g, a, b)
           y == SubSeq(h, a, b)
<1>1. a \in Int /\ b \in Int /\ a >= 1 /\ b <= Len(h) /\ Len(h) \in Nat
  OBVIOUS
<1> HIDE DEF a, b
<1>2. \A i \in a .. b : g[i] = h[i] /\ h[i] \in Byte
  BY <1>1
<1>3. /\ x \in Seq(Byte) /\ Len(x) = IF a <= b THEN b - a + 1 ELSE 0
      /\ \A i \in 1 .. b - a + 1 : x[i] = g[a + i - 1]
  BY <1>1, <1>2, SubSeqProperties
<1>4. /\ y \in Seq(Byte) /\ Len(y) = IF a <= b THEN b - a + 1 ELSE 0
      /\ \A i \in 1 .. b - a + 1 : y[i] = h[a + i - 1]
  BY <1>1, <1>2, SubSeqProperties
<1> HIDE DEF x, y
<1>5. ASSUME NEW i \in 1 .. Len(x) PROVE x[i] = y[i]
  <2>1. i \in 1 .. b - a + 1 /\ a + i - 1 \in a .. b
    BY <1>1, <1>3, <1>5
  <2> QED
    BY <1>2, <1>3, <1>4, <2>1
<1>6. x = y
  BY <1>3, <1>4, <1>5, SeqEqual
<1> QED
  BY <1>6 DEF x, y, a, b

(* What stands behind the length field of a frame is the contents. *)
LEMMA PartIsContents ==
  ASSUME NEW g \in Seq(Byte), NEW k \in Nat, NEW c \in Seq(Byte),
         \A i \in 1 .. Len(c) : g[k + (4 + i)] = c[i]
  PROVE  SubSeq(g, k + 5, k + (Len(c) + 4)) = c
<1> DEFINE a == k + 5
           n == Len(c)
           b == k + (n + 4)
           x == SubSeq(g, a, b)
<1>1. n \in Nat /\ a \in Int /\ b \in Int /\ b - a + 1 = n /\ (~(a <= b) => n = 0)
  OBVIOUS
<1>2. ASSUME NEW i \in 1 .. n PROVE g[a + i - 1] = c[i] /\ c[i] \in Byte
  <2>1. a + i - 1 = k + (4 + i)
    OBVIOUS
  <2> QED
    BY <2>1
<1>3. \A i \in a .. b : g[i] \in Byte
  <2> TAKE i \in a .. b
  <2>1. i - a + 1 \in 1 .. n /\ a + (i - a + 1) - 1 = i
    BY <1>1
  <2> HIDE DEF a, b, n
  <2> QED
    BY <1>2, <2>1
<1> HIDE DEF a, b, n
<1>4. /\ x \in Seq(Byte) /\ Len(x) = IF a <= b THEN b - a + 1 ELSE 0
      /\ \A i \in 1 .. b - a + 1 : x[i] = g[a + i - 1]
  BY <1>1, <1>3, SubSeqProperties
<1> HIDE DEF x
<1>5. Len(x) = n /\ \A i \in 1 .. n : x[i] = c[i]
  BY <1>1, <1>2, <1>4
<1>6. x = c
  BY <1>4, <1>5, SeqEqual DEF n
<1> QED
  BY <1>6 DEF x, a, b, n

(* The messages on the channel, now and after a step. *)
Sent == [i \in DOMAIN accepted |-> MessageAt(i)]

MessageAtNext(i) ==
  SubSeq(history', accepted'[i].at + 5, accepted'[i].at + SizeAfterNext(accepted'[i].at))

SentNext == [i \in DOMAIN accepted' |-> MessageAtNext(i)]

(* A write that returns sends its message; one that throws sends none, and *)
(* breaks the channel if part of it went out.                              *)
LEMMA WriteSends ==
  ASSUME NoLengthWraps, Framed, NEW c \in Contents, Write(c)
  PROVE  \/ SentNext = Append(Sent, c) /\ torn' = torn
         \/ SentNext = Sent /\ torn' \in {torn, TRUE}
<1> DEFINE new == [at |-> Len(history), put |-> Len(c) + 4, len |-> Len(c)]
           m == Len(accepted)
<1>1. TypeOK /\ TypeOK' /\ AcceptedIsWhole
  BY WriteType DEF Framed
<1>2. PICK n \in RawWrite(Frame(c)) :
        /\ history' = history \o SubSeq(Frame(c), 1, Moved(n))
        /\ accepted' = IF n = ActualLen(c)
                       THEN Append(accepted, [at |-> Len(history), put |-> Moved(n), len |-> Len(c)])
                       ELSE accepted
        /\ torn' = (torn \/ (n # ActualLen(c) /\ Moved(n) > 0))
  BY DEF Write
<1>3. n \in Int /\ Moved(n) \in 0 .. Len(Frame(c)) /\ (n >= 0 => Moved(n) = n)
  BY <1>1, RawWriteType
<1>4. /\ Len(history') = Len(history) + Moved(n)
      /\ \A i \in 1 .. Len(history) : history'[i] = history[i]
      /\ \A i \in 1 .. Moved(n) : history'[Len(history) + i] = Frame(c)[i]
  BY <1>1, <1>2, <1>3, HistoryGrows
<1>5. /\ ActualLen(c) = Len(c) + 4 /\ Len(Frame(c)) = Len(c) + 4
      /\ ActualLen(c) < M16 * M16 /\ ActualLen(c) \in Nat /\ Len(c) \in Nat /\ c \in Seq(Byte)
  BY ActualLenIsWhole, ContentsType DEF Write
<1>6. /\ history \in Seq(Byte) /\ history' \in Seq(Byte) /\ Len(history) \in Nat
      /\ torn \in BOOLEAN /\ m \in Nat /\ DOMAIN accepted = 1 .. m
      /\ accepted \in Seq([at : Nat, put : Nat, len : Nat])
  BY <1>1 DEF TypeOK
<1>7. Len(history) <= Len(history')
  BY <1>3, <1>4, <1>5, <1>6
<1>8. ASSUME NEW i \in 1 .. m, accepted'[i] = accepted[i]
      PROVE  MessageAtNext(i) = MessageAt(i)
  <2> DEFINE k == accepted[i].at
  <2>1. /\ k \in Nat /\ accepted[i].put \in Nat /\ accepted[i].len \in Nat
        /\ accepted[i].put = accepted[i].len + 4
        /\ k + accepted[i].put <= Len(history)
        /\ SizeAfter(k) = accepted[i].put
    BY <1>1, EntryType DEF AcceptedIsWhole
  <2>2. k + 4 <= Len(history)
    <3>1. Len(history) \in Nat
      BY <1>6
    <3>2. /\ k \in Nat /\ accepted[i].len \in Nat
          /\ k + (accepted[i].len + 4) <= Len(history)
      BY <2>1
    <3> HIDE DEF k
    <3> QED
      BY <3>1, <3>2
  <2>3. SizeAfterNext(k) = SizeAfter(k)
    BY <1>1, <1>4, <2>1, <2>2, SizeAfterStable
  <2>4. k + SizeAfter(k) <= Len(history) /\ SizeAfter(k) \in Nat
    BY <2>1
  <2>5. /\ MessageAtNext(i) = SubSeq(history', k + 5, k + SizeAfter(k))
        /\ MessageAt(i) = SubSeq(history, k + 5, k + SizeAfter(k))
    BY <1>8, <2>3 DEF MessageAt, MessageAtNext
  <2> HIDE DEF k
  <2> QED
    BY <1>4, <1>6, <1>7, <2>1, <2>4, <2>5, PartStable
<1>9. CASE n # ActualLen(c)
  <2>1. accepted' = accepted
    BY <1>2, <1>9
  <2>2. \A i \in 1 .. m : MessageAtNext(i) = MessageAt(i)
    BY <1>8, <2>1
  <2>3. SentNext = Sent
    BY <1>6, <2>1, <2>2, Zenon DEF Sent, SentNext
  <2>4. torn' \in {torn, TRUE}
    <3>1. torn' = torn \/ torn' = TRUE
      BY <1>2, <1>6, Zenon
    <3> QED
      BY <3>1
  <2> QED
    BY <2>3, <2>4
<1>10. CASE n = ActualLen(c)
  <2>1. Moved(n) = Len(c) + 4
    BY <1>3, <1>5, <1>10
  <2>2. accepted' = Append(accepted, new)
    BY <1>2, <1>10, <2>1, Zenon
  <2>3. torn' = torn
    BY <1>2, <1>6, <1>10, Zenon
  <2>4. new.at = Len(history) /\ new \in [at : Nat, put : Nat, len : Nat]
    BY <1>5, <1>6
  <2> HIDE DEF new
  <2>5. /\ DOMAIN accepted' = 1 .. m + 1
        /\ accepted'[m + 1] = new
        /\ \A i \in 1 .. m : accepted'[i] = accepted[i]
    BY <1>6, <2>2, <2>4
  <2>6. SizeAfterNext(Len(history)) = Len(c) + 4
    <3> DEFINE f == SizeField(ActualLen(c))
    <3>1. \A i \in 1 .. 4 : history'[Len(history) + i] = f[i]
      <4> HIDE DEF f
      <4> SUFFICES ASSUME NEW i \in 1 .. 4 PROVE history'[Len(history) + i] = f[i]
        OBVIOUS
      <4>1. Frame(c)[i] = f[i]
        BY FrameType DEF f
      <4>2. i \in 1 .. Moved(n)
        BY <1>5, <2>1
      <4> QED
        BY <1>4, <4>1, <4>2, Zenon
    <3>2. /\ history'[Len(history) + 1] = f[1] /\ history'[Len(history) + 2] = f[2]
          /\ history'[Len(history) + 3] = f[3] /\ history'[Len(history) + 4] = f[4]
      BY <3>1
    <3>3. Build32(f[1], f[2], f[3], f[4]) = ActualLen(c)
      BY <1>5, SizeFieldReadsBack
    <3> HIDE DEF f
    <3> QED
      BY <1>5, <3>2, <3>3 DEF SizeAfterNext
  <2>7. MessageAtNext(m + 1) = c
    <3>1. ASSUME NEW i \in 1 .. Len(c) PROVE history'[Len(history) + (4 + i)] = c[i]
      <4>1. 4 + i \in 1 .. Moved(n)
        BY <1>5, <2>1
      <4>2. history'[Len(history) + (4 + i)] = Frame(c)[4 + i]
        BY <1>4, <4>1
      <4> QED
        BY <4>2, FrameBody
    <3>2. SubSeq(history', Len(history) + 5, Len(history) + (Len(c) + 4)) = c
      BY <1>5, <1>6, <3>1, PartIsContents
    <3> QED
      BY <2>4, <2>5, <2>6, <3>2 DEF MessageAtNext
  <2>8. \A i \in 1 .. m : MessageAtNext(i) = MessageAt(i)
    BY <1>8, <2>5
  <2>9. /\ SentNext = [i \in 1 .. m + 1 |-> MessageAtNext(i)]
        /\ Sent = [i \in 1 .. m |-> MessageAt(i)]
    BY <1>6, <2>5 DEF Sent, SentNext
  <2>10. SentNext = Append(Sent, c)
    <3>1. Append(Sent, c) = [i \in 1 .. m + 1 |-> IF i <= m THEN Sent[i] ELSE c]
      <4> HIDE DEF m
      <4> QED
        BY <1>6, <2>9
    <3>2. ASSUME NEW i \in 1 .. m + 1 PROVE SentNext[i] = IF i <= m THEN Sent[i] ELSE c
      <4> HIDE DEF m
      <4>1. CASE i <= m
        BY <1>6, <2>8, <2>9, <4>1
      <4>2. CASE ~(i <= m)
        <5>1. i = m + 1
          BY <1>6, <4>2
        <5> QED
          BY <2>7, <2>9, <4>2, <5>1
      <4> QED
        BY <4>1, <4>2
    <3>3. SentNext = [i \in 1 .. m + 1 |-> SentNext[i]]
      BY <2>9
    <3> QED
      BY <3>1, <3>2, <3>3, Zenon
  <2> QED
    BY <2>3, <2>10
<1> QED
  BY <1>9, <1>10

(* Where no length wraps, the framing implements a channel of whole        *)
(* messages: the length field at the start of every accepted write cuts    *)
(* exactly the message that was written out of the stream, and no later    *)
(* write, whole or cut short, changes it.                                  *)
THEOREM FramingIsChannel ==
  ASSUME NoLengthWraps
  PROVE  Spec => ImplementsChannel
<1>1. Init => Channel!Init
  BY DEF Init, Channel!Init
<1>2. Framed /\ [Next]_vars => [Channel!Next]_(Channel!vars)
  <2> SUFFICES ASSUME Framed, [Next]_vars PROVE [Channel!Next]_(Channel!vars)
    OBVIOUS
  <2>1. ingested' = ingested
    BY NextType DEF Framed
  <2>2. Sent' = SentNext /\ Sent = [i \in DOMAIN accepted |-> MessageAt(i)]
    BY DEF Sent, SentNext, MessageAt, MessageAtNext, SizeAfter, SizeAfterNext
  <2>3. ASSUME NEW c \in Contents, Write(c) PROVE [Channel!Next]_(Channel!vars)
    <3>1. CASE SentNext = Append(Sent, c) /\ torn' = torn
      <4>1. Channel!Send(c)
        BY <2>1, <2>2, <3>1 DEF Channel!Send, Sent
      <4> QED
        BY <4>1 DEF Channel!Next
    <3>2. CASE SentNext = Sent /\ torn' = TRUE
      <4>1. Channel!Break
        BY <2>1, <2>2, <3>2 DEF Channel!Break, Sent
      <4> QED
        BY <4>1 DEF Channel!Next
    <3>3. CASE SentNext = Sent /\ torn' = torn
      BY <2>1, <2>2, <3>3 DEF Channel!vars, Sent
    <3> QED
      BY <2>3, <3>1, <3>2, <3>3, WriteSends
  <2>4. ASSUME UNCHANGED <<history, accepted, torn>> PROVE [Channel!Next]_(Channel!vars)
    <3>1. Sent' = Sent
      BY <2>4 DEF Sent, MessageAt, SizeAfter
    <3> QED
      BY <2>1, <2>4, <3>1 DEF Channel!vars, Sent
  <2>5. ASSUME NEW c \in Contents, WriteTooLong(c) PROVE UNCHANGED <<history, accepted, torn>>
    BY <2>5 DEF WriteTooLong, vars
  <2>6. DestroyWriter \/ ReadSize \/ ReadBody \/ UNCHANGED vars => UNCHANGED <<history, accepted, torn>>
    BY DEF DestroyWriter, ReadSize, ReadBody, vars
  <2> QED
    BY <2>3, <2>4, <2>5, <2>6 DEF Next
<1>3. Framed /\ [Next]_vars => Framed'
  BY NextFramed
<1> QED
  BY <1>1, <1>2, <1>3, InitFramed, PTL DEF Spec, ImplementsChannel, Channel!Spec
=============================================================================
