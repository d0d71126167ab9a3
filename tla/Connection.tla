----------------------------- MODULE Connection -----------------------------
(***************************************************************************)
(* Connection::write and Connection::read over a FileHandleConnection.     *)
(*                                                                         *)
(* One writing endpoint and one reading endpoint of the same byte stream   *)
(* (a socket, a pipe, a tty).  The stream itself is the kernel's and is    *)
(* external: `history' is every byte it has accepted and `consumed' how    *)
(* many of them it has handed out again, so the bytes in flight are the    *)
(* rest of `history'.  Connection::read calls rawRead twice and blocks in  *)
(* each, so it is two actions; everything else is one system call.         *)
(***************************************************************************)
EXTENDS Bytes

CONSTANTS
  Contents,     \* the byte strings a MessageStream may hold when it is sent
  StringSize,   \* characters in std::string(' ', n): the code of ' '
  KernelFaults, \* may system calls fail, or move less than they could?
  MaxBytes      \* bound: no write starts once this many bytes were accepted

ASSUME ConnectionAssumption ==
  /\ Contents \subseteq Seq(Byte)
  /\ StringSize \in Nat
  /\ KernelFaults \in BOOLEAN
  /\ MaxBytes \in Nat

VARIABLES
  history,   \* bytes the kernel accepted, oldest first
  consumed,  \* how many of them read() has returned
  writer,    \* the writing FileHandleConnection
  readable,  \* isValidHandle() of the reading FileHandleConnection
  reader,    \* where the current Connection::read call is
  ingested,  \* strings Connection::read has passed to MessageStream::write
  accepted,  \* ghost: the writes that returned without throwing
  torn       \* ghost: a write threw after some of its bytes had gone out

vars == <<history, consumed, writer, readable, reader, ingested, accepted, torn>>

(* A system call that fails returns -1, which rawRead and rawWrite return  *)
(* as size_t(-1); no uint32_t equals it and neither does 4.                *)
SysError == -1

(* Mutant of Moved: -1 is taken for a count of bytes. *)
MovedUnchecked(n) == n

Moved(n) == IF n = SysError THEN 0 ELSE n

Smaller(a, b) == IF a < b THEN a ELSE b

InFlight == Len(history) - consumed

(* The write end is closed by ~FileHandleConnection alone. *)
PeerOpen == writer.alive \/ ~(writer.valid /\ writer.destroy)

Idle == [pc |-> "idle", size |-> 0]

Init ==
  /\ history = << >>
  /\ consumed = 0
  /\ writer \in [valid : BOOLEAN, destroy : BOOLEAN, alive : {TRUE}]
  /\ readable \in BOOLEAN
  /\ reader = Idle
  /\ ingested = << >>
  /\ accepted = << >>
  /\ torn = FALSE

-----------------------------------------------------------------------------
(* Connection::write *)

(* Mutant of ActualLen: the length field does not count itself. *)
ActualLenBare(c) == Len(c) % (M16 * M16)

(* uint32_t(len) + 4, which wraps. *)
ActualLen(c) == (Len(c) + 4) % (M16 * M16)

(* Mutant of SizeField: most significant byte first. *)
SizeFieldReversed(n) ==
  << ((n \div M16) \div Base) % Base, (n \div M16) % Base, (n \div Base) % Base, n % Base >>

SizeField(n) ==
  << n % Base, (n \div Base) % Base, (n \div M16) % Base, ((n \div M16) \div Base) % Base >>

(* Mutant of Frame: room is made for the contents and nothing is copied. *)
FrameBlank(c) == SizeField(ActualLen(c)) \o [i \in DOMAIN c |-> 0]

Frame(c) == SizeField(ActualLen(c)) \o c

(* What FileHandleConnection::rawWrite may return for these bytes. *)
RawWrite(bytes) ==
  IF ~writer.valid THEN {0}
  ELSE IF KernelFaults THEN {SysError} \cup 1 .. Len(bytes)
  ELSE {Len(bytes)}

Write(c) ==
  /\ writer.alive
  /\ Len(history) < MaxBytes
  /\ FitsU32(Len(c))
  /\ \E n \in RawWrite(Frame(c)) :
       /\ history' = history \o SubSeq(Frame(c), 1, Moved(n))
       /\ accepted' = IF n = ActualLen(c)
                      THEN Append(accepted, [at |-> Len(history), put |-> Moved(n), len |-> Len(c)])
                      ELSE accepted
       /\ torn' = (torn \/ (n # ActualLen(c) /\ Moved(n) > 0))
  /\ UNCHANGED <<consumed, writer, readable, reader, ingested>>

(* The message does not fit the length field: write throws. *)
WriteTooLong(c) ==
  /\ writer.alive
  /\ ~FitsU32(Len(c))
  /\ UNCHANGED vars

(* ~FileHandleConnection of the writing end. *)
DestroyWriter ==
  /\ writer.alive
  /\ writer' = [writer EXCEPT !.alive = FALSE]
  /\ UNCHANGED <<history, consumed, readable, reader, ingested, accepted, torn>>

-----------------------------------------------------------------------------
(* Connection::read *)

(* Mutant of RawRead: the end of the stream is waited at, not reported. *)
RawReadWaiting ==
  IF ~readable THEN {0}
  ELSE {n \in 1 .. Smaller(StringSize, InFlight) :
          KernelFaults \/ n = Smaller(StringSize, InFlight)}

(* What FileHandleConnection::rawRead may return.  It asks for the whole   *)
(* capacity of the string it is given.  No result: the call blocks.        *)
RawRead ==
  IF ~readable THEN {0}
  ELSE (IF KernelFaults THEN {SysError} ELSE {})
       \cup (IF InFlight > 0
             THEN {n \in 1 .. Smaller(StringSize, InFlight) :
                     KernelFaults \/ n = Smaller(StringSize, InFlight)}
             ELSE IF PeerOpen THEN {} ELSE {0})

(* The length field of the frame that starts after n bytes. *)
SizeAfter(n) == Build32(history[n + 1], history[n + 2], history[n + 3], history[n + 4])

MessageSize == SizeAfter(consumed)

(* First rawRead: anything but four bytes throws, and so does a size that  *)
(* does not count the length field itself.                                 *)
ReadSize ==
  /\ reader.pc = "idle"
  /\ \E n \in RawRead :
       /\ consumed' = consumed + Moved(n)
       /\ reader' = IF n = 4 /\ MessageSize >= 4
                    THEN [pc |-> "body", size |-> MessageSize]
                    ELSE Idle
  /\ UNCHANGED <<history, writer, readable, ingested, accepted, torn>>

(* The string msg.write gets: std::string(' ', size - 4) with the bytes    *)
(* just read at its front.                                                 *)
Storage(n) ==
  [i \in 1 .. StringSize |-> IF i <= n THEN history[consumed + i] ELSE (reader.size - 4) % Base]

(* What read has when it gets past both checks of the second rawRead. *)
BodyComplete(n) ==
  /\ n = reader.size
  /\ n + 4 = reader.size

(* Second rawRead and the two checks after it. *)
ReadBody ==
  /\ reader.pc = "body"
  /\ \E n \in RawRead :
       /\ consumed' = consumed + Moved(n)
       /\ ingested' = IF BodyComplete(n) THEN Append(ingested, Storage(n)) ELSE ingested
  /\ reader' = Idle
  /\ UNCHANGED <<history, writer, readable, accepted, torn>>

-----------------------------------------------------------------------------
Next ==
  \/ \E c \in Contents : Write(c) \/ WriteTooLong(c)
  \/ DestroyWriter
  \/ ReadSize
  \/ ReadBody

Spec == Init /\ [][Next]_vars

(* There are bytes, or the end of the stream, for read() to return. *)
CanReturn == RawRead \ {SysError} # {}

(* A blocked read() returns once it can, and the application that owns the *)
(* reading end keeps calling Connection::read.  Nobody has to write, and   *)
(* a read that waits need not be ended by a failure.                       *)
FairSpec == Spec /\ WF_vars(ReadSize /\ CanReturn) /\ WF_vars(ReadBody /\ CanReturn)

-----------------------------------------------------------------------------
(* Types, and the read position stays inside what was accepted. *)
TypeOK ==
  /\ history \in Seq(Byte)
  /\ consumed \in 0 .. Len(history)
  /\ writer \in [valid : BOOLEAN, destroy : BOOLEAN, alive : BOOLEAN]
  /\ readable \in BOOLEAN
  /\ reader \in [pc : {"idle", "body"}, size : Nat]
  /\ ingested \in Seq(Seq(Byte))
  /\ accepted \in Seq([at : Nat, put : Nat, len : Nat])
  /\ torn \in BOOLEAN

(* No message is so long that its length fits the 32 bits of the length    *)
(* field and the length of its frame does not: the hypothesis under which  *)
(* the next two are proved.                                                *)
NoLengthWraps ==
  \A c \in Contents : FitsU32(Len(c)) => Len(c) + 4 < M16 * M16

(* A Connection::write that returns has put its length field and all of    *)
(* the contents on the stream, and the length field counts them both.      *)
AcceptedIsWhole ==
  \A i \in DOMAIN accepted :
    /\ accepted[i].put = accepted[i].len + 4
    /\ accepted[i].at + accepted[i].put <= Len(history)
    /\ SizeAfter(accepted[i].at) = accepted[i].put

(* While no write has been cut short, the accepted frames tile the stream: *)
(* each starts where the length field of the one before it says, the first *)
(* at the beginning and the last ending with the last byte accepted.       *)
FramesTile ==
  torn \/
    LET n == Len(accepted)
        end(i) == accepted[i].at + SizeAfter(accepted[i].at)
    IN  /\ \A i \in 1 .. n : accepted[i].at = IF i = 1 THEN 0 ELSE end(i - 1)
        /\ Len(history) = IF n = 0 THEN 0 ELSE end(n)

(* A read that is waiting for a body is released when the write end is     *)
(* closed: read() then returns 0 and Connection::read throws.              *)
CloseReleasesReader ==
  (reader.pc = "body" /\ ~PeerOpen) ~> (reader.pc = "idle")

(* The two ends and the kernel between them implement a channel of whole   *)
(* messages, where the i-th message is what the length field at the start  *)
(* of the i-th accepted write delimits on the stream: writes that fail add *)
(* none, no later write changes one, and reads receive none out of order.  *)
MessageAt(i) == SubSeq(history, accepted[i].at + 5, accepted[i].at + SizeAfter(accepted[i].at))

Channel == INSTANCE MessageChannel
             WITH Messages <- Contents, sent <- [i \in DOMAIN accepted |-> MessageAt(i)],
                  received <- ingested, broken <- torn

ImplementsChannel == Channel!Spec

(* What the message layer is for: a message that was written is read. *)
WrittenIsRead ==
  (readable /\ accepted # << >>) ~> (ingested # << >>)
=============================================================================
