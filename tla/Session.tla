------------------------------ MODULE Session ------------------------------
(***************************************************************************)
(* One endpoint of a session: the stream and the variable of Interaction,  *)
(* and the Connection their owner sends the stream over                    *)
(* (connection << stream).                                                 *)
(*                                                                         *)
(* Connection::write sends all of the buffer, whatever the positions and   *)
(* the error flags say, so what a frame holds depends on everything that   *)
(* happened to the stream since it was last loaded.  The receiving half is *)
(* left out: no call of Connection::read puts anything on a stream         *)
(* (BodyComplete in Connection), so messages arrive through str().         *)
(***************************************************************************)
EXTENDS Interaction

CONSTANTS
  StringSize, KernelFaults, MaxBytes,  \* see Connection
  ClearFirst,  \* does the owner call reset() just before each encode?
  MaxSince     \* bound: messages encoded before the stream is loaded again

ASSUME SessionAssumption ==
  /\ StringSize \in Nat /\ KernelFaults \in BOOLEAN /\ MaxBytes \in Nat
  /\ ClearFirst \in BOOLEAN /\ MaxSince \in Nat

VARIABLES
  history, consumed, writer, readable, reader, ingested, accepted, torn,  \* of Connection
  since,     \* ghost: messages whose encode returned since str() or reset()
  spoiled,   \* ghost: since then an encode threw, was dropped or wrote over
  frames     \* ghost: since and spoiled at each accepted write

C == INSTANCE Connection WITH Contents <- Seq(Byte)

connectionVars == <<history, consumed, writer, readable, reader, ingested, accepted, torn>>

sessionVars == <<vars, connectionVars, since, spoiled, frames>>

SessionInit ==
  /\ Init
  /\ C!Init /\ writer.destroy /\ readable   \* neither matters to a sender
  /\ since = << >>
  /\ spoiled = FALSE
  /\ frames = << >>

-----------------------------------------------------------------------------
EncodeNext(m) ==
  /\ Len(since) < MaxSince
  /\ ClearFirst => result.call = "reset"
  /\ Encode(m)
  /\ since' = IF result'.ok THEN Append(since, m) ELSE since
  /\ spoiled' = (spoiled \/ ~result'.ok \/ ~stream.good \/ stream.p < Len(stream.buf))
  /\ UNCHANGED <<connectionVars, frames>>

DecodeNext(order, junk) ==
  /\ DecodeInteraction(order, junk)
  /\ UNCHANGED <<connectionVars, since, spoiled, frames>>

(* str(input) with a message as it came over the wire. *)
Arrive(m) ==
  /\ Str(m, Len(Arriving[m]))
  /\ since' = <<m>>
  /\ spoiled' = FALSE
  /\ UNCHANGED <<connectionVars, frames>>

Clear ==
  /\ Reset
  /\ since' = << >>
  /\ spoiled' = FALSE
  /\ UNCHANGED <<connectionVars, frames>>

(* Mutant of SentContents: only what was not decoded yet is sent. *)
SentContentsUnread == Unread(stream)

(* msg.str(), what Connection::write asks the stream for. *)
SentContents == stream.buf

Send ==
  /\ C!Write(SentContents)
  /\ frames' = IF accepted' = accepted THEN frames
               ELSE Append(frames, [held |-> since, spoiled |-> spoiled])
  /\ UNCHANGED <<vars, since, spoiled>>

SessionNext ==
  \/ \E m \in Messages : EncodeNext(m)
  \/ \E order \in EvalOrders, junk \in Junk : DecodeNext(order, junk)
  \/ \E m \in Arrivals : Arrive(m)
  \/ Clear
  \/ Send

SessionSpec == SessionInit /\ [][SessionNext]_sessionVars

-----------------------------------------------------------------------------
EncodingOf(ms) == FlattenSeq([i \in DOMAIN ms |-> EncodeMessage(ms[i]).bytes])

(* What the length field of the i-th accepted frame delimits on the wire  *)
(* is the messages that were on the stream when it was sent.               *)
FrameHolds(i) == C!MessageAt(i) = EncodingOf(frames[i].held)

(* No stream gets so long that the length of its frame wraps in the length *)
(* field: the hypothesis under which the next one is proved.               *)
NoFrameWraps ==
  /\ \A m \in Messages : MaxLen + Len(EncodeMessage(m).bytes) + 4 <= M16 * M16
  /\ \A m \in Arrivals : Len(EncodeMessage(m).bytes) + 4 < M16 * M16

(* Every accepted write, later writes of the same stream included, carries *)
(* exactly the messages encoded since the stream was last loaded or reset, *)
(* in that order and decoded or not, unless since then an encode threw,    *)
(* went to a failed stream or came after str() without a reset().          *)
UnspoiledFramesHoldAll ==
  /\ Len(frames) = Len(accepted)
  /\ \A i \in DOMAIN frames : frames[i].spoiled \/ FrameHolds(i)

(* A frame that is accepted holds the messages whose encode returned: what *)
(* Connection::write gives a length to is the message.                     *)
FramesHoldMessages == \A i \in DOMAIN frames : FrameHolds(i)
=============================================================================
