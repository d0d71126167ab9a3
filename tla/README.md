# A TLA+ verification of libkzr

libkzr is a small C++17 library for the 9P2000 protocol. This directory holds
TLA+ modules that model it, the TLC configurations that check them, and TLAPS
proofs. The reference is the code under `src/`; a definition here is named
after the code it models where TLA+ allows, and `PROJECT.json` ("map") gives
the lines of each.

## 1. The system

| Part | State | Operations | Interacts with |
| --- | --- | --- | --- |
| `Connection` | none of its own | `write` (length field + contents in one `rawWrite`), `read` (`rawRead` for the length, `rawRead` for the body) | a `MessageStream`; the subclass's `rawRead`/`rawWrite` |
| `FileHandleConnection` | descriptor, "close on destruction" flag | `rawRead`, `rawWrite`, destructor | `read(2)`, `write(2)`, `close(2)` |
| `SocketConnection`, `UnixDomainSocketConnection` | domain, type, mode, address | `dial`, `announce` | `socket`, `connect`, `unlink`, `bind`, `chmod`, `listen`, `signal` |
| `MessageStream` | one `std::stringstream` | `encode`/`decode` of integers, strings, vectors and objects, `write`, `peek`, `str`, `reset` | every message class |
| Message classes (`Message.h/.cc`) | operation, tag, members of the class | `encode`, `decode`, setters | `MessageStream` |
| `Operation`, `ConceptualOperation` | none | `convert`, `getTMessageForm`, `getRMessageForm`, `isRequest`, `expectedResponseKind`, class predicates | used by the two above and below |
| `Request`, `Response`, `Interaction` | a `std::variant` | `operator<<`, `operator>>` | `peek`, the message classes |
| `Exception`, `Core.h`, `AccessPermissions.h` | none that matters | text formatting, bit helpers, a stub | |

The README of the repository names three layers: connection, message, logic.
The logic layer has no code yet. The library starts no threads; concurrency is
between the two ends of a byte stream and between processes that use the same
socket path. There are no tests in the repository.

What is hard here:

* a stream of bytes has no message boundaries, and the kernel may move any
  part of what it is asked to: short writes, short reads, several messages in
  one read, failures in the middle of a frame;
* a blocking read waits for a peer that may close or say nothing;
* the stringstream has two positions and sticky error flags, and almost no
  call looks at them;
* decoders build values from uninitialised memory past the end, and from an
  unspecified evaluation order;
* encode and decode of 28 message types are written separately;
* a throw in the middle leaves half a message, or an emptied variant;
* 16- and 32-bit length fields at their limits;
* `announce` is five system calls on a path other processes use too.

What makes the parts correct:

* Connection: a write that returns is one whole frame; frames follow one
  another without gaps; a message that is written is read; a waiting reader is
  released by a close.
* MessageStream: what is decoded is what was encoded, in order; errors are
  visible; a stream can be used again after `reset`.
* Messages: `decode` takes exactly the bytes `encode` put, in every class, and
  gives the members back.
* Interactions: the alternative chosen matches the operation byte; nothing is
  decoded out of an exhausted or failed stream.
* File handles: an object reads and writes the file it was made for, nobody
  closes a descriptor twice, and every open one has somebody who closes it.
* Sockets: one attempt in an object's life, which ends up or failed; nobody is
  reached before the socket file is closed to other users, and a restarted server
  gets its name back, as far as the system calls for it succeed; a dial reaches the server that announced the address; a
  dead peer does not end the process.
* Sessions (a stream and the connection it is sent over): a frame holds the
  messages that were encoded for it.

Several of these do not hold; section 5 lists what the runs show.

## 2. Modules

```
Bytes            little-endian integers over bytes of Base values
  Wire           the stringstream and MessageStream's encoders and decoders
    MessageStream   state machine of one stream          <- MCMessageStream
                    implements ByteQueue
    Message         field lists and codecs of all message classes (+ Operations)
      Interaction   state machine of a stream and a variant  <- MCInteraction
  Connection     framing over a file handle and a kernel byte stream <- MCConnection
                    implements MessageChannel
  Session        Interaction and a Connection it is sent over   <- MCSession
FileHandleConnection           who closes which descriptor
                                          <- MCFileHandleConnection
UnixDomainSocketConnection     dial and announce, system call by system call
                    implements SocketConnection <- MCUnixDomainSocketConnection

Proofs, each about the module of that name and extending the ones above it:
WireProofs (Bytes and Wire)
  MessageStreamProofs
  MessageProofs
    InteractionProofs
      SessionProofs   (an instance of ConnectionProofs)
  ConnectionProofs
FileHandleProofs, SocketProofs
```

**Bytes.** A byte is a digit below `Base`. In the code `Base` is 256; a small
base keeps the widths of two, four and eight digits and makes the limits of
the length fields reachable. A `uint64_t` is the pair of its halves, as the
code encodes it.

**Wire.** A stream is `[buf, g, p, good]`. `good` stands for the absence of
both eofbit and failbit, which have the same effect on every call the library
makes. Encoders give the bytes put and whether the call returned or threw;
decoders walk a cursor over the unread bytes and then over `junk`, the content
of uninitialised temporaries. `U64At` takes the evaluation order as an
argument.

**MessageStream.** Actions `Encode`, `Decode`, `Overrun` (a decode that asks
for more than was put), `Peek`, `Str`, `Reset`, `Write`, one for each public
call. Ghosts: `pending`, the items put and not decoded, and `overlaid`, set
when a put overwrites bytes given to `str()`.

**Operations, Message.** `Code` is `KZR_PROTOCOL_KINDS`. Each message class is a
pair of member lists, one from its `encode` and one from its `decode`, composed
as the code composes base classes (`Join`). `EncodeMessage` and `DecodeMessage`
run over those lists member by member (`EncodeAll`, which stops at the first
member that throws, and `DecodeAll`). `Wellformed` says what a constructor and
the setters can make of an object: members of their types, and the operation of
the class, for which there is no setter. `Stat` is encoded through an inner
stream and decoded in line, as in the code.

**Interaction.** `Encode` (all three `operator<<`), `DecodeInteraction`,
`DecodeHeld` (`operator>>` of the `Request` or `Response` the variable holds),
`DecodeAgain` (`decode` into the alternative already held), `Str` with the
first bytes of a message, `Reset`. Ghosts: `pending` messages and `damaged`,
set when the unread bytes need no longer be a row of whole messages: after an
encode that threw half-way, an overwrite, a truncated input or a decode as the
wrong side.

**Connection.** `history` is every byte the kernel accepted and `consumed` how
many it has handed out. `Write` is `Connection::write` with its `rawWrite`;
`ReadSize` and `ReadBody` are the two halves of `Connection::read`, split where
it blocks. `RawWrite` and `RawRead` give the possible results of the system
calls; an empty set of results is a call that blocks. `StringSize` is the
length of `std::string(' ', n)`: the constructor takes the character code of
the blank as the count and `n` as the character, so the string has 32
characters and `rawRead` asks for its capacity. Ghosts: `accepted`, the writes
that returned, and `torn`, set when a write threw after bytes had gone out.

**FileHandleConnection.** The descriptor table of one process (external; the
lowest free number is given out) and the objects: a number and the "close on
destruction" flag. `Construct`, the copy constructor and assignment the
compiler supplies (`CopyConstruct`, `CopyAssign`), `Destroy`; `Open` and
`CloseHeld` are the application. Ghosts: `made`, the file an object was made
for, `shared` (an owner was copied) and `dropped` (an owner was assigned to).

**SocketConnection** is an abstract specification: what `SocketConnection::dial`
and `announce` promise for every subclass. An attempt is `trying` until the
virtual function returns (`up`) or throws (`failed`).

**UnixDomainSocketConnection.** Objects in several processes over one file
system. `pc` is the next system call of the call under way, and `Connect`,
`SetOptions`, `Unlink`, `Bind`, `Chmod`, `Listen` are one action each, because
the calls of other processes come between. `Refused` is a call on an object that
has a mode or no socket. `Destroy` closes the socket and leaves the file; `Crash`
ends a process at any point; `WriteToNobody` is a `write` whose server is gone,
with SIGPIPE. `sun.ok` is whether the kernel takes the address: one that fills
`sun_path` has no terminator, and what follows it in memory decides. Addresses
are used whole by unlink and chmod and cut by bind and connect. There is no
`accept` in the library, so a connection never leaves its server's queue.
`announce` looks at the results of `socket`, `bind` and `listen` and not at those
of `unlink` and `chmod`: with `KernelFaults` these two may fail as well where there
is a file (no permission, a directory in the way), and the call goes on.
Ghosts: `failure`, `raced` (another bound the name between unlink and bind),
`unheeded` (whose unlink, and whose chmod, failed), `killed`.

**MessageChannel, ByteQueue** are abstract specifications: a channel of whole
messages, which `Connection` implements with "what the length field at the start
of the i-th accepted write delimits" as the i-th message; and a queue of bytes
with a `dead` and a `blurred` state, which `MessageStream` implements with the
unread bytes as the queue.

**Session.** One endpoint: `EncodeNext`, `DecodeNext`, `Arrive` and `Clear` are
`Encode`, `DecodeInteraction`, `Str` and `Reset` of `Interaction`; `Send` is
`connection << stream`, with `Connection!Write` on the whole buffer.
`ClearFirst` restricts the owner to one that calls `reset()` immediately before
each encode. Ghosts: `since`, the messages encoded since the stream was last loaded
or reset; `spoiled`, set when one of those encodes threw, was dropped by a
failed stream, or wrote over what `str()` had put; `frames`, both of them at
each write that returned. Messages arrive by `str()`, as `Connection::read`
never fills a stream.

Operators whose comment starts with "Mutant of" are faulty variants of the
definition that follows them. Nothing uses them; each is a plausible mistake
that the property named in `PROJECT.json` ("mutants") detects.

## 3. Runs that pass

| Run | Instance | Shows |
| --- | --- | --- |
| `connection` | Base 2, system calls may fail or be short, contents empty, short, the longest that do not wrap the frame length (and longer than one `rawRead`), too long for the length field; no write starts after 6 bytes; weak fairness of the reader | `TypeOK`, `AcceptedIsWhole`, `FramesTile`, `ImplementsChannel`, `CloseReleasesReader` |
| `stream` | Base 2, all integers of 8, 16 and 32 "bits", samples of 64, strings up to and over the limit of 3, both evaluation orders, two kinds of junk; nothing is put after 4 bytes | `TypeOK`, `UnreadIsPending`, `IntegersInOrder`, `FailureIsSticky`, `ImplementsByteQueue` |
| `interaction` | Base 256, one message of each of the 28 types and two whose encoding throws, both evaluation orders, up to two messages on the stream, every truncation of a walk request and a read response | `TypeOK`, `MessagesTile`, `FixedPartsSurvive`, `DirectionAgrees`, `NothingFromNothing`, `CutMessageIsTheLast` |
| `handles` | three objects, three descriptors, four files | `TypeOK`, `UnsharedOwnersKeepTheirFile`, `NothingLeaks` |
| `sockets` | three objects in two processes, one address, a queue of one place, failing system calls, a file left from before or none; weak fairness of system calls | `TypeOK`, `ReachableIsRestricted`, `OnlyRacesLoseTheName`, `AnnouncersSurvivePipe`, `ImplementsSocketConnection`, `WaitEndsWithServer` |
| `sockets_cut` | two objects, `sun_path` of two characters, addresses of none to three | `OnlyRacesLoseTheName`, `OnlyAnnouncersTakeTheName`, `ShortDialReachesAnnounced` |
| `session` | Base 130, a short response, a response whose encoding throws half-way, an arriving request; up to two messages at a time and several frames | `UnspoiledFramesHoldAll` |

The properties in words:

* `AcceptedIsWhole`, `FramesTile`: framing on the sending side.
* `ImplementsChannel`: seen through the length fields on the wire, the writes
  that returned are a growing sequence of whole messages which no later write,
  failed or not, changes. It says something of the sending half only: nothing is
  ever received (`connection_delivery`).
* `CloseReleasesReader`: a read waiting for a body ends when the peer closes.
* `UnreadIsPending`, `MessagesTile`: the bytes left to read are exactly the
  encodings of what was put and not decoded, for values and for whole messages.
* `IntegersInOrder`, `FixedPartsSurvive`: what does survive a round trip. A
  64-bit value is only required to keep its halves, in either order, a string
  only the length its target had, and vectors come after what their target
  held: the rest is in section 5.
* `FailureIsSticky`: after a read past the end nothing revives the stream.
* `ImplementsByteQueue`: every call is a step of a queue; puts go to the end,
  gets come from the front, and what does neither leaves the bytes alone.
* `DirectionAgrees`: whatever the bytes, the alternative held after a
  successful decode is the one of its operation byte, and
  `expectedResponseKind` names the code of the matching response.
* `NothingFromNothing`: an exhausted or failed stream yields no message, and
  what a failed decode leaves behind cannot be encoded.
* `CutMessageIsTheLast`: a message that was cut off on its way decodes without an
  exception, but wherever it was cut the stream has failed after it, so an owner
  that looks at the stream can tell.
* `UnsharedOwnersKeepTheirFile`: until an owner is copied, an owner stands for
  the file it was made for, however numbers are reused.
* `NothingLeaks`: until an owner is assigned to, every open descriptor is the
  application's or will be closed by a destructor; copies never leak.
* `ReachableIsRestricted`: no client reaches a server under its address before
  `chmod`, in any interleaving of several announces of that name. The one
  exception is a server whose own `chmod` failed: it listens all the same.
* `OnlyRacesLoseTheName`: `bind` finds the name in use only if another server
  bound it since the `unlink`, if the address was cut, or if the `unlink` of that
  very server failed. A server that ended at any point does not keep its
  successor from starting.
* `OnlyAnnouncersTakeTheName`: a server loses its name only to one that
  announces that very name.
* `ShortDialReachesAnnounced`: a dial of an address that fits reaches a server
  announced under it, also among servers whose address was cut.
* `AnnouncersSurvivePipe`: a process that has announced is not ended by SIGPIPE
  through any of its connections.
* `WaitEndsWithServer`: a dial that waits for room in a queue returns once the
  servers are gone.
* `UnspoiledFramesHoldAll`: an accepted frame carries exactly the messages
  encoded since the stream was last loaded, decoded or not, sent before or not.

**Bounds.** `MaxBytes` and `MaxLen` stop new writes once the history or buffer
is that long. Two frames (`connection`, `session`) and two messages
(`interaction`) are enough for one to start at a position that depends on an
earlier one, and for reads to cut frames at every place; the proofs cover every
length. In `connection` the 256 values of a byte and the 32 characters one
`rawRead` asks for are scaled to 2 and 8, so that a frame can be as long as its
length field counts and longer than one read; `connection_delivery` has the 32. `MaxHeld` stops repeated decodes into one object. With Base 2 the
`stream` run covers every value of every width up to 32 bits, so the member
values of `interaction` only have to differ from one another. They are small and
`Junk` is zero there, because a count read from the wrong place is otherwise too
large for TLC; `stream` has other junk. `MaxLen` lets a second message follow only the
shortest ones in `interaction`; a larger one is beyond TLC's memory, and the theorem
`MessagesStayWhole` has no bound. `Arrivals` holds the types with a vector
and with data, the ones whose truncation can be misread. In `session` Base is
130: even as 256 is, so that the last byte value, which `peek` gives at the end, is
odd and looks like a response; above the operation codes; and its fourth power is
within TLC's integers. Its system calls do not fail: the torn writes are in
the `connection` run and in the theorem `FramesHoldAll`. `MaxSince` bounds the messages encoded before the
stream is loaded again. In `handles`, `MaxFd` and `MaxFiles` leave one file more
than there are descriptors, so that every number can be reused; objects are
symmetric. Two servers and a client, or a server and two clients, are the
smallest casts for a race for a name and for a full queue. The queue of
`sockets` is scaled to one place (`Backlog` 0; the code has 32) so that three
objects fill it, and `sun_path` to two characters, so that an address can fit
with its terminator, fill it or be cut to one that another server has. `Process`
of an object matters for SIGPIPE and crashes only, so one shared process is
enough.

**Deadlock.** It is checked for the streams, the handles and the session. The
connection and socket runs switch it off: a reader blocked on an open, silent
peer is a legitimate end, and so are objects that are all gone.

**Fairness.** `Connection!FairSpec`: weak fairness of `ReadSize` and `ReadBody`
while the stream has bytes or its end to return. A system call that can return
does, and the owner of the reading end calls `read` again, which is what a server
loop does. Nobody is obliged to write or to close.
`UnixDomainSocketConnection!FairSpec`: the same for the system calls inside `dial`
and `announce`; nobody has to dial, announce, destroy or crash. In both, a call
that waits need not be ended by a failure (`CanReturn`), so that the liveness
properties are not won by a kernel that fails.

## 4. Proofs

Every safety invariant, action property and refinement that a passing run checks,
except `CutMessageIsTheLast`, is also a theorem, for every value of the constants
the assumptions allow.

`WireProofs` has the facts about bytes, sequences and plain values (for every
base of at least 2). Quotient and remainder are unique (`Unique`), two digits hold
a number modulo `M16` (`TwoDigits`), four digits are built into the number they
came from (`FourDigits`), 16-bit encode and build are inverse (`RoundTrip16`).
`Induction` and `UpTo` state induction for sets of numbers, which the provers can
use: a claim about every n is the claim that the set of its n is `Nat`. With them
the folds of the community modules are characterised by their steps
(`FlattenValue`, `FlattenAppend`, `FlattenHead`), as are the decoders that loop.
`DecodeTakesEncoded`: a decoder that stands on the bytes its encoder put
(`Under`) takes exactly those and gives the value, whatever follows them.

`ConnectionProofs` (for every base, set of contents, string size, bound and
with or without failing system calls):

* `TypeCorrect`: `Spec => []TypeOK`. The work is in showing that `rawRead` never
  moves more than is in flight and that four unread bytes are a number.
* `WritesAreWhole`, `StreamIsFramed`: `AcceptedIsWhole` and `FramesTile` under the
  hypothesis `NoLengthWraps`: the guard of `write` lets through four lengths whose
  frame the length field cannot count. Neither is inductive as it stands. The
  invariant is `Framed`: types, `AcceptedIsWhole`, and `CountsTile`, the tiling in
  terms of ghost byte counts. A write keeps it because earlier length fields are
  not touched (`SizeAfterStable`) and the new one reads back as the length of its
  frame (`SizeFieldReadsBack`, from `FourDigits`).
* `FramingIsChannel`: `Spec => ImplementsChannel` under the same hypothesis. From
  `Framed`, what the length field of an accepted write delimits is not changed by
  bytes that come later (`PartStable`), and for the new write it is the contents
  (`PartIsContents`), so a write is `Send`, `Break` or a stutter (`WriteSends`).

`MessageStreamProofs` (for every set of well typed values, loaded contents, junk
and evaluation order): `TypeCorrect`, `DecodersTakeWhatEncodersPut`
(`UnreadIsPending`), `IntegersComeBack` (`IntegersInOrder`), `FailureSticks`
(`FailureIsSticky`) and `StreamIsByteQueue` (`ImplementsByteQueue`). The invariant
`IInv` is the conjunction of the three state properties: a decode is right because
what is left unread starts with the bytes of the first pending value
(`UnreadIsPending` before the step and `DecodeTakesEncoded`), and it leaves the
rest of them. The refinement maps each call to what it does to the unread bytes:
`Put` at the end appends, `Take` cuts the front, `Load` replaces.

`MessageProofs` (for every base): `DecodeTakesMessage`, the core of the message
layer. `decode()` of each of the 28 classes takes exactly the bytes that `encode()`
of that class put, for all values of its members, into a fresh or a used object.
The two member lists of every class name the same members in the same order
(`Matches`, from the base classes up); each type of member has its lemma, `Stat`
with its inner stream included; `MessageTiles` joins them by induction along the
list. A member is named once, so the object keeps what was decoded into it
(`RunValues`).

`InteractionProofs` (for every set of well-formed messages, junk, evaluation
order and bound): `TypeCorrect`, `MessagesStayWhole` (`MessagesTile`),
`FixedPartsComeBack` (`FixedPartsSurvive`), `DirectionsAgree` (`DirectionAgrees`)
and `NothingComesFromNothing` (`NothingFromNothing`). The invariant adds to the
properties that the stream is `Proper`, that every pending message was encoded
without a throw, and `Object` and `Shape` of the variable: it has the members of
its class, its strings and vectors are sequences and its `Stat` has all its parts.
`Shape` is needed because `DecodeAgain` decodes into what earlier decodes left,
from whatever bytes. The decode step follows what the code does: the first byte of
what is unread is the operation of the first pending message (`FirstByte`), so
the class deduced from it is the class sent, and `DecodeTakesMessage` applies.
That the operation codes are below 0xFF is what makes the exhausted stream, where
`peek` gives 0xFF, no operation (`NoOperation`).

`SessionProofs` (for every set of well-formed messages and bounds, with or
without failing system calls): `FramesHoldAll` (`UnspoiledFramesHoldAll`), under
`NoFrameWraps`, the hypothesis of the connection's theorems in terms of the
messages. The invariant `SInv` joins `IInv` of `Interaction`, whose steps a session
takes, `Framed` of the connection, `Held` (the buffer is the encodings of `since`
unless spoiled, and fits a frame) and `FramesHeld` (so was every accepted frame).
The lemmas of `ConnectionProofs` are used through an instance whose contents are
the buffers that fit.

`FileHandleProofs` (for any set of objects and any bounds): `TypeCorrect`,
`OwnersAreSafe` (`UnsharedOwnersKeepTheirFile`) and `NoLeak` (`NothingLeaks`). The
first safety property is not inductive: a destructor could close the number of
another owner. `OneCloser` adds that, until an owner is copied, an open
descriptor has at most one closer, the application or one object, and that an
owner's number is open.

`SocketProofs` (for any objects, processes, addresses, size of `sun_path`, queue
length, with or without failing calls): `TypeCorrect`, `NoOpenWindow`
(`ReachableIsRestricted`), `RestartFindsTheName` (`OnlyRacesLoseTheName`),
`NameIsKept` (`OnlyAnnouncersTakeTheName`), `DialIsExact`
(`ShortDialReachesAnnounced`), `PipeIsIgnored` (`AnnouncersSurvivePipe`) and
`ImplementsParent`, the refinement of `SocketConnection`. The inductive invariant
joins what each needs: `Phases` (mode, address and `sockaddr_un` agree with where
the call is; an announcer's process ignores SIGPIPE), `Names` (a name leads to
the object that bound it, and is the one in its `sockaddr_un`), `PastChmod` (past
its chmod, a server that still has its name is restricted or its chmod failed),
`UnlinkedIsFree` (between unlink and bind the name is free except for racers, cut
addresses and an unlink that failed),
`BoundOnce` and `NameKept` (a socket is bound past its unlink and never unlinks
again, so only another can take its name), and `Joined` (a connection joins a
dialler and an announcer). `ImplementsParent` shows that each action changes the
abstract state of one object as one abstract step, or not at all; a crash maps
to `Destroy` of all objects of the process.

Assumptions: `BaseAssumption`, `ConnectionAssumption`, `MessageStreamAssumption`,
`InteractionAssumption`, `SessionAssumption`, `FileHandleAssumption` and
`SocketAssumption`, all evaluated by TLC in every run of their modules. They say
that constants have their types: the values and messages put are such as the C++
types and the setters admit, junk is some bytes, and (`InteractionAssumption`) the
operations are bytes other than 0xFF and 0xFF is odd, as in the code. The two hypotheses
on lengths are `NoLengthWraps` and `NoFrameWraps`.

Only model-checked: the liveness properties `CloseReleasesReader` and
`WaitEndsWithServer`, because fairness and ENABLED are beyond the prover;
`CutMessageIsTheLast`, which needs for every class that a decode of part of its
encoding runs past the end; and that a violation exists, in the runs of section 5.

## 5. Runs that find a violation

Each states what a comment, message or document of the repository says.

| Run | What happens |
| --- | --- |
| `connection_delivery` | a written message is never read: the first `rawRead` of `read`, which is to get the length, takes up to 32 bytes, and `read` compares the body with two different sizes |
| `stream_strings` | a decoded string keeps the size of its target, so a fresh one stays empty |
| `stream_u64` | g++ exchanges the halves of a decoded `uint64_t` |
| `sockets_pipe` | a process that only dials is ended by SIGPIPE when it writes to a server that is gone |
| `session_dead` | a decode from an empty stream, `reset()`, an encode and a send: `reset()` keeps the error flags, so the encode puts nothing and an empty frame is reported as sent |

The premises of passing properties mark other limits of the code, which have no
run of their own:

* `NoLengthWraps`: for the four largest lengths that pass the guard of
  `Connection::write`, the frame length wraps to 0 .. 3. With 0, a write to an
  invalid handle returns with nothing written.
* `ReachableIsRestricted`, `OnlyRacesLoseTheName`: a server whose `chmod` failed
  listens open to all users, and one whose `unlink` failed is told of it only by
  `bind`.
* `UnsharedOwnersKeepTheirFile`: with a copy of an owner, the second of the two
  destructors closes a number that may belong to somebody else by then.
* `OnlyAnnouncersTakeTheName`: a second announce takes the name of a server that
  is in use, which goes on listening where nobody finds it.
* `ShortDialReachesAnnounced`: two addresses with the same beginning are one
  address to `bind` and `connect`.
* `WaitEndsWithServer`: as long as its server lives, a dial at a full queue
  waits, because nothing accepts.
* `UnspoiledFramesHoldAll`: a reply encoded on the stream its request was loaded
  into, without `reset()`, is sent with the end of the request behind it.
* `FixedPartsSurvive`: decoding again into an object appends to its vectors.
* `PeekResult` (module `Wire`): at the end of a stream `peek` gives 0xFF, and for a
  byte 0 nothing.

## 6. Not modelled

* The receiving half of a session: `Connection::read` never completes, so there
  is nothing to compose.
* Names changed by programs that do not use the library.
* Reading from sockets: as in `Connection`.
* The getters of `SocketConnection` and its lists of domains and types.
* `MessageStream::read`: its return type is deduced and its body is only in
  `MessageStream.cc`, so no other file can call it; nothing in that file does.
* The class predicates of `Operations.h` (nothing uses them; `Remove` belongs to
  no class), `Core.h` and `AccessPermissions.h`: nothing uses them. `Exception`:
  text only.
* The logic layer: the repository has no code for it.
* Memory exhaustion by a decoded count.

## 7. Plan

1. `FramesHoldMessages` under `ClearFirst` and without failed streams, as the
   contract a careful owner of a session can rely on.
2. `CutMessageIsTheLast` as a theorem, from a lemma beside `DecodeTakesMessage`
   on proper prefixes of an encoding.
3. The receiving half of `MessageChannel`, once `Connection::read` hands a message
   on: as the code is, it has nothing to promise.
