------------------------------ MODULE Message ------------------------------
(***************************************************************************)
(* The 9P2000 message classes: which members encode() puts on the stream   *)
(* and which members decode() takes off it, in which order.                *)
(*                                                                         *)
(* A class is its pair of field lists, each written down from its own      *)
(* method; nothing in the model makes the two agree.  A field is           *)
(* <<member, type>>.  A message object is [kind, dir, body]: kind and dir  *)
(* name its class, body maps each member to its value.                     *)
(***************************************************************************)
EXTENDS Wire, Operations

Members(encode, decode) == [encode |-> encode, decode |-> decode]

(* Base::encode(msg) then Derived's own, and the same for decode. *)
Join(a, b) == Members(a.encode \o b.encode, a.decode \o b.decode)

-----------------------------------------------------------------------------
(* Mix-ins and composite members. *)

HasQid    == Members(<< <<"qid", "qid">> >>,    << <<"qid", "qid">> >>)
HasName   == Members(<< <<"name", "str">> >>,   << <<"name", "str">> >>)
HasFid    == Members(<< <<"fid", "u32">> >>,    << <<"fid", "u32">> >>)
HasCount  == Members(<< <<"count", "u32">> >>,  << <<"count", "u32">> >>)
HasOffset == Members(<< <<"offset", "u64">> >>, << <<"offset", "u64">> >>)
HasDataStorage == Members(<< <<"data", "data">> >>, << <<"data", "data">> >>)

(* The members of Stat between its length field and its end. *)
Stat ==
  Members(
    << <<"type", "u16">>, <<"dev", "u32">> >> \o HasQid.encode
      \o << <<"mode", "u32">>, <<"atime", "u32">>, <<"mtime", "u32">>, <<"length", "u64">> >>
      \o HasName.encode \o << <<"uid", "str">>, <<"gid", "str">>, <<"muid", "str">> >>,
    << <<"type", "u16">>, <<"dev", "u32">> >> \o HasQid.decode
      \o << <<"mode", "u32">>, <<"atime", "u32">>, <<"mtime", "u32">>, <<"length", "u64">> >>
      \o HasName.decode \o << <<"uid", "str">>, <<"gid", "str">>, <<"muid", "str">> >>)

-----------------------------------------------------------------------------
(* Message classes. *)

MessageHeader ==
  Members(<< <<"op", "u8">>, <<"tag", "u16">> >>, << <<"op", "u8">>, <<"tag", "u16">> >>)

ErrorResponse ==
  Join(MessageHeader, Members(<< <<"ename", "str">> >>, << <<"ename", "str">> >>))

VersionMessage ==
  Join(MessageHeader,
       Members(<< <<"msize", "u16">>, <<"version", "str">> >>,
               << <<"msize", "u16">>, <<"version", "str">> >>))

AuthenticationRequest ==
  Join(MessageHeader,
       Members(<< <<"afid", "u32">>, <<"uname", "str">>, <<"aname", "str">> >>,
               << <<"afid", "u32">>, <<"uname", "str">>, <<"aname", "str">> >>))

AuthenticationResponse == Join(MessageHeader, HasQid)

FlushRequest ==
  Join(MessageHeader, Members(<< <<"oldtag", "u16">> >>, << <<"oldtag", "u16">> >>))

AttachRequest ==
  Join(Join(MessageHeader, HasFid),
       Members(<< <<"afid", "u32">>, <<"uname", "str">>, <<"aname", "str">> >>,
               << <<"afid", "u32">>, <<"uname", "str">>, <<"aname", "str">> >>))

AttachResponse == Join(MessageHeader, HasQid)

WalkRequest ==
  Join(Join(MessageHeader, HasFid),
       Members(<< <<"newfid", "u32">>, <<"wname", "strs">> >>,
               << <<"newfid", "u32">>, <<"wname", "strs">> >>))

WalkResponse ==
  Join(MessageHeader, Members(<< <<"wqid", "qids">> >>, << <<"wqid", "qids">> >>))

OpenRequest ==
  Join(Join(MessageHeader, HasFid), Members(<< <<"mode", "u8">> >>, << <<"mode", "u8">> >>))

OpenOrCreateResponse ==
  Join(Join(MessageHeader, HasQid), Members(<< <<"iounit", "u32">> >>, << <<"iounit", "u32">> >>))

(* Mutant of CreateRequest: decode takes the mode before the permissions. *)
CreateRequestTwisted ==
  Join(Join(Join(MessageHeader, HasFid), HasName),
       Members(<< <<"perm", "u32">>, <<"mode", "u8">> >>,
               << <<"mode", "u8">>, <<"perm", "u32">> >>))

CreateRequest ==
  Join(Join(Join(MessageHeader, HasFid), HasName),
       Members(<< <<"perm", "u32">>, <<"mode", "u8">> >>,
               << <<"perm", "u32">>, <<"mode", "u8">> >>))

FidRequest       == Join(MessageHeader, HasFid)
ReadWriteRequest == Join(FidRequest, HasOffset)
ReadRequest      == Join(ReadWriteRequest, HasCount)
ReadResponse     == Join(MessageHeader, HasDataStorage)
WriteRequest     == Join(ReadWriteRequest, HasDataStorage)
WriteResponse    == Join(MessageHeader, HasCount)

StatResponse ==
  Join(MessageHeader, Members(<< <<"data", "str">> >>, << <<"data", "str">> >>))

WStatRequest ==
  Join(Join(MessageHeader, HasFid), Members(<< <<"stat", "stat">> >>, << <<"stat", "stat">> >>))

(* BindRequestResponseToTypes *)
BoundRequestType ==
  [ Version |-> VersionMessage, Auth |-> AuthenticationRequest, Attach |-> AttachRequest,
    Error |-> MessageHeader, Flush |-> FlushRequest, Walk |-> WalkRequest, Open |-> OpenRequest,
    Create |-> CreateRequest, Read |-> ReadRequest, Write |-> WriteRequest, Clunk |-> FidRequest,
    Remove |-> FidRequest, Stat |-> FidRequest, WStat |-> WStatRequest ]

BoundResponseType ==
  [ Version |-> VersionMessage, Auth |-> AuthenticationResponse, Attach |-> AttachResponse,
    Error |-> ErrorResponse, Flush |-> MessageHeader, Walk |-> WalkResponse,
    Open |-> OpenOrCreateResponse, Create |-> OpenOrCreateResponse, Read |-> ReadResponse,
    Write |-> WriteResponse, Clunk |-> MessageHeader, Remove |-> MessageHeader,
    Stat |-> StatResponse, WStat |-> MessageHeader ]

Class(kind, dir) == IF dir = "Request" THEN BoundRequestType[kind] ELSE BoundResponseType[kind]

-----------------------------------------------------------------------------
(* What the members hold. *)

Qids ==
  {q \in [type : Byte, version : Nat, path : Nat \X Nat] :
     HasType("u32", q.version) /\ HasType("u64", q.path)}

HasPartType(type, v) == IF type = "qid" THEN v \in Qids ELSE HasType(type, v)

HasMemberType(type, v) ==
  /\ type = "strs" => v \in Seq(Seq(Byte))
  /\ type = "qids" => v \in Seq(Qids)
  /\ type = "data" => v \in Seq(Byte)
  /\ type = "stat" =>
       \A i \in DOMAIN Stat.encode : HasPartType(Stat.encode[i][2], v[Stat.encode[i][1]])
  /\ type \notin {"strs", "qids", "data", "stat"} => HasPartType(type, v)

(* An object as its constructor and its setters leave it: members of their *)
(* types, and the operation of the class, which no setter changes.         *)
Wellformed(m) ==
  /\ m.kind \in Kind \cup {"Undefined"} /\ m.dir \in {"Request", "Response"}
  /\ m.kind \in Kind =>
       LET fields == Class(m.kind, m.dir).encode
       IN  /\ m.body["op"] = translateConcept(m.kind, m.dir)
           /\ \A i \in DOMAIN fields : HasMemberType(fields[i][2], m.body[fields[i][1]])

-----------------------------------------------------------------------------
(* encode() *)

(* Qid::encode: integers alone, so it never throws. *)
EncodeQid(q) == Done(<<q.type>> \o Encode32(q.version) \o Encode64(q.path))

(* A member of Stat: a Qid or a plain value. *)
EncodePart(type, v) == IF type = "qid" THEN EncodeQid(v) ELSE EncodeValue(type, v)

(* Stat::encode: everything goes into a stream of its own, which is then   *)
(* sent as one string.                                                     *)
EncodeStat(s) ==
  LET inner == EncodeAll([i \in DOMAIN Stat.encode |->
                            EncodePart(Stat.encode[i][2], s[Stat.encode[i][1]])])
  IN  IF inner.ok THEN EncodeString(inner.bytes) ELSE Thrown

EncodeData(data) ==
  IF FitsU32(Len(data)) THEN Done(Encode32(Len(data)) \o data) ELSE Thrown

EncodeMember(type, v) ==
  CASE type = "strs" -> EncodeVector([i \in DOMAIN v |-> EncodeString(v[i])])
    [] type = "qids" -> EncodeVector([i \in DOMAIN v |-> EncodeQid(v[i])])
    [] type = "data" -> EncodeData(v)
    [] type = "stat" -> EncodeStat(v)
    [] OTHER -> EncodePart(type, v)

(* encode() of an UndefinedMessage throws at once. *)
EncodeMessage(m) ==
  IF m.kind = "Undefined" THEN Thrown
  ELSE LET fields == Class(m.kind, m.dir).encode
       IN  EncodeAll([i \in DOMAIN fields |-> EncodeMember(fields[i][2], m.body[fields[i][1]])])

-----------------------------------------------------------------------------
(* decode() *)

(* `msg >> a >> b ...' over the members of obj that fields names. *)
DecodeAll(Dec(_, _, _), fields, c, obj) ==
  LET first[i \in 0 .. Len(fields)] ==
        IF i = 0 THEN [v |-> obj, c |-> c]
        ELSE LET f == fields[i]
                 a == first[i - 1]
                 d == Dec(f[2], a.c, a.v[f[1]])
             IN  [v |-> [a.v EXCEPT ![f[1]] = d.v], c |-> d.c]
  IN  first[Len(fields)]

(* What a default-constructed object holds.  Its integers are not          *)
(* initialised; every one of them is overwritten when it is decoded into.  *)
DefaultQid == [type |-> 0, version |-> 0, path |-> <<0, 0>>]
DefaultStat ==
  [type |-> 0, dev |-> 0, qid |-> DefaultQid, mode |-> 0, atime |-> 0, mtime |-> 0,
   length |-> <<0, 0>>, name |-> << >>, uid |-> << >>, gid |-> << >>, muid |-> << >>]

Default(type) ==
  CASE type \in {"u8", "u16", "u32"} -> 0
    [] type = "u64" -> <<0, 0>>
    [] type = "qid" -> DefaultQid
    [] type = "stat" -> DefaultStat
    [] OTHER -> << >>

MemberNames(kind, dir) ==
  LET fields == Class(kind, dir).encode IN {fields[i][1] : i \in DOMAIN fields}

MemberType(kind, dir, name) ==
  LET fields == Class(kind, dir).encode
  IN  fields[CHOOSE i \in DOMAIN fields : fields[i][1] = name][2]

notag == M16 - 1

(* The constructors: the operation comes from the class, the tag is notag. *)
NewMessage(kind, dir) ==
  [kind |-> kind, dir |-> dir,
   body |-> [name \in MemberNames(kind, dir) |->
               CASE name = "op"  -> translateConcept(kind, dir)
                 [] name = "tag" -> notag
                 [] OTHER -> Default(MemberType(kind, dir, name))]]

UndefinedMessage(dir) ==
  [kind |-> "Undefined", dir |-> dir,
   body |-> [op |-> translateConcept("Undefined", dir), tag |-> notag]]

DecodeQid(c, order) ==
  [v |-> [type |-> ByteAt(c, 0), version |-> U32At(Skip(c, 1)), path |-> U64At(Skip(c, 5), order)],
   c |-> Skip(c, 13)]

DecodePart(type, c, old, order) ==
  IF type = "qid" THEN DecodeQid(c, order) ELSE DecodeValue(type, c, old, order)

(* operator>>(MessageStream&, std::vector<T>&): each element is added to   *)
(* what the vector holds, as a new T, and then decoded into.               *)
DecodeVector(type, c, old, order) ==
  LET first[i \in 0 .. U16At(c)] ==
        IF i = 0 THEN [v |-> old, c |-> Skip(c, 2)]
        ELSE LET a == first[i - 1]
                 d == DecodePart(type, a.c, Default(type), order)
             IN  [v |-> Append(a.v, d.v), c |-> d.c]
  IN  first[U16At(c)]

(* Mutant of DecodeStat: the length field is forgotten. *)
DecodeStatBare(c, old, order) ==
  DecodeAll(LAMBDA t, d, o : DecodePart(t, d, o, order), Stat.decode, c, old)

(* Stat::decode: the length is read and not used. *)
DecodeStat(c, old, order) ==
  DecodeAll(LAMBDA t, d, o : DecodePart(t, d, o, order), Stat.decode, Skip(c, 2), old)

(* Mutant of DecodeData: no more bytes are asked for than there are. *)
DecodeDataReadsome(c, old) ==
  LET there == Len(c.bytes) + 1 - (c.at + 4)
      n == IF U32At(c) <= there THEN U32At(c) ELSE IF there > 0 THEN there ELSE 0
  IN  [v |-> old \o [i \in 1 .. n |-> ByteAt(Skip(c, 4), i - 1)], c |-> Skip(c, 4 + n)]

(* HasDataStorage::decode appends to what the vector holds. *)
DecodeData(c, old) ==
  LET n == U32At(c)
  IN  [v |-> old \o [i \in 1 .. n |-> ByteAt(Skip(c, 4), i - 1)], c |-> Skip(c, 4 + n)]

DecodeMember(type, c, old, order) ==
  CASE type = "strs" -> DecodeVector("str", c, old, order)
    [] type = "qids" -> DecodeVector("qid", c, old, order)
    [] type = "data" -> DecodeData(c, old)
    [] type = "stat" -> DecodeStat(c, old, order)
    [] OTHER -> DecodePart(type, c, old, order)

(* decode() into the object m, which may have been used before. *)
DecodeMessage(m, c, order) ==
  LET d == DecodeAll(LAMBDA t, e, o : DecodeMember(t, e, o, order),
                     Class(m.kind, m.dir).decode, c, m.body)
  IN  [v |-> [m EXCEPT !.body = d.v], c |-> d.c]
=============================================================================
