--------------------------- MODULE MessageProofs ---------------------------
(***************************************************************************)
(* decode() of every message class takes exactly the bytes that encode()   *)
(* of that class put, member by member, for every value of the members,    *)
(* whatever the object that is decoded into holds and whatever follows on  *)
(* the stream; and it never goes back, whatever bytes it finds.            *)
(***************************************************************************)
EXTENDS Message, WireProofs

-----------------------------------------------------------------------------
(* Decoding one field after the other. *)

(* One field of a Stat, one field of a message, one element of a vector:   *)
(* what has been decoded and the cursor, after it.                         *)
PartStep(f, a, order) ==
  LET d == DecodePart(f[2], a.c, a.v[f[1]], order)
  IN  [v |-> [a.v EXCEPT ![f[1]] = d.v], c |-> d.c]

MemberStep(f, a, order) ==
  LET d == DecodeMember(f[2], a.c, a.v[f[1]], order)
  IN  [v |-> [a.v EXCEPT ![f[1]] = d.v], c |-> d.c]

ElementStep(type, a, order) ==
  LET d == DecodePart(type, a.c, Default(type), order)
  IN  [v |-> Append(a.v, d.v), c |-> d.c]

Step(use, x, a, order) ==
  IF use = "part" THEN PartStep(x, a, order)
  ELSE IF use = "member" THEN MemberStep(x, a, order) ELSE ElementStep(x, a, order)

IsRun(h, use, xs, n, start, order) ==
  h = [i \in 0 .. n |-> IF i = 0 THEN start ELSE Step(use, xs[i], h[i - 1], order)]

(* The recursive functions of the decoders have a value. *)
LEMMA RunExists ==
  ASSUME NEW use, NEW xs, NEW n \in Nat, NEW start, NEW order
  PROVE  \E h : IsRun(h, use, xs, n, start, order)
<1> DEFINE Has(k) == \E h : IsRun(h, use, xs, k, start, order)
           P == {k \in Nat : Has(k)}
<1>1. Has(0)
  <2> DEFINE e == [i \in 0 .. 0 |-> start]
  <2>1. e = [i \in 0 .. 0 |-> IF i = 0 THEN start ELSE Step(use, xs[i], e[i - 1], order)]
    OBVIOUS
  <2> HIDE DEF e
  <2>2. IsRun(e, use, xs, 0, start, order)
    BY <2>1, Zenon DEF IsRun
  <2> QED
    BY <2>2, Zenon
<1>2. ASSUME NEW k \in Nat, Has(k) PROVE Has(k + 1)
  <2>1. PICK h : IsRun(h, use, xs, k, start, order)
    BY <1>2
  <2>2. /\ h[0] = start
        /\ \A i \in 1 .. k : h[i] = Step(use, xs[i], h[i - 1], order)
    BY <2>1 DEF IsRun
  <2> DEFINE last == Step(use, xs[k + 1], h[k], order)
             g == [i \in 0 .. k + 1 |-> IF i = k + 1 THEN last ELSE h[i]]
  <2> HIDE DEF last
  <2>3. \A i \in 0 .. k : g[i] = h[i] /\ i \in 0 .. k + 1
    OBVIOUS
  <2>4. g[k + 1] = last /\ g = [i \in 0 .. k + 1 |-> g[i]]
    OBVIOUS
  <2> HIDE DEF g
  <2>5. ASSUME NEW i \in 0 .. k + 1
        PROVE  g[i] = IF i = 0 THEN start ELSE Step(use, xs[i], g[i - 1], order)
    <3>1. CASE i = k + 1
      <4>1. i # 0 /\ i - 1 = k /\ k \in 0 .. k
        BY <3>1
      <4>2. g[i] = Step(use, xs[i], h[i - 1], order) /\ g[i - 1] = h[i - 1]
        BY <2>3, <2>4, <3>1, <4>1, Zenon DEF last
      <4> QED
        BY <4>1, <4>2, Zenon
    <3>2. CASE i \in 1 .. k
      BY <2>2, <2>3, <3>2
    <3>3. CASE i = 0
      BY <2>2, <2>3, <3>3
    <3> QED
      BY <3>1, <3>2, <3>3
  <2>6. IsRun(g, use, xs, k + 1, start, order)
    BY <2>4, <2>5 DEF IsRun
  <2> QED
    BY <2>6, Zenon
<1> HIDE DEF Has
<1>3. P = Nat
  <2>1. P \in SUBSET Nat /\ 0 \in P /\ \A k \in P : k + 1 \in P
    BY <1>1, <1>2
  <2> HIDE DEF P
  <2> QED
    BY <2>1, Induction
<1> QED
  BY <1>3 DEF Has

(* What a run goes through. *)
Runs(h, use, xs, n, start, order) ==
  h[0] = start /\ \A i \in 1 .. n : h[i] = Step(use, xs[i], h[i - 1], order)

LEMMA RunSteps ==
  ASSUME NEW h, NEW use, NEW xs, NEW n \in Nat, NEW start, NEW order,
         IsRun(h, use, xs, n, start, order)
  PROVE  Runs(h, use, xs, n, start, order)
BY DEF IsRun, Runs

(* Stat::decode is a run over its fields. *)
LEMMA DecodeStatRuns ==
  ASSUME NEW c, NEW old, NEW order, Len(Stat.decode) \in Nat
  PROVE  \E h : /\ Runs(h, "part", Stat.decode, Len(Stat.decode), [v |-> old, c |-> Skip(c, 2)], order)
                /\ DecodeStat(c, old, order) = h[Len(Stat.decode)]
<1> DEFINE fields == Stat.decode
           start == [v |-> old, c |-> Skip(c, 2)]
           Is(h) == IsRun(h, "part", fields, Len(fields), start, order)
           f == CHOOSE h : Is(h)
<1>1. Is(f)
  <2>1. \E h : Is(h)
    BY RunExists
  <2> HIDE DEF Is
  <2> QED
    BY <2>1
<1>2. DecodeStat(c, old, order) = f[Len(fields)]
  BY DEF DecodeStat, DecodeAll, IsRun, Step, PartStep
<1> HIDE DEF f
<1>3. Runs(f, "part", fields, Len(fields), start, order)
  BY <1>1, RunSteps
<1> QED
  BY <1>2, <1>3

(* decode() of a message is a run over the fields of its class. *)
LEMMA DecodeMessageRuns ==
  ASSUME NEW m, NEW c, NEW order, Len(Class(m.kind, m.dir).decode) \in Nat
  PROVE  LET fields == Class(m.kind, m.dir).decode
         IN  \E h : /\ Runs(h, "member", fields, Len(fields), [v |-> m.body, c |-> c], order)
                    /\ DecodeMessage(m, c, order) =
                         [v |-> [m EXCEPT !.body = h[Len(fields)].v], c |-> h[Len(fields)].c]
<1> DEFINE fields == Class(m.kind, m.dir).decode
           start == [v |-> m.body, c |-> c]
           Is(h) == IsRun(h, "member", fields, Len(fields), start, order)
           f == CHOOSE h : Is(h)
<1>1. Is(f)
  <2>1. \E h : Is(h)
    BY RunExists
  <2> HIDE DEF Is
  <2> QED
    BY <2>1
<1>2. DecodeMessage(m, c, order) =
        [v |-> [m EXCEPT !.body = f[Len(fields)].v], c |-> f[Len(fields)].c]
  BY DEF DecodeMessage, DecodeAll, IsRun, Step, MemberStep
<1> HIDE DEF f
<1>3. Runs(f, "member", fields, Len(fields), start, order)
  BY <1>1, RunSteps
<1> QED
  BY <1>2, <1>3

(* operator>> of a vector is a run over as many elements as it announces. *)
LEMMA DecodeVectorRuns ==
  ASSUME NEW type, NEW c, NEW old, NEW order, U16At(c) \in Nat
  PROVE  \E h : /\ Runs(h, "element", [i \in 1 .. U16At(c) |-> type], U16At(c),
                        [v |-> old, c |-> Skip(c, 2)], order)
                /\ DecodeVector(type, c, old, order) = h[U16At(c)]
<1> DEFINE n == U16At(c)
           start == [v |-> old, c |-> Skip(c, 2)]
           xs == [i \in 1 .. n |-> type]
           Is(h) == h = [i \in 0 .. n |-> IF i = 0 THEN start ELSE ElementStep(type, h[i - 1], order)]
           f == CHOOSE h : Is(h)
<1>1. PICK g : IsRun(g, "element", xs, n, start, order)
  <2> HIDE DEF xs, n
  <2> QED
    BY RunExists DEF n
<1>2. Is(g)
  <2>1. \A i \in 0 .. n : i # 0 => xs[i] = type
    OBVIOUS
  <2> HIDE DEF xs, n
  <2> QED
    BY <1>1, <2>1 DEF IsRun, Step
<1>3. Is(f)
  <2> HIDE DEF Is
  <2> QED
    BY <1>2
<1>4. DecodeVector(type, c, old, order) = f[n]
  BY DEF DecodeVector, ElementStep
<1> HIDE DEF f
<1>5. Runs(f, "element", xs, n, start, order)
  BY <1>3 DEF Runs, Step
<1> QED
  BY <1>4, <1>5
-----------------------------------------------------------------------------
(* The field lists. *)

PartTypes   == ValueTypes \cup {"qid"}
MemberTypes == PartTypes \cup {"strs", "qids", "data", "stat"}

AllNames ==
  {"op", "tag", "qid", "name", "fid", "count", "offset", "data", "type", "dev", "mode", "atime",
   "mtime", "length", "uid", "gid", "muid", "ename", "msize", "version", "afid", "uname", "aname",
   "oldtag", "newfid", "wname", "wqid", "iounit", "perm", "stat"}

(* A list of fields with these names, no name twice. *)
Fields(s, types, names) ==
  /\ s \in Seq(AllNames \X types)
  /\ \A i \in 1 .. Len(s) : s[i][1] \in names
  /\ \A i, j \in 1 .. Len(s) : s[i][1] = s[j][1] => i = j

(* encode() and decode() name the same fields in the same order. *)
Matches(m, types, names) == m.encode = m.decode /\ Fields(m.encode, types, names)

(* Two lists without a common name make one list. *)
LEMMA FieldsConcat ==
  ASSUME NEW types, NEW s, NEW t, NEW m, NEW n,
         Fields(s, types, m), Fields(t, types, n), m \cap n = {}
  PROVE  Fields(s \o t, types, m \cup n) /\ \A k \in 1 .. Len(s) : (s \o t)[k] = s[k]
<1>1. s \in Seq(AllNames \X types) /\ t \in Seq(AllNames \X types)
  BY DEF Fields
<1>2. Len(s) \in Nat /\ Len(t) \in Nat
  BY <1>1
<1> DEFINE x == s \o t
<1>3. x \in Seq(AllNames \X types) /\ Len(x) = Len(s) + Len(t)
      /\ \A i \in 1 .. Len(s) + Len(t) : x[i] = IF i <= Len(s) THEN s[i] ELSE t[i - Len(s)]
  BY <1>1, ConcatProperties
<1> HIDE DEF x
<1>4. /\ \A i \in 1 .. Len(s) : s[i][1] \in m
      /\ \A i, j \in 1 .. Len(s) : s[i][1] = s[j][1] => i = j
      /\ \A i \in 1 .. Len(t) : t[i][1] \in n
      /\ \A i, j \in 1 .. Len(t) : t[i][1] = t[j][1] => i = j
  BY DEF Fields
<1>5. \A i \in 1 .. Len(x) : \/ i \in 1 .. Len(s) /\ x[i] = s[i]
                             \/ i - Len(s) \in 1 .. Len(t) /\ x[i] = t[i - Len(s)]
  BY <1>2, <1>3
<1>6. \A i \in 1 .. Len(x) : x[i][1] \in m \cup n
  BY <1>4, <1>5
<1>7. ASSUME NEW i \in 1 .. Len(x), NEW j \in 1 .. Len(x), x[i][1] = x[j][1]
      PROVE  i = j
  <2>1. CASE i \in 1 .. Len(s) /\ x[i] = s[i] /\ j \in 1 .. Len(s) /\ x[j] = s[j]
    BY <1>4, <1>7, <2>1
  <2>2. CASE i - Len(s) \in 1 .. Len(t) /\ x[i] = t[i - Len(s)]
             /\ j - Len(s) \in 1 .. Len(t) /\ x[j] = t[j - Len(s)]
    <3>1. i - Len(s) = j - Len(s)
      BY <1>4, <1>7, <2>2, Zenon
    <3> QED
      BY <1>2, <1>3, <3>1
  <2>3. CASE i \in 1 .. Len(s) /\ x[i] = s[i]
             /\ j - Len(s) \in 1 .. Len(t) /\ x[j] = t[j - Len(s)]
    BY <1>4, <1>7, <2>3
  <2>4. CASE i - Len(s) \in 1 .. Len(t) /\ x[i] = t[i - Len(s)]
             /\ j \in 1 .. Len(s) /\ x[j] = s[j]
    BY <1>4, <1>7, <2>4
  <2> QED
    BY <1>5, <2>1, <2>2, <2>3, <2>4
<1>8. \A k \in 1 .. Len(s) : x[k] = s[k]
  BY <1>2, <1>3
<1> QED
  BY <1>3, <1>6, <1>7, <1>8 DEF Fields, x

(* A list begins with another one. *)
Starts(x, s) == \A k \in 1 .. Len(s) : x[k] = s[k]

(* The base class first, then the members of the derived class. *)
LEMMA JoinMatches ==
  ASSUME NEW types, NEW a, NEW b, NEW m, NEW n,
         Matches(a, types, m), Matches(b, types, n), m \cap n = {}
  PROVE  /\ Matches(Join(a, b), types, m \cup n)
         /\ Starts(Join(a, b).encode, a.encode)
         /\ Len(Join(a, b).encode) = Len(a.encode) + Len(b.encode)
<1>1. Join(a, b).encode = a.encode \o b.encode /\ Join(a, b).decode = a.decode \o b.decode
  BY DEF Join, Members
<1>2. a.encode \in Seq(AllNames \X types) /\ b.encode \in Seq(AllNames \X types)
  BY DEF Matches, Fields
<1>3. Len(a.encode \o b.encode) = Len(a.encode) + Len(b.encode)
  BY <1>2, ConcatProperties
<1>4. Fields(a.encode, types, m) /\ Fields(b.encode, types, n)
      /\ a.encode = a.decode /\ b.encode = b.decode
  BY DEF Matches
<1>5. Fields(a.encode \o b.encode, types, m \cup n)
      /\ Starts(a.encode \o b.encode, a.encode)
  <2> DEFINE s == a.encode
             t == b.encode
  <2> HIDE DEF s, t
  <2>1. Fields(s, types, m) /\ Fields(t, types, n)
    BY <1>4 DEF s, t
  <2>2. Fields(s \o t, types, m \cup n) /\ Starts(s \o t, s)
    BY <2>1, FieldsConcat DEF Starts
  <2> QED
    BY <2>2, Zenon DEF s, t
<1>6. Matches(Join(a, b), types, m \cup n)
  BY <1>1, <1>4, <1>5 DEF Matches
<1> QED
  BY <1>1, <1>3, <1>5, <1>6
(* A class whose operation comes first, and then its tag. *)
Headed(m, names) ==
  /\ Matches(m, MemberTypes, names)
  /\ Len(m.encode) >= 2 /\ m.encode[1] = <<"op", "u8">> /\ m.encode[2] = <<"tag", "u16">>

LEMMA HeadedJoin ==
  ASSUME NEW a, NEW b, NEW m, NEW n,
         Headed(a, m), Matches(b, MemberTypes, n), m \cap n = {}
  PROVE  Headed(Join(a, b), m \cup n)
<1>1. /\ Matches(a, MemberTypes, m) /\ Len(a.encode) >= 2
      /\ a.encode[1] = <<"op", "u8">> /\ a.encode[2] = <<"tag", "u16">>
  BY DEF Headed
<1>2. Len(a.encode) \in Nat /\ Len(b.encode) \in Nat
  BY <1>1 DEF Matches, Fields
<1>3. /\ Matches(Join(a, b), MemberTypes, m \cup n)
      /\ Starts(Join(a, b).encode, a.encode)
      /\ Len(Join(a, b).encode) = Len(a.encode) + Len(b.encode)
  BY <1>1, JoinMatches
<1>4. Len(Join(a, b).encode) >= 2 /\ 1 \in 1 .. Len(a.encode) /\ 2 \in 1 .. Len(a.encode)
  <2>1. \A x, y \in Nat : x >= 2 => x + y >= 2 /\ 1 \in 1 .. x /\ 2 \in 1 .. x
    OBVIOUS
  <2> QED
    BY <1>1, <1>2, <1>3, <2>1, Zenon
<1>5. Join(a, b).encode[1] = a.encode[1] /\ Join(a, b).encode[2] = a.encode[2]
  BY <1>3, <1>4, Zenon DEF Starts
<1> QED
  BY <1>1, <1>3, <1>4, <1>5, Zenon DEF Headed

(* The members a class adds to its base, as many as it adds. *)
One(m, s)               == Members(<< <<m, s>> >>, << <<m, s>> >>)
Two(m, s, n, t)         == Members(<< <<m, s>>, <<n, t>> >>, << <<m, s>>, <<n, t>> >>)
Three(l, r, m, s, n, t) ==
  Members(<< <<l, r>>, <<m, s>>, <<n, t>> >>, << <<l, r>>, <<m, s>>, <<n, t>> >>)

LEMMA OneField ==
  ASSUME NEW types, NEW m \in AllNames, NEW s \in types
  PROVE  Matches(One(m, s), types, {m})
BY DEF One, Members, Matches, Fields

LEMMA ListOfTwo ==
  ASSUME NEW types, NEW a \in AllNames \X types, NEW b \in AllNames \X types, a[1] # b[1]
  PROVE  Matches(Members(<<a, b>>, <<a, b>>), types, {a[1], b[1]})
<1> DEFINE F == AllNames \X types
           x == <<a, b>>
<1>1. a \in F /\ b \in F
  OBVIOUS
<1> HIDE DEF F
<1>2. x \in Seq(F) /\ Len(x) = 2 /\ x[1] = a /\ x[2] = b
  BY <1>1
<1>3. Members(x, x).encode = x /\ Members(x, x).decode = x
  BY DEF Members
<1> HIDE DEF x
<1>4. \A i \in 1 .. 2 : i = 1 \/ i = 2
  OBVIOUS
<1>5. \A i \in 1 .. 2 : x[i][1] \in {a[1], b[1]}
  BY <1>2, <1>4
<1>6. \A i, j \in 1 .. 2 : x[i][1] = x[j][1] => i = j
  BY <1>2, <1>4
<1>7. Fields(x, types, {a[1], b[1]})
  BY <1>2, <1>5, <1>6 DEF Fields, F
<1> QED
  BY <1>3, <1>7 DEF Matches, x

LEMMA ListOfThree ==
  ASSUME NEW types, NEW a \in AllNames \X types, NEW b \in AllNames \X types, NEW c \in AllNames \X types,
         a[1] # b[1], a[1] # c[1], b[1] # c[1]
  PROVE  Matches(Members(<<a, b, c>>, <<a, b, c>>), types, {a[1], b[1], c[1]})
<1> DEFINE F == AllNames \X types
           x == <<a, b, c>>
<1>1. a \in F /\ b \in F /\ c \in F
  OBVIOUS
<1> HIDE DEF F
<1>2. x \in Seq(F) /\ Len(x) = 3 /\ x[1] = a /\ x[2] = b /\ x[3] = c
  BY <1>1
<1>3. Members(x, x).encode = x /\ Members(x, x).decode = x
  BY DEF Members
<1> HIDE DEF x
<1>4. \A i \in 1 .. 3 : i = 1 \/ i = 2 \/ i = 3
  OBVIOUS
<1>5. \A i \in 1 .. 3 : x[i][1] \in {a[1], b[1], c[1]}
  BY <1>2, <1>4
<1>6. \A i, j \in 1 .. 3 : x[i][1] = x[j][1] => i = j
  BY <1>2, <1>4
<1>7. Fields(x, types, {a[1], b[1], c[1]})
  BY <1>2, <1>5, <1>6 DEF Fields, F
<1> QED
  BY <1>3, <1>7 DEF Matches, x

LEMMA TwoFields ==
  ASSUME NEW types, NEW m \in AllNames, NEW n \in AllNames, m # n, NEW s \in types, NEW t \in types
  PROVE  Matches(Two(m, s, n, t), types, {m, n})
<1> DEFINE a == <<m, s>>
           b == <<n, t>>
<1>1. a \in AllNames \X types /\ b \in AllNames \X types /\ a[1] = m /\ b[1] = n
  OBVIOUS
<1> HIDE DEF a, b
<1>2. Matches(Members(<<a, b>>, <<a, b>>), types, {a[1], b[1]})
  BY <1>1, ListOfTwo
<1> QED
  BY <1>1, <1>2 DEF a, b, Two

LEMMA ThreeFields ==
  ASSUME NEW types, NEW l \in AllNames, NEW m \in AllNames, NEW n \in AllNames, l # m, l # n, m # n,
         NEW r \in types, NEW s \in types, NEW t \in types
  PROVE  Matches(Three(l, r, m, s, n, t), types, {l, m, n})
<1> DEFINE a == <<l, r>>
           b == <<m, s>>
           c == <<n, t>>
<1>1. /\ a \in AllNames \X types /\ b \in AllNames \X types /\ c \in AllNames \X types
      /\ a[1] = l /\ b[1] = m /\ c[1] = n
  OBVIOUS
<1> HIDE DEF a, b, c
<1>2. Matches(Members(<<a, b, c>>, <<a, b, c>>), types, {a[1], b[1], c[1]})
  BY <1>1, ListOfThree
<1> QED
  BY <1>1, <1>2 DEF a, b, c, Three
(* The names and the types are names and types. *)
LEMMA Listed ==
  /\ "op" \in AllNames /\ "tag" \in AllNames /\ "qid" \in AllNames /\ "name" \in AllNames
  /\ "fid" \in AllNames /\ "count" \in AllNames /\ "offset" \in AllNames /\ "data" \in AllNames
  /\ "ename" \in AllNames /\ "msize" \in AllNames /\ "version" \in AllNames
  /\ "afid" \in AllNames /\ "uname" \in AllNames /\ "aname" \in AllNames
  /\ "oldtag" \in AllNames /\ "newfid" \in AllNames /\ "wname" \in AllNames
  /\ "wqid" \in AllNames /\ "mode" \in AllNames /\ "iounit" \in AllNames /\ "perm" \in AllNames
  /\ "stat" \in AllNames /\ "type" \in AllNames /\ "dev" \in AllNames /\ "atime" \in AllNames
  /\ "mtime" \in AllNames /\ "length" \in AllNames /\ "uid" \in AllNames /\ "gid" \in AllNames
  /\ "muid" \in AllNames
  /\ \A type \in {"u8", "u16", "u32", "u64", "str", "qid"} : type \in PartTypes
  /\ \A type \in {"u8", "u16", "u32", "u64", "str", "qid", "strs", "qids", "data", "stat"} :
       type \in MemberTypes
BY DEF AllNames, PartTypes, MemberTypes, ValueTypes

(* The mix-ins. *)
LEMMA MixIns ==
  ASSUME NEW types \in {PartTypes, MemberTypes}
  PROVE  /\ Matches(HasQid, types, {"qid"}) /\ Matches(HasName, types, {"name"})
         /\ Matches(HasFid, types, {"fid"}) /\ Matches(HasCount, types, {"count"})
         /\ Matches(HasOffset, types, {"offset"})
<1>1. "u32" \in types /\ "u64" \in types /\ "str" \in types /\ "qid" \in types
  BY Listed
<1> QED
  BY <1>1, Listed, OneField, Zenon DEF HasQid, HasName, HasFid, HasCount, HasOffset, One

HeaderNames == {"op", "tag"}
FidNames    == HeaderNames \cup {"fid"}

(* What the classes of several requests start with. *)
LEMMA BaseClasses ==
  /\ Headed(MessageHeader, HeaderNames)
  /\ Headed(FidRequest, FidNames)
  /\ Headed(ReadWriteRequest, FidNames \cup {"offset"})
  /\ MemberTypes \in {PartTypes, MemberTypes}
  /\ Matches(HasDataStorage, MemberTypes, {"data"})
<1>0. MemberTypes \in {PartTypes, MemberTypes}
  OBVIOUS
<1>1. Headed(MessageHeader, HeaderNames)
  <2>1. Matches(MessageHeader, MemberTypes, {"op", "tag"})
    BY Listed, TwoFields, Zenon DEF MessageHeader, Two
  <2> QED
    BY <2>1 DEF Headed, MessageHeader, Members, HeaderNames
<1>2. Headed(FidRequest, FidNames)
  <2>1. HeaderNames \cap {"fid"} = {}
    BY DEF HeaderNames
  <2> QED
    BY <1>0, <1>1, <2>1, MixIns, HeadedJoin, Zenon DEF FidRequest, FidNames
<1>3. Headed(ReadWriteRequest, FidNames \cup {"offset"})
  <2>1. FidNames \cap {"offset"} = {}
    BY DEF FidNames, HeaderNames
  <2> QED
    BY <1>0, <1>2, <2>1, MixIns, HeadedJoin, Zenon DEF ReadWriteRequest
<1>4. Matches(HasDataStorage, MemberTypes, {"data"})
  BY Listed, OneField, Zenon DEF HasDataStorage, One
<1> QED
  BY <1>0, <1>1, <1>2, <1>3, <1>4

(* Requests. *)
LEMMA RequestClasses ==
  /\ Headed(AuthenticationRequest, HeaderNames \cup {"afid", "uname", "aname"})
  /\ Headed(AttachRequest, FidNames \cup {"afid", "uname", "aname"})
  /\ Headed(FlushRequest, HeaderNames \cup {"oldtag"})
  /\ Headed(WalkRequest, FidNames \cup {"newfid", "wname"})
  /\ Headed(OpenRequest, FidNames \cup {"mode"})
  /\ Headed(CreateRequest, FidNames \cup {"name"} \cup {"perm", "mode"})
  /\ Headed(ReadRequest, FidNames \cup {"offset"} \cup {"count"})
  /\ Headed(WriteRequest, FidNames \cup {"offset"} \cup {"data"})
  /\ Headed(WStatRequest, FidNames \cup {"stat"})
<1>1. Headed(AuthenticationRequest, HeaderNames \cup {"afid", "uname", "aname"})
  <2>1. Matches(Three("afid", "u32", "uname", "str", "aname", "str"), MemberTypes, {"afid", "uname", "aname"})
    BY Listed, ThreeFields, Zenon
  <2>2. HeaderNames \cap {"afid", "uname", "aname"} = {}
    BY DEF HeaderNames
  <2> QED
    BY <2>1, <2>2, BaseClasses, MixIns, HeadedJoin, Zenon DEF AuthenticationRequest, Three
<1>2. Headed(AttachRequest, FidNames \cup {"afid", "uname", "aname"})
  <2>1. Matches(Three("afid", "u32", "uname", "str", "aname", "str"), MemberTypes, {"afid", "uname", "aname"})
    BY Listed, ThreeFields, Zenon
  <2>2. FidNames \cap {"afid", "uname", "aname"} = {}
    BY DEF FidNames, HeaderNames
  <2> QED
    BY <2>1, <2>2, BaseClasses, MixIns, HeadedJoin, Zenon DEF AttachRequest, FidRequest, Three
<1>3. Headed(FlushRequest, HeaderNames \cup {"oldtag"})
  <2>1. Matches(One("oldtag", "u16"), MemberTypes, {"oldtag"})
    BY Listed, OneField, Zenon
  <2>2. HeaderNames \cap {"oldtag"} = {}
    BY DEF HeaderNames
  <2> QED
    BY <2>1, <2>2, BaseClasses, MixIns, HeadedJoin, Zenon DEF FlushRequest, One
<1>4. Headed(WalkRequest, FidNames \cup {"newfid", "wname"})
  <2>1. Matches(Two("newfid", "u32", "wname", "strs"), MemberTypes, {"newfid", "wname"})
    BY Listed, TwoFields, Zenon
  <2>2. FidNames \cap {"newfid", "wname"} = {}
    BY DEF FidNames, HeaderNames
  <2> QED
    BY <2>1, <2>2, BaseClasses, MixIns, HeadedJoin, Zenon DEF WalkRequest, FidRequest, Two
<1>5. Headed(OpenRequest, FidNames \cup {"mode"})
  <2>1. Matches(One("mode", "u8"), MemberTypes, {"mode"})
    BY Listed, OneField, Zenon
  <2>2. FidNames \cap {"mode"} = {}
    BY DEF FidNames, HeaderNames
  <2> QED
    BY <2>1, <2>2, BaseClasses, MixIns, HeadedJoin, Zenon DEF OpenRequest, FidRequest, One
<1>6. Headed(CreateRequest, FidNames \cup {"name"} \cup {"perm", "mode"})
  <2>1. FidNames \cap {"name"} = {}
    BY DEF FidNames, HeaderNames
  <2>2. Headed(Join(FidRequest, HasName), FidNames \cup {"name"})
    BY <2>1, BaseClasses, MixIns, HeadedJoin, Zenon DEF FidRequest
  <2>3. Matches(Two("perm", "u32", "mode", "u8"), MemberTypes, {"perm", "mode"})
    BY Listed, TwoFields, Zenon
  <2>4. (FidNames \cup {"name"}) \cap {"perm", "mode"} = {}
    BY DEF FidNames, HeaderNames
  <2> QED
    BY <2>3, <2>4, <2>2, BaseClasses, MixIns, HeadedJoin, Zenon DEF CreateRequest, FidRequest, Two
<1>7. Headed(ReadRequest, FidNames \cup {"offset"} \cup {"count"})
  <2>1. (FidNames \cup {"offset"}) \cap {"count"} = {}
    BY DEF FidNames, HeaderNames
  <2> QED
    BY <2>1, BaseClasses, MixIns, HeadedJoin, Zenon DEF ReadRequest
<1>8. Headed(WriteRequest, FidNames \cup {"offset"} \cup {"data"})
  <2>1. (FidNames \cup {"offset"}) \cap {"data"} = {}
    BY DEF FidNames, HeaderNames
  <2> QED
    BY <2>1, BaseClasses, MixIns, HeadedJoin, Zenon DEF WriteRequest
<1>9. Headed(WStatRequest, FidNames \cup {"stat"})
  <2>1. Matches(One("stat", "stat"), MemberTypes, {"stat"})
    BY Listed, OneField, Zenon
  <2>2. FidNames \cap {"stat"} = {}
    BY DEF FidNames, HeaderNames
  <2> QED
    BY <2>1, <2>2, BaseClasses, MixIns, HeadedJoin, Zenon DEF WStatRequest, FidRequest, One
<1> QED
  BY <1>1, <1>2, <1>3, <1>4, <1>5, <1>6, <1>7, <1>8, <1>9

(* Responses, and VersionMessage, which is both. *)
LEMMA ResponseClasses ==
  /\ Headed(VersionMessage, HeaderNames \cup {"msize", "version"})
  /\ Headed(ErrorResponse, HeaderNames \cup {"ename"})
  /\ Headed(AuthenticationResponse, HeaderNames \cup {"qid"})
  /\ Headed(AttachResponse, HeaderNames \cup {"qid"})
  /\ Headed(WalkResponse, HeaderNames \cup {"wqid"})
  /\ Headed(OpenOrCreateResponse, HeaderNames \cup {"qid"} \cup {"iounit"})
  /\ Headed(ReadResponse, HeaderNames \cup {"data"})
  /\ Headed(WriteResponse, HeaderNames \cup {"count"})
  /\ Headed(StatResponse, HeaderNames \cup {"data"})
<1>1. Headed(VersionMessage, HeaderNames \cup {"msize", "version"})
  <2>1. Matches(Two("msize", "u16", "version", "str"), MemberTypes, {"msize", "version"})
    BY Listed, TwoFields, Zenon
  <2>2. HeaderNames \cap {"msize", "version"} = {}
    BY DEF HeaderNames
  <2> QED
    BY <2>1, <2>2, BaseClasses, MixIns, HeadedJoin, Zenon DEF VersionMessage, Two
<1>2. Headed(ErrorResponse, HeaderNames \cup {"ename"})
  <2>1. Matches(One("ename", "str"), MemberTypes, {"ename"})
    BY Listed, OneField, Zenon
  <2>2. HeaderNames \cap {"ename"} = {}
    BY DEF HeaderNames
  <2> QED
    BY <2>1, <2>2, BaseClasses, MixIns, HeadedJoin, Zenon DEF ErrorResponse, One
<1>3. Headed(AuthenticationResponse, HeaderNames \cup {"qid"})
  <2>1. HeaderNames \cap {"qid"} = {}
    BY DEF HeaderNames
  <2> QED
    BY <2>1, BaseClasses, MixIns, HeadedJoin, Zenon DEF AuthenticationResponse
<1>4. Headed(AttachResponse, HeaderNames \cup {"qid"})
  <2>1. HeaderNames \cap {"qid"} = {}
    BY DEF HeaderNames
  <2> QED
    BY <2>1, BaseClasses, MixIns, HeadedJoin, Zenon DEF AttachResponse
<1>5. Headed(WalkResponse, HeaderNames \cup {"wqid"})
  <2>1. Matches(One("wqid", "qids"), MemberTypes, {"wqid"})
    BY Listed, OneField, Zenon
  <2>2. HeaderNames \cap {"wqid"} = {}
    BY DEF HeaderNames
  <2> QED
    BY <2>1, <2>2, BaseClasses, MixIns, HeadedJoin, Zenon DEF WalkResponse, One
<1>6. Headed(OpenOrCreateResponse, HeaderNames \cup {"qid"} \cup {"iounit"})
  <2>1. HeaderNames \cap {"qid"} = {}
    BY DEF HeaderNames
  <2>2. Headed(Join(MessageHeader, HasQid), HeaderNames \cup {"qid"})
    BY <2>1, BaseClasses, MixIns, HeadedJoin, Zenon DEF FidRequest
  <2>3. Matches(One("iounit", "u32"), MemberTypes, {"iounit"})
    BY Listed, OneField, Zenon
  <2>4. (HeaderNames \cup {"qid"}) \cap {"iounit"} = {}
    BY DEF HeaderNames
  <2> QED
    BY <2>3, <2>4, <2>2, BaseClasses, MixIns, HeadedJoin, Zenon DEF OpenOrCreateResponse, One
<1>7. Headed(ReadResponse, HeaderNames \cup {"data"})
  <2>1. HeaderNames \cap {"data"} = {}
    BY DEF HeaderNames
  <2> QED
    BY <2>1, BaseClasses, MixIns, HeadedJoin, Zenon DEF ReadResponse
<1>8. Headed(WriteResponse, HeaderNames \cup {"count"})
  <2>1. HeaderNames \cap {"count"} = {}
    BY DEF HeaderNames
  <2> QED
    BY <2>1, BaseClasses, MixIns, HeadedJoin, Zenon DEF WriteResponse
<1>9. Headed(StatResponse, HeaderNames \cup {"data"})
  <2>1. Matches(One("data", "str"), MemberTypes, {"data"})
    BY Listed, OneField, Zenon
  <2>2. HeaderNames \cap {"data"} = {}
    BY DEF HeaderNames
  <2> QED
    BY <2>1, <2>2, BaseClasses, MixIns, HeadedJoin, Zenon DEF StatResponse, One
<1> QED
  BY <1>1, <1>2, <1>3, <1>4, <1>5, <1>6, <1>7, <1>8, <1>9
-----------------------------------------------------------------------------
(* The operations. *)

LEMMA KindIs ==
  Kind = {"Version", "Auth", "Attach", "Error", "Flush", "Walk", "Open", "Create", "Read",
          "Write", "Clunk", "Remove", "Stat", "WStat"}
BY DEF Kind, Code

LEMMA CodeIs ==
  /\ Code["Version"] = 100 /\ Code["Auth"] = 102 /\ Code["Attach"] = 104 /\ Code["Error"] = 106
  /\ Code["Flush"] = 108 /\ Code["Walk"] = 110 /\ Code["Open"] = 112 /\ Code["Create"] = 114
  /\ Code["Read"] = 116 /\ Code["Write"] = 118 /\ Code["Clunk"] = 120 /\ Code["Remove"] = 122
  /\ Code["Stat"] = 124 /\ Code["WStat"] = 126
BY DEF Code

(* The T codes are even, and no two kinds share one. *)
LEMMA CodesApart ==
  /\ \A k \in Kind : Code[k] \in 100 .. 126 /\ Code[k] % 2 = 0 /\ (Code[k] + 1) % 2 = 1
  /\ \A k, l \in Kind : Code[k] = Code[l] => k = l
<1>1. ASSUME NEW k \in Kind
      PROVE  Code[k] \in 100 .. 126 /\ Code[k] % 2 = 0 /\ (Code[k] + 1) % 2 = 1
  <2>1. \A x \in {100, 102, 104, 106, 108, 110, 112, 114, 116, 118, 120, 122, 124, 126} :
          x \in 100 .. 126 /\ x % 2 = 0 /\ (x + 1) % 2 = 1
    OBVIOUS
  <2>2. Code[k] \in {100, 102, 104, 106, 108, 110, 112, 114, 116, 118, 120, 122, 124, 126}
    BY KindIs, CodeIs
  <2> QED
    BY <2>1, <2>2
<1>2. ASSUME NEW k \in Kind, NEW l \in Kind, Code[k] = Code[l]
      PROVE  k = l
  BY <1>2, KindIs, CodeIs
<1> QED
  BY <1>1, <1>2

(* An operation belongs to one kind and one direction. *)
LEMMA CodesDisjoint ==
  ASSUME NEW k \in Kind, NEW l \in Kind
  PROVE  Code[k] # Code[l] + 1 /\ (Code[k] + 1 = Code[l] + 1 => k = l)
<1>1. /\ Code[k] \in 100 .. 126 /\ Code[k] % 2 = 0 /\ Code[l] \in 100 .. 126
      /\ (Code[l] + 1) % 2 = 1 /\ (Code[k] = Code[l] => k = l)
  BY CodesApart
<1> QED
  BY <1>1

(* convert() finds the kind that has the operation, if there is one. *)
LEMMA ConvertFinds ==
  ASSUME NEW op
  PROVE  /\ convert(op) \in Kind \cup {"Undefined"}
         /\ convert(op) \in Kind => op \in {Code[convert(op)], Code[convert(op)] + 1}
         /\ \A k \in Kind : op \in {Code[k], Code[k] + 1} => convert(op) = k
<1> DEFINE named == {k \in Kind : op \in {Code[k], Code[k] + 1}}
<1>1. CASE named = {}
  BY <1>1, KindIs DEF convert
<1>2. CASE named # {}
  <2>1. convert(op) \in named
    BY <1>2 DEF convert
  <2>2. ASSUME NEW k \in named, NEW l \in named PROVE k = l
    BY CodesApart, CodesDisjoint
  <2> QED
    BY <2>1, <2>2
<1> QED
  BY <1>1, <1>2

LEMMA ConvertIs ==
  ASSUME NEW k \in Kind
  PROVE  /\ convert(Code[k]) = k /\ convert(Code[k] + 1) = k
         /\ k # "Undefined" /\ "Undefined" \notin Kind
BY ConvertFinds, KindIs

(* Every class starts with the operation. *)
LEMMA ClassHeaded ==
  ASSUME NEW kind \in Kind, NEW dir
  PROVE  \E names : Headed(Class(kind, dir), names)
<1> USE RequestClasses, ResponseClasses, BaseClasses
<1>1. \E names : Headed(BoundRequestType[kind], names)
  BY KindIs DEF BoundRequestType
<1>2. \E names : Headed(BoundResponseType[kind], names)
  BY KindIs DEF BoundResponseType
<1> QED
  BY <1>1, <1>2 DEF Class
-----------------------------------------------------------------------------
(* The fields of a Stat. *)

LEMMA TwoAndTwo ==
  ASSUME NEW w, NEW x, NEW y, NEW z
  PROVE  <<w, x>> \o <<y, z>> = <<w, x, y, z>>
<1> DEFINE S == {w, x, y, z}
           l == <<w, x>>
           r == <<y, z>>
           t == <<w, x, y, z>>
<1>1. /\ l \in Seq(S) /\ r \in Seq(S) /\ t \in Seq(S) /\ Len(l) = 2 /\ Len(r) = 2 /\ Len(t) = 4
      /\ l[1] = w /\ l[2] = x /\ r[1] = y /\ r[2] = z
      /\ t[1] = w /\ t[2] = x /\ t[3] = y /\ t[4] = z
  OBVIOUS
<1> HIDE DEF S, l, r, t
<1>2. /\ l \o r \in Seq(S) /\ Len(l \o r) = 4
      /\ \A i \in 1 .. 4 : (l \o r)[i] = IF i <= 2 THEN l[i] ELSE r[i - 2]
  <2>1. l \in Seq(S) /\ r \in Seq(S)
    BY <1>1
  <2>2. /\ l \o r \in Seq(S) /\ Len(l \o r) = Len(l) + Len(r)
        /\ \A i \in 1 .. Len(l) + Len(r) : (l \o r)[i] = IF i <= Len(l) THEN l[i] ELSE r[i - Len(l)]
    BY <2>1, ConcatProperties
  <2>3. Len(l) + Len(r) = 4 /\ Len(l) = 2
    BY <1>1
  <2> QED
    BY <2>2, <2>3
<1>3. \A i \in 1 .. 4 : (l \o r)[i] = t[i]
  <2>1. \A i \in 1 .. 4 : i = 1 \/ i = 2 \/ i = 3 \/ i = 4
    OBVIOUS
  <2> QED
    BY <1>1, <1>2, <2>1
<1>4. l \o r = t
  BY <1>1, <1>2, <1>3, SeqEqual
<1> QED
  BY <1>4 DEF l, r, t

StatNames ==
  ((({"type", "dev"} \cup {"qid"}) \cup ({"mode", "atime"} \cup {"mtime", "length"}))
     \cup {"name"}) \cup {"uid", "gid", "muid"}

LEMMA StatMatches == Matches(Stat, PartTypes, StatNames)
<1> DEFINE a == << <<"type", "u16">>, <<"dev", "u32">> >>
           b1 == << <<"mode", "u32">>, <<"atime", "u32">> >>
           b2 == << <<"mtime", "u32">>, <<"length", "u64">> >>
           b == << <<"mode", "u32">>, <<"atime", "u32">>, <<"mtime", "u32">>, <<"length", "u64">> >>
           d == << <<"uid", "str">>, <<"gid", "str">>, <<"muid", "str">> >>
           q == HasQid.encode
           n == HasName.encode
<1>1. Fields(a, PartTypes, {"type", "dev"})
  <2>1. Matches(Two("type", "u16", "dev", "u32"), PartTypes, {"type", "dev"})
    BY Listed, TwoFields, Zenon
  <2> QED
    BY <2>1 DEF Two, Members, Matches
<1>2. Fields(b1, PartTypes, {"mode", "atime"}) /\ Fields(b2, PartTypes, {"mtime", "length"})
  <2>1. Matches(Two("mode", "u32", "atime", "u32"), PartTypes, {"mode", "atime"})
        /\ Matches(Two("mtime", "u32", "length", "u64"), PartTypes, {"mtime", "length"})
    BY Listed, TwoFields, Zenon
  <2> QED
    BY <2>1 DEF Two, Members, Matches
<1>3. Fields(d, PartTypes, {"uid", "gid", "muid"})
  <2>1. Matches(Three("uid", "str", "gid", "str", "muid", "str"), PartTypes, {"uid", "gid", "muid"})
    BY Listed, ThreeFields, Zenon
  <2> QED
    BY <2>1 DEF Three, Members, Matches
<1>4. PartTypes \in {PartTypes, MemberTypes}
  OBVIOUS
<1>5. /\ Fields(q, PartTypes, {"qid"}) /\ HasQid.decode = q
      /\ Fields(n, PartTypes, {"name"}) /\ HasName.decode = n
  BY <1>4, MixIns, Zenon DEF Matches
<1>6. Fields(b, PartTypes, {"mode", "atime"} \cup {"mtime", "length"})
  <2>1. {"mode", "atime"} \cap {"mtime", "length"} = {}
    OBVIOUS
  <2>2. b1 \o b2 = b
    BY TwoAndTwo
  <2> HIDE DEF b1, b2, b
  <2> QED
    BY <1>2, <2>1, <2>2, FieldsConcat, Zenon
<1>7. Stat.encode = (((a \o q) \o b) \o n) \o d /\ Stat.decode = Stat.encode
  BY <1>5 DEF Stat, Members
<1> HIDE DEF a, b1, b2, b, d, q, n
<1>8. Fields(a \o q, PartTypes, {"type", "dev"} \cup {"qid"})
  <2>1. {"type", "dev"} \cap {"qid"} = {}
    OBVIOUS
  <2> QED
    BY <1>1, <1>5, <2>1, FieldsConcat, Zenon
<1>9. Fields((a \o q) \o b, PartTypes,
             ({"type", "dev"} \cup {"qid"}) \cup ({"mode", "atime"} \cup {"mtime", "length"}))
  <2>1. ({"type", "dev"} \cup {"qid"}) \cap ({"mode", "atime"} \cup {"mtime", "length"}) = {}
    OBVIOUS
  <2> QED
    BY <1>6, <1>8, <2>1, FieldsConcat, Zenon
<1>10. Fields(((a \o q) \o b) \o n, PartTypes,
              (({"type", "dev"} \cup {"qid"}) \cup ({"mode", "atime"} \cup {"mtime", "length"}))
                \cup {"name"})
  <2>1. (({"type", "dev"} \cup {"qid"}) \cup ({"mode", "atime"} \cup {"mtime", "length"}))
          \cap {"name"} = {}
    OBVIOUS
  <2> QED
    BY <1>5, <1>9, <2>1, FieldsConcat, Zenon
<1>11. Fields((((a \o q) \o b) \o n) \o d, PartTypes, StatNames)
  <2>1. ((({"type", "dev"} \cup {"qid"}) \cup ({"mode", "atime"} \cup {"mtime", "length"}))
          \cup {"name"}) \cap {"uid", "gid", "muid"} = {}
    OBVIOUS
  <2> QED
    BY <1>3, <1>10, <2>1, FieldsConcat, Zenon DEF StatNames
<1> QED
  BY <1>7, <1>11 DEF Matches

-----------------------------------------------------------------------------
(* Whatever the bytes are, a decoder leaves a cursor. *)

LEMMA U32AtType ==
  ASSUME NEW c \in Cursors
  PROVE  U32At(c) \in Nat
<1>1. ByteAt(c, 0) \in Byte /\ ByteAt(c, 1) \in Byte /\ ByteAt(c, 2) \in Byte /\ ByteAt(c, 3) \in Byte
  BY ByteAtType
<1>2. \A x, y \in Byte : Build16(x, y) \in Nat
  BY BaseType DEF Build16, Byte
<1>3. \A x, y \in Nat : y * M16 + x \in Nat
  BY BaseType
<1> QED
  BY <1>1, <1>2, <1>3, Zenon DEF U32At, Build32

LEMMA PartTakes ==
  ASSUME NEW type \in PartTypes, NEW c \in Cursors, NEW old, NEW order
  PROVE  DecodePart(type, c, old, order).c \in Cursors
<1>1. CASE type = "qid"
  BY <1>1, SkipType DEF DecodePart, DecodeQid
<1>2. CASE type # "qid"
  BY <1>2, DecodeValueTakes, SkipType DEF DecodePart, PartTypes
<1> QED
  BY <1>1, <1>2

(* One step of a run of a kind from a cursor leads to a cursor. *)
Leads(use, x, order) ==
  \A a : a.c \in Cursors => Step(use, x, a, order).c \in Cursors

LEMMA RunCursors ==
  ASSUME NEW h, NEW use, NEW xs, NEW n \in Nat, NEW start, NEW order,
         Runs(h, use, xs, n, start, order), start.c \in Cursors,
         \A i \in 1 .. n : Leads(use, xs[i], order)
  PROVE  \A i \in 0 .. n : h[i].c \in Cursors
<1> DEFINE P == {i \in 0 .. n : h[i].c \in Cursors}
<1>1. 0 \in P
  BY DEF Runs
<1>2. \A i \in 1 .. n : i - 1 \in P => i \in P
  BY DEF Runs, Leads
<1>3. \A i \in 0 .. n : i \in P
  <2> HIDE DEF P
  <2> QED BY <1>1, <1>2, UpTo
<1> QED
  BY <1>3
LEMMA DecodeMemberIs ==
  ASSUME NEW type \in MemberTypes, NEW c, NEW old, NEW order
  PROVE  /\ DecodeMember("strs", c, old, order) = DecodeVector("str", c, old, order)
         /\ DecodeMember("qids", c, old, order) = DecodeVector("qid", c, old, order)
         /\ DecodeMember("data", c, old, order) = DecodeData(c, old)
         /\ DecodeMember("stat", c, old, order) = DecodeStat(c, old, order)
         /\ type \in PartTypes => DecodeMember(type, c, old, order) = DecodePart(type, c, old, order)
BY DEF DecodeMember, MemberTypes, PartTypes, ValueTypes

LEMMA StepIs ==
  ASSUME NEW x, NEW a, NEW order
  PROVE  /\ Step("part", x, a, order).c = DecodePart(x[2], a.c, a.v[x[1]], order).c
         /\ Step("member", x, a, order).c = DecodeMember(x[2], a.c, a.v[x[1]], order).c
         /\ Step("element", x, a, order).c = DecodePart(x, a.c, Default(x), order).c
BY DEF Step, PartStep, MemberStep, ElementStep

LEMMA PartLeads ==
  ASSUME NEW type \in PartTypes, NEW name, NEW order
  PROVE  Leads("part", <<name, type>>, order) /\ Leads("element", type, order)
<1>1. <<name, type>>[2] = type
  OBVIOUS
<1> QED
  BY <1>1, PartTakes, StepIs DEF Leads

LEMMA VectorCursor ==
  ASSUME NEW type \in PartTypes, NEW c \in Cursors, NEW old, NEW order
  PROVE  DecodeVector(type, c, old, order).c \in Cursors
<1> DEFINE n == U16At(c)
           xs == [i \in 1 .. n |-> type]
           start == [v |-> old, c |-> Skip(c, 2)]
<1>1. n \in Nat /\ \A i \in 1 .. n : xs[i] = type
  BY U16AtType
<1>2. start.c \in Cursors
  BY SkipType
<1>3. PICK h : Runs(h, "element", xs, n, start, order) /\ DecodeVector(type, c, old, order) = h[n]
  BY <1>1, DecodeVectorRuns
<1> HIDE DEF n, xs, start
<1>4. \A i \in 1 .. n : Leads("element", xs[i], order)
  BY <1>1, PartLeads
<1>5. \A i \in 0 .. n : h[i].c \in Cursors
  BY <1>1, <1>2, <1>3, <1>4, RunCursors
<1> QED
  BY <1>1, <1>3, <1>5

(* A field of a list is a pair of a name and a type. *)
LEMMA FieldIs ==
  ASSUME NEW s, NEW types, NEW names, Fields(s, types, names)
  PROVE  /\ Len(s) \in Nat /\ DOMAIN s = 1 .. Len(s)
         /\ \A i \in 1 .. Len(s) : s[i][2] \in types /\ s[i] = <<s[i][1], s[i][2]>> /\ s[i][1] \in names
BY DEF Fields

LEMMA StatCursor ==
  ASSUME NEW c \in Cursors, NEW old, NEW order
  PROVE  DecodeStat(c, old, order).c \in Cursors
<1> DEFINE xs == Stat.decode
           n == Len(xs)
           start == [v |-> old, c |-> Skip(c, 2)]
<1>1. n \in Nat /\ \A i \in 1 .. n : xs[i][2] \in PartTypes /\ xs[i] = <<xs[i][1], xs[i][2]>>
  BY StatMatches, FieldIs DEF Matches
<1>2. start.c \in Cursors
  BY SkipType
<1>3. PICK h : Runs(h, "part", xs, n, start, order) /\ DecodeStat(c, old, order) = h[n]
  BY <1>1, DecodeStatRuns
<1> HIDE DEF n, xs, start
<1>4. \A i \in 1 .. n : Leads("part", xs[i], order)
  BY <1>1, PartLeads
<1>5. \A i \in 0 .. n : h[i].c \in Cursors
  BY <1>1, <1>2, <1>3, <1>4, RunCursors
<1> QED
  BY <1>1, <1>3, <1>5

LEMMA MemberCursor ==
  ASSUME NEW type \in MemberTypes, NEW c \in Cursors, NEW old, NEW order
  PROVE  DecodeMember(type, c, old, order).c \in Cursors
<1>1. CASE type = "strs"
  <2>1. "str" \in PartTypes
    BY Listed
  <2> QED
    BY <1>1, <2>1, DecodeMemberIs, VectorCursor
<1>2. CASE type = "qids"
  <2>1. "qid" \in PartTypes
    BY Listed
  <2> QED
    BY <1>2, <2>1, DecodeMemberIs, VectorCursor
<1>3. CASE type = "data"
  <2>1. 4 + U32At(c) \in Nat
    BY U32AtType
  <2>2. DecodeData(c, old).c = Skip(c, 4 + U32At(c))
    BY DEF DecodeData
  <2> QED
    BY <1>3, <2>1, <2>2, DecodeMemberIs, SkipType
<1>4. CASE type = "stat"
  BY <1>4, DecodeMemberIs, StatCursor
<1>5. CASE type \in PartTypes
  BY <1>5, DecodeMemberIs, PartTakes
<1> QED
  BY <1>1, <1>2, <1>3, <1>4, <1>5 DEF MemberTypes

(* The fields of a class. *)
LEMMA ClassFields ==
  ASSUME NEW kind \in Kind, NEW dir
  PROVE  LET s == Class(kind, dir).encode
         IN  /\ Class(kind, dir).decode = s
             /\ Len(s) \in Nat /\ Len(s) >= 1 /\ DOMAIN s = 1 .. Len(s)
             /\ s[1] = <<"op", "u8">> /\ Len(s) >= 2 /\ s[2] = <<"tag", "u16">>
             /\ \A i \in 1 .. Len(s) : s[i][2] \in MemberTypes /\ s[i] = <<s[i][1], s[i][2]>>
             /\ \A i, j \in 1 .. Len(s) : s[i][1] = s[j][1] => i = j
<1>1. PICK names : Headed(Class(kind, dir), names)
  BY ClassHeaded
<1> DEFINE s == Class(kind, dir).encode
<1>2. Class(kind, dir).decode = s /\ Fields(s, MemberTypes, names)
      /\ Len(s) >= 2 /\ s[1] = <<"op", "u8">> /\ s[2] = <<"tag", "u16">>
  BY <1>1 DEF Headed, Matches
<1> HIDE DEF s
<1>3. \A i, j \in 1 .. Len(s) : s[i][1] = s[j][1] => i = j
  BY <1>2 DEF Fields
<1>4. /\ Len(s) \in Nat /\ DOMAIN s = 1 .. Len(s)
      /\ \A i \in 1 .. Len(s) : s[i][2] \in MemberTypes /\ s[i] = <<s[i][1], s[i][2]>>
  BY <1>2, FieldIs
<1>5. Len(s) >= 1
  BY <1>2, <1>4
<1> QED
  BY <1>2, <1>3, <1>4, <1>5 DEF s

(* Whatever the bytes are and whatever the object holds. *)
LEMMA MessageCursor ==
  ASSUME NEW m, m.kind \in Kind, NEW c \in Cursors, NEW order
  PROVE  DecodeMessage(m, c, order).c \in Cursors
<1> DEFINE xs == Class(m.kind, m.dir).decode
           n == Len(xs)
           start == [v |-> m.body, c |-> c]
<1>1. n \in Nat /\ \A i \in 1 .. n : xs[i][2] \in MemberTypes /\ xs[i] = <<xs[i][1], xs[i][2]>>
  BY ClassFields
<1>2. start.c \in Cursors
  OBVIOUS
<1>3. PICK h : Runs(h, "member", xs, n, start, order) /\ DecodeMessage(m, c, order).c = h[n].c
  BY <1>1, DecodeMessageRuns
<1> HIDE DEF n, xs, start
<1>4. \A i \in 1 .. n : Leads("member", xs[i], order)
  BY <1>1, MemberCursor, StepIs DEF Leads
<1>5. \A i \in 0 .. n : h[i].c \in Cursors
  BY <1>1, <1>2, <1>3, <1>4, RunCursors
<1> QED
  BY <1>1, <1>3, <1>5
-----------------------------------------------------------------------------
(* Decoders that each take their own bytes take the bytes of all. *)

(* From each cursor, if its part is under it, the next one is past it. *)
Walks(cs, enc) ==
  \A i \in 1 .. Len(enc) :
    cs[i - 1] \in Cursors /\ Under(cs[i - 1], enc[i]) => cs[i] = Skip(cs[i - 1], Len(enc[i]))

LEMMA Tiling ==
  ASSUME NEW cs, NEW enc \in Seq(Seq(Byte)), cs[0] \in Cursors,
         Under(cs[0], FlattenSeq(enc)), Walks(cs, enc)
  PROVE  /\ cs[Len(enc)] = Skip(cs[0], Len(FlattenSeq(enc)))
         /\ \A i \in 1 .. Len(enc) : cs[i - 1] \in Cursors /\ Under(cs[i - 1], enc[i])
<1> DEFINE n == Len(enc)
           c == cs[0]
<1>1. n \in Nat /\ c \in Cursors /\ \A i \in 1 .. n : enc[i] \in Seq(Byte)
  OBVIOUS
<1>2. PICK h \in [0 .. n -> Seq(Byte)] :
        /\ h[0] = << >>
        /\ \A i \in 1 .. n : h[i] = h[i - 1] \o enc[i]
        /\ FlattenSeq(enc) = h[n]
  BY FlattenValue
<1> HIDE DEF n
<1>3. \A i \in 0 .. n : h[i] \in Seq(Byte) /\ Len(h[i]) \in Nat
  BY <1>2
<1>4. \A i \in 1 .. n : i - 1 \in 0 .. n /\ i \in 0 .. n
  BY <1>1
<1>5. \A i \in 1 .. n : Under(c, h[i]) => Under(c, h[i - 1]) /\ Under(Skip(c, Len(h[i - 1])), enc[i])
  <2> TAKE i \in 1 .. n
  <2>1. h[i - 1] \in Seq(Byte) /\ enc[i] \in Seq(Byte) /\ h[i] = h[i - 1] \o enc[i]
    BY <1>1, <1>2, <1>3, <1>4, Zenon
  <2> DEFINE a == h[i - 1]
             b == enc[i]
  <2> HIDE DEF a, b, c
  <2>2. a \in Seq(Byte) /\ b \in Seq(Byte) /\ h[i] = a \o b
    BY <2>1 DEF a, b
  <2>3. Under(c, a \o b) <=> Under(c, a) /\ Under(Skip(c, Len(a)), b)
    BY <1>1, <2>2, UnderConcat
  <2> QED
    BY <2>2, <2>3, Zenon DEF a, b
<1>6. \A i \in 0 .. n : Under(c, h[i])
  <2> DEFINE P == {j \in 0 .. n : Under(c, h[n - j])}
  <2>1. 0 \in P
    BY <1>1, <1>2 DEF n
  <2>2. \A j \in 1 .. n : j - 1 \in P => j \in P
    <3> SUFFICES ASSUME NEW j \in 1 .. n, j - 1 \in P PROVE j \in P
      OBVIOUS
    <3>1. n - (j - 1) \in 1 .. n /\ (n - (j - 1)) - 1 = n - j /\ j \in 0 .. n
      BY <1>1
    <3>2. Under(c, h[n - (j - 1)])
      OBVIOUS
    <3>3. Under(c, h[n - j])
      BY <1>5, <3>1, <3>2
    <3> QED
      BY <3>1, <3>3
  <2>3. \A j \in 0 .. n : j \in P
    <3> HIDE DEF P
    <3> QED BY <1>1, <2>1, <2>2, UpTo
  <2> SUFFICES ASSUME NEW i \in 0 .. n PROVE Under(c, h[i])
    OBVIOUS
  <2>4. n - i \in 0 .. n /\ n - (n - i) = i
    BY <1>1
  <2>5. Under(c, h[n - (n - i)])
    BY <2>3, <2>4
  <2> QED
    BY <2>4, <2>5
<1>7. \A i \in 1 .. n : Under(Skip(c, Len(h[i - 1])), enc[i])
  BY <1>4, <1>5, <1>6
<1> HIDE DEF c
<1>8. ASSUME NEW i \in 1 .. n, cs[i - 1] = Skip(c, Len(h[i - 1]))
      PROVE  /\ cs[i] = Skip(c, Len(h[i])) /\ cs[i - 1] \in Cursors
             /\ Under(cs[i - 1], enc[i])
  <2> DEFINE a == h[i - 1]
             b == enc[i]
  <2>1. a \in Seq(Byte) /\ b \in Seq(Byte) /\ h[i] = a \o b /\ cs[i - 1] = Skip(c, Len(a))
    BY <1>1, <1>2, <1>3, <1>4, <1>8, Zenon
  <2>2. Under(cs[i - 1], b)
    BY <1>7, <1>8
  <2>3. \A d : Under(d, b) <=> Under(d, enc[i])
    OBVIOUS
  <2> HIDE DEF a, b
  <2>4. Len(a) \in Nat /\ Len(b) \in Nat /\ Len(a \o b) = Len(a) + Len(b)
    BY <2>1, ConcatProperties
  <2>5. cs[i - 1] \in Cursors
    BY <1>1, <2>1, <2>4, SkipType
  <2>6. cs[i] = Skip(cs[i - 1], Len(b))
    BY <2>2, <2>5 DEF Walks, n, b
  <2>7. cs[i] = Skip(c, Len(a) + Len(b))
    BY <1>1, <2>1, <2>4, <2>6, SkipTwice
  <2> QED
    BY <2>1, <2>2, <2>3, <2>4, <2>5, <2>7
<1>9. \A i \in 0 .. n : cs[i] = Skip(c, Len(h[i]))
  <2> DEFINE P == {i \in 0 .. n : cs[i] = Skip(c, Len(h[i]))}
  <2>1. 0 \in P
    <3>1. Len(h[0]) = 0
      BY <1>2
    <3>2. Skip(c, 0) = c
      BY <1>1, SkipTwice
    <3> QED
      BY <1>1, <3>1, <3>2 DEF c
  <2>2. \A i \in 1 .. n : i - 1 \in P => i \in P
    BY <1>4, <1>8
  <2>3. \A i \in 0 .. n : i \in P
    <3> HIDE DEF P
    <3> QED BY <1>1, <2>1, <2>2, UpTo
  <2> QED
    BY <2>3
<1>10. cs[n] = Skip(c, Len(FlattenSeq(enc)))
  BY <1>1, <1>2, <1>9
<1>11. \A i \in 1 .. n : cs[i - 1] \in Cursors /\ Under(cs[i - 1], enc[i])
  BY <1>4, <1>8, <1>9
<1> QED
  BY <1>10, <1>11 DEF n, c
-----------------------------------------------------------------------------
(* Encoding one part after the other. *)

LEMMA EncodingIs ==
  ASSUME NEW e \in Encodings
  PROVE  e.bytes \in Seq(Byte) /\ e.ok \in BOOLEAN
BY DEF Encodings

LEMMA ConcatAdds ==
  ASSUME NEW a \in Seq(Byte), NEW b \in Seq(Byte)
  PROVE  a \o b \in Seq(Byte) /\ Len(a \o b) = Len(a) + Len(b)
BY ConcatProperties

(* Parts of known length. *)
LEMMA ConcatLength ==
  ASSUME NEW a \in Seq(Byte), NEW b \in Seq(Byte), NEW m \in Nat, NEW n \in Nat,
         Len(a) = m, Len(b) = n
  PROVE  a \o b \in Seq(Byte) /\ Len(a \o b) = m + n
BY ConcatProperties

BytesOf(parts) == [i \in DOMAIN parts |-> parts[i].bytes]

LEMMA BytesOfType ==
  ASSUME NEW parts \in Seq(Encodings)
  PROVE  /\ BytesOf(parts) \in Seq(Seq(Byte)) /\ Len(BytesOf(parts)) = Len(parts)
         /\ \A i \in 1 .. Len(parts) : BytesOf(parts)[i] = parts[i].bytes
<1>1. Len(parts) \in Nat /\ DOMAIN parts = 1 .. Len(parts)
      /\ \A i \in 1 .. Len(parts) : parts[i].bytes \in Seq(Byte)
  <2>1. Len(parts) \in Nat /\ DOMAIN parts = 1 .. Len(parts)
        /\ \A i \in 1 .. Len(parts) : parts[i] \in Encodings
    OBVIOUS
  <2> QED
    BY <2>1, EncodingIs
<1> QED
  BY <1>1 DEF BytesOf

(* What `msg << a << b ...' puts; all of every part where none throws. *)
LEMMA EncodeAllIs ==
  ASSUME NEW parts \in Seq(Encodings)
  PROVE  /\ EncodeAll(parts) \in Encodings
         /\ EncodeAll(parts).ok <=> \A i \in 1 .. Len(parts) : parts[i].ok
         /\ EncodeAll(parts).ok => EncodeAll(parts).bytes = FlattenSeq(BytesOf(parts))
<1> DEFINE Reached(i) == \A j \in 1 .. i - 1 : parts[j].ok
           put == [i \in DOMAIN parts |-> IF Reached(i) THEN parts[i].bytes ELSE << >>]
           all == \A i \in DOMAIN parts : parts[i].ok
<1>1. /\ Len(parts) \in Nat /\ DOMAIN parts = 1 .. Len(parts)
      /\ \A i \in 1 .. Len(parts) : parts[i].bytes \in Seq(Byte)
  <2>1. Len(parts) \in Nat /\ DOMAIN parts = 1 .. Len(parts)
        /\ \A i \in 1 .. Len(parts) : parts[i] \in Encodings
    OBVIOUS
  <2> QED
    BY <2>1, EncodingIs
<1>2. EncodeAll(parts) = [bytes |-> FlattenSeq(put), ok |-> all]
  BY DEF EncodeAll
<1>3. put \in Seq(Seq(Byte))
  <2> HIDE DEF Reached
  <2>1. \A i \in 1 .. Len(parts) : (IF Reached(i) THEN parts[i].bytes ELSE << >>) \in Seq(Byte)
    BY <1>1
  <2> QED
    BY <1>1, <2>1
<1>4. FlattenSeq(put) \in Seq(Byte)
  <2> HIDE DEF put
  <2>1. << >> \in Seq(Byte)
    OBVIOUS
  <2> QED
    BY <1>3, <2>1, FlattenAppend
<1>5. ASSUME all PROVE put = BytesOf(parts)
  <2>1. \A i \in DOMAIN parts : Reached(i)
    <3> SUFFICES ASSUME NEW i \in DOMAIN parts, NEW j \in 1 .. i - 1 PROVE parts[j].ok
      OBVIOUS
    <3>1. j \in DOMAIN parts
      BY <1>1
    <3> QED
      BY <1>5, <3>1
  <2> HIDE DEF Reached
  <2> QED
    BY <2>1 DEF BytesOf
<1>6. all \in BOOLEAN /\ (all <=> \A i \in 1 .. Len(parts) : parts[i].ok)
  BY <1>1
<1> HIDE DEF put, all
<1>7. EncodeAll(parts).bytes = FlattenSeq(put) /\ EncodeAll(parts).ok = all
  BY <1>2
<1>8. EncodeAll(parts) \in Encodings
  BY <1>2, <1>4, <1>6 DEF Encodings
<1> QED
  BY <1>5, <1>6, <1>7, <1>8

(* A Qid is put whole. *)
LEMMA EncodeQidIs ==
  ASSUME NEW q \in Qids
  PROVE  /\ q.type \in Byte /\ q.version \in Nat /\ FitsU32(q.version)
         /\ q.path \in Nat \X Nat /\ FitsU32(q.path[1]) /\ FitsU32(q.path[2])
         /\ EncodeQid(q) = Done((<<q.type>> \o Encode32(q.version))
                                  \o (Encode32(q.path[1]) \o Encode32(q.path[2])))
BY DEF Qids, HasType, EncodeQid, Encode64

LEMMA EncodeQidType ==
  ASSUME NEW q \in Qids
  PROVE  /\ AllOrNothing(EncodeQid(q)) /\ EncodeQid(q).ok
         /\ EncodeQid(q).bytes = (<<q.type>> \o Encode32(q.version))
                                   \o (Encode32(q.path[1]) \o Encode32(q.path[2]))
         /\ Len(EncodeQid(q).bytes) = 13
<1> DEFINE a == <<q.type>>
           b == Encode32(q.version)
           d == Encode32(q.path[1])
           e == Encode32(q.path[2])
<1>1. a \in Seq(Byte) /\ Len(a) = 1
  <2>1. q.type \in Byte
    BY EncodeQidIs
  <2> QED
    BY <2>1
<1>2. b \in Seq(Byte) /\ Len(b) = 4 /\ d \in Seq(Byte) /\ Len(d) = 4 /\ e \in Seq(Byte) /\ Len(e) = 4
  BY EncodeQidIs, Encode32RoundTrip
<1>3. EncodeQid(q) = Done((a \o b) \o (d \o e))
  BY EncodeQidIs
<1> HIDE DEF a, b, d, e
<1>4. a \o b \in Seq(Byte) /\ d \o e \in Seq(Byte) /\ Len(a \o b) = 5 /\ Len(d \o e) = 8
  <2>1. 1 \in Nat /\ 4 \in Nat /\ 1 + 4 = 5 /\ 4 + 4 = 8
    OBVIOUS
  <2>2. a \o b \in Seq(Byte) /\ Len(a \o b) = 5
    <3>1. a \in Seq(Byte) /\ b \in Seq(Byte) /\ Len(a) = 1 /\ Len(b) = 4
      BY <1>1, <1>2
    <3> QED
      BY <2>1, <3>1, ConcatLength, Zenon
  <2>3. d \o e \in Seq(Byte) /\ Len(d \o e) = 8
    <3>1. d \in Seq(Byte) /\ e \in Seq(Byte) /\ Len(d) = 4 /\ Len(e) = 4
      BY <1>2
    <3> QED
      BY <2>1, <3>1, ConcatLength, Zenon
  <2> QED
    BY <2>2, <2>3
<1>5. (a \o b) \o (d \o e) \in Seq(Byte) /\ Len((a \o b) \o (d \o e)) = 13
  <2>1. 5 \in Nat /\ 8 \in Nat /\ 5 + 8 = 13
    OBVIOUS
  <2> QED
    BY <1>4, <2>1, ConcatLength, Zenon
<1>6. Len((a \o b) \o (d \o e)) >= 1
  BY <1>5
<1> QED
  BY <1>3, <1>5, <1>6, DoneType DEF a, b, d, e

LEMMA EncodePartType ==
  ASSUME NEW type \in PartTypes, NEW v, HasPartType(type, v)
  PROVE  AllOrNothing(EncodePart(type, v)) /\ EncodePart(type, v) \in Encodings
<1>1. CASE type = "qid"
  BY <1>1, EncodeQidType DEF EncodePart, HasPartType, AllOrNothing
<1>2. CASE type # "qid"
  BY <1>2, EncodeValueType DEF EncodePart, HasPartType, PartTypes, AllOrNothing
<1> QED
  BY <1>1, <1>2

-----------------------------------------------------------------------------
(* A part is decoded where it was encoded. *)

QidSame(got, sent) ==
  /\ got.type = sent.type /\ got.version = sent.version
  /\ got.path \in {sent.path, <<sent.path[2], sent.path[1]>>}

PartSame(type, got, sent) ==
  /\ type = "qid" => QidSame(got, sent)
  /\ Agrees(type, got, sent)

LEMMA QidTiles ==
  ASSUME NEW q \in Qids, NEW c \in Cursors, Under(c, EncodeQid(q).bytes), NEW order
  PROVE  /\ DecodeQid(c, order).c = Skip(c, Len(EncodeQid(q).bytes))
         /\ QidSame(DecodeQid(c, order).v, q)
<1> DEFINE a == <<q.type>>
           b == Encode32(q.version)
           f == Encode32(q.path[1]) \o Encode32(q.path[2])
           c1 == Skip(c, 1)
           c5 == Skip(c, 5)
<1>1. /\ q.type \in Byte /\ q.version \in Nat /\ FitsU32(q.version)
      /\ q.path \in Nat \X Nat /\ FitsU32(q.path[1]) /\ FitsU32(q.path[2])
      /\ q.path[1] \in Nat /\ q.path[2] \in Nat /\ q.path = <<q.path[1], q.path[2]>>
  <2>1. \A x \in Nat \X Nat : x[1] \in Nat /\ x[2] \in Nat /\ x = <<x[1], x[2]>>
    OBVIOUS
  <2> QED
    BY <2>1, EncodeQidIs, Zenon
<1>2. a \in Seq(Byte) /\ Len(a) = 1 /\ a[1] = q.type
  BY <1>1
<1>3. b \in Seq(Byte) /\ Len(b) = 4
  BY <1>1, Encode32RoundTrip
<1>4. f \in Seq(Byte)
  <2>1. Encode32(q.path[1]) \in Seq(Byte) /\ Encode32(q.path[2]) \in Seq(Byte)
    BY <1>1, Encode32RoundTrip
  <2> QED
    BY <2>1, ConcatProperties
<1>5. EncodeQid(q).bytes = (a \o b) \o f /\ Len(EncodeQid(q).bytes) = 13
  BY EncodeQidType
<1> HIDE DEF a, b, f
<1>6. a \o b \in Seq(Byte) /\ Len(a \o b) = 5
  <2>1. 1 + 4 = 5 /\ 1 \in Nat /\ 4 \in Nat
    OBVIOUS
  <2> QED
    BY <1>2, <1>3, <2>1, ConcatLength, Zenon
<1>7. Under(c, a \o b) /\ Under(c5, f)
  <2>1. Under(c, (a \o b) \o f) <=> Under(c, a \o b) /\ Under(Skip(c, Len(a \o b)), f)
    BY <1>4, <1>6, UnderConcat, Zenon
  <2> QED
    BY <1>5, <1>6, <2>1, Zenon
<1>8. Under(c, a) /\ Under(c1, b)
  <2>1. Under(c, a \o b) <=> Under(c, a) /\ Under(Skip(c, Len(a)), b)
    BY <1>2, <1>3, UnderConcat, Zenon
  <2> QED
    BY <1>2, <1>7, <2>1, Zenon
<1>9. c1 \in Cursors /\ c5 \in Cursors
  BY SkipType
<1>10. ByteAt(c, 0) = q.type
  <2>1. 0 \in Nat /\ 0 < Len(a) /\ 0 + 1 = 1
    BY <1>2
  <2>2. ByteAt(c, 0) = a[0 + 1]
    BY <1>2, <1>8, <2>1, ByteAtUnder
  <2> QED
    BY <1>2, <2>1, <2>2
<1> HIDE DEF c1, c5
<1>11. U32At(c1) = q.version
  BY <1>1, <1>8, <1>9, U32Back DEF b
<1>12. U64At(c5, order) \in {<<q.path[1], q.path[2]>>, <<q.path[2], q.path[1]>>}
  BY <1>1, <1>7, <1>9, U64Back DEF f
<1>13. DecodeQid(c, order) =
         [v |-> [type |-> ByteAt(c, 0), version |-> U32At(c1), path |-> U64At(c5, order)],
          c |-> Skip(c, 13)]
  BY DEF DecodeQid, c1, c5
<1>14. DecodeQid(c, order).v.path \in {q.path, <<q.path[2], q.path[1]>>}
  BY <1>1, <1>12, <1>13
<1> QED
  BY <1>5, <1>10, <1>11, <1>13, <1>14 DEF QidSame

LEMMA PartTiles ==
  ASSUME NEW type \in PartTypes, NEW v, HasPartType(type, v), EncodePart(type, v).ok,
         NEW c \in Cursors, Under(c, EncodePart(type, v).bytes), NEW old, NEW order
  PROVE  /\ DecodePart(type, c, old, order).c = Skip(c, Len(EncodePart(type, v).bytes))
         /\ PartSame(type, DecodePart(type, c, old, order).v, v)
<1>1. CASE type = "qid"
  <2>1. v \in Qids /\ EncodePart(type, v) = EncodeQid(v)
        /\ DecodePart(type, c, old, order) = DecodeQid(c, order)
    BY <1>1 DEF HasPartType, EncodePart, DecodePart
  <2>2. /\ DecodeQid(c, order).c = Skip(c, Len(EncodeQid(v).bytes))
        /\ QidSame(DecodeQid(c, order).v, v)
    BY <2>1, QidTiles
  <2> QED
    BY <1>1, <2>1, <2>2 DEF PartSame, Agrees
<1>2. CASE type # "qid"
  <2>1. type \in ValueTypes /\ HasType(type, v) /\ EncodePart(type, v) = EncodeValue(type, v)
        /\ DecodePart(type, c, old, order) = DecodeValue(type, c, old, order)
    BY <1>2 DEF HasPartType, EncodePart, DecodePart, PartTypes
  <2>2. Takes(type, v, c, old, order)
    BY <2>1, DecodeTakesEncoded
  <2> QED
    BY <1>2, <2>1, <2>2 DEF PartSame, Takes
<1> QED
  BY <1>1, <1>2
-----------------------------------------------------------------------------
(* A run over what was encoded. *)

(* From any object, a step over its part goes just past that part. *)
StepTiles(use, x, e, order) ==
  \A a : a.c \in Cursors /\ Under(a.c, e.bytes) =>
           Step(use, x, a, order).c = Skip(a.c, Len(e.bytes))

LEMMA RunTiles ==
  ASSUME NEW h, NEW use, NEW xs, NEW parts \in Seq(Encodings), NEW start, NEW order,
         Runs(h, use, xs, Len(parts), start, order), start.c \in Cursors,
         Under(start.c, FlattenSeq(BytesOf(parts))),
         \A i \in 1 .. Len(parts) : StepTiles(use, xs[i], parts[i], order)
  PROVE  /\ h[Len(parts)].c = Skip(start.c, Len(FlattenSeq(BytesOf(parts))))
         /\ \A i \in 1 .. Len(parts) : h[i - 1].c \in Cursors /\ Under(h[i - 1].c, parts[i].bytes)
<1> DEFINE n == Len(parts)
           enc == BytesOf(parts)
           cs == [i \in 0 .. n |-> h[i].c]
<1>1. n \in Nat
  OBVIOUS
<1>2. enc \in Seq(Seq(Byte)) /\ Len(enc) = n /\ \A i \in 1 .. n : enc[i] = parts[i].bytes
  BY BytesOfType
<1>3. h[0] = start /\ \A i \in 1 .. n : h[i] = Step(use, xs[i], h[i - 1], order)
  BY DEF Runs
<1> HIDE DEF n, enc
<1>4. \A i \in 0 .. n : cs[i] = h[i].c
  OBVIOUS
<1>5. \A i \in 1 .. n : i - 1 \in 0 .. n /\ i \in 0 .. n
  BY <1>1
<1>6. cs[0] = start.c
  BY <1>1, <1>3
<1> HIDE DEF cs
<1>7. Walks(cs, enc)
  <2> SUFFICES ASSUME NEW i \in 1 .. n, cs[i - 1] \in Cursors, Under(cs[i - 1], enc[i])
               PROVE  cs[i] = Skip(cs[i - 1], Len(enc[i]))
    BY <1>2 DEF Walks
  <2>1. cs[i - 1] = h[i - 1].c /\ cs[i] = h[i].c /\ h[i] = Step(use, xs[i], h[i - 1], order)
        /\ enc[i] = parts[i].bytes
    BY <1>2, <1>3, <1>4, <1>5
  <2>2. StepTiles(use, xs[i], parts[i], order)
    BY DEF n
  <2>3. h[i - 1].c \in Cursors /\ Under(h[i - 1].c, parts[i].bytes)
    BY <2>1
  <2>4. Step(use, xs[i], h[i - 1], order).c = Skip(h[i - 1].c, Len(parts[i].bytes))
    BY <2>2, <2>3, Zenon DEF StepTiles
  <2> QED
    BY <2>1, <2>4
<1>8. cs[0] \in Cursors /\ Under(cs[0], FlattenSeq(enc))
  BY <1>6 DEF enc
<1>9. /\ cs[n] = Skip(cs[0], Len(FlattenSeq(enc)))
      /\ \A i \in 1 .. n : cs[i - 1] \in Cursors /\ Under(cs[i - 1], enc[i])
  BY <1>2, <1>7, <1>8, Tiling
<1>10. h[n].c = Skip(start.c, Len(FlattenSeq(enc)))
  BY <1>1, <1>4, <1>6, <1>9
<1>11. \A i \in 1 .. n : h[i - 1].c \in Cursors /\ Under(h[i - 1].c, parts[i].bytes)
  BY <1>2, <1>4, <1>5, <1>9
<1> QED
  BY <1>10, <1>11 DEF n, enc

-----------------------------------------------------------------------------
(* Vectors. *)

LEMMA EncodeVectorIs ==
  ASSUME NEW parts \in Seq(Encodings)
  PROVE  /\ EncodeVector(parts) \in Encodings
         /\ EncodeVector(parts).ok =>
              /\ FitsU16(Len(parts)) /\ \A i \in 1 .. Len(parts) : parts[i].ok
              /\ EncodeVector(parts).bytes = Encode16(Len(parts)) \o FlattenSeq(BytesOf(parts))
<1> DEFINE n == Len(parts)
           first == Done(Encode16(n))
           all == <<first>> \o parts
<1>1. n \in Nat
  OBVIOUS
<1>2. Encode16(n) \in Seq(Byte)
  BY <1>1, Encode16Type
<1>3. first \in Encodings /\ first.ok /\ first.bytes = Encode16(n)
  BY <1>2, DoneType
<1>4. CASE ~FitsU16(n)
  BY <1>4, ThrownType DEF EncodeVector, AllOrNothing
<1>5. CASE FitsU16(n)
  <2>1. EncodeVector(parts) = EncodeAll(all)
    BY <1>5 DEF EncodeVector
  <2> HIDE DEF first, n
  <2>2. <<first>> \in Seq(Encodings) /\ Len(<<first>>) = 1 /\ <<first>>[1] = first
    BY <1>3
  <2> DEFINE f == <<first>>
  <2>3. f \in Seq(Encodings) /\ Len(f) = 1 /\ f[1] = first /\ all = f \o parts
    BY <2>2
  <2> HIDE DEF f, all
  <2>4. /\ all \in Seq(Encodings) /\ Len(all) = Len(f) + n
        /\ \A i \in 1 .. Len(f) + n : all[i] = IF i <= Len(f) THEN f[i] ELSE parts[i - Len(f)]
    BY <2>3, ConcatProperties DEF n
  <2>5. Len(all) = n + 1 /\ all[1] = first /\ \A i \in 1 .. n : all[i + 1] = parts[i] /\ i + 1 \in 1 .. n + 1
    BY <1>1, <2>3, <2>4
  <2>6. /\ EncodeAll(all) \in Encodings
        /\ EncodeAll(all).ok <=> \A i \in 1 .. Len(all) : all[i].ok
        /\ EncodeAll(all).ok => EncodeAll(all).bytes = FlattenSeq(BytesOf(all))
    BY <2>4, EncodeAllIs
  <2>7. EncodeAll(all).ok => \A i \in 1 .. n : parts[i].ok
    BY <2>5, <2>6
  <2> DEFINE e == Encode16(n)
             bs == BytesOf(parts)
             ba == BytesOf(all)
  <2>8. /\ bs \in Seq(Seq(Byte)) /\ Len(bs) = n /\ \A i \in 1 .. n : bs[i] = parts[i].bytes
        /\ ba \in Seq(Seq(Byte)) /\ Len(ba) = n + 1 /\ \A i \in 1 .. n + 1 : ba[i] = all[i].bytes
    BY <2>4, <2>5, BytesOfType DEF n
  <2>9. e \in Seq(Byte) /\ first.bytes = e
    BY <1>2, <1>3
  <2> HIDE DEF e, bs, ba
  <2> DEFINE g == <<e>>
  <2>10. g \in Seq(Seq(Byte)) /\ Len(g) = 1 /\ g[1] = e
    BY <2>9
  <2>11. FlattenSeq(g) = e
    BY <2>9, FlattenOne
  <2> HIDE DEF g
  <2>12. /\ g \o bs \in Seq(Seq(Byte)) /\ Len(g \o bs) = 1 + n
         /\ \A i \in 1 .. 1 + n : (g \o bs)[i] = IF i <= 1 THEN g[i] ELSE bs[i - 1]
    <3>1. /\ g \o bs \in Seq(Seq(Byte)) /\ Len(g \o bs) = Len(g) + Len(bs)
          /\ \A i \in 1 .. Len(g) + Len(bs) : (g \o bs)[i] = IF i <= Len(g) THEN g[i] ELSE bs[i - Len(g)]
      BY <2>8, <2>10, ConcatProperties
    <3> QED
      BY <2>8, <2>10, <3>1
  <2>13. ba = g \o bs
    <3>1. ASSUME NEW i \in 1 .. n + 1 PROVE ba[i] = (g \o bs)[i]
      <4>1. CASE i = 1
        BY <1>1, <2>5, <2>8, <2>9, <2>10, <2>12, <4>1
      <4>2. CASE i # 1
        <5>1. i - 1 \in 1 .. n /\ (i - 1) + 1 = i /\ ~(i <= 1) /\ i \in 1 .. 1 + n
          BY <1>1, <4>2
        <5> QED
          BY <2>5, <2>8, <2>12, <5>1
      <4> QED
        BY <4>1, <4>2
    <3>2. Len(ba) = Len(g \o bs)
      BY <1>1, <2>8, <2>12
    <3> QED
      BY <2>8, <2>12, <3>1, <3>2, SeqEqual
  <2>14. FlattenSeq(ba) = e \o FlattenSeq(bs)
    BY <2>8, <2>10, <2>11, <2>13, FlattenConcat
  <2> QED
    BY <1>5, <2>1, <2>6, <2>7, <2>14 DEF n, e, bs, ba
<1> QED
  BY <1>4, <1>5

(* A vector is decoded where it was encoded: as many elements, each where  *)
(* its own encoding is.                                                    *)
VectorRun(h, type, parts, c, old, order) ==
  /\ U16At(c) = Len(parts)
  /\ Runs(h, "element", [i \in 1 .. Len(parts) |-> type], Len(parts),
          [v |-> old, c |-> Skip(c, 2)], order)
  /\ DecodeVector(type, c, old, order) = h[Len(parts)]
  /\ h[Len(parts)].c = Skip(c, Len(EncodeVector(parts).bytes))
  /\ \A i \in 1 .. Len(parts) : h[i - 1].c \in Cursors /\ Under(h[i - 1].c, parts[i].bytes)

LEMMA VectorTiles ==
  ASSUME NEW type \in PartTypes, NEW parts \in Seq(Encodings), EncodeVector(parts).ok,
         NEW c \in Cursors, Under(c, EncodeVector(parts).bytes), NEW old, NEW order,
         \A i \in 1 .. Len(parts) : StepTiles("element", type, parts[i], order)
  PROVE  \E h : VectorRun(h, type, parts, c, old, order)
<1> DEFINE n == Len(parts)
           e == Encode16(n)
           f == FlattenSeq(BytesOf(parts))
           d == Skip(c, 2)
           xs == [i \in 1 .. n |-> type]
           start == [v |-> old, c |-> d]
<1>1. FitsU16(n) /\ EncodeVector(parts).bytes = e \o f
  BY EncodeVectorIs
<1>2. n \in Nat /\ n \in U16 /\ e \in Seq(Byte) /\ Len(e) = 2
  <2>1. n \in Nat
    OBVIOUS
  <2> HIDE DEF n
  <2> QED
    BY <1>1, <2>1, FitsU16Type, Encode16Type
<1>3. f \in Seq(Byte) /\ Len(f) \in Nat
  <2>1. BytesOf(parts) \in Seq(Seq(Byte)) /\ << >> \in Seq(Byte)
    BY BytesOfType
  <2>2. f \in Seq(Byte)
    BY <2>1, FlattenAppend
  <2> QED
    BY <2>2
<1> HIDE DEF e, f, d
<1>4. Under(c, e) /\ Under(d, f)
  <2>1. Under(c, e \o f) <=> Under(c, e) /\ Under(Skip(c, Len(e)), f)
    BY <1>2, <1>3, UnderConcat, Zenon
  <2> QED
    BY <1>1, <1>2, <2>1, Zenon DEF d
<1>5. U16At(c) = n
  BY <1>2, <1>4, U16Back DEF e
<1>6. PICK h : Runs(h, "element", xs, n, start, order) /\ DecodeVector(type, c, old, order) = h[n]
  BY <1>2, <1>5, DecodeVectorRuns DEF d
<1>7. start.c = d /\ d \in Cursors
  BY SkipType DEF d
<1>8. \A i \in 1 .. n : xs[i] = type
  OBVIOUS
<1> HIDE DEF xs, start
<1>9. \A i \in 1 .. Len(parts) : StepTiles("element", xs[i], parts[i], order)
  BY <1>8
<1>10. /\ h[n].c = Skip(d, Len(f))
       /\ \A i \in 1 .. n : h[i - 1].c \in Cursors /\ Under(h[i - 1].c, parts[i].bytes)
  <2>1. Runs(h, "element", xs, Len(parts), start, order) /\ start.c \in Cursors
        /\ Under(start.c, f)
    BY <1>4, <1>6, <1>7
  <2>2. /\ h[Len(parts)].c = Skip(start.c, Len(f))
        /\ \A i \in 1 .. Len(parts) : h[i - 1].c \in Cursors /\ Under(h[i - 1].c, parts[i].bytes)
    BY <1>9, <2>1, RunTiles, Zenon DEF f
  <2> QED
    BY <1>7, <2>2
<1>11. Len(e \o f) = 2 + Len(f)
  <2>1. Len(e \o f) = Len(e) + Len(f)
    BY <1>2, <1>3, ConcatAdds, Zenon
  <2> QED
    BY <1>2, <2>1, Zenon
<1>12. Skip(d, Len(f)) = Skip(c, Len(e \o f))
  BY <1>3, <1>11, SkipTwice DEF d
<1>13. VectorRun(h, type, parts, c, old, order)
  BY <1>1, <1>5, <1>6, <1>10, <1>12 DEF VectorRun, xs, start, d
<1> QED
  BY <1>13
LEMMA ElementTiles ==
  ASSUME NEW type \in PartTypes, NEW v, HasPartType(type, v), EncodePart(type, v).ok, NEW order
  PROVE  StepTiles("element", type, EncodePart(type, v), order)
BY PartTiles, StepIs DEF StepTiles

(* The elements of a vector, as they are encoded. *)
Elements(type, v) == [i \in DOMAIN v |-> EncodePart(type, v[i])]

LEMMA ElementsType ==
  ASSUME NEW type \in PartTypes, NEW S, NEW v \in Seq(S), \A x \in S : HasPartType(type, x)
  PROVE  /\ Elements(type, v) \in Seq(Encodings) /\ Len(Elements(type, v)) = Len(v)
         /\ \A i \in 1 .. Len(v) : HasPartType(type, v[i]) /\ Elements(type, v)[i] = EncodePart(type, v[i])
<1>1. Len(v) \in Nat /\ DOMAIN v = 1 .. Len(v) /\ \A i \in 1 .. Len(v) : v[i] \in S
  OBVIOUS
<1>2. \A i \in 1 .. Len(v) : EncodePart(type, v[i]) \in Encodings
  BY <1>1, EncodePartType
<1> QED
  BY <1>1, <1>2 DEF Elements

LEMMA VectorMemberTiles ==
  ASSUME NEW type \in PartTypes, NEW S, NEW v \in Seq(S), \A x \in S : HasPartType(type, x),
         EncodeVector(Elements(type, v)).ok,
         NEW c \in Cursors, Under(c, EncodeVector(Elements(type, v)).bytes), NEW old, NEW order
  PROVE  \E h : VectorRun(h, type, Elements(type, v), c, old, order)
<1> DEFINE parts == Elements(type, v)
<1>1. /\ parts \in Seq(Encodings) /\ Len(parts) = Len(v)
      /\ \A i \in 1 .. Len(v) : HasPartType(type, v[i]) /\ parts[i] = EncodePart(type, v[i])
  BY ElementsType
<1>2. EncodeVector(parts).ok /\ Under(c, EncodeVector(parts).bytes)
  OBVIOUS
<1> HIDE DEF parts
<1>3. \A i \in 1 .. Len(parts) : parts[i].ok
  BY <1>1, <1>2, EncodeVectorIs
<1>4. \A i \in 1 .. Len(parts) : StepTiles("element", type, parts[i], order)
  <2> TAKE i \in 1 .. Len(parts)
  <2>1. HasPartType(type, v[i]) /\ parts[i] = EncodePart(type, v[i]) /\ EncodePart(type, v[i]).ok
    BY <1>1, <1>3
  <2>2. StepTiles("element", type, EncodePart(type, v[i]), order)
    BY <2>1, ElementTiles
  <2> QED
    BY <2>1, <2>2
<1>5. \E h : VectorRun(h, type, parts, c, old, order)
  BY <1>1, <1>2, <1>4, VectorTiles
<1> QED
  BY <1>5 DEF parts

-----------------------------------------------------------------------------
(* Data. *)

LEMMA EncodeDataIs ==
  ASSUME NEW v \in Seq(Byte)
  PROVE  /\ EncodeData(v) \in Encodings
         /\ EncodeData(v).ok => FitsU32(Len(v)) /\ EncodeData(v).bytes = Encode32(Len(v)) \o v
<1>1. CASE ~FitsU32(Len(v))
  BY <1>1, ThrownType DEF EncodeData, AllOrNothing
<1>2. CASE FitsU32(Len(v))
  <2>1. Len(v) \in Nat
    OBVIOUS
  <2>2. Encode32(Len(v)) \in Seq(Byte)
    BY <1>2, <2>1, Encode32RoundTrip
  <2>3. Encode32(Len(v)) \o v \in Seq(Byte)
    BY <2>2, ConcatProperties
  <2>4. EncodeData(v) = Done(Encode32(Len(v)) \o v)
    BY <1>2 DEF EncodeData
  <2> QED
    BY <1>2, <2>3, <2>4, DoneType
<1> QED
  BY <1>1, <1>2

LEMMA DataTiles ==
  ASSUME NEW v \in Seq(Byte), EncodeData(v).ok, NEW c \in Cursors, Under(c, EncodeData(v).bytes), NEW old
  PROVE  /\ DecodeData(c, old).c = Skip(c, Len(EncodeData(v).bytes))
         /\ U32At(c) = Len(v)
         /\ \A i \in 1 .. Len(v) : ByteAt(Skip(c, 4), i - 1) = v[i]
<1> DEFINE n == Len(v)
           e == Encode32(n)
           d == Skip(c, 4)
<1>1. n \in Nat /\ FitsU32(n) /\ EncodeData(v).bytes = e \o v
  BY EncodeDataIs
<1>2. e \in Seq(Byte) /\ Len(e) = 4
  <2> HIDE DEF n
  <2> QED
    BY <1>1, Encode32RoundTrip
<1>3. d \in Cursors
  BY SkipType
<1> HIDE DEF e, d
<1>4. Under(c, e) /\ Under(d, v)
  <2>1. Under(c, e \o v) <=> Under(c, e) /\ Under(Skip(c, Len(e)), v)
    BY <1>2, UnderConcat, Zenon
  <2> QED
    BY <1>1, <1>2, <2>1, Zenon DEF d
<1>5. U32At(c) = n
  <2> HIDE DEF n
  <2> QED
    BY <1>1, <1>4, U32Back DEF e
<1>6. Len(e \o v) = 4 + n
  <2>1. Len(e \o v) = Len(e) + Len(v)
    BY <1>2, ConcatAdds, Zenon
  <2> QED
    BY <1>2, <2>1, Zenon
<1>7. DecodeData(c, old).c = Skip(c, 4 + n)
  BY <1>5 DEF DecodeData
<1>8. ASSUME NEW i \in 1 .. n PROVE ByteAt(d, i - 1) = v[i]
  <2>1. i - 1 \in Nat /\ i - 1 < Len(v) /\ (i - 1) + 1 = i
    BY <1>1
  <2>2. ByteAt(d, i - 1) = v[(i - 1) + 1]
    BY <1>3, <1>4, <2>1, ByteAtUnder
  <2> QED
    BY <2>1, <2>2
<1> QED
  BY <1>1, <1>5, <1>6, <1>7, <1>8 DEF d
-----------------------------------------------------------------------------
(* Stat. *)

(* The parts of a Stat, as they are encoded. *)
StatParts(v) == [i \in DOMAIN Stat.encode |-> EncodePart(Stat.encode[i][2], v[Stat.encode[i][1]])]

IsStat(v) == \A i \in DOMAIN Stat.encode : HasPartType(Stat.encode[i][2], v[Stat.encode[i][1]])

LEMMA StatPartsType ==
  ASSUME NEW v, IsStat(v)
  PROVE  /\ StatParts(v) \in Seq(Encodings) /\ Len(StatParts(v)) = Len(Stat.encode)
         /\ Len(Stat.encode) \in Nat /\ Stat.decode = Stat.encode
         /\ \A i \in 1 .. Len(Stat.encode) :
              /\ Stat.encode[i][2] \in PartTypes
              /\ HasPartType(Stat.encode[i][2], v[Stat.encode[i][1]])
              /\ StatParts(v)[i] = EncodePart(Stat.encode[i][2], v[Stat.encode[i][1]])
<1> DEFINE s == Stat.encode
<1>1. /\ Len(s) \in Nat /\ DOMAIN s = 1 .. Len(s) /\ Stat.decode = s
      /\ \A i \in 1 .. Len(s) : s[i][2] \in PartTypes
  BY StatMatches, FieldIs DEF Matches
<1>2. \A i \in 1 .. Len(s) : HasPartType(s[i][2], v[s[i][1]])
  BY <1>1 DEF IsStat
<1>3. StatParts(v) = [i \in DOMAIN s |-> EncodePart(s[i][2], v[s[i][1]])]
  BY DEF StatParts
<1> HIDE DEF s
<1>4. \A i \in 1 .. Len(s) : EncodePart(s[i][2], v[s[i][1]]) \in Encodings
  BY <1>1, <1>2, EncodePartType
<1>5. StatParts(v) \in Seq(Encodings) /\ Len(StatParts(v)) = Len(s)
      /\ \A i \in 1 .. Len(s) : StatParts(v)[i] = EncodePart(s[i][2], v[s[i][1]])
  BY <1>1, <1>3, <1>4
<1> QED
  BY <1>1, <1>2, <1>5 DEF s

LEMMA EncodeStatIs ==
  ASSUME NEW v, IsStat(v)
  PROVE  LET f == FlattenSeq(BytesOf(StatParts(v)))
         IN  /\ EncodeStat(v) \in Encodings /\ f \in Seq(Byte)
             /\ EncodeStat(v).ok =>
                  /\ FitsU16(Len(f)) /\ EncodeStat(v).bytes = Encode16(Len(f)) \o f
                  /\ \A i \in 1 .. Len(Stat.encode) : StatParts(v)[i].ok
<1> DEFINE parts == StatParts(v)
           inner == EncodeAll(parts)
           f == FlattenSeq(BytesOf(parts))
<1>1. EncodeStat(v) = IF inner.ok THEN EncodeString(inner.bytes) ELSE Thrown
  BY DEF EncodeStat, StatParts
<1>2. parts \in Seq(Encodings) /\ Len(parts) = Len(Stat.encode)
  BY StatPartsType
<1> HIDE DEF parts
<1>3. /\ inner \in Encodings
      /\ inner.ok <=> \A i \in 1 .. Len(parts) : parts[i].ok
      /\ inner.ok => inner.bytes = f
  BY <1>2, EncodeAllIs
<1>4. inner.bytes \in Seq(Byte)
  BY <1>3, EncodingIs
<1>5. f \in Seq(Byte)
  <2>1. BytesOf(parts) \in Seq(Seq(Byte)) /\ << >> \in Seq(Byte)
    BY <1>2, BytesOfType
  <2> QED
    BY <2>1, FlattenAppend
<1> HIDE DEF inner, f
<1>6. CASE ~inner.ok
  BY <1>1, <1>5, <1>6, ThrownType DEF AllOrNothing, parts, f
<1>7. CASE inner.ok
  <2>1. EncodeStat(v) = EncodeString(f)
    BY <1>1, <1>3, <1>7
  <2>2. EncodeString(f) \in Encodings
    BY <1>5, EncodeStringType DEF AllOrNothing
  <2>3. EncodeString(f).ok => FitsU16(Len(f)) /\ EncodeString(f).bytes = Encode16(Len(f)) \o f
    BY DEF EncodeString, Done, Thrown
  <2> QED
    BY <1>2, <1>3, <1>5, <1>7, <2>1, <2>2, <2>3 DEF parts, f
<1> QED
  BY <1>6, <1>7

(* A Stat is decoded where it was encoded, part by part. *)
StatRun(h, v, c, old, order) ==
  /\ Runs(h, "part", Stat.decode, Len(Stat.decode), [v |-> old, c |-> Skip(c, 2)], order)
  /\ DecodeStat(c, old, order) = h[Len(Stat.decode)]
  /\ h[Len(Stat.decode)].c = Skip(c, Len(EncodeStat(v).bytes))
  /\ \A i \in 1 .. Len(Stat.decode) :
       h[i - 1].c \in Cursors /\ Under(h[i - 1].c, StatParts(v)[i].bytes)

LEMMA StatTiles ==
  ASSUME NEW v, IsStat(v), EncodeStat(v).ok, NEW c \in Cursors, Under(c, EncodeStat(v).bytes),
         NEW old, NEW order
  PROVE  \E h : StatRun(h, v, c, old, order)
<1> DEFINE parts == StatParts(v)
           f == FlattenSeq(BytesOf(parts))
           e == Encode16(Len(f))
           d == Skip(c, 2)
           xs == Stat.decode
           n == Len(xs)
           start == [v |-> old, c |-> d]
<1>1. /\ f \in Seq(Byte) /\ FitsU16(Len(f)) /\ EncodeStat(v).bytes = e \o f
      /\ \A i \in 1 .. n : parts[i].ok
  BY EncodeStatIs, StatPartsType
<1>2. /\ parts \in Seq(Encodings) /\ Len(parts) = n /\ n \in Nat
      /\ \A i \in 1 .. n : /\ xs[i][2] \in PartTypes /\ HasPartType(xs[i][2], v[xs[i][1]])
                           /\ parts[i] = EncodePart(xs[i][2], v[xs[i][1]])
  BY StatPartsType
<1>3. Len(f) \in Nat
  BY <1>1
<1> HIDE DEF f
<1>4. e \in Seq(Byte) /\ Len(e) = 2
  BY <1>3, Encode16Type
<1>5. PICK h : Runs(h, "part", xs, n, start, order) /\ DecodeStat(c, old, order) = h[n]
  BY <1>2, DecodeStatRuns
<1>6. start.c = d /\ d \in Cursors
  BY SkipType
<1> HIDE DEF e, d, parts, xs, n, start
<1>7. Under(d, f)
  <2>1. Under(c, e \o f) <=> Under(c, e) /\ Under(Skip(c, Len(e)), f)
    BY <1>1, <1>4, UnderConcat, Zenon
  <2> QED
    BY <1>1, <1>4, <2>1, Zenon DEF d
<1>8. \A i \in 1 .. n : StepTiles("part", xs[i], parts[i], order)
  <2> TAKE i \in 1 .. n
  <2> DEFINE x == xs[i]
             w == v[xs[i][1]]
  <2>1. x[2] \in PartTypes /\ HasPartType(x[2], w) /\ parts[i] = EncodePart(x[2], w)
        /\ EncodePart(x[2], w).ok
    BY <1>1, <1>2
  <2> HIDE DEF x, w
  <2>2. StepTiles("part", x, EncodePart(x[2], w), order)
    BY <2>1, PartTiles, StepIs DEF StepTiles
  <2> QED
    BY <2>1, <2>2 DEF x
<1>9. /\ h[n].c = Skip(d, Len(f))
      /\ \A i \in 1 .. n : h[i - 1].c \in Cursors /\ Under(h[i - 1].c, parts[i].bytes)
  <2>1. Runs(h, "part", xs, Len(parts), start, order) /\ start.c \in Cursors
        /\ Under(start.c, f) /\ \A i \in 1 .. Len(parts) : StepTiles("part", xs[i], parts[i], order)
    BY <1>2, <1>5, <1>6, <1>7, <1>8
  <2>2. /\ h[Len(parts)].c = Skip(start.c, Len(f))
        /\ \A i \in 1 .. Len(parts) : h[i - 1].c \in Cursors /\ Under(h[i - 1].c, parts[i].bytes)
    BY <1>2, <2>1, RunTiles DEF f
  <2> QED
    BY <1>2, <1>6, <2>2
<1>10. Len(e \o f) = 2 + Len(f)
  <2>1. Len(e \o f) = Len(e) + Len(f)
    BY <1>1, <1>4, ConcatAdds, Zenon
  <2> QED
    BY <1>4, <2>1, Zenon
<1>11. Skip(d, Len(f)) = Skip(c, Len(e \o f))
  BY <1>3, <1>10, SkipTwice DEF d
<1>12. StatRun(h, v, c, old, order)
  BY <1>1, <1>5, <1>9, <1>11 DEF StatRun, xs, n, start, d, parts
<1> QED
  BY <1>12
-----------------------------------------------------------------------------
(* Members. *)

LEMMA EncodeMemberIs ==
  ASSUME NEW type \in MemberTypes, NEW v
  PROVE  /\ EncodeMember("strs", v) = EncodeVector(Elements("str", v))
         /\ EncodeMember("qids", v) = EncodeVector(Elements("qid", v))
         /\ EncodeMember("data", v) = EncodeData(v)
         /\ EncodeMember("stat", v) = EncodeStat(v)
         /\ type \in PartTypes => EncodeMember(type, v) = EncodePart(type, v)
<1>1. Elements("str", v) = [i \in DOMAIN v |-> EncodeString(v[i])]
  BY EncodeValueIs DEF Elements, EncodePart
<1>2. Elements("qid", v) = [i \in DOMAIN v |-> EncodeQid(v[i])]
  BY DEF Elements, EncodePart
<1> QED
  BY <1>1, <1>2 DEF EncodeMember, MemberTypes, PartTypes, ValueTypes

LEMMA MemberHolds ==
  ASSUME NEW type \in MemberTypes, NEW v, HasMemberType(type, v)
  PROVE  /\ type = "strs" => v \in Seq(Seq(Byte)) /\ \A x \in Seq(Byte) : HasPartType("str", x)
         /\ type = "qids" => v \in Seq(Qids) /\ \A x \in Qids : HasPartType("qid", x)
         /\ type = "data" => v \in Seq(Byte)
         /\ type = "stat" => IsStat(v)
         /\ type \in PartTypes => HasPartType(type, v)
BY DEF HasMemberType, HasPartType, HasType, IsStat, MemberTypes, PartTypes, ValueTypes

LEMMA EncodeMemberType ==
  ASSUME NEW type \in MemberTypes, NEW v, HasMemberType(type, v)
  PROVE  EncodeMember(type, v) \in Encodings
<1>1. CASE type = "strs"
  <2>1. "str" \in PartTypes /\ v \in Seq(Seq(Byte)) /\ \A x \in Seq(Byte) : HasPartType("str", x)
    BY <1>1, MemberHolds, Listed
  <2>2. Elements("str", v) \in Seq(Encodings)
    BY <2>1, ElementsType
  <2> QED
    BY <1>1, <2>2, EncodeVectorIs, EncodeMemberIs
<1>2. CASE type = "qids"
  <2>1. "qid" \in PartTypes /\ v \in Seq(Qids) /\ \A x \in Qids : HasPartType("qid", x)
    BY <1>2, MemberHolds, Listed
  <2>2. Elements("qid", v) \in Seq(Encodings)
    BY <2>1, ElementsType
  <2> QED
    BY <1>2, <2>2, EncodeVectorIs, EncodeMemberIs
<1>3. CASE type = "data"
  BY <1>3, MemberHolds, EncodeDataIs, EncodeMemberIs
<1>4. CASE type = "stat"
  BY <1>4, MemberHolds, EncodeStatIs, EncodeMemberIs
<1>5. CASE type \in PartTypes
  BY <1>5, MemberHolds, EncodePartType, EncodeMemberIs
<1> QED
  BY <1>1, <1>2, <1>3, <1>4, <1>5 DEF MemberTypes

(* decode() of a member goes just past what encode() of the member put,    *)
(* whatever the member holds before.                                       *)
LEMMA MemberTiles ==
  ASSUME NEW type \in MemberTypes, NEW v, HasMemberType(type, v), EncodeMember(type, v).ok,
         NEW c \in Cursors, Under(c, EncodeMember(type, v).bytes), NEW old, NEW order
  PROVE  DecodeMember(type, c, old, order).c = Skip(c, Len(EncodeMember(type, v).bytes))
<1>1. CASE type = "strs"
  <2>1. "str" \in PartTypes /\ v \in Seq(Seq(Byte)) /\ \A x \in Seq(Byte) : HasPartType("str", x)
    BY <1>1, MemberHolds, Listed
  <2>2. EncodeMember(type, v) = EncodeVector(Elements("str", v))
        /\ DecodeMember(type, c, old, order) = DecodeVector("str", c, old, order)
    BY <1>1, EncodeMemberIs, DecodeMemberIs
  <2>3. PICK h : VectorRun(h, "str", Elements("str", v), c, old, order)
    BY <2>1, <2>2, VectorMemberTiles
  <2> QED
    BY <2>2, <2>3 DEF VectorRun
<1>2. CASE type = "qids"
  <2>1. "qid" \in PartTypes /\ v \in Seq(Qids) /\ \A x \in Qids : HasPartType("qid", x)
    BY <1>2, MemberHolds, Listed
  <2>2. EncodeMember(type, v) = EncodeVector(Elements("qid", v))
        /\ DecodeMember(type, c, old, order) = DecodeVector("qid", c, old, order)
    BY <1>2, EncodeMemberIs, DecodeMemberIs
  <2>3. PICK h : VectorRun(h, "qid", Elements("qid", v), c, old, order)
    BY <2>1, <2>2, VectorMemberTiles
  <2> QED
    BY <2>2, <2>3 DEF VectorRun
<1>3. CASE type = "data"
  BY <1>3, MemberHolds, DataTiles, EncodeMemberIs, DecodeMemberIs
<1>4. CASE type = "stat"
  <2>1. IsStat(v) /\ EncodeMember(type, v) = EncodeStat(v)
        /\ DecodeMember(type, c, old, order) = DecodeStat(c, old, order)
    BY <1>4, MemberHolds, EncodeMemberIs, DecodeMemberIs
  <2>2. PICK h : StatRun(h, v, c, old, order)
    BY <2>1, StatTiles
  <2> QED
    BY <2>1, <2>2 DEF StatRun
<1>5. CASE type \in PartTypes
  BY <1>5, MemberHolds, PartTiles, EncodeMemberIs, DecodeMemberIs
<1> QED
  BY <1>1, <1>2, <1>3, <1>4, <1>5 DEF MemberTypes

-----------------------------------------------------------------------------
(* Messages. *)

(* The parts of a message, as they are encoded. *)
MessageParts(m) ==
  LET fields == Class(m.kind, m.dir).encode
  IN  [i \in DOMAIN fields |-> EncodeMember(fields[i][2], m.body[fields[i][1]])]

LEMMA MessagePartsType ==
  ASSUME NEW m, m.kind \in Kind, Wellformed(m)
  PROVE  LET s == Class(m.kind, m.dir).encode
         IN  /\ MessageParts(m) \in Seq(Encodings) /\ Len(MessageParts(m)) = Len(s)
             /\ \A i \in 1 .. Len(s) :
                  /\ s[i][2] \in MemberTypes /\ HasMemberType(s[i][2], m.body[s[i][1]])
                  /\ MessageParts(m)[i] = EncodeMember(s[i][2], m.body[s[i][1]])
<1> DEFINE s == Class(m.kind, m.dir).encode
<1>1. Len(s) \in Nat /\ DOMAIN s = 1 .. Len(s) /\ \A i \in 1 .. Len(s) : s[i][2] \in MemberTypes
  BY ClassFields
<1>2. \A i \in 1 .. Len(s) : HasMemberType(s[i][2], m.body[s[i][1]])
  BY <1>1 DEF Wellformed
<1>3. MessageParts(m) = [i \in DOMAIN s |-> EncodeMember(s[i][2], m.body[s[i][1]])]
  BY DEF MessageParts
<1> HIDE DEF s
<1>4. \A i \in 1 .. Len(s) : EncodeMember(s[i][2], m.body[s[i][1]]) \in Encodings
  BY <1>1, <1>2, EncodeMemberType
<1>5. MessageParts(m) \in Seq(Encodings) /\ Len(MessageParts(m)) = Len(s)
      /\ \A i \in 1 .. Len(s) : MessageParts(m)[i] = EncodeMember(s[i][2], m.body[s[i][1]])
  BY <1>1, <1>3, <1>4
<1> QED
  BY <1>1, <1>2, <1>5 DEF s

(* encode() of a message puts bytes; whole, it puts the operation first. *)
LEMMA EncodeMessageIs ==
  ASSUME NEW m, Wellformed(m)
  PROVE  /\ EncodeMessage(m) \in Encodings
         /\ EncodeMessage(m).ok =>
              /\ m.kind \in Kind
              /\ EncodeMessage(m).bytes = FlattenSeq(BytesOf(MessageParts(m)))
              /\ \A i \in 1 .. Len(MessageParts(m)) : MessageParts(m)[i].ok
              /\ Len(EncodeMessage(m).bytes) >= 1
              /\ EncodeMessage(m).bytes[1] = translateConcept(m.kind, m.dir)
<1> DEFINE e == EncodeMessage(m)
           parts == MessageParts(m)
<1>1. CASE m.kind \notin Kind
  <2>1. m.kind = "Undefined"
    BY <1>1 DEF Wellformed
  <2> QED
    BY <2>1, ThrownType DEF EncodeMessage, AllOrNothing
<1>2. CASE m.kind \in Kind
  <2>1. m.kind # "Undefined"
    BY <1>2, ConvertIs
  <2>2. e = EncodeAll(parts)
    BY <2>1 DEF EncodeMessage, MessageParts
  <2> DEFINE s == Class(m.kind, m.dir).encode
  <2>3. /\ parts \in Seq(Encodings) /\ Len(parts) = Len(s)
        /\ \A i \in 1 .. Len(s) : parts[i] = EncodeMember(s[i][2], m.body[s[i][1]])
    BY <1>2, MessagePartsType
  <2>4. Len(s) \in Nat /\ Len(s) >= 1 /\ s[1] = <<"op", "u8">>
    BY <1>2, ClassFields
  <2>5. m.body["op"] = translateConcept(m.kind, m.dir)
    BY <1>2 DEF Wellformed
  <2> HIDE DEF s, parts
  <2> DEFINE op == translateConcept(m.kind, m.dir)
             bs == BytesOf(parts)
  <2>6. parts[1] = Done(<<op>>)
    <3>1. parts[1] = EncodeMember("u8", m.body["op"])
      BY <2>3, <2>4
    <3>2. "u8" \in PartTypes /\ "u8" \in MemberTypes
      BY Listed
    <3>3. EncodeMember("u8", m.body["op"]) = EncodePart("u8", m.body["op"])
      BY <3>2, EncodeMemberIs
    <3> QED
      BY <2>5, <3>1, <3>3, EncodeValueIs DEF EncodePart
  <2>7. /\ e \in Encodings
        /\ e.ok <=> \A i \in 1 .. Len(parts) : parts[i].ok
        /\ e.ok => e.bytes = FlattenSeq(bs)
    BY <2>2, <2>3, EncodeAllIs
  <2>8. bs \in Seq(Seq(Byte)) /\ Len(bs) = Len(s) /\ bs[1] = parts[1].bytes
    BY <2>3, <2>4, BytesOfType
  <2> HIDE DEF op, bs, e
  <2>9. bs[1] = <<op>>
    BY <2>6, <2>8 DEF Done
  <2>10. FlattenSeq(bs) = <<op>> \o FlattenSeq(Tail(bs))
    <3>1. bs # << >> /\ Head(bs) = bs[1]
      BY <2>4, <2>8
    <3> QED
      BY <2>8, <2>9, <3>1, FlattenHead
  <2> DEFINE f == <<op>>
             r == FlattenSeq(Tail(bs))
  <2>11. f \in Seq(Byte) /\ Len(f) = 1 /\ f[1] = op
    <3>1. bs[1] \in Seq(Byte)
      BY <2>4, <2>8
    <3> QED
      BY <2>9, <3>1
  <2>12. r \in Seq(Byte) /\ Len(r) \in Nat
    <3>1. Tail(bs) \in Seq(Seq(Byte)) /\ << >> \in Seq(Byte)
      BY <2>4, <2>8
    <3>2. r \in Seq(Byte)
      BY <3>1, FlattenAppend
    <3> QED
      BY <3>2
  <2> HIDE DEF f, r
  <2>13. Len(f \o r) >= 1 /\ (f \o r)[1] = op
    <3>1. /\ Len(f \o r) = Len(f) + Len(r)
          /\ \A i \in 1 .. Len(f) + Len(r) : (f \o r)[i] = IF i <= Len(f) THEN f[i] ELSE r[i - Len(f)]
      BY <2>11, <2>12, ConcatProperties
    <3> QED
      BY <2>11, <2>12, <3>1
  <2>14. e.ok => Len(e.bytes) >= 1 /\ e.bytes[1] = op
    BY <2>7, <2>10, <2>13 DEF f, r
  <2> QED
    BY <1>2, <2>7, <2>14 DEF e, parts, bs, op
<1> QED
  BY <1>1, <1>2

(* A message is decoded where it was encoded, member by member, into any   *)
(* object of its class.                                                    *)
MessageRun(h, o, m, c, order) ==
  LET fields == Class(m.kind, m.dir).encode
  IN  /\ Runs(h, "member", fields, Len(fields), [v |-> o.body, c |-> c], order)
      /\ DecodeMessage(o, c, order) =
           [v |-> [o EXCEPT !.body = h[Len(fields)].v], c |-> h[Len(fields)].c]
      /\ h[Len(fields)].c = Skip(c, Len(EncodeMessage(m).bytes))
      /\ \A i \in 1 .. Len(fields) :
           h[i - 1].c \in Cursors /\ Under(h[i - 1].c, MessageParts(m)[i].bytes)

LEMMA MessageTiles ==
  ASSUME NEW m, Wellformed(m), EncodeMessage(m).ok, NEW o, o.kind = m.kind, o.dir = m.dir,
         NEW c \in Cursors, Under(c, EncodeMessage(m).bytes), NEW order
  PROVE  \E h : MessageRun(h, o, m, c, order)
<1> DEFINE xs == Class(m.kind, m.dir).encode
           n == Len(xs)
           parts == MessageParts(m)
           f == FlattenSeq(BytesOf(parts))
           start == [v |-> o.body, c |-> c]
<1>1. m.kind \in Kind /\ EncodeMessage(m).bytes = f /\ \A i \in 1 .. Len(parts) : parts[i].ok
  BY EncodeMessageIs
<1>2. /\ parts \in Seq(Encodings) /\ Len(parts) = n
      /\ \A i \in 1 .. n : /\ xs[i][2] \in MemberTypes /\ HasMemberType(xs[i][2], m.body[xs[i][1]])
                           /\ parts[i] = EncodeMember(xs[i][2], m.body[xs[i][1]])
  BY <1>1, MessagePartsType
<1>3. n \in Nat /\ Class(o.kind, o.dir).decode = xs
  BY <1>1, ClassFields
<1>4. PICK h : /\ Runs(h, "member", xs, n, start, order)
               /\ DecodeMessage(o, c, order) = [v |-> [o EXCEPT !.body = h[n].v], c |-> h[n].c]
  BY <1>3, DecodeMessageRuns
<1>5. start.c = c
  OBVIOUS
<1> HIDE DEF xs, n, parts, f, start
<1>6. \A i \in 1 .. n : StepTiles("member", xs[i], parts[i], order)
  <2> TAKE i \in 1 .. n
  <2> DEFINE x == xs[i]
             w == m.body[xs[i][1]]
  <2>1. x[2] \in MemberTypes /\ HasMemberType(x[2], w) /\ parts[i] = EncodeMember(x[2], w)
        /\ EncodeMember(x[2], w).ok
    BY <1>1, <1>2
  <2> HIDE DEF x, w
  <2>2. StepTiles("member", x, EncodeMember(x[2], w), order)
    BY <2>1, MemberTiles, StepIs DEF StepTiles
  <2> QED
    BY <2>1, <2>2 DEF x
<1>7. /\ h[n].c = Skip(c, Len(f))
      /\ \A i \in 1 .. n : h[i - 1].c \in Cursors /\ Under(h[i - 1].c, parts[i].bytes)
  <2>1. Runs(h, "member", xs, Len(parts), start, order) /\ start.c \in Cursors
        /\ Under(start.c, f) /\ \A i \in 1 .. Len(parts) : StepTiles("member", xs[i], parts[i], order)
    BY <1>1, <1>2, <1>4, <1>5, <1>6
  <2>2. /\ h[Len(parts)].c = Skip(start.c, Len(f))
        /\ \A i \in 1 .. Len(parts) : h[i - 1].c \in Cursors /\ Under(h[i - 1].c, parts[i].bytes)
    BY <1>2, <2>1, RunTiles DEF f
  <2> QED
    BY <1>2, <1>5, <2>2
<1>8. MessageRun(h, o, m, c, order)
  BY <1>1, <1>4, <1>7 DEF MessageRun, xs, n, start, parts
<1> QED
  BY <1>8

(* decode() of every class takes exactly the bytes that encode() of that   *)
(* class put, for every value of every member, into a fresh object or one  *)
(* that was used before, whatever follows on the stream.                   *)
THEOREM DecodeTakesMessage ==
  ASSUME NEW m, Wellformed(m), EncodeMessage(m).ok, NEW o, o.kind = m.kind, o.dir = m.dir,
         NEW c \in Cursors, Under(c, EncodeMessage(m).bytes), NEW order
  PROVE  DecodeMessage(o, c, order).c = Skip(c, Len(EncodeMessage(m).bytes))
<1>1. PICK h : MessageRun(h, o, m, c, order)
  BY MessageTiles
<1> QED
  BY <1>1 DEF MessageRun
-----------------------------------------------------------------------------
(* What an object holds after a run. *)

ValueAt(use, type, c, old, order) ==
  IF use = "part" THEN DecodePart(type, c, old, order).v ELSE DecodeMember(type, c, old, order).v

LEMMA StepValue ==
  ASSUME NEW use \in {"part", "member"}, NEW x, NEW a, NEW order, x[1] \in DOMAIN a.v
  PROVE  LET b == Step(use, x, a, order)
         IN  /\ DOMAIN b.v = DOMAIN a.v
             /\ b.v[x[1]] = ValueAt(use, x[2], a.c, a.v[x[1]], order)
             /\ \A y \in DOMAIN a.v : y # x[1] => b.v[y] = a.v[y]
<1> DEFINE w == ValueAt(use, x[2], a.c, a.v[x[1]], order)
           b == Step(use, x, a, order)
<1>1. b.v = [a.v EXCEPT ![x[1]] = w]
  BY DEF Step, PartStep, MemberStep, ValueAt
<1> HIDE DEF w, b
<1>2. /\ DOMAIN b.v = DOMAIN a.v /\ b.v[x[1]] = w
      /\ \A y \in DOMAIN a.v : y # x[1] => b.v[y] = a.v[y]
  BY <1>1
<1> QED
  BY <1>2 DEF w, b

(* Fields of members that are there, no two of the same. *)
Named(xs, n, names) ==
  /\ \A i \in 1 .. n : xs[i][1] \in names
  /\ \A i, j \in 1 .. n : xs[i][1] = xs[j][1] => i = j

RunValue(h, use, xs, n, start, order) ==
  /\ DOMAIN h[n].v = DOMAIN start.v
  /\ \A i \in 1 .. n :
       h[n].v[xs[i][1]] = ValueAt(use, xs[i][2], h[i - 1].c, start.v[xs[i][1]], order)

(* Each field holds what its own step gave: the fields have different      *)
(* names, so no later step changes it and no earlier step has.             *)
LEMMA RunValues ==
  ASSUME NEW h, NEW use \in {"part", "member"}, NEW xs, NEW n \in Nat, NEW start, NEW order,
         Runs(h, use, xs, n, start, order), Named(xs, n, DOMAIN start.v)
  PROVE  RunValue(h, use, xs, n, start, order)
<1>0. /\ \A i \in 1 .. n : xs[i][1] \in DOMAIN start.v
      /\ \A i, j \in 1 .. n : xs[i][1] = xs[j][1] => i = j
  BY DEF Named
<1> DEFINE w(i) == ValueAt(use, xs[i][2], h[i - 1].c, start.v[xs[i][1]], order)
           Is(k) == /\ DOMAIN h[k].v = DOMAIN start.v
                    /\ \A i \in 1 .. n : i <= k => h[k].v[xs[i][1]] = w(i)
                    /\ \A i \in 1 .. n : i > k => h[k].v[xs[i][1]] = start.v[xs[i][1]]
           P == {k \in 0 .. n : Is(k)}
<1>1. h[0] = start /\ \A i \in 1 .. n : h[i] = Step(use, xs[i], h[i - 1], order)
  BY DEF Runs
<1>2. Is(0)
  BY <1>1
<1>3. ASSUME NEW k \in 1 .. n, Is(k - 1) PROVE Is(k)
  <2>1. /\ DOMAIN h[k - 1].v = DOMAIN start.v
        /\ \A i \in 1 .. n : i <= k - 1 => h[k - 1].v[xs[i][1]] = w(i)
        /\ \A i \in 1 .. n : i > k - 1 => h[k - 1].v[xs[i][1]] = start.v[xs[i][1]]
    BY <1>3
  <2>2. h[k] = Step(use, xs[k], h[k - 1], order) /\ xs[k][1] \in DOMAIN h[k - 1].v
    BY <1>0, <1>1, <2>1
  <2>3. /\ DOMAIN h[k].v = DOMAIN h[k - 1].v
        /\ h[k].v[xs[k][1]] = ValueAt(use, xs[k][2], h[k - 1].c, h[k - 1].v[xs[k][1]], order)
        /\ \A y \in DOMAIN h[k - 1].v : y # xs[k][1] => h[k].v[y] = h[k - 1].v[y]
    BY <2>2, StepValue
  <2>4. h[k - 1].v[xs[k][1]] = start.v[xs[k][1]]
    BY <2>1
  <2>5. h[k].v[xs[k][1]] = w(k)
    BY <2>3, <2>4
  <2> HIDE DEF w
  <2>6. \A i \in 1 .. n : i # k => h[k].v[xs[i][1]] = h[k - 1].v[xs[i][1]]
    BY <1>0, <2>1, <2>3
  <2>7. \A i \in 1 .. n : i <= k => h[k].v[xs[i][1]] = w(i)
    <3> SUFFICES ASSUME NEW i \in 1 .. n, i <= k PROVE h[k].v[xs[i][1]] = w(i)
      OBVIOUS
    <3>1. i = k \/ i <= k - 1
      OBVIOUS
    <3> QED
      BY <2>1, <2>5, <2>6, <3>1
  <2>8. \A i \in 1 .. n : i > k => h[k].v[xs[i][1]] = start.v[xs[i][1]]
    BY <2>1, <2>6
  <2> QED
    BY <2>1, <2>3, <2>7, <2>8
<1> HIDE DEF Is
<1>4. 0 \in P /\ \A k \in 1 .. n : k - 1 \in P => k \in P
  BY <1>2, <1>3
<1>5. n \in P
  <2> HIDE DEF P
  <2> QED
    BY <1>4, UpTo
<1>6. Is(n)
  BY <1>5
<1> QED
  BY <1>6 DEF Is, RunValue

(* The names of the members of a class. *)
LEMMA MemberNamesIs ==
  ASSUME NEW kind \in Kind, NEW dir
  PROVE  LET s == Class(kind, dir).encode
         IN  /\ \A i \in 1 .. Len(s) : s[i][1] \in MemberNames(kind, dir)
                                       /\ MemberType(kind, dir, s[i][1]) = s[i][2]
             /\ \A f \in MemberNames(kind, dir) : \E i \in 1 .. Len(s) : f = s[i][1]
<1> DEFINE s == Class(kind, dir).encode
<1>1. /\ DOMAIN s = 1 .. Len(s)
      /\ \A i, j \in 1 .. Len(s) : s[i][1] = s[j][1] => i = j
  BY ClassFields
<1>2. MemberNames(kind, dir) = {s[i][1] : i \in DOMAIN s}
  BY DEF MemberNames
<1>3. \A f : MemberType(kind, dir, f) = s[CHOOSE i \in DOMAIN s : s[i][1] = f][2]
  BY DEF MemberType
<1> HIDE DEF s
<1>4. \A i \in 1 .. Len(s) : MemberType(kind, dir, s[i][1]) = s[i][2]
  <2> SUFFICES ASSUME NEW i \in 1 .. Len(s) PROVE MemberType(kind, dir, s[i][1]) = s[i][2]
    OBVIOUS
  <2> DEFINE j == CHOOSE j \in DOMAIN s : s[j][1] = s[i][1]
  <2>1. j \in 1 .. Len(s) /\ s[j][1] = s[i][1]
    BY <1>1
  <2>2. MemberType(kind, dir, s[i][1]) = s[j][2]
    BY <1>3
  <2> HIDE DEF j
  <2> QED
    BY <1>1, <2>1, <2>2
<1>5. /\ \A i \in 1 .. Len(s) : s[i][1] \in MemberNames(kind, dir)
      /\ \A f \in MemberNames(kind, dir) : \E i \in 1 .. Len(s) : f = s[i][1]
  BY <1>1, <1>2
<1> QED
  BY <1>4, <1>5 DEF s

(* An object of a class: it has its members. *)
Object(m) ==
  /\ m = [kind |-> m.kind, dir |-> m.dir, body |-> m.body]
  /\ m.kind \in Kind \cup {"Undefined"} /\ m.dir \in {"Request", "Response"}
  /\ DOMAIN m.body = IF m.kind = "Undefined" THEN {"op", "tag"} ELSE MemberNames(m.kind, m.dir)

(* Whatever the bytes are, an object stays one of its class, and its       *)
(* operation is the byte it was decoded from.                              *)
LEMMA DecodedObject ==
  ASSUME NEW o, Object(o), o.kind \in Kind, NEW c \in Cursors, NEW order
  PROVE  LET d == DecodeMessage(o, c, order).v
         IN  /\ Object(d) /\ d.kind = o.kind /\ d.dir = o.dir
             /\ d.body["op"] = ByteAt(c, 0)
<1> DEFINE s == Class(o.kind, o.dir).encode
           n == Len(s)
           start == [v |-> o.body, c |-> c]
           d == DecodeMessage(o, c, order).v
<1>1. /\ Class(o.kind, o.dir).decode = s /\ n \in Nat /\ n >= 1 /\ s[1] = <<"op", "u8">>
      /\ \A i, j \in 1 .. n : s[i][1] = s[j][1] => i = j
  BY ClassFields
<1>2. PICK h : /\ Runs(h, "member", s, n, start, order)
               /\ DecodeMessage(o, c, order) = [v |-> [o EXCEPT !.body = h[n].v], c |-> h[n].c]
  BY <1>1, DecodeMessageRuns
<1>3. o.kind # "Undefined" /\ DOMAIN o.body = MemberNames(o.kind, o.dir)
  BY ConvertIs DEF Object
<1>4. \A i \in 1 .. n : s[i][1] \in DOMAIN start.v
  BY <1>3, MemberNamesIs
<1>5. start.v = o.body /\ start.c = c
  OBVIOUS
<1>6. d = [o EXCEPT !.body = h[n].v]
  BY <1>2
<1> HIDE DEF s, n, start, d
<1>7. /\ DOMAIN h[n].v = DOMAIN start.v
      /\ \A i \in 1 .. n :
           h[n].v[s[i][1]] = ValueAt("member", s[i][2], h[i - 1].c, start.v[s[i][1]], order)
  <2>1. n \in Nat /\ Runs(h, "member", s, n, start, order) /\ Named(s, n, DOMAIN start.v)
        /\ "member" \in {"part", "member"}
    BY <1>1, <1>2, <1>4 DEF Named
  <2>2. RunValue(h, "member", s, n, start, order)
    BY <2>1, RunValues, Zenon
  <2> QED
    BY <2>2 DEF RunValue
<1>8. d = [kind |-> o.kind, dir |-> o.dir, body |-> h[n].v]
  <2>1. o = [kind |-> o.kind, dir |-> o.dir, body |-> o.body]
    BY DEF Object
  <2> QED
    BY <1>6, <2>1
<1>9. d.kind = o.kind /\ d.dir = o.dir /\ d.body = h[n].v
  BY <1>8
<1>10. Object(d)
  BY <1>3, <1>5, <1>7, <1>8, <1>9 DEF Object
<1>11. h[n].v["op"] = ByteAt(c, 0)
  <2>1. s[1][1] = "op" /\ s[1][2] = "u8" /\ 1 \in 1 .. n /\ 1 - 1 = 0
    BY <1>1
  <2>2. h[n].v[s[1][1]] = ValueAt("member", s[1][2], h[1 - 1].c, start.v[s[1][1]], order)
    BY <1>7, <2>1, Zenon
  <2>3. h[1 - 1].c = c
    BY <1>2, <1>5, <2>1 DEF Runs
  <2>4. "u8" \in PartTypes /\ "u8" \in MemberTypes
    BY Listed
  <2>5. \A old : ValueAt("member", "u8", c, old, order) = ByteAt(c, 0)
    <3> TAKE old
    <3>1. DecodeMember("u8", c, old, order) = DecodePart("u8", c, old, order)
      BY <2>4, DecodeMemberIs
    <3> QED
      BY <3>1, DecodeValueIs DEF ValueAt, DecodePart
  <2> QED
    BY <2>1, <2>2, <2>3, <2>5
<1> QED
  BY <1>9, <1>10, <1>11 DEF d
=============================================================================
