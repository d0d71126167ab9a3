----------------------------- MODULE WireProofs -----------------------------
(***************************************************************************)
(* What the provers need to know of the operators in Bytes and Wire:       *)
(* little-endian integers, induction, the recursive operators on           *)
(* sequences, the stringstream, and the encoders and decoders of plain     *)
(* values, which are inverse for every base.                               *)
(***************************************************************************)
EXTENDS Wire, SequenceTheorems, WellFoundedInduction, TLAPS

(* Base and M16 are positive natural numbers. *)
LEMMA BaseType ==
  /\ Base \in Nat /\ Base >= 1
  /\ M16 \in Nat /\ M16 >= 1
  /\ M16 * M16 \in Nat /\ M16 * M16 >= 1
<1>1. Base \in Nat /\ Base >= 1
  BY BaseAssumption
<1>2. M16 \in Nat /\ M16 >= 1
  BY <1>1 DEF M16
<1> QED
  BY <1>1, <1>2

(* Division and remainder by a positive number stay in range. *)
LEMMA DivMod ==
  ASSUME NEW a \in Nat, NEW d \in Nat, d >= 1
  PROVE  /\ a \div d \in Nat
         /\ a % d \in 0 .. d - 1
BY SMT

(* Quotient and remainder. *)
LEMMA Decompose ==
  ASSUME NEW a \in Nat, NEW d \in Nat, d >= 1
  PROVE  a \div d \in Nat /\ a % d \in Nat /\ a % d < d /\ a = d * (a \div d) + (a % d)
BY SMT

(* A multiple of d is at least d more than any smaller one. *)
LEMMA TimesMonotone ==
  ASSUME NEW d \in Nat, NEW x \in Nat, NEW y \in Nat, x < y
  PROVE  d * x + d <= d * y
<1>1. y = x + 1 + (y - x - 1) /\ y - x - 1 \in Nat
  OBVIOUS
<1> DEFINE k == y - x - 1
<1>2. k \in Nat /\ y = x + 1 + k
  BY <1>1
<1> HIDE DEF k
<1>3. d * y = d * x + d + d * k
  BY <1>2
<1>4. d * k >= 0 /\ d * x \in Nat /\ d * k \in Nat
  BY <1>2
<1> QED
  BY <1>3, <1>4

(* Quotient and remainder are determined by the number. *)
LEMMA Unique ==
  ASSUME NEW d \in Nat, d >= 1,
         NEW x \in Nat, NEW r \in Nat, r < d,
         NEW y \in Nat, NEW s \in Nat, s < d,
         d * x + r = d * y + s
  PROVE  x = y /\ r = s
<1>1. d * x \in Nat /\ d * y \in Nat
  OBVIOUS
<1>2. ~(x < y)
  <2> SUFFICES ASSUME x < y PROVE FALSE
    OBVIOUS
  <2>1. d * x + d <= d * y
    BY TimesMonotone
  <2> QED
    BY <1>1, <2>1
<1>3. ~(y < x)
  <2> SUFFICES ASSUME y < x PROVE FALSE
    OBVIOUS
  <2>1. d * y + d <= d * x
    BY TimesMonotone
  <2> QED
    BY <1>1, <2>1
<1>4. x = y
  BY <1>2, <1>3
<1> QED
  BY <1>1, <1>4

(* Two digits hold the number modulo M16, and what is left is above them. *)
LEMMA TwoDigits ==
  ASSUME NEW n \in Nat
  PROVE  /\ Build16(n % Base, (n \div Base) % Base) = n % M16
         /\ (n \div Base) \div Base = n \div M16
<1> DEFINE q == n \div Base
           r == n % Base
           q2 == q \div Base
           r2 == q % Base
           low == r2 * Base + r
<1>1. q \in Nat /\ r \in Nat /\ r < Base /\ n = Base * q + r
  BY Decompose, BaseType
<1>2. q2 \in Nat /\ r2 \in Nat /\ r2 < Base /\ q = Base * q2 + r2
  BY <1>1, Decompose, BaseType, Zenon
<1>3. n \div M16 \in Nat /\ n % M16 \in Nat /\ n % M16 < M16 /\ n = M16 * (n \div M16) + (n % M16)
  BY Decompose, BaseType, Zenon
<1> DEFINE Q == n \div M16
           R == n % M16
<1>4. Q \in Nat /\ R \in Nat /\ R < M16 /\ n = M16 * Q + R
  BY <1>3
<1>5. Build16(r, r2) = low
  BY DEF Build16
<1> HIDE DEF q, r, q2, r2, Q, R
<1>6. low \in Nat /\ low < M16
  <2>1. Base * r2 + Base <= Base * Base
    BY <1>2, BaseType, TimesMonotone
  <2>2. r2 * Base = Base * r2 /\ r2 * Base \in Nat
    BY <1>2, BaseType
  <2> QED
    BY <1>1, <2>1, <2>2, BaseType DEF M16
<1>7. n = M16 * q2 + low
  <2>1. Base * (Base * q2 + r2) = (Base * Base) * q2 + r2 * Base
    BY <1>2, BaseType
  <2>2. (Base * Base) * q2 \in Nat /\ r2 * Base \in Nat
    BY <1>2, BaseType
  <2> QED
    BY <1>1, <1>2, <2>1, <2>2, BaseType DEF M16
<1> HIDE DEF low
<1>8. q2 = Q /\ low = R
  <2>1. M16 * q2 + low = M16 * Q + R
    BY <1>4, <1>7
  <2> QED
    BY <1>2, <1>4, <1>6, <2>1, BaseType, Unique
<1> QED
  BY <1>5, <1>8 DEF q, r, q2, r2, Q, R

(* A number smaller than the modulus is its own remainder. *)
LEMMA SmallMod ==
  ASSUME NEW a \in Nat, NEW d \in Nat, d >= 1, a < d
  PROVE  a % d = a
BY SMT

(* Four digits, lowest first, are built into the number they came from:    *)
(* what Connection::write shifts out, build() of Connection::read puts     *)
(* together again.                                                         *)
THEOREM FourDigits ==
  ASSUME NEW n \in Nat, n < M16 * M16
  PROVE  Build32(n % Base, (n \div Base) % Base, (n \div M16) % Base, ((n \div M16) \div Base) % Base) = n
<1> DEFINE h == n \div M16
           l == n % M16
<1>1. h \in Nat /\ l \in Nat /\ l < M16 /\ n = M16 * h + l
  BY Decompose, BaseType, Zenon
<1>2. Build16(n % Base, (n \div Base) % Base) = l
  BY TwoDigits
<1>3. Build16(h % Base, (h \div Base) % Base) = h % M16
  BY <1>1, TwoDigits
<1> HIDE DEF h, l
<1>4. h < M16
  <2> SUFFICES ASSUME ~(h < M16) PROVE FALSE
    OBVIOUS
  <2>1. M16 < h \/ M16 = h
    BY <1>1, BaseType
  <2>2. M16 * M16 <= M16 * h
    BY <1>1, <2>1, BaseType, TimesMonotone
  <2>3. M16 * h \in Nat
    BY <1>1, BaseType
  <2> QED
    BY <1>1, <2>2, <2>3, BaseType
<1>5. h % M16 = h
  BY <1>1, <1>4, SmallMod, BaseType
<1>6. h * M16 + l = n
  BY <1>1, BaseType
<1>7. Build32(n % Base, (n \div Base) % Base, h % Base, (h \div Base) % Base) = h * M16 + l
  BY <1>2, <1>3, <1>5, Zenon DEF Build32
<1> QED
  BY <1>6, <1>7 DEF h

(* encode(uint16_t) puts two bytes, and build() of the two gives the value *)
(* back.                                                                   *)
THEOREM RoundTrip16 ==
  ASSUME NEW v \in U16
  PROVE  /\ Encode16(v) \in Byte \X Byte
         /\ Build16(Encode16(v)[1], Encode16(v)[2]) = v
<1>1. v \in Nat /\ v < M16
  BY BaseType DEF U16
<1>2. Build16(v % Base, (v \div Base) % Base) = v % M16
  BY <1>1, TwoDigits
<1>3. v % M16 = v
  BY <1>1, SmallMod, BaseType
<1>4. v \div Base \in Nat
  BY <1>1, DivMod, BaseType, Zenon
<1>5. v % Base \in Byte /\ (v \div Base) % Base \in Byte
  BY <1>1, <1>4, DivMod, BaseType, Zenon DEF Byte
<1> DEFINE a == v % Base
           b == (v \div Base) % Base
<1>6. Encode16(v) = <<a, b>> /\ a \in Byte /\ b \in Byte /\ Build16(a, b) = v
  BY <1>2, <1>3, <1>5 DEF Encode16
<1> HIDE DEF a, b
<1> QED
  BY <1>6

-----------------------------------------------------------------------------
(* Induction, as a fact about sets. *)
LEMMA Induction ==
  ASSUME NEW P \in SUBSET Nat, 0 \in P, \A n \in P : n + 1 \in P
  PROVE  P = Nat
<1> SUFFICES ASSUME P # Nat PROVE FALSE
  OBVIOUS
<1> DEFINE R == {ss \in Nat \X Nat : ss[1] < ss[2]}
           T == Nat \ P
<1>1. IsWellFoundedOn(R, Nat)
  BY NatLessThanWellFounded DEF OpToRel
<1>2. T \subseteq Nat /\ T # {}
  OBVIOUS
<1>3. PICK x \in T : \A y \in T : ~(<<y, x>> \in R)
  <2> HIDE DEF T, R
  <2> QED BY <1>1, <1>2, WFMin, Zenon
<1>4. x \in Nat /\ x # 0 /\ x - 1 \in Nat /\ x - 1 < x
  BY <1>3
<1>5. x - 1 \in P
  BY <1>3, <1>4
<1> QED
  BY <1>3, <1>4, <1>5

(* Induction up to n. *)
LEMMA UpTo ==
  ASSUME NEW n \in Nat, NEW P, 0 \in P, \A i \in 1 .. n : i - 1 \in P => i \in P
  PROVE  n \in P /\ \A i \in 0 .. n : i \in P
<1> DEFINE Q == {k \in Nat : k <= n => k \in P}
<1>1. 0 \in Q /\ Q \in SUBSET Nat
  OBVIOUS
<1>2. ASSUME NEW k \in Q PROVE k + 1 \in Q
  <2>1. k \in Nat /\ (k + 1 <= n => k + 1 \in 1 .. n /\ (k + 1) - 1 = k /\ k \in P)
    OBVIOUS
  <2> QED
    BY <2>1
<1>3. Q = Nat
  <2> HIDE DEF Q
  <2> QED
    BY <1>1, <1>2, Induction
<1> QED
  BY <1>3

(* What a recursion on the numbers up to n is made of, and its solutions. *)
Recursive(n, A, base, step) == n \in Nat /\ base \in A /\ step \in [(1 .. n) \X A -> A]

Solves(h, n, A, base, step) ==
  h \in [0 .. n -> A] /\ h[0] = base /\ \A i \in 1 .. n : h[i] = step[<<i, h[i - 1]>>]

(* A function can be defined by recursion on the numbers up to n. *)
LEMMA Recursion ==
  ASSUME NEW n, NEW A, NEW base, NEW step, Recursive(n, A, base, step)
  PROVE  \E h : Solves(h, n, A, base, step)
<1> USE DEF Recursive
<1> DEFINE Has(k) == \E h \in [0 .. k -> A] :
                       h[0] = base /\ \A i \in 1 .. k : h[i] = step[<<i, h[i - 1]>>]
           P == {k \in Nat : k <= n => Has(k)}
<1>1. 0 \in P
  <2> DEFINE e == [i \in 0 .. 0 |-> base]
  <2>1. e \in [0 .. 0 -> A] /\ e[0] = base /\ \A i \in 1 .. 0 : e[i] = step[<<i, e[i - 1]>>]
    OBVIOUS
  <2> HIDE DEF e
  <2>2. Has(0)
    BY <2>1
  <2> QED
    BY <2>2
<1>2. ASSUME NEW k \in P PROVE k + 1 \in P
  <2> SUFFICES ASSUME k + 1 <= n PROVE Has(k + 1)
    <3> HIDE DEF Has
    <3> QED OBVIOUS
  <2>1. k \in Nat /\ Has(k)
    <3> HIDE DEF Has
    <3> QED OBVIOUS
  <2>2. PICK h \in [0 .. k -> A] : h[0] = base /\ \A i \in 1 .. k : h[i] = step[<<i, h[i - 1]>>]
    BY <2>1
  <2> DEFINE last == step[<<k + 1, h[k]>>]
             g == [i \in 0 .. k + 1 |-> IF i = k + 1 THEN last ELSE h[i]]
  <2>3. last \in A
    <3>1. h[k] \in A /\ k + 1 \in 1 .. n
      BY <2>1, <2>2
    <3> QED
      BY <3>1
  <2> HIDE DEF last
  <2>4. \A i \in 0 .. k : g[i] = h[i] /\ i \in 0 .. k + 1
    BY <2>1
  <2>5. g[k + 1] = last
    BY <2>1
  <2>6. g \in [0 .. k + 1 -> A]
    BY <2>1, <2>2, <2>3
  <2> HIDE DEF g
  <2>7. ASSUME NEW i \in 1 .. k + 1 PROVE g[i] = step[<<i, g[i - 1]>>]
    <3>1. CASE i = k + 1
      BY <2>1, <2>4, <2>5, <3>1 DEF last
    <3>2. CASE i \in 1 .. k
      BY <2>1, <2>2, <2>4, <3>2
    <3> QED
      BY <2>1, <3>1, <3>2
  <2> QED
    <3>1. g[0] = base
      BY <2>1, <2>2, <2>4
    <3> QED
      BY <2>6, <2>7, <3>1, Zenon
<1> HIDE DEF Has
<1>3. P \subseteq Nat
  OBVIOUS
<1>4. P = Nat
  <2> HIDE DEF P
  <2> QED BY <1>1, <1>2, <1>3, Induction
<1>5. Has(n)
  BY <1>4
<1> QED
  BY <1>5, Zenon DEF Has, Solves

-----------------------------------------------------------------------------
(* Concatenation. *)

Associates(a, b, c) == (a \o b) \o c = a \o (b \o c)

(* ConcatAssociative, where the provers can use it. *)
LEMMA Associative ==
  ASSUME NEW S, NEW a \in Seq(S), NEW b \in Seq(S), NEW c \in Seq(S)
  PROVE  Associates(a, b, c)
BY ConcatAssociative DEF Associates

-----------------------------------------------------------------------------
(* FlattenSeq. *)

(* FlattenSeq is a recursion from the left. *)
LEMMA FlattenValue ==
  ASSUME NEW S, NEW s \in Seq(Seq(S))
  PROVE  \E h \in [0 .. Len(s) -> Seq(S)] :
           /\ h[0] = << >>
           /\ \A i \in 1 .. Len(s) : h[i] = h[i - 1] \o s[i]
           /\ FlattenSeq(s) = h[Len(s)]
<1> DEFINE n == Len(s)
           step == [p \in (1 .. n) \X Seq(S) |-> p[2] \o s[p[1]]]
<1>1. n \in Nat /\ (\A i \in 1 .. n : s[i] \in Seq(S)) /\ (n = 0 => s = << >>)
  OBVIOUS
<1>2. << >> \in Seq(S)
  OBVIOUS
<1> HIDE DEF n
<1>3. \A i \in 1 .. n, t \in Seq(S) : step[<<i, t>>] = t \o s[i] /\ t \o s[i] \in Seq(S)
  BY <1>1, ConcatProperties
<1>4. step \in [(1 .. n) \X Seq(S) -> Seq(S)]
  <2> SUFFICES ASSUME NEW p \in (1 .. n) \X Seq(S) PROVE p[2] \o s[p[1]] \in Seq(S)
    OBVIOUS
  <2>1. p[1] \in 1 .. n /\ p[2] \in Seq(S)
    OBVIOUS
  <2> QED
    BY <1>1, <2>1, ConcatProperties
<1> HIDE DEF step
<1>5. PICK h \in [0 .. n -> Seq(S)] :
        h[0] = << >> /\ \A i \in 1 .. n : h[i] = step[<<i, h[i - 1]>>]
  <2>1. Recursive(n, Seq(S), << >>, step)
    BY <1>1, <1>2, <1>4 DEF Recursive
  <2>2. \E h : Solves(h, n, Seq(S), << >>, step)
    BY <2>1, Recursion
  <2> QED
    BY <2>2 DEF Solves
<1>6. \A i \in 1 .. n : h[i] = h[i - 1] \o s[i]
  <2> TAKE i \in 1 .. n
  <2>1. h[i - 1] \in Seq(S)
    BY <1>1, <1>5
  <2> QED
    BY <1>3, <1>5, <2>1
<1>7. CASE n = 0
  BY <1>1, <1>5, <1>6, <1>7 DEF n, FlattenSeq
<1>8. CASE n # 0
  <2> DEFINE Is(f) == f = [i \in 1 .. n |-> IF i = 1 THEN s[i] ELSE f[i - 1] \o s[i]]
             f == CHOOSE g : Is(g)
             g0 == [i \in 1 .. n |-> h[i]]
  <2>1. Is(g0)
    <3>1. ASSUME NEW i \in 1 .. n PROVE g0[i] = IF i = 1 THEN s[i] ELSE g0[i - 1] \o s[i]
      <4>1. CASE i = 1
        <5>0. 1 \in 1 .. n /\ 1 - 1 = 0
          BY <4>1
        <5>1. s[1] \in Seq(S) /\ h[1] = << >> \o s[1]
          <6>1. h[1] = h[1 - 1] \o s[1]
            BY <1>6, <5>0, Zenon
          <6> QED
            BY <1>1, <1>5, <5>0, <6>1
        <5>2. << >> \o s[1] = s[1]
          BY <5>1, ConcatEmptySeq
        <5> QED
          BY <4>1, <5>1, <5>2
      <4>2. CASE i # 1
        <5>1. i - 1 \in 1 .. n
          BY <1>1, <4>2
        <5> QED
          BY <1>6, <4>2, <5>1
      <4> QED
        BY <4>1, <4>2
    <3>2. g0 = [i \in 1 .. n |-> g0[i]]
      OBVIOUS
    <3> HIDE DEF g0
    <3> QED
      BY <3>1, <3>2
  <2>2. Is(f)
    <3> HIDE DEF Is, g0
    <3> QED BY <2>1
  <2>3. FlattenSeq(s) = f[n]
    BY <1>8 DEF FlattenSeq, n
  <2> HIDE DEF f
  <2>4. \A i \in 1 .. n : f[i] = IF i = 1 THEN s[i] ELSE f[i - 1] \o s[i]
    BY <2>2
  <2>5. \A i \in 1 .. n : g0[i] = IF i = 1 THEN s[i] ELSE g0[i - 1] \o s[i]
    BY <2>1
  <2> HIDE DEF Is
  <2> DEFINE P == {k \in Nat : k + 1 <= n => f[k + 1] = g0[k + 1]}
  <2> HIDE DEF g0
  <2>6. 0 \in P
    BY <1>1, <2>4, <2>5
  <2>7. ASSUME NEW k \in P PROVE k + 1 \in P
    <3>1. k \in Nat /\ (k + 1 <= n => f[k + 1] = g0[k + 1])
      OBVIOUS
    <3>2. ASSUME (k + 1) + 1 <= n PROVE f[(k + 1) + 1] = g0[(k + 1) + 1]
      <4>1. (k + 1) + 1 \in 1 .. n /\ (k + 1) + 1 # 1 /\ ((k + 1) + 1) - 1 = k + 1 /\ k + 1 <= n
        BY <1>1, <3>1, <3>2
      <4> QED
        BY <2>4, <2>5, <3>1, <4>1
    <3> QED
      BY <3>1, <3>2
  <2>8. P = Nat
    <3>1. P \subseteq Nat
      OBVIOUS
    <3> HIDE DEF P
    <3> QED BY <2>6, <2>7, <3>1, Induction
  <2>9. f[n] = g0[n]
    <3>1. n - 1 \in Nat /\ (n - 1) + 1 = n
      BY <1>1, <1>8
    <3>2. n - 1 \in P
      BY <2>8, <3>1
    <3> QED
      BY <3>1, <3>2
  <2>10. g0[n] = h[n]
    BY <1>1, <1>8 DEF g0
  <2> QED
    BY <1>5, <1>6, <2>3, <2>9, <2>10 DEF n
<1> QED
  BY <1>7, <1>8

(* Flattening nothing gives nothing. *)
LEMMA FlattenEmpty == FlattenSeq(<< >>) = << >>
BY DEF FlattenSeq

(* What is flattened is a sequence, and one more sequence comes last. *)
LEMMA FlattenAppend ==
  ASSUME NEW S, NEW s \in Seq(Seq(S)), NEW x \in Seq(S)
  PROVE  /\ FlattenSeq(s) \in Seq(S)
         /\ FlattenSeq(Append(s, x)) = FlattenSeq(s) \o x
<1> DEFINE n == Len(s)
           t == Append(s, x)
<1>1. /\ n \in Nat /\ t \in Seq(Seq(S)) /\ Len(t) = n + 1
      /\ t[n + 1] = x /\ \A i \in 1 .. n : t[i] = s[i]
  BY AppendProperties
<1>2. PICK h \in [0 .. n -> Seq(S)] :
        /\ h[0] = << >>
        /\ \A i \in 1 .. n : h[i] = h[i - 1] \o s[i]
        /\ FlattenSeq(s) = h[n]
  BY FlattenValue
<1>3. PICK g \in [0 .. Len(t) -> Seq(S)] :
        /\ g[0] = << >>
        /\ \A i \in 1 .. Len(t) : g[i] = g[i - 1] \o t[i]
        /\ FlattenSeq(t) = g[Len(t)]
  <2> HIDE DEF t
  <2> QED
    BY <1>1, FlattenValue
<1> HIDE DEF n, t
<1> DEFINE P == {i \in Nat : g[i] = h[i]}
<1>4. 0 \in P
  BY <1>2, <1>3
<1>5. ASSUME NEW i \in 1 .. n, i - 1 \in P PROVE i \in P
  <2>1. g[i - 1] = h[i - 1]
    BY <1>5
  <2>2. i \in 1 .. Len(t) /\ t[i] = s[i]
    BY <1>1
  <2>3. g[i] = h[i]
    BY <1>2, <1>3, <2>1, <2>2
  <2> QED
    BY <2>3
<1>6. g[n] = h[n]
  <2>1. n \in P
    <3> HIDE DEF P
    <3> QED
      BY <1>1, <1>4, <1>5, UpTo, Zenon
  <2> QED
    BY <2>1
<1>7. FlattenSeq(t) = h[n] \o x
  <2>1. n + 1 \in 1 .. Len(t) /\ (n + 1) - 1 = n
    BY <1>1
  <2>2. g[n + 1] = g[(n + 1) - 1] \o t[n + 1]
    BY <1>3, <2>1, Zenon
  <2> QED
    BY <1>1, <1>3, <1>6, <2>1, <2>2
<1>8. FlattenSeq(s) \in Seq(S)
  BY <1>1, <1>2
<1> QED
  BY <1>2, <1>7, <1>8 DEF t

(* Flattening one sequence gives that sequence. *)
LEMMA FlattenOne ==
  ASSUME NEW S, NEW x \in Seq(S)
  PROVE  FlattenSeq(<<x>>) = x
<1>1. << >> \in Seq(Seq(S)) /\ Append(<< >>, x) = <<x>>
  OBVIOUS
<1>2. FlattenSeq(<<x>>) = << >> \o x
  BY <1>1, FlattenAppend, FlattenEmpty
<1> QED
  BY <1>2, ConcatEmptySeq

(* Flattening distributes over concatenation. *)
LEMMA FlattenConcat ==
  ASSUME NEW S, NEW s \in Seq(Seq(S)), NEW t \in Seq(Seq(S))
  PROVE  FlattenSeq(s \o t) = FlattenSeq(s) \o FlattenSeq(t)
<1> DEFINE n == Len(t)
           part(i) == SubSeq(t, 1, i)
           P == {i \in Nat : FlattenSeq(s \o part(i)) = FlattenSeq(s) \o FlattenSeq(part(i))}
<1>1. n \in Nat
  OBVIOUS
<1>2. FlattenSeq(s) \in Seq(S)
  BY FlattenAppend, EmptySeq
<1>3. 0 \in P
  <2>1. part(0) = << >>
    OBVIOUS
  <2>2. s \o << >> = s /\ FlattenSeq(s) \o << >> = FlattenSeq(s)
    BY <1>2, ConcatEmptySeq
  <2> QED
    BY <2>1, <2>2, FlattenEmpty
<1>4. ASSUME NEW i \in 1 .. n, i - 1 \in P PROVE i \in P
  <2> DEFINE u == part(i - 1)
             x == t[i]
  <2>1. u \in Seq(Seq(S)) /\ x \in Seq(S) /\ part(i) = Append(u, x)
    <3>1. x \in Seq(S)
      BY ElementOfSeq
    <3>2. \A j \in 1 .. i - 1 : t[j] \in Seq(S)
      BY ElementOfSeq
    <3>3. u \in Seq(Seq(S))
      BY <3>2, SubSeqProperties
    <3>4. part(i) = u \o <<x>>
      BY SubSeqRecursiveSecond
    <3> QED
      BY <3>1, <3>3, <3>4, AppendIsConcat
  <2>2. FlattenSeq(s \o u) = FlattenSeq(s) \o FlattenSeq(u)
    BY <1>4
  <2> HIDE DEF u, x
  <2>3. s \o Append(u, x) = Append(s \o u, x) /\ s \o u \in Seq(Seq(S))
    <3>1. <<x>> \in Seq(Seq(S)) /\ s \o u \in Seq(Seq(S))
      BY <2>1, ConcatProperties
    <3>2. (s \o u) \o <<x>> = s \o (u \o <<x>>)
      <4>1. Associates(s, u, <<x>>)
        BY <2>1, <3>1, Associative, Zenon
      <4> QED
        BY <4>1 DEF Associates
    <3> QED
      BY <2>1, <3>1, <3>2, AppendIsConcat
  <2>4. FlattenSeq(Append(s \o u, x)) = FlattenSeq(s \o u) \o x
    BY <2>1, <2>3, FlattenAppend
  <2>5. FlattenSeq(u) \in Seq(S) /\ FlattenSeq(Append(u, x)) = FlattenSeq(u) \o x
    BY <2>1, FlattenAppend
  <2>6. (FlattenSeq(s) \o FlattenSeq(u)) \o x = FlattenSeq(s) \o (FlattenSeq(u) \o x)
    <3>1. Associates(FlattenSeq(s), FlattenSeq(u), x)
      BY <1>2, <2>1, <2>5, Associative, Zenon
    <3> QED
      BY <3>1 DEF Associates
  <2>7. FlattenSeq(s \o part(i)) = FlattenSeq(s) \o FlattenSeq(part(i))
    BY <2>1, <2>2, <2>3, <2>4, <2>5, <2>6
  <2> QED
    BY <2>7
<1>5. n \in P
  <2> HIDE DEF P
  <2> QED
    BY <1>1, <1>3, <1>4, UpTo, Zenon
<1>6. part(n) = t
  BY SubSeqFull
<1> QED
  BY <1>5, <1>6

(* Flattening takes the first sequence first. *)
LEMMA FlattenHead ==
  ASSUME NEW S, NEW s \in Seq(Seq(S)), s # << >>
  PROVE  FlattenSeq(s) = Head(s) \o FlattenSeq(Tail(s))
<1>1. Head(s) \in Seq(S) /\ Tail(s) \in Seq(Seq(S)) /\ <<Head(s)>> \in Seq(Seq(S))
  BY HeadTailProperties
<1>2. s = <<Head(s)>> \o Tail(s)
  OBVIOUS
<1>3. FlattenSeq(<<Head(s)>> \o Tail(s)) = FlattenSeq(<<Head(s)>>) \o FlattenSeq(Tail(s))
  BY <1>1, FlattenConcat
<1> QED
  BY <1>1, <1>2, <1>3, FlattenOne

(* Flattening the elements of a sequence one by one gives the sequence. *)
LEMMA FlattenSingletons ==
  ASSUME NEW S, NEW b \in Seq(S)
  PROVE  FlattenSeq([i \in DOMAIN b |-> <<b[i]>>]) = b
<1> DEFINE n == Len(b)
           part(k) == [i \in 1 .. k |-> <<b[i]>>]
           P == {k \in Nat : FlattenSeq(part(k)) = SubSeq(b, 1, k)}
<1>1. n \in Nat /\ DOMAIN b = 1 .. n
  OBVIOUS
<1>2. 0 \in P
  <2>1. part(0) = << >> /\ SubSeq(b, 1, 0) = << >>
    OBVIOUS
  <2> QED
    BY <2>1, FlattenEmpty
<1>3. ASSUME NEW k \in 1 .. n, k - 1 \in P PROVE k \in P
  <2> DEFINE x == <<b[k]>>
             u == part(k - 1)
  <2>1. \A i \in 1 .. k : b[i] \in S /\ <<b[i]>> \in Seq(S)
    BY <1>1
  <2>2. u \in Seq(Seq(S)) /\ Len(u) = k - 1
    BY <2>1
  <2>3. x \in Seq(S)
    BY <2>1
  <2>4. part(k) = Append(u, x)
    BY <2>2
  <2>5. FlattenSeq(u) = SubSeq(b, 1, k - 1)
    BY <1>3
  <2> HIDE DEF u, part
  <2>6. FlattenSeq(Append(u, x)) = SubSeq(b, 1, k - 1) \o x
    BY <2>2, <2>3, <2>5, FlattenAppend
  <2>7. SubSeq(b, 1, k) = SubSeq(b, 1, k - 1) \o x
    <3>1. 1 \in 1 .. Len(b) /\ k \in 1 .. Len(b)
      BY <1>1
    <3> QED
      BY <3>1, SubSeqRecursiveSecond
  <2>8. FlattenSeq(part(k)) = SubSeq(b, 1, k)
    BY <2>4, <2>6, <2>7
  <2>9. k \in Nat
    BY <1>1
  <2> QED
    BY <2>8, <2>9
<1>4. n \in P
  <2> HIDE DEF P
  <2> QED
    BY <1>1, <1>2, <1>3, UpTo, Zenon
<1> QED
  BY <1>1, <1>4, SubSeqFull

-----------------------------------------------------------------------------
(* Encoders. *)

(* An unsigned short is a number that two bytes hold. *)
LEMMA FitsU16Type ==
  ASSUME NEW n \in Nat, FitsU16(n)
  PROVE  n \in U16
<1>1. n % M16 \in 0 .. M16 - 1
  BY DivMod, BaseType
<1> QED
  BY <1>1 DEF FitsU16, U16

(* Two bytes. *)
LEMMA Encode16Type ==
  ASSUME NEW v \in Nat
  PROVE  Encode16(v) \in Seq(Byte) /\ Len(Encode16(v)) = 2
<1> DEFINE a == v % Base
           b == (v \div Base) % Base
<1>1. v \div Base \in Nat /\ a \in Byte
  BY DivMod, BaseType, Zenon DEF Byte
<1>2. b \in Byte
  BY <1>1, DivMod, BaseType, Zenon DEF Byte
<1>3. Encode16(v) = <<a, b>>
  BY DEF Encode16
<1> HIDE DEF a, b
<1> QED
  BY <1>1, <1>2, <1>3

(* Four bytes, which are built into the value they came from. *)
LEMMA Encode32RoundTrip ==
  ASSUME NEW v \in Nat, FitsU32(v)
  PROVE  /\ Encode32(v) \in Seq(Byte) /\ Len(Encode32(v)) = 4
         /\ Build32(Encode32(v)[1], Encode32(v)[2], Encode32(v)[3], Encode32(v)[4]) = v
<1> DEFINE l == v % M16
           h == v \div M16
           e == Encode16(l)
           f == Encode16(h)
<1>1. h \in Nat /\ l \in Nat /\ l < M16 /\ v = M16 * h + l
  BY Decompose, BaseType, Zenon
<1>2. h < M16
  BY DEF FitsU32
<1>3. Encode32(v) = e \o f
  BY DEF Encode32
<1> HIDE DEF l, h
<1>4. l \in U16 /\ h \in U16
  BY <1>1, <1>2, BaseType DEF U16
<1>5. Build16(e[1], e[2]) = l /\ Build16(f[1], f[2]) = h
  BY <1>4, RoundTrip16
<1>6. e \in Seq(Byte) /\ Len(e) = 2 /\ f \in Seq(Byte) /\ Len(f) = 2
  BY <1>1, Encode16Type
<1> HIDE DEF e, f
<1>7. /\ e \o f \in Seq(Byte) /\ Len(e \o f) = 4
      /\ (e \o f)[1] = e[1] /\ (e \o f)[2] = e[2]
      /\ (e \o f)[3] = f[1] /\ (e \o f)[4] = f[2]
  <2>1. /\ e \o f \in Seq(Byte) /\ Len(e \o f) = Len(e) + Len(f)
        /\ \A i \in 1 .. Len(e) + Len(f) : (e \o f)[i] = IF i <= Len(e) THEN e[i] ELSE f[i - Len(e)]
    BY <1>6, ConcatProperties, Zenon
  <2> QED
    BY <1>6, <2>1
<1>8. Build32(e[1], e[2], f[1], f[2]) = h * M16 + l
  BY <1>5, Zenon DEF Build32
<1>9. h * M16 + l = v
  BY <1>1, BaseType
<1> QED
  BY <1>3, <1>7, <1>8, <1>9
(* What an encoder may give, and what the encoder of one value gives. *)
Encodings == [bytes : Seq(Byte), ok : BOOLEAN]

AllOrNothing(e) ==
  /\ e \in Encodings
  /\ e.ok => Len(e.bytes) >= 1
  /\ ~e.ok => e.bytes = << >>

(* One value put whole, or not at all. *)
LEMMA DoneType ==
  ASSUME NEW b \in Seq(Byte)
  PROVE  Done(b) \in Encodings /\ Done(b).ok /\ Done(b).bytes = b
                /\ (Len(b) >= 1 => AllOrNothing(Done(b)))
BY DEF Done, Encodings, AllOrNothing

LEMMA ThrownType == AllOrNothing(Thrown) /\ ~Thrown.ok /\ Thrown.bytes = << >>
BY DEF Thrown, Encodings, AllOrNothing

(* A string of bytes after its length. *)
LEMMA EncodeStringType ==
  ASSUME NEW v \in Seq(Byte)
  PROVE  /\ AllOrNothing(EncodeString(v))
         /\ Encode16(Len(v)) \o v \in Seq(Byte)
         /\ Len(Encode16(Len(v)) \o v) = Len(v) + 2
<1> DEFINE a == Encode16(Len(v))
<1>1. Len(v) \in Nat /\ a \in Seq(Byte) /\ Len(a) = 2
  BY Encode16Type
<1> HIDE DEF a
<1>2. a \o v \in Seq(Byte) /\ Len(a \o v) = Len(a) + Len(v)
  BY <1>1, ConcatProperties, Zenon
<1>3. Len(a \o v) = Len(v) + 2 /\ Len(a \o v) >= 1
  BY <1>1, <1>2
<1>4. AllOrNothing(Done(a \o v))
  BY <1>2, <1>3, DoneType
<1> QED
  BY <1>2, <1>3, <1>4, ThrownType DEF EncodeString, a

(* What each encoder is. *)
LEMMA EncodeValueIs ==
  ASSUME NEW v
  PROVE  /\ EncodeValue("u8", v) = Done(<<v>>)
         /\ EncodeValue("u16", v) = Done(Encode16(v))
         /\ EncodeValue("u32", v) = Done(Encode32(v))
         /\ EncodeValue("u64", v) = Done(Encode32(v[1]) \o Encode32(v[2]))
         /\ EncodeValue("str", v) = EncodeString(v)
BY DEF EncodeValue, Encode64

(* The bytes each encoder puts. *)
LEMMA EncodeValueBytes ==
  ASSUME NEW v
  PROVE  /\ EncodeValue("u8", v).bytes = <<v>>
         /\ EncodeValue("u16", v).bytes = Encode16(v)
         /\ EncodeValue("u32", v).bytes = Encode32(v)
         /\ EncodeValue("u64", v).bytes = Encode32(v[1]) \o Encode32(v[2])
         /\ EncodeValue("str", v).ok =>
              FitsU16(Len(v)) /\ EncodeValue("str", v).bytes = Encode16(Len(v)) \o v
<1>1. \A b : Done(b).bytes = b
  BY DEF Done
<1>2. EncodeString(v).ok => FitsU16(Len(v)) /\ EncodeString(v).bytes = Encode16(Len(v)) \o v
  BY <1>1, ThrownType, Zenon DEF EncodeString
<1> QED
  BY <1>1, <1>2, EncodeValueIs, Zenon

(* A value that fits its type is encoded as at least one byte, and an      *)
(* encode that throws has put none.                                        *)
LEMMA EncodeValueType ==
  ASSUME NEW type \in ValueTypes, NEW v, HasType(type, v)
  PROVE  AllOrNothing(EncodeValue(type, v))
<1>1. CASE type = "u8"
  <2>1. <<v>> \in Seq(Byte) /\ Len(<<v>>) >= 1
    BY <1>1 DEF HasType
  <2> QED
    BY <1>1, <2>1, DoneType, EncodeValueIs
<1>2. CASE type = "u16"
  <2>1. Encode16(v) \in Seq(Byte) /\ Len(Encode16(v)) = 2
    BY <1>2, BaseType, Encode16Type DEF HasType, U16
  <2>2. AllOrNothing(Done(Encode16(v)))
    BY <2>1, DoneType
  <2> QED
    BY <1>2, <2>2, EncodeValueIs
<1>3. CASE type = "u32"
  <2>1. Encode32(v) \in Seq(Byte) /\ Len(Encode32(v)) = 4
    BY <1>3, Encode32RoundTrip DEF HasType
  <2>2. Len(Encode32(v)) >= 1
    BY <2>1
  <2>3. AllOrNothing(Done(Encode32(v)))
    BY <2>1, <2>2, DoneType, Zenon
  <2> QED
    BY <1>3, <2>3, EncodeValueIs
<1>4. CASE type = "u64"
  <2> DEFINE a == Encode32(v[1])
             b == Encode32(v[2])
  <2>1. v[1] \in Nat /\ FitsU32(v[1]) /\ v[2] \in Nat /\ FitsU32(v[2])
    BY <1>4 DEF HasType
  <2>2. a \in Seq(Byte) /\ Len(a) = 4 /\ b \in Seq(Byte) /\ Len(b) = 4
    BY <2>1, Encode32RoundTrip
  <2>3. EncodeValue(type, v) = Done(a \o b)
    BY <1>4, EncodeValueIs
  <2> HIDE DEF a, b
  <2>4. a \o b \in Seq(Byte) /\ Len(a \o b) = Len(a) + Len(b)
    BY <2>2, ConcatProperties, Zenon
  <2>5. Len(a \o b) >= 1
    BY <2>2, <2>4
  <2> QED
    BY <2>3, <2>4, <2>5, DoneType
<1>5. CASE type = "str"
  <2>1. v \in Seq(Byte)
    BY <1>5 DEF HasType
  <2> QED
    BY <1>5, <2>1, EncodeStringType, EncodeValueIs
<1> QED
  BY <1>1, <1>2, <1>3, <1>4, <1>5 DEF ValueTypes

-----------------------------------------------------------------------------
(* Cursors. *)

Cursors == [bytes : Seq(Byte), junk : Seq(Byte) \ {<< >>}, at : Nat \ {0}]

(* The next bytes under the cursor are b. *)
Under(c, b) ==
  /\ (c.at - 1) + Len(b) <= Len(c.bytes)
  /\ \A k \in 1 .. Len(b) : c.bytes[(c.at - 1) + k] = b[k]

(* Skipping bytes leaves a cursor. *)
LEMMA SkipType ==
  ASSUME NEW c \in Cursors, NEW n \in Nat
  PROVE  /\ Skip(c, n) \in Cursors /\ Skip(c, n).at = c.at + n
         /\ Skip(c, n).bytes = c.bytes /\ Skip(c, n).junk = c.junk
BY DEF Cursors, Skip

(* Skipping adds up. *)
LEMMA SkipTwice ==
  ASSUME NEW c \in Cursors, NEW m \in Nat, NEW n \in Nat
  PROVE  Skip(Skip(c, m), n) = Skip(c, m + n) /\ Skip(c, 0) = c
<1>1. \A d, e \in Cursors : d.at = e.at /\ d.bytes = e.bytes /\ d.junk = e.junk => d = e
  BY DEF Cursors
<1>2. c.at \in Nat
  BY DEF Cursors
<1>3. Skip(c, 0) \in Cursors /\ Skip(c, 0).at = c.at + 0
      /\ Skip(c, 0).bytes = c.bytes /\ Skip(c, 0).junk = c.junk
  BY SkipType
<1>4. /\ Skip(c, m + n) \in Cursors /\ Skip(c, m + n).at = c.at + (m + n)
      /\ Skip(c, m + n).bytes = c.bytes /\ Skip(c, m + n).junk = c.junk
  BY SkipType
<1> DEFINE d == Skip(c, m)
<1>5. d \in Cursors /\ d.at = c.at + m /\ d.bytes = c.bytes /\ d.junk = c.junk
  BY SkipType
<1> HIDE DEF d
<1>6. Skip(d, n) \in Cursors /\ Skip(d, n).at = d.at + n
      /\ Skip(d, n).bytes = d.bytes /\ Skip(d, n).junk = d.junk
  BY <1>5, SkipType
<1>7. Skip(d, n) = Skip(c, m + n)
  BY <1>1, <1>2, <1>4, <1>5, <1>6
<1>8. Skip(c, 0) = c
  BY <1>1, <1>2, <1>3
<1> QED
  BY <1>7, <1>8 DEF d

(* A cursor always finds a byte, the stream's or junk. *)
LEMMA ByteAtType ==
  ASSUME NEW c \in Cursors, NEW k \in Nat
  PROVE  ByteAt(c, k) \in Byte
<1> DEFINE i == c.at + k
           n == Len(c.bytes)
           m == Len(c.junk)
<1>1. /\ i \in Nat /\ i >= 1 /\ n \in Nat /\ m \in Nat /\ m >= 1
      /\ \A j \in 1 .. n : c.bytes[j] \in Byte
      /\ \A j \in 1 .. m : c.junk[j] \in Byte
  <2>1. c.bytes \in Seq(Byte) /\ c.junk \in Seq(Byte) /\ c.junk # << >> /\ c.at \in Nat /\ c.at >= 1
    BY DEF Cursors
  <2> QED
    BY <2>1
<1>2. ByteAt(c, k) = IF i <= n THEN c.bytes[i] ELSE c.junk[((i - n - 1) % m) + 1]
  BY DEF ByteAt
<1> HIDE DEF i, n, m
<1>3. CASE i <= n
  BY <1>1, <1>2, <1>3
<1>4. CASE ~(i <= n)
  <2>1. i - n - 1 \in Nat
    BY <1>1, <1>4
  <2>2. (i - n - 1) % m \in 0 .. m - 1
    BY <1>1, <2>1, DivMod, Zenon
  <2> DEFINE r == (i - n - 1) % m
  <2>3. r \in 0 .. m - 1 /\ ByteAt(c, k) = c.junk[r + 1]
    BY <1>2, <1>4, <2>2
  <2> HIDE DEF r
  <2> QED
    BY <1>1, <2>3
<1> QED
  BY <1>3, <1>4

(* What is under the cursor is what it finds. *)
LEMMA ByteAtUnder ==
  ASSUME NEW c \in Cursors, NEW b \in Seq(Byte), Under(c, b), NEW k \in Nat, k < Len(b)
  PROVE  ByteAt(c, k) = b[k + 1]
<1>1. c.at \in Nat /\ c.at >= 1 /\ Len(c.bytes) \in Nat /\ Len(b) \in Nat
      /\ (c.at - 1) + Len(b) <= Len(c.bytes)
  BY DEF Cursors, Under
<1>2. c.at + k <= Len(c.bytes) /\ k + 1 \in 1 .. Len(b) /\ (c.at - 1) + (k + 1) = c.at + k
  BY <1>1
<1>3. c.bytes[(c.at - 1) + (k + 1)] = b[k + 1]
  BY <1>2 DEF Under
<1> QED
  BY <1>2, <1>3 DEF ByteAt

(* First one string of bytes and then, past it, another. *)
LEMMA UnderConcat ==
  ASSUME NEW c \in Cursors, NEW a \in Seq(Byte), NEW b \in Seq(Byte)
  PROVE  Under(c, a \o b) <=> Under(c, a) /\ Under(Skip(c, Len(a)), b)
<1> DEFINE d == Skip(c, Len(a))
<1>1. c.at \in Nat /\ c.at >= 1 /\ Len(c.bytes) \in Nat /\ Len(b) \in Nat /\ Len(a) \in Nat
  BY DEF Cursors
<1>2. d.at = c.at + Len(a) /\ d.bytes = c.bytes
  BY <1>1, SkipType
<1>3. /\ Len(a \o b) = Len(a) + Len(b)
      /\ \A i \in 1 .. Len(a) + Len(b) : (a \o b)[i] = IF i <= Len(a) THEN a[i] ELSE b[i - Len(a)]
  BY ConcatProperties
<1> DEFINE m == Len(a)
           n == Len(b)
           x == a \o b
           q == c.at - 1
<1>4. /\ m \in Nat /\ n \in Nat /\ q \in Nat /\ Len(x) = m + n
      /\ \A i \in 1 .. m : x[i] = a[i]
      /\ \A i \in 1 .. n : x[m + i] = b[i] /\ m + i \in 1 .. m + n
      /\ d.at - 1 = q + m
  <2>1. \A i \in 1 .. m : x[i] = a[i]
    BY <1>1, <1>3
  <2>2. \A i \in 1 .. n : x[m + i] = b[i] /\ m + i \in 1 .. m + n
    <3> TAKE i \in 1 .. n
    <3>1. m + i \in 1 .. m + n /\ ~(m + i <= m) /\ (m + i) - m = i
      BY <1>1
    <3> QED
      BY <1>3, <3>1
  <2> QED
    BY <1>1, <1>2, <1>3, <2>1, <2>2
<1> HIDE DEF m, n, x, q, d
<1>5. Under(c, x) <=> q + (m + n) <= Len(c.bytes) /\ \A k \in 1 .. m + n : c.bytes[q + k] = x[k]
  BY <1>4 DEF Under, q
<1>6. Under(c, a) <=> q + m <= Len(c.bytes) /\ \A k \in 1 .. m : c.bytes[q + k] = a[k]
  BY DEF Under, q, m
<1>7. Under(d, b) <=> (q + m) + n <= Len(c.bytes) /\ \A k \in 1 .. n : c.bytes[(q + m) + k] = b[k]
  BY <1>2, <1>4 DEF Under, n
<1>8. ASSUME Under(c, x) PROVE Under(c, a) /\ Under(d, b)
  <2>1. \A k \in 1 .. n : c.bytes[(q + m) + k] = b[k]
    <3> TAKE k \in 1 .. n
    <3>1. c.bytes[q + (m + k)] = x[m + k]
      BY <1>4, <1>5, <1>8
    <3>2. q + (m + k) = (q + m) + k
      BY <1>4
    <3> QED
      BY <1>4, <3>1, <3>2
  <2>2. \A k \in 1 .. m : c.bytes[q + k] = a[k]
    BY <1>4, <1>5, <1>8
  <2> QED
    BY <1>1, <1>4, <1>5, <1>6, <1>7, <1>8, <2>1, <2>2
<1>9. ASSUME Under(c, a), Under(d, b) PROVE Under(c, x)
  <2>1. ASSUME NEW k \in 1 .. m + n PROVE c.bytes[q + k] = x[k]
    <3>1. CASE k <= m
      BY <1>4, <1>6, <1>9, <3>1
    <3>2. CASE ~(k <= m)
      <4>1. k - m \in 1 .. n /\ m + (k - m) = k /\ (q + m) + (k - m) = q + k
        BY <1>4, <3>2
      <4>2. c.bytes[(q + m) + (k - m)] = b[k - m] /\ x[m + (k - m)] = b[k - m]
        BY <1>4, <1>7, <1>9, <4>1
      <4> QED
        BY <4>1, <4>2
    <3> QED
      BY <3>1, <3>2
  <2> QED
    BY <1>1, <1>4, <1>5, <1>7, <1>9, <2>1
<1> QED
  BY <1>8, <1>9 DEF x, d, m
-----------------------------------------------------------------------------
(* Decoders. *)

(* What each decoder is. *)
LEMMA DecodeValueIs ==
  ASSUME NEW c, NEW old, NEW order
  PROVE  /\ DecodeValue("u8", c, old, order) = [v |-> ByteAt(c, 0), c |-> Skip(c, 1)]
         /\ DecodeValue("u16", c, old, order) = [v |-> U16At(c), c |-> Skip(c, 2)]
         /\ DecodeValue("u32", c, old, order) = [v |-> U32At(c), c |-> Skip(c, 4)]
         /\ DecodeValue("u64", c, old, order) = [v |-> U64At(c, order), c |-> Skip(c, 8)]
         /\ DecodeValue("str", c, old, order) = [v |-> StringAt(c, old), c |-> Skip(c, 2 + U16At(c))]
BY DEF DecodeValue

(* Whatever is under the cursor, two bytes are a number. *)
LEMMA U16AtType ==
  ASSUME NEW c \in Cursors
  PROVE  U16At(c) \in Nat
<1> DEFINE a == ByteAt(c, 0)
           b == ByteAt(c, 1)
<1>1. a \in Byte /\ b \in Byte
  BY ByteAtType
<1>2. U16At(c) = b * Base + a
  BY DEF U16At, Build16
<1> HIDE DEF a, b
<1> QED
  BY <1>1, <1>2, BaseType DEF Byte

(* Whatever is under the cursor, a decoder takes at least one byte. *)
LEMMA DecodeValueTakes ==
  ASSUME NEW type \in ValueTypes, NEW c \in Cursors, NEW old, NEW order
  PROVE  \E n \in Nat : n >= 1 /\ DecodeValue(type, c, old, order).c = Skip(c, n)
<1> DEFINE n == CASE type = "u8" -> 1 [] type = "u16" -> 2 [] type = "u32" -> 4
                  [] type = "u64" -> 8 [] type = "str" -> 2 + U16At(c)
<1>1. n \in Nat /\ n >= 1
  BY U16AtType DEF ValueTypes
<1>2. DecodeValue(type, c, old, order).c = Skip(c, n)
  BY DecodeValueIs DEF ValueTypes
<1> HIDE DEF n
<1> QED
  BY <1>1, <1>2

(* The bytes of a uint16_t are decoded as that number. *)
LEMMA U16Back ==
  ASSUME NEW c \in Cursors, NEW v \in U16, Under(c, Encode16(v))
  PROVE  U16At(c) = v
<1> DEFINE b == Encode16(v)
<1>1. v \in Nat
  BY BaseType DEF U16
<1>2. b \in Seq(Byte) /\ Len(b) = 2
  BY <1>1, Encode16Type
<1>3. Build16(b[1], b[2]) = v
  BY RoundTrip16
<1>4. Under(c, b)
  OBVIOUS
<1> HIDE DEF b
<1>5. ByteAt(c, 0) = b[0 + 1] /\ ByteAt(c, 1) = b[1 + 1]
  BY <1>2, <1>4, ByteAtUnder
<1> QED
  BY <1>3, <1>5 DEF U16At

(* The bytes of a uint32_t are decoded as that number. *)
LEMMA U32Back ==
  ASSUME NEW c \in Cursors, NEW v \in Nat, FitsU32(v), Under(c, Encode32(v))
  PROVE  U32At(c) = v
<1> DEFINE b == Encode32(v)
<1>1. b \in Seq(Byte) /\ Len(b) = 4 /\ Build32(b[1], b[2], b[3], b[4]) = v
  BY Encode32RoundTrip
<1>2. Under(c, b)
  OBVIOUS
<1> HIDE DEF b
<1>3. /\ ByteAt(c, 0) = b[1] /\ ByteAt(c, 1) = b[2]
      /\ ByteAt(c, 2) = b[3] /\ ByteAt(c, 3) = b[4]
  <2>1. 0 < Len(b) /\ 1 < Len(b) /\ 2 < Len(b) /\ 3 < Len(b)
    BY <1>1
  <2>2. b \in Seq(Byte)
    BY <1>1
  <2>3. ByteAt(c, 0) = b[0 + 1]
    BY <1>2, <2>1, <2>2, ByteAtUnder
  <2>4. ByteAt(c, 1) = b[1 + 1]
    BY <1>2, <2>1, <2>2, ByteAtUnder
  <2>5. ByteAt(c, 2) = b[2 + 1]
    BY <1>2, <2>1, <2>2, ByteAtUnder
  <2>6. ByteAt(c, 3) = b[3 + 1]
    BY <1>2, <2>1, <2>2, ByteAtUnder
  <2> QED
    BY <2>3, <2>4, <2>5, <2>6
<1> QED
  BY <1>1, <1>3 DEF U32At

(* The bytes of a uint64_t are decoded as its two halves. *)
LEMMA U64Back ==
  ASSUME NEW c \in Cursors, NEW l \in Nat, FitsU32(l), NEW h \in Nat, FitsU32(h), NEW order,
         Under(c, Encode32(l) \o Encode32(h))
  PROVE  /\ U64At(c, order) \in {<<l, h>>, <<h, l>>}
         /\ Len(Encode32(l) \o Encode32(h)) = 8
<1> DEFINE x == Encode32(l)
           y == Encode32(h)
<1>1. x \in Seq(Byte) /\ Len(x) = 4 /\ y \in Seq(Byte) /\ Len(y) = 4
  BY Encode32RoundTrip
<1>2. Under(c, x \o y)
  OBVIOUS
<1> HIDE DEF x, y
<1>3. Under(c, x) /\ Under(Skip(c, Len(x)), y)
  BY <1>1, <1>2, UnderConcat
<1>4. Under(Skip(c, 4), y) /\ Skip(c, 4) \in Cursors
  BY <1>1, <1>3, SkipType
<1>5. U32At(c) = l
  BY <1>3, U32Back DEF x
<1>6. U32At(Skip(c, 4)) = h
  BY <1>4, U32Back DEF y
<1>7. Len(x \o y) = Len(x) + Len(y)
  BY <1>1, ConcatProperties
<1>8. Len(x \o y) = 8
  BY <1>1, <1>7
<1> QED
  BY <1>5, <1>6, <1>8 DEF U64At, x, y

(* The bytes of a string begin with its length. *)
LEMMA StringBack ==
  ASSUME NEW c \in Cursors, NEW v \in Seq(Byte), FitsU16(Len(v)), Under(c, Encode16(Len(v)) \o v)
  PROVE  U16At(c) = Len(v) /\ Len(Encode16(Len(v)) \o v) = 2 + U16At(c)
<1> DEFINE x == Encode16(Len(v))
<1>1. Len(v) \in U16 /\ x \in Seq(Byte)
  BY FitsU16Type, Encode16Type
<1>2. Under(c, x \o v)
  OBVIOUS
<1>3. Under(c, x)
  <2> HIDE DEF x
  <2> QED
    BY <1>1, <1>2, UnderConcat
<1>4. U16At(c) = Len(v)
  BY <1>1, <1>3, U16Back
<1>5. Len(x \o v) = Len(v) + 2
  BY EncodeStringType
<1> QED
  BY <1>4, <1>5

(* A decoded value agrees with the one encoded: an integer is the same, of *)
(* a uint64_t the halves may have changed places, and a string is open.    *)
Agrees(type, got, v) ==
  /\ type \in {"u8", "u16", "u32"} => got = v
  /\ type = "u64" => got \in {v, <<v[2], v[1]>>}

Takes(type, v, c, old, order) ==
  /\ DecodeValue(type, c, old, order).c = Skip(c, Len(EncodeValue(type, v).bytes))
  /\ Agrees(type, DecodeValue(type, c, old, order).v, v)

(* A decoder that skips as much as was put, and gives a value that agrees. *)
LEMMA TakesIs ==
  ASSUME NEW type, NEW v, NEW c, NEW old, NEW order, NEW got, NEW n,
         DecodeValue(type, c, old, order) = [v |-> got, c |-> Skip(c, n)],
         Len(EncodeValue(type, v).bytes) = n, Agrees(type, got, v)
  PROVE  Takes(type, v, c, old, order)
BY DEF Takes

(* The same for each type. *)
LEMMA Takes8 ==
  ASSUME NEW v \in Byte, NEW c \in Cursors, NEW old, NEW order,
         Under(c, EncodeValue("u8", v).bytes)
  PROVE  Takes("u8", v, c, old, order)
<1>1. EncodeValue("u8", v).bytes = <<v>>
  BY EncodeValueBytes
<1>2. DecodeValue("u8", c, old, order) = [v |-> ByteAt(c, 0), c |-> Skip(c, 1)]
  BY DecodeValueIs
<1>3. ByteAt(c, 0) = v
  <2> DEFINE b == <<v>>
  <2>1. b \in Seq(Byte) /\ Len(b) = 1 /\ b[1] = v /\ Under(c, b)
    BY <1>1
  <2> HIDE DEF b
  <2>2. b \in Seq(Byte) /\ 0 < Len(b) /\ Under(c, b)
    BY <2>1
  <2>3. ByteAt(c, 0) = b[0 + 1]
    BY <2>2, ByteAtUnder
  <2> QED
    BY <2>1, <2>3
<1>4. Len(<<v>>) = 1 /\ Agrees("u8", v, v)
  BY DEF Agrees
<1> QED
  BY <1>1, <1>2, <1>3, <1>4, TakesIs

LEMMA Takes16 ==
  ASSUME NEW v \in U16, NEW c \in Cursors, NEW old, NEW order,
         Under(c, EncodeValue("u16", v).bytes)
  PROVE  Takes("u16", v, c, old, order)
<1>1. EncodeValue("u16", v).bytes = Encode16(v)
  BY EncodeValueBytes
<1>2. DecodeValue("u16", c, old, order) = [v |-> U16At(c), c |-> Skip(c, 2)]
  BY DecodeValueIs
<1>3. U16At(c) = v
  BY <1>1, U16Back
<1>4. Len(Encode16(v)) = 2
  BY Encode16Type, BaseType DEF U16
<1>5. Agrees("u16", v, v)
  BY DEF Agrees
<1> QED
  BY <1>1, <1>2, <1>3, <1>4, <1>5, TakesIs

LEMMA Takes32 ==
  ASSUME NEW v \in Nat, FitsU32(v), NEW c \in Cursors, NEW old, NEW order,
         Under(c, EncodeValue("u32", v).bytes)
  PROVE  Takes("u32", v, c, old, order)
<1>1. EncodeValue("u32", v).bytes = Encode32(v)
  BY EncodeValueBytes
<1>2. DecodeValue("u32", c, old, order) = [v |-> U32At(c), c |-> Skip(c, 4)]
  BY DecodeValueIs
<1>3. U32At(c) = v
  BY <1>1, U32Back
<1>4. Len(Encode32(v)) = 4
  BY Encode32RoundTrip
<1>5. Agrees("u32", v, v)
  BY DEF Agrees
<1> QED
  BY <1>1, <1>2, <1>3, <1>4, <1>5, TakesIs

LEMMA Takes64 ==
  ASSUME NEW v \in Nat \X Nat, FitsU32(v[1]), FitsU32(v[2]), NEW c \in Cursors, NEW old, NEW order,
         Under(c, EncodeValue("u64", v).bytes)
  PROVE  Takes("u64", v, c, old, order)
<1>1. EncodeValue("u64", v).bytes = Encode32(v[1]) \o Encode32(v[2])
  BY EncodeValueBytes
<1>2. DecodeValue("u64", c, old, order) = [v |-> U64At(c, order), c |-> Skip(c, 8)]
  BY DecodeValueIs
<1>3. v[1] \in Nat /\ v[2] \in Nat /\ v = <<v[1], v[2]>>
  OBVIOUS
<1>4. /\ U64At(c, order) \in {<<v[1], v[2]>>, <<v[2], v[1]>>}
      /\ Len(Encode32(v[1]) \o Encode32(v[2])) = 8
  BY <1>1, <1>3, U64Back
<1> QED
  BY <1>1, <1>2, <1>3, <1>4 DEF Takes, Agrees

LEMMA TakesString ==
  ASSUME NEW v \in Seq(Byte), NEW c \in Cursors, NEW old, NEW order,
         EncodeValue("str", v).ok, Under(c, EncodeValue("str", v).bytes)
  PROVE  Takes("str", v, c, old, order)
<1>1. FitsU16(Len(v)) /\ EncodeValue("str", v).bytes = Encode16(Len(v)) \o v
  BY EncodeValueBytes
<1>2. DecodeValue("str", c, old, order) = [v |-> StringAt(c, old), c |-> Skip(c, 2 + U16At(c))]
  BY DecodeValueIs
<1>3. Len(Encode16(Len(v)) \o v) = 2 + U16At(c)
  BY <1>1, StringBack
<1> QED
  BY <1>1, <1>2, <1>3 DEF Takes, Agrees

(* decode() takes exactly the bytes encode() put, and gives the value.     *)
THEOREM DecodeTakesEncoded ==
  ASSUME NEW type \in ValueTypes, NEW v, HasType(type, v), EncodeValue(type, v).ok,
         NEW c \in Cursors, Under(c, EncodeValue(type, v).bytes), NEW old, NEW order
  PROVE  Takes(type, v, c, old, order)
<1>1. CASE type = "u8"
  BY <1>1, Takes8 DEF HasType
<1>2. CASE type = "u16"
  BY <1>2, Takes16 DEF HasType
<1>3. CASE type = "u32"
  BY <1>3, Takes32 DEF HasType
<1>4. CASE type = "u64"
  BY <1>4, Takes64 DEF HasType
<1>5. CASE type = "str"
  BY <1>5, TakesString DEF HasType
<1> QED
  BY <1>1, <1>2, <1>3, <1>4, <1>5 DEF ValueTypes
-----------------------------------------------------------------------------
(* The stringstream. *)

Streams == [buf : Seq(Byte), g : Nat, p : Nat, good : BOOLEAN]

(* A stream with both positions inside its buffer. *)
Proper(s) == s \in Streams /\ s.g <= Len(s.buf) /\ s.p <= Len(s.buf)

(* The part of a sequence after its first k elements. *)
LEMMA RestType ==
  ASSUME NEW S, NEW s \in Seq(S), NEW k \in 0 .. Len(s)
  PROVE  /\ SubSeq(s, k + 1, Len(s)) \in Seq(S)
         /\ Len(SubSeq(s, k + 1, Len(s))) = Len(s) - k
         /\ \A i \in 1 .. Len(s) - k : SubSeq(s, k + 1, Len(s))[i] = s[k + i]
<1> DEFINE n == Len(s)
<1>1. n \in Nat /\ k + 1 \in Int /\ n \in Int /\ (\A i \in k + 1 .. n : s[i] \in S)
  OBVIOUS
<1> HIDE DEF n
<1>2. /\ SubSeq(s, k + 1, n) \in Seq(S)
      /\ Len(SubSeq(s, k + 1, n)) = IF k + 1 <= n THEN n - (k + 1) + 1 ELSE 0
      /\ \A i \in 1 .. n - (k + 1) + 1 : SubSeq(s, k + 1, n)[i] = s[(k + 1) + i - 1]
  BY <1>1, SubSeqProperties
<1>3. k \in 0 .. n
  BY DEF n
<1>4. n - (k + 1) + 1 = n - k /\ (~(k + 1 <= n) => n - k = 0)
  BY <1>1, <1>3
<1>5. \A i \in 1 .. n - k : (k + 1) + i - 1 = k + i
  BY <1>1, <1>3
<1> QED
  BY <1>2, <1>4, <1>5 DEF n

(* The first k elements of a sequence. *)
LEMMA FrontType ==
  ASSUME NEW S, NEW s \in Seq(S), NEW k \in 0 .. Len(s)
  PROVE  /\ SubSeq(s, 1, k) \in Seq(S)
         /\ Len(SubSeq(s, 1, k)) = k
         /\ \A i \in 1 .. k : SubSeq(s, 1, k)[i] = s[i]
<1> DEFINE n == Len(s)
<1>1. n \in Nat /\ 1 \in Int /\ k \in Int /\ k >= 0 /\ (\A i \in 1 .. k : s[i] \in S)
  OBVIOUS
<1>2. /\ SubSeq(s, 1, k) \in Seq(S)
      /\ Len(SubSeq(s, 1, k)) = IF 1 <= k THEN k - 1 + 1 ELSE 0
      /\ \A i \in 1 .. k - 1 + 1 : SubSeq(s, 1, k)[i] = s[1 + i - 1]
  BY <1>1, SubSeqProperties
<1>3. k - 1 + 1 = k /\ (~(1 <= k) => k = 0) /\ \A i \in 1 .. k : 1 + i - 1 = i
  BY <1>1
<1> QED
  BY <1>2, <1>3

(* Behind a first part comes the second. *)
LEMMA RestOfConcat ==
  ASSUME NEW S, NEW x \in Seq(S), NEW y \in Seq(S)
  PROVE  /\ SubSeq(x \o y, Len(x) + 1, Len(x \o y)) = y
         /\ Len(x) \in 0 .. Len(x \o y)
<1> DEFINE s == x \o y
           m == Len(x)
           n == Len(y)
           r == SubSeq(s, m + 1, Len(s))
<1>1. /\ s \in Seq(S) /\ m \in Nat /\ n \in Nat /\ Len(s) = m + n
      /\ \A i \in 1 .. m + n : s[i] = IF i <= m THEN x[i] ELSE y[i - m]
  BY ConcatProperties
<1>2. \A i \in 1 .. n : s[m + i] = y[i]
  <2> TAKE i \in 1 .. n
  <2>1. m + i \in 1 .. m + n /\ ~(m + i <= m) /\ (m + i) - m = i
    BY <1>1
  <2> QED
    BY <1>1, <2>1
<1> HIDE DEF s, m
<1>3. m \in 0 .. Len(s) /\ Len(s) - m = n
  BY <1>1
<1>4. r \in Seq(S) /\ Len(r) = Len(s) - m /\ \A i \in 1 .. Len(s) - m : r[i] = s[m + i]
  BY <1>1, <1>3, RestType
<1> HIDE DEF r
<1>5. r = y
  <2>1. Len(r) = Len(y) /\ \A i \in 1 .. Len(r) : r[i] = y[i]
    BY <1>2, <1>3, <1>4
  <2> QED
    BY <1>4, <2>1, SeqEqual
<1> QED
  BY <1>3, <1>5 DEF r, s, m

(* What can be read. *)
LEMMA UnreadType ==
  ASSUME NEW s, Proper(s)
  PROVE  /\ Unread(s) \in Seq(Byte)
         /\ s.good => Len(Unread(s)) = Len(s.buf) - s.g
         /\ ~s.good => Unread(s) = << >> /\ Len(Unread(s)) = 0
         /\ s.g + Len(Unread(s)) <= Len(s.buf)
<1>1. s.buf \in Seq(Byte) /\ s.g \in 0 .. Len(s.buf) /\ Len(s.buf) \in Nat
  BY DEF Proper, Streams
<1>2. /\ SubSeq(s.buf, s.g + 1, Len(s.buf)) \in Seq(Byte)
      /\ Len(SubSeq(s.buf, s.g + 1, Len(s.buf))) = Len(s.buf) - s.g
  BY <1>1, RestType
<1>3. CASE s.good
  <2>1. Unread(s) = SubSeq(s.buf, s.g + 1, Len(s.buf))
    BY <1>3 DEF Unread
  <2> HIDE DEF Unread
  <2>2. Unread(s) \in Seq(Byte) /\ Len(Unread(s)) = Len(s.buf) - s.g
    BY <1>2, <2>1
  <2> QED
    BY <1>1, <1>3, <2>2
<1>4. CASE ~s.good
  <2>1. Unread(s) = << >>
    BY <1>4 DEF Unread
  <2> QED
    BY <1>1, <1>4, <2>1
<1> QED
  BY <1>3, <1>4

(* Taking bytes from a proper stream leaves a proper stream; taking no     *)
(* more than there is leaves the rest to read, taking more kills it.       *)
LEMMA TakeType ==
  ASSUME NEW s, Proper(s), NEW n \in Nat
  PROVE  /\ Proper(Take(s, n)) /\ Take(s, n).buf = s.buf
         /\ Take(s, n).good <=> s.good /\ n <= Len(Unread(s))
         /\ n > Len(Unread(s)) => Unread(Take(s, n)) = << >>
         /\ ~s.good /\ n >= 1 => Take(s, n) = s
         /\ n <= Len(Unread(s)) /\ s.good =>
              Unread(Take(s, n)) = SubSeq(Unread(s), n + 1, Len(Unread(s)))
<1> DEFINE m == Len(Unread(s))
           t == Take(s, n)
<1>1. /\ s \in Streams /\ s.buf \in Seq(Byte) /\ Len(s.buf) \in Nat /\ s.g \in Nat
      /\ s.g <= Len(s.buf) /\ s.p <= Len(s.buf) /\ s.good \in BOOLEAN
  BY DEF Proper, Streams
<1>2. /\ Unread(s) \in Seq(Byte) /\ m \in Nat /\ s.g + m <= Len(s.buf)
      /\ (s.good => m = Len(s.buf) - s.g) /\ (~s.good => m = 0)
  BY UnreadType
<1>3. CASE n <= m
  <2>1. t = [s EXCEPT !.g = s.g + n]
    BY <1>3 DEF Take
  <2> HIDE DEF m
  <2>2. s.g + n \in Nat /\ s.g + n <= Len(s.buf)
    BY <1>1, <1>2, <1>3
  <2>3. t \in Streams /\ t.g = s.g + n /\ t.buf = s.buf /\ t.p = s.p /\ t.good = s.good
    BY <1>1, <2>1, <2>2 DEF Streams
  <2> HIDE DEF t
  <2>4. Proper(t)
    BY <1>1, <2>2, <2>3 DEF Proper
  <2>5. ASSUME s.good
        PROVE  Unread(t) = SubSeq(Unread(s), n + 1, Len(Unread(s)))
    <3> DEFINE u == Unread(s)
               v == Unread(t)
               w == SubSeq(u, n + 1, Len(u))
               b == s.buf
    <3>1. /\ v = SubSeq(b, (s.g + n) + 1, Len(b))
          /\ u = SubSeq(b, s.g + 1, Len(b))
      BY <2>3, <2>5 DEF Unread
    <3>2. s.g \in 0 .. Len(b) /\ s.g + n \in 0 .. Len(b) /\ n \in 0 .. Len(u)
      BY <1>1, <1>2, <1>3, <2>2 DEF m
    <3> HIDE DEF u, b
    <3>3. b \in Seq(Byte)
      BY <1>1 DEF b
    <3>4. /\ u \in Seq(Byte) /\ Len(u) = Len(b) - s.g
          /\ \A i \in 1 .. Len(b) - s.g : u[i] = b[s.g + i]
      BY <3>1, <3>2, <3>3, RestType
    <3>5. /\ v \in Seq(Byte) /\ Len(v) = Len(b) - (s.g + n)
          /\ \A i \in 1 .. Len(b) - (s.g + n) : v[i] = b[(s.g + n) + i]
      BY <3>1, <3>2, <3>3, RestType
    <3>6. /\ w \in Seq(Byte) /\ Len(w) = Len(u) - n
          /\ \A i \in 1 .. Len(u) - n : w[i] = u[n + i]
      BY <3>2, <3>4, RestType
    <3> HIDE DEF v, w
    <3>7. Len(b) \in Nat /\ Len(v) = Len(w)
      BY <1>1, <3>3, <3>4, <3>5, <3>6
    <3>8. ASSUME NEW i \in 1 .. Len(v) PROVE v[i] = w[i]
      <4>1. i \in 1 .. Len(b) - (s.g + n) /\ i \in 1 .. Len(u) - n
        BY <1>1, <3>4, <3>5, <3>7, <3>8
      <4>2. n + i \in 1 .. Len(b) - s.g /\ s.g + (n + i) = (s.g + n) + i
        BY <1>1, <3>7, <4>1
      <4> QED
        BY <3>4, <3>5, <3>6, <4>1, <4>2
    <3>9. v = w
      BY <3>5, <3>6, <3>7, <3>8, SeqEqual
    <3> QED
      BY <3>9 DEF v, w, u
  <2>6. ~(n > m)
    BY <1>2, <1>3
  <2>7. ASSUME ~s.good, n >= 1 PROVE FALSE
    BY <1>2, <1>3, <2>7
  <2> QED
    BY <1>3, <2>3, <2>4, <2>5, <2>6, <2>7 DEF m, t
<1>4. CASE ~(n <= m)
  <2>1. t = [s EXCEPT !.g = s.g + m, !.good = FALSE]
    BY <1>4 DEF Take
  <2> HIDE DEF m
  <2>2. s.g + m \in Nat
    BY <1>1, <1>2
  <2>3. t \in Streams /\ t.g = s.g + m /\ t.buf = s.buf /\ t.p = s.p /\ t.good = FALSE
    BY <1>1, <2>1, <2>2 DEF Streams
  <2>4. ASSUME ~s.good PROVE t = s
    <3>1. t.g = s.g /\ t.good = s.good
      <4> HIDE DEF t
      <4>1. m = 0
        BY <1>2, <2>4
      <4>2. t.g = s.g
        BY <1>1, <2>3, <4>1
      <4>3. t.good = s.good
        BY <1>1, <2>3, <2>4, Zenon
      <4> QED
        BY <4>2, <4>3
    <3> QED
      BY <1>1, <2>3, <3>1 DEF Streams
  <2> HIDE DEF t
  <2>5. Proper(t)
    BY <1>1, <1>2, <2>3 DEF Proper
  <2>6. Unread(t) = << >>
    BY <2>3 DEF Unread
  <2> QED
    BY <1>4, <2>3, <2>4, <2>5, <2>6 DEF m, t
<1> QED
  BY <1>3, <1>4

(* Putting bytes on a proper stream leaves a proper stream that is as good *)
(* as it was, with the same get position.                                  *)
LEMMA PutType ==
  ASSUME NEW s, Proper(s), NEW b \in Seq(Byte)
  PROVE  /\ Proper(Put(s, b)) /\ Put(s, b).good = s.good /\ Put(s, b).g = s.g
         /\ Len(Put(s, b).buf) <= Len(s.buf) + Len(b)
         /\ ~s.good => Put(s, b) = s
<1>1. /\ s \in Streams /\ s.buf \in Seq(Byte) /\ Len(s.buf) \in Nat /\ s.g \in Nat /\ s.p \in Nat
      /\ s.g <= Len(s.buf) /\ s.p <= Len(s.buf) /\ s.good \in BOOLEAN
  BY DEF Proper, Streams
<1>2. CASE ~s.good
  <2>1. Put(s, b) = s
    BY <1>2 DEF Put
  <2>2. Len(b) \in Nat /\ Len(s.buf) <= Len(s.buf) + Len(b)
    BY <1>1
  <2> QED
    BY <2>1, <2>2
<1>3. CASE s.good
  <2> DEFINE n == Len(s.buf)
             q == s.p + Len(b)
             x == SubSeq(s.buf, 1, s.p)
             y == SubSeq(s.buf, q + 1, n)
             z == (x \o b) \o y
             t == Put(s, b)
  <2>1. t = [s EXCEPT !.buf = z, !.p = q]
    BY <1>3 DEF Put
  <2>2. q \in Nat /\ Len(b) \in Nat /\ q = s.p + Len(b)
    BY <1>1
  <2>3. x \in Seq(Byte) /\ Len(x) = s.p
    <3>1. s.p \in 0 .. Len(s.buf)
      BY <1>1
    <3> QED
      BY <1>1, <3>1, FrontType
  <2> HIDE DEF q
  <2>4. y \in Seq(Byte) /\ Len(y) = IF q + 1 <= n THEN n - (q + 1) + 1 ELSE 0
    <3>1. q + 1 \in Int /\ n \in Int /\ \A i \in q + 1 .. n : s.buf[i] \in Byte
      BY <1>1, <2>2
    <3> QED
      BY <3>1, SubSeqProperties
  <2> HIDE DEF x, y, t
  <2>5. z \in Seq(Byte) /\ Len(z) = (Len(x) + Len(b)) + Len(y)
    <3>1. x \o b \in Seq(Byte) /\ Len(x \o b) = Len(x) + Len(b)
      BY <2>3, ConcatProperties
    <3>2. y \in Seq(Byte)
      BY <2>4
    <3> DEFINE w == x \o b
    <3> HIDE DEF w
    <3>3. w \in Seq(Byte) /\ Len(w) = Len(x) + Len(b)
      BY <3>1 DEF w
    <3>4. w \o y \in Seq(Byte) /\ Len(w \o y) = Len(w) + Len(y)
      BY <3>2, <3>3, ConcatProperties
    <3> QED
      BY <3>3, <3>4 DEF w
  <2> HIDE DEF z
  <2>6. n <= Len(z) /\ q <= Len(z) /\ Len(z) <= n + Len(b)
    <3>1. n \in Nat
      BY <1>1
    <3> HIDE DEF n
    <3>2. Len(y) \in Nat /\ Len(y) = IF q + 1 <= n THEN n - (q + 1) + 1 ELSE 0
      BY <2>4
    <3>3. Len(z) = q + Len(y)
      BY <2>2, <2>3, <2>5
    <3>4. \A l \in Nat, k \in Nat, j \in Nat :
            l = (IF j + 1 <= k THEN k - (j + 1) + 1 ELSE 0) => k <= j + l /\ j <= j + l
      OBVIOUS
    <3>5. n <= Len(z) /\ q <= Len(z)
      BY <2>2, <3>1, <3>2, <3>3, <3>4, Zenon
    <3>6. s.p <= n
      BY <1>1 DEF n
    <3>7. Len(z) <= n + Len(b)
      BY <1>1, <2>2, <3>1, <3>2, <3>3, <3>6
    <3> QED
      BY <3>5, <3>7
  <2> HIDE DEF n
  <2>7. t \in Streams /\ t.buf = z /\ t.p = q /\ t.g = s.g /\ t.good = s.good
    BY <1>1, <2>1, <2>2, <2>5 DEF Streams
  <2>8. s.g <= Len(z)
    <3>1. n \in Nat /\ s.g <= n
      BY <1>1 DEF n
    <3>2. Len(z) \in Nat
      BY <2>5
    <3> QED
      BY <1>1, <2>6, <3>1, <3>2
  <2> QED
    BY <1>3, <2>6, <2>7, <2>8 DEF Proper, t, n
<1> QED
  BY <1>2, <1>3

(* Putting nothing changes nothing. *)
LEMMA PutNothing ==
  ASSUME NEW s, Proper(s)
  PROVE  Put(s, << >>) = s
<1> SUFFICES ASSUME s.good PROVE Put(s, << >>) = s
  BY DEF Put
<1>1. /\ s \in Streams /\ s.buf \in Seq(Byte) /\ Len(s.buf) \in Nat /\ s.p \in Nat
      /\ s.p <= Len(s.buf)
  BY DEF Proper, Streams
<1> DEFINE n == Len(s.buf)
           x == SubSeq(s.buf, 1, s.p)
           y == SubSeq(s.buf, s.p + 1, n)
<1>2. Put(s, << >>) = [s EXCEPT !.buf = (x \o << >>) \o y, !.p = s.p]
  <2>1. Len(<< >>) = 0 /\ s.p + 0 = s.p
    BY <1>1
  <2> QED
    BY <2>1 DEF Put
<1>3. x \in Seq(Byte)
  <2>1. s.p \in 0 .. Len(s.buf)
    BY <1>1
  <2> QED
    BY <1>1, <2>1, FrontType
<1>4. x \o << >> = x
  <2> HIDE DEF x
  <2> QED
    BY <1>3, ConcatEmptySeq
<1>5. x \o y = SubSeq(s.buf, 1, n)
  <2>1. 1 \in 1 .. n + 1 /\ s.p \in 1 - 1 .. n /\ n \in s.p .. n
    BY <1>1
  <2> QED
    BY <1>1, <2>1, ConcatAdjacentSubSeq
<1>6. SubSeq(s.buf, 1, n) = s.buf
  BY <1>1, SubSeqFull
<1> HIDE DEF x, y, n
<1> QED
  BY <1>1, <1>2, <1>4, <1>5, <1>6 DEF Streams

(* Bytes put at the end of the buffer are the last that can be read. *)
LEMMA PutAppends ==
  ASSUME NEW s, Proper(s), s.good, s.p = Len(s.buf), NEW b \in Seq(Byte)
  PROVE  /\ Unread(Put(s, b)) = Unread(s) \o b /\ Put(s, b).p = Len(Put(s, b).buf)
         /\ Put(s, b).buf = s.buf \o b
<1> DEFINE a == s.buf
           t == Put(s, b)
           u == Unread(s)
           v == Unread(t)
           n == Len(a)
           m == Len(b)
<1>1. /\ s \in Streams /\ a \in Seq(Byte) /\ n \in Nat /\ s.g \in Nat /\ m \in Nat
      /\ s.p = n /\ s.g <= n
  BY DEF Proper, Streams
<1>2. t = [s EXCEPT !.buf = (SubSeq(a, 1, n) \o b) \o SubSeq(a, n + m + 1, n), !.p = n + m]
  BY DEF Put
<1>3. SubSeq(a, 1, n) = a
  BY <1>1, SubSeqFull
<1>4. SubSeq(a, n + m + 1, n) = << >>
  BY <1>1, SubSeqEmpty
<1> HIDE DEF a, n, t
<1>5. /\ a \o b \in Seq(Byte) /\ Len(a \o b) = n + m
      /\ \A i \in 1 .. n + m : (a \o b)[i] = IF i <= n THEN a[i] ELSE b[i - n]
  BY <1>1, ConcatProperties DEF n
<1> DEFINE c == a \o b
<1>6. c \o << >> = c
  BY <1>5, ConcatEmptySeq
<1>7. t.buf = c /\ t.p = n + m /\ t.g = s.g /\ t.good
  <2> HIDE DEF c
  <2>1. t = [s EXCEPT !.buf = c, !.p = n + m]
    BY <1>2, <1>3, <1>4, <1>6 DEF c
  <2> QED
    BY <1>1, <2>1 DEF Streams
<1>8. u = SubSeq(a, s.g + 1, n) /\ v = SubSeq(c, s.g + 1, Len(c))
  BY <1>7 DEF Unread, a, n
<1> HIDE DEF u, v
<1>9. s.g \in 0 .. n /\ s.g \in 0 .. Len(c)
  BY <1>1, <1>5
<1>10. u \in Seq(Byte) /\ Len(u) = n - s.g /\ \A i \in 1 .. n - s.g : u[i] = a[s.g + i]
  BY <1>1, <1>8, <1>9, RestType DEF n
<1>11. /\ v \in Seq(Byte) /\ Len(v) = Len(c) - s.g
       /\ \A i \in 1 .. Len(c) - s.g : v[i] = c[s.g + i]
  BY <1>5, <1>8, <1>9, RestType
<1>12. /\ u \o b \in Seq(Byte) /\ Len(u \o b) = Len(u) + m
       /\ \A i \in 1 .. Len(u) + m : (u \o b)[i] = IF i <= Len(u) THEN u[i] ELSE b[i - Len(u)]
  <2>1. u \in Seq(Byte)
    BY <1>10
  <2> QED
    BY <2>1, ConcatProperties
<1> DEFINE w == u \o b
<1>13. /\ Len(c) = n + m /\ m \in Nat
       /\ \A i \in 1 .. n + m : c[i] = IF i <= n THEN a[i] ELSE b[i - n]
  BY <1>1, <1>5
<1>14. /\ Len(w) = Len(u) + m
       /\ \A i \in 1 .. Len(u) + m : w[i] = IF i <= Len(u) THEN u[i] ELSE b[i - Len(u)]
  BY <1>12
<1> HIDE DEF c, w, m
<1>15. Len(v) = Len(w) /\ Len(v) = (n - s.g) + m
  BY <1>1, <1>10, <1>11, <1>13, <1>14
<1>16. ASSUME NEW i \in 1 .. Len(v) PROVE v[i] = w[i]
  <2>1. i \in 1 .. (n - s.g) + m /\ v[i] = c[s.g + i] /\ s.g + i \in 1 .. n + m
    BY <1>1, <1>11, <1>15, <1>16, <1>13
  <2>2. CASE i <= n - s.g
    <3>1. w[i] = u[i] /\ u[i] = a[s.g + i]
      BY <1>1, <1>10, <1>13, <1>14, <2>1, <2>2
    <3>2. c[s.g + i] = a[s.g + i]
      BY <1>1, <1>13, <2>1, <2>2
    <3> QED
      BY <2>1, <3>1, <3>2
  <2>3. CASE ~(i <= n - s.g)
    <3>1. w[i] = b[i - (n - s.g)]
      BY <1>1, <1>10, <1>13, <1>14, <2>1, <2>3
    <3>2. c[s.g + i] = b[(s.g + i) - n]
      BY <1>1, <1>13, <2>1, <2>3
    <3>3. (s.g + i) - n = i - (n - s.g)
      BY <1>1, <2>1
    <3> QED
      BY <2>1, <3>1, <3>2, <3>3
  <2> QED
    BY <2>2, <2>3
<1>17. v = w
  BY <1>11, <1>12, <1>15, <1>16, SeqEqual DEF w
<1> QED
  BY <1>5, <1>7, <1>17 DEF v, w, u, t, c, m, n, a

(* A cursor starts at the first byte that can be read. *)
LEMMA CursorUnder ==
  ASSUME NEW s, Proper(s), NEW junk \in Seq(Byte) \ {<< >>}
  PROVE  /\ Cursor(s, junk) \in Cursors /\ Cursor(s, junk).at = 1
         /\ \A x, y \in Seq(Byte) : Unread(s) = x \o y => Under(Cursor(s, junk), x)
<1> DEFINE c == Cursor(s, junk)
<1>1. Unread(s) \in Seq(Byte)
  BY UnreadType
<1>2. c \in Cursors /\ c.at = 1 /\ c.bytes = Unread(s)
  BY <1>1 DEF Cursors, Cursor
<1> HIDE DEF c
<1>3. ASSUME NEW x \in Seq(Byte), NEW y \in Seq(Byte), Unread(s) = x \o y PROVE Under(c, x)
  <2>1. /\ Len(x \o y) = Len(x) + Len(y) /\ Len(x) \in Nat /\ Len(y) \in Nat
        /\ \A i \in 1 .. Len(x) + Len(y) : (x \o y)[i] = IF i <= Len(x) THEN x[i] ELSE y[i - Len(x)]
    BY ConcatProperties
  <2>2. \A i \in 1 .. Len(x) : (x \o y)[i] = x[i]
    BY <2>1
  <2>3. c.bytes = x \o y /\ c.at - 1 = 0
    BY <1>2, <1>3
  <2>4. Len(c.bytes) = Len(x) + Len(y) /\ \A k \in 1 .. Len(x) : c.bytes[0 + k] = x[k]
    BY <2>1, <2>2, <2>3
  <2> QED
    BY <2>1, <2>3, <2>4 DEF Under
<1> QED
  BY <1>2, <1>3 DEF c

(* Bytes that are not written over others can be read after the others. *)
LEMMA PutAtEnd ==
  ASSUME NEW s, Proper(s), s.good, NEW b \in Seq(Byte), s.p < Len(s.buf) => b = << >>
  PROVE  Unread(Put(s, b)) = Unread(s) \o b
<1>1. Unread(s) \in Seq(Byte)
  BY UnreadType
<1>2. CASE b = << >>
  <2>1. Put(s, b) = s
    BY <1>2, PutNothing
  <2>2. Unread(s) \o << >> = Unread(s)
    BY <1>1, ConcatEmptySeq
  <2> QED
    BY <1>2, <2>1, <2>2
<1>3. CASE b # << >>
  <2>1. s.p = Len(s.buf)
    <3>1. s.p \in Nat /\ Len(s.buf) \in Nat /\ s.p <= Len(s.buf)
      BY DEF Proper, Streams
    <3> QED
      BY <1>3, <3>1
  <2> QED
    BY <2>1, PutAppends
<1> QED
  BY <1>2, <1>3
=============================================================================
