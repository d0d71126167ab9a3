---------------------------- MODULE SocketProofs ----------------------------
(***************************************************************************)
(* Theorems about UnixDomainSocketConnection, for any objects, processes   *)
(* and addresses, any size of sun_path, any backlog, and with or without   *)
(* failing system calls.                                                   *)
(***************************************************************************)
EXTENDS UnixDomainSocketConnection, TLAPS

(* The values of pc, mode and sock. *)
Phase == {"unborn", "idle", "connect", "options", "unlink", "bind", "chmod", "listen", "gone"}
Mode  == {"Undefined", "ConnectTo", "Listen"}
Sock  == {"none", "open", "bound", "listening", "connected", "closed"}

(* Inside performAnnounce. *)
Announcing == {"options", "unlink", "bind", "chmod", "listen"}

(* What is known of an object from where its calls are: the mode is set    *)
(* before the first system call and never again, and the sockaddr_un is    *)
(* the address, cut.                                                       *)
PhaseOf(o) ==
  /\ pc[o] = "unborn" => mode[o] = "Undefined"
  /\ pc[o] = "connect" => mode[o] = "ConnectTo"
  /\ pc[o] \in Announcing => mode[o] = "Listen"
  /\ pc[o] \in Announcing \cup {"connect"} => sock[o] # "none"
  /\ mode[o] # "Undefined" => address[o] \in Addresses /\ sun[o].path = Cut(address[o])
  /\ mode[o] = "Undefined" => failure[o] = "none"
  /\ mode[o] = "Listen" => Home[o] \in ignoring

Phases == \A o \in Objects : PhaseOf(o)

(* A name that leads to an object was bound by it, once, and is the one in *)
(* its sockaddr_un.                                                        *)
NameOf(s, n) ==
  /\ mode[s] = "Listen"
  /\ pc[s] \in {"chmod", "listen", "idle", "gone"}
  /\ sun[s].path = n

Names == \A s \in Objects, n \in Name : fs[n] = s => NameOf(s, n)

(* Past its chmod, a server that still has the name it asked for has had   *)
(* the mode set, or that chmod failed.                                     *)
PastChmodOf(s, n) ==
  address[s] = n /\ (pc[s] = "listen" \/ sock[s] = "listening") =>
    s \in restricted \/ s \in unheeded.chmod

PastChmod == \A s \in Objects, n \in Name : fs[n] = s => PastChmodOf(s, n)

(* Why a server may find its name in use. *)
Excused(o) == o \in raced \/ Len(address[o]) > SunPath \/ o \in unheeded.unlink

(* Between unlink and bind the name is free, except for racers, cut        *)
(* addresses and an unlink that failed.                                    *)
FreeFor(o) == pc[o] = "bind" => Excused(o) \/ Free(address[o])

UnlinkedIsFree == \A o \in Objects : FreeFor(o)

(* What OnlyRacesLoseTheName says of one object. *)
LostTo(o) == failure[o] = "in use" => Excused(o)

(* A socket is bound by the one bind of its object, past the unlink. *)
BoundOf(o) ==
  /\ sock[o] \in {"bound", "listening"} =>
       mode[o] = "Listen" /\ pc[o] \in {"chmod", "listen", "idle"}
  /\ pc[o] \in {"chmod", "listen"} => sock[o] = "bound"

BoundOnce == \A o \in Objects : BoundOf(o)

(* What OnlyAnnouncersTakeTheName says of one object, by the name in its   *)
(* sockaddr_un.                                                            *)
Taken(o) == \E q \in Objects \ {o} : mode[q] = "Listen" /\ address[q] = sun[o].path
KeptOrTaken(o) ==
  sock[o] \in {"bound", "listening"} /\ sun[o].path \in Name => fs[sun[o].path] = o \/ Taken(o)

NameKept == \A o \in Objects : KeptOrTaken(o)

(* Connections join a dialler and an announcer. *)
Joined ==
  \A c, s \in Objects : peer[c] = s => mode[c] # "Undefined" /\ mode[s] = "Listen"

-----------------------------------------------------------------------------
(* Addresses *)

(* An address is a sequence, and cutting it changes it only if it is too   *)
(* long.                                                                   *)
LEMMA CutFacts ==
  ASSUME NEW a \in Addresses
  PROVE  /\ Len(a) \in Nat
         /\ Len(a) <= SunPath => Cut(a) = a
         /\ Len(a) > SunPath => Len(Cut(a)) = SunPath
         /\ Cut(a) \in Name \cup {<< >>}
<1> DEFINE S == {a[i] : i \in DOMAIN a}
<1>1. a \in Seq(S) /\ SunPath \in Nat
  BY SocketAssumption
<1> HIDE DEF S
<1>2. Len(a) \in Nat
  BY <1>1
<1>3. Len(a) <= SunPath => Cut(a) = a
  BY <1>1, <1>2 DEF Cut
<1>4. Len(a) > SunPath => Len(Cut(a)) = SunPath
  BY <1>1, <1>2 DEF Cut
<1>5. Cut(a) \in Name \cup {<< >>}
  BY DEF Name
<1> QED
  BY <1>2, <1>3, <1>4, <1>5

(* The same as an alternative. *)
LEMMA CutOrLong ==
  ASSUME NEW a \in Addresses
  PROVE  Len(a) > SunPath \/ Cut(a) = a
<1>1. Len(a) \in Nat /\ SunPath \in Nat
  BY CutFacts, SocketAssumption
<1>2. Len(a) > SunPath \/ Len(a) <= SunPath
  BY <1>1
<1> QED
  BY <1>2, CutFacts

-----------------------------------------------------------------------------
(* Types *)

(* The values of unheeded. *)
Unheeded == [unlink : SUBSET Objects, chmod : SUBSET Objects]

(* What a failed unlink adds to the record of calls that failed unheeded. *)
LEMMA OneMoreUnlink ==
  ASSUME NEW u \in Unheeded, NEW o \in Objects, NEW v, v = [u EXCEPT !.unlink = @ \cup {o}]
  PROVE  v \in Unheeded /\ v.unlink = u.unlink \cup {o} /\ v.chmod = u.chmod
BY DEF Unheeded

(* The same for a failed chmod. *)
LEMMA OneMoreChmod ==
  ASSUME NEW u \in Unheeded, NEW o \in Objects, NEW v, v = [u EXCEPT !.chmod = @ \cup {o}]
  PROVE  v \in Unheeded /\ v.chmod = u.chmod \cup {o} /\ v.unlink = u.unlink
BY DEF Unheeded

(* Unlink removes the name or is added to that record. *)
LEMMA UnlinkEffect ==
  ASSUME TypeOK, NEW o \in Objects, Unlink(o)
  PROVE  /\ unheeded' \in Unheeded /\ unheeded'.chmod = unheeded.chmod
         /\ \/ fs' = Removed(address[o]) /\ unheeded'.unlink = unheeded.unlink
            \/ fs' = fs /\ unheeded'.unlink = unheeded.unlink \cup {o}
<1>1. unheeded \in Unheeded
  BY DEF TypeOK, Unheeded
<1>2. CASE fs' = Removed(address[o]) /\ unheeded' = unheeded
  BY <1>1, <1>2
<1>3. CASE fs' = fs /\ unheeded' = [unheeded EXCEPT !.unlink = @ \cup {o}]
  BY <1>1, <1>3, OneMoreUnlink
<1> QED
  BY <1>2, <1>3 DEF Unlink

(* Chmod restricts what has the name or is added to that record. *)
LEMMA ChmodEffect ==
  ASSUME TypeOK, NEW o \in Objects, Chmod(o)
  PROVE  /\ unheeded' \in Unheeded /\ unheeded'.unlink = unheeded.unlink
         /\ \/ /\ restricted' = restricted
                               \cup {s \in Objects : address[o] \in Name /\ fs[address[o]] = s}
               /\ unheeded'.chmod = unheeded.chmod
            \/ restricted' = restricted /\ unheeded'.chmod = unheeded.chmod \cup {o}
<1>1. unheeded \in Unheeded
  BY DEF TypeOK, Unheeded
<1>2. CASE /\ restricted' = restricted
                           \cup {s \in Objects : address[o] \in Name /\ fs[address[o]] = s}
           /\ unheeded' = unheeded
  BY <1>1, <1>2
<1>3. CASE restricted' = restricted /\ unheeded' = [unheeded EXCEPT !.chmod = @ \cup {o}]
  BY <1>1, <1>3, OneMoreChmod
<1> QED
  BY <1>2, <1>3 DEF Chmod

(* Every step keeps the types. *)
LEMMA TypeStep == TypeOK /\ [Next]_vars => TypeOK'
<1> SUFFICES ASSUME TypeOK, [Next]_vars PROVE TypeOK'
  OBVIOUS
<1> USE DEF TypeOK, At, Goto, Throws, call, ghosts
<1>1. ASSUME NEW o \in Objects, Construct(o) PROVE TypeOK'
  <2>1. /\ pc' = [pc EXCEPT ![o] = "idle"]
        /\ \E s \in {"open", "none"} : sock' = [sock EXCEPT ![o] = s]
        /\ UNCHANGED <<mode, address, sun, ignoring, peer, fs, restricted, dead, failure, raced,
                       killed, unheeded>>
    BY <1>1 DEF Construct
  <2>2. pc' \in [Objects -> Phase]
    BY <2>1 DEF Phase
  <2>3. sock' \in [Objects -> Sock]
    BY <2>1 DEF Sock
  <2> QED
    BY <2>1, <2>2, <2>3 DEF Phase, Sock
<1>2. ASSUME NEW o \in Objects, NEW a \in Addresses, dial(o, a) \/ announce(o, a) PROVE TypeOK'
  <2>1. Home[o] \in Process
    BY SocketAssumption
  <2>2. \A sa \in setupStructures(a) : sa \in [path : Name \cup {<< >>}, ok : BOOLEAN]
    BY CutFacts DEF setupStructures
  <2>3. /\ \E there \in {"connect", "options"} : pc' = [pc EXCEPT ![o] = there]
        /\ \E m \in {"ConnectTo", "Listen"} : mode' = [mode EXCEPT ![o] = m]
        /\ address' = [address EXCEPT ![o] = a]
    BY <1>2 DEF dial, announce, Begin
  <2>4. sun' \in [Objects -> [path : Name \cup {<< >>}, ok : BOOLEAN]]
    <3>1. PICK sa \in setupStructures(a) : sun' = [sun EXCEPT ![o] = sa]
      BY <1>2 DEF dial, announce, Begin
    <3> QED
      BY <3>1, <2>2
  <2>5. /\ ignoring' \subseteq Process
        /\ UNCHANGED <<sock, peer, fs, restricted, dead, failure, raced, killed, unheeded>>
    BY <1>2, <2>1 DEF dial, announce, Begin
  <2>6. pc' \in [Objects -> Phase] /\ mode' \in [Objects -> Mode]
    <3>1. pc' \in [Objects -> Phase]
      BY <2>3 DEF Phase
    <3>2. mode' \in [Objects -> Mode]
      BY <2>3 DEF Mode
    <3> QED
      BY <3>1, <3>2
  <2>7. address' \in [Objects -> Addresses \cup {<< >>}]
    BY <2>3
  <2> QED
    BY <2>4, <2>5, <2>6, <2>7 DEF Phase, Mode
<1>3. ASSUME NEW o \in Objects, Connect(o) PROVE TypeOK'
  <2>1. /\ sock' = sock \/ sock' = [sock EXCEPT ![o] = "connected"]
        /\ peer' = peer \/ \E s \in Objects : peer' = [peer EXCEPT ![o] = s]
    BY <1>3 DEF Connect, Server
  <2>2. /\ pc' = [pc EXCEPT ![o] = "idle"]
        /\ failure' \in [Objects -> {"none", "in use", "other"}]
    BY <1>3 DEF Connect
  <2>3. UNCHANGED <<mode, address, sun, ignoring, fs, restricted, dead, raced, killed, unheeded>>
    BY <1>3 DEF Connect
  <2>4. sock' \in [Objects -> Sock] /\ pc' \in [Objects -> Phase]
    BY <2>1, <2>2 DEF Sock, Phase
  <2>5. peer' \in [Objects -> Objects \cup {NoFile}]
    <3>1. peer \in [Objects -> Objects \cup {NoFile}]
      OBVIOUS
    <3> HIDE DEF TypeOK
    <3> QED
      BY <3>1, <2>1
  <2> QED
    BY <2>2, <2>3, <2>4, <2>5 DEF Sock, Phase
<1>4. ASSUME NEW o \in Objects, SetOptions(o) PROVE TypeOK'
  BY <1>4 DEF SetOptions
<1>5. ASSUME NEW o \in Objects, Unlink(o) PROVE TypeOK'
  <2>1. (fs' = fs \/ fs' = Removed(address[o])) /\ unheeded' \in Unheeded
    BY <1>5, UnlinkEffect, Zenon
  <2>2. /\ pc' = [pc EXCEPT ![o] = "bind"]
        /\ UNCHANGED <<mode, address, sun, ignoring, sock, peer, restricted, dead, failure, raced,
                       killed>>
    BY <1>5 DEF Unlink
  <2>3. fs' \in [Name -> Objects \cup {NoFile, Leftover}]
    BY <2>1 DEF Removed
  <2>4. pc' \in [Objects -> Phase]
    BY <2>2 DEF Phase
  <2> QED
    BY <2>1, <2>2, <2>3, <2>4 DEF Phase, Unheeded
<1>6. ASSUME NEW o \in Objects, Bind(o) PROVE TypeOK'
  <2>1. /\ sock' = sock \/ sock' = [sock EXCEPT ![o] = "bound"]
        /\ fs' = fs \/ fs' = [n \in Name |-> IF n = sun[o].path THEN o ELSE fs[n]]
        /\ raced' \subseteq Objects
    BY <1>6 DEF Bind
  <2>2. /\ pc' = [pc EXCEPT ![o] = "idle"] \/ pc' = [pc EXCEPT ![o] = "chmod"]
        /\ failure' \in [Objects -> {"none", "in use", "other"}]
    BY <1>6 DEF Bind
  <2>3. UNCHANGED <<mode, address, sun, ignoring, peer, restricted, dead, killed, unheeded>>
    BY <1>6 DEF Bind
  <2>4. sock' \in [Objects -> Sock] /\ pc' \in [Objects -> Phase]
    BY <2>1, <2>2 DEF Sock, Phase
  <2>5. fs' \in [Name -> Objects \cup {NoFile, Leftover}]
    <3>1. fs \in [Name -> Objects \cup {NoFile, Leftover}]
      OBVIOUS
    <3> HIDE DEF TypeOK
    <3> QED
      BY <3>1, <2>1, Zenon
  <2> QED
    BY <2>1, <2>2, <2>3, <2>4, <2>5 DEF Sock, Phase
<1>7. ASSUME NEW o \in Objects, Chmod(o) PROVE TypeOK'
  <2>1. restricted' \subseteq Objects /\ unheeded' \in Unheeded
    BY <1>7, ChmodEffect
  <2>2. /\ pc' = [pc EXCEPT ![o] = "listen"]
        /\ UNCHANGED <<mode, address, sun, ignoring, sock, peer, fs, dead, failure, raced, killed>>
    BY <1>7 DEF Chmod
  <2>3. pc' \in [Objects -> Phase]
    BY <2>2 DEF Phase
  <2> QED
    BY <2>1, <2>2, <2>3 DEF Phase, Unheeded
<1>8. ASSUME NEW o \in Objects, Listen(o) PROVE TypeOK'
  BY <1>8 DEF Listen
<1>9. ASSUME NEW o \in Objects, Destroy(o) PROVE TypeOK'
  BY <1>9 DEF Destroy, AllClosed
<1>10. ASSUME NEW p \in Process, Dies(p), UNCHANGED killed \/ killed' = killed \cup {p} PROVE TypeOK'
  BY <1>10 DEF Dies, AllClosed
<1>11. ASSUME NEW o \in Objects, WriteToNobody(o) PROVE TypeOK'
  BY <1>11, <1>10, SocketAssumption DEF WriteToNobody, vars
<1>12. CASE UNCHANGED vars
  BY <1>12 DEF vars
<1> QED
  BY <1>1, <1>2, <1>3, <1>4, <1>5, <1>6, <1>7, <1>8, <1>9, <1>10, <1>11, <1>12
  DEF Next, SystemCall, Refused, Crash
-----------------------------------------------------------------------------
(* The phases of a call *)

(* Every step keeps Phases: only dial and announce of a fresh object set   *)
(* its mode and its addresses.                                             *)
LEMMA PhasesStep == TypeOK /\ Phases /\ [Next]_vars => Phases'
<1> SUFFICES ASSUME TypeOK, Phases, [Next]_vars, NEW q \in Objects PROVE PhaseOf(q)'
  BY DEF Phases
<1>0. PhaseOf(q)
  BY DEF Phases
<1>a. /\ pc \in [Objects -> Phase] /\ mode \in [Objects -> Mode] /\ sock \in [Objects -> Sock]
      /\ DOMAIN address = Objects /\ DOMAIN sun = Objects /\ DOMAIN failure = Objects
  BY DEF TypeOK, Phase, Mode, Sock
<1> USE <1>0, <1>a DEF PhaseOf, Announcing, At, Goto, Throws, call, ghosts
<1>1. ASSUME NEW o \in Objects, Construct(o) PROVE PhaseOf(q)'
  BY <1>1 DEF Construct
<1>2. ASSUME NEW o \in Objects, NEW a \in Addresses, dial(o, a) \/ announce(o, a)
      PROVE  PhaseOf(q)'
  <2>1. \A sa \in setupStructures(a) : sa.path = Cut(a)
    BY DEF setupStructures
  <2> QED
    BY <1>2, <2>1 DEF dial, announce, Begin, isValidHandle
<1>3. ASSUME NEW o \in Objects, Connect(o) PROVE PhaseOf(q)'
  BY <1>3 DEF Connect
<1>4. ASSUME NEW o \in Objects, SetOptions(o) PROVE PhaseOf(q)'
  BY <1>4 DEF SetOptions
<1>5. ASSUME NEW o \in Objects, Unlink(o) PROVE PhaseOf(q)'
  BY <1>5 DEF Unlink
<1>6. ASSUME NEW o \in Objects, Bind(o) PROVE PhaseOf(q)'
  BY <1>6 DEF Bind
<1>7. ASSUME NEW o \in Objects, Chmod(o) PROVE PhaseOf(q)'
  BY <1>7 DEF Chmod
<1>8. ASSUME NEW o \in Objects, Listen(o) PROVE PhaseOf(q)'
  BY <1>8 DEF Listen
<1>9. ASSUME NEW o \in Objects, Destroy(o) PROVE PhaseOf(q)'
  BY <1>9 DEF Destroy, AllClosed, isValidHandle
<1>10. ASSUME NEW p \in Process, Dies(p) PROVE PhaseOf(q)'
  BY <1>10 DEF Dies, AllClosed, isValidHandle
<1>11. ASSUME NEW o \in Objects, WriteToNobody(o) PROVE PhaseOf(q)'
  BY <1>11, <1>10, SocketAssumption DEF WriteToNobody, vars
<1>12. CASE UNCHANGED vars
  BY <1>12 DEF vars
<1> QED
  BY <1>1, <1>2, <1>3, <1>4, <1>5, <1>6, <1>7, <1>8, <1>9, <1>10, <1>11, <1>12
  DEF Next, SystemCall, Refused, Crash
-----------------------------------------------------------------------------
(* Names in the file system *)

(* Every step keeps Names and PastChmod.  A name is given out by bind      *)
(* alone, chmod comes between bind and listen, and the name an object asks *)
(* for does not change once it has tried.                                  *)
LEMMA NamesStep ==
  TypeOK /\ Phases /\ Names /\ PastChmod /\ [Next]_vars => Names' /\ PastChmod'
<1> SUFFICES ASSUME TypeOK, Phases, Names, PastChmod, [Next]_vars,
                    NEW s \in Objects, NEW n \in Name, fs'[n] = s
             PROVE  NameOf(s, n)' /\ PastChmodOf(s, n)'
  BY DEF Names, PastChmod
<1>a. /\ pc \in [Objects -> Phase] /\ mode \in [Objects -> Mode] /\ sock \in [Objects -> Sock]
      /\ DOMAIN address = Objects /\ DOMAIN sun = Objects
  BY DEF TypeOK, Phase, Mode, Sock
<1>b. s # NoFile
  BY SocketAssumption
<1>c. PhaseOf(s)
  BY DEF Phases
<1>d. fs[n] = s => NameOf(s, n) /\ PastChmodOf(s, n)
  BY DEF Names, PastChmod
<1> DEFINE Goal == NameOf(s, n)' /\ PastChmodOf(s, n)'
<1> USE <1>a, <1>b, <1>c, <1>d DEF NameOf, PastChmodOf, At, Goto, Throws, call, ghosts
<1>1. ASSUME NEW o \in Objects, Construct(o) PROVE Goal
  BY <1>1 DEF Construct
<1>2. ASSUME NEW o \in Objects, NEW a \in Addresses, dial(o, a) \/ announce(o, a) PROVE Goal
  BY <1>2 DEF dial, announce, Begin
<1>3. ASSUME NEW o \in Objects, Connect(o) PROVE Goal
  BY <1>3 DEF Connect
<1>4. ASSUME NEW o \in Objects, SetOptions(o) PROVE Goal
  BY <1>4 DEF SetOptions
<1>5. ASSUME NEW o \in Objects, Unlink(o) PROVE Goal
  BY <1>5, UnlinkEffect DEF Unlink, Removed
<1>6. ASSUME NEW o \in Objects, Bind(o) PROVE Goal
  <2>1. UNCHANGED <<mode, address, sun, restricted, unheeded>>
    BY <1>6 DEF Bind
  <2>2. CASE fs[n] = s
    <3>1. o # s
      BY <1>6, <2>2 DEF Bind
    <3>2. pc'[s] = pc[s] /\ sock'[s] = sock[s]
      BY <1>6, <3>1 DEF Bind
    <3> QED
      BY <2>1, <2>2, <3>2
  <2>3. CASE fs[n] # s
    <3>1. o = s /\ pc[s] = "bind" /\ sun[s].path = n
      <4>1. fs' = [m \in Name |-> IF m = sun[o].path THEN o ELSE fs[m]] /\ pc[o] = "bind"
        BY <1>6, <2>3 DEF Bind
      <4> QED
        BY <2>3, <4>1
    <3>2. pc' = [pc EXCEPT ![s] = "chmod"] /\ sock' = [sock EXCEPT ![s] = "bound"]
      BY <1>6, <2>3, <3>1 DEF Bind
    <3>3. mode[s] = "Listen"
      BY <3>1 DEF PhaseOf, Announcing
    <3> QED
      BY <2>1, <3>1, <3>2, <3>3
  <2> QED
    BY <2>2, <2>3
<1>7. ASSUME NEW o \in Objects, Chmod(o) PROVE Goal
  <2>1. /\ UNCHANGED <<mode, address, sun, sock, fs>>
        /\ pc[o] = "chmod" /\ pc' = [pc EXCEPT ![o] = "listen"]
    BY <1>7 DEF Chmod
  <2>2. /\ restricted \subseteq restricted'
        /\ unheeded.chmod \subseteq unheeded'.chmod
    BY <1>7, ChmodEffect
  <2>3. NameOf(s, n)'
    BY <2>1
  <2>4. CASE o # s
    BY <2>1, <2>2, <2>3, <2>4
  <2>5. CASE o = s
    <3>1. address[s] = n => s \in restricted' \/ s \in unheeded'.chmod
      BY <1>7, <2>1, <2>5, ChmodEffect
    <3> QED
      BY <2>1, <2>3, <3>1
  <2> QED
    BY <2>4, <2>5
<1>8. ASSUME NEW o \in Objects, Listen(o) PROVE Goal
  BY <1>8 DEF Listen
<1>9. ASSUME NEW o \in Objects, Destroy(o) PROVE Goal
  BY <1>9 DEF Destroy, AllClosed
<1>10. ASSUME NEW p \in Process, Dies(p) PROVE Goal
  BY <1>10 DEF Dies, AllClosed
<1>11. ASSUME NEW o \in Objects, WriteToNobody(o) PROVE Goal
  BY <1>11, <1>10, SocketAssumption DEF WriteToNobody, vars
<1>12. CASE UNCHANGED vars
  BY <1>12 DEF vars
<1> QED
  BY <1>1, <1>2, <1>3, <1>4, <1>5, <1>6, <1>7, <1>8, <1>9, <1>10, <1>11, <1>12
  DEF Next, SystemCall, Refused, Crash

(* Every step keeps UnlinkedIsFree and OnlyRacesLoseTheName: unlink frees  *)
(* the name or fails, and a bind by another marks who was about to bind.   *)
LEMMA RacesStep ==
  TypeOK /\ Phases /\ UnlinkedIsFree /\ OnlyRacesLoseTheName /\ [Next]_vars
    => UnlinkedIsFree' /\ OnlyRacesLoseTheName'
<1> SUFFICES ASSUME TypeOK, Phases, UnlinkedIsFree, OnlyRacesLoseTheName, [Next]_vars,
                    NEW q \in Objects
             PROVE  FreeFor(q)' /\ LostTo(q)'
  BY DEF UnlinkedIsFree, OnlyRacesLoseTheName, LostTo, Excused
<1>a. /\ pc \in [Objects -> Phase] /\ mode \in [Objects -> Mode]
      /\ DOMAIN address = Objects /\ DOMAIN failure = Objects
  BY DEF TypeOK, Phase, Mode
<1>b. PhaseOf(q)
  BY DEF Phases
<1>c. FreeFor(q) /\ LostTo(q)
  BY DEF UnlinkedIsFree, OnlyRacesLoseTheName, LostTo, Excused
<1> DEFINE Goal == FreeFor(q)' /\ LostTo(q)'
<1> USE <1>a, <1>b, <1>c DEF FreeFor, LostTo, Excused, Free, At, Goto, Throws, call, ghosts
<1>1. ASSUME NEW o \in Objects, Construct(o) PROVE Goal
  BY <1>1 DEF Construct
<1>2. ASSUME NEW o \in Objects, NEW a \in Addresses, dial(o, a) \/ announce(o, a) PROVE Goal
  BY <1>2 DEF dial, announce, Begin, PhaseOf
<1>3. ASSUME NEW o \in Objects, Connect(o) PROVE Goal
  BY <1>3 DEF Connect
<1>4. ASSUME NEW o \in Objects, SetOptions(o) PROVE Goal
  BY <1>4 DEF SetOptions
<1>5. ASSUME NEW o \in Objects, Unlink(o) PROVE Goal
  BY <1>5, UnlinkEffect DEF Unlink, Removed
<1>6. ASSUME NEW o \in Objects, Bind(o) PROVE Goal
  <2>1. CASE o # q
    BY <1>6, <2>1 DEF Bind
  <2>2. CASE o = q
    <3>1. address[q] \in Addresses /\ sun[q].path = Cut(address[q])
      BY <1>6, <2>2 DEF Bind, PhaseOf, Announcing
    <3>2. Len(address[q]) > SunPath \/ sun[q].path = address[q]
      BY <3>1, CutOrLong
    <3> QED
      BY <1>6, <2>2, <3>2 DEF Bind
  <2> QED
    BY <2>1, <2>2
<1>7. ASSUME NEW o \in Objects, Chmod(o) PROVE Goal
  BY <1>7, ChmodEffect DEF Chmod
<1>8. ASSUME NEW o \in Objects, Listen(o) PROVE Goal
  BY <1>8 DEF Listen
<1>9. ASSUME NEW o \in Objects, Destroy(o) PROVE Goal
  BY <1>9 DEF Destroy
<1>10. ASSUME NEW p \in Process, Dies(p) PROVE Goal
  BY <1>10 DEF Dies
<1>11. ASSUME NEW o \in Objects, WriteToNobody(o) PROVE Goal
  BY <1>11, <1>10, SocketAssumption DEF WriteToNobody, vars
<1>12. CASE UNCHANGED vars
  BY <1>12 DEF vars
<1> QED
  BY <1>1, <1>2, <1>3, <1>4, <1>5, <1>6, <1>7, <1>8, <1>9, <1>10, <1>11, <1>12
  DEF Next, SystemCall, Refused, Crash

(* Every step keeps BoundOnce: the mode lets an object announce once, so   *)
(* no system call of performAnnounce is repeated.                          *)
LEMMA BoundStep == TypeOK /\ Phases /\ BoundOnce /\ [Next]_vars => BoundOnce'
<1> SUFFICES ASSUME TypeOK, Phases, BoundOnce, [Next]_vars, NEW q \in Objects PROVE BoundOf(q)'
  BY DEF BoundOnce
<1>a. /\ pc \in [Objects -> Phase] /\ mode \in [Objects -> Mode] /\ sock \in [Objects -> Sock]
  BY DEF TypeOK, Phase, Mode, Sock
<1>b. PhaseOf(q) /\ BoundOf(q)
  BY DEF Phases, BoundOnce
<1> USE <1>a, <1>b DEF BoundOf, At, Goto, Throws, call, ghosts
<1>1. ASSUME NEW o \in Objects, Construct(o) PROVE BoundOf(q)'
  BY <1>1 DEF Construct
<1>2. ASSUME NEW o \in Objects, NEW a \in Addresses, dial(o, a) \/ announce(o, a)
      PROVE  BoundOf(q)'
  BY <1>2 DEF dial, announce, Begin
<1>3. ASSUME NEW o \in Objects, Connect(o) PROVE BoundOf(q)'
  BY <1>3 DEF Connect
<1>4. ASSUME NEW o \in Objects, SetOptions(o) PROVE BoundOf(q)'
  BY <1>4 DEF SetOptions
<1>5. ASSUME NEW o \in Objects, Unlink(o) PROVE BoundOf(q)'
  BY <1>5 DEF Unlink
<1>6. ASSUME NEW o \in Objects, Bind(o) PROVE BoundOf(q)'
  BY <1>6 DEF Bind, PhaseOf, Announcing
<1>7. ASSUME NEW o \in Objects, Chmod(o) PROVE BoundOf(q)'
  BY <1>7 DEF Chmod
<1>8. ASSUME NEW o \in Objects, Listen(o) PROVE BoundOf(q)'
  BY <1>8 DEF Listen
<1>9. ASSUME NEW o \in Objects, Destroy(o) PROVE BoundOf(q)'
  BY <1>9 DEF Destroy, AllClosed, isValidHandle
<1>10. ASSUME NEW p \in Process, Dies(p) PROVE BoundOf(q)'
  BY <1>10 DEF Dies, AllClosed, isValidHandle
<1>11. ASSUME NEW o \in Objects, WriteToNobody(o) PROVE BoundOf(q)'
  BY <1>11, <1>10, SocketAssumption DEF WriteToNobody, vars
<1>12. CASE UNCHANGED vars
  BY <1>12 DEF vars
<1> QED
  BY <1>1, <1>2, <1>3, <1>4, <1>5, <1>6, <1>7, <1>8, <1>9, <1>10, <1>11, <1>12
  DEF Next, SystemCall, Refused, Crash

(* Every step keeps NameKept.  Only bind and unlink change the names: bind *)
(* takes one that is free, and unlink frees the address of an announcer    *)
(* that has not bound yet, so never that of the server itself.             *)
LEMMA KeptStep ==
  TypeOK /\ Phases /\ BoundOnce /\ NameKept /\ [Next]_vars => NameKept'
<1> SUFFICES ASSUME TypeOK, Phases, BoundOnce, NameKept, [Next]_vars, NEW s \in Objects
             PROVE  KeptOrTaken(s)'
  BY DEF NameKept
<1>a. /\ pc \in [Objects -> Phase] /\ mode \in [Objects -> Mode] /\ sock \in [Objects -> Sock]
      /\ DOMAIN address = Objects /\ DOMAIN sun = Objects
      /\ fs \in [Name -> Objects \cup {NoFile, Leftover}] /\ NoFile # s
  BY SocketAssumption DEF TypeOK, Phase, Mode, Sock
<1>b. PhaseOf(s) /\ BoundOf(s) /\ KeptOrTaken(s)
  BY DEF Phases, BoundOnce, NameKept
<1> USE DEF At, Goto, Throws, call, ghosts
<1>0. ASSUME UNCHANGED <<mode, address, sun, fs>>,
             sock'[s] \in {"bound", "listening"} => sock[s] \in {"bound", "listening"}
      PROVE  KeptOrTaken(s)'
  BY <1>0, <1>b DEF KeptOrTaken, Taken
<1>1. ASSUME NEW o \in Objects, Construct(o) PROVE KeptOrTaken(s)'
  BY <1>1, <1>0, <1>a DEF Construct
<1>2. ASSUME NEW o \in Objects, NEW a \in Addresses, dial(o, a) \/ announce(o, a)
      PROVE  KeptOrTaken(s)'
  <2>1. mode[o] = "Undefined" /\ UNCHANGED <<sock, fs>>
    BY <1>2 DEF dial, announce, Begin
  <2>2. \A q \in Objects \ {o} : mode'[q] = mode[q] /\ address'[q] = address[q] /\ sun'[q] = sun[q]
    BY <1>2, <1>a DEF dial, announce, Begin
  <2>3. CASE s = o
    BY <2>1, <2>3, <1>b DEF KeptOrTaken, BoundOf
  <2>4. CASE s # o
    <3>1. Taken(s) => Taken(s)'
      BY <2>1, <2>2, <2>4 DEF Taken
    <3> QED
      BY <2>1, <2>2, <2>4, <3>1, <1>b DEF KeptOrTaken
  <2> QED
    BY <2>3, <2>4
<1>3. ASSUME NEW o \in Objects, Connect(o) PROVE KeptOrTaken(s)'
  BY <1>3, <1>0, <1>a DEF Connect
<1>4. ASSUME NEW o \in Objects, SetOptions(o) PROVE KeptOrTaken(s)'
  BY <1>4, <1>0 DEF SetOptions
<1>5. ASSUME NEW o \in Objects, Unlink(o) PROVE KeptOrTaken(s)'
  <2>1. UNCHANGED <<mode, address, sun, sock>> /\ mode[o] = "Listen"
    BY <1>5 DEF Unlink, Phases, PhaseOf, Announcing
  <2>2. \A n \in Name : n # address[o] => fs'[n] = fs[n]
    BY <1>5 DEF Unlink, Removed
  <2>3. SUFFICES ASSUME sock[s] \in {"bound", "listening"}, sun[s].path = address[o]
                 PROVE  Taken(s)
    BY <2>1, <2>2, <1>b DEF KeptOrTaken, Taken
  <2>4. o # s
    BY <1>5, <2>3, <1>b DEF Unlink, BoundOf
  <2> QED
    BY <2>1, <2>3, <2>4 DEF Taken
<1>6. ASSUME NEW o \in Objects, Bind(o) PROVE KeptOrTaken(s)'
  <2>1. UNCHANGED <<mode, address, sun>>
    BY <1>6 DEF Bind
  <2>2. CASE UNCHANGED <<fs, sock>>
    BY <2>1, <2>2, <1>0
  <2>3. CASE /\ Free(sun[o].path)
             /\ fs' = [n \in Name |-> IF n = sun[o].path THEN o ELSE fs[n]]
             /\ sock' = [sock EXCEPT ![o] = "bound"]
    <3>1. CASE s = o
      BY <2>1, <2>3, <3>1 DEF KeptOrTaken
    <3>2. CASE s # o
      BY <2>1, <2>3, <3>2, <1>a, <1>b DEF KeptOrTaken, Taken, Free
    <3> QED
      BY <3>1, <3>2
  <2> QED
    BY <1>6, <2>2, <2>3 DEF Bind
<1>7. ASSUME NEW o \in Objects, Chmod(o) PROVE KeptOrTaken(s)'
  BY <1>7, <1>0 DEF Chmod
<1>8. ASSUME NEW o \in Objects, Listen(o) PROVE KeptOrTaken(s)'
  BY <1>8, <1>0, <1>a, <1>b DEF Listen, BoundOf
<1>9. ASSUME NEW o \in Objects, Destroy(o) PROVE KeptOrTaken(s)'
  BY <1>9, <1>0, <1>a DEF Destroy, AllClosed
<1>10. ASSUME NEW p \in Process, Dies(p) PROVE KeptOrTaken(s)'
  BY <1>10, <1>0, <1>a DEF Dies, AllClosed
<1>11. ASSUME NEW o \in Objects, WriteToNobody(o) PROVE KeptOrTaken(s)'
  BY <1>11, <1>10, <1>0, SocketAssumption DEF WriteToNobody, vars
<1>12. CASE UNCHANGED vars
  BY <1>12, <1>0 DEF vars
<1> QED
  BY <1>1, <1>2, <1>3, <1>4, <1>5, <1>6, <1>7, <1>8, <1>9, <1>10, <1>11, <1>12
  DEF Next, SystemCall, Refused, Crash

-----------------------------------------------------------------------------
(* Connections *)

(* Every step keeps Joined and ShortDialReachesAnnounced: connect follows  *)
(* a name to the object that bound it, and a name shorter than sun_path is *)
(* the whole address of both.                                              *)
LEMMA JoinedStep ==
  TypeOK /\ Phases /\ Names /\ Joined /\ ShortDialReachesAnnounced /\ [Next]_vars
    => Joined' /\ ShortDialReachesAnnounced'
<1> SUFFICES ASSUME TypeOK, Phases, Names, Joined, ShortDialReachesAnnounced, [Next]_vars,
                    NEW c \in Objects, NEW s \in Objects, peer'[c] = s
             PROVE  /\ mode'[c] # "Undefined" /\ mode'[s] = "Listen"
                    /\ Len(address'[c]) < SunPath => address'[s] = address'[c]
  BY DEF Joined, ShortDialReachesAnnounced
<1> DEFINE Goal == /\ mode'[c] # "Undefined" /\ mode'[s] = "Listen"
                   /\ Len(address'[c]) < SunPath => address'[s] = address'[c]
<1>a. peer[c] = s => /\ mode[c] # "Undefined" /\ mode[s] = "Listen"
                     /\ Len(address[c]) < SunPath => address[s] = address[c]
  BY DEF Joined, ShortDialReachesAnnounced
<1>b. DOMAIN mode = Objects /\ DOMAIN address = Objects /\ DOMAIN peer = Objects
  BY DEF TypeOK
<1>1. CASE UNCHANGED <<peer, mode, address>>
  BY <1>1, <1>a
<1>2. ASSUME NEW o \in Objects, NEW a \in Addresses, dial(o, a) \/ announce(o, a) PROVE Goal
  BY <1>2, <1>a, <1>b DEF dial, announce, Begin
<1>3. ASSUME NEW o \in Objects, Connect(o) PROVE Goal
  <2>1. UNCHANGED <<mode, address>>
    BY <1>3 DEF Connect, call
  <2>2. CASE peer[c] = s
    BY <2>1, <2>2, <1>a
  <2>3. CASE peer[c] # s
    <3>1. o = c /\ s \in Server(sun[c].path) /\ pc[c] = "connect"
      BY <1>3, <1>b, <2>3 DEF Connect, At
    <3>2. sun[c].path \in Name /\ fs[sun[c].path] = s
      BY <3>1 DEF Server
    <3>3. mode[s] = "Listen" /\ sun[s].path = sun[c].path /\ mode[c] = "ConnectTo"
      BY <3>1, <3>2 DEF Names, NameOf, Phases, PhaseOf
    <3>4. /\ address[c] \in Addresses /\ address[s] \in Addresses
          /\ Cut(address[c]) = Cut(address[s])
      BY <3>3 DEF Phases, PhaseOf
    <3>5. Len(address[c]) < SunPath => address[s] = address[c]
      BY <3>4, CutFacts, SocketAssumption
    <3> QED
      BY <3>3, <3>5, <2>1
  <2> QED
    BY <2>2, <2>3
<1>4. ASSUME NEW o \in Objects, \/ Construct(o) \/ SetOptions(o) \/ Unlink(o) \/ Bind(o)
                                \/ Chmod(o) \/ Listen(o) \/ Destroy(o) \/ WriteToNobody(o)
      PROVE  UNCHANGED <<peer, mode, address>>
  BY <1>4 DEF Construct, SetOptions, Unlink, Bind, Chmod, Listen, Destroy, WriteToNobody,
              Dies, call, vars
<1>5. ASSUME NEW p \in Process, Crash(p) PROVE UNCHANGED <<peer, mode, address>>
  BY <1>5 DEF Crash, Dies, call
<1>6. CASE UNCHANGED vars
  BY <1>6, <1>1 DEF vars
<1> QED
  BY <1>1, <1>2, <1>3, <1>4, <1>5, <1>6 DEF Next, SystemCall, Refused

-----------------------------------------------------------------------------
(* The inductive invariant and what follows from it *)

IInv ==
  /\ TypeOK /\ Phases /\ Names /\ PastChmod
  /\ UnlinkedIsFree /\ OnlyRacesLoseTheName
  /\ BoundOnce /\ NameKept
  /\ Joined /\ ShortDialReachesAnnounced

(* It holds before anything is constructed, whatever files there are. *)
LEMMA InitInv == Init => IInv
<1> SUFFICES ASSUME Init PROVE IInv
  OBVIOUS
<1>1. TypeOK
  BY DEF Init, TypeOK
<1>2. Phases
  BY DEF Init, Phases, PhaseOf, Announcing
<1>3. \A s \in Objects, n \in Name : fs[n] # s
  BY SocketAssumption DEF Init
<1>4. \A c, s \in Objects : peer[c] # s
  BY SocketAssumption DEF Init
<1>5. Names /\ PastChmod /\ Joined /\ ShortDialReachesAnnounced
  BY <1>3, <1>4 DEF Names, PastChmod, Joined, ShortDialReachesAnnounced
<1>6. UnlinkedIsFree /\ OnlyRacesLoseTheName
  BY DEF Init, UnlinkedIsFree, FreeFor, OnlyRacesLoseTheName
<1>7. BoundOnce /\ NameKept
  BY DEF Init, BoundOnce, BoundOf, NameKept, KeptOrTaken
<1> QED
  BY <1>1, <1>2, <1>5, <1>6, <1>7 DEF IInv

(* The inductive invariant holds throughout. *)
LEMMA Invariance == Spec => []IInv
<1>1. IInv /\ [Next]_vars => IInv'
  BY TypeStep, PhasesStep, NamesStep, RacesStep, BoundStep, KeptStep, JoinedStep DEF IInv
<1> QED
  BY InitInv, <1>1, PTL DEF Spec

(* Sockets, names, modes and phases stay well typed. *)
THEOREM TypeCorrect == Spec => []TypeOK
<1>1. IInv => TypeOK
  BY DEF IInv
<1> QED
  BY <1>1, Invariance, PTL

(* However many servers announce the same name at the same time, no client *)
(* can reach one of them before its chmod, and only a server whose own     *)
(* chmod failed can be reached with its file open to other users.          *)
THEOREM NoOpenWindow == Spec => []ReachableIsRestricted
<1>1. IInv => ReachableIsRestricted
  BY DEF IInv, PastChmod, PastChmodOf, ReachableIsRestricted, Server
<1> QED
  BY <1>1, Invariance, PTL

(* Whatever a crashed server left behind, its successor finds the name in  *)
(* use only in a race, with an address that was cut, or if its own unlink  *)
(* failed.                                                                 *)
THEOREM RestartFindsTheName == Spec => []OnlyRacesLoseTheName
<1>1. IInv => OnlyRacesLoseTheName
  BY DEF IInv
<1> QED
  BY <1>1, Invariance, PTL

(* A server that lives and has bound its name is found under it until      *)
(* another object announces that very name.                                *)
THEOREM NameIsKept == Spec => []OnlyAnnouncersTakeTheName
<1>1. IInv => OnlyAnnouncersTakeTheName
  <2> SUFFICES ASSUME IInv, NEW o \in Objects, sock[o] \in {"bound", "listening"},
                      Cut(address[o]) # << >>, fs[Cut(address[o])] # o
               PROVE  \E q \in Objects \ {o} : mode[q] = "Listen" /\ address[q] = Cut(address[o])
    BY DEF OnlyAnnouncersTakeTheName
  <2>1. mode[o] = "Listen"
    BY DEF IInv, BoundOnce, BoundOf
  <2>2. address[o] \in Addresses /\ sun[o].path = Cut(address[o])
    BY <2>1 DEF IInv, Phases, PhaseOf
  <2>3. sun[o].path \in Name
    BY <2>2, CutFacts
  <2> QED
    BY <2>2, <2>3 DEF IInv, NameKept, KeptOrTaken, Taken
<1> QED
  BY <1>1, Invariance, PTL

(* A dial of an address that fits reaches a server announced under it. *)
THEOREM DialIsExact == Spec => []ShortDialReachesAnnounced
<1>1. IInv => ShortDialReachesAnnounced
  BY DEF IInv
<1> QED
  BY <1>1, Invariance, PTL

(* No step ends an announcing process by SIGPIPE. *)
THEOREM PipeIsIgnored == Spec => AnnouncersSurvivePipe
<1> DEFINE Safe == \A o \in Objects : mode[o] = "Listen" => Home[o] \notin killed' \ killed
<1>1. IInv /\ [Next]_vars => [Safe]_vars
  <2> SUFFICES ASSUME IInv, [Next]_vars, NEW o \in Objects, mode[o] = "Listen",
                      Home[o] \in killed' \ killed
               PROVE  FALSE
    OBVIOUS
  <2>1. Home[o] \in ignoring
    BY DEF IInv, Phases, PhaseOf
  <2>2. killed' # killed
    OBVIOUS
  <2>3. PICK q \in Objects : WriteToNobody(q)
    BY <2>2 DEF Next, vars, Refused, SystemCall, Construct, dial, announce, Begin, Connect,
                SetOptions, Unlink, Bind, Chmod, Listen, Destroy, Crash, ghosts
  <2>4. Home[q] \notin ignoring /\ killed' = killed \cup {Home[q]}
    BY <2>2, <2>3 DEF WriteToNobody, vars
  <2> QED
    BY <2>1, <2>4
<1> QED
  BY <1>1, Invariance, PTL DEF Spec, AnnouncersSurvivePipe
-----------------------------------------------------------------------------
(* Refinement *)

(* A step in which nobody's abstract state, validity, mode or address      *)
(* changes is a stuttering step of SocketConnection.                       *)
LEMMA Stutter ==
  ASSUME UNCHANGED <<mode, address>>,
         \A q \in Objects : AttemptState'[q] = AttemptState[q]
                            /\ ((sock'[q] # "none") <=> (sock[q] # "none"))
  PROVE  UNCHANGED Parent!vars
<1>1. AttemptState' = AttemptState
  BY Zenon DEF AttemptState
<1>2. [q \in Objects |-> sock'[q] # "none"] = [q \in Objects |-> sock[q] # "none"]
  OBVIOUS
<1> QED
  BY <1>1, <1>2 DEF Parent!vars

(* A step that changes the abstract state of one object. *)
LEMMA OneChange ==
  ASSUME NEW o \in Objects, \A q \in Objects \ {o} : AttemptState'[q] = AttemptState[q]
  PROVE  AttemptState' = [AttemptState EXCEPT ![o] = AttemptState'[o]]
<1>1. AttemptState = [q \in Objects |-> AttemptState[q]]
  BY DEF AttemptState
<1>2. AttemptState' = [q \in Objects |-> AttemptState'[q]]
  BY DEF AttemptState
<1>3. ASSUME NEW f, NEW g, f = [q \in Objects |-> f[q]], g = [q \in Objects |-> g[q]],
             \A q \in Objects \ {o} : g[q] = f[q]
      PROVE  g = [f EXCEPT ![o] = g[o]]
  BY <1>3
<1> QED
  BY <1>1, <1>2, <1>3

(* A step that ends the attempt of o, up or failed, is its Perform. *)
LEMMA AttemptEnds ==
  ASSUME NEW o \in Objects, UNCHANGED <<mode, address>>,
         AttemptState[o] = "trying", AttemptState'[o] \in {"up", "failed"},
         \A q \in Objects \ {o} : AttemptState'[q] = AttemptState[q],
         \A q \in Objects : (sock'[q] # "none") <=> (sock[q] # "none")
  PROVE  Parent!Perform(o)
<1>1. AttemptState' = [AttemptState EXCEPT ![o] = AttemptState'[o]]
  BY OneChange
<1>2. [q \in Objects |-> sock'[q] # "none"] = [q \in Objects |-> sock[q] # "none"]
  OBVIOUS
<1> QED
  BY <1>1, <1>2 DEF Parent!Perform

(* A step after which the objects of S are gone is Destroy. *)
LEMMA ObjectsGo ==
  ASSUME NEW S \in SUBSET Objects, UNCHANGED <<mode, address>>,
         \A q \in Objects : pc'[q] = IF q \in S THEN "gone" ELSE pc[q],
         \A q \in Objects \ S : sock'[q] = sock[q],
         \A q \in Objects : (sock'[q] # "none") <=> (sock[q] # "none")
  PROVE  Parent!Destroy(S)
<1>1. \A q \in Objects : AttemptState'[q] = IF q \in S THEN "gone" ELSE AttemptState[q]
  BY DEF AttemptState
<1>2. AttemptState' = [q \in Objects |-> IF q \in S THEN "gone" ELSE AttemptState[q]]
  BY <1>1, Zenon DEF AttemptState
<1>3. [q \in Objects |-> sock'[q] # "none"] = [q \in Objects |-> sock[q] # "none"]
  OBVIOUS
<1> QED
  BY <1>2, <1>3 DEF Parent!Destroy

(* Every step of dial and announce, of a crash or of a destructor is one   *)
(* of the abstract class or changes nothing it can see: an object makes    *)
(* one attempt, which ends up or failed for good.                          *)
LEMMA StepImplements ==
  ASSUME TypeOK, Phases, [Next]_vars
  PROVE  [Parent!Next]_(Parent!vars)
<1>a. /\ pc \in [Objects -> Phase] /\ mode \in [Objects -> Mode] /\ sock \in [Objects -> Sock]
      /\ DOMAIN address = Objects
  BY DEF TypeOK, Phase, Mode, Sock
<1>b. \A o \in Objects : PhaseOf(o)
  BY DEF Phases
<1> USE <1>a DEF At, Goto, Throws, call, ghosts
<1>1. ASSUME NEW o \in Objects, Construct(o) PROVE Parent!Construct(o)
  <2>1. PICK s \in {"open", "none"} : sock' = [sock EXCEPT ![o] = s]
    BY <1>1 DEF Construct
  <2>2. pc[o] = "unborn" /\ pc' = [pc EXCEPT ![o] = "idle"] /\ mode[o] = "Undefined"
    BY <1>1, <1>b DEF Construct, PhaseOf
  <2>3. UNCHANGED <<mode, address>>
    BY <1>1 DEF Construct
  <2>4. /\ AttemptState[o] = "unborn" /\ AttemptState'[o] = "idle"
        /\ \A q \in Objects \ {o} : AttemptState'[q] = AttemptState[q]
    BY <2>1, <2>2, <2>3 DEF AttemptState
  <2>5. AttemptState' = [AttemptState EXCEPT ![o] = "idle"]
    BY <2>4, OneChange
  <2>6. [q \in Objects |-> sock'[q] # "none"]
          = [[q \in Objects |-> sock[q] # "none"] EXCEPT ![o] = (s # "none")]
    BY <2>1
  <2> QED
    BY <2>3, <2>4, <2>5, <2>6 DEF Parent!Construct
<1>2. ASSUME NEW o \in Objects, NEW a \in Addresses, dial(o, a) \/ announce(o, a)
      PROVE  Parent!dial(o, a) \/ Parent!announce(o, a)
  <2>1. PICK m \in {"ConnectTo", "Listen"}, first \in {"connect", "options"} :
          /\ Begin(o, a, m, first)
          /\ (m = "ConnectTo" /\ dial(o, a)) \/ (m = "Listen" /\ announce(o, a))
    BY <1>2 DEF dial, announce
  <2>2. /\ pc[o] = "idle" /\ mode[o] = "Undefined" /\ sock[o] # "none"
        /\ mode' = [mode EXCEPT ![o] = m]
        /\ address' = [address EXCEPT ![o] = a]
        /\ pc' = [pc EXCEPT ![o] = first]
        /\ sock' = sock
    BY <2>1 DEF Begin, isValidHandle
  <2>3. /\ AttemptState[o] = "idle" /\ AttemptState'[o] = "trying"
        /\ \A q \in Objects \ {o} : AttemptState'[q] = AttemptState[q]
    BY <2>2 DEF AttemptState
  <2>4. AttemptState' = [AttemptState EXCEPT ![o] = "trying"]
    BY <2>3, OneChange
  <2>5. Parent!Attempt(o, a, m)
    BY <2>2, <2>3, <2>4 DEF Parent!Attempt
  <2> QED
    BY <2>5 DEF Parent!dial, Parent!announce
<1>3. ASSUME NEW o \in Objects, SystemCall(o)
      PROVE  Parent!Perform(o) \/ UNCHANGED Parent!vars
  <2>1. /\ pc[o] \in Announcing \cup {"connect"}
        /\ \E there \in (Announcing \cup {"idle"}) : pc' = [pc EXCEPT ![o] = there]
        /\ UNCHANGED <<mode, address>>
    BY <1>3 DEF SystemCall, Connect, SetOptions, Unlink, Bind, Chmod, Listen, Announcing
  <2>2. sock' = sock \/ \E s \in {"connected", "bound", "listening"} : sock' = [sock EXCEPT ![o] = s]
    BY <1>3 DEF SystemCall, Connect, SetOptions, Unlink, Bind, Chmod, Listen
  <2>3. mode[o] # "Undefined" /\ sock[o] # "none"
    BY <2>1, <1>b DEF PhaseOf, Announcing
  <2>4. /\ \A q \in Objects \ {o} : pc'[q] = pc[q] /\ sock'[q] = sock[q]
        /\ \A q \in Objects : (sock'[q] # "none") <=> (sock[q] # "none")
    BY <2>1, <2>2, <2>3
  <2>5. /\ AttemptState[o] = "trying"
        /\ \A q \in Objects \ {o} : AttemptState'[q] = AttemptState[q]
    BY <2>1, <2>4 DEF AttemptState, Announcing
  <2>6. CASE pc'[o] = "idle"
    <3>1. AttemptState'[o] \in {"up", "failed"}
      BY <2>1, <2>3, <2>6 DEF AttemptState
    <3> QED
      BY <2>1, <2>4, <2>5, <3>1, AttemptEnds
  <2>7. CASE pc'[o] # "idle"
    <3>1. AttemptState'[o] = "trying"
      BY <2>1, <2>7 DEF AttemptState, Announcing
    <3> QED
      BY <2>1, <2>4, <2>5, <3>1, Stutter
  <2> QED
    BY <2>6, <2>7
<1>4. ASSUME NEW o \in Objects, Destroy(o) PROVE Parent!Destroy({o})
  <2>1. /\ UNCHANGED <<mode, address>>
        /\ \A q \in Objects : pc'[q] = IF q \in {o} THEN "gone" ELSE pc[q]
        /\ \A q \in Objects \ {o} : sock'[q] = sock[q]
        /\ \A q \in Objects : (sock'[q] # "none") <=> (sock[q] # "none")
    BY <1>4 DEF Destroy, AllClosed, isValidHandle
  <2> QED
    BY <2>1, ObjectsGo
<1>5. ASSUME NEW p \in Process, Dies(p) PROVE Parent!Destroy(Residents(p))
  <2>1. /\ UNCHANGED <<mode, address>>
        /\ Residents(p) \in SUBSET Objects
        /\ \A q \in Objects : pc'[q] = IF q \in Residents(p) THEN "gone" ELSE pc[q]
        /\ \A q \in Objects \ Residents(p) : sock'[q] = sock[q]
        /\ \A q \in Objects : (sock'[q] # "none") <=> (sock[q] # "none")
    BY <1>5 DEF Dies, AllClosed, isValidHandle, Residents
  <2> QED
    BY <2>1, ObjectsGo
<1>6. ASSUME UNCHANGED vars PROVE UNCHANGED Parent!vars
  <2>1. UNCHANGED <<pc, mode, sock, address>>
    BY <1>6 DEF vars
  <2>2. \A q \in Objects : AttemptState'[q] = AttemptState[q]
    BY <2>1 DEF AttemptState
  <2> QED
    BY <2>1, <2>2, Stutter
<1>7. CASE \E o \in Objects : Construct(o)
  BY <1>1, <1>7 DEF Parent!Next
<1>8. CASE \E o \in Objects, a \in Addresses : dial(o, a) \/ announce(o, a)
  BY <1>2, <1>8 DEF Parent!Next
<1>9. CASE \E o \in Objects : SystemCall(o)
  BY <1>3, <1>9 DEF Parent!Next
<1>10. CASE \E o \in Objects : Destroy(o)
  BY <1>4, <1>10 DEF Parent!Next
<1>11. CASE \E p \in Process : Dies(p)
  <2>1. \A p : Residents(p) \in SUBSET Objects
    BY DEF Residents
  <2> QED
    BY <1>5, <1>11, <2>1 DEF Parent!Next
<1>12. CASE UNCHANGED vars
  BY <1>6, <1>12
<1>13. \A o \in Objects : Home[o] \in Process
  BY SocketAssumption
<1> QED
  BY <1>7, <1>8, <1>9, <1>10, <1>11, <1>12, <1>13
  DEF Next, Refused, WriteToNobody, Crash

(* UnixDomainSocketConnection implements SocketConnection, whatever other  *)
(* objects, other processes and the kernel do in between.                  *)
THEOREM ImplementsParent == Spec => ImplementsSocketConnection
<1>1. Init => Parent!Init
  <2> SUFFICES ASSUME Init PROVE Parent!Init
    OBVIOUS
  <2>1. AttemptState = [o \in Objects |-> "unborn"]
    BY DEF Init, AttemptState
  <2>2. [o \in Objects |-> sock[o] # "none"] = [o \in Objects |-> FALSE]
    BY DEF Init
  <2> QED
    BY <2>1, <2>2 DEF Init, Parent!Init
<1>2. IInv /\ [Next]_vars => [Parent!Next]_(Parent!vars)
  BY StepImplements DEF IInv
<1> QED
  BY <1>1, <1>2, Invariance, PTL DEF Spec, ImplementsSocketConnection, Parent!Spec
=============================================================================
