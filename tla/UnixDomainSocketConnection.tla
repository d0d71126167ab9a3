--------------------- MODULE UnixDomainSocketConnection ---------------------
(***************************************************************************)
(* Unix domain sockets: dial and announce of several objects in several    *)
(* processes that use the same file system.                                *)
(*                                                                         *)
(* Every system call is an action of its own, so that the five calls of    *)
(* performAnnounce interleave with those of other processes.  The kernel   *)
(* (socket states, names in the file system, the queue of a listening      *)
(* socket, SIGPIPE) is external and modelled as Linux behaves.  An object  *)
(* binds at most once, so the file its bind creates is named by the        *)
(* object.  An address is a sequence of characters; sun_path holds SunPath *)
(* of them.  The library has no accept: a connection that was made stays   *)
(* in the queue of its server.                                             *)
(***************************************************************************)
EXTENDS Integers, Sequences, FiniteSets

CONSTANTS
  Objects,       \* UnixDomainSocketConnection objects
  Process,       \* the processes they live in
  Home,          \* the process of each object
  Addresses,     \* the strings given to dial and announce
  SunPath,       \* sizeof(sockaddr_un::sun_path)
  Backlog,       \* maximumCacheSize of performAnnounce
  KernelFaults,  \* may system calls fail for reasons of their own?
  NoFile,        \* there is no file of that name
  Leftover       \* a file from before: a dead server's socket, or any other;
                 \* a directory, say, is one that unlink fails on

ASSUME SocketAssumption ==
  /\ Home \in [Objects -> Process]
  /\ SunPath \in Nat \ {0} /\ Backlog \in Nat
  /\ \A a \in Addresses : a \in Seq({a[i] : i \in DOMAIN a})
  /\ KernelFaults \in BOOLEAN
  /\ NoFile \notin Objects /\ Leftover \notin Objects /\ NoFile # Leftover

VARIABLES
  pc,          \* unborn, idle, the next system call of a call under way, gone
  mode,        \* _mode
  address,     \* _address
  sun,         \* the sockaddr_un of the call under way
  sock,        \* the socket: none, open, bound, listening, connected, closed
  peer,        \* the server a socket was connected to, or NoFile
  fs,          \* the file system: what each name stands for
  restricted,  \* sockets whose file mode was set to S_IRWXU
  ignoring,    \* processes that ignore SIGPIPE
  dead,        \* processes that have ended
  failure,     \* ghost: how an object's attempt failed
  raced,       \* ghost: objects whose name was bound by another after unlink
  killed,      \* ghost: processes ended by SIGPIPE
  unheeded     \* ghost: objects whose unlink, and whose chmod, failed

vars == <<pc, mode, address, sun, sock, peer, fs, restricted, ignoring, dead,
          failure, raced, killed, unheeded>>

call == <<mode, address, sun, ignoring>>
ghosts == <<failure, raced, killed, unheeded>>

(* Mutant of Cut: the last place is kept free. *)
CutShort(a) == SubSeq(a, 1, IF Len(a) < SunPath THEN Len(a) ELSE SunPath - 1)

(* getAddress().copy(sa.sun_path, sizeof(sa.sun_path)) *)
Cut(a) == SubSeq(a, 1, IF Len(a) < SunPath THEN Len(a) ELSE SunPath)

(* SUN_LEN is a strlen: an address that fills sun_path has no terminator,  *)
(* the length runs into what lies behind the structure, and the kernel     *)
(* then refuses it unless a zero happens to follow.                        *)
setupStructures(a) ==
  [path : {Cut(a)}, ok : IF Len(a) < SunPath THEN {TRUE} ELSE BOOLEAN]

Name == (Addresses \cup {Cut(a) : a \in Addresses}) \ {<< >>}

isValidHandle(o) == sock[o] # "none"

Init ==
  /\ pc = [o \in Objects |-> "unborn"]
  /\ mode = [o \in Objects |-> "Undefined"]
  /\ address = [o \in Objects |-> << >>]
  /\ sun = [o \in Objects |-> [path |-> << >>, ok |-> FALSE]]
  /\ sock = [o \in Objects |-> "none"]
  /\ peer = [o \in Objects |-> NoFile]
  /\ fs \in [Name -> {NoFile, Leftover}]
  /\ restricted = {}
  /\ ignoring = {}
  /\ dead = {}
  /\ failure = [o \in Objects |-> "none"]
  /\ raced = {}
  /\ killed = {}
  /\ unheeded = [unlink |-> {}, chmod |-> {}]

-----------------------------------------------------------------------------
(* The object and the calls on it. *)

At(o, here) == pc[o] = here
Goto(o, there) == pc' = [pc EXCEPT ![o] = there]

(* The call under way ends with an exception. *)
Throws(o, why) ==
  /\ Goto(o, "idle")
  /\ failure' = [failure EXCEPT ![o] = why]

Construct(o) ==
  /\ At(o, "unborn") /\ Home[o] \notin dead
  /\ Goto(o, "idle")
  /\ \E s \in {"open"} \cup (IF KernelFaults THEN {"none"} ELSE {}) :
       sock' = [sock EXCEPT ![o] = s]
  /\ UNCHANGED <<call, peer, fs, restricted, dead, ghosts>>

(* dial or announce on an object that has a mode, or no socket, throws. *)
Refused(o) ==
  /\ At(o, "idle")
  /\ mode[o] # "Undefined" \/ ~isValidHandle(o)
  /\ UNCHANGED vars

(* Mutant of Begin: an object that failed may try again. *)
BeginAgain(o, a, m, first) ==
  /\ At(o, "idle") /\ sock[o] = "open"
  /\ mode' = [mode EXCEPT ![o] = m]
  /\ address' = [address EXCEPT ![o] = a]
  /\ \E sa \in setupStructures(a) : sun' = [sun EXCEPT ![o] = sa]
  /\ Goto(o, first)
  /\ UNCHANGED <<sock, peer, fs, restricted, dead, ghosts>>

(* What dial and announce do before the first system call. *)
Begin(o, a, m, first) ==
  /\ At(o, "idle") /\ mode[o] = "Undefined" /\ isValidHandle(o)
  /\ mode' = [mode EXCEPT ![o] = m]
  /\ address' = [address EXCEPT ![o] = a]
  /\ \E sa \in setupStructures(a) : sun' = [sun EXCEPT ![o] = sa]
  /\ Goto(o, first)
  /\ UNCHANGED <<sock, peer, fs, restricted, dead, ghosts>>

dial(o, a) == Begin(o, a, "ConnectTo", "connect") /\ UNCHANGED ignoring

(* Mutant of announce: SIGPIPE is left alone. *)
announceQuietly(o, a) == Begin(o, a, "Listen", "options") /\ UNCHANGED ignoring

(* std::signal(SIGPIPE, SIG_IGN) is for the whole process. *)
announce(o, a) ==
  /\ Begin(o, a, "Listen", "options")
  /\ ignoring' = ignoring \cup {Home[o]}

-----------------------------------------------------------------------------
(* performDial *)

Server(path) == {s \in Objects : path \in Name /\ fs[path] = s /\ sock[s] = "listening"}

(* Connections made to s; nothing takes them out of its queue. *)
Queue(s) == {c \in Objects : peer[c] = s}

(* connect(2): a name that leads to no listening socket is refused, and a  *)
(* full queue makes it wait.                                               *)
Connect(o) ==
  /\ At(o, "connect")
  /\ \/ \E s \in Server(sun[o].path) :
          /\ sun[o].ok /\ Cardinality(Queue(s)) <= Backlog
          /\ sock' = [sock EXCEPT ![o] = "connected"]
          /\ peer' = [peer EXCEPT ![o] = s]
          /\ Goto(o, "idle")
          /\ UNCHANGED failure
     \/ /\ KernelFaults \/ ~sun[o].ok \/ Server(sun[o].path) = {}
        /\ Throws(o, "other")
        /\ UNCHANGED <<sock, peer>>
  /\ UNCHANGED <<call, fs, restricted, dead, raced, killed, unheeded>>

-----------------------------------------------------------------------------
(* performAnnounce *)

SetOptions(o) ==
  /\ At(o, "options")
  /\ \/ Goto(o, "unlink") /\ UNCHANGED failure
     \/ KernelFaults /\ Throws(o, "other")
  /\ UNCHANGED <<call, sock, peer, fs, restricted, dead, raced, killed, unheeded>>

(* An empty name makes the kernel choose one that is in no file system. *)
Free(path) == path \in Name => fs[path] = NoFile

Removed(a) == [n \in Name |-> IF n = a THEN NoFile ELSE fs[n]]

(* Mutant of Unlink: only what is a socket in use is removed. *)
UnlinkLive(o) ==
  /\ At(o, "unlink")
  /\ Goto(o, "bind")
  /\ fs' = IF Server(address[o]) = {} THEN fs ELSE Removed(address[o])
  /\ UNCHANGED <<call, sock, peer, restricted, dead, ghosts>>

(* Mutant of Unlink: the name in the sockaddr_un is removed. *)
UnlinkCut(o) ==
  /\ At(o, "unlink")
  /\ Goto(o, "bind")
  /\ fs' = Removed(sun[o].path)
  /\ UNCHANGED <<call, sock, peer, restricted, dead, ghosts>>

(* By the whole address, whatever is there.  The result is not looked at,  *)
(* so a file that cannot be removed is noticed by bind alone.              *)
Unlink(o) ==
  /\ At(o, "unlink")
  /\ Goto(o, "bind")
  /\ \/ fs' = Removed(address[o]) /\ UNCHANGED unheeded
     \/ /\ KernelFaults /\ ~Free(address[o])
        /\ unheeded' = [unheeded EXCEPT !.unlink = @ \cup {o}]
        /\ UNCHANGED fs
  /\ UNCHANGED <<call, sock, peer, restricted, dead, failure, raced, killed>>

Bind(o) ==
  /\ At(o, "bind")
  /\ \/ /\ sun[o].ok /\ Free(sun[o].path)
        /\ fs' = [n \in Name |-> IF n = sun[o].path THEN o ELSE fs[n]]
        /\ sock' = [sock EXCEPT ![o] = "bound"]
        /\ raced' = raced \cup {q \in Objects \ {o} : At(q, "bind") /\ address[q] = sun[o].path}
        /\ Goto(o, "chmod")
        /\ UNCHANGED failure
     \/ /\ ~Free(sun[o].path) \/ ~sun[o].ok \/ KernelFaults
        /\ Throws(o, IF sun[o].ok /\ ~Free(sun[o].path) THEN "in use" ELSE "other")
        /\ UNCHANGED <<fs, sock, raced>>
  /\ UNCHANGED <<call, peer, restricted, dead, killed, unheeded>>

(* Mutants of Chmod: the call is left out, and it is taken for granted     *)
(* that the name is still there.                                           *)
ChmodLeftOut(o) ==
  At(o, "chmod") /\ Goto(o, "listen")
    /\ UNCHANGED <<call, sock, peer, fs, restricted, dead, ghosts>>
ChmodUnchecked(o) ==
  /\ At(o, "chmod")
  /\ Goto(o, "listen")
  /\ restricted' = restricted \cup {fs[address[o]]}
  /\ UNCHANGED <<call, sock, peer, fs, dead, ghosts>>

(* By the whole address again; the result is not looked at and listen      *)
(* comes next all the same.                                                *)
Chmod(o) ==
  /\ At(o, "chmod")
  /\ Goto(o, "listen")
  /\ \/ /\ restricted' = restricted \cup {s \in Objects : address[o] \in Name /\ fs[address[o]] = s}
        /\ UNCHANGED unheeded
     \/ /\ KernelFaults /\ ~Free(address[o])
        /\ unheeded' = [unheeded EXCEPT !.chmod = @ \cup {o}]
        /\ UNCHANGED restricted
  /\ UNCHANGED <<call, sock, peer, fs, dead, failure, raced, killed>>

Listen(o) ==
  /\ At(o, "listen")
  /\ \/ /\ sock' = [sock EXCEPT ![o] = "listening"]
        /\ Goto(o, "idle")
        /\ UNCHANGED failure
     \/ KernelFaults /\ Throws(o, "other") /\ UNCHANGED sock
  /\ UNCHANGED <<call, peer, fs, restricted, dead, raced, killed, unheeded>>

-----------------------------------------------------------------------------
(* The end of objects and processes. *)

(* Mutant of AllClosed: the destructor leaves the socket open. *)
AllClosedNot(S) == sock

(* The sockets after those of S are closed. *)
AllClosed(S) ==
  [o \in Objects |-> IF o \in S /\ isValidHandle(o) THEN "closed" ELSE sock[o]]

(* The destructors; the name in the file system stays. *)
Destroy(o) ==
  /\ At(o, "idle")
  /\ Goto(o, "gone")
  /\ sock' = AllClosed({o})
  /\ UNCHANGED <<call, peer, fs, restricted, dead, ghosts>>

Residents(p) == {o \in Objects : Home[o] = p}

(* A process ends at any point of any call. *)
Dies(p) ==
  /\ pc' = [o \in Objects |-> IF o \in Residents(p) THEN "gone" ELSE pc[o]]
  /\ sock' = AllClosed(Residents(p))
  /\ dead' = dead \cup {p}
  /\ UNCHANGED <<call, peer, fs, restricted, failure, raced, unheeded>>

Crash(p) ==
  /\ p \notin dead
  /\ Dies(p)
  /\ UNCHANGED killed

(* Connection::write on a connected socket whose server is gone: EPIPE,    *)
(* and SIGPIPE before it.  Where that is ignored, write throws.            *)
WriteToNobody(o) ==
  /\ At(o, "idle") /\ sock[o] = "connected" /\ sock[peer[o]] = "closed"
  /\ \/ /\ Home[o] \notin ignoring
        /\ Dies(Home[o])
        /\ killed' = killed \cup {Home[o]}
     \/ /\ Home[o] \in ignoring
        /\ UNCHANGED vars

-----------------------------------------------------------------------------
SystemCall(o) ==
  \/ Connect(o)
  \/ SetOptions(o) \/ Unlink(o) \/ Bind(o) \/ Chmod(o) \/ Listen(o)

Next ==
  \/ \E o \in Objects :
       \/ Construct(o) \/ Refused(o)
       \/ \E a \in Addresses : dial(o, a) \/ announce(o, a)
       \/ SystemCall(o)
       \/ Destroy(o)
       \/ WriteToNobody(o)
  \/ \E p \in Process : Crash(p)

Spec == Init /\ [][Next]_vars

(* connect is not waiting for room in the queue of a server. *)
CanReturn(o) ==
  At(o, "connect") /\ sun[o].ok =>
    \A s \in Server(sun[o].path) : Cardinality(Queue(s)) <= Backlog

(* A system call that can return does, and its caller goes on to the next. *)
(* Nobody has to dial, announce or destroy, and a connect that waits need  *)
(* not be ended by a failure.                                              *)
FairSpec == Spec /\ \A o \in Objects : WF_vars(SystemCall(o) /\ CanReturn(o))

-----------------------------------------------------------------------------
(* Types, and the phase of a call agrees with the mode it set. *)
TypeOK ==
  /\ pc \in [Objects -> {"unborn", "idle", "connect", "options", "unlink", "bind", "chmod",
                         "listen", "gone"}]
  /\ mode \in [Objects -> {"Undefined", "ConnectTo", "Listen"}]
  /\ address \in [Objects -> Addresses \cup {<< >>}]
  /\ sun \in [Objects -> [path : Name \cup {<< >>}, ok : BOOLEAN]]
  /\ sock \in [Objects -> {"none", "open", "bound", "listening", "connected", "closed"}]
  /\ peer \in [Objects -> Objects \cup {NoFile}]
  /\ fs \in [Name -> Objects \cup {NoFile, Leftover}]
  /\ restricted \subseteq Objects /\ raced \subseteq Objects
  /\ ignoring \subseteq Process /\ dead \subseteq Process /\ killed \subseteq dead
  /\ failure \in [Objects -> {"none", "in use", "other"}]
  /\ unheeded \in [unlink : SUBSET Objects, chmod : SUBSET Objects]

(* No client can get at a server before its socket file is closed to other *)
(* users: a listening socket that a name leads to has had its mode set,    *)
(* however the unlink, bind, chmod and listen of several servers on that   *)
(* name interleave.  The one server that is open to all is the one whose   *)
(* own chmod failed, as announce does not look; the chmod of another, or   *)
(* one by the name of a server that lost it, never makes the difference.   *)
(* It takes chmod before listen, and an address that was not cut: a longer *)
(* one is chmod'ed by a name it was not bound to.                          *)
ReachableIsRestricted ==
  \A n \in Name : \A s \in Server(n) :
    address[s] = n => s \in restricted \/ s \in unheeded.chmod

(* A server that starts again finds its name free whatever its predecessor *)
(* left behind, unless it could not remove it: bind finds the name in use  *)
(* only if another server bound it since the unlink, if the address was    *)
(* cut and the unlink missed it, or if its own unlink failed unheeded.     *)
OnlyRacesLoseTheName ==
  \A o \in Objects :
    failure[o] = "in use" =>
      o \in raced \/ Len(address[o]) > SunPath \/ o \in unheeded.unlink

(* A server that has bound its name loses it only to an object that        *)
(* announces that very name: the unlink of an address that was cut does    *)
(* not hit the server that has the cut name, and no crash, failed call or  *)
(* destructor frees a name.                                                *)
OnlyAnnouncersTakeTheName ==
  \A o \in Objects :
    sock[o] \in {"bound", "listening"} /\ Cut(address[o]) # << >> /\ fs[Cut(address[o])] # o
      => \E q \in Objects \ {o} : mode[q] = "Listen" /\ address[q] = Cut(address[o])

(* A dial that returns is connected to a server that announced the same    *)
(* address, if that address fits sun_path with its terminator.             *)
ShortDialReachesAnnounced ==
  \A c, s \in Objects :
    peer[c] = s /\ Len(address[c]) < SunPath => address[s] = address[c]

(* A process in which a server was announced is not ended by SIGPIPE, also *)
(* not through another of its connections.                                 *)
AnnouncersSurvivePipe ==
  [][\A o \in Objects : mode[o] = "Listen" => Home[o] \notin killed' \ killed]_vars

(* A write that fails throws; it does not end the process. *)
FailedWriteThrows == killed = {}

(* A dial that waits for a place in the queue of a server is over once all *)
(* servers are gone.                                                       *)
OthersGone(c) == \A o \in Objects \ {c} : pc[o] = "gone"
WaitEndsWithServer ==
  \A c \in Objects : (At(c, "connect") /\ OthersGone(c)) ~> ~At(c, "connect")

-----------------------------------------------------------------------------
(* The class keeps the promises of the abstract class it derives from: the *)
(* state of the attempt is read off the socket itself.                     *)
AttemptState ==
  [o \in Objects |->
     CASE pc[o] \in {"unborn", "gone"} -> pc[o]
       [] pc[o] \notin {"unborn", "gone", "idle"} -> "trying"
       [] OTHER -> IF mode[o] = "Undefined" THEN "idle"
                   ELSE IF sock[o] \in {"listening", "connected"} THEN "up" ELSE "failed"]

Parent == INSTANCE SocketConnection
          WITH state <- AttemptState, valid <- [o \in Objects |-> sock[o] # "none"]

ImplementsSocketConnection == Parent!Spec
=============================================================================
