------------------------ MODULE FileHandleConnection ------------------------
(***************************************************************************)
(* Who closes what: FileHandleConnection objects of one process and the    *)
(* descriptor table behind them.                                           *)
(*                                                                         *)
(* The class keeps a descriptor number and whether its destructor closes   *)
(* it.  It declares a destructor and nothing else, so the compiler gives   *)
(* it a copy constructor and a copy assignment that copy both members, and *)
(* no move: a container that grows, a by-value return that is not elided   *)
(* and std::move all copy.  Reading and writing through an object is in    *)
(* Connection; what matters here is which file its number stands for.      *)
(***************************************************************************)
EXTENDS Integers

CONSTANTS
  Objects,   \* FileHandleConnection objects (or variables that hold one)
  MaxFd,     \* bound: descriptors are 0 .. MaxFd
  MaxFiles   \* bound: how many files the process opens

ASSUME FileHandleAssumption == MaxFd \in Nat /\ MaxFiles \in Nat

Fd == 0 .. MaxFd
File == 1 .. MaxFiles
Closed == 0    \* no file

VARIABLES
  file,     \* the kernel's table: the file a descriptor stands for, or Closed
  opened,   \* how many files have been opened so far; files are numbered
  held,     \* descriptors the application itself will close
  conn,     \* the objects
  shared,   \* ghost: an owning object was copied
  dropped   \* ghost: an owning object was assigned to

vars == <<file, opened, held, conn, shared, dropped>>

(* `made' is a ghost: the file the number stood for when the object, or    *)
(* the one it is a copy of, was constructed on it.                         *)
NoObject == [alive |-> FALSE, handle |-> -1, destroy |-> FALSE, made |-> Closed]

(* Mutant of isValidHandle: only 0 is taken for invalid. *)
isValidHandleNonzero(o) == conn[o].handle # 0

isValidHandle(o) == conn[o].handle >= 0

(* The destructor of o will close its descriptor. *)
Owns(o) == conn[o].alive /\ isValidHandle(o) /\ conn[o].destroy

Init ==
  /\ file = [fd \in Fd |-> Closed]
  /\ opened = 0
  /\ held = {}
  /\ conn = [o \in Objects |-> NoObject]
  /\ shared = FALSE
  /\ dropped = FALSE

-----------------------------------------------------------------------------
(* open(2), socket(2), accept(2): the lowest free number. *)
Open ==
  /\ opened < MaxFiles
  /\ \E fd \in Fd :
       /\ file[fd] = Closed /\ \A n \in Fd : n < fd => file[n] # Closed
       /\ file' = [file EXCEPT ![fd] = opened + 1]
       /\ held' = held \cup {fd}
  /\ opened' = opened + 1
  /\ UNCHANGED <<conn, shared, dropped>>

(* close(2) by the application, of a descriptor no object was told to      *)
(* close.                                                                  *)
CloseHeld(fd) ==
  /\ fd \in held
  /\ file' = [file EXCEPT ![fd] = Closed]
  /\ held' = held \ {fd}
  /\ UNCHANGED <<opened, conn, shared, dropped>>

(* FileHandleConnection(fd, destroy), and with -1 what a failed socket()   *)
(* gives.  A descriptor handed over for closing is no longer held.         *)
Construct(o, fd, destroy) ==
  /\ ~conn[o].alive
  /\ fd = -1 \/ fd \in held
  /\ conn' = [conn EXCEPT ![o] = [alive |-> TRUE, handle |-> fd, destroy |-> destroy,
                                  made |-> IF fd = -1 THEN Closed ELSE file[fd]]]
  /\ held' = IF destroy THEN held \ {fd} ELSE held
  /\ UNCHANGED <<file, opened, shared, dropped>>

(* FileHandleConnection o(p): the implicit copy constructor. *)
CopyConstruct(o, p) ==
  /\ ~conn[o].alive /\ conn[p].alive
  /\ conn' = [conn EXCEPT ![o] = conn[p]]
  /\ shared' = (shared \/ Owns(p))
  /\ UNCHANGED <<file, opened, held, dropped>>

(* o = p: the implicit copy assignment; what o had is not closed. *)
CopyAssign(o, p) ==
  /\ o # p /\ conn[o].alive /\ conn[p].alive
  /\ conn' = [conn EXCEPT ![o] = conn[p]]
  /\ shared' = (shared \/ Owns(p))
  /\ dropped' = (dropped \/ Owns(o))
  /\ UNCHANGED <<file, opened, held>>

(* Mutant of ClosedBy: the destructor closes whatever the flag says. *)
ClosedByAlways(o) == IF conn[o].handle >= 0 THEN {conn[o].handle} ELSE {}

(* Mutant of ClosedBy: descriptor 0 is taken for an invalid one. *)
ClosedByPositive(o) == IF conn[o].handle > 0 /\ conn[o].destroy THEN {conn[o].handle} ELSE {}

(* The descriptors the destructor of o closes. *)
ClosedBy(o) == IF isValidHandle(o) /\ conn[o].destroy THEN {conn[o].handle} ELSE {}

(* ~FileHandleConnection.  Closing a number that is not open does nothing; *)
(* a number that was reused meanwhile is closed for its new user.          *)
Destroy(o) ==
  /\ conn[o].alive
  /\ file' = [fd \in Fd \cup ClosedBy(o) |-> IF fd \in ClosedBy(o) THEN Closed ELSE file[fd]]
  /\ conn' = [conn EXCEPT ![o] = NoObject]
  /\ UNCHANGED <<opened, held, shared, dropped>>

-----------------------------------------------------------------------------
Next ==
  \/ Open
  \/ \E fd \in Fd : CloseHeld(fd)
  \/ \E o \in Objects :
       \/ \E fd \in Fd \cup {-1}, destroy \in BOOLEAN : Construct(o, fd, destroy)
       \/ \E p \in Objects : CopyConstruct(o, p) \/ CopyAssign(o, p)
       \/ Destroy(o)

Spec == Init /\ [][Next]_vars

-----------------------------------------------------------------------------
(* Types: the table, the objects, and descriptors held are descriptors. *)
TypeOK ==
  /\ file \in [Fd -> File \cup {Closed}]
  /\ opened \in 0 .. MaxFiles
  /\ held \subseteq Fd
  /\ conn \in [Objects -> [alive : BOOLEAN, handle : Fd \cup {-1}, destroy : BOOLEAN,
                           made : File \cup {Closed}]]
  /\ shared \in BOOLEAN /\ dropped \in BOOLEAN

(* A connection that will close its descriptor sends to and receives from  *)
(* the file it was constructed on, however other objects are destroyed and *)
(* their numbers reused, until an owning object has been copied: then both *)
(* close the number, the second one perhaps for a later user of it.        *)
UnsharedOwnersKeepTheirFile ==
  shared \/ \A o \in Objects : Owns(o) => file[conn[o].handle] = conn[o].made

(* No descriptor is lost: one that is open is the application's to close   *)
(* or will be closed by a destructor.  Assigning over an owner is the only *)
(* way to lose one; copies close too often but never too seldom.           *)
NothingLeaks ==
  dropped \/ \A fd \in Fd : file[fd] # Closed =>
               fd \in held \/ \E o \in Objects : Owns(o) /\ conn[o].handle = fd
=============================================================================
