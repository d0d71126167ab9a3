-------------------------- MODULE SocketConnection --------------------------
(***************************************************************************)
(* What the abstract class SocketConnection promises, whatever address     *)
(* family implements performDial and performAnnounce: an object makes one  *)
(* attempt in its life, in one direction, at one address, and the attempt  *)
(* ends up or failed for good.                                             *)
(*                                                                         *)
(* dial and announce set the mode and the address before they call the     *)
(* virtual function, which then returns or throws.  A call on an object    *)
(* whose mode is set, or whose socket() failed, throws and changes nothing *)
(* (a stuttering step here).                                               *)
(***************************************************************************)
CONSTANTS
  Objects,    \* SocketConnection objects
  Addresses   \* the strings given to dial and announce

VARIABLES
  state,    \* unborn, idle, trying (inside performX), up, failed or gone
  valid,    \* isValidHandle()
  mode,     \* _mode
  address   \* _address

vars == <<state, valid, mode, address>>

Init ==
  /\ state = [o \in Objects |-> "unborn"]
  /\ valid = [o \in Objects |-> FALSE]
  /\ mode = [o \in Objects |-> "Undefined"]
  /\ address = [o \in Objects |-> << >>]

Construct(o) ==
  /\ state[o] = "unborn"
  /\ state' = [state EXCEPT ![o] = "idle"]
  /\ \E v \in BOOLEAN : valid' = [valid EXCEPT ![o] = v]
  /\ UNCHANGED <<mode, address>>

(* Up to the call of the virtual function. *)
Attempt(o, a, m) ==
  /\ state[o] = "idle" /\ mode[o] = "Undefined" /\ valid[o]
  /\ mode' = [mode EXCEPT ![o] = m]
  /\ address' = [address EXCEPT ![o] = a]
  /\ state' = [state EXCEPT ![o] = "trying"]
  /\ UNCHANGED valid

dial(o, a) == Attempt(o, a, "ConnectTo")
announce(o, a) == Attempt(o, a, "Listen")

(* performDial or performAnnounce returns, or throws. *)
Perform(o) ==
  /\ state[o] = "trying"
  /\ \E end \in {"up", "failed"} : state' = [state EXCEPT ![o] = end]
  /\ UNCHANGED <<valid, mode, address>>

(* Objects are destroyed one by one, or all those of a process that dies. *)
Destroy(S) ==
  /\ state' = [o \in Objects |-> IF o \in S THEN "gone" ELSE state[o]]
  /\ UNCHANGED <<valid, mode, address>>

Next ==
  \/ \E o \in Objects :
       \/ Construct(o)
       \/ \E a \in Addresses : dial(o, a) \/ announce(o, a)
       \/ Perform(o)
  \/ \E S \in SUBSET Objects : Destroy(S)

Spec == Init /\ [][Next]_vars
=============================================================================
