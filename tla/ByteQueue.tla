----------------------------- MODULE ByteQueue -----------------------------
(***************************************************************************)
(* What a MessageStream promises about its bytes: a queue that calls which *)
(* put add to at the end, calls which get take from at the front, and that *)
(* is replaced or emptied only by str and reset.  Reading past the end     *)
(* kills it for good.  Once bytes given to str have been written over,     *)
(* nothing is promised until the next str or reset.                        *)
(***************************************************************************)
EXTENDS Naturals, SequencesExt

VARIABLES
  queue,     \* the bytes that can still be read
  dead,      \* no byte can be read or put any more
  blurred,   \* unread bytes were written over
  call       \* the last call

vars == <<queue, dead, blurred, call>>

Init == queue = << >> /\ dead = FALSE /\ blurred = FALSE /\ call = "none"

(* encode and write: all of it at the end, or nothing. *)
PutCall ==
  /\ call' \in {"encode", "write"}
  /\ UNCHANGED <<dead, blurred>>
  /\ blurred \/ (IF dead THEN queue' = queue ELSE IsPrefix(queue, queue'))

(* An encode that throws. *)
PutThrows ==
  /\ call' = "encode threw"
  /\ UNCHANGED <<queue, dead, blurred>>

(* The first put after str() with bytes goes over them. *)
Blur ==
  /\ call' \in {"encode", "write"}
  /\ ~dead /\ blurred' = TRUE
  /\ UNCHANGED dead

(* decode: from the front; asking for more than there is kills the queue. *)
GetCall ==
  /\ call' \in {"decode", "overrun"}
  /\ \/ IsSuffix(queue', queue) /\ UNCHANGED dead
     \/ queue' = << >> /\ dead' = TRUE
  /\ UNCHANGED blurred

(* peek: takes nothing, and at the end kills the queue all the same. *)
PeekCall ==
  /\ call' = "peek"
  /\ queue' = queue
  /\ dead' = (dead \/ queue = << >>)
  /\ UNCHANGED blurred

Refill ==
  /\ call' = "str"
  /\ dead => queue' = << >>
  /\ blurred' = FALSE
  /\ UNCHANGED dead

Clear ==
  /\ call' = "reset"
  /\ queue' = << >>
  /\ blurred' = FALSE
  /\ UNCHANGED dead

Next == PutCall \/ PutThrows \/ Blur \/ GetCall \/ PeekCall \/ Refill \/ Clear

Spec == Init /\ [][Next]_vars
=============================================================================
