--------------------------- MODULE MessageChannel ---------------------------
(***************************************************************************)
(* What a Connection promises its two ends: whole messages, in the order   *)
(* they were written, received once each and in that order.  A write that  *)
(* throws has sent nothing, or has broken the channel for the receiver.    *)
(***************************************************************************)
EXTENDS Naturals, Sequences

CONSTANT Messages   \* what may be sent

VARIABLES
  sent,      \* messages whose write returned, oldest first
  received,  \* messages a read has handed on
  broken     \* part of a message went out

vars == <<sent, received, broken>>

Init == sent = << >> /\ received = << >> /\ broken = FALSE

Send(m) == sent' = Append(sent, m) /\ UNCHANGED <<received, broken>>

Break == broken' = TRUE /\ UNCHANGED <<sent, received>>

Receive ==
  /\ ~broken /\ Len(received) < Len(sent)
  /\ received' = Append(received, sent[Len(received) + 1])
  /\ UNCHANGED <<sent, broken>>

Next == (\E m \in Messages : Send(m)) \/ Break \/ Receive

Spec == Init /\ [][Next]_vars
=============================================================================
