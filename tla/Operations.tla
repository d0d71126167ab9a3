----------------------------- MODULE Operations -----------------------------
(***************************************************************************)
(* The operation codes of 9P2000 as Operations.h lays them out, and the    *)
(* switches that relate a code, its concept and its direction.             *)
(***************************************************************************)
EXTENDS Integers

(* KZR_PROTOCOL_KINDS: the T code of each kind, the R code is the next. *)
Code ==
  [ Version |-> 100, Auth   |-> 102, Attach |-> 104, Error |-> 106, Flush |-> 108,
    Walk    |-> 110, Open   |-> 112, Create |-> 114, Read  |-> 116, Write |-> 118,
    Clunk   |-> 120, Remove |-> 122, Stat   |-> 124, WStat |-> 126 ]

Kind == DOMAIN Code

TBad == 254
RBad == 255

convert(op) ==
  LET named == {k \in Kind : op \in {Code[k], Code[k] + 1}}
  IN  IF named = {} THEN "Undefined" ELSE CHOOSE k \in named : TRUE

getTMessageForm(kind) == IF kind \in Kind THEN Code[kind] ELSE TBad
getRMessageForm(kind) == IF kind \in Kind THEN Code[kind] + 1 ELSE RBad

isRequest(op)  == op % 2 = 0
isResponse(op) == op % 2 # 0

(* MessageDirection is "Request" or "Response". *)
translateConcept(kind, dir) ==
  IF dir = "Request" THEN getTMessageForm(kind) ELSE getRMessageForm(kind)

expectedResponseKind(op) ==
  IF isRequest(op) /\ \E k \in Kind : op = Code[k] THEN op + 1 ELSE RBad
=============================================================================
