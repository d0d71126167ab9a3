--------------------------- MODULE MCInteraction ---------------------------
(* Instances of Interaction for TLC: at least one message of every class,  *)
(* with a value of its own for every member.                               *)
EXTENDS Interaction

(* No byte but the first of a message is an operation code, and integers   *)
(* are small: what a stream read from the wrong place is taken for stays   *)
(* small enough for TLC.                                                   *)
MCStr(n) == [i \in 1 .. n |-> 40 + i]

MCQid(n) == [type |-> 64, version |-> 6 + n, path |-> <<8 + n, 21>>]

MCStat ==
  [type |-> 26, dev |-> 27, qid |-> MCQid(0), mode |-> 28, atime |-> 29, mtime |-> 30,
   length |-> <<31, 32>>, name |-> MCStr(1), uid |-> MCStr(2), gid |-> << >>, muid |-> MCStr(1)]

(* One value for each member, by name. *)
MCMember ==
  [ tag |-> 5, msize |-> 18, version |-> MCStr(2), afid |-> 66, uname |-> MCStr(1),
    aname |-> MCStr(3), ename |-> MCStr(2), oldtag |-> 19, fid |-> 3, newfid |-> 9,
    wname |-> <<MCStr(1), MCStr(2)>>, wqid |-> <<MCQid(0), MCQid(1)>>, qid |-> MCQid(0),
    mode |-> 17, iounit |-> 20, name |-> MCStr(3), perm |-> 23, offset |-> <<24, 25>>,
    count |-> 22, data |-> <<9, 0, 8>>, stat |-> MCStat ]

MCMessage(kind, dir) ==
  LET m == NewMessage(kind, dir)
  IN  [m EXCEPT !.body = [f \in DOMAIN m.body |->
         IF f = "op" \/ (f = "tag" /\ kind = "Version") THEN m.body[f] ELSE MCMember[f]]]

MCAll == {MCMessage(kind, dir) : kind \in Kind, dir \in {"Request", "Response"}}

(* A string one longer than its length field can say. *)
MCTooLong == [i \in 1 .. M16 |-> 0]

MCThrowing ==
  { UndefinedMessage("Request"),
    [MCMessage("Walk", "Request") EXCEPT !.body.wname = <<MCStr(1), MCTooLong>>] }

MCMessages == MCAll \cup MCThrowing

MCArrivals == { MCMessage("Walk", "Request"), MCMessage("Read", "Response") }

MCJunk == { <<0>> }
=============================================================================
