---------------------------- MODULE MCConnection ----------------------------
(* Instances of Connection for TLC. *)
EXTENDS Connection

Zeros(n) == [i \in 1 .. n |-> 0]

(* With Base 2 the length field counts to 15: an empty stream, a short     *)
(* one, the longest whose frame length does not wrap, which is also longer *)
(* than a single rawRead takes, and one of a length it cannot hold.        *)
MCContents == { << >>, <<1>>, Zeros(11), Zeros(16) }

(* One ordinary short message. *)
MCOneMessage == { <<1, 2, 0>> }
=============================================================================
