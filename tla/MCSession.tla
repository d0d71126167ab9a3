----------------------------- MODULE MCSession -----------------------------
(* Instances of Session for TLC: the smallest classes, and one that throws *)
(* after its header is out.                                                *)
EXTENDS Session

(* A response of three bytes, a request of seven. *)
MCFlushed == [NewMessage("Flush", "Response") EXCEPT !.body.tag = 5]
MCClunk   == [NewMessage("Clunk", "Request") EXCEPT !.body.tag = 5, !.body.fid = 3]

MCLongName == [i \in 1 .. M16 |-> 0]
MCThrows   == [NewMessage("Error", "Response") EXCEPT !.body.ename = MCLongName]

MCMessages == { MCFlushed, MCThrows }
MCReplies  == { MCFlushed }
MCArrivals == { MCClunk }

MCJunk == { <<0>> }
=============================================================================
