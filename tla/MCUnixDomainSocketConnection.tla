-------------------- MODULE MCUnixDomainSocketConnection --------------------
(* Instances of UnixDomainSocketConnection for TLC.  sun_path holds two    *)
(* characters.                                                             *)
EXTENDS UnixDomainSocketConnection, TLC

CONSTANTS a, b, c

MCObjects == {a, b, c}

(* a and c share a process. *)
MCShared == (a :> a) @@ (b :> b) @@ (c :> a)

(* One address. *)
MCOne == { <<1>> }

(* An empty address, one that fits, one that fills sun_path and one that   *)
(* is cut to that.                                                         *)
MCMixed == { << >>, <<1>>, <<1, 2>>, <<1, 2, 3>> }

(* Two objects in two processes. *)
MCTwo == {a, b}
MCTwoApart == [o \in MCTwo |-> o]
=============================================================================
