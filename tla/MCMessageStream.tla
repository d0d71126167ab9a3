-------------------------- MODULE MCMessageStream --------------------------
(* Instances of MessageStream for TLC.  With Base 2 every integer of every *)
(* width is enumerated and the longest string has three characters.        *)
EXTENDS MessageStream

Item(type, S) == {[type |-> type, value |-> v] : v \in S}

Ones(n) == [i \in 1 .. n |-> 1]

MCItems ==
  Item("u8", Byte) \cup Item("u16", U16) \cup Item("u32", U32)
    \cup Item("u64", {<<a, b>> : a \in {0, 6, 15}, b \in {0, 9}})
    \cup Item("str", { << >>, <<1>>, <<0, 1, 1>>, Ones(4) })

(* Every uint64_t, alone on the stream. *)
MCWideItems == Item("u64", U64)

MCTargets == { << >>, <<0, 1>> }

(* A default-constructed std::string, as every message member is. *)
MCFreshTarget == { << >> }

MCInputs  == { << >>, <<0>>, <<1, 1, 0>> }
MCJunk    == { <<0>>, <<1, 0>> }
=============================================================================
