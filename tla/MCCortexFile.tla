---------------------------- MODULE MCCortexFile ----------------------------
(* Instances of CortexFile for TLC. *)
EXTENDS CortexFile

NoOne == {}
OneConv == {<<1, 1>>}
NoFreeze == [x \in (1..N) \X (1..L) |-> 0]
OneFrozen == [x \in (1..N) \X (1..L) |-> 1]
=============================================================================
