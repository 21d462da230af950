---------------------------- MODULE MCServerProcs ---------------------------
(***************************************************************************)
(* Instances of ServerProcs for TLC.                                       *)
(***************************************************************************)
EXTENDS ServerProcs, TLC

Sides == [z \in 0..MaxZ |-> 2^z]

Quad1 == {<<x, y, 1>> : x \in 0..1, y \in 0..1}
KidSymmetry == Permutations(Kids)
=============================================================================
