---------------------------- MODULE MCCortexMake ----------------------------
(* Instances of CortexMake for TLC. *)
EXTENDS CortexMake, TLC

MakeSymmetry == Permutations(Makers)
=============================================================================
