----------------------------- MODULE MCEGServer -----------------------------
(***************************************************************************)
(* Instances of EGServer for TLC.                                          *)
(***************************************************************************)
EXTENDS EGServer, TLC

Lengths(n) == [s \in Stops |-> IF s = 0 THEN n ELSE 1]
Answers1 == Lengths(1)
Answers3 == Lengths(3)

AllHeaders == {0, -4, 1}
GoodHeader == {0}
KidSymmetry == Permutations(Kids) \cup Permutations(Conns)
=============================================================================
