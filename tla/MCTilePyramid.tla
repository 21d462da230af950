---------------------------- MODULE MCTilePyramid ---------------------------
(***************************************************************************)
(* Instances of TilePyramid for TLC.                                       *)
(***************************************************************************)
EXTENDS TilePyramid

Sides == [z \in 0..MaxZ |-> 2^z]

Neighbours == {<<0, 3, 2>>, <<2, 2, 2>>, <<1, 0, 1>>}
=============================================================================
