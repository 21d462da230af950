---------------------------- MODULE MCTileServer ----------------------------
(***************************************************************************)
(* Instances of TileServer for TLC.                                        *)
(***************************************************************************)
EXTENDS TileServer, TLC

TwoTiles == {0, 1}
Pngs == [h \in TwoTiles |-> 1 + h]
=============================================================================
