---------------------------- MODULE TileGeometry ----------------------------
(***************************************************************************)
(* Which tiles TileServer (src/tileserver.cc) makes from which: level z is *)
(* a torus of Side[z] by Side[z] tiles.  A quad of level z is named by the *)
(* first of the four tiles of level z - 1 it is made from; its own four    *)
(* tiles lie in the middle of those.                                       *)
(***************************************************************************)
EXTENDS Integers

CONSTANTS MaxZ,   \* the deepest level: below 32 in the code
          Side    \* 1 << z, for every level z

ASSUME GeometryAssumption ==
    /\ MaxZ \in Nat
    /\ Side \in [0..MaxZ -> Nat \ {0}]
    /\ Side[0] = 1
    /\ \A z \in 1..MaxZ : Side[z] = 2 * Side[z - 1]

Level(z) == (0..Side[z] - 1) \X (0..Side[z] - 1) \X {z}
Root == <<0, 0, 0>>
Tiles == UNION {Level(z) : z \in 0..MaxZ}
Places == 0..3

\* x & ((1 << z) - 1), of an unsigned x: what lies beyond an edge wraps round.
Masked(x, z) == x % Side[z]

Step(i) == i % 2       \* the column of place i in a square of four
Rise(i) == i \div 2    \* its row

(***************************************************************************)
(* px and py, for the quad of a tile of level z > 0.                       *)
(***************************************************************************)
Before(x) == (x \div 2) + IF x % 2 = 1 THEN 0 ELSE -1
QuadOf(t) == <<Masked(Before(t[1]), t[3] - 1), Masked(Before(t[2]), t[3] - 1), t[3] - 1>>

Parent(q, i) == <<Masked(q[1] + Step(i), q[3]), Masked(q[2] + Rise(i), q[3]), q[3]>>
\* Mutated form: the quad starts at the first parent's own corner.
ChildAligned(q, i) ==
    <<Masked(2 * q[1] + Step(i), q[3] + 1), Masked(2 * q[2] + Rise(i), q[3] + 1), q[3] + 1>>
Child(q, i) ==
    <<Masked(2 * q[1] + 1 + Step(i), q[3] + 1), Masked(2 * q[2] + 1 + Rise(i), q[3] + 1), q[3] + 1>>

(***************************************************************************)
(* Every tile is one of its quad's four, so that tile_rgb finds the tile   *)
(* it was asked for and tile_png finds its file afterwards; it belongs to  *)
(* that quad only, so that whichever tile of a quad is asked for, the same *)
(* four are made from the same four; and the tile of the level above that  *)
(* it lies in is one of those it is made from.                             *)
(***************************************************************************)
LiesIn(t) == <<t[1] \div 2, t[2] \div 2, t[3] - 1>>
InItsQuad(t) == \E i \in Places : Child(QuadOf(t), i) = t
MadeFromAbove(t) == \E i \in Places : Parent(QuadOf(t), i) = LiesIn(t)
OneQuad(q) == \A i \in Places : QuadOf(Child(q, i)) = q
QuadsFit ==
    \A z \in 1..MaxZ :
        /\ \A t \in Level(z) : InItsQuad(t) /\ MadeFromAbove(t)
        /\ \A q \in Level(z - 1) : OneQuad(q)
=============================================================================
