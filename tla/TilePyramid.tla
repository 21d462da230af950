---------------------------- MODULE TilePyramid -----------------------------
(***************************************************************************)
(* The tile directory of TileServer (src/tileserver.cc): tile_png looks a  *)
(* tile up and, when it is missing, tile_rgb gets the four tiles of the    *)
(* level above (each in the same way), synthesises the four tiles of the   *)
(* quad from them and put_tile publishes those that are not yet there.     *)
(* The kids share the directory and take no lock; a kid may be killed      *)
(* between any two steps, and the server started again on the directory.   *)
(*                                                                         *)
(* A chain may hold layers that add noise, so that two syntheses from the  *)
(* same input differ: a picture is known by the synthesis it came from and *)
(* its place in it.                                                        *)
(***************************************************************************)
EXTENDS TileGeometry, Sequences

CONSTANTS Kids,      \* the server processes
          Asked,     \* the tiles that peers ask for, all with z < 32
          Kills      \* bound: how many times a kid is killed

ASSUME PyramidAssumption == Asked \subseteq Tiles /\ Kills \in Nat

None == <<-1, 0>>          \* no file, no picture
RootPicture == <<0, 0>>    \* the picture in root
NoJob == [tile |-> None, at |-> "idle"]

VARIABLES
    file,      \* the picture in each tile's file
    job,       \* the tile each kid's tile_png is called for, and whether
               \* tile_rgb was called for it
    calls,     \* each kid's calls of tile_rgb, the innermost last
    synths,    \* history: what each synthesis was of
    killed     \* how often each kid was killed

vars == <<file, job, calls, synths, killed>>

(***************************************************************************)
(* A call of tile_rgb: its tile, the place it has among its caller's       *)
(* parents, where it is, the parents' pictures it has got, the picture of  *)
(* the quad, and the place of the next tile to put.                        *)
(***************************************************************************)
Call(t, i, at) ==
    [tile |-> t, slot |-> i, at |-> at, have |-> [j \in Places |-> None], made |-> 0, next |-> 0]

Idle(k) == job[k] = NoJob
Innermost(k) == calls[k][Len(calls[k])]
Running(k, at) == calls[k] # <<>> /\ Innermost(k).at = at
Quad(k) == QuadOf(Innermost(k).tile)
Going(k, call) == calls' = [calls EXCEPT ![k][Len(calls[k])] = call]
On(t) == file[t] # None

(***************************************************************************)
(* tile_rgb returns: to the call of tile_rgb that wanted it as a parent,   *)
(* or to tile_png, which only frees it.                                    *)
(***************************************************************************)
\* Mutated form: it is always the first tile of the quad that is returned.
ReturnsFirst(k, picture) ==
    LET n == Len(calls[k])
        outer == SubSeq(calls[k], 1, n - 1)
    IN  calls' = [calls EXCEPT ![k] =
                     IF n = 1 THEN outer
                     ELSE [outer EXCEPT ![n - 1].have[Innermost(k).slot] = <<picture[1], 0>>]]
\* Mutated form: the parent that was got is not kept.
ReturnsUnkept(k, picture) == calls' = [calls EXCEPT ![k] = SubSeq(@, 1, Len(@) - 1)]
Returns(k, picture) ==
    LET n == Len(calls[k])
        outer == SubSeq(calls[k], 1, n - 1)
    IN  calls' = [calls EXCEPT ![k] =
                     IF n = 1 THEN outer
                     ELSE [outer EXCEPT ![n - 1].have[Innermost(k).slot] = picture]]

Init ==
    /\ file = [t \in Tiles |-> IF t = Root THEN RootPicture ELSE None]
    /\ job = [k \in Kids |-> NoJob]
    /\ calls = [k \in Kids |-> <<>>]
    /\ synths = <<>>
    /\ killed = [k \in Kids |-> 0]

-----------------------------------------------------------------------------
(* tile_png. *)

(***************************************************************************)
(* A tile that there is, of a level below 32: handle passes on what a peer *)
(* asks for without a test of z, and tile_png asserts z < 32, so that a    *)
(* kid asked for more ends here.  What x and y are worth, once masked, is  *)
(* TileGeometry's.                                                         *)
(***************************************************************************)
Ask(k) ==
    /\ Idle(k)
    /\ \E t \in Asked : job' = [job EXCEPT ![k] = [tile |-> t, at |-> "look"]]
    /\ UNCHANGED <<file, calls, synths, killed>>

(***************************************************************************)
(* The file is there, at the first look or after tile_rgb, and is sent.    *)
(***************************************************************************)
Found(k) ==
    /\ ~Idle(k)
    /\ calls[k] = <<>>
    /\ On(job[k].tile)
    /\ job' = [job EXCEPT ![k] = NoJob]
    /\ UNCHANGED <<file, calls, synths, killed>>

Missing(k) ==
    /\ ~Idle(k)
    /\ job[k].at = "look"
    /\ ~On(job[k].tile)
    /\ job' = [job EXCEPT ![k].at = "rgb"]
    /\ calls' = [calls EXCEPT ![k] = <<Call(job[k].tile, 0, "gather")>>]
    /\ UNCHANGED <<file, synths, killed>>

-----------------------------------------------------------------------------
(* tile_rgb and put_tile. *)

Load(k) ==
    /\ Running(k, "look")
    /\ On(Innermost(k).tile)
    /\ Returns(k, file[Innermost(k).tile])
    /\ UNCHANGED <<file, job, synths, killed>>

NotThere(k) ==
    /\ Running(k, "look")
    /\ ~On(Innermost(k).tile)
    /\ Going(k, [Innermost(k) EXCEPT !.at = "gather"])
    /\ UNCHANGED <<file, job, synths, killed>>

(***************************************************************************)
(* The next parent in the random order.                                    *)
(***************************************************************************)
WantParent(k) ==
    /\ Running(k, "gather")
    /\ \E i \in Places :
          /\ Innermost(k).have[i] = None
          /\ calls' = [calls EXCEPT ![k] = Append(@, Call(Parent(Quad(k), i), i, "look"))]
    /\ UNCHANGED <<file, job, synths, killed>>

Synth(k) ==
    /\ Running(k, "gather")
    /\ \A i \in Places : Innermost(k).have[i] # None
    /\ synths' = Append(synths, [kid |-> k, quad |-> Quad(k), of |-> Innermost(k).have])
    /\ Going(k, [Innermost(k) EXCEPT !.at = "put", !.made = Len(synths) + 1])
    /\ UNCHANGED <<file, job, killed>>

(***************************************************************************)
(* put_tile: a tile that is there is left alone; otherwise the file is     *)
(* written apart and renamed over whatever is there by then.               *)
(***************************************************************************)
\* Mutated form: the first tile found ends the loop.
PutNoMore(k) ==
    /\ Running(k, "put")
    /\ Innermost(k).next \in Places
    /\ On(Child(Quad(k), Innermost(k).next))
    /\ Going(k, [Innermost(k) EXCEPT !.next = 4])
    /\ UNCHANGED <<file, job, synths, killed>>
PutNothing(k) ==
    /\ Running(k, "put")
    /\ Innermost(k).next \in Places
    /\ On(Child(Quad(k), Innermost(k).next))
    /\ Going(k, [Innermost(k) EXCEPT !.next = @ + 1])
    /\ UNCHANGED <<file, job, synths, killed>>

\* Mutated form: put_tile does not look first.
PutBlindly(k) ==
    /\ Running(k, "put")
    /\ Innermost(k).next \in Places
    /\ Going(k, [Innermost(k) EXCEPT !.at = "publish"])
    /\ UNCHANGED <<file, job, synths, killed>>
Put(k) ==
    /\ Running(k, "put")
    /\ Innermost(k).next \in Places
    /\ ~On(Child(Quad(k), Innermost(k).next))
    /\ Going(k, [Innermost(k) EXCEPT !.at = "publish"])
    /\ UNCHANGED <<file, job, synths, killed>>

Publish(k) ==
    /\ Running(k, "publish")
    /\ LET c == Innermost(k)
       IN  /\ file' = [file EXCEPT ![Child(Quad(k), c.next)] = <<c.made, c.next>>]
           /\ Going(k, [c EXCEPT !.at = "put", !.next = @ + 1])
    /\ UNCHANGED <<job, synths, killed>>

\* Mutated form: three of the four tiles are put.
ReturnEarly(k) ==
    /\ Running(k, "put")
    /\ Innermost(k).next = 3
    /\ \E i \in Places :
          /\ Child(Quad(k), i) = Innermost(k).tile
          /\ Returns(k, <<Innermost(k).made, i>>)
    /\ UNCHANGED <<file, job, synths, killed>>
Return(k) ==
    /\ Running(k, "put")
    /\ Innermost(k).next \notin Places
    /\ \E i \in Places :
          /\ Child(Quad(k), i) = Innermost(k).tile
          /\ Returns(k, <<Innermost(k).made, i>>)
    /\ UNCHANGED <<file, job, synths, killed>>

-----------------------------------------------------------------------------
(***************************************************************************)
(* A kid is killed (Server::stop sends signal 9), and runs again later.    *)
(***************************************************************************)
Kill(k) ==
    /\ killed[k] < Kills
    /\ ~Idle(k)
    /\ killed' = [killed EXCEPT ![k] = @ + 1]
    /\ job' = [job EXCEPT ![k] = NoJob]
    /\ calls' = [calls EXCEPT ![k] = <<>>]
    /\ UNCHANGED <<file, synths>>

TilePng(k) == Ask(k) \/ Found(k) \/ Missing(k)
TileRgb(k) ==
    \/ Load(k) \/ NotThere(k) \/ WantParent(k) \/ Synth(k)
    \/ PutNothing(k) \/ Put(k) \/ Publish(k) \/ Return(k)

Next == \E k \in Kids : TilePng(k) \/ TileRgb(k) \/ Kill(k)

(***************************************************************************)
(* Every kid keeps running until it is killed; no peer has to ask.         *)
(***************************************************************************)
Spec == Init /\ [][Next]_vars
FairSpec == Spec /\ \A k \in Kids : WF_vars(Found(k) \/ Missing(k) \/ TileRgb(k))

-----------------------------------------------------------------------------
\* where a call of tile_rgb is
Ats == {"look", "gather", "put", "publish"}

(***************************************************************************)
(* The assertions z > 0 of tile_rgb and of put_tile and the assert(0) at   *)
(* the end of tile_rgb hold in every call, however deep, whatever files    *)
(* are there: the recursion stops at the root at the latest, and a tile    *)
(* that is made is one of the four of its quad, which no other four tiles  *)
(* of the level above would be taken for.                                  *)
(***************************************************************************)
CallsFit ==
    \A k \in Kids : \A n \in 1..Len(calls[k]) :
        LET c == calls[k][n]
        IN  c.at # "look" =>
                /\ c.tile[3] > 0
                /\ InItsQuad(c.tile)
                /\ MadeFromAbove(c.tile)
                /\ OneQuad(QuadOf(c.tile))

(***************************************************************************)
(* When tile_rgb has returned, the file that tile_png opens again is       *)
(* there, whatever other kids did to the quad meanwhile and however much   *)
(* of it a killed kid left: the assert(0) at its end is not reached.       *)
(***************************************************************************)
NeverAborts ==
    \A k \in Kids : job[k].at = "rgb" /\ calls[k] = <<>> => On(job[k].tile)

(***************************************************************************)
(* With one kid, a tile that was published, and perhaps sent to a peer,    *)
(* does not change, also when the kid is killed amid a quad.               *)
(***************************************************************************)
Frozen == [][\A t \in Tiles : On(t) => file'[t] = file[t]]_vars

(***************************************************************************)
(* With one kid, every tile lies on, and was synthesised from, the four    *)
(* pictures that are published for its parents: zooming in shows more of   *)
(* the picture above, never of one that was thrown away.                   *)
(***************************************************************************)
FromPublished ==
    \A t \in Tiles \ {Root} : On(t) =>
        LET s == synths[file[t][1]]
        IN  /\ t = Child(s.quad, file[t][2])
            /\ \A i \in Places : s.of[i] = file[Parent(s.quad, i)]
            /\ \E i \in Places : Parent(s.quad, i) = LiesIn(t)

(***************************************************************************)
(* A kid synthesises a quad at most once, unless it is killed amid it:     *)
(* neither the recursion over shared parents nor other kids make it do     *)
(* the expensive work again.                                               *)
(***************************************************************************)
OncePerKid ==
    \A k \in Kids : \A m, n \in 1..Len(synths) :
        synths[m].kid = k /\ synths[n].kid = k /\ synths[m].quad = synths[n].quad =>
            m = n \/ killed[k] > 0

(***************************************************************************)
(* A tile that was asked for is sent, or its kid is killed.                *)
(***************************************************************************)
Served == \A k \in Kids : ~Idle(k) ~> Idle(k)
=============================================================================
