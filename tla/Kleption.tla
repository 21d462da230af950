------------------------------ MODULE Kleption ------------------------------
(***************************************************************************)
(* Kleption (src/kleption.cc): where samples come from.  A source is a     *)
(* tree of directories, pictures (PIC) and files of raw samples (U8, and   *)
(* F64LE, which has the same control); pick gives the next sample and its  *)
(* id, in the order the traversal asks for, and find gives the sample of   *)
(* an id.  (VID sources and the sinks of place are in Synth.)              *)
(*                                                                         *)
(* A node is known by its path; the names in a directory are the numbers   *)
(* 1, 2, ..., in the order load sorts them.  tree[n] has the kind of n,    *)
(* the number of samples of a raw file, and by how much the stored samples *)
(* are larger than what is cropped from them.  What load, unload and pick  *)
(* change is a record: the loaded nodes, and idi of each.                  *)
(***************************************************************************)
EXTENDS Naturals, Sequences, FiniteSets

Traversals == {"scan", "rand", "refs"}

Samples(tree) == UNION {{[of |-> n, v |-> v] : v \in 0..(tree[n].b - 1)} : n \in DOMAIN tree}
Subs(tree, n) == {i \in 1..Cardinality(DOMAIN tree) : Append(n, i) \in DOMAIN tree}

\* Directories are not empty, nor raw files: load and pick assert that.
IsTree(tree) ==
    /\ IsFiniteSet(DOMAIN tree) /\ <<>> \in DOMAIN tree /\ DOMAIN tree \subseteq Seq(Nat)
    /\ \A n \in DOMAIN tree :
          /\ tree[n] \in [kind : {"dir", "pic", "u8"}, b : Nat, spare : Nat]
          /\ n # <<>> => SubSeq(n, 1, Len(n) - 1) \in DOMAIN tree
          /\ tree[n].kind = "dir" => Subs(tree, n) # {} /\ Subs(tree, n) = 1..Cardinality(Subs(tree, n))
          /\ tree[n].kind = "u8" => tree[n].b > 0

Fresh(tree) == [loaded |-> {}, idi |-> [n \in DOMAIN tree |-> 0]]

\* A directory's idi is at a sub, a picture's tells whether it was given, and
\* a raw file's is the next sample or its end.
IdiEnd(tree, n) ==
    CASE tree[n].kind = "dir" -> Cardinality(Subs(tree, n)) - 1
      [] tree[n].kind = "pic" -> 1
      [] tree[n].kind = "u8"  -> tree[n].b
States(tree) ==
    {st \in [loaded : SUBSET DOMAIN tree, idi : [DOMAIN tree -> Nat]] :
        \A n \in DOMAIN tree : st.idi[n] <= IdiEnd(tree, n)}

(***************************************************************************)
(* load: a directory gets its sorted list, a raw file is mapped and a      *)
(* picture is read through a Picreader; unload undoes that, and resets idi.*)
(***************************************************************************)
Load(n, st) == [st EXCEPT !.loaded = @ \cup {n}]
Unload(n, st) == [loaded |-> st.loaded \ {n}, idi |-> [st.idi EXCEPT ![n] = 0]]
Reads(tree, n, st) == IF tree[n].kind = "pic" /\ n \notin st.loaded THEN <<n>> ELSE <<>>

(***************************************************************************)
(* _outcrop: the first column of the crop; rows go the same way.           *)
(***************************************************************************)
Crops(tree, n, opt) == IF opt.center THEN {tree[n].spare \div 2} ELSE 0..tree[n].spare

(***************************************************************************)
(* What pick returns: whether it gave a sample, is through or aborts, the  *)
(* sample and its id, the state after, and the pictures that were read.    *)
(***************************************************************************)
NoSample == [of |-> <<0>>, v |-> 0, x |-> 0]
NonePicked(st, reads) == [ret |-> "through", sample |-> NoSample, id |-> NoSample, st |-> st, reads |-> reads]
Picked(tree, n, v, opt, st, reads) ==
    {[ret |-> "sample", sample |-> [of |-> n, v |-> v, x |-> x], id |-> [of |-> <<>>, v |-> v, x |-> x],
      st |-> st, reads |-> reads] : x \in Crops(tree, n, opt)}
Idi(st, n, i) == [st EXCEPT !.idi[n] = i]

PickPic(tree, n, opt, repeat, st) ==
    LET reads == Reads(tree, n, st)
        there == Load(n, st)
        once == opt.trav = "scan" /\ ~repeat
        out == IF opt.lowmem THEN Unload(n, there) ELSE there
    IN  IF once /\ there.idi[n] > 0
        THEN {NonePicked(Idi(there, n, 0), reads)}
        ELSE Picked(tree, n, 0, opt, IF once THEN Idi(out, n, out.idi[n] + 1) ELSE out, reads)

PickRaw(tree, n, opt, repeat, st) ==
    LET there == Load(n, st)
        over == there.idi[n] >= tree[n].b
        v == IF over THEN 0 ELSE there.idi[n]
    IN  IF opt.trav = "rand"
        THEN UNION {Picked(tree, n, w, opt, there, <<>>) : w \in 0..(tree[n].b - 1)}
        ELSE IF over /\ ~repeat
             THEN {NonePicked(Idi(there, n, 0), <<>>)}
             ELSE Picked(tree, n, v, opt, Idi(there, n, v + 1), <<>>)

(***************************************************************************)
(* pick: in a directory, the next sub has its turn when one says that it   *)
(* is through, and the id begins with the name of the sub that gave the    *)
(* sample.  Only the root repeats: load strips the flag from the subs.     *)
(***************************************************************************)
InSub(i, ret) == [ret EXCEPT !.id.of = <<i + 1>> \o @]

NextSub(tree, n, j) == IF j + 1 >= Cardinality(Subs(tree, n)) THEN 0 ELSE j + 1
Through(tree, opt, pick, n, j, ret) ==
    LET k == NextSub(tree, n, j)
    IN  IF k = 0 /\ ~(opt.repeat /\ n = <<>>)
        THEN {NonePicked(Idi(ret.st, n, 0), ret.reads)}
        ELSE {InSub(k, [r EXCEPT !.reads = ret.reads \o @, !.ret = IF @ = "through" THEN "abort" ELSE @]) :
                 r \in pick[<<Append(n, k + 1), Idi(ret.st, n, k)>>]}
Turn(tree, opt, pick, n, j, st) ==
    UNION {IF ret.ret = "through" THEN Through(tree, opt, pick, n, j, ret) ELSE {InSub(j, ret)} :
              ret \in pick[<<Append(n, j + 1), st>>]}
PickIn(tree, opt, pick, n, st) ==
    CASE tree[n].kind = "pic" -> PickPic(tree, n, opt, opt.repeat /\ n = <<>>, st)
      [] tree[n].kind = "u8"  -> PickRaw(tree, n, opt, opt.repeat /\ n = <<>>, st)
      [] tree[n].kind = "dir" ->
            LET there == Load(n, st)
                turns == IF opt.trav = "rand" THEN 0..(Cardinality(Subs(tree, n)) - 1) ELSE {there.idi[n]}
            IN  UNION {Turn(tree, opt, pick, n, j, there) : j \in turns}
Pick(tree, opt, state) ==
    LET pick[q \in (DOMAIN tree) \X States(tree)] == PickIn(tree, opt, pick, q[1], q[2])
    IN  pick[<<<<>>, state>>]

(***************************************************************************)
(* find: a directory finds the rest of the id in the sub that its first    *)
(* name says, and what is met is loaded.  It aborts (NoSample) unless the  *)
(* leaf is there and has the sample; a raw file must not have to be        *)
(* cropped.  (An id made for a picture has no v: find in a raw file would  *)
(* then use a v that nobody has set, and no scene asks for that.)          *)
(***************************************************************************)
\* Mutated form: the crop that is found is the one at the center.
FindLeafCenter(tree, n, id) ==
    IF tree[n].kind = "pic"
    THEN IF id.x <= tree[n].spare THEN [of |-> n, v |-> 0, x |-> tree[n].spare \div 2] ELSE NoSample
    ELSE IF id.v < tree[n].b /\ tree[n].spare = 0 /\ id.x = 0
         THEN [of |-> n, v |-> id.v, x |-> 0] ELSE NoSample
FindLeaf(tree, n, id) ==
    IF tree[n].kind = "pic"
    THEN IF id.x <= tree[n].spare THEN [of |-> n, v |-> 0, x |-> id.x] ELSE NoSample
    ELSE IF id.v < tree[n].b /\ tree[n].spare = 0 /\ id.x = 0
         THEN [of |-> n, v |-> id.v, x |-> 0] ELSE NoSample
FindIn(tree, id, find, n, q) ==
    IF tree[n].kind # "dir" THEN IF q = <<>> THEN FindLeaf(tree, n, id) ELSE NoSample
    ELSE IF q # <<>> /\ Append(n, Head(q)) \in DOMAIN tree THEN find[<<Append(n, Head(q)), Tail(q)>>]
    ELSE NoSample
Find(tree, id) ==
    LET find[p \in (DOMAIN tree) \X Seq(Nat)] == FindIn(tree, id, find, p[1], p[2])
    IN  find[<<<<>>, id.of>>]

Prefixes(n) == {SubSeq(n, 1, k) : k \in 0..Len(n)}
AfterFind(id, st) == [st EXCEPT !.loaded = @ \cup Prefixes(id.of)]

-----------------------------------------------------------------------------
(***************************************************************************)
(* The constructor: the kind of a source or sink, from what the command    *)
(* says, what is on the disk and what the name ends in.  A sink's          *)
(* directory is made when it is not there.                                 *)
(***************************************************************************)
ByName(ends) == IF ends = "other" THEN "pic" ELSE ends
KindOf(given, onDisk, ends, writer, trav) ==
    IF given \in {"sdl", "ref"} THEN IF writer THEN given ELSE "error"
    ELSE IF given = "rnd" THEN IF writer THEN "error" ELSE "rnd"
    ELSE IF onDisk = "nothing" THEN
        IF ~writer THEN "error" ELSE IF given = "any" THEN ByName(ends) ELSE given
    ELSE IF onDisk = "dir" THEN IF given \in {"dir", "any"} THEN "dir" ELSE "error"
    ELSE LET kind == IF given \in {"any", "dir"} THEN ByName(ends) ELSE given
         IN  IF kind = "vid" /\ ~writer /\ trav # "scan" THEN "error" ELSE kind
=============================================================================
