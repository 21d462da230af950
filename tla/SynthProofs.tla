----------------------------- MODULE SynthProofs ----------------------------
(***************************************************************************)
(* The ids of samples, in sources that are any trees: what pick makes,     *)
(* find takes apart.  Then the samples themselves: what synth places, its  *)
(* sink gets, through the Picwriter's pipe or in a file.                   *)
(***************************************************************************)
EXTENDS Synth, SequenceTheorems, FiniteSetTheorems, TLAPS

----------------------------------------------------------------------------
(***************************************************************************)
(* Trees.                                                                  *)
(***************************************************************************)
LEMMA SubsAre ==
  ASSUME NEW tree, IsTree(tree), NEW n \in DOMAIN tree, tree[n].kind = "dir"
  PROVE  /\ Cardinality(Subs(tree, n)) \in Nat \ {0}
         /\ \A k \in 1 .. Cardinality(Subs(tree, n)) : Append(n, k) \in DOMAIN tree
<1>1. PICK d \in Nat : d = Cardinality(DOMAIN tree)
  BY FS_CardinalityType DEF IsTree
<1>2. PICK S : S = Subs(tree, n)
  OBVIOUS
<1>3. S \subseteq 1 .. d /\ \A k \in S : Append(n, k) \in DOMAIN tree
  BY <1>1, <1>2 DEF Subs
<1>4. Cardinality(S) \in Nat
  <2>1. IsFiniteSet(1 .. d)
    <3>1. 1 \in Int /\ d \in Int
      OBVIOUS
    <3>. QED
      BY <3>1, FS_Interval, Zenon
  <2>2. IsFiniteSet(S)
    BY <1>3, <2>1, FS_Subset, Zenon
  <2>. QED
    BY <2>2, FS_CardinalityType, Zenon
<1>5. S # {} /\ S = 1 .. Cardinality(S)
  BY <1>2, Zenon DEF IsTree
<1>6. Cardinality(S) # 0
  BY <1>5
<1>. QED
  BY <1>2, <1>3, <1>4, <1>5, <1>6

LEMMA PathIs ==
  ASSUME NEW tree, IsTree(tree), NEW n \in DOMAIN tree
  PROVE  n \in Seq(Nat) /\ Len(n) \in Nat
BY DEF IsTree

LEMMA LeafIs ==
  ASSUME NEW tree, IsTree(tree), NEW n \in DOMAIN tree
  PROVE  /\ tree[n].kind \in {"dir", "pic", "u8"} /\ tree[n].b \in Nat /\ tree[n].spare \in Nat
         /\ tree[n].kind = "u8" => tree[n].b # 0
BY DEF IsTree

LEMMA PathOn ==
  ASSUME NEW n \in Seq(Nat), NEW k \in Nat, NEW q \in Seq(Nat)
  PROVE  <<k>> \o q \in Seq(Nat) /\ n \o (<<k>> \o q) = Append(n, k) \o q
<1>1. <<k>> \in Seq(Nat) /\ n \o <<k>> = Append(n, k)
  OBVIOUS
<1>2. (n \o <<k>>) \o q = n \o (<<k>> \o q)
  BY <1>1, ConcatAssociative
<1>3. <<k>> \o q \in Seq(Nat)
  BY <1>1, ConcatProperties
<1>. QED
  BY <1>1, <1>2, <1>3

----------------------------------------------------------------------------
(***************************************************************************)
(* The states of a source.                                                 *)
(***************************************************************************)
LEMMA StateIs ==
  ASSUME NEW tree, NEW st \in States(tree)
  PROVE  /\ st = [loaded |-> st.loaded, idi |-> st.idi]
         /\ st.loaded \subseteq DOMAIN tree /\ st.idi \in [DOMAIN tree -> Nat]
         /\ \A n \in DOMAIN tree : st.idi[n] \in Nat /\ st.idi[n] <= IdiEnd(tree, n)
BY DEF States

LEMMA IdiKeeps ==
  ASSUME NEW tree, NEW st \in States(tree), NEW n \in DOMAIN tree,
         NEW v \in Nat, v <= IdiEnd(tree, n)
  PROVE  Idi(st, n, v) \in States(tree)
<1>1. PICK t : t = Idi(st, n, v)
  OBVIOUS
<1>2. t = [loaded |-> st.loaded, idi |-> [st.idi EXCEPT ![n] = v]]
  BY <1>1, StateIs DEF Idi
<1>3. PICK f : f = [st.idi EXCEPT ![n] = v]
  OBVIOUS
<1>4. f \in [DOMAIN tree -> Nat] /\ \A m \in DOMAIN tree : f[m] = IF m = n THEN v ELSE st.idi[m]
  BY <1>3, StateIs
<1>5. \A m \in DOMAIN tree : f[m] <= IdiEnd(tree, m)
  BY <1>4, StateIs
<1>6. [loaded |-> st.loaded, idi |-> f] \in States(tree)
  BY <1>4, <1>5, StateIs DEF States
<1>. QED
  BY <1>1, <1>2, <1>3, <1>6

LEMMA LoadKeeps ==
  ASSUME NEW tree, NEW st \in States(tree), NEW n \in DOMAIN tree
  PROVE  Load(n, st) \in States(tree) /\ Load(n, st).idi = st.idi
<1>1. Load(n, st) = [loaded |-> st.loaded \cup {n}, idi |-> st.idi]
  BY StateIs DEF Load
<1>2. [loaded |-> st.loaded \cup {n}, idi |-> st.idi] \in States(tree)
  BY StateIs DEF States
<1>. QED
  BY <1>1, <1>2

LEMMA UnloadKeeps ==
  ASSUME NEW tree, NEW st \in States(tree), NEW n \in DOMAIN tree, IdiEnd(tree, n) >= 0
  PROVE  Unload(n, st) \in States(tree) /\ Unload(n, st).idi[n] = 0
<1>1. PICK f : f = [st.idi EXCEPT ![n] = 0]
  OBVIOUS
<1>2. f \in [DOMAIN tree -> Nat] /\ \A m \in DOMAIN tree : f[m] = IF m = n THEN 0 ELSE st.idi[m]
  BY <1>1, StateIs
<1>3. \A m \in DOMAIN tree : f[m] <= IdiEnd(tree, m)
  BY <1>2, StateIs
<1>4. [loaded |-> st.loaded \ {n}, idi |-> f] \in States(tree)
  BY <1>2, <1>3, StateIs DEF States
<1>. QED
  BY <1>1, <1>2, <1>4 DEF Unload

LEMMA FreshIsAState ==
  ASSUME NEW tree, IsTree(tree)
  PROVE  Fresh(tree) \in States(tree)
<1>1. ASSUME NEW n \in DOMAIN tree PROVE 0 <= IdiEnd(tree, n)
  <2>1. tree[n].kind = "dir" => Cardinality(Subs(tree, n)) \in Nat \ {0}
    BY SubsAre
  <2>. QED
    BY <2>1, LeafIs DEF IdiEnd
<1>2. PICK f : f = [n \in DOMAIN tree |-> 0]
  OBVIOUS
<1>3. f \in [DOMAIN tree -> Nat] /\ \A n \in DOMAIN tree : f[n] = 0
  BY <1>2
<1>4. [loaded |-> {}, idi |-> f] \in States(tree)
  BY <1>1, <1>3 DEF States
<1>. QED
  BY <1>2, <1>4 DEF Fresh

----------------------------------------------------------------------------
(***************************************************************************)
(* What pick returns: its id is the rest of the path to the leaf, and says *)
(* which sample and crop of it were picked; only a raw file has more than  *)
(* one sample.                                                             *)
(***************************************************************************)
Names(tree, n, id, s) ==
  /\ s = [of |-> n \o id.of, v |-> id.v, x |-> id.x]
  /\ id.v = 0 \/ (s.of \in DOMAIN tree /\ tree[s.of].kind = "u8")

GoodPick(tree, n, r) ==
  /\ r = [ret |-> r.ret, sample |-> r.sample, id |-> r.id, st |-> r.st, reads |-> r.reads]
  /\ r.id = [of |-> r.id.of, v |-> r.id.v, x |-> r.id.x]
  /\ r.id.of \in Seq(Nat) /\ r.id.v \in Nat /\ r.id.x \in Nat
  /\ r.st \in States(tree) /\ r.reads \in Seq(Seq(Nat))
  /\ r.ret = "sample" => Names(tree, n, r.id, r.sample)

GoodAt(tree, f, n) == \A st \in States(tree) : \A r \in f[<<n, st>>] : GoodPick(tree, n, r)

LEMMA ReadsAre ==
  /\ <<>> \in Seq(Seq(Nat))
  /\ \A tree, n, st : IsTree(tree) /\ n \in DOMAIN tree => Reads(tree, n, st) \in Seq(Seq(Nat))
<1>1. \A tree, n : IsTree(tree) /\ n \in DOMAIN tree => <<n>> \in Seq(Seq(Nat))
  <2>. SUFFICES ASSUME NEW tree, NEW n \in DOMAIN tree, IsTree(tree) PROVE <<n>> \in Seq(Seq(Nat))
    OBVIOUS
  <2>1. n \in Seq(Nat)
    BY PathIs
  <2>. QED
    BY <2>1
<1>. QED
  BY <1>1 DEF Reads

LEMMA NonePickedGood ==
  ASSUME NEW tree, NEW n, NEW st \in States(tree), NEW reads \in Seq(Seq(Nat))
  PROVE  GoodPick(tree, n, NonePicked(st, reads))
<1>1. <<0>> \in Seq(Nat)
  OBVIOUS
<1>. QED
  BY <1>1 DEF NonePicked, NoSample, GoodPick

LEMMA PickedGood ==
  ASSUME NEW tree, IsTree(tree), NEW n \in DOMAIN tree, NEW v \in Nat, NEW opt,
         NEW st \in States(tree), NEW reads \in Seq(Seq(Nat)), v = 0 \/ tree[n].kind = "u8",
         NEW r \in Picked(tree, n, v, opt, st, reads)
  PROVE  GoodPick(tree, n, r)
<1>1. PICK x \in Crops(tree, n, opt) : r = [ret |-> "sample", sample |-> [of |-> n, v |-> v, x |-> x],
                    id |-> [of |-> <<>>, v |-> v, x |-> x], st |-> st, reads |-> reads]
  BY DEF Picked
<1>2. n \o <<>> = n
  BY PathIs
<1>3. r.id = [of |-> <<>>, v |-> v, x |-> x] /\ r.sample = [of |-> n, v |-> v, x |-> x]
  BY <1>1
<1>4. r.id.of = <<>> /\ r.id.v = v /\ r.id.x = x
  BY <1>3
<1>5. Names(tree, n, r.id, r.sample)
  BY <1>2, <1>3, <1>4 DEF Names
<1>6. <<>> \in Seq(Nat)
  OBVIOUS
<1>7. x \in Nat
  <2>1. tree[n].spare \in Nat
    BY LeafIs
  <2>2. \A s \in Nat : s \div 2 \in Nat
    OBVIOUS
  <2>. QED
    BY <1>1, <2>1, <2>2 DEF Crops
<1>. QED
  BY <1>1, <1>3, <1>4, <1>5, <1>6, <1>7 DEF GoodPick

LEMMA InSubGood ==
  ASSUME NEW tree, IsTree(tree), NEW n \in DOMAIN tree, NEW k \in Nat,
         NEW r, GoodPick(tree, Append(n, k + 1), r)
  PROVE  GoodPick(tree, n, InSub(k, r))
<1>1. PICK s : s = InSub(k, r)
  OBVIOUS
<1>2. PICK p : p = <<k + 1>> \o r.id.of
  OBVIOUS
<1>3. /\ r = [ret |-> r.ret, sample |-> r.sample, id |-> r.id, st |-> r.st, reads |-> r.reads]
      /\ r.id = [of |-> r.id.of, v |-> r.id.v, x |-> r.id.x]
      /\ r.id.of \in Seq(Nat) /\ r.id.v \in Nat /\ r.id.x \in Nat
      /\ r.st \in States(tree) /\ r.reads \in Seq(Seq(Nat))
  BY DEF GoodPick
<1>4. s = [r EXCEPT !.id.of = p]
  BY <1>1, <1>2 DEF InSub
<1>5. s = [ret |-> r.ret, sample |-> r.sample, id |-> [of |-> p, v |-> r.id.v, x |-> r.id.x],
           st |-> r.st, reads |-> r.reads]
  BY <1>3, <1>4
<1>6. p \in Seq(Nat) /\ n \o p = Append(n, k + 1) \o r.id.of
  <2>1. n \in Seq(Nat) /\ k + 1 \in Nat /\ r.id.of \in Seq(Nat)
    BY <1>3, PathIs
  <2>. QED
    BY <1>2, <2>1, PathOn, Zenon
<1>7. s.id = [of |-> p, v |-> r.id.v, x |-> r.id.x] /\ s.sample = r.sample /\ s.ret = r.ret
  BY <1>5
<1>8. s.id.of = p /\ s.id.v = r.id.v /\ s.id.x = r.id.x
  BY <1>7
<1>9. ASSUME r.ret = "sample" PROVE Names(tree, n, s.id, s.sample)
  <2>1. Names(tree, Append(n, k + 1), r.id, r.sample)
    BY <1>9 DEF GoodPick
  <2>. QED
    BY <2>1, <1>6, <1>7, <1>8 DEF Names
<1>. QED
  BY <1>1, <1>3, <1>5, <1>6, <1>7, <1>8, <1>9 DEF GoodPick

\* The sub that had the turn of one that was through.
Instead(ret, r) == [r EXCEPT !.reads = ret.reads \o @, !.ret = IF @ = "through" THEN "abort" ELSE @]

LEMMA InsteadGood ==
  ASSUME NEW tree, NEW n, NEW ret, ret.reads \in Seq(Seq(Nat)), NEW r, GoodPick(tree, n, r)
  PROVE  GoodPick(tree, n, Instead(ret, r))
<1>1. PICK s : s = Instead(ret, r)
  OBVIOUS
<1>2. PICK reads, how : reads = ret.reads \o r.reads /\ how = IF r.ret = "through" THEN "abort" ELSE r.ret
  OBVIOUS
<1>3. r = [ret |-> r.ret, sample |-> r.sample, id |-> r.id, st |-> r.st, reads |-> r.reads]
  BY DEF GoodPick
<1>4. s = [ret |-> how, sample |-> r.sample, id |-> r.id, st |-> r.st, reads |-> reads]
  <2>1. s = [[r EXCEPT !.reads = reads] EXCEPT !.ret = how]
    BY <1>1, <1>2, <1>3 DEF Instead
  <2>. QED
    BY <2>1, <1>3
<1>5. how = "sample" => r.ret = "sample"
  BY <1>2
<1>6. s.id = r.id /\ s.sample = r.sample /\ s.st = r.st /\ s.ret = how /\ s.reads = reads
  BY <1>4
<1>7. reads \in Seq(Seq(Nat))
  BY <1>2 DEF GoodPick
<1>. QED
  BY <1>1, <1>4, <1>5, <1>6, <1>7 DEF GoodPick

LEMMA NextIsSub ==
  ASSUME NEW tree, IsTree(tree), NEW n \in DOMAIN tree, tree[n].kind = "dir",
         NEW k \in 0 .. Cardinality(Subs(tree, n)) - 1
  PROVE  /\ k \in Nat /\ Append(n, k + 1) \in DOMAIN tree
         /\ NextSub(tree, n, k) \in 0 .. Cardinality(Subs(tree, n)) - 1
         /\ NextSub(tree, n, k) \in Nat /\ NextSub(tree, n, k) <= IdiEnd(tree, n)
<1>1. PICK d \in Nat : d = Cardinality(Subs(tree, n)) /\ d # 0
  BY SubsAre
<1>2. k + 1 \in 1 .. d /\ k \in Nat
  BY <1>1
<1>3. NextSub(tree, n, k) = IF k + 1 >= d THEN 0 ELSE k + 1
  BY <1>1 DEF NextSub
<1>4. NextSub(tree, n, k) \in 0 .. d - 1
  BY <1>1, <1>2, <1>3
<1>5. IdiEnd(tree, n) = d - 1
  BY <1>1 DEF IdiEnd
<1>6. Append(n, k + 1) \in DOMAIN tree
  BY <1>1, <1>2, SubsAre
<1>. QED
  BY <1>1, <1>2, <1>4, <1>5, <1>6

\* What the subs return.
SubsGood(tree, f, n) ==
  \A k \in Nat : Append(n, k) \in DOMAIN tree => GoodAt(tree, f, Append(n, k))

LEMMA ThroughGood ==
  ASSUME NEW tree, IsTree(tree), NEW n \in DOMAIN tree, tree[n].kind = "dir",
         NEW k \in 0 .. Cardinality(Subs(tree, n)) - 1,
         NEW f, SubsGood(tree, f, n), NEW opt, NEW ret, ret.st \in States(tree),
         ret.reads \in Seq(Seq(Nat)),
         NEW r \in Through(tree, opt, f, n, k, ret)
  PROVE  GoodPick(tree, n, r)
<1>1. PICK m : m = NextSub(tree, n, k)
  OBVIOUS
<1>2. /\ m \in Nat /\ m <= IdiEnd(tree, n) /\ m \in 0 .. Cardinality(Subs(tree, n)) - 1
      /\ 0 <= IdiEnd(tree, n)
  <2>1. m \in Nat /\ m <= IdiEnd(tree, n) /\ m \in 0 .. Cardinality(Subs(tree, n)) - 1
    BY <1>1, NextIsSub
  <2>2. IdiEnd(tree, n) \in Int
    BY SubsAre DEF IdiEnd
  <2>. QED
    BY <2>1, <2>2
<1>3. Append(n, m + 1) \in DOMAIN tree
  BY <1>2, NextIsSub
<1>4. CASE m = 0 /\ ~ (opt.repeat /\ n = <<>>)
  <2>1. r = NonePicked(Idi(ret.st, n, 0), ret.reads)
    BY <1>1, <1>4, Zenon DEF Through
  <2>2. Idi(ret.st, n, 0) \in States(tree)
    BY <1>2, IdiKeeps
  <2>. QED
    BY <2>1, <2>2, NonePickedGood
<1>5. CASE ~ (m = 0 /\ ~ (opt.repeat /\ n = <<>>))
  <2>1. PICK q \in f[<<Append(n, m + 1), Idi(ret.st, n, m)>>] : r = InSub(m, Instead(ret, q))
    BY <1>1, <1>5, Zenon DEF Through, Instead
  <2>2. Idi(ret.st, n, m) \in States(tree)
    BY <1>2, IdiKeeps
  <2>3. GoodAt(tree, f, Append(n, m + 1))
    BY <1>2, <1>3 DEF SubsGood
  <2>4. GoodPick(tree, Append(n, m + 1), q)
    BY <2>2, <2>3, <2>1, Zenon DEF GoodAt
  <2>5. GoodPick(tree, Append(n, m + 1), Instead(ret, q))
    BY <2>4, InsteadGood
  <2>. QED
    BY <2>1, <2>5, <1>2, InSubGood
<1>. QED
  BY <1>4, <1>5

LEMMA TurnGood ==
  ASSUME NEW tree, IsTree(tree), NEW n \in DOMAIN tree, tree[n].kind = "dir",
         NEW k \in 0 .. Cardinality(Subs(tree, n)) - 1,
         NEW f, SubsGood(tree, f, n), NEW opt, NEW st \in States(tree),
         NEW r \in Turn(tree, opt, f, n, k, st)
  PROVE  GoodPick(tree, n, r)
<1>1. PICK ret \in f[<<Append(n, k + 1), st>>] :
        r \in IF ret.ret = "through" THEN Through(tree, opt, f, n, k, ret) ELSE {InSub(k, ret)}
  BY Zenon DEF Turn
<1>2. k \in Nat /\ Append(n, k + 1) \in DOMAIN tree
  BY NextIsSub
<1>3. GoodAt(tree, f, Append(n, k + 1))
  BY <1>2 DEF SubsGood
<1>4. GoodPick(tree, Append(n, k + 1), ret)
  BY <1>1, <1>3, Zenon DEF GoodAt
<1>5. ret.st \in States(tree) /\ ret.reads \in Seq(Seq(Nat))
  BY <1>4 DEF GoodPick
<1>6. CASE ret.ret = "through"
  BY <1>1, <1>5, <1>6, ThroughGood
<1>7. CASE ret.ret # "through"
  <2>1. r = InSub(k, ret)
    BY <1>1, <1>7
  <2>. QED
    BY <2>1, <1>2, <1>4, InSubGood
<1>. QED
  BY <1>6, <1>7

LEMMA PickPicGood ==
  ASSUME NEW tree, IsTree(tree), NEW n \in DOMAIN tree, tree[n].kind = "pic",
         NEW opt, NEW repeat, NEW st \in States(tree), NEW r \in PickPic(tree, n, opt, repeat, st)
  PROVE  GoodPick(tree, n, r)
<1>1. IdiEnd(tree, n) = 1
  BY DEF IdiEnd
<1>2. PICK there : there = Load(n, st) /\ there \in States(tree) /\ there.idi[n] \in Nat
  BY LoadKeeps, StateIs
<1>3. PICK once : once = (opt.trav = "scan" /\ ~ repeat)
  OBVIOUS
<1>4. PICK out : out = IF opt.lowmem THEN Unload(n, there) ELSE there
  OBVIOUS
<1>5. out \in States(tree) /\ (out.idi[n] = 0 \/ out.idi[n] = there.idi[n])
  BY <1>1, <1>2, <1>4, UnloadKeeps
<1>6. CASE once /\ there.idi[n] > 0
  <2>1. r = NonePicked(Idi(there, n, 0), Reads(tree, n, st))
    BY <1>2, <1>3, <1>6, Zenon DEF PickPic
  <2>2. Idi(there, n, 0) \in States(tree)
    BY <1>1, <1>2, IdiKeeps
  <2>. QED
    BY <2>1, <2>2, ReadsAre, NonePickedGood
<1>7. CASE ~ (once /\ there.idi[n] > 0)
  <2>1. PICK to : to = IF once THEN Idi(out, n, out.idi[n] + 1) ELSE out
    OBVIOUS
  <2>2. r \in Picked(tree, n, 0, opt, to, Reads(tree, n, st))
    BY <1>2, <1>3, <1>4, <1>7, <2>1, Zenon DEF PickPic
  <2>3. to \in States(tree)
    <3>1. CASE once
      <4>1. out.idi[n] = 0
        BY <1>2, <1>5, <1>7, <3>1
      <4>. QED
        BY <2>1, <3>1, <4>1, <1>1, <1>5, IdiKeeps
    <3>2. CASE ~ once
      BY <2>1, <3>2, <1>5
    <3>. QED
      BY <3>1, <3>2
  <2>. QED
    BY <2>2, <2>3, ReadsAre, PickedGood
<1>. QED
  BY <1>6, <1>7

LEMMA PickRawGood ==
  ASSUME NEW tree, IsTree(tree), NEW n \in DOMAIN tree, tree[n].kind = "u8",
         NEW opt, NEW repeat, NEW st \in States(tree), NEW r \in PickRaw(tree, n, opt, repeat, st)
  PROVE  GoodPick(tree, n, r)
<1>1. PICK b \in Nat : b = tree[n].b /\ b # 0 /\ IdiEnd(tree, n) = b
  BY LeafIs DEF IdiEnd
<1>2. PICK there : there = Load(n, st) /\ there \in States(tree) /\ there.idi[n] \in Nat
  BY LoadKeeps, StateIs
<1>3. PICK over : over = (there.idi[n] >= tree[n].b)
  OBVIOUS
<1>4. PICK v : v = IF over THEN 0 ELSE there.idi[n]
  OBVIOUS
<1>5. v \in Nat /\ v + 1 \in Nat /\ v + 1 <= b
  <2>1. v = IF there.idi[n] >= b THEN 0 ELSE there.idi[n]
    BY <1>1, <1>3, <1>4
  <2>2. PICK x \in Nat : x = there.idi[n]
    BY <1>2
  <2>3. v = IF x >= b THEN 0 ELSE x
    BY <2>1, <2>2
  <2>. QED
    BY <2>3, <1>1
<1>6. CASE opt.trav = "rand"
  <2>1. PICK w \in 0 .. (tree[n].b - 1) : r \in Picked(tree, n, w, opt, there, <<>>)
    BY <1>2, <1>6 DEF PickRaw
  <2>2. w \in Nat
    BY <1>1
  <2>. QED
    BY <2>1, <2>2, <1>2, ReadsAre, PickedGood
<1>7. CASE opt.trav # "rand" /\ over /\ ~ repeat
  <2>1. r = NonePicked(Idi(there, n, 0), <<>>)
    BY <1>2, <1>3, <1>7, Zenon DEF PickRaw
  <2>2. Idi(there, n, 0) \in States(tree)
    BY <1>1, <1>2, IdiKeeps
  <2>. QED
    BY <2>1, <2>2, ReadsAre, NonePickedGood
<1>8. CASE opt.trav # "rand" /\ ~ (over /\ ~ repeat)
  <2>1. r \in Picked(tree, n, v, opt, Idi(there, n, v + 1), <<>>)
    BY <1>2, <1>3, <1>4, <1>8, Zenon DEF PickRaw
  <2>2. Idi(there, n, v + 1) \in States(tree)
    BY <1>1, <1>2, <1>5, IdiKeeps
  <2>. QED
    BY <2>1, <2>2, <1>5, ReadsAre, PickedGood
<1>. QED
  BY <1>6, <1>7, <1>8

\* Whose turn it is in a directory.
Turns(tree, opt, n, st) ==
  IF opt.trav = "rand" THEN 0 .. Cardinality(Subs(tree, n)) - 1 ELSE {Load(n, st).idi[n]}

LEMMA TurnsAre ==
  ASSUME NEW tree, IsTree(tree), NEW n \in DOMAIN tree, tree[n].kind = "dir",
         NEW opt, NEW st \in States(tree)
  PROVE  Turns(tree, opt, n, st) \subseteq 0 .. Cardinality(Subs(tree, n)) - 1
<1>1. PICK d \in Nat : d = Cardinality(Subs(tree, n)) /\ d # 0
  BY SubsAre
<1>2. IdiEnd(tree, n) = d - 1
  BY <1>1 DEF IdiEnd
<1>3. PICK there : there = Load(n, st) /\ there \in States(tree)
  BY LoadKeeps
<1>4. there.idi[n] \in Nat /\ there.idi[n] <= d - 1
  BY <1>2, <1>3, StateIs
<1>5. there.idi[n] \in 0 .. d - 1
  BY <1>4
<1>. QED
  BY <1>1, <1>3, <1>5 DEF Turns

LEMMA PickInGood ==
  ASSUME NEW tree, IsTree(tree), NEW n \in DOMAIN tree, NEW opt, NEW st \in States(tree),
         NEW f, SubsGood(tree, f, n), NEW r \in PickIn(tree, opt, f, n, st)
  PROVE  GoodPick(tree, n, r)
<1>1. CASE tree[n].kind = "pic"
  <2>1. r \in PickPic(tree, n, opt, opt.repeat /\ n = <<>>, st)
    BY <1>1 DEF PickIn
  <2>. QED
    BY <1>1, <2>1, PickPicGood
<1>2. CASE tree[n].kind = "u8"
  <2>1. r \in PickRaw(tree, n, opt, opt.repeat /\ n = <<>>, st)
    BY <1>2 DEF PickIn
  <2>. QED
    BY <1>2, <2>1, PickRawGood
<1>3. CASE tree[n].kind = "dir"
  <2>1. r \in UNION {Turn(tree, opt, f, n, j, Load(n, st)) : j \in Turns(tree, opt, n, st)}
    BY <1>3 DEF PickIn, Turns
  <2>2. PICK j \in Turns(tree, opt, n, st) : r \in Turn(tree, opt, f, n, j, Load(n, st))
    BY <2>1
  <2>3. j \in 0 .. Cardinality(Subs(tree, n)) - 1 /\ Load(n, st) \in States(tree)
    BY <1>3, <2>2, TurnsAre, LoadKeeps
  <2>. QED
    BY <1>3, <2>2, <2>3, TurnGood
<1>. QED
  BY <1>1, <1>2, <1>3, LeafIs

----------------------------------------------------------------------------
(***************************************************************************)
(* pick is one function: it rests on the subs, and the tree has an end.    *)
(***************************************************************************)
SameAt(tree, f, g, n) == \A st \in States(tree) : f[<<n, st>>] = g[<<n, st>>]
SameSubs(tree, f, g, n) ==
  \A k \in Nat : Append(n, k) \in DOMAIN tree => SameAt(tree, f, g, Append(n, k))

LEMMA ThroughRests ==
  ASSUME NEW tree, IsTree(tree), NEW n \in DOMAIN tree, tree[n].kind = "dir",
         NEW k \in 0 .. Cardinality(Subs(tree, n)) - 1, NEW f, NEW g,
         SameSubs(tree, f, g, n), NEW opt, NEW ret, ret.st \in States(tree)
  PROVE  Through(tree, opt, f, n, k, ret) = Through(tree, opt, g, n, k, ret)
<1>1. PICK m : m = NextSub(tree, n, k)
  OBVIOUS
<1>2. m \in Nat /\ m <= IdiEnd(tree, n) /\ Append(n, m + 1) \in DOMAIN tree /\ m + 1 \in Nat
  BY <1>1, NextIsSub
<1>3. Idi(ret.st, n, m) \in States(tree)
  BY <1>2, IdiKeeps
<1>4. f[<<Append(n, m + 1), Idi(ret.st, n, m)>>] = g[<<Append(n, m + 1), Idi(ret.st, n, m)>>]
  BY <1>2, <1>3, Zenon DEF SameSubs, SameAt
<1>. QED
  BY <1>1, <1>4, Zenon DEF Through

LEMMA TurnRests ==
  ASSUME NEW tree, IsTree(tree), NEW n \in DOMAIN tree, tree[n].kind = "dir",
         NEW k \in 0 .. Cardinality(Subs(tree, n)) - 1, NEW f, NEW g,
         SameSubs(tree, f, g, n), SubsGood(tree, f, n), NEW opt, NEW st \in States(tree)
  PROVE  Turn(tree, opt, f, n, k, st) = Turn(tree, opt, g, n, k, st)
<1>1. k \in Nat /\ Append(n, k + 1) \in DOMAIN tree /\ k + 1 \in Nat
  BY NextIsSub
<1>2. PICK p : p = f[<<Append(n, k + 1), st>>]
  OBVIOUS
<1>3. p = g[<<Append(n, k + 1), st>>]
  BY <1>1, <1>2, Zenon DEF SameSubs, SameAt
<1>4. GoodAt(tree, f, Append(n, k + 1))
  BY <1>1 DEF SubsGood
<1>5. ASSUME NEW ret \in p
      PROVE  Through(tree, opt, f, n, k, ret) = Through(tree, opt, g, n, k, ret)
  <2>1. GoodPick(tree, Append(n, k + 1), ret)
    BY <1>2, <1>4, Zenon DEF GoodAt
  <2>2. ret.st \in States(tree)
    BY <2>1 DEF GoodPick
  <2>. QED
    BY <2>2, ThroughRests
<1>6. {IF ret.ret = "through" THEN Through(tree, opt, f, n, k, ret) ELSE {InSub(k, ret)} : ret \in p}
        = {IF ret.ret = "through" THEN Through(tree, opt, g, n, k, ret) ELSE {InSub(k, ret)} : ret \in p}
  BY <1>5
<1>. QED
  BY <1>2, <1>3, <1>6, Zenon DEF Turn

LEMMA PickInRests ==
  ASSUME NEW tree, IsTree(tree), NEW n \in DOMAIN tree, NEW opt, NEW st \in States(tree),
         NEW f, NEW g, SameSubs(tree, f, g, n), SubsGood(tree, f, n)
  PROVE  PickIn(tree, opt, f, n, st) = PickIn(tree, opt, g, n, st)
<1>1. CASE tree[n].kind = "dir"
  <2>1. PICK there : there = Load(n, st) /\ there \in States(tree)
    BY LoadKeeps
  <2>2. PICK turns : turns = Turns(tree, opt, n, st)
    OBVIOUS
  <2>3. \A j \in turns : j \in 0 .. Cardinality(Subs(tree, n)) - 1
    BY <1>1, <2>2, TurnsAre
  <2>4. \A j \in turns : Turn(tree, opt, f, n, j, there) = Turn(tree, opt, g, n, j, there)
    BY <1>1, <2>1, <2>3, TurnRests
  <2>5. {Turn(tree, opt, f, n, j, there) : j \in turns} = {Turn(tree, opt, g, n, j, there) : j \in turns}
    BY <2>4
  <2>6. PickIn(tree, opt, f, n, st) = UNION {Turn(tree, opt, f, n, j, there) : j \in turns}
    BY <1>1, <2>1, <2>2 DEF PickIn, Turns
  <2>7. PickIn(tree, opt, g, n, st) = UNION {Turn(tree, opt, g, n, j, there) : j \in turns}
    BY <1>1, <2>1, <2>2 DEF PickIn, Turns
  <2>. QED
    BY <2>5, <2>6, <2>7
<1>2. CASE tree[n].kind = "pic"
  BY <1>2 DEF PickIn
<1>3. CASE tree[n].kind = "u8"
  BY <1>3 DEF PickIn
<1>. QED
  BY <1>1, <1>2, <1>3, LeafIs

----------------------------------------------------------------------------
(***************************************************************************)
(* Induction over the numbers, for a set (a predicate would be a parameter *)
(* that no prover here can instantiate): the least number that is missing  *)
(* ends the shortest of the intervals 0..n - 1 for the missing n.          *)
(***************************************************************************)
LEMMA NatSetInduction ==
    ASSUME NEW T, 0 \in T, \A n \in Nat : n \in T => n + 1 \in T
    PROVE  Nat \subseteq T
<1>. DEFINE U == {0..n - 1 : n \in Nat \ T}
<1>1. SUFFICES ASSUME NEW n \in Nat, n \notin T PROVE FALSE
  OBVIOUS
<1>2. U # {} /\ U \subseteq FiniteSubsetsOf(Nat)
  <2>1. \A m \in Nat : 0..m - 1 \in SUBSET Nat /\ IsFiniteSet(0..m - 1)
    BY FS_Interval
  <2>. QED
    BY <1>1, <2>1 DEF FiniteSubsetsOf
<1>3. IsWellFoundedOn(StrictSubsetOrdering(Nat), FiniteSubsetsOf(Nat))
  BY FS_StrictSubsetOrderingWellFounded
<1>4. PICK x \in U : \A y \in U : ~ (<<y, x>> \in StrictSubsetOrdering(Nat))
  <2>. HIDE DEF U
  <2>. QED
    BY <1>2, <1>3, WFMin
<1>5. PICK m \in Nat : m \notin T /\ x = 0..m - 1
  BY <1>4
<1>6. PICK k \in Nat : m = k + 1
  <2>1. m # 0
    BY <1>5
  <2>2. m - 1 \in Nat /\ m = (m - 1) + 1
    BY <2>1
  <2>. QED
    BY <2>2
<1>7. k \notin T
  BY <1>5, <1>6
<1>8. 0..k - 1 \in U
  BY <1>7
<1>9. <<0..k - 1, x>> \in StrictSubsetOrdering(Nat)
  <2>1. 0..k - 1 \in SUBSET Nat /\ x \in SUBSET Nat
    BY <1>5
  <2>2. k \in x /\ k \notin 0..k - 1
    BY <1>5, <1>6
  <2>3. 0..k - 1 \subseteq x
    BY <1>5, <1>6
  <2>. QED
    BY <2>1, <2>2, <2>3 DEF StrictSubsetOrdering
<1>. QED
  BY <1>4, <1>8, <1>9

\* A node's path goes through nodes, which are no more than the tree has.
LEMMA Beginnings ==
  ASSUME NEW n \in Seq(Nat), NEW l \in Nat, l = Len(n), NEW k \in 0 .. l
  PROVE  /\ SubSeq(n, 1, k) \in Seq(Nat) /\ Len(SubSeq(n, 1, k)) = k
         /\ k # 0 => SubSeq(SubSeq(n, 1, k), 1, k - 1) = SubSeq(n, 1, k - 1)
<1>1. PICK m : m = SubSeq(n, 1, k)
  OBVIOUS
<1>2. 1 \in Int /\ k \in Int /\ \A j \in 1 .. k : n[j] \in Nat
  OBVIOUS
<1>3. /\ m \in Seq(Nat) /\ Len(m) = IF 1 <= k THEN k - 1 + 1 ELSE 0
      /\ \A j \in 1 .. k - 1 + 1 : m[j] = n[1 + j - 1]
  BY <1>1, <1>2, SubSeqProperties
<1>4. m \in Seq(Nat) /\ Len(m) = k /\ \A j \in 1 .. k : m[j] = n[j]
  BY <1>3
<1>5. ASSUME k # 0 PROVE SubSeq(m, 1, k - 1) = SubSeq(n, 1, k - 1)
  <2>1. k - 1 \in Int /\ \A j \in 1 .. k - 1 : m[j] \in Nat /\ n[j] \in Nat /\ m[j] = n[j]
    BY <1>4
  <2>2. /\ SubSeq(m, 1, k - 1) \in Seq(Nat)
        /\ Len(SubSeq(m, 1, k - 1)) = IF 1 <= k - 1 THEN k - 1 - 1 + 1 ELSE 0
        /\ \A j \in 1 .. k - 1 - 1 + 1 : SubSeq(m, 1, k - 1)[j] = m[1 + j - 1]
    BY <2>1, SubSeqProperties
  <2>3. /\ SubSeq(n, 1, k - 1) \in Seq(Nat)
        /\ Len(SubSeq(n, 1, k - 1)) = IF 1 <= k - 1 THEN k - 1 - 1 + 1 ELSE 0
        /\ \A j \in 1 .. k - 1 - 1 + 1 : SubSeq(n, 1, k - 1)[j] = n[1 + j - 1]
    BY <2>1, SubSeqProperties
  <2>4. PICK u \in Seq(Nat), v \in Seq(Nat) : u = SubSeq(m, 1, k - 1) /\ v = SubSeq(n, 1, k - 1)
    BY <2>2, <2>3
  <2>5. Len(u) = k - 1 /\ Len(v) = k - 1 /\ \A j \in 1 .. k - 1 : u[j] = v[j]
    BY <2>1, <2>2, <2>3, <2>4, <1>5
  <2>. QED
    BY <2>4, <2>5, SeqEqual
<1>. QED
  BY <1>1, <1>4, <1>5

LEMMA Ancestors ==
  ASSUME NEW tree, IsTree(tree), NEW n \in DOMAIN tree, NEW l \in Nat, l = Len(n),
         NEW k \in 0 .. l
  PROVE  SubSeq(n, 1, k) \in DOMAIN tree
<1>. DEFINE T == {j \in Nat : j <= l => SubSeq(n, 1, l - j) \in DOMAIN tree}
<1>1. n \in Seq(Nat)
  BY PathIs
<1>2. 0 \in T
  <2>1. SubSeq(n, 1, l) = n /\ l - 0 = l
    BY <1>1, SubSeqFull
  <2>. QED
    BY <2>1
<1>3. ASSUME NEW j \in Nat, j \in T PROVE j + 1 \in T
  <2>1. SUFFICES ASSUME j + 1 <= l PROVE SubSeq(n, 1, l - (j + 1)) \in DOMAIN tree
    OBVIOUS
  <2>2. PICK e \in 0 .. l : e = l - j /\ e # 0 /\ e - 1 = l - (j + 1)
    <3>1. l - j \in 0 .. l /\ l - j # 0 /\ l - j - 1 = l - (j + 1)
      BY <2>1
    <3>. QED
      BY <3>1
  <2>3. SubSeq(n, 1, l - j) \in DOMAIN tree
    BY <1>3, <2>1
  <2>4. PICK m \in DOMAIN tree : m = SubSeq(n, 1, e)
    BY <2>2, <2>3
  <2>5. m \in Seq(Nat) /\ Len(m) = e /\ SubSeq(m, 1, e - 1) = SubSeq(n, 1, e - 1)
    BY <1>1, <2>2, <2>4, Beginnings
  <2>6. m # <<>>
    BY <2>2, <2>5
  <2>7. SubSeq(m, 1, Len(m) - 1) \in DOMAIN tree
    BY <2>4, <2>6, Zenon DEF IsTree
  <2>. QED
    BY <2>2, <2>5, <2>7
<1>4. Nat \subseteq T
  <2>. HIDE DEF T
  <2>. QED
    BY <1>2, <1>3, NatSetInduction
<1>5. PICK j \in Nat : j <= l /\ l - j = k
  <2>1. l - k \in Nat /\ l - k <= l /\ l - (l - k) = k
    OBVIOUS
  <2>. QED
    BY <2>1
<1>6. j \in T
  BY <1>4
<1>. QED
  BY <1>5, <1>6

LEMMA PathsAreShort ==
  ASSUME NEW tree, IsTree(tree), NEW n \in DOMAIN tree
  PROVE  Len(n) < Cardinality(DOMAIN tree)
<1>1. n \in Seq(Nat) /\ Len(n) \in Nat
  BY PathIs
<1>2. IsFiniteSet(DOMAIN tree) /\ Cardinality(DOMAIN tree) \in Nat
  BY FS_CardinalityType DEF IsTree
<1>3. PICK f : f = [k \in 0 .. Len(n) |-> SubSeq(n, 1, k)]
  OBVIOUS
<1>4. \A k \in 0 .. Len(n) : f[k] \in DOMAIN tree /\ Len(f[k]) = k
  <2>1. ASSUME NEW k \in 0 .. Len(n) PROVE SubSeq(n, 1, k) \in DOMAIN tree /\ Len(SubSeq(n, 1, k)) = k
    <3>1. PICK l \in Nat : l = Len(n)
      BY <1>1
    <3>2. k \in 0 .. l
      BY <3>1
    <3>. QED
      BY <1>1, <3>1, <3>2, Ancestors, Beginnings
  <2>. QED
    BY <1>3, <2>1
<1>5. f \in [0 .. Len(n) -> DOMAIN tree]
  BY <1>3, <1>4
<1>6. \A j, k \in 0 .. Len(n) : f[j] = f[k] => j = k
  BY <1>4
<1>7. f \in Injection(0 .. Len(n), DOMAIN tree)
  BY <1>5, <1>6 DEF Injection, IsInjective
<1>8. Cardinality(0 .. Len(n)) <= Cardinality(DOMAIN tree)
  BY <1>2, <1>7, FS_Injection
<1>9. Cardinality(0 .. Len(n)) = Len(n) + 1
  <2>1. 0 \in Int /\ Len(n) \in Int /\ ~ (0 > Len(n)) /\ Len(n) - 0 + 1 = Len(n) + 1
    BY <1>1
  <2>2. Cardinality(0 .. Len(n)) = IF 0 > Len(n) THEN 0 ELSE Len(n) - 0 + 1
    BY <2>1, FS_Interval
  <2>. QED
    BY <2>1, <2>2
<1>. QED
  BY <1>1, <1>2, <1>8, <1>9

LEMMA SubIsDeeper ==
  ASSUME NEW tree, IsTree(tree), NEW n \in DOMAIN tree, NEW k \in Nat
  PROVE  Len(Append(n, k)) = Len(n) + 1
BY PathIs

PickDomain(tree) == (DOMAIN tree) \X States(tree)
PickOf(tree, opt, f) == f = [q \in PickDomain(tree) |-> PickIn(tree, opt, f, q[1], q[2])]

PickedFrom(tree, opt, f, n) ==
  \A st \in States(tree) : f[<<n, st>>] = PickIn(tree, opt, f, n, st)

LEMMA PickExists ==
  ASSUME NEW tree, IsTree(tree), NEW opt
  PROVE  \E f : PickOf(tree, opt, f)
<1>. DEFINE Dom == PickDomain(tree)
            d == Cardinality(DOMAIN tree)
            Good(f) == f = [q \in Dom |-> f[q]] /\ \A n \in DOMAIN tree : GoodAt(tree, f, n)
            Deep(f, h) == \A n \in DOMAIN tree : Len(n) + h >= d => PickedFrom(tree, opt, f, n)
            T == {h \in Nat : \E f : Good(f) /\ Deep(f, h)}
<1>1. d \in Nat
  BY FS_CardinalityType DEF IsTree
<1>2. \A n \in DOMAIN tree : Len(n) \in Nat /\ Len(n) < d
  BY PathIs, PathsAreShort
<1>3. 0 \in T
  <2>1. PICK f : f = [q \in Dom |-> {}]
    OBVIOUS
  <2>2. \A n \in DOMAIN tree, st \in States(tree) : f[<<n, st>>] = {}
    BY <2>1 DEF PickDomain
  <2>3. Good(f)
    BY <2>1, <2>2 DEF GoodAt
  <2>4. Deep(f, 0)
    BY <1>1, <1>2
  <2>. QED
    BY <2>3, <2>4
<1>4. ASSUME NEW h \in Nat, h \in T PROVE h + 1 \in T
  <2>1. PICK f : Good(f) /\ Deep(f, h)
    BY <1>4
  <2>2. PICK g : g = [q \in Dom |-> IF Len(q[1]) + h + 1 >= d THEN PickIn(tree, opt, f, q[1], q[2]) ELSE {}]
    OBVIOUS
  <2>3. \A n \in DOMAIN tree, st \in States(tree) :
          g[<<n, st>>] = IF Len(n) + h + 1 >= d THEN PickIn(tree, opt, f, n, st) ELSE {}
    BY <2>2 DEF PickDomain
  <2>4. \A n \in DOMAIN tree : SubsGood(tree, f, n)
    BY <2>1 DEF SubsGood
  <2>5. Good(g)
    <3>1. ASSUME NEW n \in DOMAIN tree PROVE GoodAt(tree, g, n)
      BY <2>3, <2>4, PickInGood DEF GoodAt
    <3>. QED
      BY <3>1, <2>2
  <2>6. ASSUME NEW n \in DOMAIN tree, Len(n) + (h + 1) >= d PROVE PickedFrom(tree, opt, g, n)
    <3>1. ASSUME NEW k \in Nat, Append(n, k) \in DOMAIN tree PROVE SameAt(tree, f, g, Append(n, k))
      <4>1. PICK m \in DOMAIN tree : m = Append(n, k)
        BY <3>1
      <4>2. Len(m) + h >= d /\ Len(m) + h + 1 >= d
        BY <4>1, <2>6, <1>1, <1>2, SubIsDeeper
      <4>3. PickedFrom(tree, opt, f, m)
        BY <2>1, <4>2
      <4>4. \A st \in States(tree) :
              /\ f[<<m, st>>] = PickIn(tree, opt, f, m, st)
              /\ g[<<m, st>>] = PickIn(tree, opt, f, m, st)
        BY <4>2, <4>3, <2>3 DEF PickedFrom
      <4>5. SameAt(tree, f, g, m)
        BY <4>4 DEF SameAt
      <4>. QED
        BY <4>1, <4>5
    <3>2. SameSubs(tree, f, g, n)
      BY <3>1 DEF SameSubs
    <3>3. \A st \in States(tree) : PickIn(tree, opt, f, n, st) = PickIn(tree, opt, g, n, st)
      BY <3>2, <2>4, PickInRests
    <3>4. Len(n) + h + 1 >= d
      BY <2>6, <1>2
    <3>. QED
      BY <3>3, <3>4, <2>3 DEF PickedFrom
  <2>. QED
    BY <2>5, <2>6
<1>5. Nat \subseteq T
  <2>. HIDE DEF T
  <2>. QED
    BY <1>3, <1>4, NatSetInduction
<1>6. PICK f : Good(f) /\ Deep(f, d)
  BY <1>1, <1>5
<1>7. \A n \in DOMAIN tree : PickedFrom(tree, opt, f, n)
  BY <1>1, <1>2, <1>6
<1>8. \A q \in Dom : f[q] = PickIn(tree, opt, f, q[1], q[2])
  BY <1>7 DEF PickedFrom, PickDomain
<1>9. f = [q \in Dom |-> PickIn(tree, opt, f, q[1], q[2])]
  BY <1>6, <1>8
<1>. QED
  BY <1>9 DEF PickOf

LEMMA PickAllGood ==
  ASSUME NEW tree, IsTree(tree), NEW opt, NEW f, PickOf(tree, opt, f)
  PROVE  \A n \in DOMAIN tree : GoodAt(tree, f, n)
<1>. DEFINE d == Cardinality(DOMAIN tree)
            T == {h \in Nat : \A n \in DOMAIN tree : Len(n) + h >= d => GoodAt(tree, f, n)}
<1>1. d \in Nat /\ \A n \in DOMAIN tree : Len(n) \in Nat /\ Len(n) < d
  BY FS_CardinalityType, PathIs, PathsAreShort DEF IsTree
<1>2. \A n \in DOMAIN tree, st \in States(tree) : f[<<n, st>>] = PickIn(tree, opt, f, n, st)
  <2>1. ASSUME NEW n \in DOMAIN tree, NEW st \in States(tree)
        PROVE  f[<<n, st>>] = PickIn(tree, opt, f, n, st)
    <3>1. <<n, st>> \in PickDomain(tree) /\ <<n, st>>[1] = n /\ <<n, st>>[2] = st
      BY DEF PickDomain
    <3>. QED
      BY <3>1 DEF PickOf
  <2>. QED
    BY <2>1
<1>3. 0 \in T
  BY <1>1
<1>4. ASSUME NEW h \in Nat, h \in T PROVE h + 1 \in T
  <2>1. ASSUME NEW n \in DOMAIN tree, Len(n) + (h + 1) >= d PROVE GoodAt(tree, f, n)
    <3>1. ASSUME NEW k \in Nat, Append(n, k) \in DOMAIN tree PROVE GoodAt(tree, f, Append(n, k))
      <4>1. PICK m \in DOMAIN tree : m = Append(n, k)
        BY <3>1
      <4>2. Len(m) + h >= d
        BY <4>1, <2>1, <1>1, SubIsDeeper
      <4>. QED
        BY <4>1, <4>2, <1>4
    <3>2. SubsGood(tree, f, n)
      BY <3>1 DEF SubsGood
    <3>. QED
      BY <1>2, <3>2, PickInGood DEF GoodAt
  <2>. QED
    BY <2>1
<1>5. Nat \subseteq T
  <2>. HIDE DEF T
  <2>. QED
    BY <1>3, <1>4, NatSetInduction
<1>6. d \in T
  BY <1>1, <1>5
<1>. QED
  BY <1>1, <1>6

LEMMA PickIsGood ==
  ASSUME NEW tree, IsTree(tree), NEW opt, NEW st \in States(tree), NEW r \in Pick(tree, opt, st)
  PROVE  GoodPick(tree, <<>>, r)
<1>1. PICK f : f = CHOOSE g : PickOf(tree, opt, g)
  OBVIOUS
<1>2. PickOf(tree, opt, f)
  BY <1>1, PickExists
<1>3. Pick(tree, opt, st) = f[<<<<>>, st>>]
  BY <1>1 DEF Pick, PickOf, PickDomain
<1>4. GoodAt(tree, f, <<>>)
  BY <1>2, PickAllGood DEF IsTree
<1>. QED
  BY <1>3, <1>4 DEF GoodAt

----------------------------------------------------------------------------
(***************************************************************************)
(* find goes down the tree by the id's parts, and ends in the leaf that    *)
(* they are the path to.                                                   *)
(***************************************************************************)
FindDomain(tree) == (DOMAIN tree) \X Seq(Nat)
FindOf(tree, id, f) == f = [p \in FindDomain(tree) |-> FindIn(tree, id, f, p[1], p[2])]

FoundFrom(tree, id, f, n) == \A q \in Seq(Nat) : f[<<n, q>>] = FindIn(tree, id, f, n, q)

\* What find meets at the end of a path.
Leads(tree, id, p, r) ==
  r = NoSample \/ (p \in DOMAIN tree /\ tree[p].kind # "dir" /\ r = FindLeaf(tree, p, id))

LeadsAt(tree, id, f, n) == \A q \in Seq(Nat) : Leads(tree, id, n \o q, f[<<n, q>>])

LEMMA PartsOf ==
  ASSUME NEW n \in Seq(Nat), NEW q \in Seq(Nat), q # <<>>
  PROVE  Head(q) \in Nat /\ Tail(q) \in Seq(Nat) /\ Append(n, Head(q)) \o Tail(q) = n \o q
<1>1. PICK k \in Nat, t \in Seq(Nat) : k = Head(q) /\ t = Tail(q) /\ q = <<k>> \o t
  <2>1. Head(q) \in Nat /\ Tail(q) \in Seq(Nat)
    BY HeadTailProperties
  <2>2. q = <<Head(q)>> \o Tail(q)
    OBVIOUS
  <2>. QED
    BY <2>1, <2>2
<1>2. n \o (<<k>> \o t) = Append(n, k) \o t
  BY PathOn
<1>. QED
  BY <1>1, <1>2

LEMMA FindInRests ==
  ASSUME NEW tree, IsTree(tree), NEW id, NEW f, NEW g, NEW n \in DOMAIN tree, NEW q \in Seq(Nat),
         \A k \in Nat : Append(n, k) \in DOMAIN tree =>
            \A t \in Seq(Nat) : f[<<Append(n, k), t>>] = g[<<Append(n, k), t>>]
  PROVE  FindIn(tree, id, f, n, q) = FindIn(tree, id, g, n, q)
<1>1. CASE q # <<>> /\ Append(n, Head(q)) \in DOMAIN tree
  <2>1. Head(q) \in Nat /\ Tail(q) \in Seq(Nat)
    BY <1>1, PathIs, PartsOf
  <2>2. f[<<Append(n, Head(q)), Tail(q)>>] = g[<<Append(n, Head(q)), Tail(q)>>]
    BY <1>1, <2>1
  <2>. QED
    BY <2>2, Zenon DEF FindIn
<1>2. CASE ~ (q # <<>> /\ Append(n, Head(q)) \in DOMAIN tree)
  BY <1>2, Zenon DEF FindIn
<1>. QED
  BY <1>1, <1>2

LEMMA FindExists ==
  ASSUME NEW tree, IsTree(tree), NEW id
  PROVE  \E f : FindOf(tree, id, f)
<1>. DEFINE d == Cardinality(DOMAIN tree)
            Total(f) == f = [p \in FindDomain(tree) |-> f[p]]
            Deep(f, h) == \A n \in DOMAIN tree : Len(n) + h >= d => FoundFrom(tree, id, f, n)
            T == {h \in Nat : \E f : Total(f) /\ Deep(f, h)}
<1>1. d \in Nat /\ \A n \in DOMAIN tree : Len(n) \in Nat /\ Len(n) < d
  BY FS_CardinalityType, PathIs, PathsAreShort DEF IsTree
<1>2. 0 \in T
  <2>1. PICK f : f = [p \in FindDomain(tree) |-> NoSample]
    OBVIOUS
  <2>2. Total(f)
    BY <2>1
  <2>3. Deep(f, 0)
    BY <1>1
  <2>. QED
    BY <2>2, <2>3
<1>3. ASSUME NEW h \in Nat, h \in T PROVE h + 1 \in T
  <2>1. PICK f : Total(f) /\ Deep(f, h)
    BY <1>3
  <2>2. PICK g : g = [p \in FindDomain(tree) |->
                        IF Len(p[1]) + h + 1 >= d THEN FindIn(tree, id, f, p[1], p[2]) ELSE NoSample]
    OBVIOUS
  <2>3. \A n \in DOMAIN tree, q \in Seq(Nat) :
          g[<<n, q>>] = IF Len(n) + h + 1 >= d THEN FindIn(tree, id, f, n, q) ELSE NoSample
    BY <2>2 DEF FindDomain
  <2>4. Total(g)
    BY <2>2, <2>3
  <2>5. ASSUME NEW n \in DOMAIN tree, Len(n) + (h + 1) >= d PROVE FoundFrom(tree, id, g, n)
    <3>1. ASSUME NEW k \in Nat, Append(n, k) \in DOMAIN tree
          PROVE  \A t \in Seq(Nat) : f[<<Append(n, k), t>>] = g[<<Append(n, k), t>>]
      <4>1. PICK m \in DOMAIN tree : m = Append(n, k)
        BY <3>1
      <4>2. Len(m) + h >= d /\ Len(m) + h + 1 >= d
        BY <4>1, <2>5, <1>1, SubIsDeeper
      <4>3. FoundFrom(tree, id, f, m)
        BY <2>1, <4>2
      <4>4. \A t \in Seq(Nat) :
              f[<<m, t>>] = FindIn(tree, id, f, m, t) /\ g[<<m, t>>] = FindIn(tree, id, f, m, t)
        BY <4>2, <4>3, <2>3 DEF FoundFrom
      <4>5. \A t \in Seq(Nat) : f[<<m, t>>] = g[<<m, t>>]
        BY <4>4
      <4>. QED
        BY <4>1, <4>5
    <3>2. \A q \in Seq(Nat) : FindIn(tree, id, f, n, q) = FindIn(tree, id, g, n, q)
      BY <3>1, FindInRests
    <3>3. Len(n) + h + 1 >= d
      BY <2>5, <1>1
    <3>. QED
      BY <3>2, <3>3, <2>3 DEF FoundFrom
  <2>. QED
    BY <2>4, <2>5
<1>4. Nat \subseteq T
  <2>. HIDE DEF T
  <2>. QED
    BY <1>2, <1>3, NatSetInduction
<1>5. PICK f : Total(f) /\ Deep(f, d)
  BY <1>1, <1>4
<1>6. \A n \in DOMAIN tree : FoundFrom(tree, id, f, n)
  BY <1>1, <1>5
<1>7. \A n \in DOMAIN tree, q \in Seq(Nat) : f[<<n, q>>] = FindIn(tree, id, f, n, q)
  BY <1>6 DEF FoundFrom
<1>8. f = [p \in FindDomain(tree) |-> FindIn(tree, id, f, p[1], p[2])]
  <2>1. \A p \in FindDomain(tree) : f[p] = FindIn(tree, id, f, p[1], p[2])
    BY <1>7 DEF FindDomain
  <2>. QED
    BY <1>5, <2>1
<1>. QED
  BY <1>8 DEF FindOf

LEMMA FindLeads ==
  ASSUME NEW tree, IsTree(tree), NEW id, NEW f, FindOf(tree, id, f)
  PROVE  \A n \in DOMAIN tree : LeadsAt(tree, id, f, n)
<1>. DEFINE d == Cardinality(DOMAIN tree)
            T == {h \in Nat : \A n \in DOMAIN tree : Len(n) + h >= d => LeadsAt(tree, id, f, n)}
<1>1. d \in Nat /\ \A n \in DOMAIN tree : Len(n) \in Nat /\ Len(n) < d
  BY FS_CardinalityType, PathIs, PathsAreShort DEF IsTree
<1>2. \A n \in DOMAIN tree, q \in Seq(Nat) : f[<<n, q>>] = FindIn(tree, id, f, n, q)
  <2>1. \A p \in FindDomain(tree) : f[p] = FindIn(tree, id, f, p[1], p[2])
    BY DEF FindOf
  <2>. QED
    BY <2>1 DEF FindDomain
<1>3. 0 \in T
  BY <1>1
<1>4. ASSUME NEW h \in Nat, h \in T PROVE h + 1 \in T
  <2>1. ASSUME NEW n \in DOMAIN tree, Len(n) + (h + 1) >= d, NEW q \in Seq(Nat)
        PROVE  Leads(tree, id, n \o q, f[<<n, q>>])
    <3>1. n \in Seq(Nat) /\ n \o <<>> = n
      BY PathIs
    <3>2. f[<<n, q>>] = FindIn(tree, id, f, n, q)
      BY <1>2
    <3>3. CASE tree[n].kind # "dir"
      <4>1. CASE q = <<>>
        <5>1. f[<<n, q>>] = FindLeaf(tree, n, id) /\ n \o q = n
          BY <3>1, <3>2, <3>3, <4>1 DEF FindIn
        <5>. QED
          BY <5>1, <3>3 DEF Leads
      <4>2. CASE q # <<>>
        BY <3>2, <3>3, <4>2 DEF FindIn, Leads
      <4>. QED
        BY <4>1, <4>2
    <3>4. CASE tree[n].kind = "dir" /\ q # <<>> /\ Append(n, Head(q)) \in DOMAIN tree
      <4>1. PICK m \in DOMAIN tree, t \in Seq(Nat) :
              m = Append(n, Head(q)) /\ t = Tail(q) /\ m \o t = n \o q /\ Head(q) \in Nat
        BY <3>1, <3>4, PartsOf
      <4>2. Len(m) + h >= d
        BY <4>1, <2>1, <1>1, SubIsDeeper
      <4>3. Leads(tree, id, m \o t, f[<<m, t>>])
        BY <1>4, <4>2 DEF LeadsAt
      <4>4. f[<<n, q>>] = f[<<m, t>>]
        BY <3>2, <3>4, <4>1 DEF FindIn
      <4>. QED
        BY <4>1, <4>3, <4>4
    <3>5. CASE tree[n].kind = "dir" /\ ~ (q # <<>> /\ Append(n, Head(q)) \in DOMAIN tree)
      BY <3>2, <3>5 DEF FindIn, Leads
    <3>. QED
      BY <3>3, <3>4, <3>5
  <2>. QED
    BY <2>1 DEF LeadsAt
<1>5. Nat \subseteq T
  <2>. HIDE DEF T
  <2>. QED
    BY <1>3, <1>4, NatSetInduction
<1>6. d \in T
  BY <1>1, <1>5
<1>. QED
  BY <1>1, <1>6

\* What find finds is what the id names, but for the v of an id that is made
\* for a raw file and looked for in a picture.
LEMMA FindIsGood ==
  ASSUME NEW tree, IsTree(tree), NEW id, id.of \in Seq(Nat), id = [of |-> id.of, v |-> id.v, x |-> id.x],
         Find(tree, id) # NoSample
  PROVE  /\ id.of \in DOMAIN tree
         /\ tree[id.of].kind \in {"pic", "u8"} /\ Find(tree, id).of = id.of
         /\ id.v = 0 \/ tree[id.of].kind = "u8" => Find(tree, id) = id
<1>1. PICK f : f = CHOOSE g : FindOf(tree, id, g)
  OBVIOUS
<1>2. FindOf(tree, id, f)
  BY <1>1, FindExists
<1>3. PICK r : r = Find(tree, id) /\ r # NoSample
  OBVIOUS
<1>4. r = f[<<<<>>, id.of>>]
  BY <1>1, <1>3 DEF Find, FindOf, FindDomain
<1>5. PICK p \in Seq(Nat) : p = id.of /\ <<>> \o p = p
  OBVIOUS
<1>6. Leads(tree, id, <<>> \o p, r)
  BY <1>2, <1>4, <1>5, FindLeads DEF LeadsAt, IsTree
<1>7. p \in DOMAIN tree /\ tree[p].kind # "dir" /\ r = FindLeaf(tree, p, id)
  BY <1>3, <1>5, <1>6 DEF Leads
<1>8. CASE tree[p].kind = "pic"
  <2>1. r = [of |-> p, v |-> 0, x |-> id.x]
    BY <1>3, <1>7, <1>8 DEF FindLeaf
  <2>. QED
    BY <2>1, <1>3, <1>5, <1>7, <1>8
<1>9. CASE tree[p].kind = "u8"
  <2>1. r = [of |-> p, v |-> id.v, x |-> 0] /\ id.x = 0
    BY <1>3, <1>7, <1>9 DEF FindLeaf
  <2>. QED
    BY <2>1, <1>3, <1>5, <1>7, <1>9
<1>. QED
  BY <1>7, <1>8, <1>9, LeafIs

-----------------------------------------------------------------------------
(***************************************************************************)
(* The invariant: main's calls are known, and find is only one of them     *)
(* when pairs are picked; the source's idi are in range, unless find alone *)
(* goes through the source; and what is in hand, and in the log, has the   *)
(* id that names it, where the v of an id is that of a raw file.           *)
(***************************************************************************)
Sample == [of : Seq(Nat), v : Nat, x : Nat]
Calls(cmd) ==
  [call : {"open in", "pic", "close in", "first", "next", "sink", "top", "pick", "place", "open out",
           "write", "push", "close out", "let go out", "reap in", "reap out", "exit"}
             \cup (IF cmd = "pairs" THEN {"find"} ELSE {}),
   of : Seq(Nat)]
Same(h) == h \in [sample : Sample, id : Sample] /\ h.sample = h.id
VOfRaw(tree, id) == id.v = 0 \/ (id.of \in DOMAIN tree /\ tree[id.of].kind = "u8")

CallsKnown == todo \in Seq(Calls(scene.cmd))
IdiInRange == scene.opt.trav # "refs" => kl \in States(scene.tree)
HandKnown == hand.id.of \in Seq(Nat) /\ hand.id = [of |-> hand.id.of, v |-> hand.id.v, x |-> hand.id.x]
HandNamed == Source # "vid" => Same(hand) /\ VOfRaw(scene.tree, hand.id)
LogNamed == Source # "vid" => log \in Seq({h \in [sample : Sample, id : Sample] : h.sample = h.id})
SynthInv ==
  /\ scene \in Scenes
  /\ line \in Nat
  /\ CallsKnown
  /\ IdiInRange
  /\ HandKnown
  /\ HandNamed
  /\ LogNamed

\* The calls that read the source, and make the sink.
InCall == [call : {"open in", "pic", "close in", "first", "next", "reap in", "sink"}, of : Seq(Nat)]

LEMMA NoPath == <<>> \in Seq(Nat)
OBVIOUS

LEMMA LoadsAreIn ==
  ASSUME NEW reads \in Seq(Seq(Nat))
  PROVE  Loads(reads) \in Seq(InCall)
<1>1. PICK l \in Nat : l = Len(reads)
  OBVIOUS
<1>2. \A k \in 1 .. (3 * l) : (k + 2) \div 3 \in 1 .. l /\ ((k - 1) % 3) + 1 \in 1 .. 3
  OBVIOUS
<1>3. \A n \in Seq(Nat), j \in 1 .. 3 : Load1(n)[j] \in InCall
  <2>. SUFFICES ASSUME NEW n \in Seq(Nat), NEW j \in 1 .. 3 PROVE Load1(n)[j] \in InCall
    OBVIOUS
  <2>1. [call |-> "open in", of |-> n] \in InCall
    BY DEF InCall
  <2>2. C("pic") \in InCall /\ C("close in") \in InCall
    BY NoPath DEF InCall, C
  <2>3. j = 1 \/ j = 2 \/ j = 3
    OBVIOUS
  <2>4. /\ Load1(n)[1] = [call |-> "open in", of |-> n]
        /\ Load1(n)[2] = C("pic") /\ Load1(n)[3] = C("close in")
    BY DEF Load1
  <2>. QED
    BY <2>1, <2>2, <2>3, <2>4
<1>4. \A k \in 1 .. l : reads[k] \in Seq(Nat)
  BY <1>1
<1>5. \A k \in 1 .. (3 * l) : Load1(reads[(k + 2) \div 3])[((k - 1) % 3) + 1] \in InCall
  BY <1>2, <1>3, <1>4
<1>6. Loads(reads) = [k \in 1 .. (3 * l) |-> Load1(reads[(k + 2) \div 3])[((k - 1) % 3) + 1]]
  BY <1>1 DEF Loads
<1>7. 3 * l \in Nat
  BY <1>1
<1>. HIDE DEF InCall
<1>. QED
  BY <1>5, <1>6, <1>7

LEMMA LoadsAreCalls ==
  ASSUME NEW cmd, NEW reads \in Seq(Seq(Nat))
  PROVE  Loads(reads) \in Seq(Calls(cmd))
<1>1. InCall \subseteq Calls(cmd)
  BY DEF InCall, Calls
<1>2. Loads(reads) \in Seq(InCall)
  BY LoadsAreIn
<1>. QED
  BY <1>1, <1>2, SeqMonotonic

LEMMA CallsAre ==
  ASSUME NEW cmd
  PROVE  /\ \A c \in {"open in", "pic", "close in", "first", "next", "sink", "top", "pick", "place",
                      "open out", "write", "push", "close out", "let go out", "reap in", "reap out",
                      "exit"} : C(c) \in Calls(cmd)
         /\ cmd = "pairs" => C("find") \in Calls(cmd)
BY DEF Calls, C

LEMMA Few ==
  ASSUME NEW S, NEW a \in S
  PROVE  /\ <<>> \in Seq(S) /\ <<a>> \in Seq(S)
         /\ \A b \in S : /\ <<a, b>> \in Seq(S)
                         /\ \A c \in S : <<a, b, c>> \in Seq(S) /\ \A d \in S : <<a, b, c, d>> \in Seq(S)
OBVIOUS

\* The calls that the actions put before main.
LEMMA CallSeqs ==
  ASSUME NEW cmd
  PROVE  /\ <<>> \in Seq(Calls(cmd)) /\ <<C("top")>> \in Seq(Calls(cmd)) /\ <<C("next")>> \in Seq(Calls(cmd))
         /\ <<C("close in")>> \in Seq(Calls(cmd))
         /\ <<C("reap in")>> \in Seq(Calls(cmd)) /\ <<C("sink"), C("top")>> \in Seq(Calls(cmd))
         /\ <<C("pick"), C("place")>> \in Seq(Calls(cmd))
         /\ cmd = "pairs" => <<C("pick"), C("find")>> \in Seq(Calls(cmd))
         /\ <<C("write"), C("push")>> \in Seq(Calls(cmd))
         /\ <<C("open out"), C("write"), C("push")>> \in Seq(Calls(cmd))
         /\ <<C("push"), C("let go out"), C("reap out")>> \in Seq(Calls(cmd))
         /\ <<C("open out"), C("write"), C("push"), C("close out")>> \in Seq(Calls(cmd))
         /\ LoadVid \in Seq(Calls(cmd)) /\ Finish \in Seq(Calls(cmd))
<1>. DEFINE S == Calls(cmd)
<1>1. \A a \in S : <<>> \in Seq(S) /\ <<a>> \in Seq(S)
  BY Few
<1>2. \A a \in S, b \in S : <<a, b>> \in Seq(S)
  BY Few
<1>3. \A a \in S, b \in S, c \in S : <<a, b, c>> \in Seq(S)
  BY Few
<1>4. \A a \in S, b \in S, c \in S, d \in S : <<a, b, c, d>> \in Seq(S)
  BY Few
<1>5. /\ C("open in") \in S /\ C("close in") \in S /\ C("first") \in S /\ C("next") \in S /\ C("sink") \in S
      /\ C("top") \in S /\ C("pick") \in S /\ C("place") \in S /\ C("open out") \in S /\ C("write") \in S
      /\ C("push") \in S /\ C("close out") \in S /\ C("let go out") \in S /\ C("reap in") \in S
      /\ C("reap out") \in S /\ C("exit") \in S /\ (cmd = "pairs" => C("find") \in S)
  BY CallsAre
<1>. HIDE DEF S
<1>6. LoadVid \in Seq(S) /\ Finish \in Seq(S)
  BY <1>2, <1>3, <1>5, Zenon DEF LoadVid, Finish
<1>7. /\ <<>> \in Seq(S) /\ <<C("top")>> \in Seq(S) /\ <<C("next")>> \in Seq(S) /\ <<C("close in")>> \in Seq(S)
      /\ <<C("reap in")>> \in Seq(S)
  BY <1>1, <1>5, Zenon
<1>8. /\ <<C("sink"), C("top")>> \in Seq(S) /\ <<C("pick"), C("place")>> \in Seq(S)
      /\ <<C("write"), C("push")>> \in Seq(S)
  BY <1>2, <1>5, Zenon
<1>9. cmd = "pairs" => <<C("pick"), C("find")>> \in Seq(S)
  BY <1>2, <1>5, Zenon
<1>10. /\ <<C("open out"), C("write"), C("push")>> \in Seq(S)
       /\ <<C("push"), C("let go out"), C("reap out")>> \in Seq(S)
  BY <1>3, <1>5, Zenon
<1>11. <<C("open out"), C("write"), C("push"), C("close out")>> \in Seq(S)
  BY <1>4, <1>5, Zenon
<1>. QED
  BY <1>6, <1>7, <1>8, <1>9, <1>10, <1>11, Zenon DEF S

LEMMA ThenCalls ==
  ASSUME NEW S, todo \in Seq(S), todo # <<>>, NEW calls \in Seq(S), Then(calls)
  PROVE  todo' \in Seq(S)
<1>1. Tail(todo) \in Seq(S)
  OBVIOUS
<1>. QED
  BY <1>1 DEF Then

LEMMA Joined ==
  ASSUME NEW S, NEW s \in Seq(S), NEW t \in Seq(S)
  PROVE  s \o t \in Seq(S)
OBVIOUS

\* A step that only calls.
OnlyCalls == UNCHANGED <<scene, kl, line, hand, log>> /\ todo' \in Seq(Calls(scene.cmd))

LEMMA OnlyCallsKeeps == SynthInv /\ OnlyCalls => SynthInv'
<1>. SUFFICES ASSUME SynthInv, OnlyCalls PROVE SynthInv'
  OBVIOUS
<1>1. scene' = scene /\ kl' = kl /\ line' = line /\ hand' = hand /\ log' = log
  BY DEF OnlyCalls
<1>2. Source' = Source
  BY <1>1 DEF Source
<1>3. scene' \in Scenes /\ line' \in Nat
  BY <1>1 DEF SynthInv
<1>4. CallsKnown'
  BY <1>1 DEF OnlyCalls, CallsKnown
<1>5. IdiInRange'
  BY <1>1 DEF SynthInv, IdiInRange
<1>6. HandKnown' /\ HandNamed'
  BY <1>1, <1>2 DEF SynthInv, HandKnown, HandNamed
<1>7. LogNamed'
  BY <1>1, <1>2 DEF SynthInv, LogNamed
<1>. QED
  BY <1>3, <1>4, <1>5, <1>6, <1>7 DEF SynthInv

LEMMA InitInv == Init => SynthInv
<1>. SUFFICES ASSUME Init PROVE SynthInv
  OBVIOUS
<1>1. /\ scene \in Scenes /\ todo = <<>> /\ kl = Fresh(scene.tree) /\ line = 0
      /\ hand = [sample |-> NoSample, id |-> NoSample] /\ log = <<>>
  BY DEF Init
<1>2. IsTree(scene.tree)
  BY <1>1, SceneAssumption
<1>3. CallsKnown
  BY <1>1 DEF CallsKnown
<1>4. IdiInRange
  BY <1>1, <1>2, FreshIsAState DEF IdiInRange
<1>5. HandKnown /\ HandNamed
  <2>1. NoSample = [of |-> NoSample.of, v |-> NoSample.v, x |-> NoSample.x] /\ NoSample \in Sample /\ NoSample.v = 0
    BY DEF NoSample, Sample
  <2>2. hand.sample = NoSample /\ hand.id = NoSample
    BY <1>1
  <2>. QED
    BY <1>1, <2>1, <2>2 DEF HandKnown, HandNamed, Same, VOfRaw, Sample
<1>6. LogNamed
  BY <1>1 DEF LogNamed
<1>. QED
  BY <1>1, <1>3, <1>4, <1>5, <1>6 DEF SynthInv

LEMMA AbortsInv == SynthInv /\ Aborts => SynthInv'
<1>. SUFFICES ASSUME SynthInv, Aborts PROVE SynthInv'
  OBVIOUS
<1>1. OnlyCalls
  BY DEF Aborts, OnlyCalls, sourceVars, loopVars
<1>. QED
  BY <1>1, OnlyCallsKeeps

\* The source's picture, if it is one, is read; a directory gets its list.
LEMMA StartInv == SynthInv /\ Start => SynthInv'
<1>. SUFFICES ASSUME SynthInv, Start PROVE SynthInv'
  OBVIOUS
<1>1. scene \in Scenes /\ CallsKnown /\ IdiInRange /\ line \in Nat
  BY DEF SynthInv
<1>2. IsTree(scene.tree) /\ <<>> \in DOMAIN scene.tree
  BY <1>1, SceneAssumption DEF IsTree
<1>3. PICK reads \in Seq(Seq(Nat)) : reads = Reads(scene.tree, <<>>, kl)
  BY <1>2, ReadsAre
<1>4. /\ scene' = scene /\ line' = line /\ hand' = hand /\ log' = log
      /\ \/ todo' = todo /\ kl' = kl
         \/ todo' = <<C("top")>> /\ kl' = kl
         \/ todo' = LoadVid \o <<C("sink"), C("top")>> /\ kl' = kl
         \/ todo' = Loads(reads) \o <<C("sink"), C("top")>> /\ kl' = Load(<<>>, kl)
  BY <1>3 DEF Start, loopVars
<1>5. /\ <<C("top")>> \in Seq(Calls(scene.cmd)) /\ <<C("sink"), C("top")>> \in Seq(Calls(scene.cmd))
      /\ LoadVid \in Seq(Calls(scene.cmd))
  BY CallSeqs, Zenon
<1>6. todo' \in Seq(Calls(scene.cmd))
  <2>1. Loads(reads) \in Seq(Calls(scene.cmd))
    BY LoadsAreCalls
  <2>. QED
    BY <1>1, <1>4, <1>5, <2>1, Joined DEF CallsKnown
<1>7. CASE kl' = kl
  BY <1>4, <1>6, <1>7, OnlyCallsKeeps DEF OnlyCalls
<1>8. CASE kl' = Load(<<>>, kl)
  <2>1. Source' = Source
    BY <1>4 DEF Source
  <2>2. IdiInRange'
    BY <1>1, <1>2, <1>4, <1>8, LoadKeeps DEF IdiInRange
  <2>3. HandKnown' /\ HandNamed' /\ LogNamed'
    BY <1>4, <2>1 DEF SynthInv, HandKnown, HandNamed, LogNamed
  <2>4. CallsKnown' /\ scene' \in Scenes /\ line' \in Nat
    BY <1>1, <1>4, <1>6 DEF CallsKnown
  <2>. QED
    BY <2>2, <2>3, <2>4 DEF SynthInv
<1>. QED
  BY <1>4, <1>7, <1>8

\* The calls that only add calls to those that main has before it.
OnlyThen(calls) ==
  /\ todo # <<>> /\ Then(calls)
  /\ UNCHANGED <<scene, kl, line, hand, log>>

LEMMA OnlyThenKeeps ==
  ASSUME SynthInv, NEW calls \in Seq(Calls(scene.cmd)), OnlyThen(calls)
  PROVE  SynthInv'
<1>1. todo \in Seq(Calls(scene.cmd))
  BY DEF SynthInv, CallsKnown
<1>2. todo' \in Seq(Calls(scene.cmd))
  <2>. HIDE DEF Calls
  <2>. QED
    BY <1>1, ThenCalls DEF OnlyThen
<1>3. OnlyCalls
  BY <1>2 DEF OnlyThen, OnlyCalls
<1>. QED
  BY <1>3, OnlyCallsKeeps

LEMMA MakeSinkInv == SynthInv /\ MakeSink => SynthInv'
<1>. SUFFICES ASSUME SynthInv, MakeSink PROVE SynthInv'
  OBVIOUS
<1>1. CASE todo' = <<>>
  BY <1>1, OnlyCallsKeeps DEF MakeSink, OnlyCalls, sourceVars, loopVars
<1>2. CASE todo' # <<>>
  <2>1. OnlyThen(<<>>)
    BY <1>2 DEF MakeSink, OnlyThen, At, sourceVars, loopVars
  <2>. QED
    BY <2>1, CallSeqs, OnlyThenKeeps
<1>. QED
  BY <1>1, <1>2

LEMMA TopInv == SynthInv /\ Top => SynthInv'
<1>. SUFFICES ASSUME SynthInv, Top PROVE SynthInv'
  OBVIOUS
<1>1. todo' = Finish \/ todo' = <<C("pick"), C("place")>> \/ (scene.cmd = "pairs" /\ todo' = <<C("pick"), C("find")>>)
  BY Zenon DEF Top
<1>2. todo' \in Seq(Calls(scene.cmd))
  BY <1>1, CallSeqs, Zenon
<1>. QED
  BY <1>2, OnlyCallsKeeps DEF Top, OnlyCalls, sourceVars, loopVars

LEMMA EmptyPath == \A q \in Seq(Nat) : <<>> \o q = q
OBVIOUS

LEMMA PickSampleInv == SynthInv /\ PickSample => SynthInv'
<1>. SUFFICES ASSUME SynthInv, PickSample PROVE SynthInv'
  OBVIOUS
<1>1. /\ scene \in Scenes /\ todo \in Seq(Calls(scene.cmd)) /\ todo # <<>>
      /\ Source # "vid" /\ scene.opt.trav # "refs"
  BY DEF SynthInv, CallsKnown, PickSample, At
<1>2. IsTree(scene.tree) /\ kl \in States(scene.tree)
  BY <1>1, SceneAssumption DEF SynthInv, IdiInRange
<1>3. PICK r \in Pick(scene.tree, scene.opt, kl) :
          \/ /\ r.ret # "abort"
             /\ kl' = r.st
             /\ todo' = Loads(r.reads) \o IF r.ret = "sample" THEN Tail(todo) ELSE Finish
             /\ hand' = IF r.ret = "sample" THEN [sample |-> r.sample, id |-> r.id] ELSE hand
             /\ UNCHANGED <<scene, at, tkl, line, frames, readVars, sinkVars, i, log, pipeVars>>
          \/ r.ret = "abort" /\ Aborts
  BY Zenon DEF PickSample
<1>4. CASE Aborts
  BY <1>4, AbortsInv
<1>5. CASE ~ Aborts
  <2>1. /\ kl' = r.st /\ scene' = scene /\ line' = line /\ log' = log
        /\ todo' = Loads(r.reads) \o IF r.ret = "sample" THEN Tail(todo) ELSE Finish
        /\ hand' = IF r.ret = "sample" THEN [sample |-> r.sample, id |-> r.id] ELSE hand
    BY <1>3, <1>5, Zenon
  <2>2. GoodPick(scene.tree, <<>>, r)
    BY <1>2, PickIsGood
  <2>3. /\ r.id = [of |-> r.id.of, v |-> r.id.v, x |-> r.id.x]
        /\ r.id.of \in Seq(Nat) /\ r.id.v \in Nat /\ r.id.x \in Nat
        /\ r.st \in States(scene.tree) /\ r.reads \in Seq(Seq(Nat))
        /\ r.ret = "sample" => Names(scene.tree, <<>>, r.id, r.sample)
    BY <2>2 DEF GoodPick
  <2>4. CallsKnown'
    <3>1. Tail(todo) \in Seq(Calls(scene.cmd)) /\ Finish \in Seq(Calls(scene.cmd))
      <4>. HIDE DEF Calls
      <4>1. Tail(todo) \in Seq(Calls(scene.cmd))
        BY <1>1
      <4>. QED
        BY <4>1, CallSeqs, Zenon
    <3>2. Loads(r.reads) \in Seq(Calls(scene.cmd))
      BY <2>3, LoadsAreCalls
    <3>3. todo' \in Seq(Calls(scene.cmd))
      <4>1. CASE r.ret = "sample"
        <5>1. todo' = Loads(r.reads) \o Tail(todo)
          BY <2>1, <4>1
        <5>. QED
          BY <5>1, <3>1, <3>2, Joined
      <4>2. CASE r.ret # "sample"
        <5>1. todo' = Loads(r.reads) \o Finish
          BY <2>1, <4>2
        <5>. QED
          BY <5>1, <3>1, <3>2, Joined
      <4>. QED
        BY <4>1, <4>2
    <3>. QED
      BY <3>3, <2>1 DEF CallsKnown
  <2>5. IdiInRange'
    BY <2>1, <2>3 DEF IdiInRange
  <2>6. Source' = Source
    BY <2>1 DEF Source
  <2>7. HandKnown' /\ HandNamed'
    <3>1. CASE r.ret = "sample"
      <4>1. Names(scene.tree, <<>>, r.id, r.sample)
        BY <2>3, <3>1
      <4>2. r.sample = r.id /\ r.id \in Sample
        BY <4>1, <2>3, EmptyPath DEF Names, Sample
      <4>3. VOfRaw(scene.tree, r.id)
        BY <4>1, <4>2 DEF Names, VOfRaw
      <4>4. hand' = [sample |-> r.sample, id |-> r.id]
        BY <2>1, <3>1
      <4>5. hand'.sample = r.sample /\ hand'.id = r.id /\ hand' \in [sample : Sample, id : Sample]
        BY <4>2, <4>4
      <4>. QED
        BY <4>2, <4>3, <4>5, <2>1, <2>3 DEF HandKnown, HandNamed, Same
    <3>2. CASE r.ret # "sample"
      <4>1. hand' = hand
        BY <2>1, <3>2
      <4>. QED
        BY <4>1, <2>1, <2>6 DEF SynthInv, HandKnown, HandNamed
    <3>. QED
      BY <3>1, <3>2
  <2>8. LogNamed'
    BY <2>1, <2>6 DEF SynthInv, LogNamed
  <2>9. scene' \in Scenes /\ line' \in Nat
    BY <2>1 DEF SynthInv
  <2>. QED
    BY <2>4, <2>5, <2>7, <2>8, <2>9 DEF SynthInv
<1>. QED
  BY <1>4, <1>5

LEMMA PickRefInv == SynthInv /\ PickRef => SynthInv'
<1>. SUFFICES ASSUME SynthInv, PickRef PROVE SynthInv'
  OBVIOUS
<1>1. /\ scene \in Scenes /\ line \in Nat /\ todo \in Seq(Calls(scene.cmd)) /\ todo # <<>>
      /\ scene.opt.trav = "refs"
  BY DEF SynthInv, CallsKnown, PickRef, At
<1>2. IsTree(scene.tree) /\ scene.refs \in Seq(Sample)
  BY <1>1, SceneAssumption DEF Sample
<1>3. PICK over, next, found :
        /\ over = (line >= Len(scene.refs)) /\ next = IF over THEN 1 ELSE line + 1
        /\ found = Find(scene.tree, scene.refs[next])
  OBVIOUS
<1>4. CASE Aborts
  BY <1>4, AbortsInv
<1>5. CASE over /\ ~ scene.opt.repeat /\ ~ Aborts
  <2>1. /\ scene' = scene /\ line' = 0 /\ kl' = kl /\ hand' = hand /\ log' = log /\ todo' = Finish
    BY <1>3, <1>5, Zenon DEF PickRef, loopVars
  <2>2. Source' = Source
    BY <2>1 DEF Source
  <2>3. CallsKnown'
    BY <2>1, CallSeqs, Zenon DEF CallsKnown
  <2>4. IdiInRange' /\ HandKnown' /\ HandNamed' /\ LogNamed' /\ scene' \in Scenes
    BY <2>1, <2>2 DEF SynthInv, IdiInRange, HandKnown, HandNamed, LogNamed
  <2>. QED
    BY <2>1, <2>3, <2>4 DEF SynthInv
<1>6. CASE ~ (over /\ ~ scene.opt.repeat) /\ ~ Aborts
  <2>1. /\ scene.refs # <<>> /\ found # NoSample /\ line' = next /\ scene' = scene /\ log' = log
        /\ hand' = [sample |-> found, id |-> scene.refs[next]]
        /\ Then(Loads(Reads(scene.tree, found.of, kl)))
    BY <1>3, <1>6, Zenon DEF PickRef
  <2>2. PICK l \in Nat : l = Len(scene.refs) /\ l # 0
    BY <1>2, <2>1
  <2>3. next \in 1 .. l
    <3>1. next = IF line >= l THEN 1 ELSE line + 1
      BY <1>3, <2>2
    <3>. QED
      BY <3>1, <1>1, <2>2
  <2>4. PICK id \in Sample : id = scene.refs[next]
    BY <1>2, <2>2, <2>3
  <2>5. id.of \in Seq(Nat) /\ id = [of |-> id.of, v |-> id.v, x |-> id.x]
    BY <2>4 DEF Sample
  <2>6. VOfRaw(scene.tree, id)
    BY <1>1, <2>2, <2>3, <2>4, SceneAssumption DEF VOfRaw
  <2>7. found = id /\ id.of \in DOMAIN scene.tree
    BY <1>2, <1>3, <2>1, <2>4, <2>5, <2>6, FindIsGood DEF VOfRaw
  <2>8. todo' \in Seq(Calls(scene.cmd))
    <3>1. Loads(Reads(scene.tree, found.of, kl)) \in Seq(Calls(scene.cmd))
      BY <1>2, <2>7, ReadsAre, LoadsAreCalls
    <3>. HIDE DEF Calls
    <3>. QED
      BY <1>1, <2>1, <3>1, ThenCalls
  <2>9. hand'.sample = id /\ hand'.id = id /\ hand' \in [sample : Sample, id : Sample]
    BY <2>1, <2>4, <2>7
  <2>10. HandKnown' /\ HandNamed'
    BY <2>1, <2>5, <2>6, <2>9 DEF HandKnown, HandNamed, Same
  <2>11. Source' = Source
    BY <2>1 DEF Source
  <2>12. IdiInRange' /\ CallsKnown' /\ LogNamed'
    BY <1>1, <2>1, <2>8, <2>11 DEF SynthInv, IdiInRange, CallsKnown, LogNamed
  <2>13. scene' \in Scenes /\ line' \in Nat
    BY <1>1, <2>1, <2>3
  <2>. QED
    BY <2>10, <2>12, <2>13 DEF SynthInv
<1>. QED
  BY <1>4, <1>5, <1>6

LEMMA PickFrameInv == SynthInv /\ PickFrame => SynthInv'
<1>. SUFFICES ASSUME SynthInv, PickFrame PROVE SynthInv'
  OBVIOUS
<1>1. /\ scene \in Scenes /\ line \in Nat /\ todo \in Seq(Calls(scene.cmd)) /\ todo # <<>> /\ Source = "vid"
  BY DEF SynthInv, CallsKnown, PickFrame, At
<1>2. scene' = scene /\ kl' = kl /\ line' = line
  BY DEF PickFrame
<1>3. todo' = LoadVid \o Finish \/ Then(<<C("next")>>)
  BY DEF PickFrame
<1>4. todo' \in Seq(Calls(scene.cmd))
  <2>. HIDE DEF Calls
  <2>1. LoadVid \o Finish \in Seq(Calls(scene.cmd)) /\ <<C("next")>> \in Seq(Calls(scene.cmd))
    BY CallSeqs, Joined
  <2>. QED
    BY <1>1, <1>3, <2>1, ThenCalls
<1>5. Source' = "vid"
  BY <1>1, <1>2 DEF Source
<1>6. HandKnown' /\ HandNamed' /\ LogNamed'
  <2>1. HandKnown'
    <3>1. CASE hand' = hand
      BY <3>1 DEF SynthInv, HandKnown
    <3>2. CASE hand' # hand
      <4>1. PICK x : hand' = [sample |-> [of |-> dat, v |-> frames, x |-> x],
                              id |-> [of |-> <<>>, v |-> frames, x |-> x]]
        BY <3>2 DEF PickFrame
      <4>2. PICK id : id = hand'.id /\ id = [of |-> <<>>, v |-> frames, x |-> x]
        BY <4>1
      <4>3. id.of = <<>> /\ id.v = frames /\ id.x = x
        BY <4>2
      <4>. QED
        BY <4>2, <4>3 DEF HandKnown
    <3>. QED
      BY <3>1, <3>2
  <2>. QED
    BY <2>1, <1>5 DEF HandNamed, LogNamed
<1>7. CallsKnown' /\ IdiInRange'
  BY <1>2, <1>4 DEF SynthInv, CallsKnown, IdiInRange
<1>. QED
  BY <1>1, <1>2, <1>6, <1>7 DEF SynthInv

LEMMA ReadingInv == SynthInv /\ (OpenIn \/ Read \/ ReadEof \/ CloseIn \/ ReapIn) => SynthInv'
<1>. SUFFICES ASSUME SynthInv, OpenIn \/ Read \/ ReadEof \/ CloseIn \/ ReapIn PROVE SynthInv'
  OBVIOUS
<1>1. CASE Aborts
  BY <1>1, AbortsInv
<1>2. CASE ~ Aborts
  <2>1. UNCHANGED <<scene, kl, line, hand, log>> /\ todo # <<>>
    BY <1>2 DEF OpenIn, Read, ReadEof, CloseIn, ReapIn, At, Reading, sourceVars, loopVars
  <2>2. \/ todo' = todo \/ Then(<<>>) \/ Then(<<C("close in")>> \o LoadVid) \/ Then(<<C("close in")>> \o <<>>)
        \/ Then(<<C("reap in")>>)
    BY <1>2, Zenon DEF OpenIn, Read, ReadEof, CloseIn, ReapIn
  <2>3. /\ <<>> \in Seq(Calls(scene.cmd)) /\ <<C("reap in")>> \in Seq(Calls(scene.cmd))
        /\ <<C("close in")>> \o LoadVid \in Seq(Calls(scene.cmd))
        /\ <<C("close in")>> \o <<>> \in Seq(Calls(scene.cmd))
    <3>. HIDE DEF Calls
    <3>. QED
      BY CallSeqs, Joined
  <2>4. CASE todo' = todo
    BY <2>1, <2>4, OnlyCallsKeeps DEF OnlyCalls, SynthInv, CallsKnown
  <2>5. CASE todo' # todo
    <3>1. PICK calls \in Seq(Calls(scene.cmd)) : Then(calls)
      BY <2>2, <2>3, <2>5
    <3>. QED
      BY <2>1, <3>1, OnlyThenKeeps DEF OnlyThen
  <2>. QED
    BY <2>4, <2>5
<1>. QED
  BY <1>1, <1>2

LEMMA WritingInv ==
  SynthInv /\ (OpenOut \/ Write \/ Push \/ SigPipe \/ CloseOut \/ LetGoOut \/ ReapOut \/ Exit) => SynthInv'
<1>. SUFFICES ASSUME SynthInv, OpenOut \/ Write \/ Push \/ SigPipe \/ CloseOut \/ LetGoOut \/ ReapOut \/ Exit
              PROVE  SynthInv'
  OBVIOUS
<1>1. CASE Aborts
  BY <1>1, AbortsInv
<1>2. CASE ~ Aborts
  <2>1. UNCHANGED <<scene, kl, line, hand, log>> /\ todo # <<>>
    BY <1>2 DEF OpenOut, Write, Push, SigPipe, CloseOut, LetGoOut, ReapOut, Exit, At, sourceVars, loopVars
  <2>2. \/ todo' = todo \/ todo' = <<>> \/ Then(<<>>) \/ Then(<<C("push"), C("let go out"), C("reap out")>>)
    BY <1>2, Zenon DEF OpenOut, Write, Push, SigPipe, CloseOut, LetGoOut, ReapOut, Exit
  <2>3. CASE todo' = todo \/ todo' = <<>>
    BY <2>1, <2>3, CallSeqs, OnlyCallsKeeps DEF OnlyCalls, SynthInv, CallsKnown
  <2>4. CASE ~ (todo' = todo \/ todo' = <<>>)
    <3>1. PICK calls \in Seq(Calls(scene.cmd)) : Then(calls)
      BY <2>2, <2>4, CallSeqs, Zenon
    <3>. QED
      BY <2>1, <3>1, OnlyThenKeeps DEF OnlyThen
  <2>. QED
    BY <2>3, <2>4
<1>. QED
  BY <1>1, <1>2

LEMMA ChildrenInv == SynthInv /\ (ReaderChild \/ WriterChild \/ Death \/ UNCHANGED vars) => SynthInv'
<1>. SUFFICES ASSUME SynthInv, ReaderChild \/ WriterChild \/ Death \/ UNCHANGED vars PROVE SynthInv'
  OBVIOUS
<1>1. UNCHANGED <<scene, kl, line, hand, log, todo>>
  BY DEF ReaderChild, WriterChild, Death, mainVars, vars
<1>. QED
  BY <1>1, OnlyCallsKeeps DEF OnlyCalls, SynthInv, CallsKnown

LEMMA LogGrows ==
  ASSUME NEW S, NEW l \in Seq(S), NEW h \in S
  PROVE  Append(l, h) \in Seq(S)
OBVIOUS

\* What is placed has the id that names it.
LEMMA PlaceInv == SynthInv /\ (PlacePicture \/ PlacePlain) => SynthInv'
<1>. SUFFICES ASSUME SynthInv, PlacePicture \/ PlacePlain PROVE SynthInv'
  OBVIOUS
<1>1. /\ scene' = scene /\ kl' = kl /\ line' = line /\ hand' = hand /\ log' = Append(log, hand)
  BY DEF PlacePicture, PlacePlain, sourceVars
<1>2. PICK cs : cs = Calls(scene.cmd)
  OBVIOUS
<1>3. todo' \in Seq(cs)
  <2>1. /\ Finish \in Seq(cs) /\ <<C("top")>> \in Seq(cs) /\ <<C("write"), C("push")>> \in Seq(cs)
        /\ <<C("open out"), C("write"), C("push")>> \in Seq(cs)
        /\ <<C("open out"), C("write"), C("push"), C("close out")>> \in Seq(cs)
    BY <1>2, CallSeqs
  <2>2. CASE PlacePicture
    <3>1. \/ todo' = <<C("open out"), C("write"), C("push"), C("close out")>> \o <<C("top")>>
          \/ todo' = <<C("open out"), C("write"), C("push")>> \o <<C("top")>>
          \/ todo' = <<C("write"), C("push")>> \o <<C("top")>>
      BY <2>2, Zenon DEF PlacePicture
    <3>. QED
      BY <2>1, <3>1, Joined
  <2>3. CASE PlacePlain
    BY <2>1, <2>3 DEF PlacePlain
  <2>. QED
    BY <2>2, <2>3
<1>4. Source' = Source
  BY <1>1 DEF Source
<1>5. LogNamed'
  <2>. SUFFICES ASSUME Source # "vid"
                PROVE  log' \in Seq({h \in [sample : Sample, id : Sample] : h.sample = h.id})
    BY <1>4 DEF LogNamed
  <2>1. hand \in {h \in [sample : Sample, id : Sample] : h.sample = h.id}
    BY DEF SynthInv, HandNamed, Same
  <2>2. log \in Seq({h \in [sample : Sample, id : Sample] : h.sample = h.id})
    BY DEF SynthInv, LogNamed
  <2>. QED
    BY <1>1, <2>1, <2>2, LogGrows
<1>6. CallsKnown' /\ IdiInRange' /\ HandKnown' /\ HandNamed' /\ scene' \in Scenes /\ line' \in Nat
  BY <1>1, <1>2, <1>3, <1>4 DEF SynthInv, CallsKnown, IdiInRange, HandKnown, HandNamed
<1>. QED
  BY <1>5, <1>6 DEF SynthInv

\* find is only called for pairs, and finds the sample that is in hand.
LEMMA FindPairInv == SynthInv /\ FindPair => SynthInv'
<1>. SUFFICES ASSUME SynthInv, FindPair PROVE SynthInv'
  OBVIOUS
<1>1. CASE Aborts
  BY <1>1, AbortsInv
<1>2. CASE ~ Aborts
  <2>1. PICK found : found = Find(scene.tgt, hand.id)
    OBVIOUS
  <2>2. /\ found # NoSample /\ scene' = scene /\ kl' = kl /\ line' = line /\ hand' = hand
        /\ log' = Append(log, [sample |-> hand.sample, id |-> found])
        /\ todo' = Loads(Reads(scene.tgt, found.of, tkl)) \o <<C("top")>>
    BY <1>2, <2>1, Zenon DEF FindPair
  <2>3. scene \in Scenes /\ todo \in Seq(Calls(scene.cmd)) /\ todo # <<>> /\ Head(todo).call = "find"
    BY DEF SynthInv, CallsKnown, FindPair, At
  <2>4. scene.cmd = "pairs"
    <3>1. Head(todo) \in Calls(scene.cmd)
      <4>. HIDE DEF Calls
      <4>. QED
        BY <2>3
    <3>. QED
      BY <2>3, <3>1 DEF Calls
  <2>5. Source' = Source
    BY <2>2 DEF Source
  <2>6. IsTree(scene.tgt) /\ IsTree(scene.tree)
    BY <2>3, SceneAssumption
  <2>7. LogNamed'
    <3>. SUFFICES ASSUME Source # "vid"
                  PROVE  log' \in Seq({h \in [sample : Sample, id : Sample] : h.sample = h.id})
      BY <2>5 DEF LogNamed
    <3>1. hand.sample = hand.id /\ hand.id \in Sample /\ VOfRaw(scene.tree, hand.id)
      BY DEF SynthInv, HandNamed, Same
    <3>2. hand.id.of \in Seq(Nat) /\ hand.id = [of |-> hand.id.of, v |-> hand.id.v, x |-> hand.id.x]
      BY <3>1 DEF Sample
    <3>3. /\ hand.id.of \in DOMAIN scene.tgt /\ scene.tgt[hand.id.of].kind \in {"pic", "u8"}
          /\ hand.id.v = 0 \/ scene.tgt[hand.id.of].kind = "u8" => found = hand.id
      BY <2>1, <2>2, <2>6, <3>2, FindIsGood
    <3>4. hand.id.v = 0 \/ scene.tgt[hand.id.of].kind = "u8"
      BY <2>3, <2>4, <3>1, <3>3, SceneAssumption DEF VOfRaw
    <3>5. [sample |-> hand.sample, id |-> found] \in {h \in [sample : Sample, id : Sample] : h.sample = h.id}
      BY <3>1, <3>3, <3>4
    <3>6. log \in Seq({h \in [sample : Sample, id : Sample] : h.sample = h.id})
      BY DEF SynthInv, LogNamed
    <3>. QED
      BY <2>2, <3>5, <3>6, LogGrows
  <2>8. todo' \in Seq(Calls(scene.cmd))
    <3>1. found.of \in DOMAIN scene.tgt
      BY <2>1, <2>2, <2>6, FindIsGood DEF SynthInv, HandKnown
    <3>2. Loads(Reads(scene.tgt, found.of, tkl)) \in Seq(Calls(scene.cmd))
      BY <2>6, <3>1, ReadsAre, LoadsAreCalls
    <3>. QED
      BY <2>2, <3>2, CallSeqs, Joined
  <2>. QED
    BY <2>2, <2>3, <2>5, <2>7, <2>8 DEF SynthInv, CallsKnown, IdiInRange, HandKnown, HandNamed
<1>. QED
  BY <1>1, <1>2

LEMMA NextInv == SynthInv /\ [Next]_vars => SynthInv'
<1>. SUFFICES ASSUME SynthInv, [Next]_vars PROVE SynthInv'
  OBVIOUS
<1>1. CASE ReaderChild \/ WriterChild \/ Death \/ UNCHANGED vars
  BY <1>1, ChildrenInv
<1>2. CASE MainStep
  <2>1. CASE Start \/ MakeSink \/ Top
    BY <2>1, StartInv, MakeSinkInv, TopInv
  <2>2. CASE PickSample \/ PickRef \/ PickFrame
    BY <2>2, PickSampleInv, PickRefInv, PickFrameInv
  <2>3. CASE OpenIn \/ Read \/ ReadEof \/ CloseIn \/ ReapIn
    BY <2>3, ReadingInv
  <2>4. CASE PlacePicture \/ PlacePlain
    BY <2>4, PlaceInv
  <2>5. CASE OpenOut \/ Write \/ Push \/ SigPipe \/ CloseOut \/ LetGoOut \/ ReapOut \/ Exit
    BY <2>5, WritingInv
  <2>6. CASE FindPair
    BY <2>6, FindPairInv
  <2>. QED
    BY <1>2, <2>1, <2>2, <2>3, <2>4, <2>5, <2>6 DEF MainStep
<1>. QED
  BY <1>1, <1>2 DEF Next

(***************************************************************************)
(* The id that pick makes of a sample names it, whatever the tree, the     *)
(* traversal, and the state that earlier picks have left; and what find    *)
(* finds for it in the target of a pair is of the same name and crop.      *)
(***************************************************************************)
THEOREM IdsAlwaysName == Spec => []IdsNameSamples
<1>1. SynthInv => IdsNameSamples
  <2>. SUFFICES ASSUME SynthInv, Source # "vid", NEW j \in 1 .. Len(log)
                PROVE  log[j].sample = log[j].id
    BY DEF IdsNameSamples
  <2>1. log \in Seq({h \in [sample : Sample, id : Sample] : h.sample = h.id})
    BY DEF SynthInv, LogNamed
  <2>2. log[j] \in {h \in [sample : Sample, id : Sample] : h.sample = h.id}
    BY <2>1
  <2>. QED
    BY <2>2
<1>. QED
  BY <1>1, InitInv, NextInv, PTL DEF Spec

-----------------------------------------------------------------------------
(***************************************************************************)
(* What the sink gets.  First the types of what goes through the pipes.    *)
(***************************************************************************)
InPart == Seq(Nat) \X (1 .. Parts)
OutPart == Sample \X (1 .. Parts)
Logged == [sample : Sample, id : Sample]

PipesTyped ==
  /\ fp \in [Ends -> {"none", "pipe", "file"}]
  /\ readers \in [Ends -> SUBSET Procs] /\ writers \in [Ends -> SUBSET Procs]
  /\ child \in [Ends -> {"none", "runs", "ended"}]
  /\ data = [e \in Ends |-> data[e]] /\ data["in"] \in Seq(InPart) /\ data["out"] \in Seq(OutPart)
  /\ left \in Seq(InPart) /\ got \in Seq(OutPart) /\ buf \in Seq(OutPart) /\ pend \in Seq(OutPart)
  /\ deaths \in Nat

LEMMA TwoEnds == "in" \in Ends /\ "out" \in Ends /\ \A e \in Ends : e = "in" \/ e = "out"
BY DEF Ends

LEMMA CutIs ==
  /\ \A p \in Seq(Nat) : Cut(p) \in Seq(InPart)
  /\ \A p \in Sample : Cut(p) \in Seq(OutPart)
  /\ \A p : Len(Cut(p)) = Parts /\ \A n \in 1 .. Parts : Cut(p)[n] = <<p, n>>
BY PipeAssumption DEF Cut, InPart, OutPart

LEMMA InitTyped == PipesInit => PipesTyped
<1>. SUFFICES ASSUME PipesInit PROVE PipesTyped
  OBVIOUS
<1>. USE DEF Ends, Procs
<1>1. fp \in [Ends -> {"none", "pipe", "file"}] /\ child \in [Ends -> {"none", "runs", "ended"}]
  BY DEF PipesInit
<1>2. readers \in [Ends -> SUBSET Procs] /\ writers \in [Ends -> SUBSET Procs]
  BY DEF PipesInit
<1>3. /\ data = [e \in Ends |-> data[e]] /\ data["in"] \in Seq(InPart) /\ data["out"] \in Seq(OutPart)
      /\ left \in Seq(InPart) /\ got \in Seq(OutPart) /\ buf \in Seq(OutPart) /\ pend \in Seq(OutPart)
      /\ deaths \in Nat
  BY DEF PipesInit
<1>. QED
  BY <1>1, <1>2, <1>3 DEF PipesTyped

LEMMA InheritedTyped ==
  ASSUME NEW h \in [Ends -> SUBSET Procs], NEW e \in Ends
  PROVE  /\ Inherited(h, e) \in [Ends -> SUBSET Procs]
         /\ \A o \in Ends : "main" \in h[o] => "main" \in Inherited(h, e)[o]
BY DEF Inherited, Ends, Procs

LEMMA WithoutTyped ==
  ASSUME NEW h \in [Ends -> SUBSET Procs], NEW p
  PROVE  /\ Without(h, p) \in [Ends -> SUBSET Procs]
         /\ \A o \in Ends : "main" \in h[o] /\ p # "main" => "main" \in Without(h, p)[o]
BY DEF Without, Ends, Procs

LEMMA OpenReaderTyped ==
  ASSUME PipesTyped, NEW parts \in Seq(InPart), OpenReader(parts)
  PROVE  PipesTyped'
<1>. USE DEF Ends, Procs
<1>1. PICK r, w \in [Ends -> SUBSET Procs] : r = Inherited(readers, "in") /\ w = Inherited(writers, "in")
  BY InheritedTyped DEF PipesTyped
<1>2. readers' \in [Ends -> SUBSET Procs] /\ writers' \in [Ends -> SUBSET Procs]
  BY <1>1 DEF OpenReader
<1>3. fp' \in [Ends -> {"none", "pipe", "file"}] /\ child' \in [Ends -> {"none", "runs", "ended"}]
  BY DEF OpenReader, PipesTyped
<1>4. data' = [e \in Ends |-> data'[e]] /\ data'["in"] = <<>> /\ data'["out"] = data["out"]
  BY DEF OpenReader, PipesTyped
<1>. QED
  BY <1>2, <1>3, <1>4 DEF OpenReader, PipesTyped

LEMMA OpenReaderFileTyped ==
  ASSUME PipesTyped, NEW parts \in Seq(InPart), OpenReaderFile(parts)
  PROVE  PipesTyped'
<1>. USE DEF Ends
<1>1. fp' \in [Ends -> {"none", "pipe", "file"}]
  BY DEF OpenReaderFile, PipesTyped
<1>2. data' = [e \in Ends |-> data'[e]] /\ data'["in"] = parts /\ data'["out"] = data["out"]
  BY DEF OpenReaderFile, PipesTyped
<1>. QED
  BY <1>1, <1>2 DEF OpenReaderFile, PipesTyped

LEMMA OpenWriterTyped ==
  ASSUME PipesTyped, OpenWriter
  PROVE  PipesTyped'
<1>. USE DEF Ends, Procs
<1>1. PICK r, w \in [Ends -> SUBSET Procs] : r = Inherited(readers, "out") /\ w = Inherited(writers, "out")
  BY InheritedTyped DEF PipesTyped
<1>2. readers' \in [Ends -> SUBSET Procs] /\ writers' \in [Ends -> SUBSET Procs]
  BY <1>1 DEF OpenWriter
<1>3. fp' \in [Ends -> {"none", "pipe", "file"}] /\ child' \in [Ends -> {"none", "runs", "ended"}]
  BY DEF OpenWriter, PipesTyped
<1>4. data' = [e \in Ends |-> data'[e]] /\ data'["in"] = data["in"] /\ data'["out"] = <<>>
  BY DEF OpenWriter, PipesTyped
<1>. QED
  BY <1>2, <1>3, <1>4 DEF OpenWriter, PipesTyped

LEMMA OpenWriterFileTyped ==
  ASSUME PipesTyped, OpenWriterFile
  PROVE  PipesTyped'
<1>1. fp' \in [Ends -> {"none", "pipe", "file"}]
  BY DEF OpenWriterFile, PipesTyped, Ends
<1>. QED
  BY <1>1 DEF OpenWriterFile, PipesTyped

LEMMA TakePartTyped ==
  ASSUME PipesTyped, Readable, TakePart
  PROVE  PipesTyped' /\ Head(data["in"])[1] \in Seq(Nat)
<1>. USE DEF Ends
<1>1. PICK d \in Seq(InPart) : d = data["in"] /\ d # <<>>
  BY DEF PipesTyped, Readable
<1>2. Tail(d) \in Seq(InPart) /\ Head(d) \in InPart
  BY <1>1
<1>3. data' = [e \in Ends |-> data'[e]] /\ data'["in"] = Tail(d) /\ data'["out"] = data["out"]
  BY <1>1 DEF TakePart, PipesTyped
<1>4. Head(d)[1] \in Seq(Nat)
  BY <1>2 DEF InPart
<1>. QED
  BY <1>1, <1>2, <1>3, <1>4 DEF TakePart, PipesTyped

LEMMA SaveTyped ==
  ASSUME PipesTyped, NEW picture \in Sample, Save(picture)
  PROVE  PipesTyped'
<1>1. PICK c \in Seq(OutPart) : c = Cut(picture) /\ Len(c) = Parts
  BY CutIs
<1>2. SubSeq(c, 1, Parts - 1) \in Seq(OutPart) /\ c[Parts] \in OutPart
  BY <1>1, PipeAssumption
<1>3. pend' \in Seq(OutPart) /\ buf' \in Seq(OutPart)
  BY <1>1, <1>2 DEF Save, PipesTyped
<1>. QED
  BY <1>3 DEF Save, PipesTyped

LEMMA FlushTyped ==
  ASSUME PipesTyped, Flush
  PROVE  PipesTyped'
BY DEF Flush, PipesTyped

LEMMA PushPartTyped ==
  ASSUME PipesTyped, PushPart
  PROVE  PipesTyped'
<1>. USE DEF Ends
<1>1. Tail(pend) \in Seq(OutPart) /\ Head(pend) \in OutPart
  BY DEF PipesTyped, PushPart
<1>2. PICK d \in Seq(OutPart) : d = data["out"]
  BY DEF PipesTyped
<1>3. Append(d, Head(pend)) \in Seq(OutPart) /\ Append(got, Head(pend)) \in Seq(OutPart)
  BY <1>1, <1>2 DEF PipesTyped
<1>4. CASE fp["out"] = "file"
  BY <1>1, <1>3, <1>4 DEF PushPart, PipesTyped
<1>5. CASE fp["out"] # "file"
  <2>1. data' = [e \in Ends |-> data'[e]] /\ data'["in"] = data["in"] /\ data'["out"] = Append(d, Head(pend))
    BY <1>2, <1>5 DEF PushPart, PipesTyped
  <2>. QED
    BY <1>1, <1>3, <1>5, <2>1 DEF PushPart, PipesTyped
<1>. QED
  BY <1>4, <1>5

LEMMA LetGoTyped ==
  ASSUME PipesTyped, NEW e \in Ends, LetGo(e)
  PROVE  PipesTyped'
<1>. USE DEF Ends, Procs
<1>1. /\ fp' \in [Ends -> {"none", "pipe", "file"}] /\ readers' \in [Ends -> SUBSET Procs]
      /\ writers' \in [Ends -> SUBSET Procs]
  BY DEF LetGo, PipesTyped
<1>2. /\ data' = [x \in Ends |-> data'[x]]
      /\ \A x \in Ends : data'[x] = data[x] \/ data'[x] = <<>>
  BY DEF LetGo, PipesTyped
<1>3. <<>> \in Seq(InPart) /\ <<>> \in Seq(OutPart) /\ data["in"] \in Seq(InPart) /\ data["out"] \in Seq(OutPart)
  BY DEF PipesTyped
<1>4. data'["in"] \in Seq(InPart) /\ data'["out"] \in Seq(OutPart)
  BY <1>2, <1>3, Zenon DEF Ends
<1>. QED
  BY <1>1, <1>2, <1>4 DEF LetGo, PipesTyped

LEMMA ReapTyped ==
  ASSUME PipesTyped, NEW e \in Ends, Reap(e)
  PROVE  PipesTyped'
<1>1. child' \in [Ends -> {"none", "runs", "ended"}]
  BY DEF Reap, PipesTyped, Ends
<1>. QED
  BY <1>1 DEF Reap, PipesTyped

LEMMA MainDiesTyped ==
  ASSUME PipesTyped, MainDies
  PROVE  PipesTyped'
<1>1. readers' \in [Ends -> SUBSET Procs] /\ writers' \in [Ends -> SUBSET Procs]
  BY WithoutTyped DEF MainDies, PipesTyped
<1>2. fp' \in [Ends -> {"none", "pipe", "file"}]
  BY DEF MainDies, Ends
<1>3. buf' \in Seq(OutPart) /\ pend' \in Seq(OutPart)
  BY DEF MainDies
<1>. QED
  BY <1>1, <1>2, <1>3 DEF MainDies, PipesTyped

LEMMA ExitsTyped ==
  ASSUME PipesTyped, NEW e \in Ends, Exits(e)
  PROVE  /\ child' \in [Ends -> {"none", "runs", "ended"}]
         /\ readers' \in [Ends -> SUBSET Procs] /\ writers' \in [Ends -> SUBSET Procs]
<1>1. readers' \in [Ends -> SUBSET Procs] /\ writers' \in [Ends -> SUBSET Procs]
  BY WithoutTyped DEF Exits, PipesTyped
<1>. QED
  BY <1>1 DEF Exits, PipesTyped, Ends

LEMMA ChildrenTyped ==
  ASSUME PipesTyped, ChildWrites \/ ReaderEnds \/ ChildReads \/ WriterEnds \/ \E e \in Ends : ChildDies(e)
  PROVE  PipesTyped'
<1>. USE DEF Ends
<1>1. CASE ChildWrites
  <2>1. PICK l \in Seq(InPart), d \in Seq(InPart) : l = left /\ d = data["in"] /\ l # <<>>
    BY <1>1 DEF ChildWrites, PipesTyped
  <2>2. Tail(l) \in Seq(InPart) /\ Append(d, Head(l)) \in Seq(InPart)
    BY <2>1
  <2>3. data' = [e \in Ends |-> data'[e]] /\ data'["in"] = Append(d, Head(l)) /\ data'["out"] = data["out"]
    BY <1>1, <2>1 DEF ChildWrites, PipesTyped
  <2>. QED
    BY <1>1, <2>1, <2>2, <2>3 DEF ChildWrites, PipesTyped
<1>2. CASE ReaderEnds
  BY <1>2, ExitsTyped DEF ReaderEnds, PipesTyped
<1>3. CASE ChildReads
  <2>1. PICK d \in Seq(OutPart) : d = data["out"] /\ d # <<>>
    BY <1>3 DEF ChildReads, PipesTyped
  <2>2. Tail(d) \in Seq(OutPart) /\ Append(got, Head(d)) \in Seq(OutPart)
    BY <2>1 DEF PipesTyped
  <2>3. data' = [e \in Ends |-> data'[e]] /\ data'["in"] = data["in"] /\ data'["out"] = Tail(d)
    BY <1>3, <2>1 DEF ChildReads, PipesTyped
  <2>. QED
    BY <1>3, <2>1, <2>2, <2>3 DEF ChildReads, PipesTyped
<1>4. CASE WriterEnds
  BY <1>4, ExitsTyped DEF WriterEnds, PipesTyped
<1>5. ASSUME NEW e \in Ends, ChildDies(e) PROVE PipesTyped'
  <2>1. Exits(e) /\ deaths' = deaths + 1 /\ UNCHANGED <<fp, data, left, got, buf, pend>>
    BY <1>5 DEF ChildDies
  <2>. QED
    BY <2>1, ExitsTyped DEF PipesTyped
<1>. QED
  BY <1>1, <1>2, <1>3, <1>4, <1>5

\* What main has picked and read.
MainTyped ==
  /\ dat \in Seq(Nat) /\ frames \in Nat /\ hand \in Logged
  /\ scene.cmd = "synth" => log \in Seq(Logged)
SynthTyped == PipesTyped /\ MainTyped

LEMMA Products ==
  ASSUME NEW a \in Nat, NEW b \in Nat
  PROVE  a * b \in Nat
OBVIOUS

LEMMA FramesTyped ==
  ASSUME scene \in Scenes
  PROVE  Frames \in Seq(InPart)
<1>1. PICK l \in Nat : l = scene.frames * Parts
  BY PipeAssumption, SceneAssumption, Products
<1>2. \A k \in 1 .. l : k - 1 \in Nat
  BY <1>1
<1>3. \A k \in Nat : (k \div Parts) + 1 \in Nat /\ (k % Parts) + 1 \in 1 .. Parts
  BY PipeAssumption
<1>4. \A k \in 1 .. l : <<((k - 1) \div Parts) + 1>> \in Seq(Nat) /\ ((k - 1) % Parts) + 1 \in 1 .. Parts
  BY <1>2, <1>3
<1>5. \A k \in 1 .. l : <<<<((k - 1) \div Parts) + 1>>, ((k - 1) % Parts) + 1>> \in InPart
  BY <1>4 DEF InPart
<1>6. Frames = [k \in 1 .. l |-> <<<<((k - 1) \div Parts) + 1>>, ((k - 1) % Parts) + 1>>]
  BY <1>1 DEF Frames
<1>7. Frames \in [1 .. l -> InPart]
  BY <1>5, <1>6, Zenon
<1>8. \A F \in [1 .. l -> InPart] : F \in Seq(InPart)
  BY <1>1
<1>. QED
  BY <1>7, <1>8, Zenon

LEMMA CalledFor ==
  ASSUME SynthInv, todo # <<>>
  PROVE  Head(todo) \in Calls(scene.cmd) /\ Head(todo).of \in Seq(Nat)
<1>1. Head(todo) \in Calls(scene.cmd)
  <2>. HIDE DEF Calls
  <2>. QED
    BY DEF SynthInv, CallsKnown
<1>. QED
  BY <1>1 DEF Calls

LEMMA PipesStay == PipesTyped /\ UNCHANGED pipeVars => PipesTyped'
BY DEF PipesTyped, pipeVars

LEMMA AbortsTyped == PipesTyped /\ Aborts => PipesTyped'
BY MainDiesTyped DEF Aborts

LEMMA OpenInTyped == SynthInv /\ SynthTyped /\ OpenIn => PipesTyped'
<1>. SUFFICES ASSUME SynthInv, SynthTyped, OpenIn PROVE PipesTyped'
  OBVIOUS
<1>1. PICK n \in Seq(Nat) : n = Head(todo).of
  BY CalledFor DEF OpenIn, At
<1>2. PICK parts : parts = IF Source = "vid" /\ scene.cmd = "synth" THEN Frames ELSE Cut(n)
  OBVIOUS
<1>3. parts \in Seq(InPart)
  BY <1>2, FramesTyped, CutIs DEF SynthInv
<1>4. OpenReader(parts) \/ OpenReaderFile(parts)
  BY <1>1, <1>2, Zenon DEF OpenIn
<1>. QED
  BY <1>3, <1>4, OpenReaderTyped, OpenReaderFileTyped DEF SynthTyped

LEMMA PipesNext == SynthInv /\ SynthTyped /\ [Next]_vars => PipesTyped'
<1>. SUFFICES ASSUME SynthInv, SynthTyped, [Next]_vars PROVE PipesTyped'
  OBVIOUS
<1>1. PipesTyped /\ hand \in Logged /\ hand.sample \in Sample
  BY DEF SynthTyped, MainTyped, Logged
<1>2. CASE ReaderChild \/ WriterChild \/ Death
  BY <1>1, <1>2, ChildrenTyped DEF ReaderChild, WriterChild, Death
<1>3. CASE UNCHANGED pipeVars
  BY <1>1, <1>3, PipesStay
<1>4. CASE Aborts
  BY <1>1, <1>4, AbortsTyped
<1>5. CASE MainStep /\ ~ UNCHANGED pipeVars /\ ~ Aborts
  <2>1. CASE Start \/ Top \/ PickSample \/ PickRef \/ PickFrame \/ PlacePicture \/ PlacePlain \/ FindPair \/ Exit
    <3>1. UNCHANGED pipeVars \/ Aborts
      BY <2>1, Zenon DEF Start, Top, PickSample, PickRef, PickFrame, PlacePicture, PlacePlain, FindPair, Exit
    <3>. QED
      BY <3>1, <1>5
  <2>2. CASE MakeSink
    BY <2>2, <1>5, <1>1, MainDiesTyped DEF MakeSink
  <2>3. CASE OpenIn
    BY <2>3, OpenInTyped
  <2>4. CASE Read
    BY <2>4, <1>1, TakePartTyped DEF Read
  <2>5. CASE ReadEof \/ SigPipe
    <3>1. UNCHANGED pipeVars \/ Aborts
      BY <2>5, Zenon DEF ReadEof, SigPipe
    <3>. QED
      BY <3>1, <1>5
  <2>6. CASE CloseIn \/ ReapIn \/ LetGoOut \/ ReapOut
    <3>1. UNCHANGED pipeVars \/ LetGo("in") \/ LetGo("out") \/ Reap("in") \/ Reap("out")
      BY <2>6, Zenon DEF CloseIn, ReapIn, LetGoOut, ReapOut
    <3>. QED
      BY <3>1, <1>1, <1>5, TwoEnds, LetGoTyped, ReapTyped
  <2>7. CASE OpenOut
    BY <2>7, <1>1, OpenWriterTyped, OpenWriterFileTyped DEF OpenOut
  <2>8. CASE Write
    BY <2>8, <1>1, SaveTyped DEF Write
  <2>9. CASE Push
    BY <2>9, <1>1, <1>5, PushPartTyped DEF Push
  <2>10. CASE CloseOut
    BY <2>10, <1>1, <1>5, FlushTyped DEF CloseOut
  <2>. QED
    BY <1>5, <2>1, <2>2, <2>3, <2>4, <2>5, <2>6, <2>7, <2>8, <2>9, <2>10 DEF MainStep
<1>. QED
  BY <1>2, <1>3, <1>4, <1>5 DEF Next, vars

\* A list of ids is not for a video.
LEMMA VideosAreScanned == Source = "vid" => scene.opt.trav = "scan"
BY DEF Source, KindOf

LEMMA MainStays == MainTyped /\ UNCHANGED <<scene, dat, frames, hand, log>> => MainTyped'
BY DEF MainTyped

LEMMA MainNext == SynthInv /\ SynthInv' /\ SynthTyped /\ [Next]_vars => MainTyped'
<1>. SUFFICES ASSUME SynthInv, SynthInv', SynthTyped, [Next]_vars PROVE MainTyped'
  OBVIOUS
<1>1. MainTyped /\ PipesTyped
  BY DEF SynthTyped
<1>2. CASE UNCHANGED <<scene, dat, frames, hand, log>>
  BY <1>1, <1>2, MainStays
<1>3. CASE PickSample \/ PickRef
  <2>1. scene' = scene /\ dat' = dat /\ frames' = frames /\ log' = log
    BY <1>3 DEF PickSample, PickRef, Aborts, sourceVars, readVars, loopVars
  <2>2. Source' # "vid"
    BY <1>3, <2>1, VideosAreScanned DEF PickSample, PickRef, Source
  <2>3. hand' \in Logged
    BY <2>2 DEF SynthInv, HandNamed, Same, Logged
  <2>. QED
    BY <1>1, <2>1, <2>3 DEF MainTyped
<1>4. CASE PickFrame
  <2>1. scene' = scene /\ dat' = dat /\ log' = log
    BY <1>4 DEF PickFrame, readVars
  <2>2. \/ UNCHANGED <<hand, frames>>
        \/ /\ \E x \in Crops(scene.tree, <<>>, scene.opt) :
                hand' = [sample |-> [of |-> dat, v |-> frames, x |-> x], id |-> [of |-> <<>>, v |-> frames, x |-> x]]
           /\ frames' = frames + 1
    BY <1>4 DEF PickFrame
  <2>3. CASE UNCHANGED <<hand, frames>>
    BY <2>1, <2>3, <1>1, MainStays DEF MainTyped
  <2>4. CASE ~ UNCHANGED <<hand, frames>>
    <3>1. PICK x \in Crops(scene.tree, <<>>, scene.opt) :
            hand' = [sample |-> [of |-> dat, v |-> frames, x |-> x], id |-> [of |-> <<>>, v |-> frames, x |-> x]]
      BY <2>2, <2>4
    <3>2. x \in Nat
      <4>1. IsTree(scene.tree) /\ <<>> \in DOMAIN scene.tree
        BY SceneAssumption DEF SynthInv, IsTree
      <4>2. scene.tree[<<>>].spare \in Nat
        BY <4>1, LeafIs
      <4>3. \A n \in Nat : n \div 2 \in Nat
        OBVIOUS
      <4>. QED
        BY <4>2, <4>3 DEF Crops
    <3>3. hand' \in Logged
      <4>1. [of |-> dat, v |-> frames, x |-> x] \in Sample /\ [of |-> <<>>, v |-> frames, x |-> x] \in Sample
        BY <1>1, <3>2 DEF MainTyped, Sample
      <4>. QED
        BY <4>1, <3>1 DEF Logged
    <3>4. frames' \in Nat
      BY <1>1, <2>2, <2>4 DEF MainTyped
    <3>. QED
      BY <1>1, <2>1, <3>3, <3>4 DEF MainTyped
  <2>. QED
    BY <2>3, <2>4
<1>5. CASE Read
  <2>1. /\ scene' = scene /\ frames' = frames /\ hand' = hand /\ log' = log
        /\ dat' = Head(data["in"])[1]
    BY <1>5 DEF Read, sourceVars, loopVars
  <2>2. dat' \in Seq(Nat)
    BY <1>1, <1>5, <2>1, TakePartTyped DEF Read
  <2>. QED
    BY <1>1, <2>1, <2>2 DEF MainTyped
<1>6. CASE PlacePicture \/ PlacePlain
  <2>1. /\ scene' = scene /\ dat' = dat /\ frames' = frames /\ hand' = hand /\ log' = Append(log, hand)
    BY <1>6 DEF PlacePicture, PlacePlain, sourceVars, readVars
  <2>2. scene.cmd = "synth" => log' \in Seq(Logged)
    BY <1>1, <2>1, LogGrows DEF MainTyped
  <2>. QED
    BY <1>1, <2>1, <2>2 DEF MainTyped
<1>7. CASE FindPair
  <2>1. CASE Aborts
    BY <2>1, <1>1, MainStays DEF Aborts, sourceVars, readVars, loopVars
  <2>2. CASE ~ Aborts
    <3>1. scene' = scene /\ dat' = dat /\ frames' = frames /\ hand' = hand
      BY <1>7, <2>2 DEF FindPair, readVars
    <3>2. Head(todo) \in Calls(scene.cmd) /\ Head(todo).call = "find"
      BY <1>7, CalledFor DEF FindPair, At
    <3>3. scene.cmd = "pairs"
      BY <3>2 DEF Calls
    <3>. QED
      BY <1>1, <3>1, <3>3 DEF MainTyped
  <2>. QED
    BY <2>1, <2>2
<1>8. CASE \/ Start \/ MakeSink \/ Top \/ OpenIn \/ ReadEof \/ CloseIn \/ ReapIn \/ OpenOut \/ Write \/ Push
           \/ SigPipe \/ CloseOut \/ LetGoOut \/ ReapOut \/ Exit \/ ReaderChild \/ WriterChild \/ Death
           \/ UNCHANGED vars
  <2>1. UNCHANGED <<scene, dat, frames, hand, log>>
    <3>. USE DEF sourceVars, readVars, loopVars, mainVars, vars
    <3>1. CASE Start \/ MakeSink \/ Top \/ OpenIn \/ ReadEof \/ CloseIn \/ ReapIn
      BY <3>1 DEF Start, MakeSink, Top, OpenIn, ReadEof, CloseIn, ReapIn, Aborts
    <3>2. CASE OpenOut \/ Write \/ Push \/ SigPipe \/ CloseOut \/ LetGoOut \/ ReapOut \/ Exit
      BY <3>2 DEF OpenOut, Write, Push, SigPipe, CloseOut, LetGoOut, ReapOut, Exit, Aborts
    <3>3. CASE ReaderChild \/ WriterChild \/ Death \/ UNCHANGED vars
      BY <3>3 DEF ReaderChild, WriterChild, Death
    <3>. QED
      BY <1>8, <3>1, <3>2, <3>3
  <2>. QED
    BY <2>1, <1>2
<1>. QED
  BY <1>3, <1>4, <1>5, <1>6, <1>7, <1>8 DEF Next, MainStep

-----------------------------------------------------------------------------
(***************************************************************************)
(* Pictures that follow each other, in parts.                              *)
(***************************************************************************)
LEMMA DivAndMod ==
  ASSUME NEW P \in Nat, P # 0, NEW x \in Nat
  PROVE x \div P \in Nat /\ x % P \in 0 .. P - 1 /\ x = P * (x \div P) + (x % P)
OBVIOUS

LEMMA DivIsOne ==
  ASSUME NEW P \in Nat, P # 0, NEW q \in Nat, NEW d \in Nat, NEW r \in 0 .. P-1, NEW m \in 0 .. P-1, q * P + r = P * d + m
  PROVE q = d /\ r = m
<1>1. CASE q = d
  BY <1>1
<1>2. CASE d > q
  <2>1. PICK e \in Nat : d = q + 1 + e
    <3>1. d - q - 1 \in Nat /\ d = q + 1 + (d - q - 1)
      BY <1>2
    <3>. QED
      BY <3>1
  <2>2. P * d = q * P + P + e * P
    BY <2>1
  <2>3. e * P >= 0
    OBVIOUS
  <2>. QED
    BY <2>2, <2>3
<1>3. CASE d < q
  <2>1. PICK e \in Nat : q = d + 1 + e
    <3>1. q - d - 1 \in Nat /\ q = d + 1 + (q - d - 1)
      BY <1>3
    <3>. QED
      BY <3>1
  <2>2. q * P = P * d + P + e * P
    BY <2>1
  <2>3. e * P >= 0
    OBVIOUS
  <2>. QED
    BY <2>2, <2>3
<1>. QED
  BY <1>1, <1>2, <1>3

LEMMA DivIsLess ==
  ASSUME NEW P \in Nat, P # 0, NEW n \in Nat, NEW k \in Nat, k < n * P
  PROVE k \div P < n
<1>1. PICK d \in Nat, m \in 0 .. P - 1 : d = k \div P /\ k = P * d + m
  BY DivAndMod
<1>2. CASE d >= n
  <2>1. PICK e \in Nat : d = n + e
    <3>1. d - n \in Nat /\ d = n + (d - n)
      BY <1>2
    <3>. QED
      BY <3>1
  <2>2. P * d = n * P + e * P
    BY <2>1
  <2>3. e * P >= 0
    OBVIOUS
  <2>. QED
    BY <1>1, <2>2, <2>3
<1>. QED
  BY <1>1, <1>2

LEMMA DivOfParts ==
  ASSUME NEW x \in Nat, NEW q \in Nat, NEW r \in 0 .. Parts - 1, x = q * Parts + r
  PROVE  x \div Parts = q /\ x % Parts = r
<1>1. PICK P \in Nat : P = Parts /\ P # 0
  BY PipeAssumption
<1>2. PICK d \in Nat, e \in 0 .. P - 1 : d = x \div P /\ e = x % P /\ x = P * d + e
  <2>1. x \div P \in Nat /\ x % P \in 0 .. P - 1 /\ x = P * (x \div P) + (x % P)
    BY <1>1, DivAndMod
  <2>. QED
    BY <2>1, Zenon
<1>3. r \in 0 .. P - 1 /\ q * P + r = P * d + e
  BY <1>1, <1>2
<1>4. q = d /\ r = e
  BY <1>1, <1>3, DivIsOne
<1>. QED
  BY <1>1, <1>2, <1>4

Pictures(l) ==
  [k \in 1 .. (Len(l) * Parts) |-> <<l[((k - 1) \div Parts) + 1].sample, ((k - 1) % Parts) + 1>>]

LEMMA PicturesTyped ==
  ASSUME NEW l \in Seq(Logged)
  PROVE  Pictures(l) \in Seq(OutPart) /\ Len(Pictures(l)) = Len(l) * Parts
<1>1. PICK n \in Nat, s \in Nat : n = Len(l) /\ s = n * Parts
  BY PipeAssumption, Products
<1>2. \A k \in 1 .. s : k - 1 \in Nat /\ k - 1 < n * Parts
  BY <1>1
<1>3. \A k \in 1 .. s : (k - 1) \div Parts \in Nat /\ (k - 1) \div Parts < n /\ (k - 1) % Parts \in 0 .. Parts - 1
  BY <1>1, <1>2, PipeAssumption, DivAndMod, DivIsLess
<1>4. \A k \in 1 .. s : ((k - 1) \div Parts) + 1 \in 1 .. n /\ ((k - 1) % Parts) + 1 \in 1 .. Parts
  BY <1>3, PipeAssumption
<1>5. \A j \in 1 .. n : l[j].sample \in Sample
  <2>1. \A j \in 1 .. n : l[j] \in Logged
    BY <1>1
  <2>. QED
    BY <2>1 DEF Logged
<1>6. \A k \in 1 .. s : <<l[((k - 1) \div Parts) + 1].sample, ((k - 1) % Parts) + 1>> \in OutPart
  BY <1>4, <1>5 DEF OutPart
<1>7. Pictures(l) \in [1 .. s -> OutPart]
  BY <1>1, <1>6, Zenon DEF Pictures
<1>8. \A F \in [1 .. s -> OutPart] : F \in Seq(OutPart) /\ Len(F) = s
  BY <1>1
<1>. QED
  BY <1>1, <1>7, <1>8, Zenon

LEMMA PicturesGrow ==
  ASSUME NEW l \in Seq(Logged), NEW h \in Logged
  PROVE  Pictures(Append(l, h)) = Pictures(l) \o Cut(h.sample)
<1>1. PICK n \in Nat, s \in Nat : n = Len(l) /\ s = n * Parts
  BY PipeAssumption, Products
<1>2. PICK m \in Seq(Logged) : /\ m = Append(l, h) /\ Len(m) = n + 1 /\ m[n + 1] = h
                               /\ \A j \in 1 .. n : m[j] = l[j]
  <2>1. /\ Append(l, h) \in Seq(Logged) /\ Len(Append(l, h)) = n + 1 /\ Append(l, h)[n + 1] = h
        /\ \A j \in 1 .. n : Append(l, h)[j] = l[j]
    BY <1>1, AppendProperties, SMTT(30)
  <2>. QED
    BY <2>1
<1>3. PICK p \in Seq(OutPart) : p = Pictures(l) /\ Len(p) = s
  BY <1>1, PicturesTyped
<1>4. PICK q \in Seq(OutPart) : q = Pictures(m) /\ Len(q) = s + Parts
  <2>1. (n + 1) * Parts = s + Parts
    BY <1>1, PipeAssumption
  <2>. QED
    BY <2>1, <1>2, PicturesTyped
<1>5. PICK c \in Seq(OutPart) : c = Cut(h.sample) /\ Len(c) = Parts /\ \A k \in 1 .. Parts : c[k] = <<h.sample, k>>
  BY CutIs DEF Logged
<1>6. \A k \in 1 .. s : q[k] = p[k]
  <2>. SUFFICES ASSUME NEW k \in 1 .. s PROVE q[k] = p[k]
    OBVIOUS
  <2>1. k - 1 \in Nat /\ k - 1 < n * Parts
    BY <1>1
  <2>2. PICK j : j = (k - 1) \div Parts /\ j \in Nat /\ j < n
    BY <2>1, <1>1, PipeAssumption, DivAndMod, DivIsLess
  <2>3. m[j + 1] = l[j + 1]
    BY <1>1, <1>2, <2>2
  <2>4. k \in 1 .. (Len(l) * Parts) /\ k \in 1 .. (Len(m) * Parts)
    <3>1. Len(l) * Parts = s /\ Len(m) * Parts = s + Parts
      BY <1>1, <1>2, PipeAssumption
    <3>. QED
      BY <3>1, <1>1, PipeAssumption
  <2>5. p[k] = <<l[j + 1].sample, ((k - 1) % Parts) + 1>> /\ q[k] = <<m[j + 1].sample, ((k - 1) % Parts) + 1>>
    BY <1>3, <1>4, <2>2, <2>4, Zenon DEF Pictures
  <2>. QED
    BY <2>3, <2>5, Zenon
<1>7. \A k \in 1 .. Parts : q[s + k] = c[k]
  <2>. SUFFICES ASSUME NEW k \in 1 .. Parts PROVE q[s + k] = c[k]
    OBVIOUS
  <2>1. PICK r : r \in 0 .. Parts - 1 /\ k = r + 1 /\ s + k - 1 = n * Parts + r /\ s + k - 1 \in Nat
    <3>1. k - 1 \in 0 .. Parts - 1 /\ k = (k - 1) + 1 /\ s + k - 1 = n * Parts + (k - 1) /\ s + k - 1 \in Nat
      BY <1>1, PipeAssumption
    <3>. QED
      BY <3>1
  <2>2. PICK x \in Nat : x = s + k - 1 /\ x = n * Parts + r
    BY <2>1
  <2>3. x \div Parts = n /\ x % Parts = r
    BY <2>1, <2>2, <1>1, DivOfParts, Zenon
  <2>4. s + k \in 1 .. (Len(m) * Parts)
    <3>1. Len(m) * Parts = s + Parts
      BY <1>1, <1>2, PipeAssumption
    <3>. QED
      BY <3>1, <1>1, PipeAssumption
  <2>5. q[s + k] = <<m[(x \div Parts) + 1].sample, (x % Parts) + 1>>
    <3>1. PICK y : y = s + k /\ y - 1 = x /\ y \in 1 .. (Len(m) * Parts)
      BY <1>1, <2>2, <2>4
    <3>2. q[y] = <<m[((y - 1) \div Parts) + 1].sample, ((y - 1) % Parts) + 1>>
      BY <1>4, <3>1, Zenon DEF Pictures
    <3>. QED
      BY <3>1, <3>2, Zenon
  <2>6. q[s + k] = <<h.sample, r + 1>>
    BY <1>2, <2>3, <2>5
  <2>. QED
    BY <2>6, <2>1, <1>5
<1>8. q = p \o c
  <2>1. PICK t \in Seq(OutPart) : /\ t = p \o c /\ Len(t) = s + Parts
                                  /\ \A k \in 1 .. s + Parts : t[k] = IF k <= s THEN p[k] ELSE c[k - s]
    <3>1. p \o c \in Seq(OutPart) /\ Len(p \o c) = s + Parts
      BY <1>3, <1>5, ConcatProperties, Zenon
    <3>2. \A k \in 1 .. s + Parts : (p \o c)[k] = IF k <= s THEN p[k] ELSE c[k - s]
      BY <1>3, <1>5, ConcatProperties
    <3>. QED
      BY <3>1, <3>2, Zenon
  <2>2. ASSUME NEW k \in 1 .. s + Parts PROVE q[k] = t[k]
    <3>1. CASE k <= s
      BY <2>1, <3>1, <1>6, <1>1, SMTT(30)
    <3>2. CASE k > s
      <4>1. PICK j \in 1 .. Parts : k = s + j /\ j = k - s
        <5>1. k - s \in 1 .. Parts /\ k = s + (k - s)
          BY <3>2, <1>1, PipeAssumption
        <5>. QED
          BY <5>1
      <4>2. q[k] = c[j]
        BY <4>1, <1>7
      <4>3. t[k] = c[k - s]
        BY <2>1, <3>2, <1>1
      <4>. QED
        BY <4>1, <4>2, <4>3
    <3>. QED
      BY <3>1, <3>2, <1>1, PipeAssumption
  <2>. QED
    BY <2>1, <2>2, <1>4, SeqEqual
<1>. QED
  BY <1>2, <1>3, <1>4, <1>5, <1>8

LEMMA NoPictures == Pictures(<<>>) = <<>>
<1>1. PICK l \in Seq(Logged) : l = <<>>
  <2>1. <<>> \in Seq(Logged)
    OBVIOUS
  <2>. QED
    BY <2>1, Zenon
<1>2. Len(l) = 0 /\ 0 * Parts = 0
  BY <1>1, PipeAssumption
<1>3. Pictures(l) \in Seq(OutPart) /\ Len(Pictures(l)) = 0
  BY <1>2, PicturesTyped
<1>4. Pictures(l) = <<>>
  BY <1>3
<1>. QED
  BY <1>1, <1>4, Zenon

-----------------------------------------------------------------------------
(***************************************************************************)
(* The sink's end.  main is Settled between two pictures, and may then     *)
(* have calls of the source before it; from the call of place on, it is in *)
(* one stage after the other.  Sent is what the Picwriter has been given,  *)
(* wherever it is now: with the child, in the pipe, on its way, or in the  *)
(* buffer.                                                                 *)
(***************************************************************************)
Old == IF Sink = "vid" THEN Pictures(SubSeq(log, 1, Len(log) - 1)) ELSE <<>>
Due == IF Sink = "vid" THEN Pictures(log) ELSE Cut(hand.sample)
Sent == ((got \o data["out"]) \o pend) \o buf

IdleOut == fp["out"] = "none" /\ child["out"] = "none" /\ data["out"] = <<>> /\ pend = <<>> /\ buf = <<>>
Holds ==
  /\ fp["out"] # "none"
  /\ fp["out"] = "pipe" => child["out"] = "runs" /\ "main" \in writers["out"]
  /\ fp["out"] = "file" => child["out"] = "none" /\ data["out"] = <<>>
LetGone ==
  /\ fp["out"] = "none" /\ pend = <<>> /\ buf = <<>>
  /\ child["out"] # "runs" => data["out"] = <<>>

\* What is in the sink: of the first n pictures of the log; of all samples.
Stored(n) ==
  /\ DOMAIN disk = There \cup {NameOf(log[j].id) : j \in 1 .. n}
  /\ \A j \in 1 .. n : \/ disk[NameOf(log[j].id)] = Cut(log[j].sample)
                       \/ \E l \in (j + 1) .. n : NameOf(log[l].id) = NameOf(log[j].id)
Before == IF scene.append /\ scene.out.onDisk = "file" THEN <<NoSample>> ELSE <<>>
Appended ==
  Sink \in {"u8", "ref"} =>
    /\ i = Len(log)
    /\ DOMAIN disk = IF log = <<>> THEN There ELSE {<<>>}
    /\ log = <<>> /\ There # {} => disk[<<>>] = <<NoSample>>
    /\ log # <<>> => disk[<<>>] = Before \o [j \in 1 .. Len(log) |-> Entry(Sink, log[j])]

Piped == {"vid", "dir", "pic"}
Settled ==
  /\ Sink \in {"dir", "pic"} => IdleOut /\ Stored(Len(log))
  /\ Sink = "vid" => IF log = <<>> THEN IdleOut
                     ELSE Holds /\ pend = <<>> /\ name = <<>> /\ Sent = Pictures(log)
  /\ Sink \notin Piped => IdleOut /\ Appended
Kept ==
  /\ Sink \in {"dir", "pic"} => Stored(Len(log))
  /\ Sink = "vid" /\ log # <<>> => disk[<<>>] = Pictures(log)
  /\ Sink \notin Piped => Appended

Cons(c, t) == <<C(c)>> \o t
TopW == <<C("top")>>
ExitW == <<C("exit")>>
PlaceW == <<C("place")>>
PickW == Cons("pick", PlaceW)
EndW == Cons("close out", ExitW)
After == IF Sink = "vid" THEN TopW ELSE Cons("close out", TopW)
Closed == IF Sink = "vid" THEN ExitW ELSE TopW

Underway ==
  /\ Sink \in Piped /\ log # <<>> /\ name = NameOf(hand.id) /\ log[Len(log)] = hand
  /\ Sink # "vid" => Stored(Len(log) - 1)
Ending ==
  /\ Sink \in Piped /\ log # <<>>
  /\ Sink = "vid" => name = <<>>
  /\ Sink # "vid" => Underway

Rests == {TopW, PickW, PlaceW, EndW}
Waiting == \E ins \in Seq(InCall) : \E rest \in Rests : todo = ins \o rest

Between == Waiting /\ Settled
Opening == todo = Cons("open out", Cons("write", Cons("push", After))) /\ Underway /\ IdleOut /\ Old = <<>>
Writing == todo = Cons("write", Cons("push", After)) /\ Underway /\ Holds /\ pend = <<>> /\ Sent = Old
Pushing == todo = Cons("push", After) /\ Underway /\ Holds /\ Sent = Due
Written == todo = After /\ Sink # "vid" /\ Underway /\ Holds /\ pend = <<>> /\ Sent = Due
Flushing ==
  /\ todo = Cons("push", Cons("let go out", Cons("reap out", Closed)))
  /\ Ending /\ Holds /\ buf = <<>> /\ Sent = Due
LettingGo ==
  /\ todo = Cons("let go out", Cons("reap out", Closed))
  /\ Ending /\ Holds /\ pend = <<>> /\ buf = <<>> /\ Sent = Due
Reaping == todo = Cons("reap out", Closed) /\ Ending /\ LetGone /\ Sent = Due
Leaving == todo = ExitW /\ Kept

Stage ==
  Between \/ Opening \/ Writing \/ Pushing \/ Written \/ Flushing \/ LettingGo \/ Reaping \/ Leaving

DeliverInv ==
  scene.cmd = "synth" /\ deaths = 0 =>
    /\ at = "starts" => Settled
    /\ at = "runs" => Stage
    /\ at = "ended" => Kept

\* Every call, of either command.
AnyCall == Calls("pairs")

LEMMA AnyCallIs ==
  /\ \A cmd : Seq(Calls(cmd)) \subseteq Seq(AnyCall)
  /\ InCall \subseteq AnyCall
<1>1. \A cmd : Calls(cmd) \subseteq AnyCall
  BY DEF Calls, AnyCall
<1>2. ASSUME NEW S, NEW T, S \subseteq T PROVE Seq(S) \subseteq Seq(T)
  BY <1>2
<1>. QED
  BY <1>1, <1>2 DEF InCall, AnyCall, Calls

LEMMA FirstIs ==
  ASSUME NEW S, NEW d \in S, NEW t \in Seq(S)
  PROVE  <<d>> \o t \in Seq(S) /\ <<d>> \o t # <<>> /\ Head(<<d>> \o t) = d /\ Tail(<<d>> \o t) = t
<1>1. PICK o \in Seq(S) : o = <<d>> /\ Len(o) = 1 /\ o[1] = d
  <2>1. <<d>> \in Seq(S) /\ Len(<<d>>) = 1 /\ <<d>>[1] = d
    OBVIOUS
  <2>. QED
    BY <2>1, Zenon
<1>2. PICK u \in Seq(S) : /\ u = o \o t /\ Len(u) = 1 + Len(t)
                          /\ \A k \in 1 .. 1 + Len(t) : u[k] = IF k <= 1 THEN o[k] ELSE t[k - 1]
  <2>1. o \o t \in Seq(S) /\ Len(o \o t) = 1 + Len(t)
    BY <1>1, ConcatProperties
  <2>2. \A k \in 1 .. 1 + Len(t) : (o \o t)[k] = IF k <= 1 THEN o[k] ELSE t[k - 1]
    BY <1>1, ConcatProperties
  <2>. QED
    BY <2>1, <2>2, Zenon
<1>3. u # <<>> /\ Head(u) = d
  BY <1>1, <1>2
<1>4. Tail(u) \in Seq(S) /\ Len(Tail(u)) = Len(t) /\ \A k \in 1 .. Len(t) : Tail(u)[k] = u[k + 1]
  BY <1>2, <1>3
<1>5. \A k \in 1 .. Len(t) : Tail(u)[k] = t[k]
  <2>1. \A k \in 1 .. Len(t) : k + 1 \in 1 .. 1 + Len(t) /\ ~ (k + 1 <= 1) /\ k + 1 - 1 = k
    <3>1. PICK l \in Nat : l = Len(t)
      OBVIOUS
    <3>2. \A k \in 1 .. l : k + 1 \in 1 .. 1 + l /\ ~ (k + 1 <= 1) /\ k + 1 - 1 = k
      OBVIOUS
    <3>. QED
      BY <3>1, <3>2, Zenon
  <2>. QED
    BY <2>1, <1>2, <1>4
<1>6. Tail(u) = t
  BY <1>4, <1>5, SeqEqual
<1>. QED
  BY <1>1, <1>2, <1>3, <1>6

LEMMA ConsIs ==
  ASSUME NEW t \in Seq(AnyCall),
         NEW c \in {"open in", "pic", "close in", "first", "next", "sink", "top", "pick", "place", "open out",
                    "write", "push", "close out", "let go out", "reap in", "reap out", "exit", "find"}
  PROVE  /\ Cons(c, t) \in Seq(AnyCall) /\ Cons(c, t) # <<>>
         /\ Head(Cons(c, t)).call = c /\ Tail(Cons(c, t)) = t
<1>1. C(c) \in AnyCall /\ C(c).call = c
  <2>1. PICK names : AnyCall = [call : names, of : Seq(Nat)] /\ c \in names
    BY DEF AnyCall, Calls
  <2>2. [call |-> c, of |-> <<>>] \in [call : names, of : Seq(Nat)]
    BY <2>1, NoPath
  <2>. QED
    BY <2>1, <2>2 DEF C
<1>2. PICK d \in AnyCall : d = C(c) /\ d.call = c
  BY <1>1, Zenon
<1>3. PICK u : u = <<d>> \o t
  OBVIOUS
<1>4. u \in Seq(AnyCall) /\ u # <<>> /\ Head(u) = d /\ Tail(u) = t
  BY <1>3, FirstIs
<1>. QED
  BY <1>2, <1>3, <1>4 DEF Cons

-----------------------------------------------------------------------------
(* Words of calls.                                                         *)

LEMMA Twice ==
  ASSUME NEW S, NEW a \in S, NEW b \in S, NEW t \in Seq(S)
  PROVE  <<a, b>> \o t = <<a>> \o (<<b>> \o t)
<1>1. PICK p \in Seq(S), q \in Seq(S) : p = <<a>> /\ q = <<b>>
  <2>1. <<a>> \in Seq(S) /\ <<b>> \in Seq(S)
    OBVIOUS
  <2>. QED
    BY <2>1, Zenon
<1>2. <<a, b>> = Append(p, b)
  BY <1>1
<1>3. Append(p, b) = p \o q
  BY <1>1, AppendIsConcat
<1>4. (p \o q) \o t = p \o (q \o t)
  BY ConcatAssociative
<1>. QED
  BY <1>1, <1>2, <1>3, <1>4, Zenon

LEMMA Strings ==
  ASSUME NEW S, NEW a \in S, NEW t \in Seq(S)
  PROVE  /\ <<a>> \in Seq(S) /\ <<a>> # <<>> /\ Head(<<a>>) = a /\ Tail(<<a>>) = <<>>
         /\ <<a>> \o t \in Seq(S)
<1>1. <<a>> \in Seq(S)
  OBVIOUS
<1>2. <<a>> # <<>> /\ Head(<<a>>) = a /\ Tail(<<a>>) = <<>>
  OBVIOUS
<1>. QED
  BY <1>1, <1>2

LEMMA Three ==
  ASSUME NEW a \in AnyCall, NEW b \in AnyCall, NEW c \in AnyCall, NEW t \in Seq(AnyCall)
  PROVE  <<a, b, c>> \o t = <<a>> \o (<<b>> \o (<<c>> \o t))
<1>0. \A x \in AnyCall, y \in AnyCall, v \in Seq(AnyCall) : <<x, y>> \o v = <<x>> \o (<<y>> \o v)
  BY Twice
<1>1. PICK p \in Seq(AnyCall), q \in Seq(AnyCall) : p = <<a, b>> /\ q = <<c>>
  <2>1. <<a, b>> \in Seq(AnyCall) /\ <<c>> \in Seq(AnyCall)
    OBVIOUS
  <2>. QED
    BY <2>1, Zenon
<1>2. <<a, b, c>> = Append(p, c)
  BY <1>1
<1>3. Append(p, c) = p \o q
  BY <1>1, AppendIsConcat
<1>4. (p \o q) \o t = p \o (q \o t)
  BY ConcatAssociative, SMTT(30)
<1>5. <<a, b, c>> \o t = <<a, b>> \o (<<c>> \o t)
  BY <1>1, <1>2, <1>3, <1>4, Zenon
<1>6. PICK u \in Seq(AnyCall) : u = <<c>> \o t
  BY Strings
<1>7. <<a, b>> \o u = <<a>> \o (<<b>> \o u)
  BY <1>0
<1>. QED
  BY <1>5, <1>6, <1>7

LEMMA CallIs ==
  /\ \A c \in {"open in", "pic", "close in", "first", "next", "sink", "top", "pick", "place", "open out",
               "write", "push", "close out", "let go out", "reap in", "reap out", "exit", "find"} :
        C(c) \in AnyCall /\ C(c).call = c
  /\ \A c \in {"open in", "pic", "close in", "first", "next", "reap in", "sink"} : C(c) \in InCall
<1>1. \A c : C(c) = [call |-> c, of |-> <<>>]
  BY DEF C
<1>2. PICK names : /\ AnyCall = [call : names, of : Seq(Nat)]
                   /\ \A c \in {"open in", "pic", "close in", "first", "next", "sink", "top", "pick", "place",
                                "open out", "write", "push", "close out", "let go out", "reap in", "reap out",
                                "exit", "find"} : c \in names
  BY DEF AnyCall, Calls
<1>3. ASSUME NEW c \in names PROVE [call |-> c, of |-> <<>>] \in [call : names, of : Seq(Nat)]
  BY <1>3, NoPath
<1>4. PICK ns : /\ InCall = [call : ns, of : Seq(Nat)]
                /\ \A c \in {"open in", "pic", "close in", "first", "next", "reap in", "sink"} : c \in ns
  BY DEF InCall
<1>5. ASSUME NEW c \in ns PROVE [call |-> c, of |-> <<>>] \in [call : ns, of : Seq(Nat)]
  BY <1>5, NoPath
<1>6. \A c : [call |-> c, of |-> <<>>].call = c
  OBVIOUS
<1>. QED
  BY <1>1, <1>2, <1>3, <1>4, <1>5, <1>6, Zenon

\* What close puts before main, when the Picwriter has something open.
LEMMA FlushWord ==
  ASSUME NEW w \in Seq(AnyCall)
  PROVE  <<C("push"), C("let go out"), C("reap out")>> \o w
            = Cons("push", Cons("let go out", Cons("reap out", w)))
<1>1. C("push") \in AnyCall /\ C("let go out") \in AnyCall /\ C("reap out") \in AnyCall
  BY CallIs
<1>2. \A a \in AnyCall, b \in AnyCall, c \in AnyCall : <<a, b, c>> \o w = <<a>> \o (<<b>> \o (<<c>> \o w))
  BY Three
<1>. QED
  BY <1>1, <1>2, Zenon DEF Cons

\* The words of the calls that main may have before it.
LEMMA WordsAre ==
  /\ TopW \in Seq(AnyCall) /\ ExitW \in Seq(AnyCall) /\ PlaceW \in Seq(AnyCall)
  /\ PickW \in Seq(AnyCall) /\ EndW \in Seq(AnyCall) /\ After \in Seq(AnyCall) /\ Closed \in Seq(AnyCall)
  /\ \A w \in Rests : w \in Seq(AnyCall) /\ w # <<>>
  /\ Head(TopW).call = "top" /\ Head(ExitW).call = "exit" /\ Head(PlaceW).call = "place"
  /\ Tail(TopW) = <<>> /\ Tail(ExitW) = <<>> /\ Tail(PlaceW) = <<>>
  /\ Head(PickW).call = "pick" /\ Tail(PickW) = PlaceW
  /\ Head(EndW).call = "close out" /\ Tail(EndW) = ExitW
<1>1. ASSUME NEW a \in AnyCall
      PROVE  <<a>> \in Seq(AnyCall) /\ <<a>> # <<>> /\ Head(<<a>>) = a /\ Tail(<<a>>) = <<>>
  <2>1. <<>> \in Seq(AnyCall)
    OBVIOUS
  <2>. QED
    BY <2>1, Strings
<1>2. /\ C("top") \in AnyCall /\ C("exit") \in AnyCall /\ C("place") \in AnyCall
      /\ C("top").call = "top" /\ C("exit").call = "exit" /\ C("place").call = "place"
  BY CallIs
<1>3. /\ TopW \in Seq(AnyCall) /\ TopW # <<>> /\ Head(TopW).call = "top" /\ Tail(TopW) = <<>>
      /\ ExitW \in Seq(AnyCall) /\ Head(ExitW).call = "exit" /\ Tail(ExitW) = <<>>
      /\ PlaceW \in Seq(AnyCall) /\ PlaceW # <<>> /\ Head(PlaceW).call = "place" /\ Tail(PlaceW) = <<>>
  BY <1>1, <1>2, Zenon DEF TopW, ExitW, PlaceW
<1>4. PickW \in Seq(AnyCall) /\ PickW # <<>> /\ Head(PickW).call = "pick" /\ Tail(PickW) = PlaceW
  BY <1>3, ConsIs DEF PickW
<1>5. EndW \in Seq(AnyCall) /\ EndW # <<>> /\ Head(EndW).call = "close out" /\ Tail(EndW) = ExitW
  BY <1>3, ConsIs DEF EndW
<1>6. After \in Seq(AnyCall) /\ Closed \in Seq(AnyCall)
  BY <1>3, ConsIs DEF After, Closed
<1>. QED
  BY <1>3, <1>4, <1>5, <1>6, Zenon DEF Rests

-----------------------------------------------------------------------------
(* Steps that leave the sink alone.                                         *)

\* A step that leaves the sink and its pipe alone.
OutSame ==
  /\ UNCHANGED <<scene, disk, name, log, i, got, pend, buf>>
  /\ fp'["out"] = fp["out"] /\ child'["out"] = child["out"] /\ data'["out"] = data["out"]
  /\ "main" \in writers["out"] => "main" \in writers'["out"]

LEMMA SinkStays ==
  ASSUME UNCHANGED scene
  PROVE  Sink' = Sink /\ There' = There /\ Before' = Before /\ \A id : NameOf(id)' = NameOf(id)
<1>1. Sink' = Sink /\ There' = There /\ Before' = Before
  BY DEF Sink, There, Before
<1>. QED
  BY <1>1 DEF NameOf

LEMMA StoredStays ==
  ASSUME UNCHANGED <<scene, log, disk>>
  PROVE  /\ Stored(Len(log)) => Stored(Len(log))'
         /\ Stored(Len(log) - 1) => Stored(Len(log) - 1)'
         /\ Appended /\ i' = i => Appended'
<1>1. There' = There /\ log' = log /\ disk' = disk /\ \A id : NameOf(id)' = NameOf(id)
  BY SinkStays
<1>2. Stored(Len(log)) => Stored(Len(log))'
  BY <1>1, Zenon DEF Stored
<1>3. Stored(Len(log) - 1) => Stored(Len(log) - 1)'
  BY <1>1, Zenon DEF Stored
<1>4. Appended /\ i' = i => Appended'
  BY <1>1, SinkStays DEF Appended
<1>. QED
  BY <1>2, <1>3, <1>4

\* A step that leaves the sink alone, and moves parts only toward it.
SinkSame ==
  /\ UNCHANGED <<scene, disk, name, log, i, pend, buf>>
  /\ Sent' = Sent
  /\ IdleOut => IdleOut'
  /\ Holds => Holds'
  /\ LetGone => LetGone'

LEMMA SinkKeeps ==
  ASSUME SinkSame
  PROVE  (Settled => Settled') /\ (Kept => Kept')
<1>1. /\ UNCHANGED <<scene, disk, name, log, i, pend, buf>> /\ Sent' = Sent
      /\ (IdleOut => IdleOut') /\ (Holds => Holds')
  BY DEF SinkSame
<1>2. Sink' = Sink /\ Pictures(log)' = Pictures(log)
  BY <1>1, SinkStays DEF Pictures
<1>3. Settled => Settled'
  BY <1>1, <1>2, StoredStays DEF Settled
<1>4. Kept => Kept'
  BY <1>1, <1>2, StoredStays DEF Kept
<1>. QED
  BY <1>3, <1>4

LEMMA OutStays ==
  ASSUME OutSame
  PROVE  SinkSame /\ (Settled => Settled') /\ (Kept => Kept')
<1>1. /\ UNCHANGED <<scene, disk, name, log, i, got, pend, buf>>
      /\ fp'["out"] = fp["out"] /\ child'["out"] = child["out"] /\ data'["out"] = data["out"]
      /\ "main" \in writers["out"] => "main" \in writers'["out"]
  BY DEF OutSame
<1>2. Sent' = Sent /\ (IdleOut => IdleOut')
  BY <1>1 DEF Sent, IdleOut
<1>3. (Holds => Holds') /\ (LetGone => LetGone')
  BY <1>1 DEF Holds, LetGone
<1>4. SinkSame
  BY <1>1, <1>2, <1>3 DEF SinkSame
<1>. QED
  BY <1>4, SinkKeeps

LEMMA UnderwayStays ==
  ASSUME UNCHANGED <<scene, disk, name, log, hand>>
  PROVE  /\ Underway => Underway'
         /\ Ending => Ending'
         /\ Old' = Old /\ Due' = Due /\ After' = After /\ Closed' = Closed
<1>1. Sink' = Sink /\ \A id : NameOf(id)' = NameOf(id)
  BY SinkStays
<1>2. Underway => Underway'
  <2>1. NameOf(hand.id)' = NameOf(hand.id)
    BY SinkStays DEF NameOf
  <2>. QED
    BY <1>1, <2>1, StoredStays DEF Underway
<1>3. Ending => Ending'
  BY <1>1, <1>2 DEF Ending
<1>4. Old' = Old /\ Due' = Due
  BY <1>1 DEF Old, Due, Pictures
<1>5. After' = After /\ Closed' = Closed
  BY <1>1 DEF After, Closed
<1>. QED
  BY <1>2, <1>3, <1>4, <1>5

\* A step that leaves the calls and the sample in hand alone too.
LEMMA StageKeeps ==
  ASSUME SinkSame, UNCHANGED <<todo, hand>>, Stage
  PROVE  Stage'
<1>1. UNCHANGED <<scene, disk, name, log, hand, todo, pend, buf>>
  BY DEF SinkSame
<1>2. /\ Sink' = Sink /\ Sent' = Sent /\ Old' = Old /\ Due' = Due /\ After' = After /\ Closed' = Closed
      /\ (IdleOut => IdleOut') /\ (Holds => Holds') /\ (LetGone => LetGone') /\ (Settled => Settled')
      /\ (Kept => Kept') /\ (Underway => Underway') /\ (Ending => Ending')
  BY <1>1, SinkKeeps, SinkStays, UnderwayStays DEF SinkSame
<1>3. Waiting => Waiting'
  BY <1>1 DEF Waiting, Rests, TopW, PickW, PlaceW, EndW, ExitW, Cons
<1>4. Between => Between'
  BY <1>2, <1>3 DEF Between
<1>5. Opening => Opening'
  BY <1>1, <1>2 DEF Opening, Cons
<1>6. (Writing => Writing') /\ (Pushing => Pushing')
  BY <1>1, <1>2 DEF Writing, Pushing, Cons
<1>7. (Written => Written') /\ (Flushing => Flushing')
  BY <1>1, <1>2 DEF Written, Flushing, Cons
<1>8. (LettingGo => LettingGo') /\ (Reaping => Reaping')
  BY <1>1, <1>2 DEF LettingGo, Reaping, Cons
<1>9. Leaving => Leaving'
  BY <1>1, <1>2 DEF Leaving, ExitW
<1>. QED
  BY <1>4, <1>5, <1>6, <1>7, <1>8, <1>9 DEF Stage

LEMMA StageStays ==
  ASSUME OutSame, UNCHANGED <<todo, hand>>, Stage
  PROVE  Stage'
BY OutStays, StageKeeps

LEMMA HeadTailConcat ==
  ASSUME NEW S, NEW s \in Seq(S), NEW t \in Seq(S), s # <<>>
  PROVE  Head(s \o t) = Head(s) /\ Tail(s \o t) = Tail(s) \o t /\ s \o t # <<>>
<1>1. PICK u \in Seq(S) : /\ u = s \o t /\ Len(u) = Len(s) + Len(t)
                          /\ \A k \in 1 .. Len(s) + Len(t) : u[k] = IF k <= Len(s) THEN s[k] ELSE t[k - Len(s)]
  <2>1. s \o t \in Seq(S) /\ Len(s \o t) = Len(s) + Len(t)
    BY ConcatProperties
  <2>2. \A k \in 1 .. Len(s) + Len(t) : (s \o t)[k] = IF k <= Len(s) THEN s[k] ELSE t[k - Len(s)]
    BY ConcatProperties
  <2>. QED
    BY <2>1, <2>2, Zenon
<1>2. PICK m \in Nat, n \in Nat : Len(s) = m + 1 /\ Len(t) = n
  <2>1. Len(s) - 1 \in Nat /\ Len(s) = (Len(s) - 1) + 1 /\ Len(t) \in Nat
    OBVIOUS
  <2>. QED
    BY <2>1
<1>3. PICK v \in Seq(S) : v = Tail(s) /\ Len(v) = m /\ \A k \in 1 .. m : v[k] = s[k + 1]
  <2>1. Tail(s) \in Seq(S) /\ Len(Tail(s)) = m /\ \A k \in 1 .. m : Tail(s)[k] = s[k + 1]
    BY <1>2
  <2>. QED
    BY <2>1, Zenon
<1>4. PICK w \in Seq(S) : w = Tail(u) /\ Len(w) = m + n /\ \A k \in 1 .. m + n : w[k] = u[k + 1]
  <2>1. u # <<>> /\ Len(u) = (m + n) + 1
    BY <1>1, <1>2
  <2>2. Tail(u) \in Seq(S) /\ Len(Tail(u)) = m + n /\ \A k \in 1 .. m + n : Tail(u)[k] = u[k + 1]
    BY <1>2, <2>1
  <2>. QED
    BY <2>2, Zenon
<1>5. PICK x \in Seq(S) : /\ x = v \o t /\ Len(x) = m + n
                          /\ \A k \in 1 .. m + n : x[k] = IF k <= m THEN v[k] ELSE t[k - m]
  <2>1. v \o t \in Seq(S) /\ Len(v \o t) = m + n
    BY <1>2, <1>3, ConcatProperties
  <2>2. \A k \in 1 .. m + n : (v \o t)[k] = IF k <= m THEN v[k] ELSE t[k - m]
    BY <1>2, <1>3, ConcatProperties
  <2>. QED
    BY <2>1, <2>2, Zenon
<1>6. ASSUME NEW k \in 1 .. m + n PROVE w[k] = x[k]
  <2>1. w[k] = u[k + 1] /\ k + 1 \in 1 .. Len(s) + Len(t)
    BY <1>2, <1>4
  <2>2. u[k + 1] = IF k + 1 <= m + 1 THEN s[k + 1] ELSE t[(k + 1) - (m + 1)]
    BY <1>1, <1>2, <2>1
  <2>3. CASE k <= m
    BY <2>1, <2>2, <2>3, <1>3, <1>5
  <2>4. CASE k > m
    <3>1. (k + 1) - (m + 1) = k - m /\ ~ (k + 1 <= m + 1) /\ ~ (k <= m)
      BY <2>4
    <3>. QED
      BY <2>1, <2>2, <3>1, <1>5, Zenon
  <2>. QED
    BY <2>3, <2>4
<1>7. w = x
  BY <1>4, <1>5, <1>6, SeqEqual
<1>8. Head(u) = Head(s) /\ u # <<>>
  BY <1>1, <1>2
<1>. QED
  BY <1>1, <1>3, <1>4, <1>5, <1>7, <1>8

\* The first call of each stage, and the calls behind it.
InNames == {"open in", "pic", "close in", "first", "next", "reap in", "sink"}
LEMMA StageHead ==
  ASSUME Stage
  PROVE  \/ Opening /\ Head(todo).call = "open out" /\ Tail(todo) = Cons("write", Cons("push", After))
         \/ Writing /\ Head(todo).call = "write" /\ Tail(todo) = Cons("push", After)
         \/ Pushing /\ Head(todo).call = "push" /\ Tail(todo) = After
         \/ Written /\ Head(todo).call = "close out" /\ Tail(todo) = TopW
         \/ Flushing /\ Head(todo).call = "push" /\ Tail(todo) = Cons("let go out", Cons("reap out", Closed))
         \/ LettingGo /\ Head(todo).call = "let go out" /\ Tail(todo) = Cons("reap out", Closed)
         \/ Reaping /\ Head(todo).call = "reap out" /\ Tail(todo) = Closed
         \/ Leaving /\ Head(todo).call = "exit"
         \/ Settled /\ todo = TopW /\ Head(todo).call = "top"
         \/ Settled /\ todo = PickW /\ Head(todo).call = "pick" /\ Tail(todo) = PlaceW
         \/ Settled /\ todo = PlaceW /\ Head(todo).call = "place"
         \/ Settled /\ todo = EndW /\ Head(todo).call = "close out" /\ Tail(todo) = ExitW
         \/ /\ Settled /\ Head(todo).call \in InNames
            /\ \E ins \in Seq(InCall) : \E rest \in Rests : Tail(todo) = ins \o rest
<1>0. ASSUME NEW t \in Seq(AnyCall), NEW c \in {"write", "push", "close out", "let go out", "reap out", "open out"}
      PROVE  Cons(c, t) \in Seq(AnyCall) /\ Head(Cons(c, t)).call = c /\ Tail(Cons(c, t)) = t
  <2>1. c \in {"open in", "pic", "close in", "first", "next", "sink", "top", "pick", "place", "open out",
               "write", "push", "close out", "let go out", "reap in", "reap out", "exit", "find"}
    OBVIOUS
  <2>. QED
    BY <2>1, ConsIs, ZenonT(40)
<1>1. CASE Opening \/ Writing \/ Pushing
  <2>1. PICK a \in Seq(AnyCall), b \in Seq(AnyCall), c \in Seq(AnyCall) :
           /\ a = After /\ b = Cons("push", a) /\ c = Cons("write", b)
           /\ Head(b).call = "push" /\ Tail(b) = a /\ Head(c).call = "write" /\ Tail(c) = b
           /\ Head(Cons("open out", c)).call = "open out" /\ Tail(Cons("open out", c)) = c
    <3>1. After \in Seq(AnyCall)
      BY WordsAre
    <3>2. /\ Cons("push", After) \in Seq(AnyCall)
          /\ Head(Cons("push", After)).call = "push" /\ Tail(Cons("push", After)) = After
      BY <3>1, <1>0, Zenon
    <3>3. PICK b \in Seq(AnyCall) : b = Cons("push", After)
      BY <3>2, Zenon
    <3>4. /\ Cons("write", b) \in Seq(AnyCall)
          /\ Head(Cons("write", b)).call = "write" /\ Tail(Cons("write", b)) = b
      BY <1>0, Zenon
    <3>5. PICK c \in Seq(AnyCall) : c = Cons("write", b)
      BY <3>4, Zenon
    <3>6. Head(Cons("open out", c)).call = "open out" /\ Tail(Cons("open out", c)) = c
      BY <1>0, Zenon
    <3>. QED
      BY <3>1, <3>2, <3>3, <3>4, <3>5, <3>6, Zenon
  <2>. QED
    BY <1>1, <2>1, Zenon DEF Opening, Writing, Pushing
<1>2. CASE Written
  <2>1. TopW \in Seq(AnyCall) /\ todo = Cons("close out", TopW)
    BY <1>2, WordsAre DEF Written, After
  <2>. QED
    BY <1>0, <1>2, <2>1
<1>3. CASE Flushing \/ LettingGo \/ Reaping
  <2>1. PICK a \in Seq(AnyCall), b \in Seq(AnyCall), c \in Seq(AnyCall) :
           /\ a = Closed /\ b = Cons("reap out", a) /\ c = Cons("let go out", b)
           /\ Head(b).call = "reap out" /\ Tail(b) = a /\ Head(c).call = "let go out" /\ Tail(c) = b
           /\ Head(Cons("push", c)).call = "push" /\ Tail(Cons("push", c)) = c
    <3>1. Closed \in Seq(AnyCall)
      BY WordsAre
    <3>2. /\ Cons("reap out", Closed) \in Seq(AnyCall)
          /\ Head(Cons("reap out", Closed)).call = "reap out" /\ Tail(Cons("reap out", Closed)) = Closed
      BY <3>1, <1>0, Zenon
    <3>3. PICK b \in Seq(AnyCall) : b = Cons("reap out", Closed)
      BY <3>2, Zenon
    <3>4. /\ Cons("let go out", b) \in Seq(AnyCall)
          /\ Head(Cons("let go out", b)).call = "let go out" /\ Tail(Cons("let go out", b)) = b
      BY <1>0, Zenon
    <3>5. PICK c \in Seq(AnyCall) : c = Cons("let go out", b)
      BY <3>4, Zenon
    <3>6. Head(Cons("push", c)).call = "push" /\ Tail(Cons("push", c)) = c
      BY <1>0, Zenon
    <3>. QED
      BY <3>1, <3>2, <3>3, <3>4, <3>5, <3>6, Zenon
  <2>. QED
    BY <1>3, <2>1, Zenon DEF Flushing, LettingGo, Reaping
<1>4. CASE Leaving
  BY <1>4, WordsAre DEF Leaving
<1>5. CASE Between
  <2>1. PICK ins \in Seq(InCall), rest \in Rests : Settled /\ todo = ins \o rest
    BY <1>5 DEF Between, Waiting, Rests
  <2>2. rest \in Seq(AnyCall) /\ ins \in Seq(AnyCall)
    <3>1. Seq(InCall) \subseteq Seq(AnyCall)
      BY AnyCallIs, SeqMonotonic
    <3>. QED
      BY <3>1, WordsAre
  <2>3. CASE ins = <<>>
    <3>1. todo = rest
      BY <2>1, <2>2, <2>3, ConcatEmptySeq
    <3>. QED
      BY <2>1, <3>1, WordsAre DEF Rests
  <2>4. CASE ins # <<>>
    <3>1. Head(todo) = Head(ins) /\ Tail(todo) = Tail(ins) \o rest /\ Tail(ins) \in Seq(InCall)
      BY <2>1, <2>2, <2>4, HeadTailConcat
    <3>2. Head(ins) \in InCall
      BY <2>4
    <3>3. Head(ins).call \in InNames
      BY <3>2 DEF InCall, InNames
    <3>. QED
      BY <2>1, <3>1, <3>3
  <2>. QED
    BY <2>3, <2>4
<1>. QED
  BY <1>1, <1>2, <1>3, <1>4, <1>5 DEF Stage

-----------------------------------------------------------------------------
(* The calls of the source.                                                *)

LEMMA VidCalls ==
  /\ LoadVid \in Seq(InCall) /\ <<>> \in Seq(InCall)
  /\ \A c \in {"close in", "next", "sink", "reap in"} : <<C(c)>> \in Seq(InCall)
<1>1. \A c \in {"open in", "first", "close in", "next", "sink", "reap in"} : C(c) \in InCall
  BY CallIs
<1>2. \A a \in InCall, b \in InCall : <<a>> \in Seq(InCall) /\ <<a, b>> \in Seq(InCall)
  OBVIOUS
<1>3. <<>> \in Seq(InCall)
  OBVIOUS
<1>. QED
  BY <1>1, <1>2, <1>3, Zenon DEF LoadVid

LEMMA Thrice ==
  ASSUME NEW S, NEW a \in S, NEW b \in S, NEW c \in S
  PROVE  <<a, b, c>> = <<a>> \o (<<b>> \o <<c>>)
<1>1. PICK p \in Seq(S), q \in Seq(S) : p = <<a, b>> /\ q = <<c>>
  <2>1. <<a, b>> \in Seq(S) /\ <<c>> \in Seq(S)
    OBVIOUS
  <2>. QED
    BY <2>1, Zenon
<1>2. <<a, b, c>> = Append(p, c)
  BY <1>1
<1>3. Append(p, c) = p \o q
  BY <1>1, AppendIsConcat
<1>4. <<a, b>> \o q = <<a>> \o (<<b>> \o q)
  BY Twice
<1>. QED
  BY <1>1, <1>2, <1>3, <1>4, Zenon

LEMMA FinishIs == Finish = <<C("close in")>> \o EndW
<1>1. C("close in") \in AnyCall /\ C("close out") \in AnyCall /\ C("exit") \in AnyCall
  BY CallIs
<1>2. <<C("close in"), C("close out"), C("exit")>> = <<C("close in")>> \o (<<C("close out")>> \o <<C("exit")>>)
  BY <1>1, Thrice, Zenon
<1>. QED
  BY <1>2, Zenon DEF Finish, EndW, ExitW, Cons

\* Calls of the source before one of the words.
LEMMA Waits ==
  ASSUME NEW ins \in Seq(InCall), NEW rest \in Rests, todo' = ins \o rest, Settled'
  PROVE  Stage'
<1>1. Waiting'
  BY Zenon DEF Waiting, Rests, TopW, PickW, PlaceW, EndW, ExitW, Cons
<1>. QED
  BY <1>1 DEF Between, Stage

LEMMA WaitsMore ==
  ASSUME NEW more \in Seq(InCall), NEW ins \in Seq(InCall), NEW rest \in Rests,
         todo' = more \o (ins \o rest), Settled'
  PROVE  Stage'
<1>1. more \in Seq(AnyCall) /\ ins \in Seq(AnyCall) /\ rest \in Seq(AnyCall)
  BY AnyCallIs, SeqMonotonic, WordsAre
<1>2. (more \o ins) \o rest = more \o (ins \o rest)
  BY <1>1, ConcatAssociative
<1>3. more \o ins \in Seq(InCall) /\ todo' = (more \o ins) \o rest
  BY <1>2, Joined, Zenon
<1>. QED
  BY <1>3, Waits, Zenon

LEMMA WaitsAlone ==
  ASSUME NEW rest \in Rests, todo' = rest, Settled'
  PROVE  Stage'
<1>1. PICK e \in Seq(InCall) : e = <<>>
  BY VidCalls, Zenon
<1>2. rest \in Seq(AnyCall)
  BY WordsAre
<1>3. todo' = e \o rest
  BY <1>1, <1>2, ConcatEmptySeq, Zenon
<1>. QED
  BY <1>3, Waits

LEMMA WaitsToEnd ==
  ASSUME NEW ins \in Seq(InCall), todo' = ins \o Finish, Settled'
  PROVE  Stage'
<1>1. EndW \in Rests
  BY DEF Rests
<1>. QED
  BY <1>1, VidCalls, FinishIs, WaitsMore

\* A call of the source, and the calls it leaves.
LEMMA InStep ==
  ASSUME Stage, Head(todo).call \in InNames, OutSame, NEW more \in Seq(InCall), Then(more)
  PROVE  Stage'
<1>1. PICK ins \in Seq(InCall), rest \in Rests : Settled /\ Tail(todo) = ins \o rest
  BY StageHead DEF InNames
<1>2. Settled'
  BY <1>1, OutStays
<1>. QED
  BY <1>1, <1>2, WaitsMore DEF Then

LEMMA Pair ==
  ASSUME NEW S, NEW a \in S, NEW b \in S
  PROVE  <<a, b>> = <<a>> \o <<b>>
<1>1. PICK p \in Seq(S), q \in Seq(S) : p = <<a>> /\ q = <<b>>
  <2>1. <<a>> \in Seq(S) /\ <<b>> \in Seq(S)
    OBVIOUS
  <2>. QED
    BY <2>1, Zenon
<1>2. <<a, b>> = Append(p, b)
  BY <1>1
<1>3. Append(p, b) = p \o q
  BY <1>1, AppendIsConcat
<1>. QED
  BY <1>1, <1>2, <1>3, Zenon

LEMMA TwoCalls ==
  <<C("sink"), C("top")>> = <<C("sink")>> \o TopW /\ <<C("pick"), C("place")>> = PickW
<1>1. C("sink") \in AnyCall /\ C("top") \in AnyCall /\ C("pick") \in AnyCall /\ C("place") \in AnyCall
  BY CallIs
<1>. QED
  BY <1>1, Pair, Zenon DEF TopW, PickW, PlaceW, Cons

LEMMA PipesSame ==
  ASSUME UNCHANGED <<scene, disk, name, log, i>>, UNCHANGED pipeVars
  PROVE  OutSame
BY DEF OutSame, pipeVars

\* Main runs the synth command, and no child has died before its end.
Going == SynthInv /\ SynthTyped /\ scene.cmd = "synth" /\ deaths = 0 /\ at = "runs" /\ Stage

LEMMA StartStage ==
  ASSUME SynthInv, scene.cmd = "synth", at = "starts", Settled, Start
  PROVE  at' = "error" \/ Stage'
<1>1. CASE Source # "error"
  <2>1. scene \in Scenes /\ IsTree(scene.tree) /\ <<>> \in DOMAIN scene.tree
    BY SceneAssumption DEF SynthInv, IsTree
  <2>2. PICK reads \in Seq(Seq(Nat)) : reads = Reads(scene.tree, <<>>, kl)
    BY <2>1, ReadsAre
  <2>3. UNCHANGED <<scene, disk, name, log, i>> /\ UNCHANGED pipeVars
    BY DEF Start, sinkVars, loopVars
  <2>4. Settled'
    BY <2>3, PipesSame, OutStays
  <2>5. PICK ins \in Seq(InCall) : todo' = ins \o <<C("sink"), C("top")>>
    <3>1. LoadVid \in Seq(InCall) /\ Loads(reads) \in Seq(InCall)
      BY VidCalls, LoadsAreIn
    <3>2. todo' = LoadVid \o <<C("sink"), C("top")>> \/ todo' = Loads(reads) \o <<C("sink"), C("top")>>
      BY <1>1, <2>2, Zenon DEF Start
    <3>. QED
      BY <3>1, <3>2
  <2>6. TopW \in Rests /\ <<C("sink")>> \in Seq(InCall)
    BY VidCalls DEF Rests
  <2>. QED
    BY <2>4, <2>5, <2>6, TwoCalls, WaitsMore
<1>. QED
  BY <1>1 DEF Start

LEMMA InNamesAre ==
  ASSUME Going, NEW c \in InNames, At(c)
  PROVE  Stage /\ Head(todo).call \in InNames
BY DEF Going, At

LEMMA MakeSinkStage ==
  ASSUME Going, MakeSink
  PROVE  at' = "error" \/ Stage'
<1>1. Stage /\ Head(todo).call \in InNames
  BY InNamesAre DEF MakeSink, InNames
<1>2. CASE Sink # "error"
  <2>1. Then(<<>>) /\ UNCHANGED pipeVars /\ UNCHANGED <<scene, disk, name, log, i>>
    BY <1>2, Zenon DEF MakeSink, sinkVars, loopVars
  <2>. QED
    BY <1>1, <2>1, PipesSame, VidCalls, InStep
<1>. QED
  BY <1>2 DEF MakeSink

LEMMA TopIs ==
  ASSUME Going, At("top")
  PROVE  Settled
BY StageHead DEF Going, At, InNames

LEMMA TopStage ==
  ASSUME Going, Top
  PROVE  Stage'
<1>1. UNCHANGED pipeVars /\ UNCHANGED <<scene, disk, name, log, i>>
  BY DEF Top, sinkVars, loopVars
<1>2. Settled'
  BY <1>1, TopIs, PipesSame, OutStays DEF Top
<1>3. CASE todo' = Finish
  <2>1. PICK ins \in Seq(InCall) : ins = <<C("close in")>>
    BY VidCalls, Zenon
  <2>2. EndW \in Rests
    BY DEF Rests
  <2>. QED
    BY <1>2, <1>3, <2>1, <2>2, FinishIs, Waits
<1>4. CASE todo' = <<C("pick"), C("place")>>
  <2>1. PickW \in Rests /\ todo' = PickW
    BY <1>4, TwoCalls DEF Rests
  <2>. QED
    BY <1>2, <2>1, WaitsAlone
<1>. QED
  BY <1>3, <1>4 DEF Top, Going

LEMMA PickIs ==
  ASSUME Going, At("pick")
  PROVE  Settled /\ Tail(todo) = PlaceW
BY StageHead DEF Going, At, InNames

LEMMA PickSampleStage ==
  ASSUME Going, PickSample
  PROVE  Aborts \/ Stage'
<1>1. scene \in Scenes /\ Source # "vid" /\ scene.opt.trav # "refs" /\ At("pick")
  BY DEF Going, SynthInv, PickSample
<1>2. IsTree(scene.tree) /\ kl \in States(scene.tree)
  BY <1>1, SceneAssumption DEF Going, SynthInv, IdiInRange
<1>3. PICK r \in Pick(scene.tree, scene.opt, kl) :
          Aborts \/ /\ todo' = Loads(r.reads) \o IF r.ret = "sample" THEN Tail(todo) ELSE Finish
                    /\ UNCHANGED <<scene, at, tkl, line, frames, readVars, sinkVars, i, log, pipeVars>>
  BY Zenon DEF PickSample
<1>4. CASE ~ Aborts
  <2>1. r.reads \in Seq(Seq(Nat))
    BY <1>2, PickIsGood DEF GoodPick
  <2>2. Loads(r.reads) \in Seq(InCall)
    BY <2>1, LoadsAreIn
  <2>3. UNCHANGED <<scene, disk, name, log, i>> /\ UNCHANGED pipeVars
    BY <1>3, <1>4 DEF sinkVars
  <2>4. Settled' /\ Tail(todo) = PlaceW
    BY <1>1, <2>3, PickIs, PipesSame, OutStays
  <2>5. CASE r.ret = "sample"
    <3>1. todo' = Loads(r.reads) \o PlaceW /\ PlaceW \in Rests
      BY <1>3, <1>4, <2>4, <2>5, Zenon DEF Rests
    <3>. QED
      BY <2>2, <2>4, <3>1, Waits
  <2>6. CASE r.ret # "sample"
    <3>1. todo' = Loads(r.reads) \o Finish
      BY <1>3, <1>4, <2>6, Zenon
    <3>. QED
      BY <2>2, <2>4, <3>1, WaitsToEnd
  <2>. QED
    BY <2>5, <2>6
<1>. QED
  BY <1>4

LEMMA RefReads ==
  ASSUME SynthInv, PickRef
  PROVE  Aborts \/ todo' = Finish \/ \E reads \in Seq(Seq(Nat)) : Then(Loads(reads))
<1>1. scene \in Scenes /\ line \in Nat
  BY DEF SynthInv
<1>2. IsTree(scene.tree) /\ scene.refs \in Seq(Sample)
  BY <1>1, SceneAssumption DEF Sample
<1>3. PICK over, next, found :
        /\ over = (line >= Len(scene.refs)) /\ next = IF over THEN 1 ELSE line + 1
        /\ found = Find(scene.tree, scene.refs[next])
  OBVIOUS
<1>4. CASE ~ Aborts /\ todo' # Finish
  <2>1. scene.refs # <<>> /\ found # NoSample /\ Then(Loads(Reads(scene.tree, found.of, kl)))
    BY <1>3, <1>4, Zenon DEF PickRef
  <2>2. PICK l \in Nat : l = Len(scene.refs) /\ l # 0
    BY <1>2, <2>1
  <2>3. next \in 1 .. l
    <3>1. next = IF line >= l THEN 1 ELSE line + 1
      BY <1>3, <2>2
    <3>. QED
      BY <3>1, <1>1, <2>2
  <2>4. PICK id \in Sample : id = scene.refs[next]
    BY <1>2, <2>2, <2>3
  <2>5. id.of \in Seq(Nat) /\ id = [of |-> id.of, v |-> id.v, x |-> id.x]
    BY <2>4 DEF Sample
  <2>6. VOfRaw(scene.tree, id)
    BY <1>1, <2>2, <2>3, <2>4, SceneAssumption DEF VOfRaw
  <2>7. found = id /\ id.of \in DOMAIN scene.tree
    BY <1>2, <1>3, <2>1, <2>4, <2>5, <2>6, FindIsGood DEF VOfRaw
  <2>8. Reads(scene.tree, found.of, kl) \in Seq(Seq(Nat))
    BY <1>2, <2>7, ReadsAre
  <2>. QED
    BY <2>1, <2>8, Zenon
<1>. QED
  BY <1>4

LEMMA PickRefStage ==
  ASSUME Going, PickRef
  PROVE  Aborts \/ Stage'
<1>1. (UNCHANGED <<scene, disk, name, log, i>> /\ UNCHANGED pipeVars) \/ Aborts
  BY Zenon DEF PickRef, sinkVars, loopVars
<1>2. CASE ~ Aborts
  <2>1. Settled' /\ Tail(todo) = PlaceW
    BY <1>1, <1>2, PickIs, PipesSame, OutStays DEF PickRef
  <2>2. todo' = Finish \/ \E reads \in Seq(Seq(Nat)) : Then(Loads(reads))
    BY <1>2, RefReads DEF Going
  <2>3. CASE todo' = Finish
    <3>1. PICK ins \in Seq(InCall) : ins = <<C("close in")>>
      BY VidCalls, Zenon
    <3>2. EndW \in Rests
      BY DEF Rests
    <3>. QED
      BY <2>1, <2>3, <3>1, <3>2, FinishIs, Waits
  <2>4. CASE todo' # Finish
    <3>1. PICK reads \in Seq(Seq(Nat)) : todo' = Loads(reads) \o PlaceW
      BY <2>1, <2>2, <2>4, Zenon DEF Then
    <3>2. PlaceW \in Rests /\ Loads(reads) \in Seq(InCall)
      BY LoadsAreIn DEF Rests
    <3>. QED
      BY <2>1, <3>1, <3>2, Waits
  <2>. QED
    BY <2>3, <2>4
<1>. QED
  BY <1>2

LEMMA PickFrameStage ==
  ASSUME Going, PickFrame
  PROVE  Stage'
<1>1. UNCHANGED <<scene, disk, name, log, i>> /\ UNCHANGED pipeVars
  BY Zenon DEF PickFrame, sinkVars
<1>2. Settled' /\ Tail(todo) = PlaceW
  BY <1>1, PickIs, PipesSame, OutStays DEF PickFrame
<1>3. todo' = LoadVid \o Finish \/ todo' = <<C("next")>> \o PlaceW
  BY <1>2, Zenon DEF PickFrame, Then
<1>4. LoadVid \in Seq(InCall) /\ <<C("next")>> \in Seq(InCall) /\ PlaceW \in Rests
  BY VidCalls DEF Rests
<1>. QED
  BY <1>2, <1>3, <1>4, Waits, WaitsToEnd

LEMMA OpenInStage ==
  ASSUME Going, OpenIn
  PROVE  Stage'
<1>1. Stage /\ Head(todo).call \in InNames
  BY InNamesAre DEF OpenIn, InNames
<1>2. PICK parts : OpenReader(parts) \/ OpenReaderFile(parts)
  BY Zenon DEF OpenIn
<1>3. PipesTyped /\ UNCHANGED <<scene, disk, name, log, i>> /\ Then(<<>>)
  BY DEF Going, SynthTyped, OpenIn, sinkVars, loopVars
<1>4. OutSame
  <2>1. UNCHANGED <<got, pend, buf>>
    BY <1>2 DEF OpenReader, OpenReaderFile
  <2>2. fp'["out"] = fp["out"] /\ child'["out"] = child["out"] /\ data'["out"] = data["out"]
    BY <1>2, <1>3 DEF PipesTyped, OpenReader, OpenReaderFile, Ends
  <2>3. "main" \in writers["out"] => "main" \in writers'["out"]
    <3>1. CASE OpenReader(parts)
      <4>1. writers' = [Inherited(writers, "in") EXCEPT !["in"] = {"in"}]
        BY <3>1, Zenon DEF OpenReader
      <4>2. Inherited(writers, "in")["out"] = writers["out"] \cup (IF "main" \in writers["out"] THEN {"in"} ELSE {})
        BY DEF Inherited, Ends
      <4>3. writers'["out"] = Inherited(writers, "in")["out"]
        BY <4>1 DEF Inherited, Ends
      <4>. QED
        BY <4>2, <4>3
    <3>2. CASE OpenReaderFile(parts)
      BY <3>2 DEF OpenReaderFile
    <3>. QED
      BY <1>2, <3>1, <3>2
  <2>. QED
    BY <1>3, <2>1, <2>2, <2>3 DEF OutSame
<1>. QED
  BY <1>1, <1>3, <1>4, VidCalls, InStep

LEMMA ReadStage ==
  ASSUME Going, Read
  PROVE  Stage'
<1>1. Stage /\ Head(todo).call \in InNames
  BY InNamesAre DEF Read, Reading, InNames
<1>2. TakePart /\ PipesTyped /\ UNCHANGED <<scene, disk, name, log, i, hand>> /\ (Then(<<>>) \/ todo' = todo)
  BY DEF Going, SynthTyped, Read, sinkVars, loopVars
<1>3. OutSame
  <2>1. UNCHANGED <<got, pend, buf, fp, child, writers>> /\ data'["out"] = data["out"]
    BY <1>2 DEF TakePart, PipesTyped, Ends
  <2>. QED
    BY <1>2, <2>1 DEF OutSame
<1>. QED
  BY <1>1, <1>2, <1>3, VidCalls, InStep, StageStays

LEMMA ReadEofStage ==
  ASSUME Going, ReadEof
  PROVE  Aborts \/ Stage'
<1>1. Stage /\ Head(todo).call \in InNames
  BY InNamesAre DEF ReadEof, Reading, InNames
<1>2. Aborts \/ /\ Then(<<C("close in")>> \o IF scene.opt.repeat THEN LoadVid ELSE <<>>)
                /\ UNCHANGED <<scene, disk, name, log, i>> /\ UNCHANGED pipeVars
  BY Zenon DEF ReadEof, sinkVars, loopVars
<1>3. <<C("close in")>> \o (IF scene.opt.repeat THEN LoadVid ELSE <<>>) \in Seq(InCall)
  BY VidCalls, Joined
<1>. QED
  BY <1>1, <1>2, <1>3, PipesSame, InStep

LEMMA CloseInStage ==
  ASSUME Going, CloseIn
  PROVE  Stage'
<1>1. Stage /\ Head(todo).call \in InNames
  BY InNamesAre DEF CloseIn, InNames
<1>2. /\ PipesTyped /\ UNCHANGED <<scene, disk, name, log, i>>
      /\ \/ Then(<<>>) /\ UNCHANGED pipeVars
         \/ Then(<<C("reap in")>>) /\ LetGo("in")
  BY DEF Going, SynthTyped, CloseIn, sinkVars, loopVars
<1>3. CASE LetGo("in")
  <2>1. /\ UNCHANGED <<got, pend, buf, child>> /\ data'["out"] = data["out"]
        /\ fp'["out"] = fp["out"] /\ writers'["out"] = writers["out"]
    BY <1>2, <1>3 DEF LetGo, PipesTyped, Ends
  <2>. QED
    BY <1>1, <1>2, <2>1, VidCalls, PipesSame, InStep DEF OutSame
<1>. QED
  BY <1>1, <1>2, <1>3, VidCalls, PipesSame, InStep

LEMMA ReapInStage ==
  ASSUME Going, ReapIn
  PROVE  Stage'
<1>1. Stage /\ Head(todo).call \in InNames
  BY InNamesAre DEF ReapIn, InNames
<1>2. PipesTyped /\ UNCHANGED <<scene, disk, name, log, i>> /\ Then(<<>>) /\ Reap("in")
  BY DEF Going, SynthTyped, ReapIn, sinkVars, loopVars
<1>3. UNCHANGED <<got, pend, buf, fp, data, writers>> /\ child'["out"] = child["out"]
  BY <1>2 DEF Reap, PipesTyped, Ends
<1>4. OutSame
  BY <1>2, <1>3 DEF OutSame
<1>. QED
  BY <1>1, <1>2, <1>4, VidCalls, InStep

-----------------------------------------------------------------------------
(* The steps of place and of close.                                        *)

LEMMA PlaceWords ==
  /\ Sink # "vid" => <<C("open out"), C("write"), C("push"), C("close out")>> \o TopW
                        = Cons("open out", Cons("write", Cons("push", After)))
  /\ Sink = "vid" => /\ <<C("open out"), C("write"), C("push")>> \o TopW
                           = Cons("open out", Cons("write", Cons("push", After)))
                     /\ <<C("write"), C("push")>> \o TopW = Cons("write", Cons("push", After))
<1>1. C("open out") \in AnyCall /\ C("write") \in AnyCall /\ C("push") \in AnyCall /\ C("close out") \in AnyCall
  BY CallIs
<1>2. TopW \in Seq(AnyCall)
  BY WordsAre
<1>3. \A a \in AnyCall, b \in AnyCall, t \in Seq(AnyCall) : <<a, b>> \o t = <<a>> \o (<<b>> \o t)
  BY Twice
<1>4. \A a \in AnyCall, b \in AnyCall, c \in AnyCall, t \in Seq(AnyCall) :
         <<a, b, c>> \o t = <<a>> \o (<<b>> \o (<<c>> \o t))
  BY Three
<1>7. <<C("open out"), C("write"), C("push"), C("close out")>> \o TopW
           = <<C("open out")>> \o (<<C("write")>> \o (<<C("push")>> \o (<<C("close out")>> \o TopW)))
  <2>1. PICK a \in AnyCall, b \in AnyCall, c \in AnyCall, d \in AnyCall :
           a = C("open out") /\ b = C("write") /\ c = C("push") /\ d = C("close out")
    BY <1>1, Zenon
  <2>2. PICK p \in Seq(AnyCall), q \in Seq(AnyCall) : p = <<a, b>> /\ q = <<c, d>>
    <3>1. <<a, b>> \in Seq(AnyCall) /\ <<c, d>> \in Seq(AnyCall)
      OBVIOUS
    <3>. QED
      BY <3>1, Zenon
  <2>3. <<a, b, c, d>> = p \o q
    BY <2>2
  <2>4. (p \o q) \o TopW = p \o (q \o TopW)
    BY <1>2, ConcatAssociative
  <2>5. PICK u \in Seq(AnyCall) : u = q \o TopW
    BY <1>2, ConcatProperties
  <2>6. u = <<c>> \o (<<d>> \o TopW)
    BY <1>2, <1>3, <2>2, <2>5, Zenon
  <2>7. p \o u = <<a>> \o (<<b>> \o u)
    BY <1>3, <2>2, Zenon
  <2>8. <<a, b, c, d>> \o TopW = <<a>> \o (<<b>> \o (<<c>> \o (<<d>> \o TopW)))
    BY <2>3, <2>4, <2>5, <2>6, <2>7, Zenon
  <2>. QED
    BY <2>1, <2>8, Zenon
<1>8. <<C("open out"), C("write"), C("push")>> \o TopW
           = <<C("open out")>> \o (<<C("write")>> \o (<<C("push")>> \o TopW))
  BY <1>1, <1>2, <1>4, ZenonT(40)
<1>9. <<C("write"), C("push")>> \o TopW = <<C("write")>> \o (<<C("push")>> \o TopW)
  BY <1>1, <1>2, <1>3, Zenon
<1>5. After = IF Sink = "vid" THEN TopW ELSE <<C("close out")>> \o TopW
  BY Zenon DEF After, Cons
<1>. QED
  BY <1>5, <1>7, <1>8, <1>9, Zenon DEF Cons

\* The log without its last.
LEMMA LogWas ==
  ASSUME NEW l \in Seq(Logged), NEW h \in Logged
  PROVE  /\ SubSeq(Append(l, h), 1, Len(Append(l, h)) - 1) = l
         /\ Append(l, h) # <<>> /\ Len(Append(l, h)) = Len(l) + 1 /\ Append(l, h)[Len(l) + 1] = h
         /\ \A j \in 1 .. Len(l) : Append(l, h)[j] = l[j]
<1>1. PICK n \in Nat, m \in Seq(Logged) : n = Len(l) /\ m = Append(l, h)
  <2>1. Append(l, h) \in Seq(Logged) /\ Len(l) \in Nat
    BY AppendProperties
  <2>. QED
    BY <2>1, Zenon
<1>2. m # <<>> /\ Len(m) = n + 1 /\ m[n + 1] = h /\ \A j \in 1 .. n : m[j] = l[j]
  BY <1>1, AppendProperties
<1>3. PICK u \in Seq(Logged) : u = SubSeq(m, 1, n) /\ Len(u) = n /\ \A j \in 1 .. n : u[j] = m[j]
  <2>1. SubSeq(m, 1, n) \in Seq(Logged) /\ Len(SubSeq(m, 1, n)) = n /\ \A j \in 1 .. n : SubSeq(m, 1, n)[j] = m[j]
    BY <1>2
  <2>. QED
    BY <2>1, Zenon
<1>4. u = l
  BY <1>1, <1>2, <1>3, SeqEqual
<1>5. Len(m) - 1 = n
  BY <1>2
<1>. QED
  BY <1>1, <1>2, <1>3, <1>4, <1>5

LEMMA PlacePictureStage ==
  ASSUME Going, PlacePicture
  PROVE  Stage'
<1>1. /\ Settled /\ Sink \in Piped
      /\ PipesTyped /\ log \in Seq(Logged) /\ hand \in Logged
  <2>1. Settled
    BY StageHead DEF Going, PlacePicture, At, InNames
  <2>. QED
    BY <2>1 DEF Going, PlacePicture, SynthTyped, MainTyped, Piped
<1>2. /\ UNCHANGED <<scene, hand, disk>> /\ UNCHANGED pipeVars
      /\ name' = NameOf(hand.id) /\ log' = Append(log, hand)
      /\ todo' = (IF Sink # "vid" THEN <<C("open out"), C("write"), C("push"), C("close out")>>
                  ELSE IF fp["out"] = "none" THEN <<C("open out"), C("write"), C("push")>>
                  ELSE <<C("write"), C("push")>>) \o TopW
  BY DEF PlacePicture, TopW
<1>3. /\ SubSeq(log', 1, Len(log') - 1) = log /\ log' # <<>> /\ Len(log') = Len(log) + 1 /\ log'[Len(log')] = hand
      /\ \A j \in 1 .. Len(log) : log'[j] = log[j]
  <2>1. /\ SubSeq(Append(log, hand), 1, Len(Append(log, hand)) - 1) = log
        /\ Append(log, hand) # <<>> /\ Len(Append(log, hand)) = Len(log) + 1
        /\ Append(log, hand)[Len(log) + 1] = hand
        /\ \A j \in 1 .. Len(log) : Append(log, hand)[j] = log[j]
    BY <1>1, LogWas
  <2>. QED
    BY <1>2, <2>1, Zenon
<1>4. Sink' = Sink /\ There' = There /\ \A id : NameOf(id)' = NameOf(id)
  BY <1>2, SinkStays
<1>5. Old' = IF Sink = "vid" THEN Pictures(log) ELSE <<>>
  BY <1>3, <1>4, Zenon DEF Old
<1>6. (IdleOut => IdleOut') /\ (Holds => Holds') /\ Sent' = Sent /\ After' = After
  BY <1>2, <1>4 DEF IdleOut, Holds, Sent, After, pipeVars
<1>7. Underway'
  <2>1. NameOf(hand.id)' = NameOf(hand.id)
    BY <1>2, SinkStays DEF NameOf
  <2>2. Sink # "vid" => Stored(Len(log) - 1)'
    <3>. SUFFICES ASSUME Sink # "vid" PROVE Stored(Len(log) - 1)'
      OBVIOUS
    <3>1. PICK n \in Nat : n = Len(log)
      BY <1>1
    <3>2. Stored(n) /\ Len(log') - 1 = n
      BY <1>1, <1>3, <3>1 DEF Settled, Piped
    <3>3. Stored(n)'
      <4>1. \A j \in 1 .. n : log'[j] = log[j]
        BY <1>3, <3>1
      <4>2. \A j \in 1 .. n : (NameOf(log[j].id))' = NameOf(log[j].id)
        BY <1>4, <4>1 DEF NameOf
      <4>3. {NameOf(log[j].id) : j \in 1 .. n}' = {NameOf(log[j].id) : j \in 1 .. n}
        BY <4>2
      <4>4. \A j \in 1 .. n : \A l \in (j + 1) .. n : l \in 1 .. n
        OBVIOUS
      <4>5. DOMAIN disk' = There' \cup {NameOf(log[j].id) : j \in 1 .. n}'
        BY <1>2, <1>4, <3>2, <4>3 DEF Stored
      <4>6. ASSUME NEW j \in 1 .. n
            PROVE  \/ disk'[(NameOf(log[j].id))'] = Cut(log'[j].sample)
                   \/ \E l \in (j + 1) .. n : (NameOf(log[l].id))' = (NameOf(log[j].id))'
        <5>1. \/ disk[NameOf(log[j].id)] = Cut(log[j].sample)
              \/ \E l \in (j + 1) .. n : NameOf(log[l].id) = NameOf(log[j].id)
          BY <3>2, Zenon DEF Stored
        <5>2. (NameOf(log[j].id))' = NameOf(log[j].id) /\ log'[j] = log[j] /\ disk' = disk
          BY <1>2, <4>1, <4>2
        <5>3. \A l \in (j + 1) .. n : (NameOf(log[l].id))' = NameOf(log[l].id)
          BY <4>2, <4>4, Zenon
        <5>. QED
          BY <5>1, <5>2, <5>3, Zenon
      <4>. QED
        BY <4>5, <4>6, Zenon DEF Stored
    <3>. QED
      BY <3>1, <3>2, <3>3
  <2>. QED
    BY <1>1, <1>2, <1>3, <1>4, <2>1, <2>2 DEF Underway
<1>8. CASE Sink # "vid" \/ fp["out"] = "none"
  <2>1. IdleOut /\ (Sink = "vid" => log = <<>>)
    BY <1>1, <1>8 DEF Settled, Piped, Holds
  <2>2. Old' = <<>>
    BY <1>5, <2>1, NoPictures
  <2>3. todo' = Cons("open out", Cons("write", Cons("push", After)))
    BY <1>2, <1>8, PlaceWords, Zenon
  <2>4. Opening'
    BY <1>6, <1>7, <2>1, <2>2, <2>3, Zenon DEF Opening, Cons
  <2>. QED
    BY <2>4 DEF Stage
<1>9. CASE Sink = "vid" /\ fp["out"] # "none"
  <2>1. Holds /\ pend = <<>> /\ Sent = Pictures(log)
    BY <1>1, <1>9 DEF Settled, IdleOut
  <2>2. todo' = Cons("write", Cons("push", After))
    BY <1>2, <1>9, PlaceWords, Zenon
  <2>3. pend' = <<>> /\ Sent' = Old'
    BY <1>2, <1>5, <1>6, <1>9, <2>1 DEF pipeVars
  <2>4. Writing'
    BY <1>6, <1>7, <2>1, <2>2, <2>3, Zenon DEF Writing, Cons
  <2>. QED
    BY <2>4 DEF Stage
<1>. QED
  BY <1>8, <1>9

EntriesOf(sink, l) == [j \in 1 .. Len(l) |-> Entry(sink, l[j])]

LEMMA EntriesGrow ==
  ASSUME NEW sink, NEW l \in Seq(Logged), NEW h \in Logged
  PROVE  /\ EntriesOf(sink, l) \in Seq(Sample) /\ Entry(sink, h) \in Sample
         /\ EntriesOf(sink, Append(l, h)) = Append(EntriesOf(sink, l), Entry(sink, h))
<1>0. PICK n \in Nat : n = Len(l)
  OBVIOUS
<1>1. PICK m : n = Len(l) /\ m = Append(l, h)
  BY <1>0
<1>2. Len(m) = n + 1 /\ m[n + 1] = h /\ \A j \in 1 .. n : m[j] = l[j]
  BY <1>1, LogWas
<1>3. \A j \in 1 .. n : l[j] \in Logged
  BY <1>1
<1>4. \A g \in Logged : Entry(sink, g) \in Sample
  BY DEF Logged, Entry
<1>5. PICK s \in Seq(Sample) : s = EntriesOf(sink, l) /\ Len(s) = n /\ \A j \in 1 .. n : s[j] = Entry(sink, l[j])
  <2>1. EntriesOf(sink, l) = [j \in 1 .. n |-> Entry(sink, l[j])]
    BY <1>1 DEF EntriesOf
  <2>2. EntriesOf(sink, l) \in Seq(Sample) /\ Len(EntriesOf(sink, l)) = n /\ \A j \in 1 .. n : EntriesOf(sink, l)[j] = Entry(sink, l[j])
    BY <1>1, <1>3, <1>4, <2>1
  <2>. QED
    BY <2>2, Zenon
<1>6. PICK t \in Seq(Sample) : t = EntriesOf(sink, m) /\ Len(t) = n + 1 /\ \A j \in 1 .. n + 1 : t[j] = Entry(sink, m[j])
  <2>1. EntriesOf(sink, m) = [j \in 1 .. n + 1 |-> Entry(sink, m[j])]
    BY <1>2 DEF EntriesOf
  <2>2. \A j \in 1 .. n + 1 : m[j] \in Logged
    BY <1>2, <1>3
  <2>3. EntriesOf(sink, m) \in Seq(Sample) /\ Len(EntriesOf(sink, m)) = n + 1 /\ \A j \in 1 .. n + 1 : EntriesOf(sink, m)[j] = Entry(sink, m[j])
    BY <1>1, <1>4, <2>1, <2>2
  <2>. QED
    BY <2>3, Zenon
<1>7. PICK x \in Sample : x = Entry(sink, h)
  BY <1>4
<1>8. t = Append(s, x)
  <2>1. PICK u \in Seq(Sample) : /\ u = Append(s, x) /\ Len(u) = n + 1 /\ u[n + 1] = x
                                 /\ \A j \in 1 .. n : u[j] = s[j]
    <3>1. /\ Append(s, x) \in Seq(Sample) /\ Len(Append(s, x)) = n + 1 /\ Append(s, x)[n + 1] = x
          /\ \A j \in 1 .. n : Append(s, x)[j] = s[j]
      BY <1>5, AppendProperties
    <3>. QED
      BY <3>1, Zenon
  <2>2. ASSUME NEW j \in 1 .. n + 1 PROVE u[j] = t[j]
    <3>1. CASE j = n + 1
      BY <3>1, <2>1, <1>2, <1>6, <1>7
    <3>2. CASE j # n + 1
      <4>1. j \in 1 .. n
        BY <3>2
      <4>. QED
        BY <4>1, <2>1, <1>2, <1>5, <1>6, SMTT(30)
    <3>. QED
      BY <3>1, <3>2
  <2>. QED
    BY <2>1, <2>2, <1>6, SeqEqual
<1>. QED
  BY <1>1, <1>4, <1>5, <1>6, <1>7, <1>8, Zenon

LEMMA PlacePlainStage ==
  ASSUME Going, PlacePlain
  PROVE  Stage'
<1>1. Settled /\ Sink \notin Piped /\ log \in Seq(Logged) /\ hand \in Logged
  <2>1. Settled
    BY StageHead DEF Going, PlacePlain, At, InNames
  <2>. QED
    BY <2>1 DEF Going, PlacePlain, SynthTyped, MainTyped, Piped
<1>2. UNCHANGED <<scene, name>> /\ UNCHANGED pipeVars /\ log' = Append(log, hand)
  BY DEF PlacePlain
<1>3. IdleOut /\ Appended
  BY <1>1 DEF Settled
<1>4. Sink' = Sink /\ There' = There /\ Before' = Before /\ IdleOut'
  BY <1>2, <1>3, SinkStays DEF IdleOut, pipeVars
<1>5. Appended'
  <2>. SUFFICES ASSUME Sink \in {"u8", "ref"} PROVE Appended'
    BY <1>4 DEF Appended
  <2>1. /\ i = Len(log)
        /\ DOMAIN disk = IF log = <<>> THEN There ELSE {<<>>}
        /\ log = <<>> /\ There # {} => disk[<<>>] = <<NoSample>>
        /\ log # <<>> => disk[<<>>] = Before \o EntriesOf(Sink, log)
    BY <1>3, Zenon DEF Appended, EntriesOf
  <2>2. PICK old : /\ old = IF <<>> \in DOMAIN disk /\ (i > 0 \/ scene.append) THEN disk[<<>>] ELSE <<>>
                   /\ disk' = [n \in {<<>>} |-> Append(old, Entry(Sink, hand))]
    BY DEF PlacePlain
  <2>3. i' = i + 1
    BY DEF PlacePlain
  <2>4. PICK S : S = Sample \cup {NoSample}
    OBVIOUS
  <2>5. Before \in Seq(S) /\ EntriesOf(Sink, log) \in Seq(S) /\ Entry(Sink, hand) \in S
    <3>1. EntriesOf(Sink, log) \in Seq(Sample) /\ Entry(Sink, hand) \in Sample
      BY <1>1, EntriesGrow
    <3>2. NoSample \in S /\ Sample \subseteq S
      BY <2>4
    <3>3. <<>> \in Seq(S) /\ <<NoSample>> \in Seq(S)
      BY <3>2
    <3>. QED
      BY <3>1, <3>2, <3>3, SeqMonotonic DEF Before
  <2>6. old = Before \o EntriesOf(Sink, log)
    <3>1. CASE log = <<>>
      <4>1. EntriesOf(Sink, log) = <<>>
        BY <3>1 DEF EntriesOf
      <4>2. Before \o EntriesOf(Sink, log) = Before
        BY <4>1, <2>5, ConcatEmptySeq
      <4>3. ~ (i > 0)
        BY <2>1, <3>1
      <4>. QED
        BY <4>2, <4>3, <2>1, <2>2, <3>1 DEF Before, There
    <3>2. CASE log # <<>>
      <4>1. i > 0
        BY <2>1, <3>2, <1>1
      <4>. QED
        BY <4>1, <2>1, <2>2, <3>2
    <3>. QED
      BY <3>1, <3>2
  <2>7. Append(old, Entry(Sink, hand)) = Before \o EntriesOf(Sink, log')
    <3>1. PICK b \in Seq(S), s \in Seq(S), x \in S : b = Before /\ s = EntriesOf(Sink, log) /\ x = Entry(Sink, hand)
      BY <2>5, Zenon
    <3>2. Append(b \o s, x) = b \o Append(s, x)
      <4>1. PICK o \in Seq(S) : o = <<x>>
        <5>1. <<x>> \in Seq(S)
          OBVIOUS
        <5>. QED
          BY <5>1, Zenon
      <4>2. Append(s, x) = s \o o /\ Append(b \o s, x) = (b \o s) \o o
        BY <4>1, AppendIsConcat, ConcatProperties
      <4>. QED
        BY <4>2, ConcatAssociative
    <3>3. EntriesOf(Sink, log') = Append(s, x)
      BY <1>1, <1>2, <3>1, EntriesGrow, Zenon
    <3>. QED
      BY <2>6, <3>1, <3>2, <3>3, Zenon
  <2>8. DOMAIN disk' = {<<>>} /\ disk'[<<>>] = Append(old, Entry(Sink, hand))
    BY <2>2
  <2>9. log' # <<>> /\ i' = Len(log')
    BY <1>1, <1>2, <2>1, <2>3, LogWas
  <2>. QED
    BY <1>4, <2>7, <2>8, <2>9, Zenon DEF Appended, EntriesOf
<1>6. Settled'
  BY <1>1, <1>4, <1>5 DEF Settled, Piped
<1>7. CASE todo' = TopW
  <2>1. TopW \in Rests
    BY DEF Rests
  <2>. QED
    BY <1>6, <1>7, <2>1, WaitsAlone
<1>8. CASE todo' = Finish
  <2>1. PICK ins \in Seq(InCall) : ins = <<C("close in")>>
    BY VidCalls, Zenon
  <2>2. EndW \in Rests
    BY DEF Rests
  <2>. QED
    BY <1>6, <1>8, <2>1, <2>2, FinishIs, Waits
<1>. QED
  BY <1>7, <1>8 DEF PlacePlain, TopW

LEMMA ThenNone ==
  ASSUME Going, todo # <<>>, Then(<<>>)
  PROVE  todo' = Tail(todo)
<1>1. todo \in Seq(Calls(scene.cmd))
  BY DEF Going, SynthInv, CallsKnown
<1>. HIDE DEF Calls
<1>2. Tail(todo) \in Seq(Calls(scene.cmd))
  BY <1>1
<1>. QED
  BY <1>2, ConcatEmptySeq DEF Then

LEMMA StageAt ==
  ASSUME Going
  PROVE  /\ At("open out") => Opening /\ Tail(todo) = Cons("write", Cons("push", After))
         /\ At("write") => Writing /\ Tail(todo) = Cons("push", After)
         /\ At("push") => \/ Pushing /\ Tail(todo) = After
                          \/ Flushing /\ Tail(todo) = Cons("let go out", Cons("reap out", Closed))
         /\ At("close out") => \/ Written /\ Tail(todo) = TopW
                               \/ Settled /\ todo = EndW /\ Tail(todo) = ExitW
         /\ At("let go out") => LettingGo /\ Tail(todo) = Cons("reap out", Closed)
         /\ At("reap out") => Reaping /\ Tail(todo) = Closed
         /\ At("exit") => Leaving
<1>1. Stage
  BY DEF Going
<1>2. At("open out") => Opening /\ Tail(todo) = Cons("write", Cons("push", After))
  BY <1>1, StageHead DEF At, InNames
<1>3. At("write") => Writing /\ Tail(todo) = Cons("push", After)
  BY <1>1, StageHead DEF At, InNames
<1>4. At("push") => \/ Pushing /\ Tail(todo) = After
                    \/ Flushing /\ Tail(todo) = Cons("let go out", Cons("reap out", Closed))
  BY <1>1, StageHead DEF At, InNames
<1>5. At("close out") => \/ Written /\ Tail(todo) = TopW
                         \/ Settled /\ todo = EndW /\ Tail(todo) = ExitW
  BY <1>1, StageHead DEF At, InNames
<1>6. At("let go out") => LettingGo /\ Tail(todo) = Cons("reap out", Closed)
  BY <1>1, StageHead DEF At, InNames
<1>7. At("reap out") => Reaping /\ Tail(todo) = Closed
  BY <1>1, StageHead DEF At, InNames
<1>8. At("exit") => Leaving
  BY <1>1, StageHead DEF At, InNames
<1>. QED
  BY <1>2, <1>3, <1>4, <1>5, <1>6, <1>7, <1>8, Zenon

LEMMA OpenOutStage ==
  ASSUME Going, OpenOut
  PROVE  Stage'
<1>1. Opening /\ PipesTyped /\ todo' = Cons("write", Cons("push", After))
  BY StageAt, ThenNone DEF Going, SynthTyped, OpenOut, At
<1>2. /\ UNCHANGED <<scene, disk, name, log, hand>> /\ (OpenWriter \/ OpenWriterFile)
      /\ IdleOut /\ Underway /\ Old = <<>>
  BY <1>1 DEF OpenOut, Opening, sinkVars, loopVars
<1>3. Underway' /\ Old' = <<>> /\ After' = After
  BY <1>2, UnderwayStays
<1>4. pend' = <<>> /\ buf' = <<>> /\ got' = <<>>
  BY <1>2 DEF IdleOut, OpenWriter, OpenWriterFile
<1>5. Holds' /\ data'["out"] = <<>>
  <2>1. CASE OpenWriter
    <3>1. fp'["out"] = "pipe" /\ child'["out"] = "runs" /\ data'["out"] = <<>>
      BY <1>1, <2>1 DEF OpenWriter, PipesTyped, Ends
    <3>2. writers'["out"] = {"main"}
      BY <2>1 DEF OpenWriter, Inherited, Ends
    <3>. QED
      BY <3>1, <3>2 DEF Holds
  <2>2. CASE OpenWriterFile
    BY <1>1, <1>2, <2>2 DEF OpenWriterFile, PipesTyped, Ends, IdleOut, Holds
  <2>. QED
    BY <1>2, <2>1, <2>2
<1>6. Sent' = <<>>
  <2>1. (((<<>> \o <<>>) \o <<>>) \o <<>>) = <<>>
    OBVIOUS
  <2>. QED
    BY <1>4, <1>5, <2>1, Zenon DEF Sent
<1>7. Writing'
  BY <1>1, <1>3, <1>4, <1>5, <1>6, Zenon DEF Writing, Cons
<1>. QED
  BY <1>7 DEF Stage

LEMMA DueIs ==
  ASSUME log \in Seq(Logged), hand \in Logged, log # <<>>, log[Len(log)] = hand
  PROVE  Old \o Cut(hand.sample) = Due /\ Old \in Seq(OutPart)
<1>1. Cut(hand.sample) \in Seq(OutPart)
  BY CutIs DEF Logged
<1>2. CASE Sink = "vid"
  <2>1. PICK n \in Nat : Len(log) = n + 1 /\ Len(log) - 1 = n
    <3>1. Len(log) - 1 \in Nat /\ Len(log) = (Len(log) - 1) + 1
      OBVIOUS
    <3>. QED
      BY <3>1
  <2>2. PICK l \in Seq(Logged) : l = SubSeq(log, 1, n) /\ Len(l) = n /\ \A j \in 1 .. n : l[j] = log[j]
    <3>1. SubSeq(log, 1, n) \in Seq(Logged) /\ Len(SubSeq(log, 1, n)) = n /\ \A j \in 1 .. n : SubSeq(log, 1, n)[j] = log[j]
      BY <2>1
    <3>. QED
      BY <3>1, Zenon
  <2>3. PICK m \in Seq(Logged) : /\ m = Append(l, hand) /\ Len(m) = n + 1 /\ m[n + 1] = hand
                                 /\ \A j \in 1 .. n : m[j] = l[j]
    <3>1. /\ Append(l, hand) \in Seq(Logged) /\ Len(Append(l, hand)) = n + 1 /\ Append(l, hand)[n + 1] = hand
          /\ \A j \in 1 .. n : Append(l, hand)[j] = l[j]
      BY <2>2, AppendProperties
    <3>. QED
      BY <3>1, Zenon
  <2>4. m = log
    <3>1. ASSUME NEW j \in 1 .. n + 1 PROVE m[j] = log[j]
      <4>1. CASE j = n + 1
        BY <4>1, <2>1, <2>3
      <4>2. CASE j # n + 1
        <5>1. j \in 1 .. n
          BY <4>2
        <5>. QED
          BY <5>1, <2>2, <2>3
      <4>. QED
        BY <4>1, <4>2
    <3>. QED
      BY <3>1, <2>1, <2>3, SeqEqual
  <2>5. Pictures(log) = Pictures(l) \o Cut(hand.sample)
    <3>1. Pictures(Append(l, hand)) = Pictures(l) \o Cut(hand.sample)
      BY PicturesGrow
    <3>. QED
      BY <2>3, <2>4, <3>1, Zenon
  <2>6. Old = Pictures(l) /\ Due = Pictures(log)
    BY <1>2, <2>1, <2>2 DEF Old, Due
  <2>. QED
    BY <2>5, <2>6, PicturesTyped
<1>3. CASE Sink # "vid"
  <2>1. Old = <<>> /\ Due = Cut(hand.sample)
    BY <1>3 DEF Old, Due
  <2>2. <<>> \in Seq(OutPart)
    OBVIOUS
  <2>. QED
    BY <1>1, <2>1, <2>2, ConcatEmptySeq, Zenon
<1>. QED
  BY <1>2, <1>3

LEMMA FrontAndLast ==
  ASSUME NEW c \in Seq(OutPart), c # <<>>, NEW h \in Seq(OutPart)
  PROVE  /\ SubSeq(c, 1, Len(c) - 1) \in Seq(OutPart)
         /\ (h \o SubSeq(c, 1, Len(c) - 1)) \o <<c[Len(c)]>> = h \o c
<1>1. SubSeq(c, 1, Len(c) - 1) \in Seq(OutPart) /\ <<c[Len(c)]>> \in Seq(OutPart)
  OBVIOUS
<1>2. SubSeq(c, 1, Len(c) - 1) \o <<c[Len(c)]>> = c
  <2>1. 1 \in 1 .. Len(c) /\ Len(c) \in 1 .. Len(c)
    OBVIOUS
  <2>2. SubSeq(c, 1, Len(c)) = SubSeq(c, 1, Len(c) - 1) \o <<c[Len(c)]>>
    BY <2>1, SubSeqRecursiveSecond
  <2>3. SubSeq(c, 1, Len(c)) = c
    BY SubSeqFull
  <2>. QED
    BY <2>2, <2>3, Zenon
<1>3. PICK x \in Seq(OutPart), y \in Seq(OutPart) : x = SubSeq(c, 1, Len(c) - 1) /\ y = <<c[Len(c)]>>
  BY <1>1, Zenon
<1>4. (h \o x) \o y = h \o (x \o y)
  BY ConcatAssociative, SMTT(30)
<1>. QED
  BY <1>1, <1>2, <1>3, <1>4, Zenon

LEMMA SavedIs ==
  ASSUME NEW b \in Seq(OutPart), NEW c \in Seq(OutPart), c # <<>>, NEW g \in Seq(OutPart)
  PROVE  (g \o (b \o SubSeq(c, 1, Len(c) - 1))) \o <<c[Len(c)]>> = (g \o b) \o c
<1>1. PICK h \in Seq(OutPart) : h = g \o b
  BY ConcatProperties
<1>2. PICK x \in Seq(OutPart) : x = SubSeq(c, 1, Len(c) - 1)
  BY FrontAndLast, Zenon
<1>3. (g \o b) \o x = g \o (b \o x)
  BY ConcatAssociative, SMTT(30)
<1>4. (h \o SubSeq(c, 1, Len(c) - 1)) \o <<c[Len(c)]>> = h \o c
  BY FrontAndLast, Zenon
<1>. QED
  BY <1>1, <1>2, <1>3, <1>4, Zenon

LEMMA WriteStage ==
  ASSUME Going, Write
  PROVE  Stage'
<1>1. /\ Writing /\ PipesTyped /\ log \in Seq(Logged) /\ hand \in Logged
      /\ todo' = Cons("push", After)
  BY StageAt, ThenNone DEF Going, SynthTyped, MainTyped, Write, At
<1>2. UNCHANGED <<scene, disk, name, log, hand>> /\ Save(hand.sample)
  BY DEF Write, sinkVars, loopVars
<1>3. Underway /\ Holds /\ pend = <<>> /\ Sent = Old
  BY <1>1 DEF Writing
<1>4. Underway' /\ Due' = Due /\ After' = After
  BY <1>2, <1>3, UnderwayStays
<1>5. Holds'
  BY <1>2, <1>3 DEF Save, Holds
<1>6. Sent' = Due
  <2>1. PICK g \in Seq(OutPart) : g = got \o data["out"]
    BY <1>1, ConcatProperties DEF PipesTyped
  <2>2. PICK b \in Seq(OutPart) : b = buf /\ g \o b = Old
    <3>1. g \o <<>> = g
      BY ConcatEmptySeq
    <3>2. buf \in Seq(OutPart) /\ ((got \o data["out"]) \o <<>>) \o buf = Old
      BY <1>1, <1>3, Zenon DEF Sent, PipesTyped
    <3>. QED
      BY <2>1, <3>1, <3>2, Zenon
  <2>3. PICK c \in Seq(OutPart) : c = Cut(hand.sample) /\ Len(c) = Parts
    <3>1. Cut(hand.sample) \in Seq(OutPart) /\ Len(Cut(hand.sample)) = Parts
      BY <1>1, CutIs DEF Logged
    <3>. QED
      BY <3>1, Zenon
  <2>4. pend' = b \o SubSeq(c, 1, Len(c) - 1) /\ buf' = <<c[Len(c)]>> /\ got' = got /\ data' = data
    BY <1>2, <2>2, <2>3, Zenon DEF Save
  <2>5. c # <<>>
    BY <2>3, PipeAssumption
  <2>6. Sent' = (g \o b) \o c
    <3>1. Sent' = (g \o (b \o SubSeq(c, 1, Len(c) - 1))) \o <<c[Len(c)]>>
      BY <2>1, <2>4, Zenon DEF Sent
    <3>. QED
      BY <3>1, <2>5, SavedIs, Zenon
  <2>7. Old \o c = Due
    BY <1>1, <1>3, <2>3, DueIs DEF Underway
  <2>. QED
    BY <2>2, <2>6, <2>7, Zenon
<1>7. Pushing'
  BY <1>1, <1>4, <1>5, <1>6, Zenon DEF Pushing, Cons
<1>. QED
  BY <1>7 DEF Stage

LEMMA MoveHead ==
  ASSUME NEW a \in Seq(OutPart), NEW p \in Seq(OutPart), p # <<>>
  PROVE  /\ Append(a, Head(p)) \o Tail(p) = a \o p
         /\ Head(p) \in OutPart /\ Tail(p) \in Seq(OutPart) /\ Append(a, Head(p)) \in Seq(OutPart)
<1>1. Head(p) \in OutPart /\ Tail(p) \in Seq(OutPart)
  BY HeadTailProperties
<1>2. PICK o \in Seq(OutPart), t \in Seq(OutPart) : o = <<Head(p)>> /\ t = Tail(p)
  <2>1. <<Head(p)>> \in Seq(OutPart)
    BY <1>1
  <2>. QED
    BY <1>1, <2>1, Zenon
<1>3. p = o \o t
  BY <1>2
<1>4. Append(a, Head(p)) = a \o o
  BY <1>1, <1>2, AppendIsConcat
<1>5. (a \o o) \o t = a \o (o \o t)
  BY ConcatAssociative
<1>6. Append(a, Head(p)) \in Seq(OutPart)
  BY <1>1, AppendProperties
<1>. QED
  BY <1>1, <1>2, <1>3, <1>4, <1>5, <1>6, Zenon

LEMMA AppendMoves ==
  ASSUME NEW a \in Seq(OutPart), NEW d \in Seq(OutPart), NEW x \in OutPart
  PROVE  a \o Append(d, x) = Append(a \o d, x) /\ a \o d \in Seq(OutPart)
<1>1. PICK o \in Seq(OutPart) : o = <<x>>
  <2>1. <<x>> \in Seq(OutPart)
    OBVIOUS
  <2>. QED
    BY <2>1, Zenon
<1>2. a \o d \in Seq(OutPart)
  BY ConcatProperties
<1>3. Append(d, x) = d \o o
  BY <1>1, AppendIsConcat
<1>4. Append(a \o d, x) = (a \o d) \o o
  BY <1>1, <1>2, AppendIsConcat
<1>5. (a \o d) \o o = a \o (d \o o)
  BY ConcatAssociative
<1>. QED
  BY <1>2, <1>3, <1>4, <1>5, Zenon

LEMMA PushPartSends ==
  ASSUME PipesTyped, Holds, PushPart
  PROVE  Sent' = Sent /\ Holds' /\ buf' = buf
<1>1. /\ got \in Seq(OutPart) /\ data["out"] \in Seq(OutPart) /\ pend \in Seq(OutPart) /\ pend # <<>>
      /\ pend' = Tail(pend) /\ UNCHANGED <<fp, writers, child, buf>>
  BY DEF PipesTyped, PushPart
<1>2. PICK g \in Seq(OutPart), d \in Seq(OutPart), p \in Seq(OutPart) : g = got /\ d = data["out"] /\ p = pend
  BY <1>1, Zenon
<1>3. PICK x \in OutPart, t \in Seq(OutPart) : x = Head(p) /\ t = Tail(p)
  BY <1>1, <1>2, MoveHead, Zenon
<1>4. CASE fp["out"] = "file"
  <2>1. got' = Append(got, Head(pend)) /\ data' = data /\ data["out"] = <<>>
    BY <1>4, Zenon DEF PushPart, Holds
  <2>2. Holds'
    BY <1>1, <2>1 DEF Holds
  <2>3. Append(g, Head(p)) \o Tail(p) = g \o p
    BY <1>1, <1>2, MoveHead, Zenon
  <2>4. g \o <<>> = g /\ Append(g, Head(p)) \o <<>> = Append(g, Head(p))
    <3>1. Append(g, x) \in Seq(OutPart)
      BY AppendProperties
    <3>. QED
      BY <1>3, <3>1, ConcatEmptySeq, Zenon
  <2>. QED
    BY <1>1, <1>2, <2>1, <2>2, <2>3, <2>4, Zenon DEF Sent
<1>5. CASE fp["out"] # "file"
  <2>1. /\ got' = got /\ data' = [data EXCEPT !["out"] = Append(@, Head(pend))]
    BY <1>5, Zenon DEF PushPart
  <2>2. data'["out"] = Append(data["out"], Head(pend))
    BY <2>1 DEF PipesTyped, Ends
  <2>3. Holds'
    BY <1>1, <1>5 DEF Holds
  <2>4. PICK e \in Seq(OutPart) : e = g \o d
    BY ConcatProperties
  <2>5. g \o Append(d, Head(p)) = Append(g \o d, Head(p))
    <3>1. g \o Append(d, x) = Append(g \o d, x)
      BY AppendMoves, Zenon
    <3>. QED
      BY <1>3, <3>1, Zenon
  <2>6. Append(e, Head(p)) \o Tail(p) = e \o p
    BY <1>1, <1>2, MoveHead, Zenon
  <2>. QED
    BY <1>1, <1>2, <2>1, <2>2, <2>3, <2>4, <2>5, <2>6, Zenon DEF Sent
<1>. QED
  BY <1>4, <1>5

LEMMA NothingPends ==
  ASSUME PipesTyped
  PROVE  /\ pend = <<>> => Sent = (got \o data["out"]) \o buf
         /\ pend = <<>> /\ buf = <<>> => Sent = got \o data["out"]
         /\ pend = <<>> /\ buf = <<>> /\ data["out"] = <<>> => Sent = got
<1>1. got \in Seq(OutPart) /\ data["out"] \in Seq(OutPart) /\ buf \in Seq(OutPart) /\ pend \in Seq(OutPart)
  BY DEF PipesTyped
<1>2. got \o data["out"] \in Seq(OutPart)
  BY <1>1, ConcatProperties, Zenon
<1>3. (got \o data["out"]) \o <<>> = got \o data["out"] /\ got \o <<>> = got
  BY <1>1, <1>2, ConcatEmptySeq, Zenon
<1>. QED
  BY <1>3, Zenon DEF Sent

LEMMA PushStage ==
  ASSUME Going, Push
  PROVE  Stage'
<1>1. /\ PipesTyped /\ todo # <<>> /\ UNCHANGED <<scene, disk, name, log, hand>>
      /\ \/ Pushing /\ Tail(todo) = After
         \/ Flushing /\ Tail(todo) = Cons("let go out", Cons("reap out", Closed))
  BY StageAt DEF Going, SynthTyped, Push, At, sinkVars, loopVars
<1>2. /\ Underway => Underway'
      /\ After' = After
      /\ Ending => Ending'
      /\ Due' = Due /\ Closed' = Closed /\ Sink' = Sink
  BY <1>1, UnderwayStays, SinkStays
<1>3. CASE PushPart
  <2>1. todo' = todo
    BY <1>3 DEF Push, PushPart
  <2>2. Holds
    BY <1>1 DEF Pushing, Flushing
  <2>3. Sent' = Sent /\ Holds' /\ buf' = buf
    BY <1>1, <1>3, <2>2, PushPartSends
  <2>4. CASE Pushing
    <3>1. Pushing'
      BY <1>2, <2>1, <2>3, <2>4, Zenon DEF Pushing, Cons
    <3>. QED
      BY <3>1 DEF Stage
  <2>5. CASE Flushing
    <3>1. Flushing'
      BY <1>2, <2>1, <2>3, <2>5, Zenon DEF Flushing, Cons
    <3>. QED
      BY <3>1 DEF Stage
  <2>. QED
    BY <1>1, <2>4, <2>5
<1>4. CASE ~ PushPart
  <2>1. pend = <<>> /\ UNCHANGED pipeVars /\ todo' = Tail(todo)
    BY <1>1, <1>4, ThenNone DEF Push
  <2>2. Sent' = Sent /\ (Holds => Holds') /\ pend' = <<>> /\ buf' = buf
    BY <2>1 DEF Sent, Holds, pipeVars
  <2>3. CASE Pushing /\ Tail(todo) = After
    <3>1. Underway /\ Underway' /\ Holds' /\ Sent' = Due'
      BY <1>2, <2>2, <2>3 DEF Pushing
    <3>2. CASE Sink = "vid"
      <4>1. todo' = TopW /\ TopW \in Rests
        BY <2>1, <2>3, <3>2 DEF After, Rests
      <4>2. log' # <<>> /\ name' = <<>> /\ Due' = Pictures(log') /\ Sink' = "vid"
        BY <1>2, <3>1, <3>2 DEF Underway, NameOf, Due
      <4>3. Settled'
        BY <2>2, <3>1, <4>2, Zenon DEF Settled, Piped
      <4>. QED
        BY <4>1, <4>3, WaitsAlone
    <3>3. CASE Sink # "vid"
      <4>1. todo' = After'
        BY <1>2, <2>1, <2>3
      <4>2. Written'
        BY <1>2, <2>2, <3>1, <3>3, <4>1 DEF Written
      <4>. QED
        BY <4>2 DEF Stage
    <3>. QED
      BY <3>2, <3>3
  <2>4. CASE Flushing /\ Tail(todo) = Cons("let go out", Cons("reap out", Closed))
    <3>1. LettingGo'
      BY <1>2, <2>1, <2>2, <2>4, Zenon DEF Flushing, LettingGo, Cons
    <3>. QED
      BY <3>1 DEF Stage
  <2>. QED
    BY <1>1, <2>3, <2>4
<1>. QED
  BY <1>3, <1>4

LEMMA CloseOutStage ==
  ASSUME Going, CloseOut
  PROVE  Stage'
<1>1. /\ PipesTyped /\ todo # <<>> /\ todo \in Seq(AnyCall) /\ UNCHANGED <<scene, disk, name, log, i, hand>>
      /\ \/ Written /\ Tail(todo) = TopW
         \/ Settled /\ todo = EndW /\ Tail(todo) = ExitW
  <2>1. todo \in Seq(AnyCall)
    BY AnyCallIs DEF Going, SynthInv, CallsKnown
  <2>. QED
    BY <2>1, StageAt DEF Going, SynthTyped, CloseOut, At, sinkVars, loopVars
<1>2. CASE fp["out"] = "none"
  <2>1. todo' = Tail(todo) /\ UNCHANGED pipeVars
    BY <1>1, <1>2, ThenNone DEF CloseOut
  <2>2. Settled /\ Tail(todo) = ExitW
    BY <1>1, <1>2 DEF Written, Holds
  <2>3. Kept
    BY <1>2, <2>2 DEF Settled, Kept, Piped, Holds
  <2>4. Kept'
    BY <1>1, <2>1, <2>3, PipesSame, OutStays
  <2>. QED
    BY <2>1, <2>2, <2>4 DEF Leaving, Stage, ExitW
<1>3. CASE fp["out"] # "none"
  <2>1. Then(<<C("push"), C("let go out"), C("reap out")>>) /\ Flush
    BY <1>3, Zenon DEF CloseOut
  <2>2. Tail(todo) = Closed /\ Ending /\ Holds /\ pend = <<>> /\ Sent = Due
    <3>1. CASE Written /\ Tail(todo) = TopW
      BY <3>1 DEF Written, Ending, Underway, Closed
    <3>2. CASE Settled /\ Tail(todo) = ExitW
      <4>1. Sink = "vid" /\ log # <<>>
        BY <1>3, <3>2 DEF Settled, Piped, IdleOut
      <4>. QED
        BY <3>2, <4>1 DEF Settled, Ending, Closed, Due, Piped
    <3>. QED
      BY <1>1, <3>1, <3>2
  <2>3. todo' = Cons("push", Cons("let go out", Cons("reap out", Closed)))
    <3>1. todo' = <<C("push"), C("let go out"), C("reap out")>> \o Closed
      BY <2>1, <2>2, Zenon DEF Then
    <3>. QED
      BY <3>1, FlushWord, WordsAre, Zenon
  <2>4. Ending' /\ Due' = Due /\ Closed' = Closed
    BY <1>1, <2>2, UnderwayStays
  <2>5. Holds' /\ buf' = <<>>
    BY <2>1, <2>2 DEF Flush, Holds
  <2>6. Sent' = Sent
    <3>1. Sent = (got \o data["out"]) \o buf
      BY <1>1, <2>2, NothingPends
    <3>2. (got \o data["out"]) \o buf \in Seq(OutPart)
      <4>1. got \in Seq(OutPart) /\ data["out"] \in Seq(OutPart) /\ buf \in Seq(OutPart)
        BY <1>1 DEF PipesTyped
      <4>2. got \o data["out"] \in Seq(OutPart)
        BY <4>1, ConcatProperties, Zenon
      <4>. QED
        BY <4>1, <4>2, ConcatProperties, Zenon
    <3>3. ((got \o data["out"]) \o buf) \o <<>> = (got \o data["out"]) \o buf
      BY <3>2, ConcatEmptySeq, Zenon
    <3>4. Sent' = ((got \o data["out"]) \o buf) \o <<>>
      BY <2>1, Zenon DEF Flush, Sent
    <3>. QED
      BY <3>1, <3>3, <3>4, Zenon
  <2>7. Flushing'
    BY <2>2, <2>3, <2>4, <2>5, <2>6, Zenon DEF Flushing, Cons
  <2>. QED
    BY <2>7 DEF Stage
<1>. QED
  BY <1>2, <1>3

LEMMA LetGoOutStage ==
  ASSUME Going, LetGoOut
  PROVE  Stage'
<1>1. /\ PipesTyped /\ LettingGo /\ LetGo("out") /\ UNCHANGED <<scene, disk, name, log, hand>>
      /\ todo' = Cons("reap out", Closed)
  BY StageAt, ThenNone DEF Going, SynthTyped, LetGoOut, At, sinkVars, loopVars
<1>2. Ending' /\ Due' = Due /\ Closed' = Closed
  BY <1>1, UnderwayStays DEF LettingGo
<1>3. /\ fp'["out"] = "none" /\ data'["out"] = data["out"]
      /\ UNCHANGED <<child, got, buf, pend>>
  BY <1>1 DEF LetGo, PipesTyped, Ends, LettingGo, Holds
<1>4. LetGone' /\ Sent' = Sent
  BY <1>1, <1>3 DEF LettingGo, Holds, LetGone, Sent, PipesTyped, Ends
<1>5. Reaping'
  BY <1>1, <1>2, <1>4, Zenon DEF LettingGo, Reaping, Cons
<1>. QED
  BY <1>5 DEF Stage

LEMMA StoredMore ==
  ASSUME NEW n \in Nat, Len(log) = n + 1, Stored(n), UNCHANGED <<scene, log>>,
         name = NameOf(log[n + 1].id), got = Cut(log[n + 1].sample),
         disk' = [m \in DOMAIN disk \cup {name} |-> IF m = name THEN got ELSE disk[m]]
  PROVE  Stored(n + 1)'
<1>1. There' = There /\ log' = log /\ \A id : NameOf(id)' = NameOf(id)
  BY SinkStays
<1>2. DOMAIN disk' = DOMAIN disk \cup {name} /\ disk'[name] = got
  OBVIOUS
<1>3. \A m \in DOMAIN disk : m # name => disk'[m] = disk[m]
  OBVIOUS
<1>4. DOMAIN disk = There \cup {NameOf(log[j].id) : j \in 1 .. n}
  BY Zenon DEF Stored
<1>5. \A j \in 1 .. n + 1 : (NameOf(log[j].id))' = NameOf(log[j].id)
  BY <1>1 DEF NameOf
<1>6. DOMAIN disk' = There' \cup {NameOf(log[j].id) : j \in 1 .. n + 1}'
  <2>1. {NameOf(log[j].id) : j \in 1 .. n + 1}' = {NameOf(log[j].id) : j \in 1 .. n + 1}
    BY <1>5
  <2>2. \A j : j \in 1 .. n + 1 <=> j \in 1 .. n \/ j = n + 1
    OBVIOUS
  <2>3. {NameOf(log[j].id) : j \in 1 .. n + 1} = {NameOf(log[j].id) : j \in 1 .. n} \cup {name}
    BY <2>2, Zenon
  <2>. QED
    BY <1>1, <1>2, <1>4, <2>1, <2>3, Zenon
<1>7. ASSUME NEW j \in 1 .. n + 1
      PROVE  \/ disk'[(NameOf(log[j].id))'] = Cut(log'[j].sample)
             \/ \E l \in (j + 1) .. n + 1 : (NameOf(log[l].id))' = (NameOf(log[j].id))'
  <2>1. CASE j = n + 1
    BY <2>1, <1>1, <1>2, <1>5, Zenon
  <2>2. CASE j # n + 1
    <3>1. j \in 1 .. n /\ n + 1 \in (j + 1) .. n + 1 /\ n + 1 \in 1 .. n + 1
      BY <2>2
    <3>2. CASE NameOf(log[j].id) = name
      <4>1. (NameOf(log[n + 1].id))' = (NameOf(log[j].id))'
        BY <3>1, <3>2, <1>5
      <4>. QED
        BY <3>1, <4>1, Zenon
    <3>3. CASE NameOf(log[j].id) # name
      <4>1. \/ disk[NameOf(log[j].id)] = Cut(log[j].sample)
            \/ \E l \in (j + 1) .. n : NameOf(log[l].id) = NameOf(log[j].id)
        BY <3>1, Zenon DEF Stored
      <4>2. disk'[NameOf(log[j].id)] = disk[NameOf(log[j].id)]
        BY <1>3, <1>4, <3>1, <3>3, Zenon
      <4>3. \A l \in (j + 1) .. n : l \in (j + 1) .. n + 1 /\ l \in 1 .. n + 1
        BY <3>1
      <4>. QED
        BY <1>1, <1>5, <4>1, <4>2, <4>3, Zenon
    <3>. QED
      BY <3>2, <3>3
  <2>. QED
    BY <2>1, <2>2
<1>. QED
  BY <1>6, <1>7, Zenon DEF Stored

LEMMA ReapOutStage ==
  ASSUME Going, ReapOut
  PROVE  Stage'
<1>1. /\ PipesTyped /\ log \in Seq(Logged) /\ Reaping /\ Reap("out") /\ UNCHANGED <<scene, name, log, hand>>
      /\ todo' = Closed
      /\ disk' = [n \in DOMAIN disk \cup {name} |-> IF n = name THEN got ELSE disk[n]]
  BY StageAt, ThenNone DEF Going, SynthTyped, MainTyped, ReapOut, At, loopVars
<1>2. Ending /\ LetGone /\ Sent = Due
  BY <1>1 DEF Reaping
<1>3. child["out"] # "runs" /\ child'["out"] = "none" /\ UNCHANGED <<fp, data, pend, buf>>
  BY <1>1 DEF Reap, PipesTyped, Ends
<1>4. data["out"] = <<>> /\ IdleOut'
  BY <1>2, <1>3 DEF LetGone, IdleOut
<1>5. got = Due
  BY <1>1, <1>2, <1>4, NothingPends DEF LetGone
<1>6. Sink' = Sink
  BY <1>1, SinkStays
<1>7. CASE Sink = "vid"
  <2>1. name = <<>> /\ Due = Pictures(log) /\ Pictures(log)' = Pictures(log)
    BY <1>1, <1>2, <1>7 DEF Ending, Due, Pictures
  <2>2. disk'[<<>>] = Pictures(log)'
    BY <1>1, <1>5, <2>1
  <2>3. Kept' /\ todo' = ExitW
    BY <1>1, <1>6, <1>7, <2>2 DEF Kept, Closed, Piped
  <2>. QED
    BY <2>3 DEF Leaving, Stage, ExitW
<1>8. CASE Sink # "vid"
  <2>1. /\ Underway /\ Due = Cut(hand.sample) /\ todo' = TopW /\ Sink \in {"dir", "pic"}
        /\ log # <<>> /\ name = NameOf(hand.id) /\ log[Len(log)] = hand /\ Stored(Len(log) - 1)
    BY <1>1, <1>2, <1>8 DEF Ending, Underway, Due, Closed, Piped
  <2>2. PICK n \in Nat : Len(log) = n + 1 /\ Len(log) - 1 = n
    <3>1. Len(log) - 1 \in Nat /\ Len(log) = (Len(log) - 1) + 1
      BY <1>1, <2>1
    <3>. QED
      BY <3>1
  <2>3. Stored(n) /\ log[n + 1] = hand
    BY <2>1, <2>2
  <2>4. Stored(n + 1)'
    BY <1>1, <1>5, <2>1, <2>2, <2>3, StoredMore
  <2>5. Stored(Len(log))'
    BY <1>1, <2>2, <2>4
  <2>6. Settled'
    BY <1>4, <1>6, <2>1, <2>5 DEF Settled, Piped
  <2>7. TopW \in Rests
    BY DEF Rests
  <2>. QED
    BY <2>1, <2>6, <2>7, WaitsAlone
<1>. QED
  BY <1>7, <1>8

LEMMA ExitStage ==
  ASSUME Going, Exit
  PROVE  Aborts \/ (at' = "ended" /\ Kept')
<1>1. Leaving
  BY StageAt DEF Exit
<1>2. CASE ~ Aborts
  <2>1. at' = "ended" /\ UNCHANGED <<scene, disk, name, log, i>> /\ UNCHANGED pipeVars
    BY <1>2, Zenon DEF Exit, sinkVars, loopVars
  <2>. QED
    BY <1>1, <2>1, PipesSame, OutStays DEF Leaving
<1>. QED
  BY <1>2

LEMMA ChildrenKeep ==
  ASSUME PipesTyped, ReaderChild \/ WriterChild \/ UNCHANGED vars
  PROVE  SinkSame /\ UNCHANGED <<at, todo, hand, deaths>>
<1>1. UNCHANGED <<scene, disk, name, log, i, pend, buf, at, todo, hand, deaths>>
  BY DEF ReaderChild, WriterChild, ChildWrites, ReaderEnds, ChildReads, WriterEnds, mainVars, vars, pipeVars
<1>2. CASE UNCHANGED vars
  BY <1>1, <1>2, PipesSame, OutStays DEF vars
<1>3. CASE ReaderChild
  <2>1. UNCHANGED got /\ fp'["out"] = fp["out"] /\ child'["out"] = child["out"] /\ data'["out"] = data["out"]
    BY <1>3 DEF ReaderChild, ChildWrites, ReaderEnds, Exits, PipesTyped, Ends
  <2>2. "main" \in writers["out"] => "main" \in writers'["out"]
    BY <1>3 DEF ReaderChild, ChildWrites, ReaderEnds, Exits, Without, PipesTyped, Ends
  <2>3. OutSame
    BY <1>1, <2>1, <2>2 DEF OutSame
  <2>. QED
    BY <1>1, <2>3, OutStays
<1>4. CASE WriterChild /\ ChildReads
  <2>1. /\ child["out"] = "runs" /\ data["out"] # <<>> /\ UNCHANGED <<fp, writers, child>>
        /\ got' = Append(got, Head(data["out"])) /\ data'["out"] = Tail(data["out"])
    BY <1>4 DEF ChildReads, PipesTyped, Ends
  <2>2. got \in Seq(OutPart) /\ data["out"] \in Seq(OutPart)
    BY DEF PipesTyped
  <2>3. Append(got, Head(data["out"])) \o Tail(data["out"]) = got \o data["out"]
    BY <2>1, <2>2, MoveHead, Zenon
  <2>4. Sent' = Sent
    BY <1>1, <2>1, <2>3, Zenon DEF Sent
  <2>5. ~ IdleOut /\ (Holds => Holds') /\ (LetGone => LetGone')
    BY <1>1, <2>1 DEF IdleOut, Holds, LetGone
  <2>. QED
    BY <1>1, <2>4, <2>5 DEF SinkSame
<1>5. CASE WriterChild /\ WriterEnds
  <2>1. /\ child["out"] = "runs" /\ data["out"] = <<>> /\ writers["out"] = {} /\ UNCHANGED <<fp, data, got>>
    BY <1>5 DEF WriterEnds
  <2>2. ~ IdleOut /\ ~ Holds /\ (LetGone => LetGone')
    BY <1>1, <2>1 DEF IdleOut, Holds, LetGone, PipesTyped, Ends
  <2>3. Sent' = Sent
    BY <1>1, <2>1 DEF Sent
  <2>. QED
    BY <1>1, <2>2, <2>3 DEF SinkSame
<1>. QED
  BY <1>2, <1>3, <1>4, <1>5 DEF WriterChild

LEMMA MainStage ==
  ASSUME Going, MainStep
  PROVE  at' \in {"error", "aborted"} \/ (at' = "ended" /\ Kept') \/ (at' = "runs" /\ Stage')
<1>1. Aborts => at' = "aborted"
  BY DEF Aborts
<1>2. at = "runs"
  BY DEF Going
<1>3. CASE MakeSink \/ Top \/ OpenIn \/ Read \/ CloseIn \/ ReapIn
  <2>1. at' = "runs" \/ at' = "error"
    BY <1>2, <1>3, Zenon DEF MakeSink, Top, OpenIn, Read, CloseIn, ReapIn
  <2>. QED
    BY <1>3, <2>1, MakeSinkStage, TopStage, OpenInStage, ReadStage, CloseInStage, ReapInStage
<1>4. CASE PickSample \/ PickRef \/ PickFrame \/ ReadEof \/ SigPipe
  <2>1. at' = "runs" \/ Aborts
    BY <1>2, <1>4, Zenon DEF PickSample, PickRef, PickFrame, ReadEof, SigPipe
  <2>2. Aborts \/ Stage'
    BY <1>4, PickSampleStage, PickRefStage, PickFrameStage, ReadEofStage DEF SigPipe
  <2>. QED
    BY <1>1, <2>1, <2>2
<1>5. CASE PlacePicture \/ PlacePlain \/ OpenOut \/ Write \/ Push \/ CloseOut \/ LetGoOut \/ ReapOut
  <2>1. at' = "runs"
    BY <1>2, <1>5, Zenon DEF PlacePicture, PlacePlain, OpenOut, Write, Push, CloseOut, LetGoOut, ReapOut
  <2>. QED
    BY <1>5, <2>1, PlacePictureStage, PlacePlainStage, OpenOutStage, WriteStage, PushStage, CloseOutStage,
       LetGoOutStage, ReapOutStage
<1>6. CASE Exit
  BY <1>1, <1>6, ExitStage
<1>7. ~ Start /\ ~ FindPair
  <2>1. ~ Start
    BY <1>2 DEF Start
  <2>2. ~ FindPair
    <3>. SUFFICES ASSUME FindPair PROVE FALSE
      OBVIOUS
    <3>1. Head(todo) \in Calls("synth") /\ Head(todo).call = "find"
      BY CalledFor DEF Going, FindPair, At
    <3>. QED
      BY <3>1 DEF Calls
  <2>. QED
    BY <2>1, <2>2
<1>. QED
  BY <1>3, <1>4, <1>5, <1>6, <1>7 DEF MainStep

LEMMA SceneStays ==
  ASSUME [Next]_vars
  PROVE  scene' = scene /\ (deaths' = deaths \/ (Death /\ deaths' = deaths + 1))
<1>1. CASE MainStep
  <2>1. CASE Start \/ Top \/ PickFrame \/ PlacePicture \/ PlacePlain \/ UNCHANGED vars
    BY <2>1, Zenon DEF Start, Top, PickFrame, PlacePicture, PlacePlain, pipeVars, vars, mainVars
  <2>2. CASE Aborts
    BY <2>2 DEF Aborts, MainDies
  <2>3. CASE ~ Aborts /\ (PickSample \/ PickRef \/ ReadEof \/ SigPipe \/ Exit \/ FindPair)
    BY <2>3, Zenon DEF PickSample, PickRef, ReadEof, SigPipe, Exit, FindPair, pipeVars
  <2>4. CASE MakeSink \/ OpenIn \/ Read \/ CloseIn \/ ReapIn
    <3>1. scene' = scene
      BY <2>4, Zenon DEF MakeSink, OpenIn, Read, CloseIn, ReapIn
    <3>2. deaths' = deaths
      BY <2>4, Zenon DEF MakeSink, OpenIn, Read, CloseIn, ReapIn, MainDies, OpenReader, OpenReaderFile, TakePart,
                  LetGo, Reap, pipeVars
    <3>. QED
      BY <3>1, <3>2
  <2>5. CASE OpenOut \/ Write \/ Push \/ CloseOut \/ LetGoOut \/ ReapOut
    <3>1. scene' = scene
      BY <2>5, Zenon DEF OpenOut, Write, Push, CloseOut, LetGoOut, ReapOut
    <3>2. deaths' = deaths
      BY <2>5, Zenon DEF OpenOut, Write, Push, CloseOut, LetGoOut, ReapOut, OpenWriter, OpenWriterFile, Save,
                  PushPart, Flush, LetGo, Reap, pipeVars
    <3>. QED
      BY <3>1, <3>2
  <2>. QED
    BY <1>1, <2>1, <2>2, <2>3, <2>4, <2>5 DEF MainStep
<1>2. CASE ReaderChild \/ WriterChild \/ UNCHANGED vars
  BY <1>2, Zenon DEF ReaderChild, WriterChild, ChildWrites, ReaderEnds, ChildReads, WriterEnds, vars, mainVars, pipeVars
<1>3. CASE Death
  BY <1>3 DEF Death, ChildDies, mainVars
<1>. QED
  BY <1>1, <1>2, <1>3 DEF Next

LEMMA DeliverNext == SynthInv /\ SynthTyped /\ DeliverInv /\ [Next]_vars => DeliverInv'
<1>. SUFFICES ASSUME SynthInv, SynthTyped, DeliverInv, [Next]_vars, scene'.cmd = "synth", deaths' = 0
              PROVE  /\ at' = "starts" => Settled'
                     /\ at' = "runs" => Stage'
                     /\ at' = "ended" => Kept'
  BY DEF DeliverInv
<1>1. PipesTyped /\ deaths \in Nat
  BY DEF SynthTyped, PipesTyped
<1>2. ~ Death /\ deaths = 0 /\ scene.cmd = "synth"
  <2>1. deaths + 1 # 0
    BY <1>1
  <2>2. Death => deaths' = deaths + 1
    BY DEF Death, ChildDies
  <2>. QED
    BY <2>1, <2>2, SceneStays
<1>3. (at = "starts" => Settled) /\ (at = "runs" => Stage) /\ (at = "ended" => Kept)
  BY <1>2 DEF DeliverInv
<1>4. CASE ReaderChild \/ WriterChild \/ UNCHANGED vars
  BY <1>1, <1>3, <1>4, ChildrenKeep, SinkKeeps, StageKeeps
<1>5. CASE MainStep /\ at = "runs"
  <2>1. Going
    BY <1>2, <1>3, <1>5 DEF Going
  <2>. QED
    BY <1>5, <2>1, MainStage
<1>6. CASE Start
  <2>1. at = "starts" /\ (at' = "error" \/ at' = "runs")
    BY <1>6 DEF Start
  <2>. QED
    BY <1>2, <1>3, <1>6, <2>1, StartStage
<1>7. MainStep => Start \/ at = "runs"
  BY Zenon DEF MainStep, At, Reading, MakeSink, Top, PickSample, PickRef, PickFrame, OpenIn, Read, ReadEof, CloseIn, ReapIn,
     PlacePicture, PlacePlain, OpenOut, Write, Push, SigPipe, CloseOut, LetGoOut, ReapOut, Exit, FindPair
<1>. QED
  BY <1>2, <1>4, <1>5, <1>6, <1>7 DEF Next

LEMMA InitDelivers == Init => SynthTyped /\ DeliverInv
<1>. SUFFICES ASSUME Init PROVE SynthTyped /\ DeliverInv
  OBVIOUS
<1>1. PipesInit /\ log = <<>> /\ i = 0 /\ at = "starts" /\ dat = <<>> /\ frames = 0 /\ name = <<>>
  BY DEF Init
<1>2. disk = [n \in There |-> Was] /\ hand = [sample |-> NoSample, id |-> NoSample]
  BY DEF Init
<1>3. SynthTyped
  <2>1. NoSample \in Sample
    BY DEF NoSample, Sample
  <2>2. hand \in Logged
    BY <1>2, <2>1 DEF Logged
  <2>3. dat \in Seq(Nat) /\ frames \in Nat /\ log \in Seq(Logged)
    <3>1. \A T : <<>> \in Seq(T)
      OBVIOUS
    <3>. QED
      BY <1>1, <3>1
  <2>. QED
    BY <1>1, <2>2, <2>3, InitTyped DEF SynthTyped, MainTyped
<1>4. IdleOut
  BY <1>1 DEF PipesInit, IdleOut, Ends
<1>5. DOMAIN disk = There /\ \A n \in There : disk[n] = Was
  BY <1>2
<1>6. Len(log) = 0 /\ ~ (0 > 0) /\ 1 .. 0 = {}
  BY <1>1
<1>7. Stored(Len(log))
  BY <1>5, <1>6 DEF Stored
<1>8. Appended
  <2>1. Sink \in {"u8", "ref"} => Was = <<NoSample>>
    BY DEF Was
  <2>. QED
    BY <1>1, <1>5, <1>6, <2>1 DEF Appended, There
<1>9. Settled
  BY <1>1, <1>4, <1>7, <1>8 DEF Settled
<1>. QED
  BY <1>1, <1>3, <1>9 DEF DeliverInv

LEMMA KeptIsDelivered == SynthTyped /\ DeliverInv => Delivered
<1>. SUFFICES ASSUME SynthTyped, DeliverInv, at = "ended", scene.cmd = "synth", deaths = 0 PROVE Delivered
  BY DEF Delivered
<1>1. Kept
  BY DEF DeliverInv
<1>2. CASE Sink = "vid"
  BY <1>1, <1>2 DEF Kept, Delivered, Pictures, Piped
<1>3. CASE Sink \in {"dir", "pic"}
  BY <1>1, <1>3 DEF Kept, Delivered, Stored
<1>4. CASE Sink \in {"u8", "ref"}
  <2>1. Appended
    BY <1>1, <1>4 DEF Kept, Piped
  <2>. QED
    BY <1>4, <2>1 DEF Delivered, Appended, Before
<1>. QED
  BY <1>2, <1>3, <1>4 DEF Delivered

(***************************************************************************)
(* Whatever the source and the options, however main and its children take *)
(* turns, and with any number of parts and any pipe: when a synth command  *)
(* has ended, and no child died before its end, its sink has what was      *)
(* placed, whole and in order.  At every moment the parts that the         *)
(* Picwriter was given are with the child, in the pipe, on their way or in *)
(* its buffer, in this order, and main lets the pipe go with nothing on    *)
(* its way.                                                                *)
(***************************************************************************)
THEOREM AlwaysDelivered == Spec => []Delivered
<1>1. SynthInv /\ SynthTyped /\ DeliverInv /\ [Next]_vars => SynthTyped'
  BY NextInv, PipesNext, MainNext DEF SynthTyped
<1>. QED
  BY InitInv, InitDelivers, NextInv, <1>1, DeliverNext, KeptIsDelivered, PTL DEF Spec

-----------------------------------------------------------------------------
(***************************************************************************)
(* The source's end, of a video that becomes a video, both through pipes.  *)
(* The first pass over it is the only one whose reader the writer's child  *)
(* inherits; r pictures of it have not been read to their end.  After it   *)
(* the reader has nothing to write, or the writer's child was there before.*)
(***************************************************************************)
Both == scene.cmd = "synth" /\ Source = "vid" /\ Sink = "vid" /\ ~ scene.src.plain /\ ~ scene.out.plain
Under == scene.limit >= 0 => i < scene.limit
UpTo == scene.limit >= 0 => i <= scene.limit

Opened(r) ==
  /\ fp["in"] = "pipe" /\ "main" \in readers["in"]
  /\ IF child["in"] = "runs" THEN "in" \in writers["in"] ELSE left = <<>>
  /\ Len(data["in"]) <= PipeN
  /\ have + Len(left) + Len(data["in"]) = Parts * r
First(r) == Opened(r) /\ (fp["out"] # "none" => "out" \in readers["in"])
Spent == ~ CutShort /\ left = <<>>
Again == ~ CutShort /\ "out" \notin readers["in"] /\ log # <<>>
Ahead(r) == First(r) \/ Spent \/ Again

\* The pictures after the one that was read last, or is in hand.
ToCome == scene.frames - 1 - i

\* The limit has cut the first pass short, and main waits for the reader.
Hanging ==
  /\ i = scene.limit
  /\ Len(data["in"]) <= PipeN /\ Len(left) + Len(data["in"]) = Parts * ToCome
  /\ CutShort => child["in"] = "runs" /\ "out" \in readers["in"]

SinkW == Cons("sink", TopW)
LastW == Cons("close in", EndW)
ReopenW(w) == Cons("open in", Cons("first", w))

\* The calls after a first frame, and what holds of them before it.
MayOpen(w) ==
  \/ w = SinkW /\ log = <<>>
  \/ w = PlaceW /\ Under /\ ~ CutShort /\ (log = <<>> => scene.frames = 1)
  \/ w = LastW /\ ~ CutShort /\ log # <<>>
MayRead(w) ==
  \/ w = SinkW /\ log = <<>> /\ First(scene.frames)
  \/ w = PlaceW /\ Under /\ (Again \/ (~ CutShort /\ log = <<>> /\ scene.frames = 1 /\ First(1)))
  \/ w = LastW /\ Again

AtOpen == At("open in") /\ \E w \in {SinkW, PlaceW, LastW} : Tail(todo) = Cons("first", w) /\ MayOpen(w)
AtFirst == At("first") /\ \E w \in {SinkW, PlaceW, LastW} : Tail(todo) = w /\ MayRead(w)
AtSink == At("sink") /\ Tail(todo) = TopW /\ log = <<>> /\ First(scene.frames - 1)
AtTurn ==
  /\ (At("top") /\ UpTo) \/ (At("pick") /\ Under) \/ (At("next") /\ Tail(todo) = PlaceW /\ Under)
  /\ IF log = <<>> THEN First(ToCome) ELSE Ahead(ToCome)
AtReopen ==
  /\ At("close in") \/ At("reap in")
  /\ Tail(todo) = PlaceW \/ Tail(todo) = ReopenW(PlaceW)
  /\ Under /\ (Spent \/ Again) /\ (log = <<>> => scene.frames = 1)
AtClose == At("close in") /\ Tail(todo) = EndW /\ ((First(ToCome) /\ i = scene.limit) \/ Spent \/ Again)
AtReap == At("reap in") /\ Tail(todo) = EndW /\ (Hanging \/ Spent \/ Again)
AtPlace == At("place") /\ Under /\ Ahead(ToCome - 1)
AtOut ==
  /\ UpTo
  /\ \/ At("open out") /\ (First(ToCome) \/ Spent)
     \/ (At("write") \/ (At("push") /\ Tail(todo) = TopW)) /\ Ahead(ToCome)
AtEnd ==
  /\ ~ CutShort
  /\ At("close out") \/ (At("push") /\ Tail(todo) # TopW) \/ At("let go out") \/ At("reap out") \/ At("exit")

VidAt == AtOpen \/ AtFirst \/ AtSink \/ AtTurn \/ AtReopen \/ AtClose \/ AtReap \/ AtPlace \/ AtOut \/ AtEnd

Whole == todo # <<>> /\ Head(todo).call \notin {"first", "next"} => have = 0
VidInv ==
  Both /\ deaths = 0 =>
     /\ i = Len(log)
     /\ at = "starts" => log = <<>> /\ have = 0
     /\ at = "runs" => Whole /\ VidAt
     /\ at = "ended" => ~ CutShort
HaveInv == have \in Nat /\ have < Parts

Fit(s) ==
  /\ \A k \in 1 .. Len(s) : s[k].call \notin {"first", "next"}
  /\ \A k \in 1 .. Len(s) - 1 : s[k].call = "open in" <=> s[k + 1].call = "pic"
  /\ s # <<>> => s[Len(s)].call # "open in"
NoneLeft == have = 0 /\ left = <<>> /\ data["in"] = <<>>
PicInv ==
  scene.cmd = "synth" /\ Source # "vid" =>
     /\ at = "starts" => todo = <<>> /\ NoneLeft
     /\ at = "runs" =>
          /\ Fit(todo)
          /\ IF todo # <<>> /\ Head(todo).call = "pic"
             THEN have + Len(left) + Len(data["in"]) = Parts
             ELSE NoneLeft
PlainInv ==
  /\ Sink = "vid" /\ scene.out.plain => fp["out"] # "pipe"
  /\ Source = "vid" /\ scene.src.plain => child["in"] = "none"
PairCall == {c \in AnyCall : c.call \notin {"place", "open out"}}
PairInv == scene.cmd = "pairs" => child["out"] = "none" /\ todo \in Seq(PairCall)

-----------------------------------------------------------------------------
(* Words.                                                                  *)

LEMMA VidWords ==
  /\ SinkW \in Seq(AnyCall) /\ LastW \in Seq(AnyCall)
  /\ Head(SinkW).call = "sink" /\ Tail(SinkW) = TopW
  /\ Head(LastW).call = "close in" /\ Tail(LastW) = EndW
  /\ \A w \in Seq(AnyCall) : ReopenW(w) \in Seq(AnyCall) /\ Cons("first", w) \in Seq(AnyCall)
  /\ LoadVid \o <<C("sink"), C("top")>> = ReopenW(SinkW)
  /\ LoadVid \o Finish = ReopenW(LastW) /\ LoadVid \o PlaceW = ReopenW(PlaceW)
  /\ Finish = LastW
  /\ (<<C("close in")>> \o LoadVid) \o PlaceW = Cons("close in", ReopenW(PlaceW))
<1>1. SinkW \in Seq(AnyCall) /\ Head(SinkW).call = "sink" /\ Tail(SinkW) = TopW
  <2>1. PICK t \in Seq(AnyCall) : t = TopW
    BY WordsAre, Zenon
  <2>. QED
    BY <2>1, ConsIs DEF SinkW
<1>2. LastW \in Seq(AnyCall) /\ Head(LastW).call = "close in" /\ Tail(LastW) = EndW
  <2>1. PICK t \in Seq(AnyCall) : t = EndW
    BY WordsAre, Zenon
  <2>. QED
    BY <2>1, ConsIs DEF LastW
<1>3. ASSUME NEW w \in Seq(AnyCall) PROVE ReopenW(w) \in Seq(AnyCall) /\ Cons("first", w) \in Seq(AnyCall)
  BY ConsIs DEF ReopenW
<1>4. Finish = LastW
  BY FinishIs, Zenon DEF LastW, Cons
<1>5. <<C("sink"), C("top")>> = SinkW
  BY TwoCalls, Zenon DEF SinkW, Cons
<1>6. ASSUME NEW w \in Seq(AnyCall) PROVE LoadVid \o w = ReopenW(w)
  <2>1. C("open in") \in AnyCall /\ C("first") \in AnyCall
    BY CallIs
  <2>2. <<C("open in"), C("first")>> \o w = <<C("open in")>> \o (<<C("first")>> \o w)
    <3>1. PICK a \in AnyCall, b \in AnyCall : a = C("open in") /\ b = C("first")
      BY <2>1, Zenon
    <3>2. <<a, b>> \o w = <<a>> \o (<<b>> \o w)
      BY Twice
    <3>. QED
      BY <3>1, <3>2, Zenon
  <2>. QED
    BY <2>2, Zenon DEF LoadVid, ReopenW, Cons
<1>7. PlaceW \in Seq(AnyCall)
  BY WordsAre
<1>8. (<<C("close in")>> \o LoadVid) \o PlaceW = <<C("close in")>> \o (LoadVid \o PlaceW)
  <2>1. Seq(InCall) \subseteq Seq(AnyCall)
    BY AnyCallIs, SeqMonotonic
  <2>2. PICK p \in Seq(AnyCall), q \in Seq(AnyCall) : p = <<C("close in")>> /\ q = LoadVid
    BY <2>1, VidCalls, Zenon
  <2>3. (p \o q) \o PlaceW = p \o (q \o PlaceW)
    BY <1>7, ConcatAssociative
  <2>. QED
    BY <2>2, <2>3, Zenon
<1>9. (<<C("close in")>> \o LoadVid) \o PlaceW = Cons("close in", ReopenW(PlaceW))
  BY <1>6, <1>7, <1>8, Zenon DEF Cons
<1>10. LoadVid \o <<C("sink"), C("top")>> = ReopenW(SinkW) /\ LoadVid \o Finish = ReopenW(LastW)
       /\ LoadVid \o PlaceW = ReopenW(PlaceW)
  BY <1>1, <1>2, <1>4, <1>5, <1>6, <1>7, Zenon
<1>. QED
  BY <1>1, <1>2, <1>3, <1>4, <1>9, <1>10, Zenon

\* Main comes to a call.
LEMMA ComesTo ==
  ASSUME at' = "runs", NEW w \in Seq(AnyCall),
         NEW c \in {"open in", "pic", "close in", "first", "next", "sink", "top", "pick", "place", "open out",
                    "write", "push", "close out", "let go out", "reap in", "reap out", "exit", "find"},
         todo' = Cons(c, w)
  PROVE  At(c)' /\ Tail(todo') = w /\ todo' # <<>> /\ Head(todo').call = c
<1>1. Cons(c, w) # <<>> /\ Head(Cons(c, w)).call = c /\ Tail(Cons(c, w)) = w
  BY ConsIs
<1>2. todo' # <<>> /\ Head(todo').call = c /\ Tail(todo') = w
  BY <1>1, Zenon
<1>. QED
  BY <1>2 DEF At

\* Main comes to one of the words.
LEMMA ComesToWord ==
  ASSUME at' = "runs"
  PROVE  /\ todo' = SinkW => At("sink")' /\ Tail(todo') = TopW
         /\ todo' = LastW => At("close in")' /\ Tail(todo') = EndW
         /\ todo' = TopW => At("top")'
         /\ todo' = PickW => At("pick")'
         /\ todo' = PlaceW => At("place")'
         /\ todo' = EndW => At("close out")'
         /\ todo' = ExitW => At("exit")'
<1>1. /\ SinkW # <<>> /\ LastW # <<>> /\ TopW # <<>> /\ PickW # <<>> /\ PlaceW # <<>> /\ EndW # <<>>
  <2>1. TopW # <<>> /\ PickW # <<>> /\ PlaceW # <<>> /\ EndW # <<>>
    BY WordsAre DEF Rests
  <2>2. PICK t \in Seq(AnyCall), e \in Seq(AnyCall) : t = TopW /\ e = EndW
    BY WordsAre, Zenon
  <2>3. SinkW # <<>>
    BY <2>2, ConsIs DEF SinkW
  <2>4. LastW # <<>>
    BY <2>2, ConsIs DEF LastW
  <2>. QED
    BY <2>1, <2>3, <2>4
<1>2. ExitW # <<>>
  BY CallIs, Strings DEF ExitW
<1>. QED
  BY <1>1, <1>2, WordsAre, VidWords DEF At

LEMMA LessOne ==
  ASSUME NEW p \in Nat, NEW r \in Int
  PROVE  p * (r - 1) = p * r - p /\ p * r \in Int
OBVIOUS

-----------------------------------------------------------------------------
(* Steps and the source's end.                                             *)

\* A step that leaves the source and its pipe alone.
InSame ==
  /\ UNCHANGED <<scene, have, left, log, i>>
  /\ fp' = fp
  /\ readers'["in"] = readers["in"] /\ writers'["in"] = writers["in"]
  /\ child'["in"] = child["in"] /\ data'["in"] = data["in"]

LEMMA SceneIs ==
  ASSUME SynthInv
  PROVE  /\ scene.frames \in Nat /\ scene.limit \in Int
         /\ scene.cmd \in {"synth", "pairs"}
BY SceneAssumption DEF SynthInv

LEMMA BothStays ==
  ASSUME UNCHANGED scene
  PROVE  Both' = Both /\ CutShort' = CutShort /\ Source' = Source /\ Sink' = Sink
BY DEF Both, CutShort, Source, Sink

LEMMA InStays ==
  ASSUME InSame
  PROVE  /\ Both' = Both /\ CutShort' = CutShort /\ Under' = Under /\ UpTo' = UpTo /\ ToCome' = ToCome
         /\ Spent' = Spent /\ Again' = Again /\ Hanging' = Hanging
         /\ \A r : First(r)' = First(r)
         /\ First(ToCome)' = First(ToCome) /\ Ahead(ToCome)' = Ahead(ToCome) /\ Ahead(ToCome - 1)' = Ahead(ToCome - 1)
         /\ First(scene.frames)' = First(scene.frames) /\ First(scene.frames - 1)' = First(scene.frames - 1)
         /\ First(1)' = First(1)
<1>1. Both' = Both /\ CutShort' = CutShort
  BY BothStays DEF InSame
<1>2. Under' = Under /\ UpTo' = UpTo /\ ToCome' = ToCome
  BY DEF InSame, Under, UpTo, ToCome
<1>3. Spent' = Spent /\ Again' = Again /\ Hanging' = Hanging
  BY <1>1, <1>2 DEF InSame, Spent, Again, Hanging
<1>4. ASSUME NEW r PROVE First(r)' = First(r)
  BY DEF InSame, First, Opened
<1>5. /\ First(ToCome)' = First(ToCome) /\ Ahead(ToCome)' = Ahead(ToCome) /\ Ahead(ToCome - 1)' = Ahead(ToCome - 1)
  BY <1>2, <1>3 DEF InSame, First, Opened, Ahead
<1>6. First(scene.frames)' = First(scene.frames) /\ First(scene.frames - 1)' = First(scene.frames - 1) /\ First(1)' = First(1)
  BY DEF InSame, First, Opened
<1>. QED
  BY <1>1, <1>2, <1>3, <1>4, <1>5, <1>6

LEMMA ChildrenPass ==
  ASSUME PipesTyped, HaveInv, ReaderChild \/ WriterChild, fp["out"] = "none" \/ Holds, NEW r, First(r)
  PROVE  First(r)'
<1>0. /\ data["in"] \in Seq(InPart) /\ left \in Seq(InPart) /\ data = [e \in Ends |-> data[e]]
      /\ "in" \in Ends /\ "out" \in Ends
      /\ Len(data["in"]) \in Nat /\ Len(left) \in Nat
  BY DEF PipesTyped, Ends
<1>1. have' = have /\ fp' = fp /\ have \in Nat
  BY DEF ReaderChild, WriterChild, mainVars, ChildWrites, ReaderEnds, ChildReads, WriterEnds, HaveInv
<1>2. CASE ReaderChild /\ ChildWrites
  <2>1. /\ child["in"] = "runs" /\ left # <<>> /\ Len(data["in"]) < PipeN
        /\ data'["in"] = Append(data["in"], Head(left)) /\ left' = Tail(left)
        /\ UNCHANGED <<readers, writers, child>>
    BY <1>0, <1>2 DEF ChildWrites
  <2>2. Len(data'["in"]) = Len(data["in"]) + 1 /\ Len(left') = Len(left) - 1
    <3>1. PICK l \in Seq(InPart), d \in Seq(InPart) : l = left /\ d = data["in"]
      BY <1>0
    <3>2. Len(Tail(l)) = Len(l) - 1 /\ Head(l) \in InPart
      BY <2>1, <3>1
    <3>3. \A x \in InPart : Len(Append(d, x)) = Len(d) + 1
      OBVIOUS
    <3>. QED
      BY <2>1, <3>1, <3>2, <3>3
  <2>3. have + Len(left') + Len(data'["in"]) = have + Len(left) + Len(data["in"])
    BY <1>0, <1>1, <2>2
  <2>4. Len(data'["in"]) <= PipeN
    BY <1>0, <2>1, <2>2, PipeAssumption
  <2>. QED
    BY <1>1, <2>1, <2>3, <2>4 DEF First, Opened
<1>3. CASE ReaderChild /\ ReaderEnds
  <2>1. left = <<>> /\ UNCHANGED <<data, left>>
    BY <1>3 DEF ReaderEnds, First, Opened
  <2>2. child'["in"] # "runs"
    BY <1>0, <1>3 DEF ReaderEnds, Exits, PipesTyped
  <2>3. readers'["in"] = readers["in"] \ {"in"}
    BY <1>0, <1>3 DEF ReaderEnds, Exits, Without
  <2>. QED
    BY <1>1, <2>1, <2>2, <2>3 DEF First, Opened
<1>4. CASE WriterChild /\ ChildReads
  <2>1. data'["in"] = data["in"] /\ UNCHANGED <<readers, writers, child, left>>
    BY <1>0, <1>4 DEF ChildReads
  <2>. QED
    BY <1>1, <2>1 DEF First, Opened
<1>5. CASE WriterChild /\ WriterEnds
  <2>1. fp["out"] = "none" /\ UNCHANGED <<data, left>>
    BY <1>5 DEF WriterEnds, Holds, PipesTyped, Ends
  <2>2. child'["in"] = child["in"]
    BY <1>0, <1>5 DEF WriterEnds, Exits, PipesTyped
  <2>3. readers'["in"] = readers["in"] \ {"out"} /\ writers'["in"] = writers["in"] \ {"out"}
    BY <1>0, <1>5 DEF WriterEnds, Exits, Without
  <2>. QED
    BY <1>1, <2>1, <2>2, <2>3 DEF First, Opened
<1>. QED
  BY <1>2, <1>3, <1>4, <1>5 DEF ReaderChild, WriterChild

\* The children leave main's choice, and what is spent, as they are.
LEMMA ChildrenSpend ==
  ASSUME PipesTyped, ReaderChild \/ WriterChild
  PROVE  /\ UNCHANGED <<at, todo, scene, have, i, log>> /\ fp' = fp
         /\ Spent => Spent'
         /\ Again => Again'
<1>0. /\ data = [e \in Ends |-> data[e]] /\ "in" \in Ends /\ "out" \in Ends
  BY DEF PipesTyped, Ends
<1>1. UNCHANGED <<at, todo, scene, have, i, log>> /\ fp' = fp
  BY DEF ReaderChild, WriterChild, mainVars, ChildWrites, ReaderEnds, ChildReads, WriterEnds
<1>2. CutShort' = CutShort
  BY <1>1, BothStays
<1>3. left = <<>> => left' = left
  BY DEF ReaderChild, WriterChild, ChildWrites, ReaderEnds, ChildReads, WriterEnds
<1>4. readers' = readers \/ \E e \in Ends : readers' = Without(readers, e)
  BY <1>0 DEF ReaderChild, WriterChild, ChildWrites, ReaderEnds, ChildReads, WriterEnds, Exits
<1>5. "out" \notin readers["in"] => "out" \notin readers'["in"]
  BY <1>0, <1>4 DEF Without
<1>. QED
  BY <1>1, <1>2, <1>3, <1>5 DEF Spent, Again

\* While main waits for the reader of a pass cut short, both children go on waiting.
LEMMA ChildrenHang ==
  ASSUME PipesTyped, PipeAssumption, ReaderChild \/ WriterChild, Hanging, CutShort => Holds,
         ToCome \in Int, CutShort => Parts * ToCome > PipeN
  PROVE  Hanging'
<1>0. /\ data["in"] \in Seq(InPart) /\ left \in Seq(InPart) /\ data = [e \in Ends |-> data[e]]
      /\ "in" \in Ends /\ "out" \in Ends
      /\ Len(data["in"]) \in Nat /\ Len(left) \in Nat
  BY DEF PipesTyped, Ends
<1>1. UNCHANGED <<scene, i>> /\ ToCome' = ToCome /\ CutShort' = CutShort
  BY ChildrenSpend, BothStays DEF ToCome
<1>2. CASE ReaderChild /\ ChildWrites
  <2>1. /\ child["in"] = "runs" /\ left # <<>> /\ Len(data["in"]) < PipeN
        /\ data'["in"] = Append(data["in"], Head(left)) /\ left' = Tail(left)
        /\ UNCHANGED <<readers, child>>
    BY <1>0, <1>2 DEF ChildWrites
  <2>2. Len(data'["in"]) = Len(data["in"]) + 1 /\ Len(left') = Len(left) - 1
    <3>1. PICK l \in Seq(InPart), d \in Seq(InPart) : l = left /\ d = data["in"]
      BY <1>0
    <3>2. Len(Tail(l)) = Len(l) - 1 /\ Head(l) \in InPart
      BY <2>1, <3>1
    <3>3. \A x \in InPart : Len(Append(d, x)) = Len(d) + 1
      OBVIOUS
    <3>. QED
      BY <2>1, <3>1, <3>2, <3>3
  <2>3. Len(left') + Len(data'["in"]) = Len(left) + Len(data["in"])
    BY <1>0, <2>2
  <2>4. Len(data'["in"]) <= PipeN
    BY <1>0, <2>1, <2>2, PipeAssumption
  <2>. QED
    BY <1>1, <2>1, <2>3, <2>4 DEF Hanging
<1>3. CASE ReaderChild /\ ReaderEnds
  <2>1. ~ CutShort
    <3>. SUFFICES ASSUME CutShort PROVE FALSE
      OBVIOUS
    <3>1. left = <<>>
      BY <1>3 DEF ReaderEnds, Hanging
    <3>2. Len(left) = 0
      BY <3>1
    <3>. QED
      BY <1>0, <3>2, PipeAssumption DEF Hanging
  <2>. QED
    BY <1>1, <1>3, <2>1 DEF Hanging, ReaderEnds
<1>4. CASE WriterChild /\ ChildReads
  <2>1. data'["in"] = data["in"] /\ UNCHANGED <<readers, child, left>>
    BY <1>0, <1>4 DEF ChildReads
  <2>. QED
    BY <1>1, <2>1 DEF Hanging
<1>5. CASE WriterChild /\ WriterEnds
  <2>1. ~ CutShort
    BY <1>5 DEF WriterEnds, Holds, PipesTyped, Ends
  <2>. QED
    BY <1>1, <1>5, <2>1 DEF Hanging, WriterEnds
<1>. QED
  BY <1>2, <1>3, <1>4, <1>5 DEF ReaderChild, WriterChild

-----------------------------------------------------------------------------
(* A video that becomes a video, call by call.                             *)

VidGo == Going /\ Both /\ i = Len(log) /\ HaveInv /\ Whole /\ VidAt
VidNow == i = Len(log) /\ Whole /\ VidAt

LEMMA VidCases ==
  ASSUME VidAt
  PROVE  /\ At("open in") => AtOpen
         /\ At("first") => AtFirst
         /\ At("sink") => AtSink
         /\ At("top") \/ At("pick") \/ At("next") => AtTurn
         /\ At("close in") => AtReopen \/ AtClose
         /\ At("reap in") => AtReopen \/ AtReap
         /\ At("place") => AtPlace
         /\ At("open out") \/ At("write") => AtOut
         /\ At("push") => AtOut \/ AtEnd
         /\ At("close out") \/ At("let go out") \/ At("reap out") \/ At("exit") => AtEnd
         /\ ~ At("pic")
<1>1. \A c, d : At(c) /\ At(d) => c = d
  BY DEF At
<1>2. AtOpen => At("open in")
  BY Zenon DEF AtOpen
<1>3. AtFirst => At("first")
  BY Zenon DEF AtFirst
<1>4. AtSink => At("sink")
  BY Zenon DEF AtSink
<1>5. AtTurn => At("top") \/ At("pick") \/ At("next")
  BY Zenon DEF AtTurn
<1>6. /\ AtReopen => At("close in") \/ At("reap in")
      /\ AtClose => At("close in")
      /\ AtReap => At("reap in")
  BY Zenon DEF AtReopen, AtClose, AtReap
<1>7. AtPlace => At("place")
  BY Zenon DEF AtPlace
<1>8. AtOut => At("open out") \/ At("write") \/ At("push")
  BY Zenon DEF AtOut
<1>9. AtEnd => At("close out") \/ At("push") \/ At("let go out") \/ At("reap out") \/ At("exit")
  BY Zenon DEF AtEnd
<1>. HIDE DEF At
<1>. QED
  BY <1>1, <1>2, <1>3, <1>4, <1>5, <1>6, <1>7, <1>8, <1>9 DEF VidAt

LEMMA VidFacts ==
  ASSUME VidGo
  PROVE  /\ PipesTyped /\ log \in Seq(Logged) /\ Len(log) \in Nat /\ i \in Nat /\ i = Len(log)
         /\ have \in Nat /\ have < Parts
         /\ scene.frames \in Nat /\ scene.limit \in Int /\ ToCome \in Int
         /\ Sink = "vid" /\ Source = "vid" /\ scene.cmd = "synth" /\ at = "runs" /\ todo # <<>>
<1>1. PipesTyped /\ log \in Seq(Logged)
  BY DEF VidGo, Going, SynthTyped, MainTyped
<1>2. scene.frames \in Nat /\ scene.limit \in Int
  BY SceneIs DEF VidGo, Going
<1>3. i = Len(log) /\ have \in Nat /\ have < Parts /\ Sink = "vid" /\ Source = "vid" /\ scene.cmd = "synth" /\ at = "runs"
  BY DEF VidGo, HaveInv, Both, Going
<1>4. Len(log) \in Nat
  BY <1>1
<1>5. ToCome \in Int
  BY <1>2, <1>3, <1>4 DEF ToCome
<1>6. todo # <<>>
  BY DEF VidGo, VidAt, AtOpen, AtFirst, AtSink, AtTurn, AtReopen, AtClose, AtReap, AtPlace, AtOut, AtEnd, At
<1>. QED
  BY <1>1, <1>2, <1>3, <1>4, <1>5, <1>6

LEMMA MakeSinkVid ==
  ASSUME VidGo, MakeSink
  PROVE  at' = "runs" /\ VidNow'
<1>1. AtSink /\ todo # <<>> /\ have = 0
  BY VidCases DEF VidGo, MakeSink, Whole, At
<1>2. todo' = TopW /\ at' = "runs" /\ InSame
  <2>1. Then(<<>>) /\ UNCHANGED <<at, pipeVars>>
    BY VidFacts DEF MakeSink
  <2>2. todo' = TopW
    BY <1>1, <2>1, ThenNone DEF VidGo, AtSink
  <2>. QED
    BY <2>1, <2>2, VidFacts DEF InSame, MakeSink, pipeVars, readVars, loopVars
<1>3. At("top")'
  BY <1>2, ComesToWord
<1>4. UpTo /\ First(ToCome) /\ log = <<>>
  <2>1. log = <<>> /\ i = 0 /\ First(scene.frames - 1)
    BY <1>1, VidFacts DEF AtSink
  <2>2. ToCome = scene.frames - 1
    BY <2>1, VidFacts DEF ToCome
  <2>3. UpTo
    BY <2>1, VidFacts DEF UpTo
  <2>. QED
    BY <2>1, <2>2, <2>3
<1>5. UpTo' /\ First(ToCome)' /\ log' = <<>>
  BY <1>2, <1>4, InStays DEF InSame
<1>6. VidAt'
  BY <1>3, <1>5 DEF AtTurn, VidAt
<1>7. i' = Len(log') /\ have' = 0
  BY <1>1, <1>2, VidFacts DEF InSame
<1>. QED
  BY <1>2, <1>6, <1>7 DEF VidNow, Whole

LEMMA TopVid ==
  ASSUME VidGo, Top
  PROVE  at' = "runs" /\ VidNow'
<1>1. AtTurn /\ At("top") /\ have = 0
  BY VidCases DEF VidGo, Top, Whole, At
<1>2. UpTo /\ (IF log = <<>> THEN First(ToCome) ELSE Ahead(ToCome))
  BY <1>1 DEF AtTurn, At
<1>3. InSame /\ at' = "runs" /\ have' = 0 /\ i' = Len(log')
  BY <1>1, VidFacts DEF InSame, Top, pipeVars, readVars, loopVars
<1>4. CASE scene.limit >= 0 /\ i >= scene.limit
  <2>1. todo' = LastW
    BY <1>4, VidWords DEF Top
  <2>2. At("close in")' /\ Tail(todo') = EndW
    BY <1>3, <2>1, ComesToWord
  <2>3. i = scene.limit
    BY <1>2, <1>4, VidFacts DEF UpTo
  <2>4. (First(ToCome) /\ i = scene.limit) \/ Spent \/ Again
    BY <1>2, <2>3 DEF Ahead
  <2>5. (First(ToCome)' /\ i' = scene.limit') \/ Spent' \/ Again'
    BY <1>3, <2>4, InStays DEF InSame
  <2>6. VidAt'
    BY <2>2, <2>5 DEF AtClose, VidAt
  <2>. QED
    BY <1>3, <2>6 DEF VidNow, Whole
<1>5. CASE ~ (scene.limit >= 0 /\ i >= scene.limit)
  <2>1. todo' = PickW
    BY <1>5, TwoCalls, VidFacts DEF Top
  <2>2. At("pick")'
    BY <1>3, <2>1, ComesToWord
  <2>3. Under
    BY <1>5, VidFacts DEF Under
  <2>4. Under' /\ (IF log' = <<>> THEN First(ToCome)' ELSE Ahead(ToCome)')
    BY <1>2, <1>3, <2>3, InStays DEF InSame
  <2>5. VidAt'
    BY <2>2, <2>4 DEF AtTurn, VidAt
  <2>. QED
    BY <1>3, <2>5 DEF VidNow, Whole
<1>. QED
  BY <1>4, <1>5

LEMMA PickFrameVid ==
  ASSUME VidGo, PickFrame
  PROVE  at' = "runs" /\ VidNow'
<1>1. AtTurn /\ At("pick") /\ have = 0 /\ Tail(todo) = PlaceW
  BY VidCases, PickIs DEF VidGo, PickFrame, Whole, At
<1>2. Under /\ (IF log = <<>> THEN First(ToCome) ELSE Ahead(ToCome))
  BY <1>1 DEF AtTurn, At
<1>3. InSame /\ at' = "runs" /\ have' = 0 /\ i' = Len(log')
  BY <1>1, VidFacts DEF InSame, PickFrame, pipeVars, readVars
<1>w. PlaceW \in Seq(AnyCall) /\ LastW \in Seq(AnyCall) /\ Cons("first", LastW) \in Seq(AnyCall)
  BY WordsAre, VidWords
<1>4. CASE fp["in"] = "none"
  <2>1. todo' = Cons("open in", Cons("first", LastW))
    BY <1>4, VidWords DEF PickFrame, ReopenW
  <2>2. ~ First(ToCome)
    BY <1>4 DEF First, Opened
  <2>3. ~ CutShort /\ log # <<>>
    BY <1>2, <2>2 DEF Ahead, Spent, Again
  <2>4. MayOpen(LastW)'
    BY <1>3, <2>3, InStays DEF MayOpen, InSame
  <2>5. At("open in")' /\ Tail(todo') = Cons("first", LastW)
    BY <1>3, <1>w, <2>1, ComesTo
  <2>6. Cons("first", LastW)' = Cons("first", LastW) /\ LastW' = LastW
    BY DEF Cons, LastW, EndW, ExitW
  <2>7. AtOpen'
    BY <2>4, <2>5, <2>6 DEF AtOpen
  <2>. QED
    BY <1>3, <2>1, <2>5, <2>7 DEF VidNow, Whole, VidAt
<1>5. CASE fp["in"] # "none"
  <2>1. todo' = Cons("next", PlaceW)
    BY <1>1, <1>5, Zenon DEF PickFrame, Then, Cons
  <2>2. At("next")' /\ Tail(todo') = PlaceW
    BY <1>3, <1>w, <2>1, ComesTo
  <2>3. Under' /\ (IF log' = <<>> THEN First(ToCome)' ELSE Ahead(ToCome)')
    BY <1>2, <1>3, InStays DEF InSame
  <2>4. VidAt'
    BY <2>2, <2>3 DEF AtTurn, VidAt, PlaceW
  <2>. QED
    BY <1>3, <2>4 DEF VidNow, Whole
<1>. QED
  BY <1>4, <1>5

-----------------------------------------------------------------------------
(* Its calls that read.                                                    *)

LEMMA FramesLong ==
  ASSUME SynthInv
  PROVE  Frames \in Seq(InPart) /\ Len(Frames) = Parts * scene.frames
<1>1. scene.frames \in Nat /\ scene \in Scenes
  BY SceneIs DEF SynthInv
<1>2. PICK l \in Nat : l = scene.frames * Parts /\ l = Parts * scene.frames
  BY <1>1, PipeAssumption, Products
<1>3. Frames \in Seq(InPart)
  BY <1>1, FramesTyped
<1>4. DOMAIN Frames = 1 .. l
  BY <1>2 DEF Frames
<1>5. \A s \in Seq(InPart) : DOMAIN s = 1 .. l => Len(s) = l
  BY <1>2
<1>. QED
  BY <1>2, <1>3, <1>4, <1>5

\* The first pass begins, or another one.
LEMMA OpensVid ==
  ASSUME PipesTyped, OpenReader(Frames), SynthInv, UNCHANGED <<scene, log, have>>, have = 0
  PROVE  /\ fp["out"] = "none" => First(scene.frames)'
         /\ ~ CutShort /\ log # <<>> => Again'
<1>1. /\ "in" \in Ends /\ "out" \in Ends /\ fp' = [fp EXCEPT !["in"] = "pipe"]
      /\ child' = [child EXCEPT !["in"] = "runs"] /\ left' = Frames /\ data' = [data EXCEPT !["in"] = <<>>]
  BY DEF OpenReader, Ends
<1>2. fp'["in"] = "pipe" /\ fp'["out"] = fp["out"] /\ child'["in"] = "runs" /\ data'["in"] = <<>>
  BY <1>1 DEF PipesTyped
<1>3. readers'["in"] = {"main"} /\ writers'["in"] = {"in"}
  BY DEF OpenReader, Inherited, Ends
<1>4. Len(left') = Parts * scene.frames /\ Len(data'["in"]) = 0 /\ scene.frames \in Nat
  BY <1>1, <1>2, FramesLong, SceneIs
<1>5. have' + Len(left') + Len(data'["in"]) = Parts * scene'.frames /\ Len(data'["in"]) <= PipeN
  <2>1. PICK p \in Int : p = Parts * scene.frames
    BY <1>4, PipeAssumption
  <2>2. 0 + p + 0 = p
    BY <2>1
  <2>. QED
    BY <1>4, <2>1, <2>2, PipeAssumption
<1>6. fp["out"] = "none" => First(scene.frames)'
  BY <1>2, <1>3, <1>5 DEF First, Opened
<1>7. ~ CutShort /\ log # <<>> => Again'
  BY <1>3, BothStays DEF Again
<1>. QED
  BY <1>6, <1>7

LEMMA OpenInVid ==
  ASSUME VidGo, OpenIn
  PROVE  at' = "runs" /\ VidNow'
<1>1. AtOpen /\ have = 0 /\ todo # <<>>
  BY VidCases DEF VidGo, OpenIn, Whole, At
<1>2. PICK w \in {SinkW, PlaceW, LastW} : Tail(todo) = Cons("first", w) /\ MayOpen(w)
  BY <1>1 DEF AtOpen
<1>3. w \in Seq(AnyCall)
  BY WordsAre, VidWords
<1>4. todo' = Cons("first", w)
  BY <1>1, <1>2, ThenNone DEF VidGo, OpenIn
<1>5. UNCHANGED <<scene, at, have, log, i>> /\ OpenReader(Frames)
  <2>1. ~ (Source = "vid" /\ scene.src.plain) /\ Source = "vid" /\ scene.cmd = "synth"
    BY DEF VidGo, Both
  <2>2. OpenReader(Frames)
    BY <2>1 DEF OpenIn
  <2>. QED
    BY <2>2 DEF OpenIn, readVars, loopVars
<1>6. /\ fp["out"] = "none" => First(scene.frames)'
      /\ ~ CutShort /\ log # <<>> => Again'
  BY <1>1, <1>5, OpensVid, VidFacts DEF VidGo, Going
<1>7. log = <<>> => fp["out"] = "none"
  <2>1. Settled
    BY StageHead DEF VidGo, Going, OpenIn, At, InNames
  <2>. QED
    BY <2>1, VidFacts DEF Settled, IdleOut
<1>8. MayRead(w)'
  <2>1. CutShort' = CutShort /\ Under' = Under /\ log' = log /\ scene' = scene
    BY <1>5, BothStays DEF Under
  <2>2. SinkW' = SinkW /\ PlaceW' = PlaceW /\ LastW' = LastW
    BY DEF SinkW, PlaceW, LastW, TopW, EndW, ExitW, Cons
  <2>3. scene.frames = 1 /\ First(scene.frames)' => First(1)'
    BY <2>1
  <2>4. w = SinkW /\ log = <<>> => MayRead(w)'
    BY <1>6, <1>7, <2>1, <2>2 DEF MayRead
  <2>5. w = PlaceW /\ Under /\ ~ CutShort /\ (log = <<>> => scene.frames = 1) => MayRead(w)'
    BY <1>6, <1>7, <2>1, <2>2, <2>3 DEF MayRead
  <2>6. w = LastW /\ ~ CutShort /\ log # <<>> => MayRead(w)'
    BY <1>6, <1>7, <2>1, <2>2 DEF MayRead
  <2>. QED
    BY <1>2, <2>4, <2>5, <2>6 DEF MayOpen
<1>9. at' = "runs" /\ i' = Len(log')
  BY <1>5, VidFacts
<1>10. At("first")' /\ Tail(todo') = w
  BY <1>3, <1>4, <1>9, ComesTo
<1>11. w \in {SinkW', PlaceW', LastW'}
  BY <1>2 DEF SinkW, PlaceW, LastW, TopW, EndW, ExitW, Cons
<1>12. AtFirst'
  BY <1>8, <1>10, <1>11 DEF AtFirst
<1>13. Whole'
  BY <1>1, <1>5 DEF Whole
<1>. QED
  BY <1>9, <1>12, <1>13 DEF VidNow, VidAt

LEMMA OneMore ==
  ASSUME NEW p \in Int, NEW a \in Int, NEW h \in Nat, NEW l \in Nat, NEW d \in Nat, NEW n \in Nat,
         d <= n, h + l + d = a
  PROVE  d - 1 <= n /\ (h + 1) + l + (d - 1) = a /\ (h + 1 = p => 0 + l + (d - 1) = a - p)
OBVIOUS

LEMMA HaveMore ==
  ASSUME HaveInv
  PROVE  (have + 1) % Parts = IF have + 1 = Parts THEN 0 ELSE have + 1
BY PipeAssumption DEF HaveInv

\* A part of a picture is taken; the last of it ends the picture.
LEMMA ReadsPart ==
  ASSUME PipesTyped, HaveInv, Readable, TakePart, have' = (IF have + 1 = Parts THEN 0 ELSE have + 1), UNCHANGED <<scene, log, i>>,
         NEW r \in Int
  PROVE  /\ First(r) => IF have + 1 = Parts THEN First(r - 1)' ELSE First(r)'
         /\ Spent => Spent'
         /\ Again => Again'
         /\ left' = left
<1>1. /\ UNCHANGED <<fp, readers, writers, child, left>> /\ data'["in"] = Tail(data["in"])
  BY DEF TakePart, PipesTyped, Ends
<1>2. PICK d \in Seq(InPart) : d = data["in"] /\ d # <<>>
  BY DEF PipesTyped, Readable
<1>3. Len(Tail(d)) = Len(d) - 1 /\ Len(d) \in Nat /\ Len(d) > 0
  BY <1>2
<1>4. Len(data'["in"]) = Len(data["in"]) - 1 /\ Len(data["in"]) \in Nat
  BY <1>1, <1>2, <1>3
<1>5. Len(left) \in Nat
  BY DEF PipesTyped
<1>6. have \in Nat /\ have < Parts /\ Parts \in Nat /\ PipeN \in Nat
  BY PipeAssumption DEF HaveInv
<1>7. have' = IF have + 1 = Parts THEN 0 ELSE have + 1
  OBVIOUS
<1>8. ASSUME First(r) PROVE IF have + 1 = Parts THEN First(r - 1)' ELSE First(r)'
  <2>1. Opened(r) /\ (fp["out"] # "none" => "out" \in readers["in"])
    BY <1>8 DEF First
  <2>2. Parts * (r - 1) = Parts * r - Parts /\ Parts * r \in Int
    BY <1>6, LessOne
  <2>3. PICK a \in Int : a = Parts * r
    BY <2>2, Zenon
  <2>b. Parts * (r - 1) = a - Parts
    BY <2>2, <2>3
  <2>c. PICK d1 \in Nat : d1 = Len(data["in"]) /\ Len(data'["in"]) = d1 - 1
    BY <1>4, Zenon
  <2>d. PICK l \in Nat : l = Len(left)
    BY <1>5, Zenon
  <2>e. d1 <= PipeN /\ have + l + d1 = a
    BY <2>1, <2>3, <2>c, <2>d, Zenon DEF Opened
  <2>f. d1 - 1 <= PipeN /\ (have + 1) + l + (d1 - 1) = a /\ (have + 1 = Parts => 0 + l + (d1 - 1) = a - Parts)
    <3>1. Parts \in Int
      BY <1>6
    <3>. QED
      BY <1>6, <2>e, <3>1, OneMore
  <2>4. Len(data'["in"]) <= PipeN
    BY <2>c, <2>f, Zenon
  <2>5. have' + Len(left) + Len(data'["in"]) = IF have + 1 = Parts THEN a - Parts ELSE a
    BY <1>7, <2>c, <2>d, <2>f, Zenon
  <2>6. CASE have + 1 = Parts
    BY <1>1, <2>1, <2>b, <2>4, <2>5, <2>6 DEF First, Opened
  <2>7. CASE have + 1 # Parts
    BY <1>1, <2>1, <2>3, <2>4, <2>5, <2>7 DEF First, Opened
  <2>. QED
    BY <2>6, <2>7
<1>9. (Spent => Spent') /\ (Again => Again')
  BY <1>1, BothStays DEF Spent, Again
<1>. QED
  BY <1>1, <1>8, <1>9

LEMMA ReadVid ==
  ASSUME VidGo, Read
  PROVE  at' = "runs" /\ VidNow'
<1>1. /\ Readable /\ TakePart /\ UNCHANGED <<scene, at, log, i>>
      /\ have' = IF have + 1 = Parts THEN 0 ELSE have + 1
      /\ IF have + 1 = Parts THEN Then(<<>>) ELSE todo' = todo
  BY HaveMore, Zenon DEF VidGo, Read, loopVars
<1>2. ASSUME NEW r \in Int
      PROVE  /\ First(r) => IF have + 1 = Parts THEN First(r - 1)' ELSE First(r)'
             /\ Spent => Spent'
             /\ Again => Again'
             /\ have' = IF have + 1 = Parts THEN 0 ELSE have + 1
             /\ left' = left
  BY <1>1, ReadsPart, VidFacts DEF VidGo
<1>3. /\ Under' = Under /\ CutShort' = CutShort /\ ToCome' = ToCome /\ scene' = scene /\ log' = log /\ i' = i
      /\ UpTo' = UpTo /\ at' = "runs" /\ i' = Len(log')
  BY <1>1, BothStays, VidFacts DEF Under, ToCome, UpTo
<1>4. SinkW' = SinkW /\ PlaceW' = PlaceW /\ LastW' = LastW
  BY DEF SinkW, PlaceW, LastW, TopW, EndW, ExitW, Cons
<1>5. scene.frames \in Int /\ ToCome \in Int /\ 1 \in Int /\ 1 - 1 = 0
  BY VidFacts
<1>6. At("first") \/ At("next")
  BY VidCases DEF VidGo, Read, Reading
<1>9. Len(data'["in"]) \in Nat
  <2>1. PipesTyped'
    BY <1>1, VidFacts, TakePartTyped
  <2>. QED
    BY <2>1 DEF PipesTyped
<1>7. CASE have + 1 # Parts
  <2>1. todo' = todo /\ At("first")' = At("first") /\ At("next")' = At("next")
    BY <1>1, <1>7 DEF At
  <2>2. Whole'
    BY <1>6, <2>1 DEF Whole, At
  <2>3. CASE At("first")
    <3>1. PICK w \in {SinkW, PlaceW, LastW} : Tail(todo) = w /\ MayRead(w)
      BY <2>3, VidCases DEF VidGo, AtFirst
    <3>2. MayRead(w)'
      BY <1>2, <1>3, <1>4, <1>5, <1>7, <3>1, Zenon DEF MayRead
    <3>3. AtFirst'
      BY <1>4, <2>1, <2>3, <3>1, <3>2 DEF AtFirst
    <3>. QED
      BY <1>3, <2>2, <3>3 DEF VidNow, VidAt
  <2>4. CASE At("next")
    <3>1. Tail(todo) = PlaceW /\ Under /\ (IF log = <<>> THEN First(ToCome) ELSE Ahead(ToCome))
      BY <2>4, VidCases DEF VidGo, AtTurn, At
    <3>2. IF log' = <<>> THEN First(ToCome)' ELSE Ahead(ToCome)'
      BY <1>2, <1>3, <1>5, <1>7, <3>1 DEF Ahead, First, Opened
    <3>3. AtTurn'
      BY <1>3, <1>4, <2>1, <2>4, <3>1, <3>2 DEF AtTurn
    <3>. QED
      BY <1>3, <2>2, <3>3 DEF VidNow, VidAt
  <2>. QED
    BY <1>6, <2>3, <2>4
<1>8. CASE have + 1 = Parts
  <2>1. todo' = Tail(todo) /\ have' = 0
    BY <1>1, <1>2, <1>5, <1>8, ThenNone, VidFacts DEF VidGo
  <2>2. CASE At("first")
    <3>1. PICK w \in {SinkW, PlaceW, LastW} : Tail(todo) = w /\ MayRead(w)
      BY <2>2, VidCases DEF VidGo, AtFirst
    <3>2. CASE w = SinkW /\ log = <<>> /\ First(scene.frames)
      <4>1. At("sink")' /\ Tail(todo') = TopW
        BY <1>3, <2>1, <3>1, <3>2, ComesToWord
      <4>2. First(scene.frames - 1)'
        BY <1>2, <1>3, <1>5, <1>8, <3>2 DEF First, Opened
      <4>3. AtSink'
        BY <1>3, <3>2, <4>1, <4>2 DEF AtSink, TopW
      <4>. QED
        BY <1>3, <2>1, <4>3 DEF VidNow, VidAt, Whole
    <3>3. CASE w = PlaceW /\ Under /\ (Again \/ (~ CutShort /\ log = <<>> /\ scene.frames = 1 /\ First(1)))
      <4>1. At("place")'
        BY <1>3, <2>1, <3>1, <3>3, ComesToWord
      <4>2. CASE Again
        BY <1>2, <1>3, <1>5, <2>1, <3>3, <4>1, <4>2 DEF VidNow, VidAt, Whole, AtPlace, Ahead
      <4>3. CASE ~ CutShort /\ First(1)
        <5>1. First(1 - 1)'
          BY <1>2, <1>5, <1>8, <4>3
        <5>2. Len(left') + Len(data'["in"]) = Parts * 0 /\ Parts * 0 = 0 /\ left \in Seq(InPart) /\ left' = left
          <6>1. Len(left) \in Nat /\ left \in Seq(InPart) /\ left' = left
            BY <1>2, <1>5, VidFacts DEF PipesTyped
          <6>2. 0 + Len(left') + Len(data'["in"]) = Parts * (1 - 1)
            BY <2>1, <5>1 DEF First, Opened
          <6>3. Parts * (1 - 1) = 0 /\ Parts * 0 = 0
            BY PipeAssumption
          <6>. QED
            BY <1>9, <6>1, <6>2, <6>3
        <5>4. left' = <<>>
          BY <1>9, <5>2
        <5>5. Spent'
          BY <1>3, <4>3, <5>4 DEF Spent
        <5>. QED
          BY <1>3, <2>1, <3>3, <4>1, <5>5 DEF VidNow, VidAt, Whole, AtPlace, Ahead
      <4>. QED
        BY <3>3, <4>2, <4>3
    <3>4. CASE w = LastW /\ Again
      <4>1. At("close in")' /\ Tail(todo') = EndW
        BY <1>3, <2>1, <3>1, <3>4, ComesToWord
      <4>2. AtClose'
        BY <1>2, <1>5, <3>4, <4>1 DEF AtClose, EndW, ExitW, Cons
      <4>. QED
        BY <1>3, <2>1, <4>2 DEF VidNow, VidAt, Whole
    <3>. QED
      BY <3>1, <3>2, <3>3, <3>4 DEF MayRead
  <2>3. CASE At("next")
    <3>1. Tail(todo) = PlaceW /\ Under /\ Ahead(ToCome)
      BY <2>3, VidCases DEF VidGo, AtTurn, At, Ahead
    <3>2. At("place")'
      BY <1>3, <2>1, <3>1, ComesToWord
    <3>3. Ahead(ToCome - 1)'
      <4>1. First(ToCome) => First(ToCome - 1)'
        <5>1. PICK t \in Int : t = ToCome /\ t = ToCome'
          BY <1>3, <1>5, Zenon
        <5>2. First(t) => First(t - 1)'
          BY <1>2, <1>8
        <5>. QED
          BY <5>1, <5>2 DEF First, Opened
      <4>. QED
        BY <1>2, <1>5, <3>1, <4>1 DEF Ahead
    <3>. QED
      BY <1>3, <2>1, <3>1, <3>2, <3>3 DEF VidNow, VidAt, Whole, AtPlace
  <2>. QED
    BY <1>6, <2>2, <2>3
<1>. QED
  BY <1>7, <1>8

-----------------------------------------------------------------------------
(* Its calls that close the source.                                        *)

\* Where a pass over the video ends, the limit has not cut it short.
LEMMA NotShort ==
  ASSUME VidGo, Under, ToCome = 0
  PROVE  ~ CutShort
<1>. SUFFICES ASSUME CutShort PROVE FALSE
  OBVIOUS
<1>1. PICK f \in Nat, m \in Int, n \in Nat, p \in Nat, q \in Nat :
         f = scene.frames /\ m = scene.limit /\ n = i /\ p = Parts /\ q = PipeN
  BY VidFacts, PipeAssumption
<1>2. n < m /\ f - 1 - n = 0 /\ p * (f - m - 1) > q
  BY <1>1 DEF CutShort, Under, ToCome
<1>3. f - m - 1 < 0
  BY <1>2
<1>4. p * (f - m - 1) <= 0
  BY <1>3
<1>. QED
  BY <1>2, <1>4

LEMMA ReadEofVid ==
  ASSUME VidGo, ReadEof
  PROVE  at' = "aborted" \/ (at' = "runs" /\ VidNow')
<1>1. CASE Aborts
  BY <1>1 DEF Aborts
<1>2. CASE ~ Aborts
  <2>1. /\ At("next") /\ have = 0 /\ AtEof /\ UNCHANGED <<scene, at>> /\ InSame
        /\ Then(<<C("close in")>> \o IF scene.opt.repeat THEN LoadVid ELSE <<>>)
    <3>1. /\ At("next") /\ have = 0 /\ AtEof /\ UNCHANGED <<scene, at>>
          /\ Then(<<C("close in")>> \o IF scene.opt.repeat THEN LoadVid ELSE <<>>)
          /\ UNCHANGED pipeVars /\ UNCHANGED readVars /\ UNCHANGED loopVars
      BY <1>2, Zenon DEF ReadEof
    <3>2. InSame
      BY <3>1 DEF InSame, pipeVars, readVars, loopVars
    <3>. QED
      BY <3>1, <3>2, Zenon
  <2>2. Tail(todo) = PlaceW /\ Under /\ (IF log = <<>> THEN First(ToCome) ELSE Ahead(ToCome))
    BY <2>1, VidCases DEF VidGo, AtTurn, At
  <2>3. ASSUME First(ToCome) PROVE Spent /\ ToCome = 0
    <3>1. data["in"] = <<>> /\ writers["in"] = {}
      BY <2>1, <2>3 DEF AtEof, Readable, First, Opened
    <3>2. left = <<>>
      BY <2>3, <3>1 DEF First, Opened
    <3>3. have + Len(left) + Len(data["in"]) = 0
      <4>1. have = 0 /\ Len(left) = 0 /\ Len(data["in"]) = 0
        <5>1. Len(left) = 0
          BY <3>2
        <5>2. Len(data["in"]) = 0
          BY <3>1
        <5>. QED
          BY <2>1, <5>1, <5>2, Zenon
      <4>. QED
        BY <4>1
    <3>4. Parts * ToCome = 0
      BY <2>3, <3>3, Zenon DEF First, Opened
    <3>5. ToCome = 0
      <4>1. PICK p \in Nat \ {0}, t \in Int : p = Parts /\ t = ToCome
        BY PipeAssumption, VidFacts, Zenon
      <4>2. p * t = 0
        BY <3>4, <4>1, Zenon
      <4>3. t = 0
        <5>1. CASE t > 0
          <6>1. p * t > 0
            BY <5>1
          <6>. QED
            BY <6>1, <4>2
        <5>2. CASE t < 0
          <6>1. p * t < 0
            BY <5>2
          <6>. QED
            BY <6>1, <4>2
        <5>. QED
          BY <5>1, <5>2
      <4>. QED
        BY <4>1, <4>3, Zenon
    <3>6. ~ CutShort
      BY <2>2, <3>5, NotShort
    <3>. QED
      BY <3>2, <3>5, <3>6 DEF Spent
  <2>4. Spent \/ Again
    BY <2>2, <2>3 DEF Ahead
  <2>5. log = <<>> => scene.frames = 1
    <3>1. log = <<>> => scene.frames - 1 - 0 = 0
      BY <2>2, <2>3, VidFacts DEF ToCome
    <3>. QED
      BY <3>1, VidFacts
  <2>6. PICK w \in Seq(AnyCall) : todo' = Cons("close in", w) /\ w \in {PlaceW, ReopenW(PlaceW)}
    <3>1. PlaceW \in Seq(AnyCall) /\ ReopenW(PlaceW) \in Seq(AnyCall)
      BY WordsAre, VidWords
    <3>2. CASE scene.opt.repeat
      BY <2>1, <2>2, <3>1, <3>2, VidWords, Zenon DEF Then
    <3>3. CASE ~ scene.opt.repeat
      <4>1. <<C("close in")>> \o <<>> = <<C("close in")>>
        <5>1. PICK p \in Seq(InCall) : p = <<C("close in")>>
          BY VidCalls, Zenon
        <5>. QED
          BY <5>1, ConcatEmptySeq, Zenon
      <4>2. todo' = <<C("close in")>> \o PlaceW
        BY <2>1, <2>2, <3>3, <4>1, Zenon DEF Then
      <4>. QED
        BY <3>1, <4>2, Zenon DEF Cons
    <3>. QED
      BY <3>2, <3>3
  <2>7. at' = "runs" /\ have' = 0 /\ i' = Len(log') /\ log' = log /\ scene' = scene
    BY <2>1, VidFacts DEF InSame
  <2>8. At("close in")' /\ Tail(todo') = w
    BY <2>6, <2>7, ComesTo
  <2>9. Under' /\ (Spent' \/ Again') /\ (log' = <<>> => scene'.frames = 1)
    BY <2>1, <2>2, <2>4, <2>5, <2>7, InStays
  <2>10. w = PlaceW' \/ w = ReopenW(PlaceW)'
    BY <2>6 DEF PlaceW, ReopenW, Cons
  <2>11. AtReopen'
    BY <2>8, <2>9, <2>10 DEF AtReopen
  <2>. QED
    BY <2>7, <2>11 DEF VidNow, VidAt, Whole
<1>. QED
  BY <1>1, <1>2

\* While main waits for the reader, or closes it, the sink is settled.
LEMMA ClosesSettled ==
  ASSUME VidGo
  PROVE  /\ At("close in") \/ At("reap in") => Settled
         /\ Settled /\ CutShort /\ i = scene.limit => Holds /\ log # <<>>
<1>1. ASSUME At("close in") \/ At("reap in") PROVE Settled
  BY <1>1, StageHead DEF VidGo, Going, At, InNames
<1>2. ASSUME CutShort, i = scene.limit PROVE log # <<>>
  <2>1. scene.limit > 0
    BY <1>2, Zenon DEF CutShort
  <2>2. Len(log) # 0
    BY <1>2, <2>1, VidFacts
  <2>. QED
    BY <2>2
<1>. QED
  BY <1>1, <1>2, VidFacts DEF Settled

LEMMA CloseInVid ==
  ASSUME VidGo, CloseIn
  PROVE  at' = "runs" /\ VidNow'
<1>1. At("close in") /\ have = 0 /\ todo # <<>> /\ (AtReopen \/ AtClose)
  BY VidCases DEF VidGo, CloseIn, Whole, At
<1>2. UNCHANGED <<scene, at, have, log, i>> /\ at' = "runs" /\ have' = 0 /\ i' = Len(log')
  BY <1>1, VidFacts DEF CloseIn, readVars, loopVars
<1>3. /\ CutShort' = CutShort /\ Under' = Under /\ ToCome' = ToCome /\ log' = log /\ scene' = scene /\ i' = i
  BY <1>2, BothStays DEF Under, ToCome
<1>4. /\ left' = left
      /\ "out" \notin readers["in"] => "out" \notin readers'["in"]
      /\ "out" \in readers["in"] => "out" \in readers'["in"]
      /\ child' = child
      /\ fp["in"] # "file" => data' = data
  <2>1. UNCHANGED pipeVars \/ LetGo("in")
    BY DEF CloseIn
  <2>. QED
    BY <2>1, VidFacts DEF pipeVars, LetGo, PipesTyped, Ends
<1>5. (Spent => Spent') /\ (Again => Again')
  BY <1>3, <1>4 DEF Spent, Again
<1>w. PICK w \in Seq(AnyCall) : w = Tail(todo) /\ w \in {PlaceW, ReopenW(PlaceW), EndW}
  BY <1>1, WordsAre, VidWords DEF AtReopen, AtClose
<1>e. PlaceW' = PlaceW /\ ReopenW(PlaceW)' = ReopenW(PlaceW) /\ EndW' = EndW
  BY DEF PlaceW, ReopenW, EndW, ExitW, Cons
<1>6. CASE fp["in"] = "none"
  <2>1. todo' = w
    BY <1>1, <1>6, <1>w, ThenNone DEF VidGo, CloseIn
  <2>2. CASE AtReopen
    <3>1. Under /\ (Spent \/ Again) /\ (log = <<>> => scene.frames = 1) /\ (w = PlaceW \/ w = ReopenW(PlaceW))
      BY <1>w, <2>2, Zenon DEF AtReopen
    <3>2. CASE w = PlaceW
      <4>1. At("place")'
        BY <1>2, <2>1, <3>2, ComesToWord
      <4>2. AtPlace'
        BY <1>3, <1>5, <3>1, <4>1 DEF AtPlace, Ahead
      <4>. QED
        BY <1>2, <4>2 DEF VidNow, VidAt, Whole
    <3>3. CASE w = ReopenW(PlaceW)
      <4>1. Cons("first", PlaceW) \in Seq(AnyCall) /\ todo' = Cons("open in", Cons("first", PlaceW))
        BY <2>1, <3>3, WordsAre, VidWords, Zenon DEF ReopenW
      <4>2. At("open in")' /\ Tail(todo') = Cons("first", PlaceW)
        BY <1>2, <4>1, ComesTo
      <4>3. MayOpen(PlaceW)'
        BY <1>3, <3>1 DEF MayOpen, Spent, Again
      <4>4. Cons("first", PlaceW)' = Cons("first", PlaceW)
        BY DEF Cons, PlaceW
      <4>5. AtOpen'
        BY <1>e, <4>2, <4>3, <4>4 DEF AtOpen
      <4>. QED
        BY <1>2, <4>5 DEF VidNow, VidAt, Whole
    <3>. QED
      BY <3>1, <3>2, <3>3
  <2>3. CASE AtClose
    <3>1. w = EndW /\ ~ First(ToCome)
      BY <1>6, <1>w, <2>3 DEF AtClose, First, Opened
    <3>2. At("close out")'
      BY <1>2, <2>1, <3>1, ComesToWord
    <3>3. ~ CutShort'
      BY <1>3, <2>3, <3>1 DEF AtClose, Spent, Again
    <3>4. AtEnd'
      BY <3>2, <3>3 DEF AtEnd
    <3>. QED
      BY <1>2, <3>4 DEF VidNow, VidAt, Whole
  <2>. QED
    BY <1>1, <2>2, <2>3
<1>7. CASE fp["in"] # "none"
  <2>1. todo' = Cons("reap in", w)
    BY <1>7, <1>w, Zenon DEF CloseIn, Then, Cons
  <2>2. At("reap in")' /\ Tail(todo') = w
    BY <1>2, <2>1, ComesTo
  <2>3. CASE AtReopen
    <3>1. Under /\ (Spent \/ Again) /\ (log = <<>> => scene.frames = 1) /\ (w = PlaceW \/ w = ReopenW(PlaceW))
      BY <1>w, <2>3, Zenon DEF AtReopen
    <3>2. AtReopen'
      BY <1>3, <1>5, <1>e, <2>2, <3>1 DEF AtReopen
    <3>. QED
      BY <1>2, <3>2 DEF VidNow, VidAt, Whole
  <2>4. CASE AtClose
    <3>1. w = EndW /\ ((First(ToCome) /\ i = scene.limit) \/ Spent \/ Again)
      BY <1>w, <2>4 DEF AtClose
    <3>2. ASSUME First(ToCome), i = scene.limit PROVE Hanging'
      <4>1. fp["in"] = "pipe" /\ data' = data /\ Len(data["in"]) <= PipeN
        BY <1>4, <3>2 DEF First, Opened
      <4>2. Len(left) \in Nat /\ Len(data["in"]) \in Nat
        BY VidFacts DEF PipesTyped
      <4>3. Len(left) + Len(data["in"]) = Parts * ToCome
        <5>1. have + Len(left) + Len(data["in"]) = Parts * ToCome
          BY <3>2 DEF First, Opened
        <5>2. have + Len(left) + Len(data["in"]) = Len(left) + Len(data["in"])
          <6>1. PICK l \in Nat, d \in Nat : l = Len(left) /\ d = Len(data["in"])
            BY <4>2, Zenon
          <6>2. 0 + l + d = l + d
            OBVIOUS
          <6>. QED
            BY <1>1, <6>1, <6>2, Zenon
        <5>. QED
          BY <5>1, <5>2, Zenon
      <4>4. ASSUME CutShort PROVE child["in"] = "runs" /\ "out" \in readers["in"]
        <5>1. Parts * (scene.frames - scene.limit - 1) > PipeN /\ scene.frames - scene.limit - 1 = ToCome
          BY <3>2, <4>4, VidFacts DEF CutShort, ToCome
        <5>2. Len(left) + Len(data["in"]) > PipeN
          BY <4>3, <5>1, Zenon
        <5>3. left # <<>>
          <6>1. Len(left) # 0
            BY <4>1, <4>2, <5>2, PipeAssumption
          <6>. QED
            BY <6>1
        <5>4. fp["out"] # "none"
          BY <1>1, <3>2, <4>4, ClosesSettled DEF Holds
        <5>. QED
          BY <3>2, <5>3, <5>4 DEF First, Opened
      <4>5. Len(left') + Len(data'["in"]) = Parts * ToCome'
        BY <1>3, <1>4, <4>1, <4>3, Zenon
      <4>. QED
        BY <1>3, <1>4, <3>2, <4>1, <4>4, <4>5 DEF Hanging
    <3>3. AtReap'
      BY <1>5, <1>e, <2>2, <3>1, <3>2 DEF AtReap
    <3>. QED
      BY <1>2, <3>3 DEF VidNow, VidAt, Whole
  <2>. QED
    BY <1>1, <2>3, <2>4
<1>. QED
  BY <1>6, <1>7

LEMMA ReapInVid ==
  ASSUME VidGo, ReapIn
  PROVE  at' = "runs" /\ VidNow'
<1>1. At("reap in") /\ have = 0 /\ todo # <<>> /\ (AtReopen \/ AtReap) /\ child["in"] # "runs"
  BY VidCases DEF VidGo, ReapIn, Whole, At, Reap
<1>2. UNCHANGED <<scene, at, have, log, i>> /\ at' = "runs" /\ have' = 0 /\ i' = Len(log') /\ UNCHANGED <<left, readers>>
  BY <1>1, VidFacts DEF ReapIn, Reap, readVars, loopVars
<1>3. /\ CutShort' = CutShort /\ Under' = Under /\ ToCome' = ToCome /\ log' = log /\ scene' = scene /\ i' = i
      /\ (Spent => Spent') /\ (Again => Again')
  BY <1>2, BothStays DEF Under, ToCome, Spent, Again
<1>4. todo' = Tail(todo)
  BY <1>1, ThenNone DEF VidGo, ReapIn
<1>e. PlaceW' = PlaceW /\ ReopenW(PlaceW)' = ReopenW(PlaceW) /\ EndW' = EndW
  BY DEF PlaceW, ReopenW, EndW, ExitW, Cons
<1>5. CASE AtReopen
  <2>1. Under /\ (Spent \/ Again) /\ (log = <<>> => scene.frames = 1) /\ (todo' = PlaceW \/ todo' = ReopenW(PlaceW))
    BY <1>4, <1>5, Zenon DEF AtReopen
  <2>2. CASE todo' = PlaceW
    <3>1. At("place")'
      BY <1>2, <2>2, ComesToWord
    <3>2. AtPlace'
      BY <1>3, <2>1, <3>1 DEF AtPlace, Ahead
    <3>. QED
      BY <1>2, <3>2 DEF VidNow, VidAt, Whole
  <2>3. CASE todo' = ReopenW(PlaceW)
    <3>1. Cons("first", PlaceW) \in Seq(AnyCall) /\ todo' = Cons("open in", Cons("first", PlaceW))
      BY <2>3, WordsAre, VidWords, Zenon DEF ReopenW
    <3>2. At("open in")' /\ Tail(todo') = Cons("first", PlaceW)
      BY <1>2, <3>1, ComesTo
    <3>3. MayOpen(PlaceW)'
      BY <1>3, <2>1 DEF MayOpen, Spent, Again
    <3>4. Cons("first", PlaceW)' = Cons("first", PlaceW)
      BY DEF Cons, PlaceW
    <3>5. AtOpen'
      BY <1>e, <3>2, <3>3, <3>4 DEF AtOpen
    <3>. QED
      BY <1>2, <3>5 DEF VidNow, VidAt, Whole
  <2>. QED
    BY <2>1, <2>2, <2>3
<1>6. CASE AtReap
  <2>1. todo' = EndW /\ ~ CutShort
    BY <1>1, <1>4, <1>6 DEF AtReap, Hanging, Spent, Again
  <2>2. At("close out")'
    BY <1>2, <2>1, ComesToWord
  <2>3. AtEnd'
    BY <1>3, <2>1, <2>2 DEF AtEnd
  <2>. QED
    BY <1>2, <2>3 DEF VidNow, VidAt, Whole
<1>. QED
  BY <1>1, <1>5, <1>6

-----------------------------------------------------------------------------
(* Its calls that write.                                                   *)

LEMMA PlacePictureVid ==
  ASSUME VidGo, PlacePicture
  PROVE  at' = "runs" /\ VidNow'
<1>1. AtPlace /\ have = 0 /\ Settled
  <2>1. Settled
    BY StageHead DEF VidGo, Going, PlacePicture, At, InNames
  <2>. QED
    BY <2>1, VidCases DEF VidGo, PlacePicture, Whole, At
<1>2. Under /\ Ahead(ToCome - 1)
  BY <1>1 DEF AtPlace
<1>3. UNCHANGED <<scene, at, have>> /\ UNCHANGED pipeVars /\ i' = i + 1 /\ log' = Append(log, hand)
  BY VidFacts, Zenon DEF PlacePicture, readVars
<1>t. todo' = (IF fp["out"] = "none" THEN <<C("open out"), C("write"), C("push")>>
                  ELSE <<C("write"), C("push")>>) \o TopW
  BY VidFacts, Zenon DEF PlacePicture, TopW
<1>4. log' # <<>> /\ i' = Len(log') /\ ToCome' = ToCome - 1 /\ UpTo' /\ at' = "runs" /\ have' = 0
  <2>1. hand \in Logged
    BY DEF VidGo, Going, SynthTyped, MainTyped
  <2>2. log' # <<>> /\ Len(log') = Len(log) + 1
    BY <1>3, <2>1, VidFacts, LogWas, Zenon
  <2>3. ToCome' = ToCome - 1 /\ UpTo'
    BY <1>2, <1>3, VidFacts DEF ToCome, Under, UpTo
  <2>. QED
    BY <1>1, <1>3, <2>2, <2>3, VidFacts
<1>5. CutShort' = CutShort
  BY <1>3, BothStays
<1>6. /\ First(ToCome - 1) => First(ToCome)'
      /\ Spent => Spent'
      /\ Again => Again'
  <2>1. First(ToCome - 1) => First(ToCome)'
    BY <1>1, <1>3, <1>4 DEF First, Opened, pipeVars
  <2>. QED
    BY <1>3, <1>4, <1>5, <2>1 DEF Spent, Again, pipeVars
<1>w. After = TopW /\ TopW \in Seq(AnyCall)
  BY VidFacts, WordsAre DEF After
<1>p. PICK p \in Seq(AnyCall) : p = Cons("push", TopW)
  BY <1>w, ConsIs
<1>q. PICK q \in Seq(AnyCall) : q = Cons("write", p)
  BY ConsIs
<1>7. CASE fp["out"] = "none"
  <2>1. todo' = Cons("open out", q)
    BY <1>t, <1>7, <1>w, <1>p, <1>q, VidFacts, PlaceWords, Zenon
  <2>2. At("open out")'
    BY <1>4, <2>1, ComesTo
  <2>3. log = <<>>
    BY <1>1, <1>7, VidFacts DEF Settled, Holds
  <2>4. First(ToCome)' \/ Spent'
    BY <1>2, <1>6, <2>3 DEF Ahead, Again
  <2>5. AtOut'
    BY <1>4, <2>2, <2>4 DEF AtOut
  <2>. QED
    BY <1>4, <2>5 DEF VidNow, VidAt, Whole
<1>8. CASE fp["out"] # "none"
  <2>1. todo' = Cons("write", p)
    BY <1>t, <1>8, <1>w, <1>p, <1>q, VidFacts, PlaceWords, Zenon
  <2>2. At("write")'
    BY <1>4, <2>1, ComesTo
  <2>4. Ahead(ToCome)'
    BY <1>2, <1>6 DEF Ahead
  <2>5. AtOut'
    BY <1>4, <2>2, <2>4 DEF AtOut
  <2>. QED
    BY <1>4, <2>5 DEF VidNow, VidAt, Whole
<1>. QED
  BY <1>7, <1>8

LEMMA OpenOutVid ==
  ASSUME VidGo, OpenOut
  PROVE  at' = "runs" /\ VidNow'
<1>1. AtOut /\ At("open out") /\ have = 0 /\ todo' = Cons("write", Cons("push", After)) /\ After = TopW
  BY VidCases, StageAt, ThenNone, VidFacts DEF VidGo, OpenOut, Whole, At, After
<1>2. UpTo /\ (First(ToCome) \/ Spent)
  BY <1>1 DEF AtOut, At
<1>3. UNCHANGED <<scene, at, have, log, i>> /\ OpenWriter
  <2>1. ~ Plain
    BY VidFacts DEF VidGo, Both, Plain
  <2>. QED
    BY <2>1 DEF OpenOut, readVars, loopVars
<1>4. /\ UpTo' = UpTo /\ ToCome' = ToCome /\ CutShort' = CutShort
      /\ at' = "runs" /\ have' = 0 /\ i' = Len(log')
  BY <1>1, <1>3, BothStays, VidFacts DEF UpTo, ToCome
<1>5. left' = left /\ fp'["in"] = fp["in"] /\ child'["in"] = child["in"] /\ data'["in"] = data["in"]
  BY <1>3, VidFacts DEF OpenWriter, PipesTyped, Ends
<1>6. readers'["in"] = Inherited(readers, "out")["in"] /\ writers'["in"] = Inherited(writers, "out")["in"]
  BY <1>3 DEF OpenWriter, Inherited, Ends
<1>7. /\ "main" \in readers["in"] => "main" \in readers'["in"] /\ "out" \in readers'["in"]
      /\ "in" \in writers["in"] => "in" \in writers'["in"]
  BY <1>6 DEF Inherited, Ends
<1>8. First(ToCome) => First(ToCome)'
  BY <1>3, <1>4, <1>5, <1>7 DEF First, Opened
<1>9. Spent => Spent'
  BY <1>4, <1>5 DEF Spent
<1>p. PICK p \in Seq(AnyCall) : p = Cons("push", TopW)
  BY WordsAre, ConsIs
<1>10. At("write")'
  BY <1>1, <1>4, <1>p, ComesTo
<1>11. AtOut'
  BY <1>2, <1>4, <1>8, <1>9, <1>10 DEF AtOut, Ahead
<1>. QED
  BY <1>4, <1>11 DEF VidNow, VidAt, Whole

LEMMA WriteVid ==
  ASSUME VidGo, Write
  PROVE  at' = "runs" /\ VidNow'
<1>1. AtOut /\ At("write") /\ have = 0 /\ todo' = Cons("push", After) /\ After = TopW
  BY VidCases, StageAt, ThenNone, VidFacts DEF VidGo, Write, Whole, At, After
<1>2. UpTo /\ Ahead(ToCome)
  BY <1>1 DEF AtOut, At
<1>3. InSame /\ at' = "runs" /\ have' = 0 /\ i' = Len(log')
  BY <1>1, VidFacts DEF Write, Save, readVars, loopVars, InSame
<1>4. UpTo' /\ Ahead(ToCome)'
  BY <1>2, <1>3, InStays
<1>5. At("push")' /\ Tail(todo') = TopW
  BY <1>1, <1>3, WordsAre, ComesTo
<1>6. AtOut'
  BY <1>4, <1>5 DEF AtOut, TopW
<1>. QED
  BY <1>3, <1>6 DEF VidNow, VidAt, Whole

\* A step that leaves main's calls, and the source, alone.
LEMMA VidStays ==
  ASSUME VidGo, InSame, UNCHANGED <<at, todo>>
  PROVE  at' = "runs" /\ VidNow'
<1>1. /\ Both' = Both /\ CutShort' = CutShort /\ Under' = Under /\ UpTo' = UpTo /\ ToCome' = ToCome
      /\ Spent' = Spent /\ Again' = Again /\ Hanging' = Hanging
      /\ First(ToCome)' = First(ToCome) /\ Ahead(ToCome)' = Ahead(ToCome) /\ Ahead(ToCome - 1)' = Ahead(ToCome - 1)
      /\ First(scene.frames)' = First(scene.frames) /\ First(scene.frames - 1)' = First(scene.frames - 1)
      /\ First(1)' = First(1)
  BY InStays
<1>2. UNCHANGED <<scene, have, left, log, i>>
  BY DEF InSame
<1>3. \A c : At(c)' = At(c)
  BY DEF At
<1>4. /\ SinkW' = SinkW /\ PlaceW' = PlaceW /\ LastW' = LastW /\ TopW' = TopW /\ EndW' = EndW
      /\ ReopenW(PlaceW)' = ReopenW(PlaceW) /\ \A w : Cons("first", w)' = Cons("first", w)
  BY DEF SinkW, PlaceW, LastW, TopW, EndW, ExitW, ReopenW, Cons
<1>5. \A w : (MayOpen(w) => MayOpen(w)') /\ (MayRead(w) => MayRead(w)')
  BY <1>1, <1>2, <1>4 DEF MayOpen, MayRead
<1>6. (AtOpen => AtOpen') /\ (AtFirst => AtFirst') /\ (AtSink => AtSink')
  BY <1>1, <1>2, <1>3, <1>4, <1>5 DEF AtOpen, AtFirst, AtSink
<1>7. (AtTurn => AtTurn') /\ (AtReopen => AtReopen')
  BY <1>1, <1>2, <1>3, <1>4 DEF AtTurn, AtReopen
<1>8. (AtClose => AtClose') /\ (AtReap => AtReap') /\ (AtPlace => AtPlace')
  BY <1>1, <1>2, <1>3, <1>4 DEF AtClose, AtReap, AtPlace
<1>9. (AtOut => AtOut') /\ (AtEnd => AtEnd')
  BY <1>1, <1>2, <1>3, <1>4 DEF AtOut, AtEnd
<1>10. VidAt'
  BY <1>6, <1>7, <1>8, <1>9 DEF VidGo, VidAt
<1>11. Whole'
  BY <1>2 DEF VidGo, Whole
<1>. QED
  BY <1>2, <1>10, <1>11, VidFacts DEF VidNow

LEMMA PushVid ==
  ASSUME VidGo, Push
  PROVE  at' = "runs" /\ VidNow'
<1>1. At("push") /\ have = 0 /\ todo # <<>> /\ (AtOut \/ AtEnd)
  BY VidCases DEF VidGo, Push, Whole, At
<1>2. CASE PushPart
  <2>1. UNCHANGED <<at, todo>> /\ InSame
    <3>1. todo' = todo
      BY <1>2 DEF Push, PushPart
    <3>2. data'["in"] = data["in"]
      BY <1>2, VidFacts DEF PushPart, PipesTyped, Ends
    <3>. QED
      BY <1>2, <3>1, <3>2, VidFacts DEF InSame, Push, PushPart, readVars, loopVars
  <2>. QED
    BY <2>1, VidStays
<1>3. CASE ~ PushPart
  <2>1. UNCHANGED pipeVars /\ todo' = Tail(todo) /\ InSame /\ at' = "runs" /\ have' = 0 /\ i' = Len(log')
    <3>1. UNCHANGED pipeVars /\ Then(<<>>)
      BY <1>3 DEF Push
    <3>2. todo' = Tail(todo)
      BY <1>1, <3>1, ThenNone DEF VidGo
    <3>. QED
      BY <1>1, <3>1, <3>2, VidFacts DEF InSame, Push, pipeVars, readVars, loopVars
  <2>2. CASE Pushing /\ Tail(todo) = After
    <3>1. todo' = TopW /\ log # <<>> /\ Tail(todo) = TopW
      BY <2>1, <2>2, VidFacts DEF After, Pushing, Underway
    <3>2. UpTo /\ Ahead(ToCome)
      BY <1>1, <3>1 DEF AtOut, AtEnd, At
    <3>3. UpTo' /\ Ahead(ToCome)' /\ log' # <<>>
      BY <2>1, <3>1, <3>2, InStays DEF InSame
    <3>4. At("top")'
      BY <2>1, <3>1, ComesToWord
    <3>5. AtTurn'
      BY <3>3, <3>4 DEF AtTurn
    <3>. QED
      BY <2>1, <3>5 DEF VidNow, VidAt, Whole
  <2>3. CASE Flushing /\ Tail(todo) = Cons("let go out", Cons("reap out", Closed))
    <3>1. PICK r \in Seq(AnyCall) : r = Cons("reap out", Closed)
      BY WordsAre, ConsIs
    <3>2. todo' = Cons("let go out", r)
      BY <2>1, <2>3, <3>1, Zenon
    <3>3. At("let go out")'
      BY <2>1, <3>2, ComesTo
    <3>4. Tail(todo) # TopW
      <4>1. Head(Tail(todo)).call = "let go out" /\ Head(TopW).call = "top"
        BY <2>1, <3>3, WordsAre DEF At
      <4>. QED
        BY <4>1
    <3>5. ~ CutShort
      BY <1>1, <3>4 DEF AtOut, AtEnd, At
    <3>6. ~ CutShort'
      BY <2>1, <3>5, InStays
    <3>7. AtEnd'
      BY <3>3, <3>6 DEF AtEnd
    <3>. QED
      BY <2>1, <3>7 DEF VidNow, VidAt, Whole
  <2>. QED
    BY <1>1, <2>2, <2>3, StageAt DEF VidGo
<1>. QED
  BY <1>2, <1>3

LEMMA EndsVid ==
  ASSUME VidGo, CloseOut \/ LetGoOut \/ ReapOut
  PROVE  at' = "runs" /\ VidNow'
<1>1. At("close out") \/ At("let go out") \/ At("reap out")
  BY DEF CloseOut, LetGoOut, ReapOut
<1>2. AtEnd /\ have = 0 /\ todo # <<>> /\ Closed = ExitW
  BY <1>1, VidCases, VidFacts DEF VidGo, Whole, At, Closed
<1>3. UNCHANGED <<scene, at, have, log, i>> /\ at' = "runs" /\ have' = 0 /\ i' = Len(log')
  <2>1. UNCHANGED <<scene, at, have, log, i>>
    BY DEF CloseOut, LetGoOut, ReapOut, readVars, loopVars
  <2>. QED
    BY <1>2, <2>1, VidFacts
<1>4. ~ CutShort /\ ~ CutShort'
  <2>1. ~ CutShort
    BY <1>2, Zenon DEF AtEnd
  <2>. QED
    BY <1>3, <2>1, BothStays
<1>5. CASE todo' = ExitW
  <2>1. At("exit")'
    BY <1>3, <1>5, ComesToWord
  <2>2. AtEnd'
    BY <1>4, <2>1 DEF AtEnd
  <2>. QED
    BY <1>3, <2>2 DEF VidNow, VidAt, Whole
<1>r. PICK r \in Seq(AnyCall) : r = Cons("reap out", ExitW)
  BY WordsAre, ConsIs
<1>l. PICK l \in Seq(AnyCall) : l = Cons("let go out", r) /\ Head(l).call = "let go out" /\ l # <<>>
  BY ConsIs
<1>6. CASE todo' = Cons("push", l)
  <2>1. At("push")' /\ Tail(todo') = l
    BY <1>3, <1>6, ComesTo
  <2>2. Head(TopW').call = "top"
    <3>1. TopW' = TopW
      BY DEF TopW
    <3>. QED
      BY <3>1, WordsAre
  <2>3. Tail(todo') # TopW'
    BY <1>l, <2>1, <2>2
  <2>4. AtEnd'
    BY <1>4, <2>1, <2>3 DEF AtEnd
  <2>. QED
    BY <1>3, <2>4 DEF VidNow, VidAt, Whole
<1>7. CASE todo' = r
  <2>1. At("reap out")'
    BY <1>3, <1>7, <1>r, WordsAre, ComesTo
  <2>2. AtEnd'
    BY <1>4, <2>1 DEF AtEnd
  <2>. QED
    BY <1>3, <2>2 DEF VidNow, VidAt, Whole
<1>8. CASE CloseOut
  <2>1. CASE fp["out"] = "none"
    <3>1. todo' = Tail(todo)
      BY <1>2, <1>8, <2>1, ThenNone DEF VidGo, CloseOut
    <3>2. Tail(todo) = ExitW
      BY <1>8, <2>1, StageAt, VidFacts DEF VidGo, CloseOut, Written
    <3>. QED
      BY <1>5, <3>1, <3>2
  <2>2. CASE fp["out"] # "none"
    <3>1. Tail(todo) = ExitW
      BY <1>8, StageAt, VidFacts DEF VidGo, CloseOut, Written
    <3>2. todo' = <<C("push"), C("let go out"), C("reap out")>> \o ExitW
      BY <1>8, <2>2, <3>1, Zenon DEF CloseOut, Then
    <3>3. todo' = Cons("push", Cons("let go out", Cons("reap out", ExitW)))
      BY <3>2, FlushWord, WordsAre, Zenon
    <3>4. todo' = Cons("push", l)
      BY <1>r, <1>l, <3>3, Zenon
    <3>. QED
      BY <1>6, <3>4
  <2>. QED
    BY <2>1, <2>2
<1>9. CASE LetGoOut
  <2>1. todo' = r
    BY <1>2, <1>9, <1>r, StageAt, ThenNone DEF VidGo, LetGoOut
  <2>. QED
    BY <1>7, <2>1
<1>10. CASE ReapOut
  <2>1. todo' = ExitW
    BY <1>2, <1>10, StageAt, ThenNone DEF VidGo, ReapOut
  <2>. QED
    BY <1>5, <2>1
<1>. QED
  BY <1>8, <1>9, <1>10

LEMMA ExitVid ==
  ASSUME VidGo, Exit
  PROVE  at' = "ended" /\ ~ CutShort' /\ i' = Len(log')
<1>1. ~ CutShort
  BY VidCases, Zenon DEF VidGo, Exit, AtEnd
<1>2. at' = "ended" /\ UNCHANGED <<scene, log, i>>
  BY VidFacts DEF Exit, loopVars
<1>. QED
  BY <1>1, <1>2, BothStays, VidFacts

-----------------------------------------------------------------------------
(* Every step of a video that becomes a video.                             *)

\* The Picwriter's end, until main has let it go.
LEMMA OutIsThere ==
  ASSUME VidGo
  PROVE  AtEnd \/ fp["out"] = "none" \/ Holds
<1>1. Settled => fp["out"] = "none" \/ Holds
  BY VidFacts DEF Settled, IdleOut
<1>2. Opening \/ Writing \/ Pushing \/ Written \/ Flushing \/ LettingGo => fp["out"] = "none" \/ Holds
  BY DEF Opening, Writing, Pushing, Written, Flushing, LettingGo, IdleOut
<1>3. Reaping => todo = Cons("reap out", Closed)
  BY Zenon DEF Reaping
<1>4. Reaping /\ Head(todo).call = "reap out" => AtEnd
  BY VidCases, VidFacts DEF VidGo, At
<1>5. Leaving /\ Head(todo).call = "exit" => AtEnd
  BY VidCases, VidFacts DEF VidGo, At
<1>. QED
  BY <1>1, <1>2, <1>4, <1>5, StageHead DEF VidGo, Going

LEMMA ChildrenVid ==
  ASSUME VidGo, ReaderChild \/ WriterChild
  PROVE  at' = "runs" /\ VidNow'
<1>1. UNCHANGED <<at, todo, scene, have, i, log>> /\ (Spent => Spent') /\ (Again => Again')
  BY ChildrenSpend, VidFacts
<1>2. /\ CutShort' = CutShort /\ Under' = Under /\ UpTo' = UpTo /\ ToCome' = ToCome
      /\ at' = "runs" /\ i' = Len(log')
  BY <1>1, BothStays, VidFacts DEF Under, UpTo, ToCome
<1>3. \A c : At(c)' = At(c)
  BY <1>1 DEF At
<1>4. /\ SinkW' = SinkW /\ PlaceW' = PlaceW /\ LastW' = LastW /\ TopW' = TopW /\ EndW' = EndW
      /\ ReopenW(PlaceW)' = ReopenW(PlaceW) /\ \A w : Cons("first", w)' = Cons("first", w)
  BY DEF SinkW, PlaceW, LastW, TopW, EndW, ExitW, ReopenW, Cons
<1>5. Whole'
  BY <1>1 DEF VidGo, Whole
<1>6. CASE AtEnd
  <2>1. ~ CutShort
    BY <1>6, Zenon DEF AtEnd
  <2>2. ~ CutShort'
    BY <1>2, <2>1
  <2>3. AtEnd'
    BY <1>1, <1>3, <1>4, <1>6, <2>2 DEF AtEnd
  <2>. QED
    BY <1>2, <1>5, <2>3 DEF VidNow, VidAt
<1>7. CASE fp["out"] = "none" \/ Holds
  <2>1. ASSUME NEW r, First(r) PROVE First(r)'
    BY <1>7, <2>1, ChildrenPass, VidFacts DEF VidGo
  <2>2. /\ First(ToCome) => First(ToCome)'
        /\ First(ToCome - 1) => First(ToCome - 1)'
        /\ First(scene.frames) => First(scene.frames)'
        /\ First(scene.frames - 1) => First(scene.frames - 1)'
        /\ First(1) => First(1)'
    <3>1. PICK a, b, c, d : a = ToCome /\ b = ToCome - 1 /\ c = scene.frames /\ d = scene.frames - 1
      OBVIOUS
    <3>2. a = ToCome' /\ b = ToCome' - 1 /\ c = scene'.frames /\ d = scene'.frames - 1
      BY <1>1, <1>2, <3>1
    <3>3. (First(a) => First(a)') /\ (First(b) => First(b)') /\ (First(c) => First(c)') /\ (First(d) => First(d)')
      BY <2>1
    <3>4. First(ToCome) => First(ToCome)'
      BY <3>1, <3>2, <3>3 DEF First, Opened
    <3>5. First(ToCome - 1) => First(ToCome - 1)'
      BY <3>1, <3>2, <3>3 DEF First, Opened
    <3>6. First(scene.frames) => First(scene.frames)'
      BY <3>1, <3>2, <3>3 DEF First, Opened
    <3>7. First(scene.frames - 1) => First(scene.frames - 1)'
      BY <3>1, <3>2, <3>3 DEF First, Opened
    <3>. QED
      BY <2>1, <3>4, <3>5, <3>6, <3>7
  <2>3. (Ahead(ToCome) => Ahead(ToCome)') /\ (Ahead(ToCome - 1) => Ahead(ToCome - 1)')
    BY <1>1, <2>2 DEF Ahead
  <2>4. \A w : (MayOpen(w) => MayOpen(w)') /\ (MayRead(w) => MayRead(w)')
    BY <1>1, <1>2, <1>4, <2>2 DEF MayOpen, MayRead
  <2>5. (AtOpen => AtOpen') /\ (AtFirst => AtFirst') /\ (AtSink => AtSink')
    BY <1>1, <1>2, <1>3, <1>4, <2>2, <2>4 DEF AtOpen, AtFirst, AtSink
  <2>6. (AtTurn => AtTurn') /\ (AtReopen => AtReopen')
    BY <1>1, <1>2, <1>3, <1>4, <2>2, <2>3 DEF AtTurn, AtReopen
  <2>7. (AtClose => AtClose') /\ (AtPlace => AtPlace')
    BY <1>1, <1>2, <1>3, <1>4, <2>2, <2>3 DEF AtClose, AtPlace
  <2>8. AtOut => AtOut'
    BY <1>1, <1>2, <1>3, <1>4, <2>2, <2>3 DEF AtOut
  <2>9. ASSUME AtReap PROVE AtReap'
    <3>1. ASSUME Hanging PROVE Hanging'
      <4>1. Settled
        BY <2>9, ClosesSettled DEF AtReap
      <4>2. CutShort => Holds
        BY <3>1, <4>1, ClosesSettled DEF Hanging
      <4>3. CutShort => Parts * ToCome > PipeN
        <5>1. ASSUME CutShort PROVE scene.frames - scene.limit - 1 = ToCome
          BY <3>1, VidFacts DEF Hanging, ToCome
        <5>. QED
          BY <5>1, Zenon DEF CutShort
      <4>. QED
        BY <3>1, <4>2, <4>3, PipeAssumption, ChildrenHang, VidFacts
    <3>. QED
      BY <1>1, <1>3, <1>4, <2>9, <3>1 DEF AtReap
  <2>10. AtEnd => ~ CutShort /\ ~ CutShort'
    BY <1>2, Zenon DEF AtEnd
  <2>11. AtEnd => AtEnd'
    BY <1>1, <1>3, <1>4, <2>10 DEF AtEnd
  <2>12. VidAt'
    BY <2>5, <2>6, <2>7, <2>8, <2>9, <2>11 DEF VidGo, VidAt
  <2>. QED
    BY <1>2, <1>5, <2>12 DEF VidNow
<1>. QED
  BY <1>6, <1>7, OutIsThere

LEMMA StartVid ==
  ASSUME SynthInv, Both, at = "starts", Start, i = Len(log), log = <<>>, have = 0
  PROVE  at' = "runs" /\ VidNow'
<1>1. Source = "vid" /\ Source # "error" /\ scene.cmd = "synth" /\ scene.cmd # "pairs"
  BY DEF Both
<1>2. at' = "runs" /\ todo' = LoadVid \o <<C("sink"), C("top")>>
  BY <1>1, Zenon DEF Start
<1>3. UNCHANGED <<scene, have, log, i>>
  BY DEF Start, readVars, loopVars
<1>4. Cons("first", SinkW) \in Seq(AnyCall) /\ todo' = Cons("open in", Cons("first", SinkW))
  BY <1>2, VidWords, Zenon DEF ReopenW
<1>5. At("open in")' /\ Tail(todo') = Cons("first", SinkW)
  BY <1>2, <1>4, ComesTo
<1>6. MayOpen(SinkW)' /\ SinkW' = SinkW /\ Cons("first", SinkW)' = Cons("first", SinkW)
  BY <1>3 DEF MayOpen, SinkW, TopW, Cons
<1>7. AtOpen'
  BY <1>5, <1>6 DEF AtOpen
<1>. QED
  BY <1>2, <1>3, <1>7 DEF VidNow, VidAt, Whole

\* What a video that becomes a video never does.
LEMMA VidNever ==
  ASSUME VidGo
  PROVE  ~ PickSample /\ ~ PickRef /\ ~ PlacePlain /\ ~ FindPair /\ ~ Start
<1>1. ~ PickSample
  BY VidFacts DEF PickSample
<1>2. ~ PickRef
  BY VideosAreScanned, VidFacts DEF PickRef
<1>3. ~ PlacePlain
  BY VidFacts DEF PlacePlain
<1>4. ~ FindPair
  <2>. SUFFICES ASSUME FindPair PROVE FALSE
    OBVIOUS
  <2>1. Head(todo) \in Calls("synth") /\ Head(todo).call = "find"
    BY CalledFor, VidFacts DEF VidGo, Going, FindPair, At
  <2>. QED
    BY <2>1 DEF Calls
<1>5. ~ Start
  BY VidFacts DEF Start
<1>. QED
  BY <1>1, <1>2, <1>3, <1>4, <1>5

LEMMA MainVid ==
  ASSUME VidGo, MainStep
  PROVE  \/ at' \in {"error", "aborted"} /\ i' = Len(log')
         \/ at' = "ended" /\ ~ CutShort' /\ i' = Len(log')
         \/ at' = "runs" /\ VidNow'
<1>1. ASSUME Aborts PROVE at' = "aborted" /\ i' = Len(log')
  BY <1>1, VidFacts DEF Aborts, loopVars
<1>2. CASE MakeSink \/ Top \/ PickFrame \/ OpenIn \/ Read \/ CloseIn \/ ReapIn
  BY <1>2, MakeSinkVid, TopVid, PickFrameVid, OpenInVid, ReadVid, CloseInVid, ReapInVid
<1>3. CASE PlacePicture \/ OpenOut \/ Write \/ Push \/ CloseOut \/ LetGoOut \/ ReapOut
  BY <1>3, PlacePictureVid, OpenOutVid, WriteVid, PushVid, EndsVid
<1>4. CASE Exit
  BY <1>4, ExitVid
<1>5. CASE SigPipe
  BY <1>1, <1>5 DEF SigPipe
<1>6. CASE ReadEof
  <2>1. CASE Aborts
    BY <1>1, <2>1
  <2>2. CASE ~ Aborts
    <3>1. at' = at
      BY <1>6, <2>2, Zenon DEF ReadEof
    <3>. QED
      BY <1>6, <3>1, ReadEofVid, VidFacts
  <2>. QED
    BY <2>1, <2>2
<1>. QED
  BY <1>2, <1>3, <1>4, <1>5, <1>6, VidNever DEF MainStep

LEMMA VidNext ==
  SynthInv /\ SynthTyped /\ DeliverInv /\ HaveInv /\ VidInv /\ [Next]_vars => VidInv'
<1>. SUFFICES ASSUME SynthInv, SynthTyped, DeliverInv, HaveInv, VidInv, [Next]_vars, Both', deaths' = 0
              PROVE  /\ i' = Len(log')
                     /\ at' = "starts" => log' = <<>> /\ have' = 0
                     /\ at' = "runs" => Whole' /\ VidAt'
                     /\ at' = "ended" => ~ CutShort'
  BY DEF VidInv
<1>1. ~ Death /\ deaths = 0 /\ scene' = scene
  <2>1. deaths + 1 # 0
    BY DEF SynthTyped, PipesTyped
  <2>2. Death => deaths' = deaths + 1
    BY DEF Death, ChildDies
  <2>. QED
    BY <2>1, <2>2, SceneStays
<1>2. Both /\ scene.cmd = "synth"
  BY <1>1, BothStays DEF Both
<1>3. /\ i = Len(log)
      /\ at = "starts" => log = <<>> /\ have = 0
      /\ at = "runs" => Whole /\ VidAt
      /\ at = "ended" => ~ CutShort
  BY <1>1, <1>2 DEF VidInv
<1>4. at = "runs" => VidGo
  BY <1>1, <1>2, <1>3 DEF DeliverInv, VidGo, Going
<1>5. CASE MainStep /\ at = "runs"
  BY <1>4, <1>5, MainVid DEF VidNow
<1>6. CASE Start
  <2>1. at = "starts"
    BY <1>6 DEF Start
  <2>. QED
    BY <1>2, <1>3, <1>6, <2>1, StartVid DEF VidNow
<1>7. MainStep => Start \/ at = "runs"
  BY Zenon DEF MainStep, At, Reading, MakeSink, Top, PickSample, PickRef, PickFrame, OpenIn, Read, ReadEof, CloseIn, ReapIn,
     PlacePicture, PlacePlain, OpenOut, Write, Push, SigPipe, CloseOut, LetGoOut, ReapOut, Exit, FindPair
<1>8. CASE (ReaderChild \/ WriterChild) /\ at = "runs"
  BY <1>4, <1>8, ChildrenVid DEF VidNow
<1>9. CASE (ReaderChild \/ WriterChild) /\ at # "runs"
  <2>1. UNCHANGED <<at, scene, have, i, log>>
    BY <1>9, ChildrenSpend DEF SynthTyped
  <2>. QED
    BY <1>3, <1>9, <2>1, BothStays
<1>10. CASE UNCHANGED vars
  <2>1. UNCHANGED <<at, todo, i, log, have>> /\ scene' = scene /\ CutShort' = CutShort /\ InSame
    BY <1>10, BothStays DEF vars, mainVars, pipeVars, InSame
  <2>2. CASE at = "runs"
    BY <1>4, <2>1, <2>2, VidStays DEF VidNow
  <2>3. CASE at # "runs"
    BY <1>3, <2>1, <2>3
  <2>. QED
    BY <2>2, <2>3
<1>. QED
  BY <1>1, <1>5, <1>6, <1>7, <1>8, <1>9, <1>10 DEF Next

LEMMA HaveNext == HaveInv /\ [Next]_vars => HaveInv'
<1>. SUFFICES ASSUME HaveInv, [Next]_vars PROVE HaveInv'
  OBVIOUS
<1>1. have' = have \/ have' = (have + 1) % Parts
  <2>1. CASE Read
    BY <2>1 DEF Read
  <2>2. CASE MainStep /\ ~ Read
    BY <2>2, Zenon DEF MainStep, Start, MakeSink, Top, PickSample, PickRef, PickFrame, OpenIn, ReadEof, CloseIn, ReapIn,
       PlacePicture, PlacePlain, OpenOut, Write, Push, SigPipe, CloseOut, LetGoOut, ReapOut, Exit, FindPair,
       Aborts, readVars
  <2>3. CASE ReaderChild \/ WriterChild \/ Death \/ UNCHANGED vars
    BY <2>3 DEF ReaderChild, WriterChild, Death, mainVars, vars
  <2>. QED
    BY <2>1, <2>2, <2>3 DEF Next
<1>2. (have + 1) % Parts \in Nat /\ (have + 1) % Parts < Parts
  BY HaveMore, PipeAssumption DEF HaveInv
<1>. QED
  BY <1>1, <1>2 DEF HaveInv

-----------------------------------------------------------------------------
(* Words in which what is opened is read.                                  *)

FitWord(s) == Fit(s) /\ (s # <<>> => Head(s).call # "pic")
EasyCall == {c \in AnyCall : c.call \notin {"open in", "pic", "first", "next"}}

LEMMA EasyFits ==
  ASSUME NEW s \in Seq(EasyCall)
  PROVE  FitWord(s) /\ s \in Seq(AnyCall)
<1>1. EasyCall \subseteq AnyCall /\ \A c \in EasyCall : c.call \notin {"open in", "pic", "first", "next"}
  BY DEF EasyCall
<1>2. s \in Seq(AnyCall)
  BY <1>1, SeqMonotonic
<1>3. Len(s) \in Nat /\ \A k \in 1 .. Len(s) : s[k] \in EasyCall
  OBVIOUS
<1>4. s # <<>> => Len(s) \in 1 .. Len(s) /\ 1 \in 1 .. Len(s) /\ Head(s) = s[1]
  BY <1>2
<1>5. \A k \in 1 .. Len(s) - 1 : k \in 1 .. Len(s) /\ k + 1 \in 1 .. Len(s)
  BY <1>3
<1>. QED
  BY <1>1, <1>2, <1>3, <1>4, <1>5 DEF FitWord, Fit

LEMMA FitTails ==
  ASSUME NEW s \in Seq(AnyCall), s # <<>>, Fit(s)
  PROVE  /\ Head(s).call # "open in" => FitWord(Tail(s))
         /\ Head(s).call = "open in" => Tail(s) # <<>> /\ Fit(Tail(s)) /\ Head(Tail(s)).call = "pic"
         /\ Head(s).call \notin {"first", "next"}
<1>1. PICK n \in Nat : Len(s) = n + 1
  <2>1. Len(s) - 1 \in Nat /\ Len(s) = (Len(s) - 1) + 1
    OBVIOUS
  <2>. QED
    BY <2>1
<1>2. PICK t \in Seq(AnyCall) : t = Tail(s) /\ Len(t) = n /\ \A k \in 1 .. n : t[k] = s[k + 1]
  <2>1. Tail(s) \in Seq(AnyCall) /\ Len(Tail(s)) = n /\ \A k \in 1 .. n : Tail(s)[k] = s[k + 1]
    BY <1>1
  <2>. QED
    BY <2>1, Zenon
<1>3. /\ \A k \in 1 .. n + 1 : s[k].call \notin {"first", "next"}
      /\ \A k \in 1 .. n : s[k].call = "open in" <=> s[k + 1].call = "pic"
      /\ s[n + 1].call # "open in"
  <2>1. (n + 1) - 1 = n
    BY <1>1
  <2>. QED
    BY <1>1, <2>1 DEF Fit
<1>4. Head(s) = s[1] /\ 1 \in 1 .. n + 1
  BY <1>1
<1>5. CASE n = 0
  <2>1. t = <<>> /\ Len(t) = 0
    BY <1>2, <1>5
  <2>2. Head(s).call # "open in"
    <3>1. s[n + 1] = s[1]
      BY <1>5
    <3>. QED
      BY <1>3, <1>4, <3>1
  <2>3. FitWord(t)
    <3>1. (\A k : ~ (k \in 1 .. Len(t))) /\ (\A k : ~ (k \in 1 .. Len(t) - 1))
      BY <2>1
    <3>. QED
      BY <2>1, <3>1, Zenon DEF FitWord, Fit
  <2>. QED
    BY <1>2, <1>3, <1>4, <2>2, <2>3
<1>6. CASE n # 0
  <2>1. PICK m \in Nat : n = m + 1
    BY <1>6
  <2>2. t # <<>> /\ Head(t) = t[1] /\ t[1] = s[2] /\ 1 \in 1 .. n
    <3>1. 1 \in 1 .. n /\ 1 + 1 = 2
      BY <2>1
    <3>2. t[1] = s[2]
      BY <1>2, <3>1, Zenon
    <3>3. t # <<>>
      <4>1. Len(t) # 0
        BY <1>2, <2>1
      <4>. QED
        BY <4>1
    <3>. QED
      BY <3>1, <3>2, <3>3
  <2>3. Fit(t)
    <3>1. \A k \in 1 .. n : t[k].call \notin {"first", "next"}
      <4>1. \A k \in 1 .. n : k + 1 \in 1 .. n + 1
        OBVIOUS
      <4>. QED
        BY <1>2, <1>3, <4>1, Zenon
    <3>2. ASSUME NEW k \in 1 .. n - 1 PROVE t[k].call = "open in" <=> t[k + 1].call = "pic"
      <4>1. k \in 1 .. n /\ k + 1 \in 1 .. n
        OBVIOUS
      <4>2. t[k] = s[k + 1] /\ t[k + 1] = s[(k + 1) + 1]
        BY <1>2, <4>1, Zenon
      <4>3. s[k + 1].call = "open in" <=> s[(k + 1) + 1].call = "pic"
        BY <1>3, <4>1, Zenon
      <4>. QED
        BY <4>2, <4>3, Zenon
    <3>3. t[n].call # "open in"
      <4>1. n \in 1 .. n
        BY <2>1
      <4>. QED
        BY <1>2, <1>3, <4>1
    <3>. QED
      BY <1>2, <3>1, <3>2, <3>3 DEF Fit
  <2>4. s[1].call = "open in" <=> s[2].call = "pic"
    <3>1. 1 + 1 = 2
      OBVIOUS
    <3>. QED
      BY <1>3, <2>2, <3>1, Zenon
  <2>. QED
    BY <1>2, <1>3, <1>4, <2>2, <2>3, <2>4 DEF FitWord
<1>. QED
  BY <1>5, <1>6

LEMMA FitsTogether ==
  ASSUME NEW s \in Seq(AnyCall), NEW t \in Seq(AnyCall), FitWord(s), FitWord(t)
  PROVE  FitWord(s \o t)
<1>1. CASE s = <<>>
  <2>1. s \o t = t
    BY <1>1
  <2>. QED
    BY <2>1
<1>2. CASE t = <<>>
  <2>1. s \o t = s
    BY <1>2
  <2>. QED
    BY <2>1
<1>3. CASE s # <<>> /\ t # <<>>
  <2>1. PICK m \in Nat, n \in Nat : Len(s) = m + 1 /\ Len(t) = n + 1
    <3>1. Len(s) - 1 \in Nat /\ Len(s) = (Len(s) - 1) + 1 /\ Len(t) - 1 \in Nat /\ Len(t) = (Len(t) - 1) + 1
      BY <1>3
    <3>. QED
      BY <3>1
  <2>2. PICK u \in Seq(AnyCall) : /\ u = s \o t /\ Len(u) = (m + 1) + (n + 1)
                                /\ \A k \in 1 .. (m + 1) + (n + 1) : u[k] = IF k <= m + 1 THEN s[k] ELSE t[k - (m + 1)]
    <3>1. s \o t \in Seq(AnyCall) /\ Len(s \o t) = Len(s) + Len(t)
      BY ConcatProperties
    <3>2. \A k \in 1 .. Len(s) + Len(t) : (s \o t)[k] = IF k <= Len(s) THEN s[k] ELSE t[k - Len(s)]
      BY ConcatProperties
    <3>. QED
      BY <2>1, <3>1, <3>2, Zenon
  <2>3. /\ \A k \in 1 .. m + 1 : s[k].call \notin {"first", "next"}
        /\ \A k \in 1 .. m : s[k].call = "open in" <=> s[k + 1].call = "pic"
        /\ s[m + 1].call # "open in" /\ s[1].call # "pic"
    <3>1. (m + 1) - 1 = m /\ Head(s) = s[1]
      BY <1>3, <2>1
    <3>. QED
      BY <1>3, <2>1, <3>1 DEF FitWord, Fit
  <2>4. /\ \A k \in 1 .. n + 1 : t[k].call \notin {"first", "next"}
        /\ \A k \in 1 .. n : t[k].call = "open in" <=> t[k + 1].call = "pic"
        /\ t[n + 1].call # "open in" /\ t[1].call # "pic"
    <3>1. (n + 1) - 1 = n /\ Head(t) = t[1]
      BY <1>3, <2>1
    <3>. QED
      BY <1>3, <2>1, <3>1 DEF FitWord, Fit
  <2>5. /\ \A k \in 1 .. m + 1 : u[k] = s[k]
        /\ \A k \in 1 .. n + 1 : u[(m + 1) + k] = t[k]
    <3>1. \A k \in 1 .. m + 1 : k \in 1 .. (m + 1) + (n + 1) /\ k <= m + 1
      OBVIOUS
    <3>2. \A k \in 1 .. n + 1 : (m + 1) + k \in 1 .. (m + 1) + (n + 1) /\ ~ ((m + 1) + k <= m + 1)
                                /\ ((m + 1) + k) - (m + 1) = k
      OBVIOUS
    <3>. QED
      BY <2>2, <3>1, <3>2, Zenon
  <2>6. ASSUME NEW k \in 1 .. (m + 1) + (n + 1)
        PROVE  u[k].call \notin {"first", "next"}
    <3>1. CASE k \in 1 .. m + 1
      BY <2>3, <2>5, <3>1
    <3>2. CASE k \notin 1 .. m + 1
      <4>1. PICK j \in 1 .. n + 1 : k = (m + 1) + j
        <5>1. k - (m + 1) \in 1 .. n + 1 /\ k = (m + 1) + (k - (m + 1))
          BY <3>2
        <5>. QED
          BY <5>1
      <4>. QED
        BY <2>4, <2>5, <4>1, Zenon
    <3>. QED
      BY <3>1, <3>2
  <2>7. ASSUME NEW k \in 1 .. ((m + 1) + (n + 1)) - 1
        PROVE  u[k].call = "open in" <=> u[k + 1].call = "pic"
    <3>1. CASE k \in 1 .. m
      <4>1. k \in 1 .. m + 1 /\ k + 1 \in 1 .. m + 1
        BY <3>1
      <4>2. u[k] = s[k] /\ u[k + 1] = s[k + 1]
        BY <2>5, <4>1, Zenon
      <4>. QED
        BY <2>3, <3>1, <4>2, Zenon
    <3>2. CASE k = m + 1
      <4>1. 1 \in 1 .. n + 1 /\ m + 1 \in 1 .. m + 1
        OBVIOUS
      <4>2. u[k] = s[m + 1] /\ u[k + 1] = t[1]
        BY <2>5, <3>2, <4>1, Zenon
      <4>. QED
        BY <2>3, <2>4, <4>2
    <3>3. CASE k \notin 1 .. m + 1
      <4>1. PICK j \in 1 .. n : k = (m + 1) + j /\ k + 1 = (m + 1) + (j + 1) /\ j + 1 \in 1 .. n + 1 /\ j \in 1 .. n + 1
        <5>1. /\ k - (m + 1) \in 1 .. n /\ k = (m + 1) + (k - (m + 1))
              /\ k + 1 = (m + 1) + ((k - (m + 1)) + 1)
              /\ (k - (m + 1)) + 1 \in 1 .. n + 1 /\ k - (m + 1) \in 1 .. n + 1
          BY <3>3
        <5>. QED
          BY <5>1
      <4>2. u[k] = t[j] /\ u[k + 1] = t[j + 1]
        BY <2>5, <4>1, Zenon
      <4>. QED
        BY <2>4, <4>2, Zenon
    <3>4. k \in 1 .. m \/ k = m + 1 \/ k \notin 1 .. m + 1
      OBVIOUS
    <3>. QED
      BY <3>1, <3>2, <3>3, <3>4
  <2>8. u[(m + 1) + (n + 1)].call # "open in" /\ u[1].call # "pic"
    <3>1. n + 1 \in 1 .. n + 1 /\ 1 \in 1 .. m + 1
      OBVIOUS
    <3>2. u[(m + 1) + (n + 1)] = t[n + 1] /\ u[1] = s[1]
      BY <2>5, <3>1, Zenon
    <3>. QED
      BY <2>3, <2>4, <3>2, Zenon
  <2>9. u # <<>> /\ Head(u) = u[1]
    BY <2>2
  <2>10. Fit(u)
    BY <2>2, <2>6, <2>7, <2>8, Zenon DEF Fit
  <2>11. FitWord(u)
    BY <2>8, <2>9, <2>10, Zenon DEF FitWord
  <2>. QED
    BY <2>2, <2>11, Zenon
<1>. QED
  BY <1>1, <1>2, <1>3

LEMMA ByThree ==
  ASSUME NEW q \in Nat
  PROVE  \/ q % 3 = 0 /\ (q + 1) % 3 = 1
         \/ q % 3 = 1 /\ (q + 1) % 3 = 2
         \/ q % 3 = 2 /\ (q + 1) % 3 = 0
OBVIOUS

LEMMA LoadsFit ==
  ASSUME NEW reads \in Seq(Seq(Nat))
  PROVE  FitWord(Loads(reads)) /\ Loads(reads) \in Seq(AnyCall)
<1>1. PICK l \in Nat : l = Len(reads)
  OBVIOUS
<1>2. PICK u \in Seq(AnyCall) : u = Loads(reads)
  BY LoadsAreIn, AnyCallIs, SeqMonotonic
<1>3. u = [k \in 1 .. (3 * l) |-> Load1(reads[(k + 2) \div 3])[((k - 1) % 3) + 1]]
  BY <1>1, <1>2 DEF Loads
<1>4. \A n : Load1(n)[1].call = "open in" /\ Load1(n)[2].call = "pic" /\ Load1(n)[3].call = "close in"
  BY DEF Load1, C
<1>5. ASSUME NEW k \in 1 .. (3 * l)
      PROVE  /\ (k - 1) % 3 = 0 => u[k].call = "open in"
             /\ (k - 1) % 3 = 1 => u[k].call = "pic"
             /\ (k - 1) % 3 = 2 => u[k].call = "close in"
  <2>1. PICK x : u[k] = Load1(x)[((k - 1) % 3) + 1]
    BY <1>3
  <2>2. PICK j : j = (k - 1) % 3
    OBVIOUS
  <2>3. 0 + 1 = 1 /\ 1 + 1 = 2 /\ 2 + 1 = 3
    OBVIOUS
  <2>. QED
    BY <1>4, <2>1, <2>2, <2>3, Zenon
<1>6. Len(u) = 3 * l
  <2>1. DOMAIN u = 1 .. (3 * l)
    BY <1>3
  <2>2. DOMAIN u = 1 .. Len(u) /\ Len(u) \in Nat /\ 3 * l \in Nat
    OBVIOUS
  <2>. QED
    BY <2>1, <2>2
<1>7. ASSUME NEW k \in 1 .. (3 * l) PROVE u[k].call \notin {"first", "next"}
  <2>1. (k - 1) % 3 = 0 \/ (k - 1) % 3 = 1 \/ (k - 1) % 3 = 2
    OBVIOUS
  <2>. QED
    BY <1>5, <2>1
<1>8. ASSUME NEW k \in 1 .. (3 * l) - 1 PROVE u[k].call = "open in" <=> u[k + 1].call = "pic"
  <2>1. k \in 1 .. (3 * l) /\ k + 1 \in 1 .. (3 * l) /\ (k + 1) - 1 = k
    OBVIOUS
  <2>2. \/ (k - 1) % 3 = 0 /\ k % 3 = 1
        \/ (k - 1) % 3 = 1 /\ k % 3 = 2
        \/ (k - 1) % 3 = 2 /\ k % 3 = 0
    <3>1. PICK q \in Nat : k - 1 = q /\ k = q + 1
      OBVIOUS
    <3>. QED
      BY <3>1, ByThree, Zenon
  <2>3. /\ k % 3 = 0 => u[k + 1].call = "open in"
        /\ k % 3 = 1 => u[k + 1].call = "pic"
        /\ k % 3 = 2 => u[k + 1].call = "close in"
    BY <1>5, <2>1
  <2>. QED
    BY <1>5, <2>1, <2>2, <2>3
<1>9. ASSUME u # <<>> PROVE u[Len(u)].call # "open in" /\ Head(u).call # "pic"
  <2>1. 3 * l # 0 /\ l # 0
    BY <1>6, <1>9
  <2>2. 3 * l \in 1 .. (3 * l) /\ (3 * l - 1) % 3 = 2 /\ 1 \in 1 .. (3 * l) /\ (1 - 1) % 3 = 0
    BY <2>1
  <2>3. Head(u) = u[1]
    BY <1>9
  <2>. QED
    BY <1>5, <1>6, <2>2, <2>3
<1>10. FitWord(u)
  BY <1>6, <1>7, <1>8, <1>9, Zenon DEF FitWord, Fit
<1>. QED
  BY <1>2, <1>10, Zenon

-----------------------------------------------------------------------------
(* Pipes that plain videos, and pairs, do not need.                        *)

LEMMA PlainNext == SynthTyped /\ PlainInv /\ [Next]_vars => PlainInv'
<1>. SUFFICES ASSUME SynthTyped, PlainInv, [Next]_vars PROVE PlainInv'
  OBVIOUS
<1>1. /\ scene' = scene /\ Sink' = Sink /\ Source' = Source
      /\ PipesTyped /\ "in" \in Ends /\ "out" \in Ends /\ DOMAIN fp = Ends /\ DOMAIN child = Ends
  BY SceneStays, BothStays DEF SynthTyped, PipesTyped, Ends
<1>2. CASE UNCHANGED <<fp, child>>
  BY <1>1, <1>2 DEF PlainInv
<1>3. ASSUME \A e \in Ends : child'[e] = child[e] \/ child'[e] = "none" \/ (child[e] = "runs" /\ child'[e] = "ended"),
             \A e \in Ends : fp'[e] = fp[e] \/ fp'[e] # "pipe"
      PROVE  PlainInv'
  BY <1>1, <1>3 DEF PlainInv
<1>4. ASSUME MainDies PROVE PlainInv'
  BY <1>1, <1>3, <1>4 DEF MainDies
<1>5. CASE Start \/ Top \/ PickFrame \/ PlacePicture \/ PlacePlain \/ UNCHANGED vars
  <2>1. UNCHANGED <<fp, child>>
    BY <1>5, Zenon DEF Start, Top, PickFrame, PlacePicture, PlacePlain, vars, pipeVars
  <2>. QED
    BY <1>2, <2>1
<1>6. CASE PickSample \/ PickRef \/ ReadEof \/ SigPipe \/ Exit \/ FindPair \/ MakeSink
  <2>1. UNCHANGED <<fp, child>> \/ MainDies
    BY <1>6, Zenon DEF PickSample, PickRef, ReadEof, SigPipe, Exit, FindPair, MakeSink, Aborts, pipeVars
  <2>. QED
    BY <1>2, <1>4, <2>1
<1>7. CASE OpenIn
  <2>1. PICK parts : IF Source = "vid" /\ scene.src.plain THEN OpenReaderFile(parts) ELSE OpenReader(parts)
    BY <1>7 DEF OpenIn
  <2>2. CASE Source = "vid" /\ scene.src.plain
    <3>1. child' = child /\ fp' = [fp EXCEPT !["in"] = "file"]
      BY <2>1, <2>2 DEF OpenReaderFile
    <3>. QED
      BY <1>1, <1>3, <3>1
  <2>3. CASE ~ (Source = "vid" /\ scene.src.plain)
    <3>1. fp'["out"] = fp["out"]
      BY <1>1, <2>1, <2>3 DEF OpenReader
    <3>. QED
      BY <1>1, <2>3, <3>1 DEF PlainInv
  <2>. QED
    BY <2>2, <2>3
<1>8. CASE OpenOut
  <2>1. IF Plain THEN OpenWriterFile ELSE OpenWriter
    BY <1>8 DEF OpenOut
  <2>2. child'["in"] = child["in"]
    BY <1>1, <2>1 DEF OpenWriterFile, OpenWriter, Ends
  <2>3. Sink = "vid" /\ scene.out.plain => fp'["out"] = "file"
    BY <1>1, <2>1 DEF OpenWriterFile, Plain
  <2>. QED
    BY <1>1, <2>2, <2>3 DEF PlainInv
<1>9. CASE Read \/ Write \/ Push
  <2>1. UNCHANGED <<fp, child>>
    BY <1>9, Zenon DEF Read, Write, Push, TakePart, Save, PushPart, pipeVars
  <2>. QED
    BY <1>2, <2>1
<1>10. CASE CloseIn \/ CloseOut \/ LetGoOut \/ ReapIn \/ ReapOut
  <2>1. UNCHANGED <<fp, child>> \/ (\E e \in Ends : LetGo(e)) \/ (\E e \in Ends : Reap(e))
    BY <1>1, <1>10, Zenon DEF CloseIn, CloseOut, LetGoOut, ReapIn, ReapOut, Flush, pipeVars
  <2>2. ASSUME NEW e \in Ends, LetGo(e) PROVE PlainInv'
    <3>1. child' = child /\ fp' = [fp EXCEPT ![e] = "none"]
      BY <2>2 DEF LetGo
    <3>. QED
      BY <1>1, <1>3, <3>1
  <2>3. ASSUME NEW e \in Ends, Reap(e) PROVE PlainInv'
    <3>1. fp' = fp /\ child' = [child EXCEPT ![e] = "none"]
      BY <2>3 DEF Reap
    <3>. QED
      BY <1>1, <1>3, <3>1
  <2>. QED
    BY <1>2, <2>1, <2>2, <2>3
<1>11. CASE ReaderChild \/ WriterChild \/ Death
  <2>1. UNCHANGED <<fp, child>> \/ \E e \in Ends : fp' = fp /\ child[e] = "runs" /\ child' = [child EXCEPT ![e] = "ended"]
    BY <1>1, <1>11, Zenon DEF ReaderChild, WriterChild, Death, ChildWrites, ReaderEnds, ChildReads, WriterEnds, ChildDies, Exits
  <2>. QED
    BY <1>1, <1>2, <1>3, <2>1
<1>. QED
  BY <1>5, <1>6, <1>7, <1>8, <1>9, <1>10, <1>11 DEF Next, MainStep

\* The calls of the source that a pick, or a find, makes necessary.
LEMMA PickReads ==
  ASSUME SynthInv, PickSample
  PROVE  \/ Aborts
         \/ /\ UNCHANGED <<scene, at, readVars, pipeVars>>
            /\ \E reads \in Seq(Seq(Nat)) : todo' = Loads(reads) \o Tail(todo) \/ todo' = Loads(reads) \o Finish
<1>1. /\ scene \in Scenes /\ Source # "vid" /\ scene.opt.trav # "refs"
  BY DEF SynthInv, PickSample
<1>2. IsTree(scene.tree) /\ kl \in States(scene.tree)
  BY <1>1, SceneAssumption DEF SynthInv, IdiInRange
<1>3. PICK r \in Pick(scene.tree, scene.opt, kl) :
          \/ /\ todo' = Loads(r.reads) \o IF r.ret = "sample" THEN Tail(todo) ELSE Finish
             /\ UNCHANGED <<scene, at, readVars, pipeVars>>
          \/ Aborts
  BY Zenon DEF PickSample
<1>4. r.reads \in Seq(Seq(Nat))
  BY <1>2, PickIsGood DEF GoodPick
<1>. QED
  BY <1>3, <1>4, Zenon

LEMMA PairReads ==
  ASSUME SynthInv, FindPair
  PROVE  \/ Aborts
         \/ /\ UNCHANGED <<scene, at, readVars, pipeVars>>
            /\ \E reads \in Seq(Seq(Nat)) : todo' = Loads(reads) \o <<C("top")>>
<1>1. PICK found : found = Find(scene.tgt, hand.id)
  OBVIOUS
<1>2. \/ Aborts
      \/ /\ found # NoSample /\ todo' = Loads(Reads(scene.tgt, found.of, tkl)) \o <<C("top")>>
         /\ UNCHANGED <<scene, at, readVars, pipeVars>>
  BY <1>1, Zenon DEF FindPair
<1>3. IsTree(scene.tgt)
  BY SceneAssumption DEF SynthInv
<1>4. found # NoSample => found.of \in DOMAIN scene.tgt
  BY <1>1, <1>3, FindIsGood DEF SynthInv, HandKnown
<1>5. found # NoSample => Reads(scene.tgt, found.of, tkl) \in Seq(Seq(Nat))
  BY <1>3, <1>4, ReadsAre
<1>. QED
  BY <1>2, <1>5, Zenon

LEMMA PairWords ==
  /\ <<>> \in Seq(PairCall) /\ <<C("top")>> \in Seq(PairCall) /\ <<C("next")>> \in Seq(PairCall)
  /\ <<C("close in")>> \in Seq(PairCall) /\ <<C("reap in")>> \in Seq(PairCall)
  /\ <<C("sink"), C("top")>> \in Seq(PairCall) /\ <<C("pick"), C("find")>> \in Seq(PairCall)
  /\ <<C("push"), C("let go out"), C("reap out")>> \in Seq(PairCall)
  /\ LoadVid \in Seq(PairCall) /\ Finish \in Seq(PairCall)
  /\ \A reads \in Seq(Seq(Nat)) : Loads(reads) \in Seq(PairCall)
<1>1. \A a \in PairCall : <<>> \in Seq(PairCall) /\ <<a>> \in Seq(PairCall)
  BY Few
<1>2. \A a \in PairCall, b \in PairCall : <<a, b>> \in Seq(PairCall)
  BY Few
<1>3. \A a \in PairCall, b \in PairCall, c \in PairCall : <<a, b, c>> \in Seq(PairCall)
  BY Few
<1>5. /\ C("open in") \in PairCall /\ C("close in") \in PairCall /\ C("first") \in PairCall /\ C("next") \in PairCall
      /\ C("sink") \in PairCall /\ C("top") \in PairCall /\ C("pick") \in PairCall /\ C("push") \in PairCall
      /\ C("close out") \in PairCall /\ C("let go out") \in PairCall /\ C("reap in") \in PairCall
      /\ C("reap out") \in PairCall /\ C("exit") \in PairCall /\ C("find") \in PairCall
  BY CallIs DEF PairCall
<1>6. LoadVid \in Seq(PairCall) /\ Finish \in Seq(PairCall)
  BY <1>2, <1>3, <1>5, Zenon DEF LoadVid, Finish
<1>7. /\ <<>> \in Seq(PairCall) /\ <<C("top")>> \in Seq(PairCall) /\ <<C("next")>> \in Seq(PairCall)
      /\ <<C("close in")>> \in Seq(PairCall) /\ <<C("reap in")>> \in Seq(PairCall)
  BY <1>1, <1>5, Zenon
<1>8. /\ <<C("sink"), C("top")>> \in Seq(PairCall) /\ <<C("pick"), C("find")>> \in Seq(PairCall)
  BY <1>2, <1>5, Zenon
<1>9. <<C("push"), C("let go out"), C("reap out")>> \in Seq(PairCall)
  BY <1>3, <1>5, Zenon
<1>10. InCall \subseteq PairCall
  BY AnyCallIs DEF InCall, PairCall
<1>11. ASSUME NEW reads \in Seq(Seq(Nat)) PROVE Loads(reads) \in Seq(PairCall)
  BY <1>10, LoadsAreIn, SeqMonotonic
<1>. QED
  BY <1>6, <1>7, <1>8, <1>9, <1>11, Zenon

LEMMA PairNext == SynthInv /\ SynthTyped /\ PairInv /\ [Next]_vars => PairInv'
<1>. SUFFICES ASSUME SynthInv, SynthTyped, PairInv, [Next]_vars, scene'.cmd = "pairs"
              PROVE  child'["out"] = "none" /\ todo' \in Seq(PairCall)
  BY DEF PairInv
<1>1. /\ scene' = scene /\ scene.cmd = "pairs" /\ child["out"] = "none" /\ todo \in Seq(PairCall)
      /\ PipesTyped /\ "in" \in Ends /\ "out" \in Ends /\ DOMAIN child = Ends
  BY SceneStays DEF SynthTyped, PipesTyped, Ends, PairInv
<1>t. todo # <<>> => Tail(todo) \in Seq(PairCall) /\ Head(todo) \in PairCall
  <2>1. PICK s \in Seq(PairCall) : s = todo
    BY <1>1
  <2>2. s # <<>> => Tail(s) \in Seq(PairCall) /\ Head(s) \in PairCall
    OBVIOUS
  <2>. QED
    BY <2>1, <2>2, Zenon
<1>h. ~ At("place") /\ ~ At("open out")
  BY <1>t DEF At, PairCall
<1>2. \A s \in Seq(PairCall) : Then(s) /\ todo # <<>> => todo' \in Seq(PairCall)
  BY <1>t, Joined, Zenon DEF Then
<1>3. ASSUME Aborts PROVE child'["out"] = "none" /\ todo' \in Seq(PairCall)
  BY <1>1, <1>3, PairWords DEF Aborts, MainDies
<1>4. ~ PlacePicture /\ ~ PlacePlain /\ ~ OpenOut
  BY <1>h DEF PlacePicture, PlacePlain, OpenOut
<1>5. CASE Start
  <2>1. child' = child
    BY <1>5 DEF Start, pipeVars
  <2>2. todo' = todo \/ todo' = <<C("top")>>
    BY <1>1, <1>5, Zenon DEF Start
  <2>. QED
    BY <1>1, <2>1, <2>2, PairWords
<1>6. CASE Top
  <2>1. child' = child
    BY <1>6 DEF Top, pipeVars
  <2>2. todo' = Finish \/ todo' = <<C("pick"), C("find")>>
    BY <1>1, <1>6, Zenon DEF Top
  <2>. QED
    BY <1>1, <2>1, <2>2, PairWords
<1>7. CASE MakeSink
  <2>1. child' = child /\ todo # <<>>
    BY <1>7 DEF MakeSink, MainDies, pipeVars, At
  <2>2. todo' = <<>> \/ Then(<<>>)
    BY <1>7 DEF MakeSink
  <2>. QED
    BY <1>1, <1>2, <2>1, <2>2, PairWords
<1>8. CASE PickSample
  <2>1. CASE ~ Aborts
    <3>1. PICK reads \in Seq(Seq(Nat)) : todo' = Loads(reads) \o Tail(todo) \/ todo' = Loads(reads) \o Finish
      BY <1>8, <2>1, PickReads
    <3>2. child' = child
      BY <1>8, <2>1, PickReads DEF pipeVars
    <3>3. Loads(reads) \in Seq(PairCall) /\ Finish \in Seq(PairCall) /\ Tail(todo) \in Seq(PairCall)
      BY <1>8, <1>t, PairWords DEF PickSample, At
    <3>. QED
      BY <1>1, <3>1, <3>2, <3>3, Joined, Zenon
  <2>. QED
    BY <1>3, <2>1
<1>9. CASE PickRef
  <2>1. CASE ~ Aborts
    <3>1. todo' = Finish \/ \E reads \in Seq(Seq(Nat)) : Then(Loads(reads))
      BY <1>9, <2>1, RefReads
    <3>2. child' = child /\ todo # <<>>
      <4>1. UNCHANGED pipeVars
        BY <1>9, <2>1, Zenon DEF PickRef
      <4>. QED
        BY <1>9, <4>1 DEF pipeVars, PickRef, At
    <3>. QED
      BY <1>1, <1>2, <3>1, <3>2, PairWords
  <2>. QED
    BY <1>3, <2>1
<1>10. CASE PickFrame
  <2>1. child' = child /\ todo # <<>>
    BY <1>10 DEF PickFrame, pipeVars, At
  <2>2. todo' = LoadVid \o Finish \/ Then(<<C("next")>>)
    BY <1>10, Zenon DEF PickFrame
  <2>. QED
    BY <1>1, <1>2, <2>1, <2>2, PairWords, Joined, Zenon
<1>11. CASE OpenIn
  <2>1. Then(<<>>) /\ todo # <<>>
    BY <1>11, Zenon DEF OpenIn, At
  <2>2. PICK parts : OpenReader(parts) \/ OpenReaderFile(parts)
    BY <1>11, Zenon DEF OpenIn
  <2>3. child'["out"] = child["out"]
    BY <1>1, <2>2 DEF OpenReader, OpenReaderFile, Ends
  <2>. QED
    BY <1>1, <1>2, <2>1, <2>3, PairWords
<1>12. CASE Read
  <2>1. (Then(<<>>) \/ todo' = todo) /\ todo # <<>> /\ child' = child
    BY <1>12, Zenon DEF Read, Reading, At, TakePart
  <2>. QED
    BY <1>1, <1>2, <2>1, PairWords
<1>13. CASE ReadEof
  <2>1. CASE ~ Aborts
    <3>1. Then(<<C("close in")>> \o IF scene.opt.repeat THEN LoadVid ELSE <<>>) /\ todo # <<>> /\ UNCHANGED pipeVars
      BY <1>13, <2>1, Zenon DEF ReadEof, Reading, At
    <3>2. (<<C("close in")>> \o IF scene.opt.repeat THEN LoadVid ELSE <<>>) \in Seq(PairCall)
      BY PairWords, Joined
    <3>. QED
      BY <1>1, <1>2, <3>1, <3>2 DEF pipeVars
  <2>. QED
    BY <1>3, <2>1
<1>14. CASE CloseIn
  <2>1. (Then(<<>>) \/ Then(<<C("reap in")>>)) /\ todo # <<>>
    BY <1>14, Zenon DEF CloseIn, At
  <2>2. child' = child
    BY <1>14 DEF CloseIn, LetGo, pipeVars
  <2>. QED
    BY <1>1, <1>2, <2>1, <2>2, PairWords
<1>15. CASE ReapIn
  <2>1. Then(<<>>) /\ todo # <<>> /\ child'["out"] = child["out"]
    BY <1>1, <1>15 DEF ReapIn, At, Reap, Ends
  <2>. QED
    BY <1>1, <1>2, <2>1, PairWords
<1>16. CASE Write \/ Push
  <2>1. (Then(<<>>) \/ todo' = todo) /\ todo # <<>> /\ child' = child
    BY <1>16, Zenon DEF Write, Push, At, Save, PushPart, pipeVars
  <2>. QED
    BY <1>1, <1>2, <2>1, PairWords
<1>17. CASE SigPipe \/ (Exit /\ Aborts)
  BY <1>3, <1>17 DEF SigPipe
<1>18. CASE Exit /\ ~ Aborts
  <2>1. todo' = <<>> /\ child' = child
    BY <1>18, Zenon DEF Exit, pipeVars
  <2>. QED
    BY <1>1, <2>1, PairWords
<1>19. CASE CloseOut
  <2>1. (Then(<<>>) \/ Then(<<C("push"), C("let go out"), C("reap out")>>)) /\ todo # <<>>
    BY <1>19, Zenon DEF CloseOut, At
  <2>2. child' = child
    BY <1>19 DEF CloseOut, Flush, pipeVars
  <2>. QED
    BY <1>1, <1>2, <2>1, <2>2, PairWords
<1>20. CASE LetGoOut
  <2>1. Then(<<>>) /\ todo # <<>> /\ child' = child
    BY <1>20 DEF LetGoOut, At, LetGo
  <2>. QED
    BY <1>1, <1>2, <2>1, PairWords
<1>21. CASE ReapOut
  <2>1. Then(<<>>) /\ todo # <<>> /\ child'["out"] = "none"
    BY <1>1, <1>21 DEF ReapOut, At, Reap
  <2>. QED
    BY <1>1, <1>2, <2>1, PairWords
<1>22. CASE FindPair
  <2>1. CASE ~ Aborts
    <3>1. PICK reads \in Seq(Seq(Nat)) : todo' = Loads(reads) \o <<C("top")>>
      BY <1>22, <2>1, PairReads
    <3>2. child' = child
      BY <1>22, <2>1, PairReads DEF pipeVars
    <3>. QED
      BY <1>1, <3>1, <3>2, PairWords, Joined
  <2>. QED
    BY <1>3, <2>1
<1>23. CASE ReaderChild \/ WriterChild \/ Death \/ UNCHANGED vars
  <2>1. todo' = todo
    BY <1>23 DEF ReaderChild, WriterChild, Death, mainVars, vars
  <2>2. child' = child \/ \E e \in Ends : child[e] = "runs" /\ child' = [child EXCEPT ![e] = "ended"]
    BY <1>1, <1>23, Zenon DEF ReaderChild, WriterChild, Death, ChildWrites, ReaderEnds, ChildReads, WriterEnds, ChildDies,
       Exits, vars, pipeVars
  <2>. QED
    BY <1>1, <2>1, <2>2
<1>. QED
  BY <1>4, <1>5, <1>6, <1>7, <1>8, <1>9, <1>10, <1>11, <1>12, <1>13, <1>14, <1>15, <1>16, <1>17, <1>18, <1>19, <1>20,
     <1>21, <1>22, <1>23 DEF Next, MainStep

-----------------------------------------------------------------------------
(* A source of pictures: what is opened is read to its end.                *)

LEMMA EasyWords ==
  /\ <<>> \in Seq(EasyCall) /\ <<C("top")>> \in Seq(EasyCall) /\ <<C("reap in")>> \in Seq(EasyCall)
  /\ <<C("sink"), C("top")>> \in Seq(EasyCall) /\ <<C("pick"), C("place")>> \in Seq(EasyCall)
  /\ <<C("push"), C("let go out"), C("reap out")>> \in Seq(EasyCall)
  /\ Finish \in Seq(EasyCall)
  /\ <<C("open out"), C("write"), C("push"), C("close out")>> \o <<C("top")>> \in Seq(EasyCall)
  /\ <<C("open out"), C("write"), C("push")>> \o <<C("top")>> \in Seq(EasyCall)
  /\ <<C("write"), C("push")>> \o <<C("top")>> \in Seq(EasyCall)
<1>1. /\ C("close in") \in EasyCall /\ C("sink") \in EasyCall /\ C("top") \in EasyCall /\ C("pick") \in EasyCall
      /\ C("place") \in EasyCall /\ C("open out") \in EasyCall /\ C("write") \in EasyCall /\ C("push") \in EasyCall
      /\ C("close out") \in EasyCall /\ C("let go out") \in EasyCall /\ C("reap in") \in EasyCall
      /\ C("reap out") \in EasyCall /\ C("exit") \in EasyCall
  BY CallIs DEF EasyCall
<1>2. \A a \in EasyCall : <<>> \in Seq(EasyCall) /\ <<a>> \in Seq(EasyCall)
  BY Few
<1>3. \A a \in EasyCall, b \in EasyCall : <<a, b>> \in Seq(EasyCall)
  BY Few
<1>4. \A a \in EasyCall, b \in EasyCall, c \in EasyCall : <<a, b, c>> \in Seq(EasyCall)
  BY Few
<1>5. \A a \in EasyCall, b \in EasyCall, c \in EasyCall, d \in EasyCall : <<a, b, c, d>> \in Seq(EasyCall)
  BY Few
<1>6. /\ <<>> \in Seq(EasyCall) /\ <<C("top")>> \in Seq(EasyCall) /\ <<C("reap in")>> \in Seq(EasyCall)
  BY <1>1, <1>2, Zenon
<1>7. <<C("sink"), C("top")>> \in Seq(EasyCall) /\ <<C("pick"), C("place")>> \in Seq(EasyCall)
  BY <1>1, <1>3, Zenon
<1>8. <<C("push"), C("let go out"), C("reap out")>> \in Seq(EasyCall) /\ Finish \in Seq(EasyCall)
  BY <1>1, <1>4, Zenon DEF Finish
<1>9. /\ <<C("open out"), C("write"), C("push"), C("close out")>> \in Seq(EasyCall)
      /\ <<C("open out"), C("write"), C("push")>> \in Seq(EasyCall)
      /\ <<C("write"), C("push")>> \in Seq(EasyCall)
  BY <1>1, <1>3, <1>4, <1>5, Zenon
<1>10. \A s \in Seq(EasyCall), t \in Seq(EasyCall) : s \o t \in Seq(EasyCall)
  BY Joined
<1>11. /\ <<C("open out"), C("write"), C("push"), C("close out")>> \o <<C("top")>> \in Seq(EasyCall)
       /\ <<C("open out"), C("write"), C("push")>> \o <<C("top")>> \in Seq(EasyCall)
       /\ <<C("write"), C("push")>> \o <<C("top")>> \in Seq(EasyCall)
  BY <1>6, <1>9, <1>10, Zenon
<1>. QED
  BY <1>6, <1>7, <1>8, <1>11, Zenon

LEMMA EasyFit ==
  ASSUME NEW s \in Seq(EasyCall)
  PROVE  FitWord(s) /\ s \in Seq(AnyCall) /\ \A t \in Seq(AnyCall) : FitWord(t) => FitWord(t \o s) /\ FitWord(s \o t)
BY EasyFits, FitsTogether

\* The source is as it was, with nothing of a picture anywhere.
PicSame == UNCHANGED <<scene, have, left>> /\ data'["in"] = data["in"]
PicGo ==
  /\ SynthInv /\ SynthTyped /\ HaveInv /\ PicInv /\ scene.cmd = "synth" /\ Source # "vid"
  /\ at = "runs" /\ todo # <<>>
PicNow == at' = "runs" => /\ Fit(todo')
                          /\ IF todo' # <<>> /\ Head(todo').call = "pic"
                             THEN have' + Len(left') + Len(data'["in"]) = Parts
                             ELSE NoneLeft'

LEMMA PicFacts ==
  ASSUME PicGo
  PROVE  /\ todo \in Seq(AnyCall) /\ Fit(todo) /\ PipesTyped
         /\ IF Head(todo).call = "pic" THEN have + Len(left) + Len(data["in"]) = Parts ELSE NoneLeft
<1>1. todo \in Seq(AnyCall)
  BY AnyCallIs, Zenon DEF PicGo, SynthInv, CallsKnown
<1>. QED
  BY <1>1, Zenon DEF PicGo, PicInv, SynthTyped

LEMMA PicStays ==
  ASSUME PicSame, NoneLeft, FitWord(todo')
  PROVE  PicNow
<1>1. NoneLeft'
  BY DEF PicSame, NoneLeft
<1>. QED
  BY <1>1, Zenon DEF PicNow, FitWord

LEMMA TailIn ==
  ASSUME NEW S, NEW s \in Seq(S), s # <<>>
  PROVE  Tail(s) \in Seq(S)
OBVIOUS

LEMMA PicThen ==
  ASSUME PicGo, PicSame, Head(todo).call \notin {"open in", "pic"}, NEW s, s \in Seq(AnyCall), FitWord(s), Then(s)
  PROVE  PicNow
<1>1. todo \in Seq(AnyCall) /\ Fit(todo) /\ NoneLeft /\ todo # <<>>
  BY PicFacts DEF PicGo
<1>2. PICK w \in Seq(AnyCall) : w = todo /\ w # <<>> /\ Fit(w)
  BY <1>1
<1>3. FitWord(Tail(w)) /\ Tail(w) \in Seq(AnyCall)
  <2>1. Head(w).call # "open in"
    <3>1. Head(todo).call # "open in"
      OBVIOUS
    <3>. QED
      BY <1>2, <3>1, Zenon
  <2>2. Tail(w) \in Seq(AnyCall)
    BY <1>2, TailIn, Zenon
  <2>. QED
    BY <1>2, <2>1, <2>2, FitTails, Zenon
<1>4. FitWord(todo')
  <2>1. FitWord(s \o Tail(w))
    BY <1>3, FitsTogether
  <2>. QED
    BY <1>2, <2>1, Zenon DEF Then
<1>. QED
  BY <1>1, <1>4, PicStays

LEMMA StartPic ==
  ASSUME SynthInv, PicInv, scene.cmd = "synth", Source # "vid", at = "starts", Start
  PROVE  PicNow
<1>1. CASE Source = "error"
  BY <1>1 DEF Start, PicNow
<1>2. CASE Source # "error"
  <2>1. scene \in Scenes /\ IsTree(scene.tree) /\ <<>> \in DOMAIN scene.tree
    BY SceneAssumption DEF SynthInv, IsTree
  <2>2. PICK reads \in Seq(Seq(Nat)) : reads = Reads(scene.tree, <<>>, kl)
    BY <2>1, ReadsAre
  <2>3. todo' = Loads(reads) \o <<C("sink"), C("top")>> /\ PicSame
    <3>1. todo' = Loads(reads) \o <<C("sink"), C("top")>>
      BY <1>2, <2>2, Zenon DEF Start
    <3>. QED
      BY <3>1 DEF Start, PicSame, readVars, pipeVars
  <2>4. FitWord(todo')
    BY <2>3, EasyWords, LoadsFit, EasyFit, Zenon
  <2>5. NoneLeft
    BY DEF PicInv
  <2>. QED
    BY <2>3, <2>4, <2>5, PicStays
<1>. QED
  BY <1>1, <1>2

\* A picture is opened, and read.
LEMMA OpenInPic ==
  ASSUME PicGo, OpenIn
  PROVE  PicNow
<1>1. Head(todo).call = "open in" /\ Head(todo).call # "pic" /\ Then(<<>>) /\ UNCHANGED <<scene, have>>
  BY Zenon DEF OpenIn, At, readVars
<1>2. NoneLeft /\ PipesTyped
  BY <1>1, PicFacts
<1>3. PICK w \in Seq(AnyCall) : w = todo /\ w # <<>> /\ Fit(w)
  BY PicFacts DEF PicGo
<1>4. Tail(w) # <<>> /\ Fit(Tail(w)) /\ Head(Tail(w)).call = "pic" /\ Tail(w) \in Seq(AnyCall)
  <2>1. Head(w).call = "open in"
    BY <1>1, <1>3
  <2>2. Tail(w) \in Seq(AnyCall)
    BY <1>3
  <2>. QED
    BY <1>3, <2>1, <2>2, FitTails, Zenon
<1>5. todo' = Tail(w)
  <2>1. <<>> \o Tail(w) = Tail(w)
    BY <1>4
  <2>. QED
    BY <1>1, <1>3, <2>1, Zenon DEF Then
<1>6. PICK n : OpenReader(Cut(n))
  BY DEF OpenIn, PicGo
<1>7. Len(left') = Parts /\ data'["in"] = <<>> /\ have' = 0
  BY <1>1, <1>2, <1>6, CutIs DEF OpenReader, NoneLeft, PipesTyped, Ends
<1>8. have' + Len(left') + Len(data'["in"]) = Parts
  <2>1. Len(data'["in"]) = 0
    BY <1>7
  <2>2. Parts \in Nat /\ 0 + Parts + 0 = Parts
    BY PipeAssumption
  <2>. QED
    BY <1>7, <2>1, <2>2
<1>. QED
  BY <1>4, <1>5, <1>8, Zenon DEF PicNow

LEMMA LastPart ==
  ASSUME NEW p \in Nat, NEW h \in Nat, NEW l \in Nat, NEW d \in Nat, d > 0, h + l + d = p
  PROVE  /\ h + 1 # p => (h + 1) + l + (d - 1) = p
         /\ h + 1 = p => l = 0 /\ d - 1 = 0
OBVIOUS

LEMMA ReadPic ==
  ASSUME PicGo, Read
  PROVE  PicNow
<1>1. /\ Readable /\ TakePart /\ UNCHANGED <<scene, at>>
      /\ have' = IF have + 1 = Parts THEN 0 ELSE have + 1
      /\ IF have + 1 = Parts THEN Then(<<>>) ELSE todo' = todo
  BY HaveMore, Zenon DEF PicGo, Read
<1>2. PICK w \in Seq(AnyCall) : w = todo /\ w # <<>> /\ Fit(w)
  BY PicFacts DEF PicGo
<1>3. Head(w).call = "pic"
  <2>1. Head(w).call \notin {"first", "next"}
    BY <1>2, FitTails
  <2>. QED
    BY <1>2, <2>1 DEF Read, Reading, At
<1>4. left' = left /\ data'["in"] = Tail(data["in"]) /\ left \in Seq(InPart)
  BY <1>1, PicFacts DEF TakePart, PipesTyped, Ends
<1>5. PICK d \in Seq(InPart) : d = data["in"] /\ d # <<>>
  BY <1>1, PicFacts DEF PipesTyped, Readable
<1>6. Len(d) \in Nat /\ Len(d) > 0 /\ Len(Tail(d)) = Len(d) - 1 /\ Tail(d) \in Seq(InPart)
  BY <1>5
<1>7. PICK l \in Nat, n \in Nat : l = Len(left) /\ n = Len(d) /\ n > 0
  <2>1. Len(left) \in Nat
    BY <1>4
  <2>. QED
    BY <1>6, <2>1, Zenon
<1>8. have + l + n = Parts /\ have \in Nat
  BY <1>2, <1>3, <1>5, <1>7, PicFacts, Zenon DEF PicGo, HaveInv
<1>9. /\ have + 1 # Parts => (have + 1) + l + (n - 1) = Parts
      /\ have + 1 = Parts => l = 0 /\ n - 1 = 0
  BY <1>7, <1>8, LastPart, PipeAssumption
<1>10. CASE have + 1 # Parts
  <2>1. have' = have + 1 /\ todo' = todo /\ Len(left') = l /\ Len(data'["in"]) = n - 1
    BY <1>1, <1>4, <1>5, <1>6, <1>7, <1>10, Zenon
  <2>2. have' + Len(left') + Len(data'["in"]) = Parts
    BY <1>9, <1>10, <2>1, Zenon
  <2>. QED
    BY <1>2, <1>3, <2>1, <2>2, Zenon DEF PicNow
<1>11. CASE have + 1 = Parts
  <2>1. have' = 0 /\ Then(<<>>)
    BY <1>1, <1>11
  <2>2. Len(left) = 0 /\ Len(Tail(d)) = 0
    BY <1>6, <1>7, <1>9, <1>11, Zenon
  <2>3. left' = <<>> /\ data'["in"] = <<>>
    <3>1. \A s \in Seq(InPart) : Len(s) = 0 => s = <<>>
      OBVIOUS
    <3>. QED
      BY <1>4, <1>5, <1>6, <2>2, <3>1, Zenon
  <2>4. NoneLeft'
    BY <2>1, <2>3 DEF NoneLeft
  <2>5. Head(w).call # "open in" /\ Tail(w) \in Seq(AnyCall)
    <3>1. Head(w).call # "open in"
      <4>1. "pic" # "open in"
        OBVIOUS
      <4>. QED
        BY <1>3, <4>1, Zenon
    <3>2. \A s \in Seq(AnyCall) : s # <<>> => Tail(s) \in Seq(AnyCall)
      OBVIOUS
    <3>. QED
      BY <1>2, <3>1, <3>2, Zenon
  <2>6. FitWord(Tail(w)) /\ <<>> \o Tail(w) = Tail(w)
    <3>1. FitWord(Tail(w))
      BY <1>2, <2>5, FitTails, Zenon
    <3>2. \A s \in Seq(AnyCall) : <<>> \o s = s
      OBVIOUS
    <3>. QED
      BY <2>5, <3>1, <3>2, Zenon
  <2>7. FitWord(todo')
    BY <1>2, <2>1, <2>6, Zenon DEF Then
  <2>. QED
    BY <2>4, <2>7, Zenon DEF PicNow, FitWord
<1>. QED
  BY <1>10, <1>11

\* Picks, of samples and of ids.
LEMMA PicksPic ==
  ASSUME PicGo, PickSample \/ PickRef
  PROVE  PicNow
<1>1. CASE Aborts
  BY <1>1 DEF Aborts, PicNow
<1>2. CASE ~ Aborts
  <2>1. Head(todo).call = "pick"
    BY DEF PickSample, PickRef, At
  <2>2. PicSame
    <3>1. UNCHANGED <<scene, readVars, pipeVars>>
      BY <1>2, PickReads, Zenon DEF PicGo, PickRef
    <3>. QED
      BY <3>1 DEF PicSame, readVars, pipeVars
  <2>3. FitWord(Finish) /\ Finish \in Seq(AnyCall)
    BY EasyWords, EasyFit
  <2>4. (\E reads \in Seq(Seq(Nat)) : Then(Loads(reads)) \/ todo' = Loads(reads) \o Finish) \/ todo' = Finish
    BY <1>2, PickReads, RefReads, Zenon DEF PicGo, Then
  <2>5. CASE \E reads \in Seq(Seq(Nat)) : Then(Loads(reads))
    BY <2>1, <2>2, <2>5, LoadsFit, PicThen
  <2>6. CASE \E reads \in Seq(Seq(Nat)) : todo' = Loads(reads) \o Finish
    <3>1. FitWord(todo')
      BY <2>3, <2>6, LoadsFit, FitsTogether
    <3>. QED
      BY <2>1, <2>2, <3>1, PicFacts, PicStays
  <2>7. CASE todo' = Finish
    <3>1. FitWord(todo')
      BY <2>3, <2>7
    <3>. QED
      BY <2>1, <2>2, <3>1, PicFacts, PicStays
  <2>. QED
    BY <2>4, <2>5, <2>6, <2>7
<1>. QED
  BY <1>1, <1>2

\* Everything else that main does with its calls and leaves the source alone.
LEMMA CallsPic ==
  ASSUME PicGo, MakeSink \/ Top \/ PlacePicture \/ PlacePlain \/ Write \/ Push \/ CloseOut \/ LetGoOut
                \/ OpenOut \/ ReapOut \/ ReapIn \/ CloseIn
  PROVE  PicNow
<1>1. /\ PipesTyped /\ "in" \in Ends /\ "out" \in Ends /\ data = [e \in Ends |-> data[e]]
  BY PicFacts DEF PipesTyped, Ends
<1>2. /\ FitWord(<<>>) /\ <<>> \in Seq(AnyCall)
      /\ FitWord(<<C("reap in")>>) /\ <<C("reap in")>> \in Seq(AnyCall)
      /\ FitWord(<<C("push"), C("let go out"), C("reap out")>>)
      /\ <<C("push"), C("let go out"), C("reap out")>> \in Seq(AnyCall)
  BY EasyWords, EasyFit, Zenon
<1>3. CASE MakeSink
  <2>1. CASE Sink = "error"
    BY <1>3, <2>1 DEF MakeSink, PicNow
  <2>2. CASE Sink # "error"
    <3>1. Then(<<>>) /\ PicSame /\ Head(todo).call = "sink"
      BY <1>3, <2>2 DEF MakeSink, At, PicSame, readVars, pipeVars
    <3>. QED
      BY <1>2, <3>1, PicThen
  <2>. QED
    BY <2>1, <2>2
<1>4. CASE Top
  <2>1. (todo' = Finish \/ todo' = <<C("pick"), C("place")>>) /\ Head(todo).call = "top" /\ PicSame
    <3>1. todo' = Finish \/ todo' = <<C("pick"), C("place")>>
      <4>1. scene.cmd # "pairs"
        BY DEF PicGo
      <4>. QED
        BY <1>4, <4>1, Zenon DEF Top
    <3>. QED
      BY <1>4, <3>1 DEF Top, At, PicSame, readVars, pipeVars
  <2>2. FitWord(todo')
    BY <2>1, EasyWords, EasyFit, Zenon
  <2>. QED
    BY <2>1, <2>2, PicFacts, PicStays
<1>5. CASE PlacePicture
  <2>1. /\ todo' \in {<<C("open out"), C("write"), C("push"), C("close out")>> \o <<C("top")>>,
                      <<C("open out"), C("write"), C("push")>> \o <<C("top")>>,
                      <<C("write"), C("push")>> \o <<C("top")>>}
    BY <1>5, Zenon DEF PlacePicture
  <2>2. Head(todo).call = "place" /\ PicSame
    BY <1>5 DEF PlacePicture, At, PicSame, readVars, pipeVars
  <2>3. FitWord(todo')
    BY <2>1, EasyWords, EasyFit, Zenon
  <2>. QED
    BY <2>2, <2>3, PicFacts, PicStays
<1>6. CASE PlacePlain
  <2>1. (todo' = Finish \/ todo' = <<C("top")>>)
    BY <1>6, Zenon DEF PlacePlain
  <2>2. Head(todo).call = "place" /\ PicSame
    BY <1>6 DEF PlacePlain, At, PicSame, readVars, pipeVars
  <2>3. FitWord(todo')
    BY <2>1, EasyWords, EasyFit, Zenon
  <2>. QED
    BY <2>2, <2>3, PicFacts, PicStays
<1>7. CASE Write
  <2>1. Then(<<>>) /\ Head(todo).call = "write" /\ PicSame
    BY <1>7 DEF Write, At, Save, PicSame, readVars
  <2>. QED
    BY <1>2, <2>1, PicThen
<1>8. CASE Push
  <2>1. Head(todo).call = "push" /\ PicSame
    <3>1. data'["in"] = data["in"] /\ left' = left
      BY <1>1, <1>8 DEF Push, PushPart, pipeVars
    <3>. QED
      BY <1>8, <3>1 DEF Push, At, PicSame, readVars
  <2>2. CASE todo' = todo
    <3>1. FitWord(todo') /\ NoneLeft
      BY <2>1, <2>2, PicFacts DEF FitWord
    <3>. QED
      BY <2>1, <3>1, PicStays
  <2>3. CASE Then(<<>>)
    BY <1>2, <2>1, <2>3, PicThen
  <2>. QED
    BY <1>8, <2>2, <2>3 DEF Push
<1>9. CASE CloseOut
  <2>1. Head(todo).call = "close out" /\ PicSame
    BY <1>9 DEF CloseOut, Flush, At, PicSame, readVars, pipeVars
  <2>2. Then(<<>>) \/ Then(<<C("push"), C("let go out"), C("reap out")>>)
    BY <1>9, Zenon DEF CloseOut
  <2>. QED
    BY <1>2, <2>1, <2>2, PicThen
<1>10. CASE LetGoOut
  <2>1. Head(todo).call = "let go out" /\ PicSame /\ Then(<<>>)
    <3>1. data'["in"] = data["in"] /\ left' = left
      BY <1>1, <1>10 DEF LetGoOut, LetGo
    <3>. QED
      BY <1>10, <3>1 DEF LetGoOut, At, PicSame, readVars
  <2>. QED
    BY <1>2, <2>1, PicThen
<1>11. CASE OpenOut
  <2>1. Head(todo).call = "open out" /\ PicSame /\ Then(<<>>)
    <3>1. data'["in"] = data["in"] /\ left' = left
      BY <1>1, <1>11 DEF OpenOut, OpenWriter, OpenWriterFile
    <3>. QED
      BY <1>11, <3>1 DEF OpenOut, At, PicSame, readVars
  <2>. QED
    BY <1>2, <2>1, PicThen
<1>12. CASE ReapOut
  <2>1. Head(todo).call = "reap out" /\ PicSame /\ Then(<<>>)
    BY <1>12 DEF ReapOut, Reap, At, PicSame, readVars
  <2>. QED
    BY <1>2, <2>1, PicThen
<1>13. CASE ReapIn
  <2>1. Head(todo).call = "reap in" /\ PicSame /\ Then(<<>>)
    BY <1>13 DEF ReapIn, Reap, At, PicSame, readVars
  <2>. QED
    BY <1>2, <2>1, PicThen
<1>14. CASE CloseIn
  <2>1. Head(todo).call = "close in" /\ (Then(<<>>) \/ Then(<<C("reap in")>>)) /\ UNCHANGED <<scene, have>>
    BY <1>14 DEF CloseIn, At, readVars
  <2>2. NoneLeft
    BY <2>1, PicFacts
  <2>3. left' = left /\ data'["in"] = data["in"]
    BY <1>1, <1>14, <2>2 DEF CloseIn, LetGo, pipeVars, NoneLeft
  <2>4. PicSame
    BY <2>1, <2>3 DEF PicSame
  <2>. QED
    BY <1>2, <2>1, <2>4, PicThen
<1>. QED
  BY <1>3, <1>4, <1>5, <1>6, <1>7, <1>8, <1>9, <1>10, <1>11, <1>12, <1>13, <1>14

LEMMA MainPic ==
  ASSUME PicGo, MainStep
  PROVE  PicNow
<1>1. ASSUME Aborts PROVE PicNow
  BY <1>1 DEF Aborts, PicNow
<1>2. ~ PickFrame /\ ~ Start
  BY DEF PicGo, PickFrame, Start
<1>3. ~ FindPair
  <2>. SUFFICES ASSUME FindPair PROVE FALSE
    OBVIOUS
  <2>1. Head(todo) \in Calls("synth") /\ Head(todo).call = "find"
    BY CalledFor DEF PicGo, FindPair, At
  <2>. QED
    BY <2>1 DEF Calls
<1>4. ReadEof => Aborts
  <2>. SUFFICES ASSUME ReadEof, ~ Aborts PROVE FALSE
    OBVIOUS
  <2>1. Head(todo).call = "next"
    BY Zenon DEF ReadEof, At
  <2>2. PICK w \in Seq(AnyCall) : w = todo /\ w # <<>> /\ Fit(w)
    BY PicFacts DEF PicGo
  <2>3. Head(w).call \notin {"first", "next"}
    BY <2>2, FitTails
  <2>. QED
    BY <2>1, <2>2, <2>3
<1>5. CASE Exit /\ ~ Aborts
  <2>1. at' = "ended"
    BY <1>5, Zenon DEF Exit
  <2>. QED
    BY <2>1 DEF PicNow
<1>. QED
  BY <1>1, <1>2, <1>3, <1>4, <1>5, StartPic, OpenInPic, ReadPic, PicksPic, CallsPic DEF MainStep, SigPipe

LEMMA PicNext == SynthInv /\ SynthTyped /\ HaveInv /\ PicInv /\ [Next]_vars => PicInv'
<1>. SUFFICES ASSUME SynthInv, SynthTyped, HaveInv, PicInv, [Next]_vars, scene'.cmd = "synth", Source' # "vid"
              PROVE  (at' = "starts" => todo' = <<>> /\ NoneLeft') /\ PicNow
  BY Zenon DEF PicInv, PicNow
<1>1. scene' = scene /\ scene.cmd = "synth" /\ Source # "vid"
  <2>1. scene' = scene
    BY SceneStays
  <2>. QED
    BY <2>1, BothStays
<1>2. (at = "runs" /\ todo # <<>> => PicGo) /\ (at = "starts" => todo = <<>> /\ NoneLeft)
  BY <1>1, Zenon DEF PicGo, PicInv
<1>3. CASE MainStep
  <2>1. Start \/ (at = "runs" /\ todo # <<>>)
    BY <1>3, Zenon DEF MainStep, At, Reading, MakeSink, Top, PickSample, PickRef, PickFrame, OpenIn, Read, ReadEof, CloseIn,
       ReapIn, PlacePicture, PlacePlain, OpenOut, Write, Push, SigPipe, CloseOut, LetGoOut, ReapOut, Exit, FindPair
  <2>2. at' # "starts"
    <3>1. Start => at' # "starts"
      BY DEF Start
    <3>2. at' = at \/ at' \in {"aborted", "error", "ended"} \/ Start
      BY <1>3, Zenon DEF MainStep, MakeSink, Top, PickSample, PickRef, PickFrame, OpenIn, Read, ReadEof, CloseIn,
         ReapIn, PlacePicture, PlacePlain, OpenOut, Write, Push, SigPipe, CloseOut, LetGoOut, ReapOut, Exit, FindPair, Aborts
    <3>. QED
      BY <2>1, <3>1, <3>2
  <2>3. PicNow
    <3>1. Start => at = "starts"
      BY DEF Start
    <3>. QED
      BY <1>1, <1>2, <1>3, <2>1, <3>1, StartPic, MainPic
  <2>. QED
    BY <2>2, <2>3
<1>4. CASE UNCHANGED <<at, todo, have, left, data>>
  BY <1>1, <1>4 DEF PicInv, PicNow, NoneLeft
<1>5. CASE UNCHANGED vars
  <2>1. UNCHANGED <<at, todo, have, left, data>>
    BY <1>5 DEF vars, mainVars, pipeVars
  <2>. QED
    BY <1>4, <2>1
<1>6. CASE (ReaderChild /\ ~ ChildWrites) \/ (WriterChild /\ ~ ChildReads) \/ Death
  <2>1. UNCHANGED <<at, todo, have, left, data>>
    BY <1>6, Zenon DEF ReaderChild, WriterChild, Death, mainVars, ReaderEnds, WriterEnds, ChildDies
  <2>. QED
    BY <1>4, <2>1
<1>7. CASE WriterChild /\ ChildReads
  <2>1. UNCHANGED <<at, todo, have, left>> /\ data'["in"] = data["in"]
    BY <1>7 DEF WriterChild, ChildReads, mainVars, SynthTyped, PipesTyped, Ends
  <2>. QED
    BY <1>1, <2>1 DEF PicInv, PicNow, NoneLeft
<1>8. CASE ReaderChild /\ ChildWrites
  <2>1. /\ UNCHANGED <<at, todo, have>> /\ left # <<>>
        /\ data'["in"] = Append(data["in"], Head(left)) /\ left' = Tail(left)
    BY <1>8 DEF ReaderChild, ChildWrites, mainVars, SynthTyped, PipesTyped, Ends
  <2>2. PICK l \in Seq(InPart), d \in Seq(InPart) : l = left /\ d = data["in"]
    BY DEF SynthTyped, PipesTyped
  <2>3. /\ Len(Tail(l)) = Len(l) - 1 /\ Len(Append(d, Head(l))) = Len(d) + 1
        /\ Len(l) \in Nat /\ Len(d) \in Nat
    <3>1. Len(Tail(l)) = Len(l) - 1 /\ Head(l) \in InPart /\ Len(l) \in Nat /\ Len(d) \in Nat
      BY <2>1, <2>2
    <3>2. \A x \in InPart : Len(Append(d, x)) = Len(d) + 1
      OBVIOUS
    <3>. QED
      BY <3>1, <3>2
  <2>4. PICK m \in Nat, n \in Nat : m = Len(left) /\ n = Len(data["in"]) /\ Len(left') = m - 1 /\ Len(data'["in"]) = n + 1
    BY <2>1, <2>2, <2>3, Zenon
  <2>5. have \in Nat /\ have + (m - 1) + (n + 1) = have + m + n
    BY DEF HaveInv
  <2>6. ~ NoneLeft
    BY <2>1 DEF NoneLeft
  <2>7. CASE at = "runs"
    <3>1. Fit(todo) /\ todo # <<>> /\ Head(todo).call = "pic" /\ have + Len(left) + Len(data["in"]) = Parts
      BY <1>1, <2>6, <2>7, Zenon DEF PicInv
    <3>2. have' + Len(left') + Len(data'["in"]) = Parts
      BY <2>1, <2>4, <2>5, <3>1, Zenon
    <3>. QED
      BY <2>1, <2>7, <3>1, <3>2, Zenon DEF PicNow
  <2>8. CASE at # "runs"
    BY <1>2, <2>1, <2>6, <2>8 DEF PicNow
  <2>. QED
    BY <2>7, <2>8
<1>. QED
  BY <1>3, <1>5, <1>6, <1>7, <1>8 DEF Next, ReaderChild, WriterChild

-----------------------------------------------------------------------------
(* Who waits for whom.                                                     *)

SourceInv == HaveInv /\ VidInv /\ PicInv /\ PlainInv /\ PairInv

LEMMA InitSource == Init => SourceInv
<1>. SUFFICES ASSUME Init PROVE SourceInv
  OBVIOUS
<1>1. /\ at = "starts" /\ todo = <<>> /\ have = 0 /\ i = 0 /\ log = <<>> /\ left = <<>> /\ data["in"] = <<>>
      /\ fp["out"] = "none" /\ child["in"] = "none" /\ child["out"] = "none"
  BY DEF Init, PipesInit, Ends
<1>2. HaveInv /\ PicInv /\ PlainInv
  BY <1>1, PipeAssumption DEF HaveInv, PicInv, NoneLeft, PlainInv
<1>3. VidInv
  <2>1. Len(log) = 0
    BY <1>1
  <2>. QED
    BY <1>1, <2>1 DEF VidInv
<1>4. PairInv
  BY <1>1, PairWords DEF PairInv
<1>. QED
  BY <1>2, <1>3, <1>4 DEF SourceInv

LEMMA NoLess ==
  ASSUME NEW l \in Nat, NEW n \in Nat, NEW p \in Int, l # 0, l + n = p
  PROVE  p > n
OBVIOUS

LEMMA StuckIsCut ==
  ASSUME SynthInv, SynthTyped, DeliverInv, SourceInv, deaths = 0, Stuck
  PROVE  CutShort
<1>1. /\ at = "runs" /\ todo # <<>> /\ Head(todo).call = "reap in" /\ child["in"] = "runs" /\ left # <<>>
      /\ Len(data["in"]) = PipeN /\ readers["in"] = {"out"} /\ child["out"] = "runs" /\ At("reap in")
  BY Zenon DEF Stuck, At
<1>2. scene.cmd = "synth"
  BY <1>1, SceneIs DEF SourceInv, PairInv
<1>3. Settled
  <2>1. Stage
    BY <1>1, <1>2 DEF DeliverInv
  <2>. QED
    BY <1>1, <2>1, StageHead
<1>4. Sink = "vid" /\ log # <<>> /\ Holds
  BY <1>1, <1>3 DEF Settled, IdleOut, Piped
<1>5. ~ scene.out.plain
  BY <1>1, <1>4 DEF Holds, SourceInv, PlainInv, SynthTyped, PipesTyped, Ends
<1>6. Source = "vid"
  BY <1>1, <1>2 DEF SourceInv, PicInv, NoneLeft
<1>7. ~ scene.src.plain
  BY <1>1, <1>6 DEF SourceInv, PlainInv
<1>8. Both
  BY <1>2, <1>4, <1>5, <1>6, <1>7 DEF Both
<1>9. i = Len(log) /\ VidAt
  BY <1>1, <1>8 DEF SourceInv, VidInv
<1>10. Hanging
  <2>1. ~ Spent /\ ~ Again
    BY <1>1 DEF Spent, Again
  <2>2. AtReopen \/ AtReap
    BY <1>1, <1>9, VidCases
  <2>. QED
    BY <2>1, <2>2, Zenon DEF AtReopen, AtReap
<1>11. Len(log) \in Nat /\ Len(log) # 0
  <2>1. PICK l \in Seq(Logged) : l = log
    BY <1>2 DEF SynthTyped, MainTyped
  <2>. QED
    BY <1>4, <2>1
<1>12. scene.limit = Len(log) /\ ToCome = scene.frames - scene.limit - 1 /\ ToCome \in Int
  <2>1. scene.frames \in Nat /\ scene.limit \in Int /\ i = scene.limit
    BY <1>10, SceneIs DEF Hanging
  <2>. QED
    BY <1>9, <2>1 DEF ToCome
<1>13. scene.limit > 0
  BY <1>11, <1>12
<1>14. Parts * ToCome > PipeN
  <2>1. Len(left) \in Nat /\ Len(left) # 0
    <3>1. PICK l \in Seq(InPart) : l = left /\ l # <<>>
      BY <1>1 DEF SynthTyped, PipesTyped
    <3>2. Len(l) \in Nat /\ Len(l) # 0
      BY <3>1
    <3>. QED
      BY <3>1, <3>2, Zenon
  <2>2. Parts * ToCome \in Int
    BY <1>12, PipeAssumption
  <2>3. PICK p \in Int : p = Parts * ToCome
    BY <2>2, Zenon
  <2>4. Len(left) + PipeN = p
    BY <1>1, <1>10, <2>3, Zenon DEF Hanging
  <2>5. p > PipeN
    BY <2>1, <2>4, NoLess, PipeAssumption
  <2>. QED
    BY <2>3, <2>5, Zenon
<1>. QED
  BY <1>8, <1>12, <1>13, <1>14, Zenon DEF Both, CutShort

LEMMA EndedIsNotCut ==
  ASSUME SourceInv, deaths = 0, at = "ended"
  PROVE  ~ CutShort
BY DEF SourceInv, VidInv, Both, CutShort

(***************************************************************************)
(* With any number of parts, any pipe, any sources and any options, and    *)
(* however main and its children take turns: main and its children wait    *)
(* for each other only when the limit ends the first pass over a video     *)
(* that becomes a video, with more frames to come than the pipe holds, and *)
(* then the command never ends.  All that the reader's child has yet to    *)
(* hand over is counted, from the first picture to the last; the writer's  *)
(* child has the reader's pipe when it was made in that first pass, and in *)
(* a later one it does not.                                                *)
(***************************************************************************)
THEOREM StuckExactly == Spec => []StuckWhenCutShort
<1>1. Init => SynthInv /\ SynthTyped /\ DeliverInv /\ SourceInv
  BY InitInv, InitDelivers, InitSource
<1>2. SynthInv /\ SynthTyped /\ DeliverInv /\ SourceInv /\ [Next]_vars
        => (SynthInv /\ SynthTyped /\ DeliverInv /\ SourceInv)'
  <2>1. SynthInv /\ SynthTyped /\ [Next]_vars => SynthInv' /\ SynthTyped'
    BY NextInv, PipesNext, MainNext DEF SynthTyped
  <2>2. SynthInv /\ SynthTyped /\ DeliverInv /\ SourceInv /\ [Next]_vars => SourceInv'
    BY HaveNext, VidNext, PicNext, PlainNext, PairNext DEF SourceInv
  <2>. QED
    BY <2>1, <2>2, DeliverNext
<1>3. SynthInv /\ SynthTyped /\ DeliverInv /\ SourceInv => StuckWhenCutShort
  BY StuckIsCut, EndedIsNotCut DEF StuckWhenCutShort
<1>. QED
  BY <1>1, <1>2, <1>3, PTL DEF Spec

=============================================================================
