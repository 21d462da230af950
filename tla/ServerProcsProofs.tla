------------------------- MODULE ServerProcsProofs --------------------------
(***************************************************************************)
(* Proofs about TileGeometry, for tiles of every level; on them about      *)
(* TilePyramid, for any number of kids, levels and kills; and on these     *)
(* about ServerProcs, for any number of kids, of deaths and of forks that  *)
(* fail: the processes keep what TilePyramid promises, and main ends last. *)
(***************************************************************************)
EXTENDS ServerProcs, SequenceTheorems, TLAPS

-----------------------------------------------------------------------------
(* TileGeometry. *)

LEMMA ModSmall ==
    ASSUME NEW n \in Nat \ {0}, NEW a \in 0..n - 1
    PROVE  a % n = a
OBVIOUS

LEMMA ModOnce ==
    ASSUME NEW n \in Nat \ {0}, NEW a \in n..2 * n - 1
    PROVE  a % n = a - n
OBVIOUS

LEMMA ModMinus ==
    ASSUME NEW n \in Nat \ {0}
    PROVE  (-1) % n = n - 1
OBVIOUS

(***************************************************************************)
(* Along one axis: the quad of the tile at x begins at b, and x is its     *)
(* first tile (s = 0) or its second, lying in its first or second parent.  *)
(***************************************************************************)
LEMMA Along ==
    ASSUME NEW n \in Nat \ {0}, NEW x \in 0..2 * n - 1
    PROVE  LET b == Before(x) % n
               s == IF x % 2 = 1 THEN 0 ELSE 1
           IN  /\ b \in 0..n - 1
               /\ (2 * b + 1 + s) % (2 * n) = x
               /\ (b + s) % n = x \div 2
<1>1. CASE x % 2 = 1
  <2>1. PICK h \in 0..n - 1 : x = 2 * h + 1 /\ x \div 2 = h
    BY <1>1
  <2>2. Before(x) = h
    BY <1>1, <2>1 DEF Before
  <2>3. h % n = h /\ (2 * h + 1) % (2 * n) = 2 * h + 1
    BY ModSmall, <2>1
  <2>4. (h + 0) % n = h /\ (2 * h + 1 + 0) % (2 * n) = x
    BY <2>1, <2>3
  <2>. QED
    BY <1>1, <2>1, <2>2, <2>3, <2>4
<1>2. CASE x % 2 # 1 /\ x # 0
  <2>1. PICK h \in 0..n - 1 : x = 2 * h /\ x \div 2 = h /\ h > 0
    BY <1>2
  <2>2. Before(x) = h - 1
    BY <1>2, <2>1 DEF Before
  <2>3. (h - 1) % n = h - 1 /\ (2 * h) % (2 * n) = 2 * h /\ h % n = h
    BY ModSmall, <2>1
  <2>. QED
    BY <1>2, <2>1, <2>2, <2>3
<1>3. CASE x = 0
  <2>1. Before(x) = -1 /\ x \div 2 = 0 /\ x % 2 = 0
    BY <1>3 DEF Before
  <2>2. (-1) % n = n - 1
    BY ModMinus
  <2>3. (2 * n) % (2 * n) = 0 /\ n % n = 0
    BY ModOnce
  <2>. QED
    BY <1>3, <2>1, <2>2, <2>3
<1>. QED
  BY <1>1, <1>2, <1>3

LEMMA Back ==
    ASSUME NEW n \in Nat \ {0}, NEW b \in 0..n - 1, NEW s \in {0, 1}
    PROVE  Before((2 * b + 1 + s) % (2 * n)) % n = b
<1>1. CASE s = 0
  <2>1. (2 * b + 1) % (2 * n) = 2 * b + 1
    BY ModSmall
  <2>2. (2 * b + 1) % 2 = 1 /\ (2 * b + 1) \div 2 = b
    OBVIOUS
  <2>. QED
    BY <1>1, <2>1, <2>2, ModSmall DEF Before
<1>2. CASE s = 1 /\ b < n - 1
  <2>1. (2 * b + 2) % (2 * n) = 2 * b + 2
    BY <1>2, ModSmall
  <2>2. (2 * b + 2) % 2 = 0 /\ (2 * b + 2) \div 2 = b + 1
    OBVIOUS
  <2>. QED
    BY <1>2, <2>1, <2>2, ModSmall DEF Before
<1>3. CASE s = 1 /\ b = n - 1
  <2>1. (2 * n) % (2 * n) = 0
    BY ModOnce
  <2>2. Before(0) = -1
    BY DEF Before
  <2>. QED
    BY <1>3, <2>1, <2>2, ModMinus
<1>. QED
  BY <1>1, <1>2, <1>3

(***************************************************************************)
(* The places of a square of four, by column and row.                      *)
(***************************************************************************)
LEMMA Square ==
    /\ \A i \in Places : Step(i) \in {0, 1} /\ Rise(i) \in {0, 1}
    /\ \A s, r \in {0, 1} : \E i \in Places : Step(i) = s /\ Rise(i) = r
<1>1. Places = {0, 1, 2, 3}
  BY DEF Places
<1>2. /\ Step(0) = 0 /\ Rise(0) = 0 /\ Step(1) = 1 /\ Rise(1) = 0
      /\ Step(2) = 0 /\ Rise(2) = 1 /\ Step(3) = 1 /\ Rise(3) = 1
  BY DEF Step, Rise
<1>. QED
  BY <1>1, <1>2

LEMMA Sizes ==
    ASSUME NEW z \in 1..MaxZ
    PROVE  /\ z \in Nat /\ z - 1 \in 0..MaxZ /\ z \in 0..MaxZ /\ z - 1 + 1 = z
           /\ Side[z - 1] \in Nat \ {0} /\ Side[z] = 2 * Side[z - 1]
BY GeometryAssumption

(***************************************************************************)
(* The quads of every level partition its tiles, and each lies in the four *)
(* tiles it is made from: tile_rgb always finds the tile it was asked for  *)
(* among the four it made.                                                 *)
(***************************************************************************)
THEOREM QuadsAlwaysFit == QuadsFit
<1>. SUFFICES ASSUME NEW z \in 1..MaxZ
              PROVE  /\ \A t \in Level(z) : InItsQuad(t) /\ MadeFromAbove(t)
                     /\ \A q \in Level(z - 1) : OneQuad(q)
  BY DEF QuadsFit
<1>1. PICK n \in Nat \ {0} : Side[z - 1] = n /\ Side[z] = 2 * n
  BY Sizes
<1>2. ASSUME NEW t \in Level(z)
      PROVE  InItsQuad(t) /\ MadeFromAbove(t)
  <2>1. PICK x \in 0..2 * n - 1, y \in 0..2 * n - 1 : t = <<x, y, z>>
    BY <1>1 DEF Level
  <2>. DEFINE b == Before(x) % n
              c == Before(y) % n
              s == IF x % 2 = 1 THEN 0 ELSE 1
              r == IF y % 2 = 1 THEN 0 ELSE 1
  <2>2. (2 * b + 1 + s) % (2 * n) = x /\ (b + s) % n = x \div 2
    BY Along
  <2>3. (2 * c + 1 + r) % (2 * n) = y /\ (c + r) % n = y \div 2
    BY Along
  <2>4. PICK i \in Places : Step(i) = s /\ Rise(i) = r
    BY Square
  <2>5. QuadOf(t) = <<b, c, z - 1>>
    BY <1>1, <2>1 DEF QuadOf, Masked
  <2>. HIDE DEF b, c, s, r
  <2>6. Child(QuadOf(t), i) = t
    BY <1>1, <2>1, <2>2, <2>3, <2>4, <2>5, Sizes DEF Child, Masked
  <2>7. Parent(QuadOf(t), i) = LiesIn(t)
    BY <1>1, <2>1, <2>2, <2>3, <2>4, <2>5 DEF Parent, Masked, LiesIn
  <2>. QED
    BY <2>6, <2>7 DEF InItsQuad, MadeFromAbove
<1>3. ASSUME NEW q \in Level(z - 1), NEW i \in Places
      PROVE  QuadOf(Child(q, i)) = q
  <2>1. PICK b \in 0..n - 1, c \in 0..n - 1 : q = <<b, c, z - 1>>
    BY <1>1 DEF Level
  <2>2. Step(i) \in {0, 1} /\ Rise(i) \in {0, 1}
    BY Square
  <2>3. /\ Before((2 * b + 1 + Step(i)) % (2 * n)) % n = b
        /\ Before((2 * c + 1 + Rise(i)) % (2 * n)) % n = c
    BY <2>2, Back
  <2>4. Child(q, i) = <<(2 * b + 1 + Step(i)) % (2 * n), (2 * c + 1 + Rise(i)) % (2 * n), z>>
    BY <1>1, <2>1, Sizes DEF Child, Masked
  <2>. QED
    BY <1>1, <2>1, <2>3, <2>4 DEF QuadOf, Masked
<1>. QED
  BY <1>2, <1>3 DEF OneQuad

-----------------------------------------------------------------------------
(* TilePyramid. *)

Picture == Int \X Int
CallRecord ==
    [tile : Tiles, slot : Places, at : Ats, have : [Places -> Picture], made : Nat, next : 0..4]

(***************************************************************************)
(* A call past its look is not for the root; the children it has put, none *)
(* before the synthesis, are there.                                        *)
(***************************************************************************)
Good(f, c) ==
    /\ c.at # "look" => c.tile # Root
    /\ c.at \in {"put", "publish"} =>
           \A i \in Places : i < c.next => f[Child(QuadOf(c.tile), i)] # None
    /\ c.at = "publish" => c.next \in Places
    /\ c.at \in {"look", "gather"} => c.next = 0

(***************************************************************************)
(* The calls of a kid whose tile_png is for t.                             *)
(***************************************************************************)
Stack(f, s, t) ==
    /\ s \in Seq(CallRecord)
    /\ \A n \in 1..Len(s) : Good(f, s[n])
    /\ s # <<>> => s[1].tile = t

Files(f) == f \in [Tiles -> Picture] /\ f[Root] # None
Jobs == job \in [Kids -> {NoJob} \cup [tile : Asked, at : {"look", "rgb"}]]
Busy == \A k \in Kids : calls[k] # <<>> => job[k].at = "rgb"
Stacks == \A k \in Kids : Stack(file, calls[k], job[k].tile)
Inv ==
    /\ Files(file)
    /\ Jobs
    /\ calls \in [Kids -> Seq(CallRecord)]
    /\ synths \in Seq([kid : Kids, quad : Tiles, of : [Places -> Picture]])
    /\ Busy
    /\ Stacks
    /\ NeverAborts

LEMMA RootIsATile == Root \in Tiles
<1>1. Root \in Level(0) /\ 0 \in 0..MaxZ
  BY GeometryAssumption DEF Root, Level
<1>. QED
  BY <1>1 DEF Tiles

LEMMA Masks ==
    ASSUME NEW z \in 0..MaxZ, NEW x \in Int
    PROVE  Masked(x, z) \in 0..Side[z] - 1
<1>1. Side[z] \in Nat \ {0}
  BY GeometryAssumption
<1>2. \A n \in Nat \ {0} : x % n \in 0..n - 1
  OBVIOUS
<1>. QED
  BY <1>1, <1>2 DEF Masked

(***************************************************************************)
(* A tile other than the root is of a level above 0; its quad is a tile of *)
(* the level above, and so are the parents; the children are of its level. *)
(***************************************************************************)
LEMMA Leveled ==
    ASSUME NEW t \in Tiles, t # Root
    PROVE  /\ t[3] \in 1..MaxZ /\ t \in Level(t[3])
           /\ QuadOf(t) \in Level(t[3] - 1)
           /\ QuadOf(t) \in Tiles
           /\ \A i \in Places : Parent(QuadOf(t), i) \in Tiles /\ Child(QuadOf(t), i) \in Tiles
<1>1. PICK z \in 0..MaxZ : t \in Level(z)
  BY DEF Tiles
<1>2. PICK x \in Nat, y \in Nat : t = <<x, y, z>> /\ x <= Side[z] - 1 /\ y <= Side[z] - 1
  <2>1. Side[z] \in Nat
    BY GeometryAssumption
  <2>. QED
    BY <1>1, <2>1 DEF Level
<1>3. z # 0
  <2>1. z = 0 => x = 0 /\ y = 0
    BY <1>2, GeometryAssumption
  <2>. QED
    BY <1>2, <2>1 DEF Root
<1>4. z \in 1..MaxZ /\ z - 1 \in 0..MaxZ /\ z - 1 + 1 = z
  BY <1>3, GeometryAssumption
<1>5. Before(x) \in Int /\ Before(y) \in Int
  BY <1>2 DEF Before
<1>6. PICK b \in 0..Side[z - 1] - 1, c \in 0..Side[z - 1] - 1 : QuadOf(t) = <<b, c, z - 1>>
  BY <1>2, <1>4, <1>5, Masks DEF QuadOf
<1>7. \A i \in Places : Step(i) \in Int /\ Rise(i) \in Int
  BY Square
<1>8. b \in Int /\ c \in Int
  BY <1>4, GeometryAssumption
<1>9. ASSUME NEW i \in Places
      PROVE  Parent(QuadOf(t), i) \in Level(z - 1) /\ Child(QuadOf(t), i) \in Level(z)
  <2>1. /\ Masked(b + Step(i), z - 1) \in 0..Side[z - 1] - 1
        /\ Masked(c + Rise(i), z - 1) \in 0..Side[z - 1] - 1
    BY <1>4, <1>7, <1>8, Masks
  <2>2. /\ Masked(2 * b + 1 + Step(i), z) \in 0..Side[z] - 1
        /\ Masked(2 * c + 1 + Rise(i), z) \in 0..Side[z] - 1
    <3>1. 2 * b + 1 + Step(i) \in Int /\ 2 * c + 1 + Rise(i) \in Int
      BY <1>7, <1>8
    <3>. QED
      BY <3>1, Masks
  <2>. QED
    BY <1>4, <1>6, <2>1, <2>2 DEF Parent, Child, Level
<1>. QED
  BY <1>1, <1>2, <1>4, <1>6, <1>9 DEF Tiles, Level

-----------------------------------------------------------------------------
(* What the steps do to the calls of a kid. *)

LEMMA Grown ==
    ASSUME NEW f, NEW g, NEW s, NEW t, Stack(f, s, t),
           \A u \in Tiles : f[u] # None => g[u] # None
    PROVE  Stack(g, s, t)
<1>. SUFFICES ASSUME NEW n \in 1..Len(s) PROVE Good(g, s[n])
  BY DEF Stack
<1>1. Good(f, s[n]) /\ s[n] \in CallRecord
  BY ElementOfSeq DEF Stack
<1>2. CASE s[n].at \in {"put", "publish"}
  <2>1. s[n].tile \in Tiles /\ s[n].tile # Root
    BY <1>1, <1>2 DEF Good, CallRecord
  <2>2. \A i \in Places : Child(QuadOf(s[n].tile), i) \in Tiles
    BY <2>1, Leveled
  <2>. QED
    BY <1>1, <1>2, <2>2 DEF Good
<1>3. CASE s[n].at \notin {"put", "publish"}
  BY <1>1, <1>3 DEF Good
<1>. QED
  BY <1>2, <1>3

WithLast(s, c) == [s EXCEPT ![Len(s)] = c]

LEMMA Replaced ==
    ASSUME NEW f, NEW s, NEW t, Stack(f, s, t), s # <<>>,
           NEW c \in CallRecord, Good(f, c), c.tile = s[Len(s)].tile
    PROVE  Stack(f, WithLast(s, c), t) /\ WithLast(s, c) # <<>>
<1>1. s \in Seq(CallRecord) /\ Len(s) \in 1..Len(s) /\ 1 \in 1..Len(s)
  BY EmptySeq, LenProperties DEF Stack
<1>2. PICK r : r = WithLast(s, c)
  OBVIOUS
<1>3. /\ r \in Seq(CallRecord) /\ Len(r) = Len(s) /\ r[Len(s)] = c
      /\ \A n \in 1..Len(s) : n # Len(s) => r[n] = s[n]
  BY <1>1, <1>2 DEF WithLast
<1>4. \A n \in 1..Len(r) : Good(f, r[n])
  BY <1>3 DEF Stack
<1>5. r[1].tile = t
  <2>1. s[1].tile = t
    BY DEF Stack
  <2>. QED
    BY <1>1, <1>3, <2>1
<1>6. r # <<>>
  BY <1>1, <1>3, EmptySeq
<1>. QED
  BY <1>2, <1>3, <1>4, <1>5, <1>6 DEF Stack

LEMMA Pushed ==
    ASSUME NEW f, NEW s, NEW t, Stack(f, s, t), NEW c \in CallRecord, Good(f, c),
           s = <<>> => c.tile = t
    PROVE  Stack(f, Append(s, c), t)
<1>1. s \in Seq(CallRecord) /\ Len(s) \in Nat
  BY LenProperties DEF Stack
<1>2. PICK r : r = Append(s, c)
  OBVIOUS
<1>3. /\ r \in Seq(CallRecord) /\ Len(r) = Len(s) + 1 /\ r[Len(s) + 1] = c
      /\ \A n \in 1..Len(s) : r[n] = s[n]
  BY <1>1, <1>2
<1>4. \A n \in 1..Len(r) : Good(f, r[n])
  BY <1>1, <1>3 DEF Stack
<1>5. r[1].tile = t
  <2>1. CASE s = <<>>
    <3>1. Len(s) = 0
      BY <2>1
    <3>. QED
      BY <1>3, <2>1, <3>1
  <2>2. CASE s # <<>>
    <3>1. 1 \in 1..Len(s)
      BY <1>1, <2>2, EmptySeq
    <3>. QED
      BY <1>3, <2>2, <3>1 DEF Stack
  <2>. QED
    BY <2>1, <2>2
<1>. QED
  BY <1>2, <1>3, <1>4, <1>5 DEF Stack

Outer(s) == SubSeq(s, 1, Len(s) - 1)
Given(s, i, p) == [Outer(s)[Len(s) - 1] EXCEPT !.have[i] = p]

LEMMA Popped ==
    ASSUME NEW f, NEW s, NEW t, Stack(f, s, t), Len(s) > 1,
           NEW i \in Places, NEW p \in Picture
    PROVE  /\ Stack(f, WithLast(Outer(s), Given(s, i, p)), t)
           /\ WithLast(Outer(s), Given(s, i, p)) # <<>>
           /\ Len(Outer(s)) = Len(s) - 1
<1>1. s \in Seq(CallRecord) /\ Len(s) \in Nat
  BY LenProperties DEF Stack
<1>2. \A n \in 1..Len(s) : s[n] \in CallRecord
  BY <1>1, ElementOfSeq
<1>3. PICK outer : outer = Outer(s)
  OBVIOUS
<1>4. /\ outer \in Seq(CallRecord) /\ Len(outer) = Len(s) - 1
      /\ \A n \in 1..Len(s) - 1 : outer[n] = s[n]
  BY <1>1, <1>2, <1>3 DEF Outer
<1>5. PICK c : c = Given(s, i, p)
  OBVIOUS
<1>6. PICK d \in CallRecord : d = s[Len(s) - 1] /\ d = outer[Len(s) - 1]
  BY <1>1, <1>2, <1>4
<1>7. c \in CallRecord /\ c.at = d.at /\ c.tile = d.tile /\ c.next = d.next
  <2>1. d.have \in [Places -> Picture]
    BY DEF CallRecord
  <2>2. c = [d EXCEPT !.have = [d.have EXCEPT ![i] = p]]
    BY <1>3, <1>5, <1>6, Zenon DEF Given
  <2>3. [d.have EXCEPT ![i] = p] \in [Places -> Picture]
    BY <2>1
  <2>. QED
    BY <2>2, <2>3 DEF CallRecord
<1>8. Good(f, c)
  <2>1. Good(f, d)
    <3>1. Len(s) - 1 \in 1..Len(s)
      BY <1>1
    <3>. QED
      BY <1>6, <3>1 DEF Stack
  <2>. QED
    BY <2>1, <1>7 DEF Good
<1>9. Stack(f, outer, t) /\ outer # <<>>
  <2>1. \A n \in 1..Len(outer) : Good(f, outer[n])
    BY <1>1, <1>4 DEF Stack
  <2>2. s # <<>> /\ 1 \in 1..Len(s) - 1
    BY <1>1
  <2>3. outer[1] = s[1]
    BY <1>4, <2>2
  <2>4. outer # <<>>
    <3>1. Len(outer) # 0
      BY <1>1, <1>4
    <3>. QED
      BY <3>1, EmptySeq
  <2>. QED
    BY <1>4, <2>1, <2>2, <2>3, <2>4 DEF Stack
<1>10. c.tile = outer[Len(outer)].tile
  BY <1>4, <1>6, <1>7
<1>11. Stack(f, WithLast(outer, c), t) /\ WithLast(outer, c) # <<>>
  BY <1>7, <1>8, <1>9, <1>10, Replaced
<1>. QED
  BY <1>3, <1>4, <1>5, <1>11

-----------------------------------------------------------------------------
(* The steps. *)

(***************************************************************************)
(* A step that changes the calls of one kid only, and no file.             *)
(***************************************************************************)
LEMMA OneStack ==
    ASSUME Inv, NEW k \in Kids, NEW s, Stack(file, s, job[k].tile),
           s # <<>> => job[k].at = "rgb",
           s = <<>> => (job[k].at = "rgb" => On(job[k].tile)),
           calls' = [calls EXCEPT ![k] = s], UNCHANGED <<file, job>>,
           synths' \in Seq([kid : Kids, quad : Tiles, of : [Places -> Picture]])
    PROVE  Inv'
<1>1. calls' \in [Kids -> Seq(CallRecord)]
  BY DEF Inv, Stack
<1>2. calls'[k] = s /\ \A l \in Kids \ {k} : calls'[l] = calls[l]
  BY DEF Inv
<1>3. Busy' /\ Stacks' /\ NeverAborts'
  BY <1>2 DEF Inv, Busy, Stacks, NeverAborts, On
<1>. QED
  BY <1>1, <1>3 DEF Inv, Files, Jobs

(***************************************************************************)
(* What is known of the innermost call.                                    *)
(***************************************************************************)
LEMMA Inner ==
    ASSUME Inv, NEW k \in Kids, calls[k] # <<>>
    PROVE  /\ Innermost(k) \in CallRecord /\ Good(file, Innermost(k))
           /\ calls[k] \in Seq(CallRecord) /\ Len(calls[k]) \in Nat /\ Len(calls[k]) > 0
           /\ Stack(file, calls[k], job[k].tile)
           /\ job[k].at = "rgb"
<1>1. calls[k] \in Seq(CallRecord) /\ Stack(file, calls[k], job[k].tile) /\ job[k].at = "rgb"
  BY DEF Inv, Stacks, Busy
<1>2. Len(calls[k]) \in Nat /\ Len(calls[k]) > 0
  BY <1>1, EmptySeq, LenProperties
<1>3. Len(calls[k]) \in 1..Len(calls[k])
  BY <1>2
<1>. QED
  BY <1>1, <1>2, <1>3, ElementOfSeq DEF Innermost, Stack

LEMMA GoingKeeps ==
    ASSUME Inv, NEW k \in Kids, calls[k] # <<>>, NEW c \in CallRecord, Good(file, c),
           c.tile = Innermost(k).tile, Going(k, c), UNCHANGED <<file, job>>,
           synths' \in Seq([kid : Kids, quad : Tiles, of : [Places -> Picture]])
    PROVE  Inv'
<1>. DEFINE s == WithLast(calls[k], c)
<1>1. calls' = [calls EXCEPT ![k] = s]
  BY Zenon DEF Going, WithLast
<1>2. Stack(file, s, job[k].tile) /\ s # <<>>
  BY Inner, Replaced DEF Innermost
<1>. HIDE DEF s
<1>. QED
  BY <1>1, <1>2, Inner, OneStack

(***************************************************************************)
(* A return, to an outer call or to tile_png, which finds its file then.   *)
(***************************************************************************)
LEMMA ReturnsKeep ==
    ASSUME Inv, NEW k \in Kids, calls[k] # <<>>, On(Innermost(k).tile),
           NEW p \in Picture, Returns(k, p), UNCHANGED <<file, job, synths>>
    PROVE  Inv'
<1>. DEFINE n == Len(calls[k])
            i == Innermost(k).slot
            r == WithLast(Outer(calls[k]), Given(calls[k], i, p))
<1>1. synths' \in Seq([kid : Kids, quad : Tiles, of : [Places -> Picture]])
  BY DEF Inv
<1>2. CASE n = 1
  <2>1. SubSeq(calls[k], 1, n - 1) = <<>>
    BY <1>2, Inner, SubSeqProperties
  <2>2. calls' = [calls EXCEPT ![k] = <<>>]
    BY <1>2, <2>1 DEF Returns
  <2>3. Innermost(k).tile = job[k].tile
    BY <1>2, Inner DEF Innermost, Stack
  <2>4. Stack(file, <<>>, job[k].tile)
    BY EmptySeq DEF Stack
  <2>. QED
    BY <1>1, <2>2, <2>3, <2>4, OneStack
<1>3. CASE n # 1
  <2>1. n > 1
    <3>1. n \in Nat /\ n > 0
      BY Inner
    <3>. HIDE DEF n
    <3>. QED
      BY <1>3, <3>1
  <2>2. i \in Places
    BY Inner DEF CallRecord
  <2>3. Stack(file, r, job[k].tile) /\ r # <<>> /\ Len(Outer(calls[k])) = n - 1
    BY <2>1, <2>2, Inner, Popped
  <2>4. calls' = [calls EXCEPT ![k] = r]
    BY <1>3, <2>3, Zenon DEF Returns, WithLast, Outer, Given
  <2>. HIDE DEF r
  <2>. QED
    BY <1>1, <2>3, <2>4, Inner, OneStack
<1>. QED
  BY <1>2, <1>3

LEMMA CallTyped ==
    ASSUME NEW t \in Tiles, NEW i \in Places, NEW at \in {"look", "gather"}
    PROVE  /\ Call(t, i, at) \in CallRecord
           /\ Call(t, i, at).tile = t /\ Call(t, i, at).at = at
           /\ Call(t, i, at).next = 0
<1>1. [j \in Places |-> None] \in [Places -> Picture]
  BY DEF None, Picture
<1>2. at \in Ats /\ 0 \in Nat /\ 0 \in 0..4
  BY DEF Ats
<1>. QED
  BY <1>1, <1>2 DEF Call, CallRecord

LEMMA InitInv == Init => Inv
<1>. SUFFICES ASSUME Init PROVE Inv
  OBVIOUS
<1>1. Files(file)
  BY RootIsATile DEF Init, Files, Picture, RootPicture, None
<1>2. Jobs /\ Busy /\ NeverAborts
  BY DEF Init, Jobs, Busy, NeverAborts, NoJob
<1>3. <<>> \in Seq(CallRecord) /\ synths \in Seq([kid : Kids, quad : Tiles, of : [Places -> Picture]])
  BY DEF Init
<1>4. Stacks
  BY <1>3, EmptySeq DEF Init, Stacks, Stack
<1>. QED
  BY <1>1, <1>2, <1>3, <1>4 DEF Inv, Init

LEMMA TilePngKeeps ==
    ASSUME Inv, NEW k \in Kids, TilePng(k)
    PROVE  Inv'
<1>1. CASE Ask(k)
  <2>1. PICK t \in Asked : job' = [job EXCEPT ![k] = [tile |-> t, at |-> "look"]]
    BY <1>1 DEF Ask
  <2>2. calls[k] = <<>>
    BY <1>1 DEF Ask, Idle, NoJob, Inv, Busy
  <2>3. Jobs' /\ job'[k].at = "look" /\ \A l \in Kids \ {k} : job'[l] = job[l]
    BY <2>1 DEF Inv, Jobs
  <2>4. UNCHANGED <<file, calls, synths>>
    BY <1>1 DEF Ask
  <2>5. Busy' /\ NeverAborts'
    BY <2>2, <2>3, <2>4 DEF Inv, Busy, NeverAborts, On
  <2>6. Stacks'
    BY <2>2, <2>3, <2>4 DEF Inv, Stacks, Stack
  <2>. QED
    BY <2>3, <2>4, <2>5, <2>6 DEF Inv, Files
<1>2. CASE Found(k)
  <2>1. /\ calls[k] = <<>> /\ job' = [job EXCEPT ![k] = NoJob]
        /\ UNCHANGED <<file, calls, synths>>
    BY <1>2 DEF Found
  <2>2. Jobs' /\ job'[k].at = "idle" /\ \A l \in Kids \ {k} : job'[l] = job[l]
    BY <2>1 DEF Inv, Jobs, NoJob
  <2>3. Busy' /\ NeverAborts'
    BY <2>1, <2>2 DEF Inv, Busy, NeverAborts, On
  <2>4. Stacks'
    BY <2>1, <2>2 DEF Inv, Stacks, Stack
  <2>. QED
    BY <2>1, <2>2, <2>3, <2>4 DEF Inv, Files
<1>3. CASE Missing(k)
  <2>1. /\ job[k].at = "look" /\ ~On(job[k].tile) /\ job' = [job EXCEPT ![k].at = "rgb"]
        /\ calls' = [calls EXCEPT ![k] = <<Call(job[k].tile, 0, "gather")>>]
        /\ UNCHANGED <<file, synths>>
    BY <1>3 DEF Missing
  <2>2. PICK t \in Asked : job[k] = [tile |-> t, at |-> "look"]
    BY <2>1 DEF Inv, Jobs, NoJob
  <2>3. t \in Tiles /\ t # Root
    BY <2>1, <2>2, PyramidAssumption DEF On, Inv, Files
  <2>4. /\ Jobs' /\ job'[k].at = "rgb" /\ job'[k].tile = t
        /\ \A l \in Kids \ {k} : job'[l] = job[l]
    <3>1. job' = [job EXCEPT ![k] = [tile |-> t, at |-> "rgb"]]
      <4>1. [job[k] EXCEPT !.at = "rgb"] = [tile |-> t, at |-> "rgb"]
        BY <2>2
      <4>. QED
        BY <2>1, <4>1, Zenon
    <3>. QED
      BY <3>1 DEF Inv, Jobs
  <2>5. PICK c \in CallRecord : c = Call(t, 0, "gather") /\ Good(file, c) /\ c.tile = t
    <3>1. 0 \in Places /\ "gather" \in {"look", "gather"}
      BY DEF Places
    <3>2. PICK c \in CallRecord :
              c = Call(t, 0, "gather") /\ c.tile = t /\ c.at = "gather" /\ c.next = 0
      BY <2>3, <3>1, CallTyped
    <3>3. Good(file, c)
      BY <2>3, <3>2 DEF Good
    <3>. QED
      BY <3>2, <3>3
  <2>6. <<c>> \in Seq(CallRecord) /\ <<c>> # <<>> /\ Stack(file, <<c>>, t)
    BY <2>5 DEF Stack
  <2>7. calls' = [calls EXCEPT ![k] = <<c>>]
    BY <2>1, <2>2, <2>5
  <2>. HIDE DEF Call
  <2>8. calls' \in [Kids -> Seq(CallRecord)] /\ calls'[k] = <<c>>
        /\ \A l \in Kids \ {k} : calls'[l] = calls[l]
    BY <2>6, <2>7 DEF Inv
  <2>9. Busy' /\ NeverAborts'
    BY <2>1, <2>4, <2>6, <2>8 DEF Inv, Busy, NeverAborts, On
  <2>10. Stacks'
    BY <2>1, <2>4, <2>6, <2>8 DEF Inv, Stacks
  <2>. QED
    BY <2>1, <2>4, <2>8, <2>9, <2>10 DEF Inv, Files
<1>. QED
  BY <1>1, <1>2, <1>3 DEF TilePng

LEMMA TileRgbKeeps ==
    ASSUME Inv, NEW k \in Kids, TileRgb(k)
    PROVE  Inv'
<1>. DEFINE c == Innermost(k)
            Synths == Seq([kid : Kids, quad : Tiles, of : [Places -> Picture]])
<1>1. calls[k] # <<>>
  BY DEF TileRgb, Load, NotThere, WantParent, Synth, PutNothing, Put, Publish, Return, Running
<1>2. /\ c \in CallRecord /\ Good(file, c) /\ Stack(file, calls[k], job[k].tile)
      /\ job[k].at = "rgb" /\ synths \in Synths
  BY <1>1, Inner DEF Inv
<1>3. /\ c.tile \in Tiles /\ c.slot \in Places /\ c.at \in Ats /\ c.have \in [Places -> Picture]
      /\ c.made \in Nat /\ c.next \in 0..4
  BY <1>2 DEF CallRecord
<1>4. file \in [Tiles -> Picture] /\ file[Root] # None
  BY DEF Inv, Files
<1>. HIDE DEF c, Synths
<1>5. CASE Load(k)
  <2>1. On(c.tile) /\ Returns(k, file[c.tile]) /\ UNCHANGED <<file, job, synths>>
    BY <1>5 DEF Load, c
  <2>. QED
    BY <1>1, <1>3, <1>4, <2>1, ReturnsKeep DEF c
<1>6. CASE NotThere(k)
  <2>1. ~On(c.tile) /\ Going(k, [c EXCEPT !.at = "gather"]) /\ UNCHANGED <<file, job, synths>>
    BY <1>6 DEF NotThere, c
  <2>2. PICK d : d = [c EXCEPT !.at = "gather"]
    OBVIOUS
  <2>3. d \in CallRecord /\ d.tile = c.tile /\ d.at = "gather" /\ d.next = 0
    <3>1. c.at = "look"
      BY <1>6 DEF NotThere, Running, c
    <3>. QED
      BY <1>2, <2>2, <3>1 DEF CallRecord, Ats, Good
  <2>4. Good(file, d)
    BY <1>4, <2>1, <2>3 DEF Good, On
  <2>. QED
    BY <1>1, <1>2, <2>1, <2>2, <2>3, <2>4, GoingKeeps DEF c, Synths
<1>7. CASE WantParent(k)
  <2>1. c.at = "gather" /\ UNCHANGED <<file, job, synths>>
    BY <1>7 DEF WantParent, Running, c
  <2>2. PICK i \in Places :
            calls' = [calls EXCEPT ![k] = Append(@, Call(Parent(QuadOf(c.tile), i), i, "look"))]
    BY <1>7 DEF WantParent, Quad, c
  <2>3. Parent(QuadOf(c.tile), i) \in Tiles
    BY <1>2, <1>3, <2>1, Leveled DEF Good
  <2>4. PICK d \in CallRecord : d = Call(Parent(QuadOf(c.tile), i), i, "look") /\ d.at = "look" /\ d.next = 0
    BY <2>3, CallTyped
  <2>5. Good(file, d)
    BY <2>4 DEF Good
  <2>6. calls' = [calls EXCEPT ![k] = Append(calls[k], d)]
    BY <2>2, <2>4
  <2>7. Stack(file, Append(calls[k], d), job[k].tile)
    BY <1>1, <1>2, <2>5, Pushed
  <2>8. Append(calls[k], d) # <<>>
    BY <1>1, <2>4, Inner
  <2>. QED
    BY <1>2, <2>1, <2>6, <2>7, <2>8, OneStack DEF Synths
<1>8. CASE Synth(k)
  <2>1. /\ c.at = "gather" /\ UNCHANGED <<file, job>>
        /\ synths' = Append(synths, [kid |-> k, quad |-> QuadOf(c.tile), of |-> c.have])
        /\ Going(k, [c EXCEPT !.at = "put", !.made = Len(synths) + 1])
    BY <1>8 DEF Synth, Running, Quad, c
  <2>2. QuadOf(c.tile) \in Tiles
    BY <1>2, <1>3, <2>1, Leveled DEF Good
  <2>3. synths' \in Synths
    BY <1>2, <1>3, <2>1, <2>2 DEF Synths
  <2>4. PICK d : d = [c EXCEPT !.at = "put", !.made = Len(synths) + 1]
    OBVIOUS
  <2>5. Len(synths) + 1 \in Nat
    BY <1>2, LenProperties DEF Synths
  <2>6. d \in CallRecord /\ d.tile = c.tile /\ d.at = "put" /\ d.next = c.next
    BY <1>2, <2>4, <2>5 DEF CallRecord, Ats
  <2>7. Good(file, d)
    <3>1. d.next = 0 /\ c.tile # Root
      BY <1>2, <2>1, <2>6 DEF Good
    <3>2. \A i \in Places : ~(i < 0)
      BY DEF Places
    <3>. QED
      BY <2>6, <3>1, <3>2 DEF Good
  <2>. QED
    BY <1>1, <2>1, <2>3, <2>4, <2>6, <2>7, GoingKeeps DEF c, Synths
<1>9. CASE PutNothing(k)
  <2>1. /\ c.at = "put" /\ c.next \in Places /\ file[Child(QuadOf(c.tile), c.next)] # None
        /\ Going(k, [c EXCEPT !.next = c.next + 1]) /\ UNCHANGED <<file, job, synths>>
    BY <1>9 DEF PutNothing, Running, Quad, On, c
  <2>2. PICK d : d = [c EXCEPT !.next = c.next + 1]
    OBVIOUS
  <2>3. c.next + 1 \in 0..4
    BY <2>1 DEF Places
  <2>4. d \in CallRecord /\ d.tile = c.tile /\ d.at = "put" /\ d.next = c.next + 1
    BY <1>2, <2>1, <2>2, <2>3 DEF CallRecord
  <2>5. \A i \in Places : i < c.next + 1 => i < c.next \/ i = c.next
    BY <1>3 DEF Places
  <2>6. Good(file, d)
    BY <1>2, <2>1, <2>4, <2>5 DEF Good
  <2>. QED
    BY <1>1, <1>2, <2>1, <2>2, <2>4, <2>6, GoingKeeps DEF c, Synths
<1>10. CASE Put(k)
  <2>1. /\ c.at = "put" /\ c.next \in Places
        /\ Going(k, [c EXCEPT !.at = "publish"]) /\ UNCHANGED <<file, job, synths>>
    BY <1>10 DEF Put, Running, c
  <2>2. PICK d : d = [c EXCEPT !.at = "publish"]
    OBVIOUS
  <2>3. d \in CallRecord /\ d.tile = c.tile /\ d.at = "publish" /\ d.next = c.next
    BY <1>2, <2>1, <2>2 DEF CallRecord, Ats
  <2>4. Good(file, d)
    BY <1>2, <2>1, <2>3 DEF Good
  <2>. QED
    BY <1>1, <1>2, <2>1, <2>2, <2>3, <2>4, GoingKeeps DEF c, Synths
<1>11. CASE Publish(k)
  <2>. DEFINE u == Child(QuadOf(c.tile), c.next)
  <2>1. /\ c.at = "publish" /\ file' = [file EXCEPT ![u] = <<c.made, c.next>>]
        /\ Going(k, [c EXCEPT !.at = "put", !.next = c.next + 1]) /\ UNCHANGED <<job, synths>>
    BY <1>11 DEF Publish, Running, Quad, c
  <2>2. c.next \in Places /\ c.tile # Root
    BY <1>2, <2>1 DEF Good
  <2>3. u \in Tiles
    BY <1>3, <2>2, Leveled
  <2>4. <<c.made, c.next>> \in Picture /\ <<c.made, c.next>> # None
    BY <1>3 DEF Picture, None
  <2>. HIDE DEF u
  <2>5. /\ Files(file') /\ file'[u] # None
        /\ \A t \in Tiles : file[t] # None => file'[t] # None
    BY <1>4, <2>1, <2>3, <2>4, RootIsATile DEF Files
  <2>6. PICK d : d = [c EXCEPT !.at = "put", !.next = c.next + 1]
    OBVIOUS
  <2>7. c.next + 1 \in 0..4 /\ \A i \in Places : i < c.next + 1 => i < c.next \/ i = c.next
    BY <2>2 DEF Places
  <2>8. d \in CallRecord /\ d.tile = c.tile /\ d.at = "put" /\ d.next = c.next + 1
    BY <1>2, <2>6, <2>7 DEF CallRecord, Ats
  <2>9. \A i \in Places : Child(QuadOf(c.tile), i) \in Tiles
    BY <1>3, <2>2, Leveled
  <2>10. Good(file', d)
    BY <1>2, <2>1, <2>2, <2>5, <2>7, <2>8, <2>9 DEF Good, u
  <2>11. Stack(file', calls[k], job[k].tile)
    BY <1>2, <2>5, Grown
  <2>12. PICK s : s = WithLast(calls[k], d)
    OBVIOUS
  <2>13. calls' = [calls EXCEPT ![k] = s]
    BY <2>1, <2>6, <2>12, Zenon DEF Going, WithLast
  <2>14. Stack(file', s, job[k].tile) /\ s # <<>>
    BY <1>1, <2>8, <2>10, <2>11, <2>12, Replaced DEF c, Innermost
  <2>15. /\ calls' \in [Kids -> Seq(CallRecord)] /\ calls'[k] = s
         /\ \A l \in Kids \ {k} : calls'[l] = calls[l]
    BY <2>13, <2>14 DEF Inv, Stack
  <2>16. ASSUME NEW l \in Kids PROVE Stack(file', calls'[l], job'[l].tile)
    <3>1. CASE l = k
      BY <2>1, <2>14, <2>15, <3>1
    <3>2. CASE l # k
      <4>1. Stack(file, calls[l], job[l].tile)
        BY DEF Inv, Stacks
      <4>2. Stack(file', calls[l], job[l].tile)
        BY <2>5, <4>1, Grown
      <4>. QED
        BY <2>1, <2>15, <3>2, <4>2
    <3>. QED
      BY <3>1, <3>2
  <2>17. Busy'
    BY <1>2, <2>1, <2>15 DEF Inv, Busy
  <2>18. ASSUME NEW l \in Kids, job'[l].at = "rgb", calls'[l] = <<>>
         PROVE  file'[job'[l].tile] # None
    <3>1. l # k /\ calls[l] = <<>> /\ job[l].at = "rgb"
      BY <2>1, <2>14, <2>15, <2>18
    <3>2. file[job[l].tile] # None /\ job[l].tile \in Tiles
      BY <3>1, PyramidAssumption DEF Inv, NeverAborts, On, Jobs, NoJob
    <3>. QED
      BY <2>1, <2>5, <3>2
  <2>. QED
    BY <1>2, <2>1, <2>5, <2>15, <2>16, <2>17, <2>18
       DEF Inv, Files, Jobs, Stacks, NeverAborts, On, Synths
<1>12. CASE Return(k)
  <2>1. c.at = "put" /\ c.next \notin Places /\ UNCHANGED <<file, job, synths>>
    BY <1>12 DEF Return, Running, c
  <2>2. PICK i \in Places : Child(QuadOf(c.tile), i) = c.tile /\ Returns(k, <<c.made, i>>)
    BY <1>12 DEF Return, Quad, c
  <2>3. i < c.next
    BY <1>3, <2>1 DEF Places
  <2>4. file[c.tile] # None
    BY <1>2, <2>1, <2>2, <2>3 DEF Good
  <2>5. <<c.made, i>> \in Picture
    BY <1>3 DEF Picture, Places
  <2>. QED
    BY <1>1, <2>1, <2>2, <2>4, <2>5, ReturnsKeep DEF On, c
<1>. QED
  BY <1>5, <1>6, <1>7, <1>8, <1>9, <1>10, <1>11, <1>12 DEF TileRgb

LEMMA KillKeeps ==
    ASSUME Inv, NEW k \in Kids, Kill(k)
    PROVE  Inv'
<1>1. /\ job' = [job EXCEPT ![k] = NoJob] /\ calls' = [calls EXCEPT ![k] = <<>>]
      /\ UNCHANGED <<file, synths>>
  BY DEF Kill
<1>2. Jobs' /\ job'[k].at = "idle" /\ \A l \in Kids \ {k} : job'[l] = job[l]
  BY <1>1 DEF Inv, Jobs, NoJob
<1>3. <<>> \in Seq(CallRecord) /\ \A t : Stack(file, <<>>, t)
  BY EmptySeq DEF Stack
<1>4. /\ calls' \in [Kids -> Seq(CallRecord)] /\ calls'[k] = <<>>
      /\ \A l \in Kids \ {k} : calls'[l] = calls[l]
  BY <1>1, <1>3 DEF Inv
<1>5. Busy' /\ NeverAborts'
  BY <1>1, <1>2, <1>4 DEF Inv, Busy, NeverAborts, On
<1>6. Stacks'
  BY <1>1, <1>2, <1>3, <1>4 DEF Inv, Stacks
<1>. QED
  BY <1>1, <1>2, <1>4, <1>5, <1>6 DEF Inv, Files

LEMMA NextKeeps ==
    ASSUME Inv, [Next]_vars
    PROVE  Inv'
<1>1. CASE UNCHANGED vars
  BY <1>1 DEF vars, Inv, Files, Jobs, Busy, Stacks, NeverAborts, On
<1>. QED
  BY <1>1, TilePngKeeps, TileRgbKeeps, KillKeeps DEF Next

LEMMA InvAlways == Spec => []Inv
<1>1. Inv /\ [Next]_vars => Inv'
  BY NextKeeps
<1>. QED
  BY <1>1, InitInv, PTL DEF Spec

(***************************************************************************)
(* tile_png's second look finds the file, however the kids race for a quad *)
(* and wherever they are killed: once all four puts of a call were passed, *)
(* all four files are there, and files are never removed.                  *)
(***************************************************************************)
THEOREM TilePngNeverAborts == Spec => []NeverAborts
<1>1. Inv => NeverAborts
  BY DEF Inv
<1>. QED
  BY <1>1, InvAlways, PTL

(***************************************************************************)
(* The assertions of tile_rgb hold in every call: it is for a tile below   *)
(* the root, and that tile is in the quad that is made for it.             *)
(***************************************************************************)
THEOREM CallsAlwaysFit == Spec => []CallsFit
<1>1. Inv => CallsFit
  <2>. SUFFICES ASSUME Inv, NEW k \in Kids, NEW n \in 1..Len(calls[k]),
                       NEW c, c = calls[k][n], c.at # "look"
                PROVE  /\ c.tile[3] > 0 /\ InItsQuad(c.tile) /\ MadeFromAbove(c.tile)
                       /\ OneQuad(QuadOf(c.tile))
    BY DEF CallsFit
  <2>1. c \in CallRecord /\ Good(file, c)
    BY ElementOfSeq DEF Inv, Stacks, Stack
  <2>2. c.tile \in Tiles /\ c.tile # Root
    BY <2>1 DEF CallRecord, Good
  <2>3. PICK t : t = c.tile
    OBVIOUS
  <2>4. t[3] \in 1..MaxZ /\ t \in Level(t[3]) /\ QuadOf(t) \in Level(t[3] - 1)
    BY <2>2, <2>3, Leveled
  <2>5. t[3] > 0
    BY <2>4, GeometryAssumption
  <2>6. InItsQuad(t) /\ MadeFromAbove(t) /\ OneQuad(QuadOf(t))
    BY <2>4, QuadsAlwaysFit DEF QuadsFit
  <2>. QED
    BY <2>3, <2>5, <2>6
<1>. QED
  BY <1>1, InvAlways, PTL


-----------------------------------------------------------------------------
(* What the steps do to the calls of a kid, call by call. *)

OthersStay(k) == \A l \in Kids \ {k} : calls'[l] = calls[l]

LEMMA Went ==
    ASSUME Inv, NEW k \in Kids, calls[k] # <<>>, NEW c \in CallRecord, Going(k, c)
    PROVE  /\ OthersStay(k)
           /\ Len(calls'[k]) = Len(calls[k]) /\ calls'[k] # <<>>
           /\ calls'[k][Len(calls[k])] = c
           /\ \A n \in 1..Len(calls[k]) : n # Len(calls[k]) => calls'[k][n] = calls[k][n]
<1>1. calls' = [calls EXCEPT ![k] = WithLast(calls[k], c)]
  BY Zenon DEF Going, WithLast
<1>2. calls \in [Kids -> Seq(CallRecord)] /\ calls[k] \in Seq(CallRecord)
      /\ Len(calls[k]) \in Nat /\ Len(calls[k]) > 0
  BY Inner DEF Inv
<1>3. PICK s : s = WithLast(calls[k], c)
  OBVIOUS
<1>4. /\ Len(s) = Len(calls[k]) /\ s[Len(calls[k])] = c
      /\ \A n \in 1..Len(calls[k]) : n # Len(calls[k]) => s[n] = calls[k][n]
  BY <1>2, <1>3 DEF WithLast
<1>5. calls'[k] = s /\ OthersStay(k)
  BY <1>1, <1>2, <1>3 DEF OthersStay
<1>6. s # <<>>
  BY <1>2, <1>4
<1>. QED
  BY <1>4, <1>5, <1>6

LEMMA Wanted ==
    ASSUME Inv, NEW k \in Kids, calls[k] # <<>>, NEW c \in CallRecord,
           calls' = [calls EXCEPT ![k] = Append(calls[k], c)]
    PROVE  /\ OthersStay(k)
           /\ Len(calls'[k]) = Len(calls[k]) + 1 /\ calls'[k] # <<>>
           /\ calls'[k][Len(calls[k]) + 1] = c
           /\ \A n \in 1..Len(calls[k]) : calls'[k][n] = calls[k][n]
<1>1. calls \in [Kids -> Seq(CallRecord)] /\ calls[k] \in Seq(CallRecord)
      /\ Len(calls[k]) \in Nat /\ Len(calls[k]) > 0
  BY Inner DEF Inv
<1>2. PICK s : s = Append(calls[k], c)
  OBVIOUS
<1>3. /\ Len(s) = Len(calls[k]) + 1 /\ s[Len(calls[k]) + 1] = c
      /\ \A n \in 1..Len(calls[k]) : s[n] = calls[k][n]
  BY <1>1, <1>2
<1>4. calls'[k] = s /\ OthersStay(k)
  BY <1>1, <1>2 DEF OthersStay
<1>5. s # <<>>
  BY <1>1, <1>3
<1>. QED
  BY <1>3, <1>4, <1>5

LEMMA OuterIs ==
    ASSUME NEW s \in Seq(CallRecord), s # <<>>
    PROVE  /\ Outer(s) \in Seq(CallRecord) /\ Len(Outer(s)) = Len(s) - 1
           /\ \A n \in 1..Len(s) - 1 : Outer(s)[n] = s[n]
<1>1. Len(s) \in Nat /\ Len(s) > 0 /\ \A n \in 1..Len(s) : s[n] \in CallRecord
  BY EmptySeq, LenProperties, ElementOfSeq
<1>2. PICK n \in Nat : Len(s) = n + 1 /\ Len(s) - 1 = n
  <2>1. Len(s) - 1 \in Nat /\ Len(s) = Len(s) - 1 + 1
    BY <1>1
  <2>. QED
    BY <2>1
<1>3. \A i \in 1..n : s[i] \in CallRecord
  BY <1>1, <1>2
<1>4. PICK r : r = SubSeq(s, 1, n)
  OBVIOUS
<1>5. /\ r \in Seq(CallRecord) /\ Len(r) = n
      /\ \A i \in 1..n : r[i] = s[i]
  BY <1>3, <1>4
<1>. QED
  BY <1>2, <1>4, <1>5 DEF Outer

(***************************************************************************)
(* After a return the outer calls are as they were, but that the innermost *)
(* of them has the picture.                                                *)
(***************************************************************************)
LEMMA Returned ==
    ASSUME Inv, NEW k \in Kids, calls[k] # <<>>, NEW p \in Picture, Returns(k, p)
    PROVE  /\ OthersStay(k)
           /\ Len(calls'[k]) = Len(calls[k]) - 1
           /\ \A n \in 1..Len(calls[k]) - 1 :
                  /\ calls'[k][n].tile = calls[k][n].tile /\ calls'[k][n].slot = calls[k][n].slot
                  /\ calls'[k][n].at = calls[k][n].at /\ calls'[k][n].made = calls[k][n].made
                  /\ calls'[k][n].next = calls[k][n].next
                  /\ \A i \in Places :
                         calls'[k][n].have[i] =
                             IF n = Len(calls[k]) - 1 /\ i = Innermost(k).slot
                             THEN p ELSE calls[k][n].have[i]
<1>. DEFINE s == calls[k]
            n == Len(s)
            i == Innermost(k).slot
<1>1. /\ calls \in [Kids -> Seq(CallRecord)] /\ s \in Seq(CallRecord) /\ n \in Nat /\ n > 0
      /\ i \in Places
  BY Inner DEF Inv, CallRecord
<1>2. \A m \in 1..n : s[m] \in CallRecord
  BY <1>1, ElementOfSeq
<1>3. PICK outer : outer = Outer(s)
  OBVIOUS
<1>4. /\ outer \in Seq(CallRecord) /\ Len(outer) = n - 1
      /\ \A m \in 1..n - 1 : outer[m] = s[m]
  BY <1>1, <1>3, OuterIs
<1>5. CASE n = 1
  <2>1. calls' = [calls EXCEPT ![k] = outer]
    BY <1>3, <1>5 DEF Returns, Outer
  <2>2. calls'[k] = outer /\ OthersStay(k)
    BY <1>1, <2>1 DEF OthersStay
  <2>. HIDE DEF n
  <2>3. \A m : m \notin 1..n - 1
    BY <1>5
  <2>4. \A m \in 1..Len(calls[k]) - 1 : FALSE
    BY <2>3 DEF n
  <2>. HIDE DEF s, i
  <2>. QED
    BY <1>4, <2>2, <2>4, Zenon DEF s, n
<1>6. CASE n # 1
  <2>1. PICK c : c = Given(s, i, p)
    OBVIOUS
  <2>2. PICK d \in CallRecord : d = s[n - 1] /\ d = outer[n - 1]
    <3>1. n - 1 \in 1..n /\ n - 1 \in 1..n - 1
      <4>. HIDE DEF n
      <4>. QED
        BY <1>1, <1>6
    <3>. QED
      BY <1>2, <1>4, <3>1
  <2>3. PICK r : r = WithLast(outer, c)
    OBVIOUS
  <2>4. calls' = [calls EXCEPT ![k] = r]
    BY <1>3, <1>4, <1>6, <2>1, <2>3, Zenon DEF Returns, WithLast, Outer, Given
  <2>5. calls'[k] = r /\ OthersStay(k)
    BY <1>1, <2>4 DEF OthersStay
  <2>6. PICK h : h = [d.have EXCEPT ![i] = p]
    OBVIOUS
  <2>7. c = [d EXCEPT !.have = h]
    BY <1>3, <2>1, <2>2, <2>6, Zenon DEF Given
  <2>8. d.have \in [Places -> Picture]
    BY DEF CallRecord
  <2>9. \A j \in Places : h[j] = IF j = i THEN p ELSE d.have[j]
    BY <2>6, <2>8
  <2>10. /\ c.tile = d.tile /\ c.slot = d.slot /\ c.at = d.at /\ c.made = d.made /\ c.next = d.next
         /\ c.have = h
    BY <2>7 DEF CallRecord
  <2>11. /\ Len(r) = n - 1 /\ r[n - 1] = c
         /\ \A m \in 1..n - 1 : m # n - 1 => r[m] = s[m]
    <3>. HIDE DEF n, s
    <3>1. n - 1 \in 1..n - 1
      BY <1>1, <1>6
    <3>. QED
      BY <1>4, <2>3, <3>1 DEF WithLast
  <2>. HIDE DEF i
  <2>12. ASSUME NEW m \in 1..n - 1
         PROVE  /\ r[m].tile = s[m].tile /\ r[m].slot = s[m].slot
                /\ r[m].at = s[m].at /\ r[m].made = s[m].made
                /\ r[m].next = s[m].next
                /\ \A j \in Places :
                       r[m].have[j] = IF m = n - 1 /\ j = i THEN p ELSE s[m].have[j]
    <3>1. CASE m = n - 1
      BY <2>2, <2>9, <2>10, <2>11, <3>1
    <3>2. CASE m # n - 1
      BY <2>11, <3>2
    <3>. QED
      BY <3>1, <3>2
  <2>. QED
    BY <2>5, <2>11, <2>12 DEF s, i
<1>. QED
  BY <1>5, <1>6

-----------------------------------------------------------------------------
(* A kid synthesises a quad once. *)

(***************************************************************************)
(* All four tiles of a quad are there.                                     *)
(***************************************************************************)
All(f, q) == \A i \in Places : Child(q, i) \in Tiles /\ f[Child(q, i)] # None

(***************************************************************************)
(* Each call is for a tile one level above that of the call it is for, and *)
(* all but the innermost are getting their parents.                        *)
(***************************************************************************)
Falling(s) ==
    \A n \in 1..Len(s) :
        /\ s[n].tile[3] = s[1].tile[3] - (n - 1)
        /\ n < Len(s) => s[n].at = "gather"

(***************************************************************************)
(* A kid that is getting the parents of a quad did not synthesise it yet;  *)
(* the quads it did synthesise are all there, but for the one it puts.     *)
(***************************************************************************)
Undone(ss, k, s) ==
    \A n \in 1..Len(s), m \in 1..Len(ss) :
        s[n].at = "gather" /\ ss[m].kid = k => ss[m].quad # QuadOf(s[n].tile)
Done(f, ss, k, s) ==
    \A m \in 1..Len(ss) :
        ss[m].kid = k =>
            \/ All(f, ss[m].quad)
            \/ /\ s # <<>> /\ s[Len(s)].at \in {"put", "publish"}
               /\ ss[m].quad = QuadOf(s[Len(s)].tile)

Once(k) ==
    /\ Falling(calls[k])
    /\ killed[k] = 0 => Undone(synths, k, calls[k]) /\ Done(file, synths, k, calls[k])
OnceInv == killed \in [Kids -> Nat] /\ OncePerKid /\ \A k \in Kids : Once(k)

LEMMA Heights ==
    ASSUME NEW t \in Tiles
    PROVE  t[3] \in Int /\ QuadOf(t)[3] = t[3] - 1 /\ \A i \in Places : Parent(QuadOf(t), i)[3] = t[3] - 1
<1>1. PICK z \in 0..MaxZ : t \in Level(z)
  BY DEF Tiles
<1>2. t[3] = z /\ z \in Int
  BY <1>1, GeometryAssumption DEF Level
<1>. QED
  BY <1>2 DEF QuadOf, Parent

(***************************************************************************)
(* What one kid does leaves this true of another.                          *)
(***************************************************************************)
More(ss, tt, k) ==
    /\ Len(ss) \in Nat /\ Len(tt) \in Nat /\ Len(ss) <= Len(tt)
    /\ \A m \in 1..Len(ss) : tt[m] = ss[m]
    /\ \A m \in 1..Len(tt) : m \notin 1..Len(ss) => tt[m].kid = k
Grows(f, g) == \A t \in Tiles : f[t] # None => g[t] # None

LEMMA AnothersOnce ==
    ASSUME NEW k, NEW l, l # k, NEW f, NEW g, Grows(f, g), NEW ss, NEW tt, More(ss, tt, k),
           NEW s, Undone(ss, l, s), Done(f, ss, l, s)
    PROVE  Undone(tt, l, s) /\ Done(g, tt, l, s)
<1>1. \A m \in 1..Len(tt) : tt[m].kid = l => m \in 1..Len(ss) /\ tt[m] = ss[m]
  BY DEF More
<1>2. \A q : All(f, q) => All(g, q)
  BY DEF All, Grows
<1>3. Undone(tt, l, s)
  BY <1>1 DEF Undone
<1>4. Done(g, tt, l, s)
  BY <1>1, <1>2 DEF Done
<1>. QED
  BY <1>3, <1>4

(***************************************************************************)
(* A tile that is not there belongs to no quad that is.                    *)
(***************************************************************************)
LEMMA NotAll ==
    ASSUME NEW f, NEW t \in Tiles, t # Root, f[t] = None
    PROVE  ~All(f, QuadOf(t))
<1>1. InItsQuad(t)
  BY Leveled, QuadsAlwaysFit DEF QuadsFit
<1>. QED
  BY <1>1 DEF InItsQuad, All

LEMMA FallsOn ==
    ASSUME NEW s, NEW r, Falling(s), Len(s) \in Nat, Len(r) \in Nat, Len(r) <= Len(s),
           \A n \in 1..Len(r) : r[n].tile = s[n].tile,
           \A n \in 1..Len(r) : n < Len(r) => r[n].at = s[n].at
    PROVE  Falling(r)
<1>1. ASSUME NEW n \in 1..Len(r)
      PROVE  /\ r[n].tile[3] = r[1].tile[3] - (n - 1)
             /\ n < Len(r) => r[n].at = "gather"
  <2>1. 1 \in 1..Len(r) /\ n \in 1..Len(s) /\ (n < Len(r) => n < Len(s))
    OBVIOUS
  <2>. QED
    BY <2>1 DEF Falling
<1>. QED
  BY <1>1 DEF Falling

(***************************************************************************)
(* The calls around the innermost are for other quads.                     *)
(***************************************************************************)
LEMMA OtherQuads ==
    ASSUME NEW s \in Seq(CallRecord), Falling(s), NEW n \in 1..Len(s), n # Len(s)
    PROVE  QuadOf(s[n].tile) # QuadOf(s[Len(s)].tile) /\ s[n].tile # s[Len(s)].tile
           /\ s[n].tile[3] > s[Len(s)].tile[3]
<1>1. Len(s) \in Nat /\ 1 \in 1..Len(s) /\ Len(s) \in 1..Len(s)
  BY LenProperties
<1>2. s[n] \in CallRecord /\ s[1] \in CallRecord /\ s[Len(s)] \in CallRecord
  BY <1>1, ElementOfSeq
<1>3. s[n].tile \in Tiles /\ s[Len(s)].tile \in Tiles /\ s[1].tile \in Tiles
  BY <1>2 DEF CallRecord
<1>4. s[1].tile[3] \in Int /\ s[n].tile[3] \in Int
  BY <1>3, Heights
<1>5. s[n].tile[3] > s[Len(s)].tile[3]
  BY <1>1, <1>4 DEF Falling
<1>6. QuadOf(s[n].tile)[3] = s[n].tile[3] - 1 /\ QuadOf(s[Len(s)].tile)[3] = s[Len(s)].tile[3] - 1
  BY <1>3, Heights
<1>7. s[Len(s)].tile[3] \in Int
  BY <1>3, Heights
<1>8. QuadOf(s[n].tile)[3] # QuadOf(s[Len(s)].tile)[3] /\ s[n].tile[3] # s[Len(s)].tile[3]
  BY <1>4, <1>5, <1>6, <1>7
<1>. QED
  BY <1>5, <1>8

LEMMA Unmade ==
    ASSUME Inv, NEW ss, NEW k \in Kids, Done(file, ss, k, calls[k]),
           calls[k] # <<>> => Innermost(k).at \in {"look", "gather"}
    PROVE  \A m \in 1..Len(ss) : ss[m].kid = k => All(file, ss[m].quad)
BY DEF Done, Innermost

LEMMA SynthsGrow ==
    ASSUME Inv, NEW k \in Kids, TileRgb(k)
    PROVE  /\ More(synths, synths', k) /\ UNCHANGED <<job, killed>>
           /\ Len(synths) \in Nat
<1>1. Len(synths) \in Nat /\ synths \in Seq([kid : Kids, quad : Tiles, of : [Places -> Picture]])
  BY LenProperties DEF Inv
<1>2. CASE Synth(k)
  <2>1. PICK r : r.kid = k /\ synths' = Append(synths, r) /\ r \in [kid : Kids, quad : Tiles, of : [Places -> Picture]]
    <3>1. Innermost(k) \in CallRecord /\ Innermost(k).tile # Root
      BY <1>2, Inner DEF Synth, Running, Good
    <3>2. Quad(k) \in Tiles /\ Innermost(k).have \in [Places -> Picture]
      BY <3>1, Leveled DEF Quad, CallRecord
    <3>. HIDE DEF Quad
    <3>. QED
      BY <1>2, <3>2 DEF Synth
  <2>2. /\ Len(synths') = Len(synths) + 1 /\ synths'[Len(synths) + 1] = r
        /\ \A m \in 1..Len(synths) : synths'[m] = synths[m]
    BY <1>1, <2>1
  <2>. QED
    BY <1>1, <1>2, <2>1, <2>2 DEF More, Synth
<1>3. CASE ~Synth(k)
  <2>1. UNCHANGED <<synths, job, killed>>
    BY <1>3 DEF TileRgb, Load, NotThere, WantParent, PutNothing, Put, Publish, Return
  <2>. QED
    BY <1>1, <2>1 DEF More
<1>. QED
  BY <1>2, <1>3

LEMMA FilesGrow ==
    ASSUME Inv, NEW k \in Kids, TileRgb(k)
    PROVE  Grows(file, file')
<1>1. CASE Publish(k)
  <2>1. PICK u, m, n : file' = [file EXCEPT ![u] = <<m, n>>] /\ m = Innermost(k).made
    BY <1>1 DEF Publish
  <2>2. m \in Nat
    BY <1>1, <2>1, Inner DEF Publish, Running, CallRecord
  <2>3. <<m, n>> # None
    BY <2>2 DEF None
  <2>. QED
    BY <2>1, <2>3 DEF Grows, Inv, Files
<1>2. CASE ~Publish(k)
  BY <1>2 DEF TileRgb, Load, NotThere, WantParent, Synth, PutNothing, Put, Return, Grows
<1>. QED
  BY <1>1, <1>2

(***************************************************************************)
(* A step of tile_rgb and of put_tile that stays in the call.              *)
(***************************************************************************)
Stays(k, d) ==
    /\ d \in CallRecord /\ d.tile = Innermost(k).tile /\ Going(k, d)
    /\ UNCHANGED <<synths, killed>>

LEMMA StaysOnce ==
    ASSUME Inv, NEW k \in Kids, TileRgb(k), Once(k), calls[k] # <<>>, NEW d, Stays(k, d),
           d.at = "gather" => Innermost(k).at = "look" /\ file[d.tile] = None /\ d.tile # Root,
           d.at # "gather" =>
               /\ d.at \in {"put", "publish"} /\ Innermost(k).at \in {"put", "publish"}
    PROVE  Once(k)'
<1>. DEFINE s == calls[k]
            r == calls'[k]
            N == Len(calls[k])
<1>1. s \in Seq(CallRecord) /\ N \in Nat /\ N > 0 /\ N \in 1..N
  BY Inner
<1>2. /\ Len(r) = N /\ r # <<>> /\ r[N] = d
      /\ \A n \in 1..N : n # N => r[n] = s[n]
  BY Went DEF Stays
<1>3. s[N] = Innermost(k) /\ d.tile = s[N].tile
  BY DEF Innermost, Stays
<1>4. Falling(r)
  <2>1. Falling(s)
    BY DEF Once
  <2>. HIDE DEF s, r, N
  <2>2. \A n \in 1..Len(r) : r[n].tile = s[n].tile
    BY <1>1, <1>2, <1>3
  <2>3. \A n \in 1..Len(r) : n < Len(r) => r[n].at = s[n].at
    BY <1>1, <1>2
  <2>4. Len(r) \in Nat /\ Len(r) <= Len(s) /\ Len(s) \in Nat
    BY <1>1, <1>2 DEF N, s
  <2>. QED
    BY <2>1, <2>2, <2>3, <2>4, FallsOn
<1>5. Grows(file, file')
  BY FilesGrow
<1>6. ASSUME killed'[k] = 0
      PROVE  Undone(synths', k, r) /\ Done(file', synths', k, r)
  <2>1. Undone(synths, k, s) /\ Done(file, synths, k, s) /\ synths' = synths
    BY <1>6 DEF Once, Stays
  <2>2. CASE d.at = "gather"
    <3>1. \A m \in 1..Len(synths) : synths[m].kid = k => All(file, synths[m].quad)
      BY <2>1, <2>2, Unmade
    <3>2. d.tile \in Tiles
      BY DEF Stays, CallRecord
    <3>3. ~All(file, QuadOf(d.tile))
      BY <2>2, <3>2, NotAll
    <3>. HIDE DEF s, r, N
    <3>4. Undone(synths, k, r)
      BY <1>1, <1>2, <2>1, <3>1, <3>3 DEF Undone, N, s
    <3>5. Done(file', synths, k, r)
      BY <1>5, <3>1 DEF Done, All, Grows
    <3>. QED
      BY <2>1, <3>4, <3>5
  <2>3. CASE d.at # "gather"
    <3>. HIDE DEF s, r, N
    <3>1. Undone(synths, k, r)
      BY <1>1, <1>2, <2>1, <2>3 DEF Undone, N, s
    <3>2. ASSUME NEW m \in 1..Len(synths), synths[m].kid = k, ~All(file', synths[m].quad)
          PROVE  synths[m].quad = QuadOf(d.tile)
      <4>1. ~All(file, synths[m].quad)
        BY <1>5, <3>2 DEF All, Grows
      <4>. QED
        BY <1>3, <2>1, <3>2, <4>1 DEF Done, N, s
    <3>3. Done(file', synths, k, r)
      BY <1>2, <2>3, <3>2 DEF Done
    <3>. QED
      BY <2>1, <3>1, <3>3
  <2>. QED
    BY <2>2, <2>3
<1>. QED
  BY <1>4, <1>6 DEF Once

LEMMA ReturnsOnce ==
    ASSUME Inv, NEW k \in Kids, TileRgb(k), Once(k), calls[k] # <<>>,
           NEW p \in Picture, Returns(k, p), UNCHANGED <<file, synths, killed>>,
           Innermost(k).at = "look" \/ All(file, QuadOf(Innermost(k).tile))
    PROVE  Once(k)'
<1>. DEFINE s == calls[k]
            r == calls'[k]
            N == Len(calls[k])
<1>1. s \in Seq(CallRecord) /\ N \in Nat /\ N > 0
  BY Inner
<1>2. /\ Len(r) = N - 1
      /\ \A n \in 1..N - 1 : r[n].tile = s[n].tile /\ r[n].at = s[n].at
  BY Returned
<1>3. Falling(s)
  BY DEF Once
<1>4. ASSUME killed'[k] = 0
      PROVE  Undone(synths', k, r) /\ Done(file', synths', k, r)
  <2>1. Undone(synths, k, s) /\ Done(file, synths, k, s)
    BY <1>4 DEF Once
  <2>2. \A m \in 1..Len(synths) : synths[m].kid = k => All(file, synths[m].quad)
    BY <2>1 DEF Done, Innermost
  <2>. HIDE DEF s, r, N
  <2>3. Undone(synths, k, r)
    BY <1>1, <1>2, <2>1 DEF Undone, N, s
  <2>4. Done(file, synths, k, r)
    BY <2>2 DEF Done
  <2>. QED
    BY <2>3, <2>4
<1>5. Falling(r)
  <2>. HIDE DEF s, r, N
  <2>1. Len(r) \in Nat /\ Len(r) <= Len(s) /\ Len(s) \in Nat /\ Len(r) = N - 1
    BY <1>1, <1>2 DEF N, s
  <2>2. /\ \A n \in 1..Len(r) : r[n].tile = s[n].tile
        /\ \A n \in 1..Len(r) : n < Len(r) => r[n].at = s[n].at
    BY <1>2
  <2>. QED
    BY <1>3, <2>1, <2>2, FallsOn
<1>. QED
  BY <1>4, <1>5 DEF Once

LEMMA TileRgbOnce ==
    ASSUME Inv, NEW k \in Kids, TileRgb(k), Once(k)
    PROVE  Once(k)'
<1>. DEFINE c == Innermost(k)
<1>1. calls[k] # <<>>
  BY DEF TileRgb, Load, NotThere, WantParent, Synth, PutNothing, Put, Publish, Return, Running
<1>2. c \in CallRecord /\ Good(file, c) /\ calls[k] \in Seq(CallRecord) /\ Files(file)
  BY <1>1, Inner DEF Inv
<1>3. /\ c.tile \in Tiles /\ c.slot \in Places /\ c.at \in Ats /\ c.have \in [Places -> Picture]
      /\ c.made \in Nat /\ c.next \in 0..4
  BY <1>2 DEF CallRecord
<1>. HIDE DEF c
<1>4. CASE Load(k)
  <2>1. /\ c.at = "look" /\ Returns(k, file[c.tile]) /\ UNCHANGED <<file, synths, killed>>
    BY <1>4 DEF Load, Running, c
  <2>2. file[c.tile] \in Picture
    BY <1>2, <1>3 DEF Files
  <2>. QED
    BY <1>1, <2>1, <2>2, ReturnsOnce DEF c
<1>5. CASE NotThere(k)
  <2>1. /\ c.at = "look" /\ file[c.tile] = None /\ Going(k, [c EXCEPT !.at = "gather"])
        /\ UNCHANGED <<synths, killed>>
    BY <1>5 DEF NotThere, Running, On, c
  <2>2. PICK d : d = [c EXCEPT !.at = "gather"]
    OBVIOUS
  <2>3. d \in CallRecord /\ d.tile = c.tile /\ d.at = "gather"
    BY <1>2, <2>2 DEF CallRecord, Ats
  <2>4. Stays(k, d)
    BY <2>1, <2>2, <2>3 DEF Stays, c
  <2>5. d.tile # Root
    BY <1>2, <2>1, <2>3 DEF Files
  <2>. QED
    BY <1>1, <2>1, <2>3, <2>4, <2>5, StaysOnce DEF c
<1>6. CASE WantParent(k)
  <2>. DEFINE s == calls[k]
              r == calls'[k]
              N == Len(calls[k])
  <2>1. c.at = "gather" /\ UNCHANGED <<file, synths, killed>>
    BY <1>6 DEF WantParent, Running, c
  <2>2. PICK i \in Places :
            calls' = [calls EXCEPT ![k] = Append(@, Call(Parent(QuadOf(c.tile), i), i, "look"))]
    BY <1>6 DEF WantParent, Quad, c
  <2>3. Parent(QuadOf(c.tile), i) \in Tiles
    BY <1>2, <1>3, <2>1, Leveled DEF Good
  <2>4. PICK d \in CallRecord : /\ d = Call(Parent(QuadOf(c.tile), i), i, "look") /\ d.at = "look"
                               /\ d.tile = Parent(QuadOf(c.tile), i)
    BY <2>3, CallTyped
  <2>5. calls' = [calls EXCEPT ![k] = Append(calls[k], d)]
    BY <2>2, <2>4
  <2>6. /\ Len(r) = N + 1 /\ r # <<>> /\ r[N + 1] = d
        /\ \A n \in 1..N : r[n] = s[n]
    BY <1>1, <2>5, Wanted
  <2>7. /\ d.tile[3] = c.tile[3] - 1 /\ c.tile[3] \in Int
    BY <1>3, <2>4, Heights
  <2>8. N \in Nat /\ N > 0 /\ c = s[N] /\ s[1].tile[3] \in Int
    <3>1. N \in Nat /\ N > 0 /\ c = s[N]
      BY <1>1, Inner DEF c, Innermost
    <3>2. s[1] \in CallRecord
      BY <1>2, <3>1, ElementOfSeq
    <3>. QED
      BY <3>1, <3>2, Heights DEF CallRecord
  <2>9. Falling(s)
    BY DEF Once
  <2>. HIDE DEF r, N, s
  <2>10. Falling(r)
    <3>1. ASSUME NEW n \in 1..Len(r)
          PROVE  r[n].tile[3] = r[1].tile[3] - (n - 1) /\ (n < Len(r) => r[n].at = "gather")
      <4>1. r[1] = s[1] /\ Len(s) = N
        BY <2>6, <2>8 DEF N, s
      <4>2. c.tile[3] = s[1].tile[3] - (N - 1)
        BY <2>8, <2>9, <4>1 DEF Falling
      <4>3. CASE n = N + 1
        BY <2>6, <2>7, <2>8, <4>1, <4>2, <4>3
      <4>4. CASE n \in 1..N /\ n # N
        BY <2>6, <2>8, <2>9, <4>1, <4>4 DEF Falling
      <4>5. CASE n = N
        BY <2>1, <2>6, <2>8, <4>1, <4>2, <4>5
      <4>. QED
        BY <2>6, <2>8, <4>3, <4>4, <4>5
    <3>. QED
      BY <3>1 DEF Falling
  <2>11. ASSUME killed'[k] = 0
         PROVE  Undone(synths', k, r) /\ Done(file', synths', k, r)
    <3>1. Undone(synths, k, s) /\ Done(file, synths, k, s)
      BY <2>1, <2>11 DEF Once, s
    <3>2. \A m \in 1..Len(synths) : synths[m].kid = k => All(file, synths[m].quad)
      BY <2>1, <3>1, Unmade DEF c, s
    <3>3. Undone(synths, k, r)
      <4>1. Len(s) = N
        BY DEF s, N
      <4>2. ASSUME NEW n \in 1..Len(r), r[n].at = "gather" PROVE n \in 1..Len(s) /\ r[n] = s[n]
        BY <2>4, <2>6, <2>8, <4>1, <4>2
      <4>. QED
        BY <3>1, <4>2 DEF Undone
    <3>4. Done(file, synths, k, r)
      BY <3>2 DEF Done
    <3>. QED
      BY <2>1, <3>3, <3>4
  <2>. QED
    BY <2>10, <2>11 DEF Once, r
<1>7. CASE Synth(k)
  <2>. DEFINE s == calls[k]
              r == calls'[k]
              N == Len(calls[k])
  <2>1. /\ c.at = "gather" /\ UNCHANGED <<file, killed>>
        /\ synths' = Append(synths, [kid |-> k, quad |-> QuadOf(c.tile), of |-> c.have])
        /\ Going(k, [c EXCEPT !.at = "put", !.made = Len(synths) + 1])
    BY <1>7 DEF Synth, Running, Quad, c
  <2>2. Len(synths) \in Nat /\ Len(synths) + 1 \in Nat
    BY SynthsGrow
  <2>3. PICK d : d = [c EXCEPT !.at = "put", !.made = Len(synths) + 1]
    OBVIOUS
  <2>4. d \in CallRecord /\ d.tile = c.tile /\ d.at = "put"
    BY <1>2, <2>2, <2>3 DEF CallRecord, Ats
  <2>5. /\ Len(r) = N /\ r # <<>> /\ r[N] = d
        /\ \A n \in 1..N : n # N => r[n] = s[n]
    BY <1>1, <2>1, <2>3, <2>4, Went
  <2>6. /\ Len(synths') = Len(synths) + 1 /\ synths'[Len(synths) + 1].quad = QuadOf(c.tile)
        /\ synths'[Len(synths) + 1].kid = k
        /\ \A m \in 1..Len(synths) : synths'[m] = synths[m]
    <3>1. synths \in Seq([kid : Kids, quad : Tiles, of : [Places -> Picture]])
      BY DEF Inv
    <3>. QED
      BY <2>1, <2>2, <3>1
  <2>7. N \in Nat /\ N > 0 /\ c = s[N] /\ Falling(s) /\ s \in Seq(CallRecord) /\ Len(s) = N
    BY <1>1, Inner DEF c, Innermost, Once
  <2>8. \A n \in 1..N : n # N => QuadOf(s[n].tile) # QuadOf(c.tile)
    <3>. HIDE DEF s, N
    <3>. QED
      BY <2>7, OtherQuads
  <2>. HIDE DEF r, N, s
  <2>9. Falling(r)
    <3>1. \A n \in 1..Len(r) : r[n].tile = s[n].tile
      BY <2>4, <2>5, <2>7
    <3>2. \A n \in 1..Len(r) : n < Len(r) => r[n].at = s[n].at
      BY <2>5, <2>7
    <3>3. Len(r) \in Nat /\ Len(r) <= Len(s) /\ Len(s) \in Nat
      BY <2>5, <2>7
    <3>. QED
      BY <2>7, <3>1, <3>2, <3>3, FallsOn
  <2>10. ASSUME killed'[k] = 0
         PROVE  Undone(synths', k, r) /\ Done(file', synths', k, r)
    <3>1. Undone(synths, k, s) /\ Done(file, synths, k, s)
      BY <2>1, <2>10 DEF Once, s
    <3>2. \A m \in 1..Len(synths) : synths[m].kid = k => All(file, synths[m].quad)
      BY <2>1, <3>1, Unmade DEF c, s
    <3>3. ASSUME NEW n \in 1..Len(r), NEW m \in 1..Len(synths'), r[n].at = "gather", synths'[m].kid = k
          PROVE  synths'[m].quad # QuadOf(r[n].tile)
      <4>1. n # N /\ n \in 1..N /\ r[n] = s[n]
        BY <2>4, <2>5, <3>3
      <4>2. CASE m \in 1..Len(synths)
        BY <2>6, <2>7, <3>1, <3>3, <4>1, <4>2 DEF Undone
      <4>3. CASE m = Len(synths) + 1
        BY <2>6, <2>8, <4>1, <4>3
      <4>. QED
        BY <2>2, <2>6, <4>2, <4>3
    <3>4. ASSUME NEW m \in 1..Len(synths'), synths'[m].kid = k, ~All(file, synths'[m].quad)
          PROVE  synths'[m].quad = QuadOf(d.tile)
      BY <2>2, <2>4, <2>6, <3>2, <3>4
    <3>5. Done(file, synths', k, r)
      BY <2>4, <2>5, <3>4 DEF Done
    <3>. QED
      BY <2>1, <3>3, <3>5 DEF Undone
  <2>. QED
    BY <2>9, <2>10 DEF Once, r
<1>8. CASE PutNothing(k)
  <2>1. /\ c.at = "put" /\ c.next \in Places
        /\ Going(k, [c EXCEPT !.next = c.next + 1]) /\ UNCHANGED <<synths, killed>>
    BY <1>8 DEF PutNothing, Running, c
  <2>2. PICK d : d = [c EXCEPT !.next = c.next + 1]
    OBVIOUS
  <2>3. c.next + 1 \in 0..4
    BY <2>1 DEF Places
  <2>4. d \in CallRecord /\ d.tile = c.tile /\ d.at = "put"
    BY <1>2, <2>1, <2>2, <2>3 DEF CallRecord
  <2>5. Stays(k, d)
    BY <2>1, <2>2, <2>4 DEF Stays, c
  <2>. QED
    BY <1>1, <2>1, <2>4, <2>5, StaysOnce DEF c
<1>9. CASE Put(k)
  <2>1. /\ c.at = "put" /\ Going(k, [c EXCEPT !.at = "publish"]) /\ UNCHANGED <<synths, killed>>
    BY <1>9 DEF Put, Running, c
  <2>2. PICK d : d = [c EXCEPT !.at = "publish"]
    OBVIOUS
  <2>3. d \in CallRecord /\ d.tile = c.tile /\ d.at = "publish"
    BY <1>2, <2>1, <2>2 DEF CallRecord, Ats
  <2>4. Stays(k, d)
    BY <2>1, <2>2, <2>3 DEF Stays, c
  <2>. QED
    BY <1>1, <2>1, <2>3, <2>4, StaysOnce DEF c
<1>10. CASE Publish(k)
  <2>1. /\ c.at = "publish" /\ Going(k, [c EXCEPT !.at = "put", !.next = c.next + 1])
        /\ UNCHANGED <<synths, killed>>
    BY <1>10 DEF Publish, Running, c
  <2>2. PICK d : d = [c EXCEPT !.at = "put", !.next = c.next + 1]
    OBVIOUS
  <2>3. c.next + 1 \in 0..4
    BY <1>2, <2>1 DEF Good, Places
  <2>4. d \in CallRecord /\ d.tile = c.tile /\ d.at = "put"
    BY <1>2, <2>2, <2>3 DEF CallRecord, Ats
  <2>5. Stays(k, d)
    BY <2>1, <2>2, <2>4 DEF Stays, c
  <2>. QED
    BY <1>1, <2>1, <2>4, <2>5, StaysOnce DEF c
<1>11. CASE Return(k)
  <2>1. c.at = "put" /\ c.next \notin Places /\ UNCHANGED <<file, synths, killed>>
    BY <1>11 DEF Return, Running, c
  <2>2. PICK i \in Places : Returns(k, <<c.made, i>>)
    BY <1>11 DEF Return, c
  <2>3. \A j \in Places : j < c.next
    BY <1>3, <2>1 DEF Places
  <2>4. c.tile # Root
    BY <1>2, <2>1 DEF Good
  <2>5. \A j \in Places : Child(QuadOf(c.tile), j) \in Tiles /\ file[Child(QuadOf(c.tile), j)] # None
    BY <1>2, <1>3, <2>1, <2>3, <2>4, Leveled DEF Good
  <2>6. <<c.made, i>> \in Picture
    BY <1>3 DEF Picture, Places
  <2>7. All(file, QuadOf(c.tile))
    BY <2>5 DEF All
  <2>. QED
    BY <1>1, <2>1, <2>2, <2>6, <2>7, ReturnsOnce DEF c
<1>. QED
  BY <1>4, <1>5, <1>6, <1>7, <1>8, <1>9, <1>10, <1>11 DEF TileRgb

LEMMA MissingOnce ==
    ASSUME Inv, NEW k \in Kids, Missing(k), Once(k)
    PROVE  Once(k)' /\ OthersStay(k) /\ UNCHANGED <<file, synths, killed>>
<1>1. /\ job[k].at = "look" /\ ~On(job[k].tile)
      /\ calls' = [calls EXCEPT ![k] = <<Call(job[k].tile, 0, "gather")>>]
      /\ UNCHANGED <<file, synths, killed>>
  BY DEF Missing
<1>2. PICK t \in Tiles : t = job[k].tile /\ t # Root
  <2>1. PICK t \in Asked : t = job[k].tile
    BY <1>1 DEF Inv, Jobs, NoJob
  <2>2. t \in Tiles /\ t # Root
    BY <1>1, <2>1, PyramidAssumption DEF Inv, Files, On
  <2>. QED
    BY <2>1, <2>2
<1>3. calls[k] = <<>>
  BY <1>1 DEF Inv, Busy
<1>4. PICK c \in CallRecord : c = Call(t, 0, "gather") /\ c.tile = t /\ c.at = "gather"
  <2>1. 0 \in Places
    BY DEF Places
  <2>. QED
    BY <2>1, CallTyped
<1>5. calls' = [calls EXCEPT ![k] = <<c>>] /\ calls \in [Kids -> Seq(CallRecord)]
  BY <1>1, <1>2, <1>4 DEF Inv
<1>6. calls'[k] = <<c>> /\ OthersStay(k)
  BY <1>5 DEF OthersStay
<1>7. PICK r : r = <<c>> /\ Len(r) = 1 /\ r[1] = c
  <2>1. Len(<<c>>) = 1 /\ <<c>>[1] = c
    OBVIOUS
  <2>. QED
    BY <2>1
<1>8. t[3] \in Int
  BY Heights
<1>9. Falling(r)
  BY <1>4, <1>7, <1>8 DEF Falling
<1>10. ASSUME killed'[k] = 0
       PROVE  Undone(synths, k, r) /\ Done(file, synths, k, r)
  <2>1. \A m \in 1..Len(synths) : synths[m].kid = k => All(file, synths[m].quad)
    BY <1>1, <1>3, <1>10, Unmade DEF Once
  <2>2. ~All(file, QuadOf(t))
    BY <1>1, <1>2, NotAll DEF On
  <2>3. Undone(synths, k, r)
    BY <1>4, <1>7, <2>1, <2>2 DEF Undone
  <2>4. Done(file, synths, k, r)
    BY <2>1 DEF Done
  <2>. QED
    BY <2>3, <2>4
<1>11. r = calls'[k]
  BY <1>6, <1>7
<1>12. Once(k)'
  BY <1>1, <1>9, <1>10, <1>11 DEF Once
<1>. QED
  BY <1>1, <1>6, <1>12

LEMMA TileRgbOthers ==
    ASSUME Inv, NEW k \in Kids, TileRgb(k)
    PROVE  OthersStay(k)
<1>1. PICK s : calls' = [calls EXCEPT ![k] = s]
  BY Zenon DEF TileRgb, Load, NotThere, WantParent, Synth, PutNothing, Put, Publish, Return, Going, Returns
<1>. QED
  BY <1>1 DEF OthersStay, Inv

(***************************************************************************)
(* A synthesis is of a quad that the kid is getting the parents of.        *)
(***************************************************************************)
LEMMA SynthsOnce ==
    ASSUME Inv, NEW k \in Kids, TileRgb(k), Once(k), OncePerKid, killed \in [Kids -> Nat]
    PROVE  OncePerKid'
<1>1. CASE Synth(k)
  <2>. DEFINE c == Innermost(k)
              s == calls[k]
  <2>1. /\ c.at = "gather" /\ UNCHANGED killed /\ s # <<>>
        /\ synths' = Append(synths, [kid |-> k, quad |-> QuadOf(c.tile), of |-> c.have])
    BY <1>1 DEF Synth, Running, Quad
  <2>2. Len(synths) \in Nat /\ synths \in Seq([kid : Kids, quad : Tiles, of : [Places -> Picture]])
    BY SynthsGrow DEF Inv
  <2>3. Len(s) \in 1..Len(s) /\ c = s[Len(s)]
    BY <2>1, Inner DEF Innermost
  <2>. HIDE DEF c, s
  <2>4. /\ Len(synths') = Len(synths) + 1 /\ synths'[Len(synths) + 1].quad = QuadOf(c.tile)
        /\ synths'[Len(synths) + 1].kid = k
        /\ \A m \in 1..Len(synths) : synths'[m] = synths[m]
    BY <2>1, <2>2
  <2>5. killed[k] = 0 => \A m \in 1..Len(synths) : synths[m].kid = k => synths[m].quad # QuadOf(c.tile)
    BY <2>1, <2>3 DEF Once, Undone, s
  <2>6. ASSUME NEW l \in Kids, NEW m \in 1..Len(synths'), NEW n \in 1..Len(synths'),
               synths'[m].kid = l, synths'[n].kid = l, synths'[m].quad = synths'[n].quad, ~(killed'[l] > 0)
        PROVE  m = n
    <3>1. killed[l] = 0
      BY <2>1, <2>6
    <3>2. CASE m \in 1..Len(synths) /\ n \in 1..Len(synths)
      BY <2>1, <2>4, <2>6, <3>2 DEF OncePerKid
    <3>3. CASE m = Len(synths) + 1 /\ n \in 1..Len(synths)
      BY <2>4, <2>5, <2>6, <3>1, <3>3
    <3>4. CASE n = Len(synths) + 1 /\ m \in 1..Len(synths)
      BY <2>4, <2>5, <2>6, <3>1, <3>4
    <3>. QED
      BY <2>2, <2>4, <3>2, <3>3, <3>4
  <2>. QED
    BY <2>6 DEF OncePerKid
<1>2. CASE ~Synth(k)
  <2>1. UNCHANGED <<synths, killed>>
    BY <1>2 DEF TileRgb, Load, NotThere, WantParent, PutNothing, Put, Publish, Return
  <2>. QED
    BY <2>1 DEF OncePerKid
<1>. QED
  BY <1>1, <1>2

LEMMA OnceSteps ==
    ASSUME Inv, OnceInv, NEW k \in Kids, TilePng(k) \/ TileRgb(k) \/ Kill(k)
    PROVE  OnceInv'
<1>1. CASE TileRgb(k)
  <2>1. OthersStay(k) /\ Grows(file, file') /\ More(synths, synths', k) /\ UNCHANGED killed
    BY <1>1, TileRgbOthers, FilesGrow, SynthsGrow
  <2>2. Once(k)' /\ OncePerKid'
    BY <1>1, TileRgbOnce, SynthsOnce DEF OnceInv
  <2>3. ASSUME NEW l \in Kids PROVE Once(l)'
    <3>1. CASE l = k
      BY <2>2, <3>1
    <3>2. CASE l # k
      <4>1. calls'[l] = calls[l] /\ Once(l)
        BY <2>1, <3>2 DEF OthersStay, OnceInv
      <4>2. ASSUME killed[l] = 0
            PROVE  Undone(synths', l, calls[l]) /\ Done(file', synths', l, calls[l])
        <5>1. Undone(synths, l, calls[l]) /\ Done(file, synths, l, calls[l])
          BY <4>1, <4>2 DEF Once
        <5>. QED
          BY <2>1, <3>2, <5>1, AnothersOnce
      <4>. QED
        BY <2>1, <4>1, <4>2 DEF Once
    <3>. QED
      BY <3>1, <3>2
  <2>. QED
    BY <2>1, <2>2, <2>3 DEF OnceInv
<1>2. CASE Missing(k)
  <2>1. Once(k)' /\ OthersStay(k) /\ UNCHANGED <<file, synths, killed>>
    BY <1>2, MissingOnce DEF OnceInv
  <2>2. \A l \in Kids : Once(l)'
    BY <2>1 DEF OnceInv, Once, OthersStay
  <2>. QED
    BY <2>1, <2>2 DEF OnceInv, OncePerKid
<1>3. CASE Ask(k) \/ Found(k)
  <2>1. UNCHANGED <<file, calls, synths, killed>>
    BY <1>3 DEF Ask, Found
  <2>. QED
    BY <2>1 DEF OnceInv, Once, OncePerKid
<1>4. CASE Kill(k)
  <2>1. /\ killed' = [killed EXCEPT ![k] = killed[k] + 1] /\ calls' = [calls EXCEPT ![k] = <<>>]
        /\ UNCHANGED <<file, synths>>
    BY <1>4 DEF Kill
  <2>2. /\ killed' \in [Kids -> Nat] /\ killed'[k] > 0
        /\ \A l \in Kids \ {k} : killed'[l] = killed[l]
    BY <2>1 DEF OnceInv
  <2>3. calls'[k] = <<>> /\ \A l \in Kids \ {k} : calls'[l] = calls[l]
    BY <2>1 DEF Inv
  <2>4. Falling(<<>>)
    BY DEF Falling
  <2>5. \A l \in Kids : Once(l)'
    BY <2>1, <2>2, <2>3, <2>4 DEF OnceInv, Once
  <2>6. OncePerKid'
    BY <2>1, <2>2 DEF OnceInv, OncePerKid
  <2>. QED
    BY <2>2, <2>5, <2>6 DEF OnceInv
<1>. QED
  BY <1>1, <1>2, <1>3, <1>4 DEF TilePng

LEMMA OnceInit == Init => OnceInv
<1>. SUFFICES ASSUME Init PROVE OnceInv
  OBVIOUS
<1>1. /\ Len(synths) = 0 /\ killed \in [Kids -> Nat]
      /\ \A k \in Kids : calls[k] = <<>>
  BY DEF Init
<1>2. \A m : m \notin 1..0
  OBVIOUS
<1>3. Falling(<<>>) /\ \A ss, k : Undone(ss, k, <<>>)
  BY DEF Falling, Undone
<1>4. \A k \in Kids : Once(k)
  BY <1>1, <1>2, <1>3 DEF Once, Done
<1>. QED
  BY <1>1, <1>2, <1>4 DEF OnceInv, OncePerKid

LEMMA NextOnce ==
    ASSUME Inv, OnceInv, [Next]_vars
    PROVE  OnceInv'
<1>1. CASE UNCHANGED vars
  BY <1>1 DEF vars, OnceInv, Once, OncePerKid
<1>2. CASE Next
  BY <1>2, OnceSteps DEF Next
<1>. QED
  BY <1>1, <1>2

(***************************************************************************)
(* A kid that was not killed synthesises no quad twice, for any number of  *)
(* kids and levels: while it gets the parents of a quad it makes only      *)
(* quads of higher levels, and afterwards the four tiles are there, put by *)
(* it or by others, so that it never gets their parents again.             *)
(***************************************************************************)
THEOREM EachQuadOncePerKid == Spec => []OncePerKid
<1>1. Inv /\ OnceInv /\ [Next]_vars => OnceInv'
  BY NextOnce
<1>2. OnceInv => OncePerKid
  BY DEF OnceInv
<1>. QED
  BY <1>1, <1>2, InvAlways, OnceInit, PTL DEF Spec

-----------------------------------------------------------------------------
(* One kid: what is published stays, and is made from what is published. *)

OneKid == \A k, l \in Kids : k = l

(***************************************************************************)
(* The parents that a call has got are those that are published; the tile  *)
(* it is for was not there when it began to get them, and is the picture   *)
(* it has made once that is put.                                           *)
(***************************************************************************)
Got(f, c) ==
    \A i \in Places :
        c.have[i] # None =>
            /\ Parent(QuadOf(c.tile), i) \in Tiles
            /\ c.have[i] = f[Parent(QuadOf(c.tile), i)]
Putting(f, ss, c) ==
    c.at \in {"put", "publish"} =>
        /\ c.made \in 1..Len(ss) /\ ss[c.made].quad = QuadOf(c.tile)
        /\ \A i \in Places :
               Child(QuadOf(c.tile), i) = c.tile =>
                   f[c.tile] = IF i < c.next THEN <<c.made, i>> ELSE None
        /\ c.at = "publish" => f[Child(QuadOf(c.tile), c.next)] = None
KeptCall(f, ss, c) == Got(f, c) /\ Putting(f, ss, c) /\ (c.at = "gather" => f[c.tile] = None)
Linked(s) == \A n \in 1..Len(s) : n > 1 => s[n].tile = Parent(QuadOf(s[n - 1].tile), s[n].slot)
Kept(f, ss, s) == Linked(s) /\ \A n \in 1..Len(s) : KeptCall(f, ss, s[n])

(***************************************************************************)
(* Every file is a tile of a synthesis of its quad, and every synthesis    *)
(* was of the files of the quad's parents.                                 *)
(***************************************************************************)
Sourced(f, ss) ==
    \A t \in Tiles \ {Root} :
        f[t] # None =>
            /\ f[t][1] \in 1..Len(ss) /\ f[t][2] \in Places
            /\ t = Child(QuadOf(t), f[t][2]) /\ ss[f[t][1]].quad = QuadOf(t)
Grounded(f, ss) ==
    \A m \in 1..Len(ss), i \in Places :
        LET p == Parent(ss[m].quad, i)
        IN  p \in Tiles /\ f[p] # None /\ ss[m].of[i] = f[p]

OneInv ==
    /\ \A k \in Kids : Kept(file, synths, calls[k])
    /\ Sourced(file, synths)
    /\ Grounded(file, synths)

(***************************************************************************)
(* The four tiles of a quad are four tiles.                                *)
(***************************************************************************)
LEMMA Apart ==
    ASSUME NEW n \in Nat \ {0}, NEW b \in 0..n - 1
    PROVE  (2 * b + 1) % (2 * n) # (2 * b + 2) % (2 * n)
<1>1. (2 * b + 1) % (2 * n) = 2 * b + 1
  BY ModSmall
<1>2. CASE b < n - 1
  <2>1. (2 * b + 2) % (2 * n) = 2 * b + 2
    BY <1>2, ModSmall
  <2>. QED
    BY <1>1, <2>1
<1>3. CASE b = n - 1
  <2>1. (2 * n) % (2 * n) = 0
    BY ModOnce
  <2>2. 2 * b + 2 = 2 * n
    BY <1>3
  <2>. QED
    BY <1>1, <2>1, <2>2
<1>. QED
  BY <1>2, <1>3

LEMMA ChildrenDiffer ==
    ASSUME NEW t \in Tiles, t # Root, NEW i \in Places, NEW j \in Places,
           Child(QuadOf(t), i) = Child(QuadOf(t), j)
    PROVE  i = j
<1>1. t[3] \in 1..MaxZ /\ QuadOf(t) \in Level(t[3] - 1)
  BY Leveled
<1>2. PICK n \in Nat \ {0} : Side[t[3] - 1] = n /\ Side[t[3]] = 2 * n /\ t[3] - 1 + 1 = t[3]
  BY <1>1, Sizes
<1>3. PICK b \in 0..n - 1, c \in 0..n - 1 : QuadOf(t) = <<b, c, t[3] - 1>>
  BY <1>1, <1>2 DEF Level
<1>4. \A k \in Places :
          Child(QuadOf(t), k) = <<(2 * b + 1 + Step(k)) % (2 * n), (2 * c + 1 + Rise(k)) % (2 * n), t[3]>>
  BY <1>2, <1>3 DEF Child, Masked
<1>5. /\ (2 * b + 1 + Step(i)) % (2 * n) = (2 * b + 1 + Step(j)) % (2 * n)
      /\ (2 * c + 1 + Rise(i)) % (2 * n) = (2 * c + 1 + Rise(j)) % (2 * n)
  BY <1>4
<1>6. \A d \in 0..n - 1, x, y \in {0, 1} :
          (2 * d + 1 + x) % (2 * n) = (2 * d + 1 + y) % (2 * n) => x = y
  <2>. SUFFICES ASSUME NEW d \in 0..n - 1, NEW x \in {0, 1}, NEW y \in {0, 1}, x # y
                PROVE  (2 * d + 1 + x) % (2 * n) # (2 * d + 1 + y) % (2 * n)
    OBVIOUS
  <2>1. (2 * d + 1) % (2 * n) # (2 * d + 2) % (2 * n)
    BY Apart
  <2>2. 2 * d + 1 + 0 = 2 * d + 1 /\ 2 * d + 1 + 1 = 2 * d + 2
    OBVIOUS
  <2>. QED
    BY <2>1, <2>2
<1>7. Step(i) = Step(j) /\ Rise(i) = Rise(j)
  BY <1>5, <1>6, Square
<1>. QED
  BY <1>7 DEF Places, Step, Rise

(***************************************************************************)
(* The tiles of a quad are of its level below, and belong to it.           *)
(***************************************************************************)
LEMMA Belongs ==
    ASSUME NEW t \in Tiles, t # Root, NEW i \in Places
    PROVE  /\ Child(QuadOf(t), i)[3] = t[3]
           /\ QuadOf(Child(QuadOf(t), i)) = QuadOf(t)
           /\ Child(QuadOf(t), i) \in Tiles
<1>1. t[3] \in 1..MaxZ /\ QuadOf(t) \in Level(t[3] - 1) /\ t[3] - 1 + 1 = t[3]
  BY Leveled, Sizes
<1>2. QuadOf(t)[3] = t[3] - 1
  BY DEF QuadOf
<1>3. Child(QuadOf(t), i)[3] = t[3]
  BY <1>1, <1>2 DEF Child
<1>. QED
  BY <1>1, <1>3, QuadsAlwaysFit, Leveled DEF QuadsFit, OneQuad

(***************************************************************************)
(* The innermost call becomes d; what was published by then stays.         *)
(***************************************************************************)
FilesKept(f, g) == \A t \in Tiles : f[t] # None => g[t] = f[t]

LEMMA KeptGoing ==
    ASSUME Inv, OneInv, NEW k \in Kids, calls[k] # <<>>, Falling(calls[k]),
           NEW d \in CallRecord, d.tile = Innermost(k).tile, d.slot = Innermost(k).slot, Going(k, d),
           FilesKept(file, file'), More(synths, synths', k),
           \A t \in Tiles : t[3] > d.tile[3] => file'[t] = file[t],
           KeptCall(file', synths', d)
    PROVE  Kept(file', synths', calls'[k])
<1>. DEFINE s == calls[k]
            r == calls'[k]
            N == Len(calls[k])
<1>1. /\ s \in Seq(CallRecord) /\ N \in Nat /\ N > 0 /\ N \in 1..N
      /\ s[N].tile = d.tile /\ s[N].slot = d.slot /\ Len(s) = N /\ Kept(file, synths, s)
  BY Inner DEF Innermost, OneInv
<1>2. /\ Len(r) = N /\ r[N] = d /\ \A n \in 1..N : n # N => r[n] = s[n]
  BY Went
<1>3. Falling(s)
  OBVIOUS
<1>. HIDE DEF s, r, N
<1>4. ASSUME NEW n \in 1..Len(r), n > 1 PROVE r[n].tile = Parent(QuadOf(r[n - 1].tile), r[n].slot)
  <2>1. n - 1 \in 1..N /\ n \in 1..N /\ n - 1 # N
    BY <1>1, <1>2, <1>4
  <2>2. r[n - 1] = s[n - 1] /\ r[n].tile = s[n].tile /\ r[n].slot = s[n].slot
    BY <1>1, <1>2, <2>1
  <2>. QED
    BY <1>1, <1>4, <2>1, <2>2 DEF Kept, Linked
<1>5. ASSUME NEW n \in 1..Len(r) PROVE KeptCall(file', synths', r[n])
  <2>1. CASE n = N
    BY <1>2, <2>1
  <2>2. CASE n # N
    <3>1. /\ n \in 1..N /\ r[n] = s[n] /\ KeptCall(file, synths, s[n]) /\ s[n].at = "gather"
      BY <1>1, <1>2, <1>3, <2>2 DEF Kept, Falling
    <3>2. s[n].tile[3] > s[N].tile[3] /\ s[n].tile \in Tiles
      <4>1. s[n].tile[3] > s[Len(s)].tile[3]
        BY <1>1, <1>3, <2>2, <3>1, OtherQuads
      <4>2. s[n] \in CallRecord
        BY <1>1, <3>1, ElementOfSeq
      <4>. QED
        BY <1>1, <4>1, <4>2 DEF CallRecord
    <3>3. Got(file', s[n])
      BY <3>1 DEF KeptCall, Got, FilesKept
    <3>4. file'[s[n].tile] = None
      BY <1>1, <3>1, <3>2 DEF KeptCall
    <3>. QED
      BY <3>1, <3>3, <3>4 DEF KeptCall, Putting
  <2>. QED
    BY <2>1, <2>2
<1>. QED
  BY <1>4, <1>5 DEF Kept, Linked, r

(***************************************************************************)
(* A return with the picture that is published.                            *)
(***************************************************************************)
LEMMA KeptReturning ==
    ASSUME Inv, OneInv, NEW k \in Kids, calls[k] # <<>>,
           NEW p \in Picture, Returns(k, p), p = file[Innermost(k).tile],
           UNCHANGED <<file, synths>>
    PROVE  Kept(file', synths', calls'[k])
<1>. DEFINE s == calls[k]
            r == calls'[k]
            N == Len(calls[k])
            i == Innermost(k).slot
<1>1. /\ N \in Nat /\ N > 0 /\ N \in 1..N /\ Kept(file, synths, s) /\ Len(s) = N
      /\ Innermost(k) = s[N] /\ Innermost(k).tile \in Tiles
  BY Inner DEF OneInv, Innermost, CallRecord
<1>2. /\ Len(r) = N - 1
      /\ \A n \in 1..N - 1 :
             /\ r[n].tile = s[n].tile /\ r[n].slot = s[n].slot
             /\ r[n].at = s[n].at /\ r[n].made = s[n].made /\ r[n].next = s[n].next
             /\ \A j \in Places :
                    r[n].have[j] = IF n = N - 1 /\ j = i THEN p ELSE s[n].have[j]
  BY Returned
<1>3. N > 1 => Innermost(k).tile = Parent(QuadOf(s[N - 1].tile), i)
  BY <1>1 DEF Kept, Linked
<1>. HIDE DEF s, r, N, i
<1>4. ASSUME NEW n \in 1..Len(r), n > 1 PROVE r[n].tile = Parent(QuadOf(r[n - 1].tile), r[n].slot)
  <2>1. n \in 1..N - 1 /\ n - 1 \in 1..N - 1 /\ n \in 1..N
    BY <1>1, <1>2, <1>4
  <2>. QED
    BY <1>1, <1>2, <1>4, <2>1 DEF Kept, Linked
<1>5. ASSUME NEW n \in 1..Len(r) PROVE KeptCall(file, synths, r[n])
  <2>1. n \in 1..N - 1 /\ n \in 1..N /\ (n = N - 1 => N > 1)
    BY <1>1, <1>2
  <2>2. KeptCall(file, synths, s[n])
    BY <1>1, <2>1 DEF Kept
  <2>3. Got(file, r[n])
    <3>. SUFFICES ASSUME NEW j \in Places, r[n].have[j] # None
                  PROVE  /\ Parent(QuadOf(r[n].tile), j) \in Tiles
                         /\ r[n].have[j] = file[Parent(QuadOf(r[n].tile), j)]
      BY DEF Got
    <3>1. CASE n = N - 1 /\ j = i
      BY <1>1, <1>2, <1>3, <2>1, <3>1
    <3>2. CASE ~(n = N - 1 /\ j = i)
      <4>1. r[n].have[j] = s[n].have[j] /\ r[n].tile = s[n].tile
        BY <1>2, <2>1, <3>2
      <4>. QED
        BY <2>2, <4>1 DEF KeptCall, Got
    <3>. QED
      BY <3>1, <3>2
  <2>4. r[n].tile = s[n].tile /\ r[n].at = s[n].at /\ r[n].made = s[n].made /\ r[n].next = s[n].next
    BY <1>2, <2>1
  <2>. QED
    BY <2>2, <2>3, <2>4 DEF KeptCall, Putting
<1>. QED
  BY <1>4, <1>5 DEF Kept, Linked, r

LEMMA CallEmpty ==
    ASSUME NEW t, NEW i, NEW at \in {"look", "gather"}
    PROVE  Call(t, i, at).slot = i /\ \A j \in Places : Call(t, i, at).have[j] = None
BY DEF Call

LEMMA KeptWanting ==
    ASSUME Inv, OneInv, NEW k \in Kids, calls[k] # <<>>, NEW d \in CallRecord,
           calls' = [calls EXCEPT ![k] = Append(calls[k], d)], UNCHANGED <<file, synths>>,
           d.tile = Parent(QuadOf(Innermost(k).tile), d.slot), KeptCall(file, synths, d)
    PROVE  Kept(file', synths', calls'[k])
<1>. DEFINE s == calls[k]
            r == calls'[k]
            N == Len(calls[k])
<1>1. N \in Nat /\ N > 0 /\ Len(s) = N /\ Innermost(k) = s[N] /\ Kept(file, synths, s)
  BY Inner DEF OneInv, Innermost
<1>2. Len(r) = N + 1 /\ r[N + 1] = d /\ \A n \in 1..N : r[n] = s[n]
  BY Wanted
<1>. HIDE DEF s, r, N
<1>3. ASSUME NEW n \in 1..Len(r), n > 1 PROVE r[n].tile = Parent(QuadOf(r[n - 1].tile), r[n].slot)
  <2>1. CASE n = N + 1
    <3>1. n - 1 = N /\ N \in 1..N
      BY <1>1, <2>1
    <3>. QED
      BY <1>1, <1>2, <2>1, <3>1
  <2>2. CASE n # N + 1
    <3>1. n \in 1..N /\ n - 1 \in 1..N
      BY <1>1, <1>2, <1>3, <2>2
    <3>. QED
      BY <1>1, <1>2, <1>3, <3>1 DEF Kept, Linked
  <2>. QED
    BY <2>1, <2>2
<1>4. ASSUME NEW n \in 1..Len(r) PROVE KeptCall(file, synths, r[n])
  <2>1. CASE n = N + 1
    BY <1>2, <2>1
  <2>2. CASE n # N + 1
    <3>1. n \in 1..N
      BY <1>1, <1>2, <2>2
    <3>. QED
      BY <1>1, <1>2, <3>1 DEF Kept
  <2>. QED
    BY <2>1, <2>2
<1>. QED
  BY <1>3, <1>4 DEF Kept, Linked, r

(***************************************************************************)
(* The kid of a step is the only one.                                      *)
(***************************************************************************)
LEMMA Alone ==
    ASSUME OneKid, NEW k \in Kids, Kept(file', synths', calls'[k]),
           Sourced(file', synths'), Grounded(file', synths')
    PROVE  OneInv'
<1>1. ASSUME NEW l \in Kids PROVE Kept(file', synths', calls'[l])
  <2>1. l = k
    BY DEF OneKid
  <2>. QED
    BY <2>1
<1>. QED
  BY <1>1 DEF OneInv

(***************************************************************************)
(* A step that stays in the call and changes no file.                      *)
(***************************************************************************)
LEMMA KeptStaying ==
    ASSUME OneKid, Inv, OneInv, NEW k \in Kids, calls[k] # <<>>, Falling(calls[k]),
           NEW d \in CallRecord, d.tile = Innermost(k).tile, d.slot = Innermost(k).slot, Going(k, d),
           UNCHANGED <<file, synths>>, KeptCall(file, synths, d)
    PROVE  OneInv'
<1>1. FilesKept(file, file') /\ More(synths, synths', k)
  <2>1. synths \in Seq([kid : Kids, quad : Tiles, of : [Places -> Picture]])
    BY DEF Inv
  <2>2. Len(synths) \in Nat
    BY <2>1, LenProperties
  <2>. QED
    BY <2>2 DEF FilesKept, More
<1>2. Kept(file', synths', calls'[k])
  BY <1>1, KeptGoing
<1>3. Sourced(file', synths') /\ Grounded(file', synths')
  BY DEF OneInv
<1>. QED
  BY <1>2, <1>3, Alone

LEMMA TileRgbOne ==
    ASSUME OneKid, Inv, OneInv, NEW k \in Kids, TileRgb(k), Falling(calls[k])
    PROVE  OneInv' /\ FilesKept(file, file')
<1>. DEFINE c == Innermost(k)
<1>1. calls[k] # <<>>
  BY DEF TileRgb, Load, NotThere, WantParent, Synth, PutNothing, Put, Publish, Return, Running
<1>2. c \in CallRecord /\ Good(file, c) /\ calls[k] \in Seq(CallRecord) /\ Files(file)
      /\ KeptCall(file, synths, c) /\ Sourced(file, synths) /\ Grounded(file, synths)
  <2>1. c = calls[k][Len(calls[k])] /\ Len(calls[k]) \in 1..Len(calls[k])
    BY <1>1, Inner DEF Innermost
  <2>2. KeptCall(file, synths, c)
    BY <2>1 DEF OneInv, Kept
  <2>. QED
    BY <1>1, <2>2, Inner DEF Inv, OneInv
<1>3. /\ c.tile \in Tiles /\ c.slot \in Places /\ c.at \in Ats /\ c.have \in [Places -> Picture]
      /\ c.made \in Nat /\ c.next \in 0..4
  BY <1>2 DEF CallRecord
<1>4. FilesKept(file, file)
  BY DEF FilesKept
<1>5. Len(synths) \in Nat /\ synths \in Seq([kid : Kids, quad : Tiles, of : [Places -> Picture]])
      /\ More(synths, synths', k)
  BY SynthsGrow DEF Inv
<1>. HIDE DEF c
<1>6. CASE Load(k)
  <2>1. Returns(k, file[c.tile]) /\ UNCHANGED <<file, synths>> /\ file[c.tile] \in Picture
    BY <1>2, <1>3, <1>6 DEF Load, Files, c
  <2>2. Kept(file', synths', calls'[k])
    BY <1>1, <2>1, KeptReturning DEF c
  <2>. QED
    BY <1>2, <1>4, <2>1, <2>2, Alone
<1>7. CASE NotThere(k)
  <2>1. /\ c.at = "look" /\ file[c.tile] = None /\ Going(k, [c EXCEPT !.at = "gather"])
        /\ UNCHANGED <<file, synths>>
    BY <1>7 DEF NotThere, Running, On, c
  <2>2. PICK d : d = [c EXCEPT !.at = "gather"]
    OBVIOUS
  <2>3. d \in CallRecord /\ d.tile = c.tile /\ d.slot = c.slot /\ d.at = "gather" /\ d.have = c.have
    BY <1>2, <2>2 DEF CallRecord, Ats
  <2>4. KeptCall(file, synths, d)
    BY <1>2, <2>1, <2>3 DEF KeptCall, Got, Putting
  <2>. QED
    BY <1>1, <1>4, <2>1, <2>2, <2>3, <2>4, KeptStaying DEF c
<1>8. CASE WantParent(k)
  <2>1. c.at = "gather" /\ UNCHANGED <<file, synths>>
    BY <1>8 DEF WantParent, Running, c
  <2>2. PICK i \in Places :
            calls' = [calls EXCEPT ![k] = Append(@, Call(Parent(QuadOf(c.tile), i), i, "look"))]
    BY <1>8 DEF WantParent, Quad, c
  <2>3. Parent(QuadOf(c.tile), i) \in Tiles
    BY <1>2, <1>3, <2>1, Leveled DEF Good
  <2>4. PICK d \in CallRecord : /\ d = Call(Parent(QuadOf(c.tile), i), i, "look") /\ d.at = "look"
                               /\ d.tile = Parent(QuadOf(c.tile), i) /\ d.slot = i
                               /\ \A j \in Places : d.have[j] = None
    BY <2>3, CallTyped, CallEmpty
  <2>5. calls' = [calls EXCEPT ![k] = Append(calls[k], d)]
    BY <2>2, <2>4
  <2>6. KeptCall(file, synths, d)
    BY <2>4 DEF KeptCall, Got, Putting
  <2>7. Kept(file', synths', calls'[k])
    BY <1>1, <2>1, <2>4, <2>5, <2>6, KeptWanting DEF c
  <2>. QED
    BY <1>2, <1>4, <2>1, <2>7, Alone
<1>9. CASE Synth(k)
  <2>1. /\ c.at = "gather" /\ UNCHANGED file /\ \A i \in Places : c.have[i] # None
        /\ synths' = Append(synths, [kid |-> k, quad |-> QuadOf(c.tile), of |-> c.have])
        /\ Going(k, [c EXCEPT !.at = "put", !.made = Len(synths) + 1])
    BY <1>9 DEF Synth, Running, Quad, c
  <2>2. PICK d : d = [c EXCEPT !.at = "put", !.made = Len(synths) + 1]
    OBVIOUS
  <2>3. /\ d \in CallRecord /\ d.tile = c.tile /\ d.slot = c.slot /\ d.at = "put" /\ d.have = c.have
        /\ d.made = Len(synths) + 1 /\ d.next = 0
    <3>1. Len(synths) + 1 \in Nat /\ c.next = 0
      BY <1>2, <1>5, <2>1 DEF Good
    <3>. QED
      BY <1>2, <2>2, <3>1 DEF CallRecord, Ats
  <2>4. /\ Len(synths') = Len(synths) + 1 /\ synths'[Len(synths) + 1].quad = QuadOf(c.tile)
        /\ synths'[Len(synths) + 1].of = c.have
        /\ \A m \in 1..Len(synths) : synths'[m] = synths[m]
    BY <1>5, <2>1
  <2>5. KeptCall(file', synths', d)
    <3>1. Got(file', d)
      BY <1>2, <2>1, <2>3 DEF KeptCall, Got
    <3>2. d.made \in 1..Len(synths') /\ synths'[d.made].quad = QuadOf(d.tile)
      BY <1>5, <2>3, <2>4
    <3>3. \A i \in Places : ~(i < d.next)
      BY <2>3 DEF Places
    <3>4. Putting(file', synths', d)
      BY <1>2, <2>1, <2>3, <3>2, <3>3 DEF KeptCall, Putting
    <3>. QED
      BY <2>3, <3>1, <3>4 DEF KeptCall
  <2>6. Kept(file', synths', calls'[k])
    BY <1>1, <1>4, <1>5, <2>1, <2>2, <2>3, <2>5, KeptGoing DEF c
  <2>7. Sourced(file', synths')
    BY <1>2, <1>5, <2>1, <2>4 DEF Sourced
  <2>8. Grounded(file', synths')
    <3>. SUFFICES ASSUME NEW m \in 1..Len(synths'), NEW i \in Places, NEW p, p = Parent(synths'[m].quad, i)
                  PROVE  p \in Tiles /\ file[p] # None /\ synths'[m].of[i] = file[p]
      BY <2>1 DEF Grounded
    <3>1. CASE m \in 1..Len(synths)
      BY <1>2, <2>4, <3>1 DEF Grounded
    <3>2. CASE m = Len(synths) + 1
      BY <1>2, <2>1, <2>4, <3>2 DEF KeptCall, Got
    <3>. QED
      BY <1>5, <2>4, <3>1, <3>2
  <2>. QED
    BY <1>4, <2>1, <2>6, <2>7, <2>8, Alone
<1>10. CASE PutNothing(k)
  <2>1. /\ c.at = "put" /\ c.next \in Places /\ file[Child(QuadOf(c.tile), c.next)] # None
        /\ Going(k, [c EXCEPT !.next = c.next + 1]) /\ UNCHANGED <<file, synths>>
    BY <1>10 DEF PutNothing, Running, Quad, On, c
  <2>2. PICK d : d = [c EXCEPT !.next = c.next + 1]
    OBVIOUS
  <2>3. c.next + 1 \in 0..4 /\ \A i \in Places : i < c.next + 1 => i < c.next \/ i = c.next
    BY <2>1 DEF Places
  <2>4. /\ d \in CallRecord /\ d.tile = c.tile /\ d.slot = c.slot /\ d.at = "put" /\ d.have = c.have
        /\ d.made = c.made /\ d.next = c.next + 1
    BY <1>2, <2>1, <2>2, <2>3 DEF CallRecord
  <2>5. ASSUME NEW i \in Places, Child(QuadOf(c.tile), i) = c.tile
        PROVE  file[c.tile] = IF i < d.next THEN <<c.made, i>> ELSE None
    <3>1. file[c.tile] = IF i < c.next THEN <<c.made, i>> ELSE None
      BY <1>2, <2>1, <2>5 DEF KeptCall, Putting
    <3>2. i # c.next
      <4>1. i = c.next => ~(i < c.next) /\ file[c.tile] # None
        BY <1>3, <2>1, <2>5 DEF Places
      <4>. QED
        BY <3>1, <4>1
    <3>3. i < d.next <=> i < c.next
      BY <1>3, <2>3, <2>4, <3>2 DEF Places
    <3>. QED
      BY <3>1, <3>3
  <2>6. KeptCall(file, synths, d)
    <3>1. Got(file, d)
      BY <1>2, <2>4 DEF KeptCall, Got
    <3>2. Putting(file, synths, d)
      BY <1>2, <2>1, <2>4, <2>5 DEF KeptCall, Putting
    <3>. QED
      BY <2>4, <3>1, <3>2 DEF KeptCall
  <2>. QED
    BY <1>1, <1>4, <2>1, <2>2, <2>4, <2>6, KeptStaying DEF c
<1>11. CASE Put(k)
  <2>1. /\ c.at = "put" /\ file[Child(QuadOf(c.tile), c.next)] = None
        /\ Going(k, [c EXCEPT !.at = "publish"]) /\ UNCHANGED <<file, synths>>
    BY <1>11 DEF Put, Running, Quad, On, c
  <2>2. PICK d : d = [c EXCEPT !.at = "publish"]
    OBVIOUS
  <2>3. /\ d \in CallRecord /\ d.tile = c.tile /\ d.slot = c.slot /\ d.at = "publish" /\ d.have = c.have
        /\ d.made = c.made /\ d.next = c.next
    BY <1>2, <2>1, <2>2 DEF CallRecord, Ats
  <2>4. KeptCall(file, synths, d)
    BY <1>2, <2>1, <2>3 DEF KeptCall, Got, Putting
  <2>. QED
    BY <1>1, <1>4, <2>1, <2>2, <2>3, <2>4, KeptStaying DEF c
<1>12. CASE Publish(k)
  <2>. DEFINE u == Child(QuadOf(c.tile), c.next)
  <2>1. /\ c.at = "publish" /\ file' = [file EXCEPT ![u] = <<c.made, c.next>>]
        /\ Going(k, [c EXCEPT !.at = "put", !.next = c.next + 1]) /\ UNCHANGED synths
    BY <1>12 DEF Publish, Running, Quad, c
  <2>2. c.next \in Places /\ c.tile # Root /\ file[u] = None
    BY <1>2, <2>1 DEF Good, KeptCall, Putting
  <2>3. u \in Tiles /\ QuadOf(u) = QuadOf(c.tile) /\ u[3] = c.tile[3]
    BY <1>3, <2>2, Belongs
  <2>4. /\ \A i \in Places : Child(QuadOf(c.tile), i) = u => i = c.next
        /\ u = Child(QuadOf(u), c.next)
    BY <1>3, <2>2, <2>3, ChildrenDiffer
  <2>. HIDE DEF u
  <2>5. /\ file'[u] = <<c.made, c.next>> /\ \A t \in Tiles : t # u => file'[t] = file[t]
    BY <1>2, <2>1, <2>3 DEF Files
  <2>6. FilesKept(file, file')
    BY <2>2, <2>5 DEF FilesKept
  <2>7. PICK d : d = [c EXCEPT !.at = "put", !.next = c.next + 1]
    OBVIOUS
  <2>8. c.next + 1 \in 0..4
    BY <2>2 DEF Places
  <2>9. /\ d \in CallRecord /\ d.tile = c.tile /\ d.slot = c.slot /\ d.at = "put" /\ d.have = c.have
        /\ d.made = c.made /\ d.next = c.next + 1
    BY <1>2, <2>7, <2>8 DEF CallRecord, Ats
  <2>10. ASSUME NEW i \in Places, Child(QuadOf(c.tile), i) = c.tile
         PROVE  file'[c.tile] = IF i < d.next THEN <<c.made, i>> ELSE None
    <3>1. file[c.tile] = IF i < c.next THEN <<c.made, i>> ELSE None
      BY <1>2, <2>1, <2>10 DEF KeptCall, Putting
    <3>2. CASE c.tile = u
      <4>1. i = c.next /\ i < d.next
        BY <1>3, <2>4, <2>9, <2>10, <3>2 DEF Places
      <4>. QED
        BY <2>5, <3>2, <4>1
    <3>3. CASE c.tile # u
      <4>1. i # c.next
        BY <2>10, <3>3 DEF u
      <4>2. i < d.next <=> i < c.next
        BY <1>3, <2>9, <4>1 DEF Places
      <4>. QED
        BY <1>3, <2>5, <3>1, <3>3, <4>2
    <3>. QED
      BY <3>2, <3>3
  <2>11. KeptCall(file', synths', d)
    <3>1. Got(file', d)
      BY <1>2, <2>6, <2>9 DEF KeptCall, Got, FilesKept
    <3>2. Putting(file', synths', d)
      BY <1>2, <2>1, <2>9, <2>10 DEF KeptCall, Putting
    <3>. QED
      BY <2>9, <3>1, <3>2 DEF KeptCall
  <2>12. \A t \in Tiles : t[3] > d.tile[3] => file'[t] = file[t]
    <3>1. u[3] \in Int
      BY <2>3, Heights
    <3>. QED
      BY <2>3, <2>5, <2>9, <3>1
  <2>13. Kept(file', synths', calls'[k])
    BY <1>1, <1>5, <2>1, <2>6, <2>7, <2>9, <2>11, <2>12, KeptGoing DEF c
  <2>14. Sourced(file', synths')
    <3>. SUFFICES ASSUME NEW t \in Tiles \ {Root}, file'[t] # None
                  PROVE  /\ file'[t][1] \in 1..Len(synths) /\ file'[t][2] \in Places
                         /\ t = Child(QuadOf(t), file'[t][2]) /\ synths[file'[t][1]].quad = QuadOf(t)
      BY <2>1 DEF Sourced
    <3>1. CASE t = u
      <4>1. c.made \in 1..Len(synths) /\ synths[c.made].quad = QuadOf(c.tile)
        BY <1>2, <2>1 DEF KeptCall, Putting
      <4>2. file'[t][1] = c.made /\ file'[t][2] = c.next
        BY <2>5, <3>1
      <4>. QED
        BY <2>2, <2>3, <2>4, <3>1, <4>1, <4>2
    <3>2. CASE t # u
      BY <1>2, <2>5, <3>2 DEF Sourced
    <3>. QED
      BY <3>1, <3>2
  <2>15. Grounded(file', synths')
    BY <1>2, <2>1, <2>6 DEF Grounded, FilesKept
  <2>. QED
    BY <2>6, <2>13, <2>14, <2>15, Alone
<1>13. CASE Return(k)
  <2>1. c.at = "put" /\ c.next \notin Places /\ UNCHANGED <<file, synths>>
    BY <1>13 DEF Return, Running, c
  <2>2. PICK i \in Places : Child(QuadOf(c.tile), i) = c.tile /\ Returns(k, <<c.made, i>>)
    BY <1>13 DEF Return, Quad, c
  <2>3. i < c.next
    BY <1>3, <2>1 DEF Places
  <2>4. file[c.tile] = <<c.made, i>> /\ <<c.made, i>> \in Picture
    <3>1. file[c.tile] = <<c.made, i>>
      BY <1>2, <2>1, <2>2, <2>3 DEF KeptCall, Putting
    <3>. QED
      BY <1>3, <3>1 DEF Picture, Places
  <2>5. Kept(file', synths', calls'[k])
    BY <1>1, <2>1, <2>2, <2>4, KeptReturning DEF c
  <2>. QED
    BY <1>2, <1>4, <2>1, <2>5, Alone
<1>. QED
  BY <1>6, <1>7, <1>8, <1>9, <1>10, <1>11, <1>12, <1>13 DEF TileRgb

LEMMA OneSteps ==
    ASSUME OneKid, Inv, OnceInv, OneInv, [Next]_vars
    PROVE  OneInv' /\ FilesKept(file, file')
<1>. FilesKept(file, file)
  BY DEF FilesKept
<1>1. CASE UNCHANGED vars
  BY <1>1 DEF vars, OneInv
<1>2. ASSUME NEW k \in Kids, TileRgb(k) PROVE OneInv' /\ FilesKept(file, file')
  <2>1. Falling(calls[k])
    BY DEF OnceInv, Once
  <2>. QED
    BY <1>2, <2>1, TileRgbOne
<1>3. ASSUME NEW k \in Kids, Missing(k) PROVE OneInv' /\ FilesKept(file, file')
  <2>1. /\ job[k].at = "look" /\ ~On(job[k].tile)
        /\ calls' = [calls EXCEPT ![k] = <<Call(job[k].tile, 0, "gather")>>]
        /\ UNCHANGED <<file, synths>> /\ calls \in [Kids -> Seq(CallRecord)]
    BY <1>3 DEF Missing, Inv
  <2>2. PICK t \in Tiles : t = job[k].tile
    <3>1. job[k].tile \in Asked
      BY <2>1 DEF Inv, Jobs, NoJob
    <3>. QED
      BY <3>1, PyramidAssumption
  <2>3. PICK c \in CallRecord : /\ c = Call(t, 0, "gather") /\ c.tile = t /\ c.at = "gather"
                               /\ \A j \in Places : c.have[j] = None
    <3>1. 0 \in Places
      BY DEF Places
    <3>. QED
      BY <3>1, CallTyped, CallEmpty
  <2>4. PICK r : r = <<c>> /\ Len(r) = 1 /\ r[1] = c
    <3>1. Len(<<c>>) = 1 /\ <<c>>[1] = c
      OBVIOUS
    <3>. QED
      BY <3>1
  <2>5. calls'[k] = r
    BY <2>1, <2>2, <2>3, <2>4
  <2>6. KeptCall(file, synths, c)
    BY <2>1, <2>2, <2>3 DEF KeptCall, Got, Putting, On
  <2>7. Kept(file', synths', calls'[k])
    BY <2>1, <2>4, <2>5, <2>6 DEF Kept, Linked
  <2>. QED
    BY <2>1, <2>7, Alone DEF OneInv
<1>4. ASSUME NEW k \in Kids, Ask(k) \/ Found(k) PROVE OneInv' /\ FilesKept(file, file')
  <2>1. UNCHANGED <<file, calls, synths>>
    BY <1>4 DEF Ask, Found
  <2>. QED
    BY <2>1 DEF OneInv
<1>5. ASSUME NEW k \in Kids, Kill(k) PROVE OneInv' /\ FilesKept(file, file')
  <2>1. calls' = [calls EXCEPT ![k] = <<>>] /\ UNCHANGED <<file, synths>>
    BY <1>5 DEF Kill
  <2>2. calls'[k] = <<>>
    BY <2>1 DEF Inv
  <2>3. Kept(file', synths', <<>>)
    BY DEF Kept, Linked
  <2>. QED
    BY <2>1, <2>2, <2>3, Alone DEF OneInv
<1>. QED
  BY <1>1, <1>2, <1>3, <1>4, <1>5 DEF Next, TilePng

LEMMA OneInit == Init => OneInv
<1>. SUFFICES ASSUME Init PROVE OneInv
  OBVIOUS
<1>1. Len(synths) = 0 /\ \A k \in Kids : calls[k] = <<>>
  BY DEF Init
<1>2. \A f, ss : Kept(f, ss, <<>>)
  BY DEF Kept, Linked
<1>3. \A t \in Tiles \ {Root} : file[t] = None
  BY DEF Init
<1>. QED
  BY <1>1, <1>2, <1>3 DEF OneInv, Sourced, Grounded

LEMMA OneInvAlways ==
    ASSUME OneKid
    PROVE  Spec => [](Inv /\ OnceInv /\ OneInv)
<1>1. Inv /\ OnceInv /\ OneInv /\ [Next]_vars => Inv' /\ OnceInv' /\ OneInv'
  <2>. SUFFICES ASSUME Inv, OnceInv, OneInv, [Next]_vars PROVE Inv' /\ OnceInv' /\ OneInv'
    OBVIOUS
  <2>1. Inv'
    BY NextKeeps
  <2>2. OnceInv'
    BY NextOnce
  <2>3. OneInv'
    BY OneSteps
  <2>. QED
    BY <2>1, <2>2, <2>3
<1>. QED
  BY <1>1, InitInv, OnceInit, OneInit, PTL DEF Spec

(***************************************************************************)
(* With one kid, put_tile never replaces a file, however often the kid is  *)
(* killed amid a quad: it has looked, and nobody else puts.                *)
(***************************************************************************)
THEOREM PublishedStays ==
    ASSUME OneKid
    PROVE  Spec => Frozen
<1>1. Inv /\ OnceInv /\ OneInv /\ [Next]_vars => [\A t \in Tiles : On(t) => file'[t] = file[t]]_vars
  BY OneSteps DEF FilesKept, On
<1>. QED
  BY <1>1, OneInvAlways, PTL DEF Spec, Frozen

(***************************************************************************)
(* With one kid, every tile was synthesised from the files of its parents, *)
(* the one it lies in among them: the pictures that the recursion got are  *)
(* those it put or found, for it puts a tile it was asked for only while   *)
(* that is not there.                                                      *)
(***************************************************************************)
THEOREM MadeFromPublished ==
    ASSUME OneKid
    PROVE  Spec => []FromPublished
<1>1. Inv /\ OneInv => FromPublished
  <2>. SUFFICES ASSUME Inv, OneInv, NEW t \in Tiles \ {Root}, On(t),
                       NEW s, s = synths[file[t][1]]
                PROVE  /\ t = Child(s.quad, file[t][2])
                       /\ \A i \in Places : s.of[i] = file[Parent(s.quad, i)]
                       /\ \E i \in Places : Parent(s.quad, i) = LiesIn(t)
    BY DEF FromPublished
  <2>1. /\ file[t][1] \in 1..Len(synths) /\ t = Child(QuadOf(t), file[t][2]) /\ s.quad = QuadOf(t)
    BY DEF OneInv, Sourced, On
  <2>2. \A i \in Places : s.of[i] = file[Parent(s.quad, i)]
    BY <2>1 DEF OneInv, Grounded
  <2>3. MadeFromAbove(t)
    BY Leveled, QuadsAlwaysFit DEF QuadsFit
  <2>. QED
    BY <2>1, <2>2, <2>3 DEF MadeFromAbove
<1>. QED
  BY <1>1, OneInvAlways, PTL

-----------------------------------------------------------------------------
(* ServerProcs. *)

(***************************************************************************)
(* The processes do in the tile directory what TilePyramid's kids do: a    *)
(* kid that dies is one that is killed, or that was idle, and what main    *)
(* does is not seen there.                                                 *)
(***************************************************************************)
THEOREM ProcsImplementPyramid == ProcsSpec => Spec
<1>1. ProcsInit => Init
  BY DEF ProcsInit
<1>2. [ProcsNext]_allVars => [Next]_vars
  <2>. SUFFICES ASSUME [ProcsNext]_allVars PROVE [Next]_vars
    OBVIOUS
  <2>1. CASE UNCHANGED allVars
    BY <2>1 DEF allVars
  <2>2. CASE Command
    BY <2>2 DEF Command, ForkFails, Wait, WaitForAny, Delete, Fork
  <2>3. ASSUME NEW k \in Kids, Dies(k) PROVE [Next]_vars
    BY <2>3 DEF Dies, Next
  <2>4. ASSUME NEW k \in Kids, Works(k) PROVE [Next]_vars
    BY <2>4 DEF Works, Next
  <2>. QED
    BY <2>1, <2>2, <2>3, <2>4 DEF ProcsNext
<1>. QED
  BY <1>1, <1>2, PTL DEF ProcsSpec, Spec

(***************************************************************************)
(* A kid that dies amid a tile, and the others that go on with the tiles   *)
(* it left, make no kid that lives on do a quad again.                     *)
(***************************************************************************)
THEOREM ProcsSynthesiseOnce == ProcsSpec => []OncePerKid
BY ProcsImplementPyramid, EachQuadOncePerKid, PTL

-----------------------------------------------------------------------------
(* main ends last. *)

States == {"unborn", "runs", "zombie", "gone"}

ProcsTyped ==
    /\ main \in {"serves", "ended", "aborted"}
    /\ pids \in Seq(SUBSET Kids)
    /\ Len(pids) <= Count
    /\ waited \in Nat /\ waited <= Len(pids)
    /\ proc \in [Kids -> States]
    /\ fails \in Nat

(***************************************************************************)
(* While main serves, the pid of a kid that was not waited for is left in  *)
(* the list.                                                               *)
(***************************************************************************)
Listed(k) == \E n \in 1..Len(pids) : n > waited /\ pids[n] = {k}
KidsListed == main = "serves" => \A k \in Alive \cup Dead : Listed(k)
FailsCounted == \A n \in 1..Len(pids) : pids[n] = {} => fails > 0
ProcsInv == ProcsTyped /\ KidsListed /\ FailsCounted /\ EndsLast

LEMMA ProcsInitInv == ProcsInit => ProcsInv
<1>. SUFFICES ASSUME ProcsInit PROVE ProcsInv
  OBVIOUS
<1>1. /\ main = "serves" /\ pids = <<>> /\ Len(pids) = 0 /\ waited = 0 /\ fails = 0
      /\ proc = [k \in Kids |-> "unborn"]
  BY DEF ProcsInit
<1>2. ProcsTyped
  BY <1>1, ProcsAssumption DEF ProcsTyped, States
<1>3. Alive \cup Dead = {}
  BY <1>1 DEF Alive, Dead
<1>. QED
  BY <1>1, <1>2, <1>3 DEF ProcsInv, KidsListed, FailsCounted, EndsLast

(***************************************************************************)
(* start pushes a pid.                                                     *)
(***************************************************************************)
LEMMA Pushes ==
    ASSUME ProcsTyped, NEW p \in SUBSET Kids, pids' = Append(pids, p), Len(pids) < Count
    PROVE  /\ pids' \in Seq(SUBSET Kids) /\ Len(pids') = Len(pids) + 1 /\ Len(pids') <= Count
           /\ pids'[Len(pids) + 1] = p /\ Len(pids) \in Nat
           /\ \A n \in 1..Len(pids) : pids'[n] = pids[n]
<1>1. pids \in Seq(SUBSET Kids) /\ Len(pids) \in Nat
  BY LenProperties DEF ProcsTyped
<1>. QED
  BY <1>1, ProcsAssumption

LEMMA ForkKeeps ==
    ASSUME ProcsInv, NEW k \in Kids, Fork(k)
    PROVE  ProcsInv'
<1>1. /\ main = "serves" /\ Len(pids) < Count /\ proc' = [proc EXCEPT ![k] = "runs"]
      /\ pids' = Append(pids, {k}) /\ UNCHANGED <<main, waited, fails>>
  BY DEF Fork
<1>2. /\ pids' \in Seq(SUBSET Kids) /\ Len(pids') = Len(pids) + 1 /\ Len(pids') <= Count
      /\ pids'[Len(pids) + 1] = {k} /\ Len(pids) \in Nat
      /\ \A n \in 1..Len(pids) : pids'[n] = pids[n]
  BY <1>1, Pushes DEF ProcsInv
<1>3. ProcsTyped'
  BY <1>1, <1>2 DEF ProcsInv, ProcsTyped, States
<1>4. ASSUME NEW l \in Alive' \cup Dead' PROVE Listed(l)'
  <2>1. CASE l = k
    BY <1>1, <1>2, <2>1 DEF Listed, ProcsInv, ProcsTyped
  <2>2. CASE l # k
    <3>1. l \in Alive \cup Dead
      BY <1>1, <1>4, <2>2 DEF Alive, Dead, ProcsInv, ProcsTyped
    <3>2. PICK n \in 1..Len(pids) : n > waited /\ pids[n] = {l}
      BY <1>1, <3>1 DEF ProcsInv, KidsListed, Listed
    <3>. QED
      BY <1>1, <1>2, <3>2 DEF Listed
  <2>. QED
    BY <2>1, <2>2
<1>5. FailsCounted'
  BY <1>1, <1>2 DEF ProcsInv, FailsCounted
<1>6. EndsLast'
  BY <1>1 DEF EndsLast
<1>. QED
  BY <1>1, <1>2, <1>3, <1>4, <1>5, <1>6 DEF ProcsInv, KidsListed, ProcsTyped

LEMMA ForkFailsKeeps ==
    ASSUME ProcsInv, ForkFails
    PROVE  ProcsInv'
<1>1. /\ main = "serves" /\ Len(pids) < Count /\ fails' = fails + 1
      /\ pids' = Append(pids, {}) /\ UNCHANGED <<main, waited, proc>>
  BY DEF ForkFails
<1>2. /\ pids' \in Seq(SUBSET Kids) /\ Len(pids') = Len(pids) + 1 /\ Len(pids') <= Count
      /\ Len(pids) \in Nat /\ \A n \in 1..Len(pids) : pids'[n] = pids[n]
  BY <1>1, Pushes DEF ProcsInv
<1>3. ProcsTyped' /\ fails' > 0
  BY <1>1, <1>2 DEF ProcsInv, ProcsTyped
<1>4. ASSUME NEW l \in Alive' \cup Dead' PROVE Listed(l)'
  <2>1. l \in Alive \cup Dead
    BY <1>1, <1>4 DEF Alive, Dead
  <2>2. PICK n \in 1..Len(pids) : n > waited /\ pids[n] = {l}
    BY <1>1, <2>1 DEF ProcsInv, KidsListed, Listed
  <2>. QED
    BY <1>1, <1>2, <2>2 DEF Listed
<1>. QED
  BY <1>1, <1>3, <1>4 DEF ProcsInv, KidsListed, FailsCounted, EndsLast

(***************************************************************************)
(* A kid that was waited for is gone, and its pid no longer left.          *)
(***************************************************************************)
LEMMA WaitKeeps ==
    ASSUME ProcsInv, Wait
    PROVE  ProcsInv'
<1>1. /\ main = "serves" /\ Len(pids) = Count /\ waited < Count /\ waited' = waited + 1
      /\ UNCHANGED <<main, pids, fails>>
  BY DEF Wait, Waiting
<1>2. PICK k \in pids[waited + 1] \cap Dead : proc' = [proc EXCEPT ![k] = "gone"]
  BY DEF Wait
<1>3. k \in Kids
  BY <1>2 DEF Dead
<1>4. ProcsTyped'
  BY <1>1, <1>2, <1>3 DEF ProcsInv, ProcsTyped, States
<1>5. ASSUME NEW l \in Alive' \cup Dead' PROVE Listed(l)'
  <2>1. l \in Alive \cup Dead /\ l # k
    BY <1>2, <1>3, <1>5 DEF Alive, Dead, ProcsInv, ProcsTyped
  <2>2. PICK n \in 1..Len(pids) : n > waited /\ pids[n] = {l}
    BY <1>1, <2>1 DEF ProcsInv, KidsListed, Listed
  <2>3. n # waited + 1
    BY <1>2, <2>1, <2>2
  <2>4. n > waited'
    BY <1>1, <2>2, <2>3 DEF ProcsInv, ProcsTyped
  <2>. QED
    BY <1>1, <2>2, <2>4 DEF Listed
<1>. QED
  BY <1>1, <1>4, <1>5 DEF ProcsInv, KidsListed, FailsCounted, EndsLast

LEMMA WaitForAnyKeeps ==
    ASSUME ProcsInv, WaitForAny
    PROVE  ProcsInv'
<1>1. /\ main = "serves" /\ Len(pids) = Count /\ waited < Count /\ pids[waited + 1] = {}
      /\ UNCHANGED <<pids, fails>>
  BY DEF WaitForAny, Waiting
<1>2. fails > 0
  <2>1. waited + 1 \in 1..Len(pids)
    BY <1>1, ProcsAssumption DEF ProcsInv, ProcsTyped
  <2>. QED
    BY <1>1, <2>1 DEF ProcsInv, FailsCounted
<1>3. CASE main' = "aborted" /\ waited' = waited
           /\ proc' = [k \in Kids |-> IF k \in Dead THEN "gone" ELSE proc[k]]
  <2>1. ProcsTyped'
    BY <1>1, <1>3 DEF ProcsInv, ProcsTyped, States
  <2>. QED
    BY <1>1, <1>2, <1>3, <2>1 DEF ProcsInv, KidsListed, FailsCounted, EndsLast
<1>4. CASE Dead \cup Alive = {} /\ waited' = waited + 1 /\ UNCHANGED <<main, proc>>
  <2>1. ProcsTyped'
    BY <1>1, <1>4, ProcsAssumption DEF ProcsInv, ProcsTyped
  <2>2. Dead' \cup Alive' = {}
    BY <1>4 DEF Dead, Alive
  <2>. QED
    BY <1>1, <1>4, <2>1, <2>2 DEF ProcsInv, KidsListed, FailsCounted, EndsLast
<1>. QED
  BY <1>3, <1>4 DEF WaitForAny

(***************************************************************************)
(* wait has waited for the whole list: no kid's pid is left in it.         *)
(***************************************************************************)
LEMMA DeleteKeeps ==
    ASSUME ProcsInv, Delete
    PROVE  ProcsInv'
<1>1. /\ main = "serves" /\ waited = Count /\ main' = "ended"
      /\ UNCHANGED <<pids, waited, proc, fails>>
  BY DEF Delete
<1>2. \A k \in Kids : ~Listed(k)
  BY <1>1, ProcsAssumption DEF ProcsInv, ProcsTyped, Listed
<1>3. Alive \cup Dead = {}
  BY <1>1, <1>2 DEF ProcsInv, KidsListed, Alive, Dead
<1>4. Alive' \cup Dead' = {}
  BY <1>1, <1>3 DEF Alive, Dead
<1>. QED
  BY <1>1, <1>4 DEF ProcsInv, ProcsTyped, KidsListed, FailsCounted, EndsLast

LEMMA DiesKeeps ==
    ASSUME ProcsInv, NEW k \in Kids, Dies(k)
    PROVE  ProcsInv'
<1>1. /\ k \in Alive /\ proc' = [proc EXCEPT ![k] = IF main = "serves" THEN "zombie" ELSE "gone"]
      /\ UNCHANGED <<main, pids, waited, fails>>
  BY DEF Dies
<1>2. ProcsTyped'
  BY <1>1 DEF ProcsInv, ProcsTyped, States
<1>3. \A l \in Alive' \cup Dead' : l \in Alive \cup Dead
  BY <1>1 DEF Alive, Dead, ProcsInv, ProcsTyped
<1>4. KidsListed'
  BY <1>1, <1>3 DEF ProcsInv, KidsListed, Listed
<1>. QED
  BY <1>1, <1>2, <1>3, <1>4 DEF ProcsInv, FailsCounted, EndsLast

(***************************************************************************)
(* The command ends normally only when every kid it forked is gone, in     *)
(* whatever order they died; it aborts only after a fork that failed.      *)
(***************************************************************************)
THEOREM MainEndsLast == ProcsSpec => []EndsLast
<1>1. ProcsInv /\ [ProcsNext]_allVars => ProcsInv'
  <2>. SUFFICES ASSUME ProcsInv, [ProcsNext]_allVars PROVE ProcsInv'
    OBVIOUS
  <2>1. CASE UNCHANGED procVars
    BY <2>1 DEF procVars, ProcsInv, ProcsTyped, KidsListed, Listed, FailsCounted, EndsLast, Alive, Dead
  <2>2. CASE UNCHANGED allVars
    BY <2>1, <2>2 DEF allVars
  <2>3. CASE Command
    BY <2>3, ForkKeeps, ForkFailsKeeps, WaitKeeps, WaitForAnyKeeps, DeleteKeeps DEF Command
  <2>4. ASSUME NEW k \in Kids, Dies(k) PROVE ProcsInv'
    BY <2>4, DiesKeeps
  <2>5. ASSUME NEW k \in Kids, Works(k) PROVE ProcsInv'
    BY <2>1, <2>5 DEF Works
  <2>. QED
    BY <2>2, <2>3, <2>4, <2>5 DEF ProcsNext
<1>2. ProcsInv => EndsLast
  BY DEF ProcsInv
<1>. QED
  BY <1>1, <1>2, ProcsInitInv, PTL DEF ProcsSpec
=============================================================================
