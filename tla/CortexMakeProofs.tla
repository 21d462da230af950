-------------------------- MODULE CortexMakeProofs --------------------------
(***************************************************************************)
(* Proofs about CortexMake: for any number of makes and users, specs of    *)
(* any length, and any kills.                                              *)
(***************************************************************************)
EXTENDS CortexMake, SequenceTheorems, TLAPS

Weights == {"zero", "scrammed", "learned from zero"}
LayerRecord == [of : Makers \cup {NoMaker}, weights : Weights]
File == [there : BOOLEAN, head : {"short", "zero", "good"}, layers : Seq(LayerRecord)]
MakerPlaces ==
    {"off", "head", "fstat", "open", "push", "header", "scram", "made", "refused", "dead"}
UserPlaces == {"off", "fstat", "open", "prepare", "learn", "save", "dead"}
Places == MakerPlaces \cup UserPlaces

Typed ==
    /\ file \in File
    /\ at \in [Procs -> Places]
    /\ \A m \in Makers : at[m] \in MakerPlaces
    /\ \A u \in Users : at[u] \in UserPlaces
    /\ basen \in [Procs -> Nat] /\ pos \in [Procs -> Nat \ {0}] /\ line \in [Makers -> Nat]
    /\ kbase \in [Users -> Seq(LayerRecord)]
    /\ killed \in Seq(Places)

OfMaker(s, n, m) == n <= Len(s) /\ \A y \in 1..n : s[y].of = m
Scrammed(s, n) == n <= Len(s) /\ \A y \in 1..n : s[y].weights = "scrammed"
KilledAmid == \E y \in 1..Len(killed) : killed[y] \in Windows

(***************************************************************************)
(* Before the first make.                                                  *)
(***************************************************************************)
Untouched ==
    /\ file.head = "short" /\ file.layers = <<>> /\ killed = <<>>
    /\ \A p \in Procs : at[p] = "off"

(***************************************************************************)
(* The place of the make that the file is of, and what the file has then.  *)
(***************************************************************************)
Making(m) ==
    /\ at[m] \in {"fstat", "open", "push", "header", "scram", "made"} => file.head = "good"
    /\ at[m] \in {"head", "fstat", "open"} => Len(Layers) = 0 /\ line[m] = 0
    /\ at[m] \in {"push", "header"} => line[m] = basen[m] /\ line[m] < Lines
    /\ at[m] \in {"open", "push"} => Len(Layers) = basen[m]
    /\ at[m] = "header" => Len(Layers) = basen[m] + 1
    /\ at[m] = "scram" => basen[m] = Lines /\ pos[m] <= Lines
    /\ at[m] \in {"scram", "made"} => Len(Layers) = Lines
    /\ at[m] \in {"open", "push", "header", "scram"} => OfMaker(Layers, basen[m], m)
    /\ at[m] = "made" => OfMaker(Layers, Lines, m)
    /\ at[m] = "scram" /\ ~early => Scrammed(Layers, pos[m] - 1)
    /\ at[m] = "made" /\ ~early => Scrammed(Layers, Lines)

(***************************************************************************)
(* A user of the file that m makes has layers of m; without an early user, *)
(* it has opened the file when m was done, and has its scrammed layers.    *)
(***************************************************************************)
Using(u, m) ==
    /\ at[u] \in {"open", "prepare", "learn", "save"} => basen[u] <= Len(Layers)
    /\ at[u] \in {"prepare", "learn", "save"} =>
          /\ OfMaker(Layers, basen[u], m)
          /\ OfMaker(kbase[u], Len(kbase[u]), m)
          /\ ~early => at[m] \in Idle
          /\ ~early /\ at[m] = "made" => Scrammed(kbase[u], Len(kbase[u]))
    /\ at[u] = "prepare" => Len(kbase[u]) = pos[u] - 1
    /\ at[u] \in {"learn", "save"} => Len(kbase[u]) = basen[u] /\ basen[u] > 0
    /\ at[u] = "save" => pos[u] <= basen[u]

(***************************************************************************)
(* The file is of one make, m, and no other is under way.                  *)
(***************************************************************************)
OneMakes(m) ==
    /\ at[m] \notin {"off", "refused"}
    /\ \A n \in Makers : n # m => at[n] \in Idle
    /\ \A y \in 1..Len(Layers) : Layers[y].of \in {m, NoMaker}
    /\ Opens \/ at[m] \in Windows \/ KilledAmid
    /\ Making(m)
    /\ \A u \in Users : Using(u, m)

Beginnings ==
    /\ \A p \in Procs :
          at[p] \in {"off", "head", "fstat", "open", "push", "header", "learn"} => pos[p] = 1
    /\ \A m \in Makers : at[m] = "off" => line[m] = 0

Made(m) == Typed /\ Beginnings /\ file.there /\ OneMakes(m)
Inv == raced \/ (Typed /\ Beginnings /\ ~file.there /\ Untouched) \/ \E m \in Makers : Made(m)

-----------------------------------------------------------------------------
LEMMA Means == Inv => WholeChains
<1>. SUFFICES ASSUME Inv, ~raced PROVE CopiesAreOneMakes /\ BadOnlyAmid /\ MadeWhole
  BY DEF WholeChains
<1>1. CASE Typed /\ Beginnings /\ ~file.there /\ Untouched
  BY <1>1 DEF CopiesAreOneMakes, BadOnlyAmid, MadeWhole, Untouched, Procs
<1>2. ASSUME NEW m \in Makers, Made(m) PROVE CopiesAreOneMakes /\ BadOnlyAmid /\ MadeWhole
  <2>1. CopiesAreOneMakes
    <3>. SUFFICES ASSUME NEW u \in Users, at[u] \in {"learn", "save"}
                  PROVE  \A y \in 1..basen[u] : kbase[u][y].of = m
      BY DEF CopiesAreOneMakes
    <3>. QED
      BY <1>2 DEF Made, OneMakes, Using, OfMaker
  <2>2. BadOnlyAmid
    BY <1>2 DEF BadOnlyAmid, Made, OneMakes, KilledAmid
  <2>3. MadeWhole
    <3>. SUFFICES ASSUME \A n \in Makers : at[n] \in {"off", "made", "refused"}
                  PROVE  /\ Len(Layers) = Lines
                         /\ at[m] = "made" /\ \A y \in 1..Lines : Layers[y].of = m
                         /\ ~early => \A y \in 1..Lines : Layers[y].weights = "scrammed"
      BY DEF MadeWhole
    <3>1. at[m] = "made"
      BY <1>2 DEF Made, OneMakes
    <3>. QED
      BY <1>2, <3>1 DEF Made, OneMakes, Making, OfMaker, Scrammed
  <2>. QED
    BY <2>1, <2>2, <2>3
<1>. QED
  BY <1>1, <1>2 DEF Inv

LEMMA InitInv == Init => Inv
<1>. SUFFICES ASSUME Init PROVE Typed /\ Beginnings /\ ~file.there /\ Untouched
  BY DEF Inv
<1>1. <<>> \in Seq(LayerRecord) /\ <<>> \in Seq(Places)
  BY EmptySeq
<1>2. file \in File
  BY <1>1 DEF Init, File
<1>3. Typed
  BY <1>1, <1>2 DEF Init, Typed, Places, MakerPlaces, UserPlaces, Procs
<1>. QED
  BY <1>3 DEF Init, Beginnings, Untouched, Procs

-----------------------------------------------------------------------------
LEMMA Facts ==
    ASSUME Typed
    PROVE  /\ file.there \in BOOLEAN /\ file.head \in {"short", "zero", "good"}
           /\ Layers \in Seq(LayerRecord) /\ Len(Layers) \in Nat
           /\ \A y \in 1..Len(Layers) : Layers[y] \in LayerRecord
           /\ \A u \in Users : kbase[u] \in Seq(LayerRecord) /\ Len(kbase[u]) \in Nat
           /\ \A p \in Procs : basen[p] \in Nat /\ pos[p] \in Nat \ {0} /\ at[p] \in Places
           /\ \A m \in Makers : line[m] \in Nat
           /\ Lines \in Nat \ {0} /\ NoMaker \notin Makers
           /\ Makers \subseteq Procs /\ Users \subseteq Procs
           /\ \A m \in Makers, u \in Users : m # u
<1>1. Layers \in Seq(LayerRecord) /\ \A u \in Users : kbase[u] \in Seq(LayerRecord)
  BY DEF Typed, File, Layers
<1>2. Len(Layers) \in Nat /\ \A y \in 1..Len(Layers) : Layers[y] \in LayerRecord
  BY <1>1, LenProperties, ElementOfSeq
<1>3. \A u \in Users : Len(kbase[u]) \in Nat
  BY <1>1, LenProperties
<1>. QED
  BY <1>1, <1>2, <1>3, CortexMakeAssumption DEF Typed, File, Procs

(***************************************************************************)
(* The layers of m stay where they are.                                    *)
(***************************************************************************)
Keeps(s, t, m) == Len(s) <= Len(t) /\ \A y \in 1..Len(s) : s[y].of = m => t[y].of = m

(***************************************************************************)
(* A step of the make the file is of, seen from the users and the others.  *)
(***************************************************************************)
LEMMA MakerMoves ==
    ASSUME Typed, NEW m \in Makers, OneMakes(m), at[m] \notin Idle,
           \A u \in Users : at'[u] = at[u] /\ basen'[u] = basen[u] /\ pos'[u] = pos[u],
           \A n \in Makers : n # m => at'[n] = at[n],
           UNCHANGED <<kbase, early>>, Keeps(Layers, Layers', m), Len(Layers') \in Nat
    PROVE  /\ \A n \in Makers : n # m => at'[n] \in Idle
           /\ \A u \in Users : Using(u, m)'
<1>1. \A n \in Makers : n # m => at'[n] \in Idle
  BY DEF OneMakes
<1>2. ASSUME NEW u \in Users PROVE Using(u, m)'
  <2>1. Using(u, m)
    BY DEF OneMakes
  <2>2. /\ Len(Layers) \in Nat /\ basen[u] \in Nat
        /\ \A y \in 1..basen[u] : basen[u] <= Len(Layers) => y \in 1..Len(Layers)
    BY Facts
  <2>3. OfMaker(Layers, basen[u], m) => OfMaker(Layers', basen[u], m)
    BY <2>2 DEF OfMaker, Keeps
  <2>4. basen[u] <= Len(Layers) => basen[u] <= Len(Layers')
    BY <2>2 DEF Keeps
  <2>5. at[u] \in {"prepare", "learn", "save"} => early
    BY <2>1 DEF Using
  <2>6. /\ at'[u] = at[u] /\ basen'[u] = basen[u] /\ pos'[u] = pos[u] /\ kbase'[u] = kbase[u]
        /\ early' = early
    OBVIOUS
  <2>7. /\ at'[u] \in {"open", "prepare", "learn", "save"} => basen'[u] <= Len(Layers')
        /\ at'[u] \in {"prepare", "learn", "save"} =>
              /\ OfMaker(Layers', basen'[u], m)
              /\ OfMaker(kbase'[u], Len(kbase'[u]), m)
              /\ early'
        /\ at'[u] = "prepare" => Len(kbase'[u]) = pos'[u] - 1
        /\ at'[u] \in {"learn", "save"} => Len(kbase'[u]) = basen'[u] /\ basen'[u] > 0
        /\ at'[u] = "save" => pos'[u] <= basen'[u]
    BY <2>1, <2>3, <2>4, <2>5, <2>6 DEF Using
  <2>8. (at[u] \in {"prepare", "learn", "save"})' => early'
    BY <2>7
  <2>. QED
    BY <2>7, Zenon DEF Using, OfMaker, Layers
<1>. QED
  BY <1>1, <1>2

(***************************************************************************)
(* A step of a user, seen from the make and the other users.               *)
(***************************************************************************)
LEMMA UserMoves ==
    ASSUME Typed, NEW m \in Makers, OneMakes(m), NEW u \in Users,
           \A n \in Makers : at'[n] = at[n] /\ basen'[n] = basen[n] /\ pos'[n] = pos[n],
           \A w \in Users : w # u => /\ at'[w] = at[w] /\ basen'[w] = basen[w]
                                     /\ pos'[w] = pos[w] /\ kbase'[w] = kbase[w],
           UNCHANGED line, early => early', file'.head = file.head,
           Len(Layers') = Len(Layers),
           \A y \in 1..Len(Layers) : Layers'[y].of = Layers[y].of,
           ~early' /\ at[m] # "dead" =>
               \A y \in 1..Len(Layers) : Layers[y].weights = "scrammed" => Layers'[y].weights = "scrammed",
           KilledAmid => KilledAmid',
           Using(u, m)'
    PROVE  OneMakes(m)'
<1>0. /\ Len(Layers) \in Nat /\ pos[m] \in Nat /\ Lines \in Nat /\ pos[m] - 1 \in Int
      /\ \A p \in Procs : basen[p] \in Nat
      /\ Makers \subseteq Procs /\ Users \subseteq Procs
  BY Facts
<1>1. /\ at'[m] \notin {"off", "refused"} /\ \A n \in Makers : n # m => at'[n] \in Idle
  BY DEF OneMakes
<1>2. \A y \in 1..Len(Layers') : Layers'[y].of \in {m, NoMaker}
  BY DEF OneMakes
<1>3. Opens' \/ at'[m] \in Windows \/ KilledAmid'
  BY DEF OneMakes, Opens
<1>4. \A n \in Nat : OfMaker(Layers, n, m) => OfMaker(Layers', n, m)
  BY <1>0 DEF OfMaker
<1>5. \A n \in Int : ~early' /\ at[m] # "dead" /\ Scrammed(Layers, n) => Scrammed(Layers', n)
  BY <1>0 DEF Scrammed
<1>6. Making(m)'
  <2>1. Making(m) /\ at'[m] = at[m] /\ basen'[m] = basen[m] /\ pos'[m] = pos[m] /\ line'[m] = line[m]
    BY DEF OneMakes
  <2>2. /\ at[m] \in {"open", "push", "header", "scram"} => OfMaker(Layers', basen[m], m)
        /\ at[m] = "made" => OfMaker(Layers', Lines, m)
    BY <1>0, <1>4, <2>1 DEF Making
  <2>3. /\ at[m] = "scram" /\ ~early' => Scrammed(Layers', pos[m] - 1)
        /\ at[m] = "made" /\ ~early' => Scrammed(Layers', Lines)
    BY <1>0, <1>5, <2>1 DEF Making
  <2>4. /\ at[m] \in {"fstat", "open", "push", "header", "scram", "made"} => file'.head = "good"
        /\ at[m] \in {"head", "fstat", "open"} => Len(Layers') = 0 /\ line[m] = 0
        /\ at[m] \in {"push", "header"} => line[m] = basen[m] /\ line[m] < Lines
        /\ at[m] \in {"open", "push"} => Len(Layers') = basen[m]
        /\ at[m] = "header" => Len(Layers') = basen[m] + 1
        /\ at[m] = "scram" => basen[m] = Lines /\ pos[m] <= Lines
        /\ at[m] \in {"scram", "made"} => Len(Layers') = Lines
    BY <2>1 DEF Making
  <2>. QED
    BY <2>1, <2>2, <2>3, <2>4, Zenon DEF Making, OfMaker, Scrammed, Layers
<1>7. ASSUME NEW w \in Users, w # u PROVE Using(w, m)'
  <2>1. Using(w, m)
    BY DEF OneMakes
  <2>2. /\ at'[w] = at[w] /\ basen'[w] = basen[w] /\ pos'[w] = pos[w] /\ kbase'[w] = kbase[w]
        /\ at'[m] = at[m]
    BY <1>7
  <2>3. basen[w] \in Nat
    BY <1>0
  <2>4. OfMaker(Layers, basen[w], m) => OfMaker(Layers', basen[w], m)
    BY <1>4, <2>3
  <2>5. /\ at'[w] \in {"open", "prepare", "learn", "save"} => basen'[w] <= Len(Layers')
        /\ at'[w] \in {"prepare", "learn", "save"} =>
              /\ OfMaker(Layers', basen'[w], m)
              /\ OfMaker(kbase'[w], Len(kbase'[w]), m)
              /\ ~early' => at'[m] \in Idle
              /\ ~early' /\ at'[m] = "made" => Scrammed(kbase'[w], Len(kbase'[w]))
        /\ at'[w] = "prepare" => Len(kbase'[w]) = pos'[w] - 1
        /\ at'[w] \in {"learn", "save"} => Len(kbase'[w]) = basen'[w] /\ basen'[w] > 0
        /\ at'[w] = "save" => pos'[w] <= basen'[w]
    BY <2>1, <2>2, <2>4 DEF Using
  <2>. QED
    BY <2>5, Zenon DEF Using, OfMaker, Scrammed, Layers
<1>. QED
  BY <1>1, <1>2, <1>3, <1>6, <1>7 DEF OneMakes

-----------------------------------------------------------------------------
LEMMA Went ==
    ASSUME Typed, NEW p \in Procs, NEW place, Goes(p, place),
           p \in Makers => place \in MakerPlaces, p \in Users => place \in UserPlaces
    PROVE  /\ at' \in [Procs -> Places] /\ at'[p] = place
           /\ \A m \in Makers : at'[m] \in MakerPlaces
           /\ \A u \in Users : at'[u] \in UserPlaces
           /\ \A q \in Procs : q # p => at'[q] = at[q]
<1>1. place \in Places
  BY DEF Places, Procs
<1>2. at \in [Procs -> Places] /\ at' = [at EXCEPT ![p] = place]
  BY DEF Typed, Goes
<1>3. at' \in [Procs -> Places] /\ at'[p] = place /\ \A q \in Procs : q # p => at'[q] = at[q]
  BY <1>1, <1>2
<1>. QED
  BY <1>3 DEF Typed, Procs

LEMMA KeepsItself == ASSUME NEW s, NEW m, Len(s) \in Nat PROVE Keeps(s, s, m)
BY DEF Keeps

-----------------------------------------------------------------------------
(***************************************************************************)
(* A step of the make the file is of: what is left to show of each.        *)
(***************************************************************************)
LEMMA MakerStep ==
    ASSUME NEW m \in Makers, Made(m), at[m] \notin Idle,
           NEW place \in MakerPlaces, place \notin {"off", "refused"}, Goes(m, place),
           file' \in File, file'.there, Keeps(Layers, Layers', m),
           \A y \in 1..Len(Layers') : Layers'[y].of \in {m, NoMaker},
           basen' \in [Procs -> Nat], pos' \in [Procs -> Nat \ {0}], line' \in [Makers -> Nat],
           \A q \in Procs : q # m => basen'[q] = basen[q] /\ pos'[q] = pos[q],
           \A n \in Makers : n # m => line'[n] = line[n],
           place \in {"head", "fstat", "open", "push", "header"} => pos'[m] = 1,
           UNCHANGED <<kbase, early>>, killed' \in Seq(Places),
           Making(m)', Opens' \/ place \in Windows \/ KilledAmid'
    PROVE  Made(m)'
<1>. USE DEF Made
<1>1. m \in Procs /\ Users \subseteq Procs /\ Makers \subseteq Procs /\ \A u \in Users : u # m
  BY Facts
<1>2. /\ at' \in [Procs -> Places] /\ at'[m] = place
      /\ \A n \in Makers : at'[n] \in MakerPlaces
      /\ \A u \in Users : at'[u] \in UserPlaces
      /\ \A q \in Procs : q # m => at'[q] = at[q]
  BY <1>1, Went
<1>3. Typed'
  BY <1>2 DEF Typed
<1>4. Beginnings'
  <2>1. \A q \in Procs : q # m => at'[q] = at[q] /\ pos'[q] = pos[q]
    BY <1>2
  <2>2. \A n \in Makers : n # m => at'[n] = at[n] /\ line'[n] = line[n]
    BY <1>1, <1>2
  <2>3. /\ at'[m] # "learn" /\ at'[m] # "off"
        /\ at'[m] \in {"head", "fstat", "open", "push", "header"} => pos'[m] = 1
    BY <1>2 DEF MakerPlaces
  <2>. QED
    BY <2>1, <2>2, <2>3 DEF Beginnings
<1>5. (\A n \in Makers : n # m => at'[n] \in Idle) /\ \A u \in Users : Using(u, m)'
  <2>1. \A n \in Makers : n # m => at'[n] = at[n]
    BY <1>1, <1>2
  <2>2. \A u \in Users : at'[u] = at[u] /\ basen'[u] = basen[u] /\ pos'[u] = pos[u]
    BY <1>1, <1>2
  <2>3. Len(Layers') \in Nat
    <3>1. Layers' \in Seq(LayerRecord)
      BY DEF File, Layers
    <3>. QED
      BY <3>1, LenProperties
  <2>. QED
    BY <2>1, <2>2, <2>3, MakerMoves
<1>. QED
  BY <1>2, <1>3, <1>4, <1>5 DEF OneMakes

LEMMA WriteHeadMade ==
    ASSUME NEW m \in Makers, Made(m), WriteHead(m)
    PROVE  Made(m)'
<1>1. Typed /\ file.there /\ OneMakes(m) /\ Making(m) /\ m \in Procs /\ Len(Layers) \in Nat
  BY Facts DEF Made, OneMakes
<1>2. /\ at[m] = "head" /\ file' = [file EXCEPT !.head = "good"] /\ Goes(m, "fstat")
      /\ UNCHANGED <<basen, pos, line, kbase, early, killed>>
  BY DEF WriteHead
<1>3. at'[m] = "fstat" /\ "fstat" \in MakerPlaces /\ at[m] \notin Idle /\ pos[m] = 1
  BY <1>1, <1>2 DEF Goes, Typed, MakerPlaces, Idle, Made, Beginnings
<1>4. /\ file' \in File /\ file'.there /\ file'.head = "good" /\ Layers' = Layers
  BY <1>1, <1>2 DEF Typed, File, Layers
<1>5. Len(Layers) = 0 /\ line[m] = 0
  BY <1>1, <1>2 DEF Making
<1>6. Making(m)'
  BY <1>2, <1>3, <1>4, <1>5 DEF Making
<1>7. Opens' /\ \A y \in 1..Len(Layers') : Layers'[y].of \in {m, NoMaker}
  BY <1>4, <1>5 DEF Opens
<1>8. Keeps(Layers, Layers', m)
  BY <1>1, <1>4, KeepsItself
<1>9. killed' \in Seq(Places) /\ basen' \in [Procs -> Nat] /\ pos' \in [Procs -> Nat \ {0}]
      /\ line' \in [Makers -> Nat]
  BY <1>1, <1>2 DEF Typed
<1>. QED
  BY <1>2, <1>3, <1>4, <1>6, <1>7, <1>8, <1>9, MakerStep

(***************************************************************************)
(* A step that leaves the file alone.                                      *)
(***************************************************************************)
LEMMA MakerLooks ==
    ASSUME NEW m \in Makers, Made(m), at[m] \notin Idle,
           NEW place \in MakerPlaces, place \notin {"off", "refused"}, Goes(m, place),
           basen' \in [Procs -> Nat], \A q \in Procs : q # m => basen'[q] = basen[q],
           place \in {"head", "fstat", "open", "push", "header"} => pos[m] = 1,
           UNCHANGED <<file, pos, line, kbase, early>>, killed' \in Seq(Places),
           Making(m)', Opens \/ place \in Windows \/ KilledAmid'
    PROVE  Made(m)'
<1>1. /\ file' \in File /\ file'.there /\ Layers' = Layers /\ Keeps(Layers, Layers', m)
      /\ \A y \in 1..Len(Layers') : Layers'[y].of \in {m, NoMaker}
      /\ Opens' <=> Opens
  <2>1. Len(Layers) \in Nat
    BY Facts DEF Made
  <2>2. Layers' = Layers /\ file' = file
    BY DEF Layers
  <2>. QED
    BY <2>1, <2>2, KeepsItself DEF Made, Typed, OneMakes, Opens
<1>2. pos' \in [Procs -> Nat \ {0}] /\ line' \in [Makers -> Nat]
  BY DEF Made, Typed
<1>. QED
  BY <1>1, <1>2, MakerStep

LEMMA FstatMade ==
    ASSUME NEW m \in Makers, Made(m), Fstat(m)
    PROVE  Made(m)'
<1>1. Typed /\ OneMakes(m) /\ Making(m) /\ m \in Procs /\ Len(Layers) \in Nat
  BY Facts DEF Made, OneMakes
<1>2. /\ at[m] = "fstat" /\ basen' = [basen EXCEPT ![m] = Len(Layers)]
      /\ Goes(m, IF file.head = "short" THEN "dead" ELSE "open")
      /\ UNCHANGED <<file, pos, line, kbase, early, killed>>
  BY DEF Fstat
<1>3. file.head = "good" /\ Len(Layers) = 0 /\ line[m] = 0 /\ pos[m] = 1
  BY <1>1, <1>2 DEF Making, Made, Beginnings
<1>4. Goes(m, "open")
  BY <1>2, <1>3
<1>5. at'[m] = "open" /\ "open" \in MakerPlaces /\ at[m] \notin Idle
  BY <1>1, <1>2, <1>4 DEF Goes, Typed, MakerPlaces, Idle
<1>6. /\ basen' \in [Procs -> Nat] /\ \A q \in Procs : q # m => basen'[q] = basen[q]
      /\ basen'[m] = 0
  BY <1>1, <1>2, <1>3 DEF Typed
<1>7. Making(m)'
  BY <1>2, <1>3, <1>5, <1>6 DEF Making, OfMaker, Layers
<1>8. Opens
  BY <1>3 DEF Opens
<1>9. killed' \in Seq(Places)
  BY <1>1, <1>2 DEF Typed
<1>. QED
  BY <1>2, <1>3, <1>4, <1>5, <1>6, <1>7, <1>8, <1>9, MakerLooks

LEMMA OpenMade ==
    ASSUME NEW m \in Makers, Made(m), Open(m) \/ OpenAborts(m)
    PROVE  Made(m)'
<1>1. Typed /\ OneMakes(m) /\ Making(m) /\ m \in Procs /\ Len(Layers) \in Nat
  BY Facts DEF Made, OneMakes
<1>2. at[m] = "open" /\ UNCHANGED <<file, basen, pos, line, killed>>
  BY DEF Open, OpenAborts
<1>3. file.head = "good" /\ Len(Layers) = 0 /\ line[m] = 0 /\ pos[m] = 1 /\ basen[m] = 0
  BY <1>1, <1>2 DEF Making, Made, Beginnings
<1>4. Whole(m)
  BY <1>3 DEF Whole
<1>5. Goes(m, "push") /\ UNCHANGED <<kbase, early>>
  BY <1>4 DEF Open, OpenAborts
<1>6. at'[m] = "push" /\ "push" \in MakerPlaces /\ at[m] \notin Idle
  BY <1>1, <1>2, <1>5 DEF Goes, Typed, MakerPlaces, Idle
<1>7. 0 < Lines
  BY CortexMakeAssumption
<1>8. Making(m)'
  BY <1>2, <1>3, <1>6, <1>7 DEF Making, OfMaker, Layers
<1>9. Opens
  BY <1>3 DEF Opens
<1>10. killed' \in Seq(Places) /\ basen' \in [Procs -> Nat]
  BY <1>1, <1>2 DEF Typed
<1>. QED
  BY <1>2, <1>3, <1>5, <1>6, <1>8, <1>9, <1>10, MakerLooks

LEMMA SpecErrorMade ==
    ASSUME NEW m \in Makers, Made(m), SpecError(m)
    PROVE  Made(m)'
<1>1. Typed /\ OneMakes(m) /\ Making(m) /\ m \in Procs
  BY Facts DEF Made, OneMakes
<1>2. at[m] = "push" /\ Goes(m, "dead") /\ UNCHANGED <<file, basen, pos, line, kbase, early, killed>>
  BY DEF SpecError
<1>3. at'[m] = "dead" /\ "dead" \in MakerPlaces /\ at[m] \notin Idle
  BY <1>1, <1>2 DEF Goes, Typed, MakerPlaces, Idle
<1>4. Making(m)'
  BY <1>3 DEF Making
<1>5. Opens \/ KilledAmid'
  BY <1>1, <1>2 DEF OneMakes, KilledAmid, Windows
<1>6. killed' \in Seq(Places) /\ basen' \in [Procs -> Nat]
  BY <1>1, <1>2 DEF Typed
<1>. QED
  BY <1>2, <1>3, <1>4, <1>5, <1>6, MakerLooks

LEMMA MakeDiesNot ==
    ASSUME NEW m \in Makers, Made(m), MakeDies(m)
    PROVE  FALSE
<1>1. /\ Typed /\ OneMakes(m) /\ Making(m) /\ Len(Layers) \in Nat /\ Lines \in Nat
      /\ basen[m] \in Nat /\ pos[m] \in Nat \ {0} /\ NoMaker \notin Makers
  BY Facts DEF Made, OneMakes
<1>2. CASE at[m] = "header" /\ basen[m] >= Len(Layers)
  BY <1>1, <1>2 DEF Making
<1>3. CASE at[m] = "scram" /\ (Gone(m) \/ Torn(m))
  <2>1. /\ basen[m] = Len(Layers) /\ pos[m] \in 1..basen[m]
        /\ \A y \in 1..basen[m] : Layers[y].of = m
    BY <1>1, <1>3 DEF Making, OfMaker
  <2>. QED
    BY <1>1, <1>3, <2>1 DEF Gone, Torn
<1>. QED
  BY <1>2, <1>3 DEF MakeDies

-----------------------------------------------------------------------------
LEMMA SetLayer ==
    ASSUME NEW R, NEW s \in Seq(R), NEW i \in 1..Len(s), NEW v \in R,
           NEW t, t = [s EXCEPT ![i] = v]
    PROVE  /\ t \in Seq(R) /\ Len(t) = Len(s)
           /\ \A y \in 1..Len(s) : t[y] = IF y = i THEN v ELSE s[y]
OBVIOUS

LEMMA MadeLonger ==
    ASSUME NEW s \in Seq(LayerRecord), NEW t, t = Resized(s, Len(s) + 1)
    PROVE  /\ t \in Seq(LayerRecord) /\ Len(t) = Len(s) + 1
           /\ \A y \in 1..Len(s) : t[y] = s[y]
           /\ t[Len(s) + 1] = Blank
<1>1. PICK n \in Nat : n = Len(s)
  BY LenProperties
<1>2. Blank \in LayerRecord
  BY DEF Blank, LayerRecord, Weights
<1>3. \A y \in 1..n + 1 : (IF y <= n THEN s[y] ELSE Blank) \in LayerRecord
  <2>1. \A y \in 1..n : s[y] \in LayerRecord
    BY <1>1, ElementOfSeq
  <2>. QED
    BY <1>2, <2>1
<1>4. t = [y \in 1..n + 1 |-> IF y <= n THEN s[y] ELSE Blank]
  BY <1>1 DEF Resized
<1>5. t \in Seq(LayerRecord) /\ Len(t) = n + 1
  BY <1>3, <1>4, IsASeq
<1>6. /\ \A y \in 1..n : t[y] = s[y]
      /\ t[n + 1] = Blank
  BY <1>4
<1>. QED
  BY <1>1, <1>5, <1>6

LEMMA GrowMade ==
    ASSUME NEW m \in Makers, Made(m), Grow(m)
    PROVE  Made(m)'
<1>1. /\ Typed /\ file.there /\ OneMakes(m) /\ Making(m) /\ m \in Procs
      /\ Layers \in Seq(LayerRecord)
  BY Facts DEF Made, OneMakes
<1>2. PICK n \in Nat : n = Len(Layers)
  BY Facts DEF Made
<1>3. /\ at[m] = "push" /\ Goes(m, "header") /\ UNCHANGED <<basen, pos, line, kbase, early, killed>>
      /\ file' = [file EXCEPT !.layers = Resized(Layers, basen[m] + 1),
                              !.head = IF file.head = "short" THEN "zero" ELSE file.head]
  BY DEF Grow, Layers
<1>4. /\ file.head = "good" /\ n = basen[m] /\ line[m] = basen[m] /\ line[m] < Lines
      /\ pos[m] = 1 /\ OfMaker(Layers, n, m)
  BY <1>1, <1>2, <1>3 DEF Making, Made, Beginnings
<1>5. at'[m] = "header" /\ "header" \in MakerPlaces /\ at[m] \notin Idle /\ "header" \in Windows
  BY <1>1, <1>3 DEF Goes, Typed, MakerPlaces, Idle, Windows
<1>6. PICK t : t = Resized(Layers, basen[m] + 1)
  OBVIOUS
<1>7. t = Resized(Layers, Len(Layers) + 1)
  BY <1>2, <1>4, <1>6
<1>8. /\ t \in Seq(LayerRecord) /\ Len(t) = n + 1
      /\ \A y \in 1..n : t[y] = Layers[y]
      /\ t[n + 1] = Blank
  <2>1. /\ t \in Seq(LayerRecord) /\ Len(t) = Len(Layers) + 1
        /\ \A y \in 1..Len(Layers) : t[y] = Layers[y]
        /\ t[Len(Layers) + 1] = Blank
    BY <1>1, <1>7, MadeLonger
  <2>. QED
    BY <1>2, <2>1
<1>9. /\ file' \in File /\ file'.there /\ file'.head = "good" /\ Layers' = t
  BY <1>1, <1>3, <1>4, <1>6, <1>8 DEF Typed, File, Layers
<1>10. \A y \in 1..n + 1 : t[y].of \in {m, NoMaker}
  <2>1. \A y \in 1..n + 1 : y \in 1..n \/ y = n + 1
    OBVIOUS
  <2>2. t[n + 1].of = NoMaker
    BY <1>8 DEF Blank
  <2>. QED
    BY <1>1, <1>2, <1>8, <2>1, <2>2 DEF OneMakes
<1>11. Keeps(Layers, Layers', m)
  BY <1>2, <1>8, <1>9 DEF Keeps
<1>12. OfMaker(t, n, m)
  BY <1>4, <1>8 DEF OfMaker
<1>13. Making(m)'
  BY <1>3, <1>4, <1>5, <1>8, <1>9, <1>12 DEF Making, OfMaker
<1>14. killed' \in Seq(Places) /\ basen' \in [Procs -> Nat] /\ pos' \in [Procs -> Nat \ {0}]
       /\ line' \in [Makers -> Nat]
  BY <1>1, <1>3 DEF Typed
<1>15. \A y \in 1..Len(Layers') : Layers'[y].of \in {m, NoMaker}
  BY <1>8, <1>9, <1>10
<1>. QED
  BY <1>3, <1>4, <1>5, <1>9, <1>11, <1>13, <1>14, <1>15, MakerStep

LEMMA PutHeaderMade ==
    ASSUME NEW m \in Makers, Made(m), PutHeader(m)
    PROVE  Made(m)'
<1>1. /\ Typed /\ file.there /\ OneMakes(m) /\ Making(m) /\ m \in Procs
      /\ Layers \in Seq(LayerRecord) /\ Lines \in Nat
  BY Facts DEF Made, OneMakes
<1>2. PICK n \in Nat, b \in Nat : n = Len(Layers) /\ b = basen[m]
  BY Facts DEF Made
<1>3. /\ at[m] = "header" /\ UNCHANGED <<pos, kbase, early, killed>>
      /\ file' = [file EXCEPT !.layers[b + 1].of = m]
      /\ basen' = [basen EXCEPT ![m] = b + 1]
      /\ line' = [line EXCEPT ![m] = line[m] + 1]
      /\ Goes(m, IF line[m] + 1 < Lines THEN "push" ELSE "scram")
  BY <1>2 DEF PutHeader
<1>4. /\ file.head = "good" /\ n = b + 1 /\ line[m] = b /\ b < Lines
      /\ pos[m] = 1 /\ OfMaker(Layers, b, m)
  BY <1>1, <1>2, <1>3 DEF Making, Made, Beginnings
<1>5. n \in 1..Len(Layers) /\ Layers[n] \in LayerRecord
  BY <1>2, <1>4, Facts DEF Made
<1>6. PICK v : v = [Layers[n] EXCEPT !.of = m]
  OBVIOUS
<1>6a. v \in LayerRecord /\ v.of = m
  BY <1>5, <1>6 DEF LayerRecord
<1>7. PICK t : t = [Layers EXCEPT ![n] = v]
  OBVIOUS
<1>8. /\ t \in Seq(LayerRecord) /\ Len(t) = n
      /\ \A y \in 1..n : t[y] = IF y = n THEN v ELSE Layers[y]
  BY <1>1, <1>2, <1>5, <1>6a, <1>7, SetLayer
<1>9. file' \in File /\ file'.there /\ file'.head = "good" /\ Layers' = t
  <2>1. file'.layers = [file.layers EXCEPT ![n] = [file.layers[n] EXCEPT !.of = m]]
    BY <1>1, <1>3, <1>4 DEF Typed, File
  <2>2. /\ file' = [file EXCEPT !.layers = file'.layers]
    BY <1>1, <1>3 DEF Typed, File
  <2>3. Layers' = t
    BY <1>6, <1>7, <2>1 DEF Layers
  <2>. QED
    BY <1>1, <1>4, <1>8, <2>2, <2>3 DEF Typed, File, Layers
<1>10. \A y \in 1..n : t[y].of = m
  <2>1. \A y \in 1..n : y = n \/ y \in 1..b
    BY <1>4
  <2>. QED
    BY <1>4, <1>6a, <1>8, <2>1 DEF OfMaker
<1>11. Keeps(Layers, Layers', m) /\ \A y \in 1..Len(Layers') : Layers'[y].of \in {m, NoMaker}
  BY <1>2, <1>8, <1>9, <1>10 DEF Keeps
<1>12. Opens'
  BY <1>1, <1>8, <1>9, <1>10, Facts DEF Opens, Made
<1>13. /\ basen' \in [Procs -> Nat] /\ basen'[m] = b + 1
       /\ \A q \in Procs : q # m => basen'[q] = basen[q]
       /\ line' \in [Makers -> Nat] /\ line'[m] = b + 1
       /\ \A q \in Makers : q # m => line'[q] = line[q]
       /\ pos' \in [Procs -> Nat \ {0}] /\ killed' \in Seq(Places)
  BY <1>1, <1>3, <1>4 DEF Typed
<1>14. at[m] \notin Idle
  BY <1>3 DEF Idle
<1>15. PICK place : place = IF b + 1 < Lines THEN "push" ELSE "scram"
  OBVIOUS
<1>16. Goes(m, place) /\ place \in MakerPlaces /\ at'[m] = place /\ place \notin {"off", "refused"}
  <2>1. Goes(m, place)
    BY <1>3, <1>4, <1>15
  <2>. QED
    BY <1>1, <1>15, <2>1 DEF Goes, Typed, MakerPlaces
<1>17. OfMaker(t, b + 1, m)
  BY <1>4, <1>8, <1>10 DEF OfMaker
<1>18. Making(m)'
  <2>1. CASE b + 1 < Lines
    BY <1>4, <1>8, <1>9, <1>13, <1>15, <1>16, <1>17, <2>1 DEF Making, OfMaker
  <2>2. CASE ~(b + 1 < Lines)
    <3>1. b + 1 = Lines /\ pos'[m] = 1 /\ 1 <= Lines
      BY <1>1, <1>3, <1>4, <2>2
    <3>2. Scrammed(Layers', pos'[m] - 1)
      BY <1>8, <1>9, <3>1 DEF Scrammed
    <3>. QED
      BY <1>4, <1>8, <1>9, <1>13, <1>15, <1>16, <1>17, <2>2, <3>1, <3>2 DEF Making, OfMaker, Scrammed
  <2>. QED
    BY <2>1, <2>2
<1>. QED
  BY <1>3, <1>4, <1>9, <1>11, <1>12, <1>13, <1>14, <1>16, <1>18, MakerStep

LEMMA ScramMade ==
    ASSUME NEW m \in Makers, Made(m), Scram(m)
    PROVE  Made(m)'
<1>1. /\ Typed /\ file.there /\ OneMakes(m) /\ Making(m) /\ m \in Procs
      /\ Layers \in Seq(LayerRecord) /\ Lines \in Nat \ {0}
  BY Facts DEF Made, OneMakes
<1>2. PICK i \in Nat \ {0} : i = pos[m]
  BY Facts DEF Made
<1>3. /\ at[m] = "scram" /\ UNCHANGED <<basen, line, kbase, early, killed>>
      /\ file' = [file EXCEPT !.layers[i].weights = "scrammed"]
      /\ Walks(m, "made")
  BY <1>2 DEF Scram
<1>4. /\ file.head = "good" /\ basen[m] = Lines /\ Len(Layers) = Lines /\ i \in 1..Lines
      /\ OfMaker(Layers, Lines, m)
      /\ ~early => Scrammed(Layers, i - 1)
  BY <1>1, <1>2, <1>3 DEF Making
<1>5. PICK v : v = [Layers[i] EXCEPT !.weights = "scrammed"]
  OBVIOUS
<1>5a. v \in LayerRecord /\ v.of = m /\ v.weights = "scrammed"
  <2>1. Layers[i] \in LayerRecord /\ Layers[i].of = m
    BY <1>4, Facts DEF Made, OfMaker
  <2>. QED
    BY <1>5, <2>1 DEF LayerRecord, Weights
<1>6. PICK t : t = [Layers EXCEPT ![i] = v]
  OBVIOUS
<1>7. /\ t \in Seq(LayerRecord) /\ Len(t) = Lines
      /\ \A y \in 1..Lines : t[y] = IF y = i THEN v ELSE Layers[y]
  BY <1>1, <1>4, <1>5a, <1>6, SetLayer
<1>8. file' \in File /\ file'.there /\ file'.head = "good" /\ Layers' = t
  <2>1. file'.layers = [file.layers EXCEPT ![i] = [file.layers[i] EXCEPT !.weights = "scrammed"]]
    BY <1>1, <1>3 DEF Typed, File
  <2>2. /\ file' = [file EXCEPT !.layers = file'.layers]
    BY <1>1, <1>3 DEF Typed, File
  <2>3. Layers' = t
    BY <1>5, <1>6, <2>1 DEF Layers
  <2>. QED
    BY <1>1, <1>4, <1>7, <2>2, <2>3 DEF Typed, File, Layers
<1>9. \A y \in 1..Lines : t[y].of = m
  BY <1>4, <1>5a, <1>7 DEF OfMaker
<1>10. Keeps(Layers, Layers', m) /\ \A y \in 1..Len(Layers') : Layers'[y].of \in {m, NoMaker}
  BY <1>1, <1>4, <1>7, <1>8, <1>9 DEF Keeps
<1>11. Opens'
  BY <1>1, <1>7, <1>8, <1>9, Facts DEF Opens, Made
<1>12. ~early => Scrammed(t, i)
  <2>1. \A y \in 1..i : y \in 1..Lines /\ (y = i \/ y \in 1..i - 1)
    BY <1>1, <1>4
  <2>2. i <= Lines
    BY <1>4
  <2>. QED
    BY <1>4, <1>5a, <1>7, <2>1, <2>2 DEF Scrammed
<1>13. PICK place : place = IF i < Lines THEN "scram" ELSE "made"
  OBVIOUS
<1>14. /\ pos' = [pos EXCEPT ![m] = IF i < Lines THEN i + 1 ELSE 1]
       /\ Goes(m, place)
  BY <1>2, <1>3, <1>4, <1>13 DEF Walks
<1>15. /\ pos' \in [Procs -> Nat \ {0}] /\ pos'[m] = IF i < Lines THEN i + 1 ELSE 1
       /\ \A q \in Procs : q # m => pos'[q] = pos[q]
  <2>1. (IF i < Lines THEN i + 1 ELSE 1) \in Nat \ {0}
    BY <1>2
  <2>. QED
    BY <1>1, <1>14, <2>1 DEF Typed
<1>16. place \in {"scram", "made"} /\ place \in MakerPlaces /\ at'[m] = place /\ at[m] \notin Idle
  BY <1>1, <1>3, <1>13, <1>14 DEF Goes, Typed, MakerPlaces, Idle
<1>17. OfMaker(t, Lines, m)
  BY <1>7, <1>9 DEF OfMaker
<1>18. Making(m)'
  <2>1. CASE i < Lines
    <3>1. pos'[m] - 1 = i /\ pos'[m] <= Lines
      BY <1>1, <1>2, <1>15, <2>1
    <3>2. ~early => Scrammed(Layers', pos'[m] - 1)
      BY <1>8, <1>12, <3>1
    <3>. QED
      BY <1>3, <1>4, <1>7, <1>8, <1>13, <1>16, <1>17, <2>1, <3>1, <3>2 DEF Making, OfMaker, Scrammed
  <2>2. CASE ~(i < Lines)
    <3>1. i = Lines
      BY <1>4, <2>2
    <3>2. ~early => Scrammed(Layers', Lines)
      BY <1>8, <1>12, <3>1
    <3>. QED
      BY <1>3, <1>4, <1>7, <1>8, <1>13, <1>16, <1>17, <2>2, <3>2 DEF Making, OfMaker, Scrammed
  <2>. QED
    BY <2>1, <2>2
<1>19. killed' \in Seq(Places) /\ basen' \in [Procs -> Nat] /\ line' \in [Makers -> Nat]
       /\ place \notin {"head", "fstat", "open", "push", "header"} /\ place \notin {"off", "refused"}
  BY <1>1, <1>3, <1>16 DEF Typed
<1>. QED
  BY <1>3, <1>8, <1>10, <1>11, <1>14, <1>15, <1>16, <1>18, <1>19, MakerStep

LEMMA KillMade ==
    ASSUME NEW m \in Makers, Made(m), Kill(m)
    PROVE  Made(m)'
<1>1. Typed /\ OneMakes(m) /\ m \in Procs /\ killed \in Seq(Places) /\ at[m] \in Places
  BY Facts DEF Made, Typed
<1>2. /\ at[m] \notin Idle /\ Goes(m, "dead") /\ killed' = Append(killed, at[m])
      /\ UNCHANGED <<file, basen, pos, line, kbase, early>>
  BY DEF Kill
<1>3. at'[m] = "dead" /\ "dead" \in MakerPlaces
  BY <1>1, <1>2 DEF Goes, Typed, MakerPlaces
<1>4. Making(m)'
  BY <1>3 DEF Making
<1>5. PICK n \in Nat : n = Len(killed)
  BY <1>1, LenProperties
<1>6. /\ killed' \in Seq(Places) /\ Len(killed') = n + 1 /\ killed'[n + 1] = at[m]
      /\ \A y \in 1..n : killed'[y] = killed[y]
  BY <1>1, <1>2, <1>5, AppendProperties
<1>7. \A y \in 1..n + 1 : y \in 1..Len(killed')
  BY <1>6
<1>8. n + 1 \in 1..n + 1 /\ \A y \in 1..n : y \in 1..n + 1
  OBVIOUS
<1>9. Opens \/ KilledAmid'
  BY <1>1, <1>5, <1>6, <1>7, <1>8 DEF OneMakes, KilledAmid
<1>10. basen' \in [Procs -> Nat]
  BY <1>1, <1>2 DEF Typed
<1>. QED
  BY <1>2, <1>3, <1>4, <1>6, <1>9, <1>10, MakerLooks

-----------------------------------------------------------------------------
(***************************************************************************)
(* A step of a user of the file: what is left to show of each.             *)
(***************************************************************************)
LEMMA UserStep ==
    ASSUME NEW m \in Makers, Made(m), NEW u \in Users,
           NEW place \in UserPlaces, Goes(u, place),
           file' \in File, file'.there, file'.head = file.head, Len(Layers') = Len(Layers),
           \A y \in 1..Len(Layers) : Layers'[y].of = Layers[y].of,
           ~early' /\ at[m] # "dead" =>
               \A y \in 1..Len(Layers) : Layers[y].weights = "scrammed" => Layers'[y].weights = "scrammed",
           basen' \in [Procs -> Nat], pos' \in [Procs -> Nat \ {0}],
           \A q \in Procs : q # u => basen'[q] = basen[q] /\ pos'[q] = pos[q],
           kbase' \in [Users -> Seq(LayerRecord)],
           \A w \in Users : w # u => kbase'[w] = kbase[w],
           UNCHANGED line, early => early', killed' \in Seq(Places), KilledAmid => KilledAmid',
           place \in {"off", "fstat", "open", "learn"} => pos'[u] = 1,
           Using(u, m)'
    PROVE  Made(m)'
<1>1. /\ u \in Procs /\ Users \subseteq Procs /\ Makers \subseteq Procs
      /\ \A n \in Makers : n # u
  BY Facts DEF Made
<1>2. /\ at' \in [Procs -> Places] /\ at'[u] = place
      /\ \A n \in Makers : at'[n] \in MakerPlaces
      /\ \A w \in Users : at'[w] \in UserPlaces
      /\ \A q \in Procs : q # u => at'[q] = at[q]
  BY <1>1, Went DEF Made
<1>3. Typed'
  BY <1>2 DEF Made, Typed
<1>4. Beginnings'
  <2>1. \A q \in Procs : q # u => at'[q] = at[q] /\ pos'[q] = pos[q]
    BY <1>2
  <2>2. \A n \in Makers : at'[n] = at[n] /\ line'[n] = line[n]
    BY <1>1, <1>2
  <2>3. at'[u] \in {"off", "head", "fstat", "open", "push", "header", "learn"} => pos'[u] = 1
    BY <1>2 DEF UserPlaces
  <2>4. Beginnings
    BY DEF Made
  <2>5. \A q \in Procs :
           at'[q] \in {"off", "head", "fstat", "open", "push", "header", "learn"} => pos'[q] = 1
    BY <2>1, <2>3, <2>4 DEF Beginnings
  <2>6. \A n \in Makers : at'[n] = "off" => line'[n] = 0
    BY <2>2, <2>4 DEF Beginnings
  <2>. QED
    BY <2>5, <2>6, Zenon DEF Beginnings
<1>5. OneMakes(m)'
  <2>1. \A n \in Makers : at'[n] = at[n] /\ basen'[n] = basen[n] /\ pos'[n] = pos[n]
    BY <1>1, <1>2
  <2>2. \A w \in Users : w # u => /\ at'[w] = at[w] /\ basen'[w] = basen[w]
                                  /\ pos'[w] = pos[w] /\ kbase'[w] = kbase[w]
    BY <1>1, <1>2
  <2>3. Typed /\ OneMakes(m)
    BY DEF Made
  <2>. QED
    BY <2>1, <2>2, <2>3, UserMoves
<1>. QED
  BY <1>3, <1>4, <1>5 DEF Made

(***************************************************************************)
(* A step that leaves the file alone.                                      *)
(***************************************************************************)
LEMMA UserLooks ==
    ASSUME NEW m \in Makers, Made(m), NEW u \in Users,
           NEW place \in UserPlaces, Goes(u, place),
           basen' \in [Procs -> Nat], pos' \in [Procs -> Nat \ {0}],
           \A q \in Procs : q # u => basen'[q] = basen[q] /\ pos'[q] = pos[q],
           kbase' \in [Users -> Seq(LayerRecord)],
           \A w \in Users : w # u => kbase'[w] = kbase[w],
           UNCHANGED <<file, line>>, early => early',
           killed' \in Seq(Places), KilledAmid => KilledAmid',
           place \in {"off", "fstat", "open", "learn"} => pos'[u] = 1,
           Using(u, m)'
    PROVE  Made(m)'
<1>1. file' \in File /\ file'.there /\ file'.head = file.head /\ Layers' = Layers
  BY DEF Made, Typed, Layers
<1>. QED
  BY <1>1, UserStep

LEMMA UserFacts ==
    ASSUME NEW m \in Makers, Made(m), NEW u \in Users
    PROVE  /\ Typed /\ OneMakes(m) /\ Making(m) /\ Using(u, m) /\ u \in Procs /\ u \notin Makers
           /\ Layers \in Seq(LayerRecord) /\ Len(Layers) \in Nat
           /\ kbase[u] \in Seq(LayerRecord) /\ Len(kbase[u]) \in Nat
           /\ basen[u] \in Nat /\ pos[u] \in Nat \ {0} /\ at[u] \in Places
           /\ basen \in [Procs -> Nat] /\ pos \in [Procs -> Nat \ {0}]
           /\ kbase \in [Users -> Seq(LayerRecord)] /\ killed \in Seq(Places)
           /\ at[u] \in {"off", "fstat", "open", "learn"} => pos[u] = 1
<1>1. Typed /\ OneMakes(m) /\ Beginnings /\ u \in Procs
  BY DEF Made, Procs
<1>2. Making(m) /\ Using(u, m)
  BY <1>1 DEF OneMakes
<1>3. at[u] \in {"off", "fstat", "open", "learn"} => pos[u] = 1
  BY <1>1 DEF Beginnings
<1>4. basen \in [Procs -> Nat] /\ pos \in [Procs -> Nat \ {0}]
      /\ kbase \in [Users -> Seq(LayerRecord)] /\ killed \in Seq(Places)
  BY <1>1 DEF Typed
<1>. QED
  BY <1>1, <1>2, <1>3, <1>4, Facts

(***************************************************************************)
(* A user goes to a place of which nothing is said, and touches nothing.   *)
(***************************************************************************)
LEMMA UserLeaves ==
    ASSUME NEW m \in Makers, Made(m), NEW u \in Users,
           NEW place \in {"off", "fstat", "dead"}, Goes(u, place),
           place # "dead" => pos[u] = 1,
           UNCHANGED <<file, basen, pos, line, kbase, early>>,
           killed' \in Seq(Places), KilledAmid => KilledAmid'
    PROVE  Made(m)'
<1>1. /\ Typed /\ u \in Procs /\ basen \in [Procs -> Nat] /\ pos \in [Procs -> Nat \ {0}]
      /\ kbase \in [Users -> Seq(LayerRecord)]
  BY UserFacts
<1>2. place \in UserPlaces /\ at'[u] = place
  BY <1>1 DEF UserPlaces, Goes, Typed
<1>3. Using(u, m)'
  BY <1>2 DEF Using
<1>. QED
  BY <1>1, <1>2, <1>3, UserLooks

LEMMA UserLeavesMade ==
    ASSUME NEW m \in Makers, Made(m), NEW u \in Users,
           Start(u) \/ Close(u) \/ UserDies(u) \/ OpenAborts(u)
    PROVE  Made(m)'
<1>1. /\ killed \in Seq(Places)
      /\ at[u] \in {"off", "fstat", "open", "learn"} => pos[u] = 1
  BY UserFacts
<1>2. UNCHANGED <<file, basen, pos, line, kbase, early, killed>>
  BY DEF Start, Close, UserDies, OpenAborts
<1>3. killed' \in Seq(Places) /\ (KilledAmid => KilledAmid')
  BY <1>1, <1>2 DEF KilledAmid
<1>4. \/ at[u] = "off" /\ Goes(u, "fstat")
      \/ at[u] = "learn" /\ Goes(u, "off")
      \/ Goes(u, "dead")
  BY DEF Start, Close, UserDies, OpenAborts
<1>5. PICK place \in {"off", "fstat", "dead"} : Goes(u, place) /\ (place # "dead" => pos[u] = 1)
  BY <1>1, <1>4
<1>. QED
  BY <1>2, <1>3, <1>5, UserLeaves

LEMMA KillUserMade ==
    ASSUME NEW m \in Makers, Made(m), NEW u \in Users, Kill(u)
    PROVE  Made(m)'
<1>1. killed \in Seq(Places) /\ at[u] \in Places
  BY UserFacts
<1>2. /\ Goes(u, "dead") /\ killed' = Append(killed, at[u])
      /\ UNCHANGED <<file, basen, pos, line, kbase, early>>
  BY DEF Kill
<1>3. PICK n \in Nat : n = Len(killed)
  BY <1>1, LenProperties
<1>4. /\ killed' \in Seq(Places) /\ Len(killed') = n + 1
      /\ \A y \in 1..n : killed'[y] = killed[y]
  BY <1>1, <1>2, <1>3, AppendProperties
<1>5. KilledAmid => KilledAmid'
  <2>1. \A y \in 1..n : y \in 1..n + 1
    OBVIOUS
  <2>. QED
    BY <1>3, <1>4, <2>1 DEF KilledAmid
<1>. QED
  BY <1>2, <1>4, <1>5, UserLeaves

LEMMA FstatUserMade ==
    ASSUME NEW m \in Makers, Made(m), NEW u \in Users, Fstat(u)
    PROVE  Made(m)'
<1>1. /\ Typed /\ u \in Procs /\ basen \in [Procs -> Nat] /\ pos \in [Procs -> Nat \ {0}]
      /\ kbase \in [Users -> Seq(LayerRecord)] /\ killed \in Seq(Places)
      /\ Len(Layers) \in Nat /\ (at[u] = "fstat" => pos[u] = 1)
  BY UserFacts
<1>2. /\ at[u] = "fstat" /\ basen' = [basen EXCEPT ![u] = Len(Layers)]
      /\ UNCHANGED <<file, pos, line, kbase, early, killed>>
  BY DEF Fstat
<1>3. PICK place \in {"open", "dead"} : Goes(u, place)
  BY DEF Fstat
<1>4. place \in UserPlaces /\ at'[u] = place
  BY <1>1, <1>3 DEF UserPlaces, Goes, Typed
<1>5. basen' \in [Procs -> Nat] /\ basen'[u] = Len(Layers) /\ Layers' = Layers
      /\ \A q \in Procs : q # u => basen'[q] = basen[q]
  BY <1>1, <1>2 DEF Layers
<1>6. Using(u, m)'
  BY <1>1, <1>4, <1>5 DEF Using
<1>7. killed' \in Seq(Places) /\ (KilledAmid => KilledAmid')
  BY <1>1, <1>2 DEF KilledAmid
<1>. QED
  BY <1>1, <1>2, <1>3, <1>4, <1>5, <1>6, <1>7, UserLooks

LEMMA OpenUserMade ==
    ASSUME NEW m \in Makers, Made(m), NEW u \in Users, Open(u)
    PROVE  Made(m)'
<1>1. /\ Typed /\ OneMakes(m) /\ Using(u, m)
      /\ u \in Procs /\ u \notin Makers /\ basen \in [Procs -> Nat] /\ pos \in [Procs -> Nat \ {0}]
      /\ kbase \in [Users -> Seq(LayerRecord)] /\ killed \in Seq(Places)
      /\ Len(Layers) \in Nat /\ basen[u] \in Nat /\ (at[u] = "open" => pos[u] = 1)
  BY UserFacts
<1>2. /\ at[u] = "open" /\ Whole(u) /\ Goes(u, "prepare")
      /\ early' = (early \/ \E n \in Makers : at[n] \notin Idle)
      /\ kbase' = [kbase EXCEPT ![u] = <<>>]
      /\ UNCHANGED <<file, basen, pos, line, killed>>
  BY <1>1 DEF Open
<1>3. at'[u] = "prepare" /\ "prepare" \in UserPlaces /\ pos'[u] = 1
  BY <1>1, <1>2 DEF Goes, Typed, UserPlaces
<1>4. <<>> \in Seq(LayerRecord) /\ Len(<<>>) = 0
  BY EmptySeq
<1>5. /\ kbase' \in [Users -> Seq(LayerRecord)] /\ Len(kbase'[u]) = 0
      /\ \A w \in Users : w # u => kbase'[w] = kbase[w]
  BY <1>1, <1>2, <1>4
<1>6. OfMaker(Layers, basen[u], m)
  <2>1. basen[u] <= Len(Layers) /\ \A y \in 1..basen[u] : Layers[y].of # NoMaker
    BY <1>2 DEF Whole
  <2>2. \A y \in 1..Len(Layers) : Layers[y].of \in {m, NoMaker}
    BY <1>1 DEF OneMakes
  <2>. QED
    BY <1>1, <2>1, <2>2 DEF OfMaker
<1>7. ~early' => at[m] \in Idle
  BY <1>2
<1>8. at'[m] = at[m]
  BY <1>1, <1>2, Facts DEF Goes, Typed
<1>9. Using(u, m)'
  <2>1. Layers' = Layers /\ basen'[u] = basen[u]
    BY <1>2 DEF Layers
  <2>2. basen[u] <= Len(Layers)
    BY <1>6 DEF OfMaker
  <2>3. /\ OfMaker(Layers', basen'[u], m)
        /\ OfMaker(kbase'[u], Len(kbase'[u]), m)
        /\ Scrammed(kbase'[u], Len(kbase'[u]))
    BY <1>5, <1>6, <2>1 DEF OfMaker, Scrammed
  <2>. QED
    BY <1>3, <1>5, <1>7, <1>8, <2>1, <2>2, <2>3 DEF Using, OfMaker, Scrammed
<1>10. killed' \in Seq(Places) /\ (KilledAmid => KilledAmid')
  BY <1>1, <1>2 DEF KilledAmid
<1>. QED
  BY <1>1, <1>2, <1>3, <1>5, <1>9, <1>10, UserLooks

-----------------------------------------------------------------------------
LEMMA PrepareMade ==
    ASSUME NEW m \in Makers, Made(m), NEW u \in Users, Prepare(u)
    PROVE  Made(m)'
<1>1. /\ Typed /\ OneMakes(m) /\ Making(m) /\ Using(u, m)
      /\ u \in Procs /\ u \notin Makers /\ basen \in [Procs -> Nat] /\ pos \in [Procs -> Nat \ {0}]
      /\ kbase \in [Users -> Seq(LayerRecord)] /\ killed \in Seq(Places)
      /\ Layers \in Seq(LayerRecord) /\ Len(Layers) \in Nat /\ kbase[u] \in Seq(LayerRecord)
  BY UserFacts
<1>2. PICK i \in Nat \ {0}, b \in Nat : i = pos[u] /\ b = basen[u]
  BY UserFacts
<1>3. /\ at[u] = "prepare" /\ i <= b /\ i <= Len(Layers)
      /\ kbase' = [kbase EXCEPT ![u] = Append(kbase[u], Layers[i])]
      /\ pos' = [pos EXCEPT ![u] = IF i < b THEN i + 1 ELSE 1]
      /\ UNCHANGED <<file, basen, line, early, killed>>
  BY <1>1, <1>2 DEF Prepare, Sound, Gone, Torn, Walks
<1>4. PICK place : place = IF i < b THEN "prepare" ELSE "learn"
  OBVIOUS
<1>5. Goes(u, place)
  BY <1>2, <1>3, <1>4 DEF Prepare, Walks
<1>6. place \in UserPlaces /\ at'[u] = place
  BY <1>1, <1>4, <1>5 DEF UserPlaces, Goes, Typed
<1>7. pos' \in [Procs -> Nat \ {0}] /\ pos'[u] = (IF i < b THEN i + 1 ELSE 1)
      /\ \A q \in Procs : q # u => pos'[q] = pos[q]
  <2>1. (IF i < b THEN i + 1 ELSE 1) \in Nat \ {0}
    BY <1>2
  <2>. QED
    BY <1>1, <1>3, <2>1
<1>8. /\ OfMaker(Layers, b, m) /\ OfMaker(kbase[u], Len(kbase[u]), m)
      /\ b <= Len(Layers) /\ Len(kbase[u]) = i - 1
      /\ ~early => at[m] \in Idle
      /\ ~early /\ at[m] = "made" => Scrammed(kbase[u], Len(kbase[u]))
  BY <1>1, <1>2, <1>3 DEF Using
<1>9. PICK s : s = Append(kbase[u], Layers[i])
  OBVIOUS
<1>10. Layers[i] \in LayerRecord /\ Layers[i].of = m
  BY <1>1, <1>2, <1>3, <1>8, Facts DEF OfMaker
<1>11. /\ s \in Seq(LayerRecord) /\ Len(s) = i /\ s[i] = Layers[i]
       /\ \A y \in 1..i - 1 : s[y] = kbase[u][y]
  <2>1. /\ Append(kbase[u], Layers[i]) \in Seq(LayerRecord)
        /\ Len(Append(kbase[u], Layers[i])) = Len(kbase[u]) + 1
        /\ \A y \in 1..Len(kbase[u]) : Append(kbase[u], Layers[i])[y] = kbase[u][y]
        /\ Append(kbase[u], Layers[i])[Len(kbase[u]) + 1] = Layers[i]
    BY <1>1, <1>10, AppendProperties
  <2>. QED
    BY <1>2, <1>8, <1>9, <2>1
<1>12. \A y \in 1..i : y = i \/ y \in 1..i - 1
  BY <1>2
<1>13. OfMaker(s, i, m)
  <2>1. \A y \in 1..i - 1 : s[y].of = m
    BY <1>8, <1>11 DEF OfMaker
  <2>2. s[i].of = m /\ i <= Len(s)
    BY <1>2, <1>10, <1>11
  <2>. QED
    BY <1>12, <2>1, <2>2 DEF OfMaker
<1>14. ~early /\ at[m] = "made" => Scrammed(s, i)
  <2>1. ASSUME ~early, at[m] = "made" PROVE Scrammed(s, i)
    <3>1. Scrammed(Layers, Lines) /\ Len(Layers) = Lines /\ Scrammed(kbase[u], i - 1)
      BY <1>1, <1>8, <2>1 DEF Making
    <3>2. s[i].weights = "scrammed"
      BY <1>1, <1>2, <1>3, <1>11, <3>1 DEF Scrammed
    <3>3. \A y \in 1..i - 1 : s[y].weights = "scrammed"
      BY <1>11, <3>1 DEF Scrammed
    <3>. QED
      BY <1>2, <1>11, <1>12, <3>2, <3>3 DEF Scrammed
  <2>. QED
    BY <2>1
<1>15. /\ kbase' \in [Users -> Seq(LayerRecord)] /\ kbase'[u] = s
       /\ \A w \in Users : w # u => kbase'[w] = kbase[w]
  BY <1>1, <1>3, <1>9, <1>11
<1>16. at'[m] = at[m]
  BY <1>1, <1>5, Facts DEF Goes, Typed
<1>17. Using(u, m)'
  <2>1. Layers' = Layers /\ basen'[u] = b /\ early' = early
    BY <1>2, <1>3 DEF Layers
  <2>2. /\ OfMaker(Layers', basen'[u], m)
        /\ OfMaker(kbase'[u], Len(kbase'[u]), m)
        /\ ~early /\ at[m] = "made" => Scrammed(kbase'[u], Len(kbase'[u]))
    BY <1>8, <1>11, <1>13, <1>14, <1>15, <2>1
  <2>3. CASE i < b
    <3>1. at'[u] = "prepare" /\ Len(kbase'[u]) = pos'[u] - 1
      BY <1>2, <1>4, <1>6, <1>7, <1>11, <1>15, <2>3
    <3>. QED
      BY <1>8, <1>16, <2>1, <2>2, <3>1 DEF Using, OfMaker, Scrammed
  <2>4. CASE ~(i < b)
    <3>1. at'[u] = "learn" /\ Len(kbase'[u]) = b /\ b > 0
      BY <1>2, <1>3, <1>4, <1>6, <1>11, <1>15, <2>4
    <3>. QED
      BY <1>8, <1>16, <2>1, <2>2, <3>1 DEF Using, OfMaker, Scrammed
  <2>. QED
    BY <2>3, <2>4
<1>18. killed' \in Seq(Places) /\ (KilledAmid => KilledAmid')
  BY <1>1, <1>3 DEF KilledAmid
<1>19. place \in {"off", "fstat", "open", "learn"} => pos'[u] = 1
  BY <1>4, <1>7
<1>20. basen' \in [Procs -> Nat] /\ \A q \in Procs : q # u => basen'[q] = basen[q]
  BY <1>1, <1>3
<1>. QED
  BY <1>3, <1>5, <1>6, <1>7, <1>15, <1>17, <1>18, <1>19, <1>20, UserLooks

LEMMA LearnMade ==
    ASSUME NEW m \in Makers, Made(m), NEW u \in Users, Learn(u)
    PROVE  Made(m)'
<1>1. /\ Typed /\ OneMakes(m) /\ Making(m) /\ Using(u, m)
      /\ u \in Procs /\ u \notin Makers /\ basen \in [Procs -> Nat] /\ pos \in [Procs -> Nat \ {0}]
      /\ kbase \in [Users -> Seq(LayerRecord)] /\ killed \in Seq(Places)
      /\ (at[u] = "learn" => pos[u] = 1)
  BY UserFacts
<1>2. PICK b \in Nat : b = basen[u]
  BY UserFacts
<1>3. /\ at[u] = "learn" /\ Goes(u, "save")
      /\ UNCHANGED <<file, basen, pos, line, early, killed>>
  BY DEF Learn
<1>4. PICK s : s = kbase[u]
  OBVIOUS
<1>5. /\ s \in Seq(LayerRecord) /\ Len(s) = b /\ b > 0 /\ DOMAIN s = 1..b
      /\ \A y \in 1..b : s[y] \in LayerRecord
      /\ OfMaker(Layers, b, m) /\ OfMaker(s, b, m) /\ b <= Len(Layers)
      /\ ~early => at[m] \in Idle
      /\ ~early /\ at[m] = "made" => Scrammed(s, b)
  <2>1. s \in Seq(LayerRecord)
    BY <1>1, <1>4
  <2>2. /\ Len(s) = b /\ b > 0
        /\ OfMaker(Layers, b, m) /\ OfMaker(s, b, m) /\ b <= Len(Layers)
        /\ ~early => at[m] \in Idle
        /\ ~early /\ at[m] = "made" => Scrammed(s, b)
    BY <1>1, <1>2, <1>3, <1>4 DEF Using
  <2>3. DOMAIN s = 1..b /\ \A y \in 1..b : s[y] \in LayerRecord
    BY <2>1, <2>2, LenProperties, ElementOfSeq
  <2>. QED
    BY <2>1, <2>2, <2>3
<1>6. kbase' = [kbase EXCEPT ![u] = [y \in DOMAIN s |-> Learned(s[y])]]
  BY <1>4 DEF Learn
<1>7. ASSUME NEW r \in LayerRecord
      PROVE  /\ Learned(r) \in LayerRecord /\ Learned(r).of = r.of
             /\ r.weights = "scrammed" => Learned(r).weights = "scrammed"
  BY DEF LayerRecord, Weights, Learned
<1>8. kbase' = [kbase EXCEPT ![u] = [y \in 1..b |-> Learned(s[y])]]
  BY <1>5, <1>6
<1>9. \A y \in 1..b : /\ Learned(s[y]) \in LayerRecord /\ Learned(s[y]).of = s[y].of
                      /\ s[y].weights = "scrammed" => Learned(s[y]).weights = "scrammed"
  BY <1>5, <1>7
<1>10. PICK t : t = [y \in 1..b |-> Learned(s[y])]
  OBVIOUS
<1>11. t \in Seq(LayerRecord) /\ Len(t) = b
  BY <1>9, <1>10, IsASeq
<1>12. \A y \in 1..b : t[y] = Learned(s[y])
  BY <1>10
<1>13. OfMaker(t, b, m)
  BY <1>5, <1>9, <1>11, <1>12 DEF OfMaker
<1>14. ~early /\ at[m] = "made" => Scrammed(t, b)
  BY <1>5, <1>9, <1>11, <1>12 DEF Scrammed
<1>15. /\ kbase' \in [Users -> Seq(LayerRecord)] /\ kbase'[u] = t
       /\ \A w \in Users : w # u => kbase'[w] = kbase[w]
  BY <1>1, <1>8, <1>10, <1>11
<1>16. at'[m] = at[m] /\ at'[u] = "save" /\ "save" \in UserPlaces
  BY <1>1, <1>3, Facts DEF Goes, Typed, UserPlaces
<1>17. Using(u, m)'
  <2>1. Layers' = Layers /\ basen'[u] = b /\ early' = early /\ pos'[u] = 1 /\ 1 <= b
    BY <1>1, <1>2, <1>3, <1>5 DEF Layers
  <2>2. /\ OfMaker(Layers', basen'[u], m)
        /\ OfMaker(kbase'[u], Len(kbase'[u]), m) /\ Len(kbase'[u]) = b
        /\ ~early /\ at[m] = "made" => Scrammed(kbase'[u], Len(kbase'[u]))
    BY <1>5, <1>11, <1>13, <1>14, <1>15, <2>1
  <2>. QED
    BY <1>5, <1>16, <2>1, <2>2 DEF Using, OfMaker, Scrammed
<1>18. killed' \in Seq(Places) /\ (KilledAmid => KilledAmid')
  BY <1>1, <1>3 DEF KilledAmid
<1>. QED
  BY <1>1, <1>3, <1>15, <1>16, <1>17, <1>18, UserLooks

LEMMA SaveMade ==
    ASSUME NEW m \in Makers, Made(m), NEW u \in Users, Save(u)
    PROVE  Made(m)'
<1>1. /\ Typed /\ OneMakes(m) /\ Making(m) /\ Using(u, m)
      /\ u \in Procs /\ u \notin Makers /\ basen \in [Procs -> Nat] /\ pos \in [Procs -> Nat \ {0}]
      /\ kbase \in [Users -> Seq(LayerRecord)] /\ killed \in Seq(Places)
      /\ Layers \in Seq(LayerRecord) /\ Len(Layers) \in Nat /\ kbase[u] \in Seq(LayerRecord)
  BY UserFacts
<1>2. PICK i \in Nat \ {0}, b \in Nat : i = pos[u] /\ b = basen[u]
  BY UserFacts
<1>3. /\ at[u] = "save"
      /\ file' = [file EXCEPT !.layers[i] = kbase[u][i]]
      /\ pos' = [pos EXCEPT ![u] = IF i < b THEN i + 1 ELSE 1]
      /\ UNCHANGED <<basen, line, kbase, early, killed>>
  BY <1>1, <1>2 DEF Save, Walks
<1>4. PICK place : place = IF i < b THEN "save" ELSE "learn"
  OBVIOUS
<1>5. Goes(u, place)
  BY <1>2, <1>3, <1>4 DEF Save, Walks
<1>6. place \in UserPlaces /\ at'[u] = place
  BY <1>1, <1>4, <1>5 DEF UserPlaces, Goes, Typed
<1>7. pos' \in [Procs -> Nat \ {0}] /\ pos'[u] = (IF i < b THEN i + 1 ELSE 1)
      /\ \A q \in Procs : q # u => pos'[q] = pos[q]
  <2>1. (IF i < b THEN i + 1 ELSE 1) \in Nat \ {0}
    BY <1>2
  <2>. QED
    BY <1>1, <1>3, <2>1
<1>8. /\ OfMaker(Layers, b, m) /\ OfMaker(kbase[u], b, m)
      /\ b <= Len(Layers) /\ Len(kbase[u]) = b /\ b > 0 /\ i <= b
      /\ ~early => at[m] \in Idle
      /\ ~early /\ at[m] = "made" => Scrammed(kbase[u], b)
  BY <1>1, <1>2, <1>3 DEF Using
<1>9. PICK v : v = kbase[u][i]
  OBVIOUS
<1>10. v \in LayerRecord /\ v.of = m /\ i \in 1..Len(Layers) /\ Layers[i].of = m
  <2>1. v \in LayerRecord
    BY <1>1, <1>2, <1>8, <1>9, ElementOfSeq
  <2>. QED
    BY <1>1, <1>2, <1>8, <1>9, <2>1 DEF OfMaker
<1>11. PICK t : t = [Layers EXCEPT ![i] = v]
  OBVIOUS
<1>12. /\ t \in Seq(LayerRecord) /\ Len(t) = Len(Layers)
       /\ \A y \in 1..Len(Layers) : t[y] = IF y = i THEN v ELSE Layers[y]
  BY <1>1, <1>10, <1>11, SetLayer
<1>13. file' \in File /\ file'.there /\ file'.head = file.head /\ Layers' = t
  <2>1. file'.layers = [file.layers EXCEPT ![i] = v] /\ file.there
    BY <1>1, <1>3, <1>9 DEF Typed, File, Made
  <2>2. file' = [file EXCEPT !.layers = file'.layers]
    BY <1>1, <1>3 DEF Typed, File
  <2>3. Layers' = t
    BY <1>11, <2>1 DEF Layers
  <2>. QED
    BY <1>1, <1>12, <2>1, <2>2, <2>3 DEF Typed, File, Layers
<1>14. \A y \in 1..Len(Layers) : Layers'[y].of = Layers[y].of
  BY <1>10, <1>12, <1>13
<1>15. ~early /\ at[m] # "dead" =>
          \A y \in 1..Len(Layers) : Layers[y].weights = "scrammed" => Layers'[y].weights = "scrammed"
  <2>. SUFFICES ASSUME ~early, at[m] # "dead" PROVE v.weights = "scrammed"
    BY <1>12, <1>13
  <2>1. at[m] = "made"
    BY <1>1, <1>8 DEF OneMakes, Idle
  <2>. QED
    BY <1>2, <1>8, <1>9, <2>1 DEF Scrammed
<1>16. at'[m] = at[m]
  BY <1>1, <1>5, Facts DEF Goes, Typed
<1>17. Using(u, m)'
  <2>1. basen'[u] = b /\ early' = early /\ kbase'[u] = kbase[u] /\ Len(Layers') = Len(Layers)
    BY <1>2, <1>3, <1>12, <1>13
  <2>2. OfMaker(Layers', b, m)
    <3>1. \A y \in 1..b : y \in 1..Len(Layers)
      BY <1>1, <1>2, <1>8
    <3>. QED
      BY <1>8, <1>14, <2>1, <3>1 DEF OfMaker
  <2>3. CASE i < b
    <3>1. at'[u] = "save" /\ pos'[u] <= b
      BY <1>2, <1>4, <1>6, <1>7, <2>3
    <3>. QED
      BY <1>8, <1>16, <2>1, <2>2, <3>1 DEF Using, OfMaker, Scrammed
  <2>4. CASE ~(i < b)
    <3>1. at'[u] = "learn"
      BY <1>4, <1>6, <2>4
    <3>. QED
      BY <1>8, <1>16, <2>1, <2>2, <3>1 DEF Using, OfMaker, Scrammed
  <2>. QED
    BY <2>3, <2>4
<1>18. killed' \in Seq(Places) /\ (KilledAmid => KilledAmid')
  BY <1>1, <1>3 DEF KilledAmid
<1>19. place \in {"off", "fstat", "open", "learn"} => pos'[u] = 1
  BY <1>4, <1>7
<1>20. basen' \in [Procs -> Nat] /\ \A q \in Procs : q # u => basen'[q] = basen[q]
  BY <1>1, <1>3
<1>21. kbase' \in [Users -> Seq(LayerRecord)] /\ \A w \in Users : w # u => kbase'[w] = kbase[w]
  BY <1>1, <1>3
<1>22. Len(Layers') = Len(Layers) /\ (early => early') /\ line' = line
  BY <1>3, <1>12, <1>13
<1>23. ~early' /\ at[m] # "dead" =>
          \A y \in 1..Len(Layers) : Layers[y].weights = "scrammed" => Layers'[y].weights = "scrammed"
  BY <1>3, <1>15
<1>. QED
  BY <1>5, <1>6, <1>7, <1>13, <1>14, <1>17, <1>18, <1>19, <1>20, <1>21, <1>22, <1>23, UserStep

-----------------------------------------------------------------------------
(***************************************************************************)
(* A make creates the file while every process is idle.                    *)
(***************************************************************************)
LEMMA CreateMade ==
    ASSUME Typed, Beginnings, NEW m \in Makers, NEW clobber \in BOOLEAN, Create(m, clobber),
           \A p \in Procs : at[p] \in Idle
    PROVE  Made(m)'
<1>1. /\ m \in Procs /\ Users \subseteq Procs /\ Makers \subseteq Procs
      /\ \A u \in Users : u # m
  BY Facts
<1>2. /\ at[m] = "off" /\ file' = [there |-> TRUE, head |-> "short", layers |-> <<>>]
      /\ early' = FALSE /\ Goes(m, "head")
      /\ UNCHANGED <<basen, pos, line, kbase, killed>>
  BY DEF Create
<1>3. "head" \in MakerPlaces
  BY DEF MakerPlaces
<1>4. /\ at' \in [Procs -> Places] /\ at'[m] = "head"
      /\ \A n \in Makers : at'[n] \in MakerPlaces
      /\ \A u \in Users : at'[u] \in UserPlaces
      /\ \A q \in Procs : q # m => at'[q] = at[q]
  BY <1>1, <1>2, <1>3, Went
<1>5. <<>> \in Seq(LayerRecord) /\ Len(<<>>) = 0
  BY EmptySeq
<1>6. file' \in File /\ file'.there /\ Layers' = <<>>
  BY <1>2, <1>5 DEF File, Layers
<1>7. Typed'
  BY <1>2, <1>4, <1>6 DEF Typed
<1>8. pos[m] = 1 /\ line[m] = 0
  BY <1>1, <1>2 DEF Beginnings
<1>9. Beginnings'
  <2>1. \A q \in Procs :
           at'[q] \in {"off", "head", "fstat", "open", "push", "header", "learn"} => pos'[q] = 1
    BY <1>2, <1>4, <1>8 DEF Beginnings
  <2>2. \A n \in Makers : at'[n] = "off" => line'[n] = 0
    BY <1>1, <1>2, <1>4 DEF Beginnings
  <2>. QED
    BY <2>1, <2>2, Zenon DEF Beginnings
<1>10. Making(m)'
  BY <1>2, <1>4, <1>5, <1>6, <1>8 DEF Making
<1>11. \A n \in Makers : n # m => at'[n] \in Idle
  BY <1>1, <1>4
<1>12. \A u \in Users : Using(u, m)'
  <2>. SUFFICES ASSUME NEW u \in Users PROVE Using(u, m)'
    OBVIOUS
  <2>1. at'[u] \notin {"open", "prepare", "learn", "save"}
    BY <1>1, <1>4 DEF Idle
  <2>. QED
    BY <2>1 DEF Using
<1>13. \A y \in 1..Len(Layers') : Layers'[y].of \in {m, NoMaker}
  BY <1>5, <1>6
<1>14. Opens' \/ at'[m] \in Windows \/ KilledAmid'
  BY <1>4 DEF Windows
<1>15. OneMakes(m)'
  BY <1>4, <1>10, <1>11, <1>12, <1>13, <1>14 DEF OneMakes
<1>. QED
  BY <1>6, <1>7, <1>9, <1>15 DEF Made

(***************************************************************************)
(* Another make, or the one the file is of, does not create it again.      *)
(***************************************************************************)
LEMMA RefusedMade ==
    ASSUME NEW m \in Makers, Made(m), NEW n \in Makers, CreateRefused(n)
    PROVE  Made(m)'
<1>1. /\ Typed /\ OneMakes(m) /\ n \in Procs /\ m \in Procs
      /\ Users \subseteq Procs /\ \A u \in Users : u # n
  BY Facts DEF Made
<1>2. at[n] = "off" /\ Goes(n, "refused") /\ UNCHANGED <<file, basen, pos, line, kbase, early, killed>>
  BY DEF CreateRefused
<1>3. n # m
  BY <1>1, <1>2 DEF OneMakes
<1>4. "refused" \in MakerPlaces /\ "refused" \in Idle
  BY DEF MakerPlaces, Idle
<1>5. /\ at' \in [Procs -> Places] /\ at'[n] = "refused"
      /\ \A q \in Makers : at'[q] \in MakerPlaces
      /\ \A u \in Users : at'[u] \in UserPlaces
      /\ \A q \in Procs : q # n => at'[q] = at[q]
  BY <1>1, <1>2, <1>4, Went
<1>6. Typed'
  BY <1>1, <1>2, <1>5 DEF Typed
<1>7. Beginnings'
  <2>0. Beginnings /\ Makers \subseteq Procs
    BY Facts DEF Made
  <2>1. \A q \in Procs :
           at'[q] \in {"off", "head", "fstat", "open", "push", "header", "learn"} => pos'[q] = 1
    BY <1>2, <1>5, <2>0 DEF Beginnings
  <2>2. \A q \in Makers : at'[q] = "off" => line'[q] = 0
    BY <1>2, <1>5, <2>0 DEF Beginnings
  <2>. QED
    BY <2>1, <2>2, Zenon DEF Beginnings
<1>8. at'[m] = at[m] /\ \A u \in Users : at'[u] = at[u]
  BY <1>1, <1>3, <1>5
<1>9. Making(m)'
  <2>1. Making(m)
    BY <1>1 DEF OneMakes
  <2>. QED
    BY <1>2, <1>8, <2>1 DEF Making, OfMaker, Scrammed, Layers
<1>10. \A u \in Users : Using(u, m)'
  <2>. SUFFICES ASSUME NEW u \in Users PROVE Using(u, m)'
    OBVIOUS
  <2>1. Using(u, m)
    BY <1>1 DEF OneMakes
  <2>. QED
    BY <1>2, <1>8, <2>1 DEF Using, OfMaker, Scrammed, Layers
<1>11. \A q \in Makers : q # m => at'[q] \in Idle
  BY <1>1, <1>4, <1>5, Facts DEF OneMakes
<1>12. OneMakes(m)'
  BY <1>1, <1>2, <1>8, <1>9, <1>10, <1>11 DEF OneMakes, Opens, KilledAmid, Layers
<1>. QED
  BY <1>2, <1>6, <1>7, <1>12 DEF Made

(***************************************************************************)
(* While the file is of m, no other make does more than start.             *)
(***************************************************************************)
LEMMA OthersAreIdle ==
    ASSUME NEW m \in Makers, Made(m), NEW n \in Makers,
           \/ WriteHead(n) \/ Grow(n) \/ PutHeader(n) \/ Scram(n) \/ SpecError(n) \/ MakeDies(n)
           \/ Fstat(n) \/ Open(n) \/ OpenAborts(n) \/ Kill(n)
    PROVE  n = m
<1>1. at[n] \notin Idle
  BY DEF WriteHead, Grow, PutHeader, Scram, SpecError, MakeDies, Fstat, Open, OpenAborts, Kill, Idle
<1>. QED
  BY <1>1 DEF Made, OneMakes

-----------------------------------------------------------------------------
LEMMA StutterMade ==
    ASSUME NEW m \in Makers, Made(m), UNCHANGED vars
    PROVE  Made(m)'
<1>1. Typed' /\ Beginnings' /\ file'.there
  BY DEF vars, Made, Typed, Beginnings
<1>2. UNCHANGED <<file, at, basen, pos, line, kbase, early, killed>>
  BY DEF vars
<1>3. Making(m)'
  <2>1. Making(m)
    BY DEF Made, OneMakes
  <2>. QED
    BY <1>2, <2>1 DEF Making, OfMaker, Scrammed, Layers
<1>4. \A u \in Users : Using(u, m)'
  <2>. SUFFICES ASSUME NEW u \in Users PROVE Using(u, m)'
    OBVIOUS
  <2>1. Using(u, m)
    BY DEF Made, OneMakes
  <2>. QED
    BY <1>2, <2>1 DEF Using, OfMaker, Scrammed, Layers
<1>5. OneMakes(m)'
  BY <1>2, <1>3, <1>4 DEF Made, OneMakes, Opens, KilledAmid, Layers
<1>. QED
  BY <1>1, <1>5 DEF Made

LEMMA MakerNext ==
    ASSUME NEW m \in Makers, Made(m), NEW n \in Makers,
           \/ WriteHead(n) \/ Grow(n) \/ PutHeader(n) \/ Scram(n) \/ SpecError(n) \/ MakeDies(n)
           \/ Fstat(n) \/ Open(n) \/ OpenAborts(n) \/ Kill(n)
    PROVE  Made(m)'
<1>1. n = m
  BY OthersAreIdle
<1>. QED
  BY <1>1, WriteHeadMade, GrowMade, PutHeaderMade, ScramMade, SpecErrorMade, MakeDiesNot,
     FstatMade, OpenMade, KillMade

LEMMA UserNext ==
    ASSUME NEW m \in Makers, Made(m), NEW u \in Users,
           \/ Start(u) \/ Prepare(u) \/ Learn(u) \/ Save(u) \/ Close(u) \/ UserDies(u)
           \/ Fstat(u) \/ Open(u) \/ OpenAborts(u) \/ Kill(u)
    PROVE  Made(m)'
BY UserLeavesMade, PrepareMade, LearnMade, SaveMade, FstatUserMade, OpenUserMade, KillUserMade

(***************************************************************************)
(* Only clobbering a file that is in use races.                            *)
(***************************************************************************)
LEMMA RacedStays ==
    ASSUME [Next]_vars, raced
    PROVE  raced'
<1>1. ASSUME NEW n \in Makers, NEW clobber \in BOOLEAN, Create(n, clobber) PROVE raced'
  BY <1>1 DEF Create
<1>2. ASSUME NEW n \in Makers,
             CreateRefused(n) \/ WriteHead(n) \/ Grow(n) \/ PutHeader(n) \/ Scram(n) \/ SpecError(n) \/ MakeDies(n)
      PROVE  raced'
  BY <1>2 DEF CreateRefused, WriteHead, Grow, PutHeader, Scram, SpecError, MakeDies
<1>3. ASSUME NEW u \in Users,
             Start(u) \/ Prepare(u) \/ Learn(u) \/ Save(u) \/ Close(u) \/ UserDies(u)
      PROVE  raced'
  BY <1>3 DEF Start, Prepare, Learn, Save, Close, UserDies
<1>4. ASSUME NEW p \in Procs, Fstat(p) \/ Open(p) \/ OpenAborts(p) \/ Kill(p) PROVE raced'
  BY <1>4 DEF Fstat, Open, OpenAborts, Kill
<1>5. CASE UNCHANGED vars
  BY <1>5 DEF vars
<1>. QED
  BY <1>1, <1>2, <1>3, <1>4, <1>5 DEF Next

LEMMA StepInv == Inv /\ [Next]_vars => Inv'
<1>. SUFFICES ASSUME Inv, [Next]_vars, ~raced' PROVE Inv'
  BY DEF Inv
<1>1. ~raced
  BY RacedStays
<1>2. CASE Typed /\ Beginnings /\ ~file.there /\ Untouched
  <2>1. \A p \in Procs : at[p] = "off"
    BY <1>2 DEF Untouched
  <2>2. CASE UNCHANGED vars
    <3>1. (Typed /\ Beginnings /\ ~file.there /\ Untouched)'
      BY <1>2, <2>2 DEF vars, Typed, Beginnings, Untouched
    <3>. QED
      BY <3>1 DEF Inv
  <2>3. ASSUME NEW m \in Makers, NEW clobber \in BOOLEAN, Create(m, clobber) PROVE Inv'
    <3>1. \A p \in Procs : at[p] \in Idle
      BY <2>1 DEF Idle
    <3>2. Made(m)'
      BY <1>2, <2>3, <3>1, CreateMade
    <3>. QED
      BY <3>2 DEF Inv
  <2>4. ASSUME NEW n \in Makers,
               CreateRefused(n) \/ WriteHead(n) \/ Grow(n) \/ PutHeader(n) \/ Scram(n) \/ SpecError(n) \/ MakeDies(n)
        PROVE  FALSE
    <3>1. at[n] = "off" /\ ~file.there
      BY <1>2, <2>1 DEF Procs
    <3>. QED
      BY <2>4, <3>1 DEF CreateRefused, WriteHead, Grow, PutHeader, Scram, SpecError, MakeDies
  <2>5. ASSUME NEW u \in Users,
               Start(u) \/ Prepare(u) \/ Learn(u) \/ Save(u) \/ Close(u) \/ UserDies(u)
        PROVE  FALSE
    <3>1. at[u] = "off" /\ ~file.there
      BY <1>2, <2>1 DEF Procs
    <3>. QED
      BY <2>5, <3>1 DEF Start, Prepare, Learn, Save, Close, UserDies
  <2>6. ASSUME NEW p \in Procs, Fstat(p) \/ Open(p) \/ OpenAborts(p) \/ Kill(p) PROVE FALSE
    BY <2>1, <2>6 DEF Fstat, Open, OpenAborts, Kill, Idle
  <2>. QED
    BY <2>2, <2>3, <2>4, <2>5, <2>6 DEF Next
<1>3. ASSUME NEW m \in Makers, Made(m) PROVE Inv'
  <2>1. ASSUME Made(m)' PROVE Inv'
    BY <2>1 DEF Inv
  <2>2. CASE UNCHANGED vars
    BY <1>3, <2>1, <2>2, StutterMade
  <2>3. ASSUME NEW n \in Makers, NEW clobber \in BOOLEAN, Create(n, clobber) PROVE Inv'
    <3>1. \A p \in Procs : at[p] \in Idle
      BY <2>3 DEF Create
    <3>2. Typed /\ Beginnings
      BY <1>3 DEF Made
    <3>3. Made(n)'
      BY <2>3, <3>1, <3>2, CreateMade
    <3>. QED
      BY <3>3 DEF Inv
  <2>4. ASSUME NEW n \in Makers, CreateRefused(n) PROVE Inv'
    BY <1>3, <2>1, <2>4, RefusedMade
  <2>5. ASSUME NEW n \in Makers,
               \/ WriteHead(n) \/ Grow(n) \/ PutHeader(n) \/ Scram(n) \/ SpecError(n) \/ MakeDies(n)
               \/ Fstat(n) \/ Open(n) \/ OpenAborts(n) \/ Kill(n)
        PROVE  Inv'
    BY <1>3, <2>1, <2>5, MakerNext
  <2>6. ASSUME NEW u \in Users,
               \/ Start(u) \/ Prepare(u) \/ Learn(u) \/ Save(u) \/ Close(u) \/ UserDies(u)
               \/ Fstat(u) \/ Open(u) \/ OpenAborts(u) \/ Kill(u)
        PROVE  Inv'
    BY <1>3, <2>1, <2>6, UserNext
  <2>. QED
    BY <2>2, <2>3, <2>4, <2>5, <2>6 DEF Next, Procs
<1>. QED
  BY <1>1, <1>2, <1>3 DEF Inv

(***************************************************************************)
(* Unless a file is clobbered under a process, every copy of its layers    *)
(* (Cortex::prepare) is of one make, the file does not open only amid a    *)
(* create or a push, of a make that runs or was killed there, and a make   *)
(* that is done leaves its whole spec, scrammed: for any number of makes   *)
(* and users, any spec, and any kills.                                     *)
(***************************************************************************)
THEOREM MakesWholeChains == Spec => []WholeChains
<1>. QED
  BY InitInv, StepInv, Means, PTL DEF Spec
=============================================================================
