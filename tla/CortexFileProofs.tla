-------------------------- MODULE CortexFileProofs --------------------------
(***************************************************************************)
(* Proofs about CortexFile: for every number of cortexes, layers and       *)
(* channels, any layers of conv and any freezes, every repint and          *)
(* stoprounds, any readers and tools, and any kills.  What the code        *)
(* promises of weights it promises to one learner at a time, and as long   *)
(* as nobody scrams them; the count of rounds is kept with any learners    *)
(* and with resets.                                                        *)
(***************************************************************************)
EXTENDS CortexFile, Integers, FiniteSetTheorems, TLAPS

OneLearner == \A l, m \in Learners : l = m
NoReset == "reset" \notin Commands

Pcs == {"off", "open", "prepare", "check", "learn", "count", "head", "copy",
        "run", "load", "scram"}
Steps == SUBSET (1..MaxLearned)
Value(w) == IF w \in Weights THEN Steps ELSE Nat
Image == {m \in [Parts -> Nat \cup Steps] : \A w \in Parts : m[w] \in Value(w)}
Process ==
    [pc : Pcs, at : Cortexes, left : SUBSET Parts, prep : BOOLEAN,
     mem : [Cortexes -> Image],
     rounds : [Cortexes -> Nat], fresh : [Cortexes -> Nat]]

(***************************************************************************)
(* Process s has copied part w of cortex p into its kbase since it was     *)
(* started; and out of it since its save began; and that part is still to  *)
(* be copied while the header of its layer has been.                       *)
(***************************************************************************)
Passed(s, p, w) == p < s.at \/ (p = s.at /\ w \notin s.left)
Loaded(s, p, w) ==
    IF s.pc = "prepare" THEN Passed(s, p, w) ELSE s.pc \notin {"off", "open"} /\ s.prep
Saved(s, p, w) ==
    \/ s.pc = "copy" /\ Passed(s, p, w)
    \/ s.pc \in {"count", "head"} /\ p < s.at
Behind(s, p, w) ==
    s.pc = "copy" /\ s.at = p /\ <<w[1], 0>> \notin s.left /\ w \in s.left

\* what Frozen says of the files f
FrozenIn(f, p, w) == <<p, w[1]>> \in Conv /\ w[2] <= f[p].part[<<w[1], 0>>]

(***************************************************************************)
(* Where a process may be, and what is true of its place in a walk.        *)
(***************************************************************************)
LearnerPcs == {"off", "open", "prepare", "check", "learn", "count", "head", "copy"}
ReaderPcs == {"off", "open", "prepare", "run", "load"}
ToolPcs == {"off", "count", "head", "copy"}   \* "scram" is only for reset

Placed(q, s) ==
    /\ s.pc \notin {"prepare", "copy", "load", "scram"} => s.left = Parts
    /\ s.pc \in {"check", "learn", "run"} => s.at = 1
    /\ s.pc \in {"check", "learn", "run", "load"} => s.prep
    /\ q \in Learners => s.pc \in LearnerPcs /\ (s.pc \in {"count", "head", "copy"} => s.prep)
    /\ q \in Readers => s.pc \in ReaderPcs
    /\ q \in Tools => s.pc \in ToolPcs /\ ~s.prep

(***************************************************************************)
(* A learner has in memory what the files have and perhaps more, but not   *)
(* of a channel that the file says is frozen, except between the header    *)
(* and the weights of a save, nor of one it has just saved; a reader has   *)
(* no more than the files.                                                 *)
(***************************************************************************)
Holds(f, s, p, w) ==
    /\ Loaded(s, p, w) =>
          /\ f[p].part[w] \subseteq s.mem[p][w]
          /\ FrozenIn(f, p, w) /\ ~Behind(s, p, w) => s.mem[p][w] = f[p].part[w]
    /\ Saved(s, p, w) => s.mem[p][w] = f[p].part[w]
Follows(f, s, p, w) == Loaded(s, p, w) => s.mem[p][w] \subseteq f[p].part[w]

Fits(f, q, s) ==
    /\ s \in Process
    /\ Placed(q, s)
    /\ q \in Learners => \A p \in Cortexes, w \in Weights : Holds(f, s, p, w)
    /\ q \in Readers => \A p \in Cortexes, w \in Weights : Follows(f, s, p, w)

Files(f) == f \in [Cortexes -> [rounds : Nat, part : Image]]

Inv ==
    /\ Files(file)
    /\ self \in [Procs -> Process]
    /\ learned \in 0..MaxLearned
    /\ kept \in [Cortexes -> [Weights -> Steps]]
    /\ \A q \in Procs : Fits(file, q, self[q])
    /\ SavesKept

-----------------------------------------------------------------------------
LEMMA Members ==
    /\ 1 \in Cortexes /\ N \in Cortexes /\ N \in Nat
    /\ \A p \in Cortexes : p \in Nat /\ p <= N /\ ~(p < 1)
    /\ \A p \in Cortexes : IF p < N THEN p + 1 \in Cortexes ELSE p = N
    /\ Learners \subseteq Procs /\ Readers \subseteq Procs /\ Tools \subseteq Procs
    /\ Learners \cap Readers = {} /\ Learners \cap Tools = {} /\ Readers \cap Tools = {}
BY CortexFileAssumption DEF Cortexes, Procs

LEMMA PartsAre ==
    /\ Weights \subseteq Parts
    /\ \A w \in Weights : <<w[1], 0>> \in Parts /\ w[2] \in Nat /\ w[2] # 0
    /\ \A y \in Layers : <<y, 0>> \in Parts \ Weights
BY CortexFileAssumption DEF Parts, Weights, Layers

(***************************************************************************)
(* One part of an image is stored.                                         *)
(***************************************************************************)
LEMMA ImagePut ==
    ASSUME NEW m \in Image, NEW w, NEW e, w \in Parts => e \in Value(w),
           NEW g, g = [m EXCEPT ![w] = e]
    PROVE  g \in Image
<1>1. m \in [Parts -> Nat \cup Steps] /\ \A v \in Parts : m[v] \in Value(v)
  BY DEF Image
<1>2. \A v \in Parts : Value(v) \subseteq Nat \cup Steps
  BY DEF Value
<1>3. /\ g = [v \in Parts |-> g[v]]
      /\ \A v \in Parts : g[v] = IF v = w THEN e ELSE m[v]
  BY <1>1
<1>4. \A v \in Parts : g[v] \in Value(v)
  BY <1>1, <1>3
<1>. QED
  BY <1>2, <1>3, <1>4 DEF Image

LEMMA ImageHas ==
    ASSUME NEW m \in Image, NEW w \in Parts
    PROVE  m[w] \in Value(w) /\ (w \in Weights => m[w] \in Steps)
BY DEF Image, Value

LEMMA OffFits ==
    /\ Off \in Process /\ Off.pc = "off" /\ Off.at = 1 /\ Off.left = Parts /\ Off.prep = FALSE
    /\ \A f, q : Fits(f, q, Off)
<1>1. Nothing \in Image
  <2>1. \A w \in Parts : Nothing[w] \in Value(w) /\ Value(w) \subseteq Nat \cup Steps
    BY DEF Nothing, Value, Steps
  <2>. QED
    BY <2>1 DEF Nothing, Image
<1>2. /\ Off \in Process /\ Off.pc = "off" /\ Off.at = 1 /\ Off.left = Parts /\ Off.prep = FALSE
  BY <1>1, Members DEF Off, Process, Pcs
<1>3. \A p, w : ~Loaded(Off, p, w) /\ ~Saved(Off, p, w)
  BY <1>2 DEF Loaded, Saved
<1>4. \A q : Placed(q, Off)
  BY <1>2 DEF Placed, LearnerPcs, ReaderPcs, ToolPcs
<1>. HIDE DEF Off
<1>. QED
  BY <1>2, <1>3, <1>4 DEF Fits, Holds, Follows

(***************************************************************************)
(* One part of a copy further.                                             *)
(***************************************************************************)
LEMMA CopiedIs ==
    ASSUME NEW s \in Process, NEW w \in s.left, NEW again \in Pcs, NEW out \in Pcs,
           NEW c, c = Copied(s, w, again, out)
    PROVE  /\ c \in Process /\ c.mem = s.mem /\ c.prep = s.prep /\ c.fresh = s.fresh
           /\ \/ s.left # {w} /\ c.pc = s.pc /\ c.at = s.at /\ c.left = s.left \ {w}
              \/ s.left = {w} /\ s.at < N /\ c.pc = again /\ c.at = s.at + 1 /\ c.left = Parts
              \/ s.left = {w} /\ s.at = N /\ c.pc = out /\ c.at = 1 /\ c.left = Parts
<1>1. s.at \in Cortexes /\ s.left \subseteq Parts
  BY DEF Process
<1>2. CASE s.left # {w}
  <2>1. c = [s EXCEPT !.left = s.left \ {w}]
    BY <1>2 DEF Copied
  <2>. QED
    BY <1>1, <1>2, <2>1 DEF Process
<1>3. CASE s.left = {w} /\ s.at < N
  <2>1. c = [s EXCEPT !.left = Parts, !.at = s.at + 1, !.pc = again]
    BY <1>3 DEF Copied
  <2>2. s.at + 1 \in Cortexes
    BY <1>1, <1>3, Members
  <2>. QED
    BY <1>1, <1>3, <2>1, <2>2 DEF Process
<1>4. CASE s.left = {w} /\ ~(s.at < N)
  <2>1. c = [s EXCEPT !.left = Parts, !.at = 1, !.pc = out]
    BY <1>4 DEF Copied
  <2>2. s.at = N
    BY <1>1, <1>4, Members
  <2>. QED
    BY <1>1, <1>4, <2>1, <2>2, Members DEF Process
<1>. QED
  BY <1>2, <1>3, <1>4

-----------------------------------------------------------------------------
(* What the steps do to the invariant. *)

(***************************************************************************)
(* A step of q that stores nothing in a file.                              *)
(***************************************************************************)
LEMMA OneMoves ==
    ASSUME Inv, NEW q \in Procs, NEW s, Fits(file, q, s), Become(q, s),
           learned' \in 0..MaxLearned, UNCHANGED <<file, kept>>
    PROVE  Inv'
<1>1. s \in Process
  BY DEF Fits
<1>2. /\ self' \in [Procs -> Process] /\ self'[q] = s
      /\ \A r \in Procs : r # q => self'[r] = self[r]
  BY <1>1 DEF Inv, Become
<1>3. \A r \in Procs : Fits(file', r, self'[r])
  <2>1. \A r \in Procs : Fits(file, r, self'[r])
    BY <1>2 DEF Inv
  <2>. QED
    BY <2>1
<1>4. SavesKept'
  BY DEF Inv, SavesKept
<1>. QED
  BY <1>2, <1>3, <1>4 DEF Inv, Files

(***************************************************************************)
(* A step that is open to any process that runs.                           *)
(***************************************************************************)
LEMMA OpensKeep ==
    ASSUME Inv, NEW q \in Learners \cup Readers, Start(q) \/ Open(q)
    PROVE  Inv'
<1>1. q \in Procs /\ q \notin Tools
  BY Members
<1>2. CASE Start(q)
  <2>1. PICK s : s = [Off EXCEPT !.pc = "open"]
    OBVIOUS
  <2>2. s \in Process /\ s.pc = "open" /\ s.left = Parts
    BY <2>1, OffFits DEF Process, Pcs
  <2>3. \A p, w : ~Loaded(s, p, w) /\ ~Saved(s, p, w)
    BY <2>2 DEF Loaded, Saved
  <2>4. Placed(q, s)
    BY <1>1, <2>2 DEF Placed, LearnerPcs, ReaderPcs
  <2>5. Fits(file, q, s)
    BY <2>2, <2>3, <2>4 DEF Fits, Holds, Follows
  <2>. QED
    BY <1>1, <1>2, <2>1, <2>5, OneMoves DEF Start, Inv
<1>3. CASE Open(q)
  <2>. DEFINE t == self[q]
  <2>1. t \in Process /\ t.pc = "open" /\ Placed(q, t)
    BY <1>1, <1>3 DEF Open, Inv, Fits
  <2>2. PICK s : s = [t EXCEPT !.rounds[t.at] = file[t.at].rounds,
                               !.at = IF t.at < N THEN t.at + 1 ELSE 1,
                               !.pc = IF t.at < N THEN "open" ELSE "prepare"]
    OBVIOUS
  <2>3. Become(q, s) /\ UNCHANGED <<file, learned, kept>>
    BY <1>3, <2>2 DEF Open
  <2>. HIDE DEF t
  <2>4. PICK r : r = [t.rounds EXCEPT ![t.at] = file[t.at].rounds]
    OBVIOUS
  <2>5. s = [t EXCEPT !.rounds = r,
                      !.at = IF t.at < N THEN t.at + 1 ELSE 1,
                      !.pc = IF t.at < N THEN "open" ELSE "prepare"]
    BY <2>2, <2>4
  <2>6. r \in [Cortexes -> Nat]
    BY <2>1, <2>4 DEF Process, Inv, Files
  <2>7. t.at \in Cortexes /\ (IF t.at < N THEN t.at + 1 ELSE 1) \in Cortexes
    BY <2>1, Members DEF Process
  <2>8. /\ s \in Process /\ s.pc \in {"open", "prepare"} /\ s.left = Parts
        /\ s.pc = "prepare" => s.at = 1
    BY <2>1, <2>5, <2>6, <2>7 DEF Process, Pcs, Placed
  <2>9. \A p \in Cortexes, w \in Weights : ~Loaded(s, p, w) /\ ~Saved(s, p, w)
    BY <2>8, Members, PartsAre DEF Loaded, Saved, Passed
  <2>10. Placed(q, s)
    BY <1>1, <2>8 DEF Placed, LearnerPcs, ReaderPcs
  <2>11. Fits(file, q, s)
    BY <2>8, <2>9, <2>10 DEF Fits, Holds, Follows
  <2>. QED
    BY <1>1, <2>3, <2>11, OneMoves DEF Inv
<1>. QED
  BY <1>2, <1>3

(***************************************************************************)
(* One part of enk: the part in memory is that of the file.                *)
(***************************************************************************)
LEMMA TakenIs ==
    ASSUME Files(file), NEW s \in Process, NEW w \in Parts, NEW t, t = Taken(s, w)
    PROVE  /\ t \in Process /\ t.pc = s.pc /\ t.at = s.at /\ t.left = s.left /\ t.prep = s.prep
           /\ t.fresh = s.fresh
           /\ t.mem[s.at][w] = file[s.at].part[w]
           /\ \A p \in Cortexes, v \in Parts :
                 p # s.at \/ v # w => t.mem[p][v] = s.mem[p][v]
<1>1. s.at \in Cortexes /\ s.mem \in [Cortexes -> Image]
  BY DEF Process
<1>2. PICK e : e = file[s.at].part[w]
  OBVIOUS
<1>3. e \in Value(w)
  <2>1. file[s.at].part \in Image
    BY <1>1 DEF Files
  <2>. QED
    BY <1>2, <2>1, ImageHas
<1>4. PICK g : g = [s.mem[s.at] EXCEPT ![w] = e]
  OBVIOUS
<1>5. g \in Image /\ g[w] = e /\ \A v \in Parts : v # w => g[v] = s.mem[s.at][v]
  <2>1. s.mem[s.at] \in Image
    BY <1>1
  <2>2. /\ g \in Image
        /\ \A v \in Parts : g[v] = IF v = w THEN e ELSE s.mem[s.at][v]
    <3>1. w \in Parts => e \in Value(w)
      BY <1>3
    <3>2. g \in Image
      BY <1>4, <2>1, <3>1, ImagePut
    <3>3. \A v \in Parts : g[v] = IF v = w THEN e ELSE s.mem[s.at][v]
      BY <1>4, <2>1 DEF Image
    <3>. QED
      BY <3>2, <3>3
  <2>. QED
    BY <2>2
<1>6. PICK m : m = [s.mem EXCEPT ![s.at] = g]
  OBVIOUS
<1>7. t = [s EXCEPT !.mem = m]
  BY <1>2, <1>4, <1>6, Zenon DEF Taken
<1>8. /\ m \in [Cortexes -> Image] /\ m[s.at] = g
      /\ \A p \in Cortexes : p # s.at => m[p] = s.mem[p]
  BY <1>1, <1>5, <1>6
<1>9. /\ t \in Process /\ t.pc = s.pc /\ t.at = s.at /\ t.left = s.left /\ t.prep = s.prep
      /\ t.mem = m /\ t.fresh = s.fresh
  <2>1. m \in [Cortexes -> Image]
    BY <1>8
  <2>. QED
    BY <1>7, <2>1 DEF Process
<1>. QED
  BY <1>2, <1>5, <1>8, <1>9

LEMMA TakesKeep ==
    ASSUME Inv, NEW q \in Learners \cup Readers, NEW w \in Parts,
           Prepare(q, w) \/ (q \in Readers /\ LoadPart(q, w))
    PROVE  Inv'
<1>1. q \in Procs /\ q \notin Tools /\ ~(q \in Learners /\ q \in Readers)
  BY Members
<1>2. PICK s \in Process : s = self[q] /\ Fits(file, q, s)
  BY <1>1 DEF Inv
<1>3. PICK t : t = Taken(s, w)
  OBVIOUS
<1>4. /\ t \in Process /\ t.pc = s.pc /\ t.at = s.at /\ t.left = s.left /\ t.prep = s.prep
      /\ t.mem[s.at][w] = file[s.at].part[w]
      /\ \A p \in Cortexes, v \in Parts : p # s.at \/ v # w => t.mem[p][v] = s.mem[p][v]
  BY <1>3, TakenIs DEF Inv
<1>5. PICK out \in Pcs : out = IF q \in Learners THEN "check" ELSE "run"
  BY DEF Pcs
<1>6. PICK again \in {"prepare", "load"} :
          /\ s.pc = again /\ w \in s.left
          /\ again = "load" => q \in Readers
          /\ Become(q, [Copied(t, w, again, out) EXCEPT !.prep = TRUE])
          /\ UNCHANGED <<file, learned, kept>>
  <2>1. CASE Prepare(q, w)
    BY <1>2, <1>3, <1>5, <2>1 DEF Prepare
  <2>2. CASE q \in Readers /\ LoadPart(q, w)
    <3>1. s.pc = "load" /\ w \in s.left /\ Become(q, Copied(t, w, "load", "run"))
          /\ UNCHANGED <<file, learned, kept>>
      BY <1>2, <1>3, <2>2 DEF LoadPart
    <3>2. s.prep
      BY <1>2, <3>1 DEF Fits, Placed
    <3>3. PICK c : c = Copied(t, w, "load", "run")
      OBVIOUS
    <3>4. c \in Process /\ c.prep = s.prep
      <4>1. t \in Process /\ w \in t.left /\ "load" \in Pcs /\ "run" \in Pcs
        BY <1>4, <3>1 DEF Pcs
      <4>. QED
        BY <1>4, <3>3, <4>1, CopiedIs
    <3>5. [c EXCEPT !.prep = TRUE] = c
      <4>1. c.prep = TRUE
        BY <3>2, <3>4 DEF Process
      <4>. QED
        BY <3>4, <4>1 DEF Process
    <3>. QED
      BY <1>1, <1>5, <2>2, <3>1, <3>3, <3>5
  <2>. QED
    BY <2>1, <2>2
<1>7. PICK c : c = Copied(t, w, again, out)
  OBVIOUS
<1>8. /\ c \in Process /\ c.mem = t.mem
      /\ \/ s.left # {w} /\ c.pc = s.pc /\ c.at = s.at /\ c.left = s.left \ {w}
         \/ s.left = {w} /\ s.at < N /\ c.pc = again /\ c.at = s.at + 1 /\ c.left = Parts
         \/ s.left = {w} /\ s.at = N /\ c.pc = out /\ c.at = 1 /\ c.left = Parts
  <2>1. t \in Process /\ w \in t.left /\ again \in Pcs
    BY <1>4, <1>6 DEF Pcs
  <2>2. /\ c \in Process /\ c.mem = t.mem
        /\ \/ t.left # {w} /\ c.pc = t.pc /\ c.at = t.at /\ c.left = t.left \ {w}
           \/ t.left = {w} /\ t.at < N /\ c.pc = again /\ c.at = t.at + 1 /\ c.left = Parts
           \/ t.left = {w} /\ t.at = N /\ c.pc = out /\ c.at = 1 /\ c.left = Parts
    BY <1>7, <2>1, CopiedIs
  <2>. QED
    BY <1>4, <2>2
<1>9. PICK d : d = [c EXCEPT !.prep = TRUE]
  OBVIOUS
<1>10. /\ d \in Process /\ d.mem = t.mem /\ d.prep = TRUE
       /\ \/ s.left # {w} /\ d.pc = s.pc /\ d.at = s.at /\ d.left = s.left \ {w}
          \/ s.left = {w} /\ s.at < N /\ d.pc = again /\ d.at = s.at + 1 /\ d.left = Parts
          \/ s.left = {w} /\ s.at = N /\ d.pc = out /\ d.at = 1 /\ d.left = Parts
  BY <1>8, <1>9 DEF Process
<1>11. Become(q, d)
  BY <1>6, <1>7, <1>9
<1>12. Placed(q, d)
  BY <1>1, <1>5, <1>6, <1>10 DEF Placed, LearnerPcs, ReaderPcs
<1>13. ASSUME NEW p \in Cortexes, NEW v \in Weights
       PROVE  /\ ~Saved(d, p, v)
              /\ Loaded(d, p, v) => (p = s.at /\ v = w) \/ Loaded(s, p, v)
  <2>1. d.pc \in {"prepare", "load", "check", "run"}
    BY <1>5, <1>6, <1>10
  <2>2. ~Saved(d, p, v)
    BY <2>1 DEF Saved
  <2>3. again = "load" => Loaded(s, p, v)
    BY <1>2, <1>6 DEF Loaded, Fits, Placed
  <2>4. again = "prepare" => (Loaded(d, p, v) => (p = s.at /\ v = w) \/ Passed(s, p, v))
    <3>1. s.at \in Nat /\ p \in Nat /\ p <= N /\ s.at <= N /\ N \in Nat
      BY Members DEF Process
    <3>. QED
      BY <1>5, <1>6, <1>10, <3>1, PartsAre DEF Loaded, Passed
  <2>. QED
    BY <1>6, <2>2, <2>3, <2>4 DEF Loaded
<1>14. q \in Learners => \A p \in Cortexes, v \in Weights : Holds(file, d, p, v)
  <2>. SUFFICES ASSUME q \in Learners, NEW p \in Cortexes, NEW v \in Weights
                PROVE  Holds(file, d, p, v)
    OBVIOUS
  <2>1. Holds(file, s, p, v)
    BY <1>2 DEF Fits
  <2>2. p = s.at /\ v = w => d.mem[p][v] = file[p].part[v]
    BY <1>4, <1>10
  <2>3. p # s.at \/ v # w => d.mem[p][v] = s.mem[p][v]
    BY <1>4, <1>10, PartsAre
  <2>4. ~Behind(s, p, v)
    BY <1>6 DEF Behind
  <2>. QED
    BY <1>13, <2>1, <2>2, <2>3, <2>4 DEF Holds
<1>15. q \in Readers => \A p \in Cortexes, v \in Weights : Follows(file, d, p, v)
  <2>. SUFFICES ASSUME q \in Readers, NEW p \in Cortexes, NEW v \in Weights
                PROVE  Follows(file, d, p, v)
    OBVIOUS
  <2>1. Follows(file, s, p, v)
    BY <1>2 DEF Fits
  <2>2. p = s.at /\ v = w => d.mem[p][v] = file[p].part[v]
    BY <1>4, <1>10
  <2>3. p # s.at \/ v # w => d.mem[p][v] = s.mem[p][v]
    BY <1>4, <1>10, PartsAre
  <2>. QED
    BY <1>13, <2>1, <2>2, <2>3 DEF Follows
<1>16. Fits(file, q, d)
  BY <1>10, <1>12, <1>14, <1>15 DEF Fits
<1>. QED
  BY <1>1, <1>6, <1>11, <1>16, OneMoves DEF Inv

LEMMA TrainedImage ==
    ASSUME NEW s \in Process, NEW p \in Cortexes, NEW n \in 1..MaxLearned
    PROVE  [w \in Parts |-> Trained(s, p, w, n)] \in Image
<1>1. ASSUME NEW w \in Parts PROVE Trained(s, p, w, n) \in Value(w)
  <2>1. s.mem[p] \in Image
    BY DEF Process
  <2>2. s.mem[p][w] \in Value(w)
    BY <2>1, ImageHas
  <2>. QED
    BY <2>2 DEF Trained, Value, Steps
<1>2. \A w \in Parts : Value(w) \subseteq Nat \cup Steps
  BY DEF Value
<1>. QED
  BY <1>1, <1>2 DEF Image

(***************************************************************************)
(* learnfunc: the weights grow, but not those that are frozen in a file.   *)
(***************************************************************************)
LEMMA LearnKeeps ==
    ASSUME Inv, NEW l \in Learners, Check(l) \/ Learn(l)
    PROVE  Inv'
<1>1. l \in Procs /\ l \notin Readers /\ l \notin Tools
  BY Members
<1>2. PICK s \in Process : s = self[l] /\ Fits(file, l, s)
  BY <1>1 DEF Inv
<1>3. CASE Check(l)
  <2>1. s.pc = "check" /\ UNCHANGED <<file, learned, kept>>
    BY <1>2, <1>3 DEF Check
  <2>2. PICK t : t = [s EXCEPT !.pc = "learn"]
    OBVIOUS
  <2>3. Become(l, t) \/ Become(l, Off)
    BY <1>2, <1>3, <2>2 DEF Check
  <2>4. /\ t \in Process /\ t.pc = "learn" /\ t.at = s.at /\ t.left = s.left
        /\ t.prep = s.prep /\ t.mem = s.mem
    BY <2>2 DEF Process, Pcs
  <2>5. Placed(l, t)
    BY <1>1, <1>2, <2>1, <2>4 DEF Fits, Placed, LearnerPcs
  <2>6. \A p \in Cortexes, w \in Weights : Holds(file, t, p, w)
    BY <1>2, <2>1, <2>4 DEF Fits, Holds, Loaded, Saved, Behind
  <2>7. Fits(file, l, t)
    BY <1>1, <2>4, <2>5, <2>6 DEF Fits
  <2>. QED
    BY <1>1, <2>1, <2>3, <2>7, OneMoves, OffFits DEF Inv
<1>4. CASE Learn(l)
  <2>1. /\ s.pc = "learn" /\ learned < MaxLearned /\ learned' = learned + 1
        /\ UNCHANGED <<file, kept>>
    BY <1>2, <1>4 DEF Learn
  <2>2. learned + 1 \in 1..MaxLearned /\ learned' \in 0..MaxLearned
    BY <2>1, CortexFileAssumption DEF Inv
  <2>3. PICK m : m = [p \in Cortexes |-> [w \in Parts |-> Trained(s, p, w, learned + 1)]]
    OBVIOUS
  <2>4. PICK r : r = [p \in Cortexes |-> s.rounds[p] + 1]
    OBVIOUS
  <2>5. PICK f : f = [p \in Cortexes |-> s.fresh[p] + 1]
    OBVIOUS
  <2>6. PICK pc \in {"count", "learn"} :
            pc = IF SaveDue(s.rounds[N] + 1) THEN "count" ELSE "learn"
    OBVIOUS
  <2>7. PICK t : t = [s EXCEPT !.mem = m, !.rounds = r, !.fresh = f, !.pc = pc]
    OBVIOUS
  <2>8. Become(l, t)
    BY <1>2, <1>4, <2>3, <2>4, <2>5, <2>6, <2>7, Zenon DEF Learn
  <2>9. ASSUME NEW p \in Cortexes, NEW w \in Weights
        PROVE  /\ s.mem[p][w] \subseteq Trained(s, p, w, learned + 1)
               /\ FrozenIn(file, p, w) => Trained(s, p, w, learned + 1) = s.mem[p][w]
    BY DEF Trained, Frozen, FrozenIn
  <2>10. m \in [Cortexes -> Image]
    <3>1. \A p \in Cortexes : [w \in Parts |-> Trained(s, p, w, learned + 1)] \in Image
      BY <2>2, TrainedImage
    <3>. QED
      BY <2>3, <3>1
  <2>11. r \in [Cortexes -> Nat] /\ f \in [Cortexes -> Nat]
    BY <2>4, <2>5 DEF Process
  <2>12. /\ t \in Process /\ t.pc = pc /\ t.at = s.at /\ t.left = s.left
         /\ t.prep = s.prep /\ t.mem = m
    BY <2>7, <2>10, <2>11 DEF Process, Pcs
  <2>13. s.at = 1 /\ s.left = Parts /\ s.prep
    BY <1>2, <2>1 DEF Fits, Placed
  <2>14. Placed(l, t)
    BY <1>1, <2>12, <2>13 DEF Placed, LearnerPcs
  <2>15. ASSUME NEW p \in Cortexes, NEW w \in Weights PROVE Holds(file, t, p, w)
    <3>1. Holds(file, s, p, w) /\ Loaded(s, p, w)
      BY <1>1, <1>2, <2>1, <2>13 DEF Fits, Loaded
    <3>2. ~Saved(t, p, w) /\ ~Behind(s, p, w)
      BY <2>1, <2>12, <2>13, Members DEF Saved, Behind
    <3>3. t.mem[p][w] = Trained(s, p, w, learned + 1)
      BY <2>3, <2>12, PartsAre
    <3>. QED
      BY <2>9, <3>1, <3>2, <3>3 DEF Holds
  <2>16. Fits(file, l, t)
    BY <1>1, <2>12, <2>14, <2>15 DEF Fits
  <2>. QED
    BY <1>1, <2>1, <2>2, <2>8, <2>16, OneMoves
<1>. QED
  BY <1>3, <1>4

(***************************************************************************)
(* A file's headers change, and in it no weights nor, except from frozen   *)
(* to not, what is frozen.                                                 *)
(***************************************************************************)
Thawed(f, g) ==
    /\ Files(g)
    /\ \A p \in Cortexes, w \in Weights :
          /\ g[p].part[w] = f[p].part[w]
          /\ FrozenIn(g, p, w) => FrozenIn(f, p, w)

LEMMA HeaderMoves ==
    ASSUME Inv, NEW q \in Procs, NEW s, Fits(file, q, s), Become(q, s),
           Thawed(file, file'), UNCHANGED <<learned, kept>>
    PROVE  Inv'
<1>1. \A r \in Procs : \A t : Fits(file, r, t) => Fits(file', r, t)
  BY DEF Thawed, Fits, Holds, Follows
<1>2. /\ self' \in [Procs -> Process] /\ self'[q] = s
      /\ \A r \in Procs : r # q => self'[r] = self[r]
  BY DEF Inv, Become, Fits
<1>3. \A r \in Procs : Fits(file', r, self'[r])
  BY <1>1, <1>2 DEF Inv
<1>4. SavesKept'
  BY DEF Inv, SavesKept, Thawed
<1>. QED
  BY <1>2, <1>3, <1>4 DEF Inv, Files, Thawed

LEMMA SameFile == Inv /\ UNCHANGED file => Thawed(file, file')
BY DEF Thawed, Inv, Files

LEMMA SaveHeaderKeeps ==
    ASSUME Inv, NEW q \in Learners \cup Tools, SaveCount(q) \/ SaveHead(q)
    PROVE  Inv' /\ Thawed(file, file')
<1>1. q \in Procs /\ q \notin Readers
  BY Members
<1>2. PICK s \in Process : s = self[q] /\ Fits(file, q, s)
  BY <1>1 DEF Inv
<1>3. s.at \in Cortexes
  BY DEF Process
<1>4. CASE SaveCount(q)
  <2>1. PICK n \in Nat : n = file[s.at].rounds + s.fresh[s.at]
    BY <1>3 DEF Inv, Files, Process
  <2>2. PICK r : r = [s.rounds EXCEPT ![s.at] = n]
    OBVIOUS
  <2>3. PICK f : f = [s.fresh EXCEPT ![s.at] = 0]
    OBVIOUS
  <2>4. r \in [Cortexes -> Nat] /\ f \in [Cortexes -> Nat]
    BY <2>2, <2>3 DEF Process
  <2>5. PICK t : t = [s EXCEPT !.rounds = r, !.fresh = f, !.pc = "head"]
    OBVIOUS
  <2>6. s.pc = "count" /\ Become(q, t) /\ UNCHANGED <<file, learned, kept>>
    BY <1>2, <1>4, <2>1, <2>2, <2>3, <2>5, Zenon DEF SaveCount
  <2>7. /\ t \in Process /\ t.pc = "head" /\ t.at = s.at /\ t.left = s.left
        /\ t.prep = s.prep /\ t.mem = s.mem
    BY <2>4, <2>5 DEF Process, Pcs
  <2>8. Placed(q, t)
    BY <1>1, <1>2, <2>6, <2>7 DEF Fits, Placed, LearnerPcs, ToolPcs
  <2>9. q \in Learners => \A p \in Cortexes, w \in Weights : Holds(file, t, p, w)
    BY <1>2, <2>6, <2>7 DEF Fits, Holds, Loaded, Saved, Behind
  <2>10. Fits(file, q, t)
    BY <1>1, <2>7, <2>8, <2>9 DEF Fits
  <2>. QED
    BY <1>1, <2>6, <2>10, OneMoves, SameFile DEF Inv
<1>5. CASE SaveHead(q)
  <2>1. PICK t : t = [s EXCEPT !.pc = "copy"]
    OBVIOUS
  <2>2. PICK n \in Nat : n = s.rounds[s.at]
    BY <1>3 DEF Process
  <2>3. /\ s.pc = "head" /\ Become(q, t) /\ UNCHANGED <<learned, kept>>
        /\ file' = [file EXCEPT ![s.at] = [file[s.at] EXCEPT !.rounds = n]]
    BY <1>2, <1>5, <2>1, <2>2 DEF SaveHead
  <2>4. Thawed(file, file')
    <3>1. file[s.at] \in [rounds : Nat, part : Image]
      BY <1>3 DEF Inv, Files
    <3>2. PICK h : h = [file[s.at] EXCEPT !.rounds = n]
      OBVIOUS
    <3>3. h \in [rounds : Nat, part : Image] /\ h.part = file[s.at].part
      BY <3>1, <3>2
    <3>4. /\ Files(file')
          /\ \A p \in Cortexes : file'[p].part = file[p].part
      BY <2>3, <3>2, <3>3 DEF Inv, Files
    <3>. QED
      BY <3>4 DEF Thawed, FrozenIn
  <2>5. /\ t \in Process /\ t.pc = "copy" /\ t.at = s.at /\ t.left = s.left
        /\ t.prep = s.prep /\ t.mem = s.mem
    BY <2>1 DEF Process, Pcs
  <2>6. s.left = Parts
    BY <1>2, <2>3 DEF Fits, Placed
  <2>7. Placed(q, t)
    BY <1>1, <1>2, <2>3, <2>5 DEF Fits, Placed, LearnerPcs, ToolPcs
  <2>8. q \in Learners => \A p \in Cortexes, w \in Weights : Holds(file, t, p, w)
    <3>. SUFFICES ASSUME q \in Learners, NEW p \in Cortexes, NEW w \in Weights
                  PROVE  Holds(file, t, p, w)
      OBVIOUS
    <3>1. Holds(file, s, p, w)
      BY <1>2 DEF Fits
    <3>2. ~Behind(s, p, w) /\ ~Behind(t, p, w)
      BY <2>3, <2>5, <2>6, PartsAre DEF Behind
    <3>3. (Loaded(t, p, w) => Loaded(s, p, w)) /\ (Saved(t, p, w) => Saved(s, p, w))
      BY <2>3, <2>5, <2>6, PartsAre DEF Loaded, Saved, Passed
    <3>. QED
      BY <2>5, <3>1, <3>2, <3>3 DEF Holds
  <2>9. Fits(file, q, t)
    BY <1>1, <2>5, <2>7, <2>8 DEF Fits
  <2>. QED
    BY <1>1, <2>3, <2>4, <2>9, HeaderMoves
<1>. QED
  BY <1>4, <1>5

(***************************************************************************)
(* One part of dek: the part in the file becomes that in memory; weights   *)
(* in memory have all that the file had.                                   *)
(***************************************************************************)
LEMMA SavePartKeeps ==
    ASSUME Inv, OneLearner, NEW l \in Learners, NEW w \in Parts, SavePart(l, w)
    PROVE  /\ Inv'
           /\ \A p \in Cortexes, v \in Weights : file[p].part[v] \subseteq file'[p].part[v]
           /\ \A q \in Procs : q # l => self'[q] = self[q]
<1>1. l \in Procs /\ l \notin Readers /\ l \notin Tools
  BY Members
<1>2. PICK s \in Process : s = self[l] /\ Fits(file, l, s)
  BY <1>1 DEF Inv
<1>3. PICK e : e = s.mem[s.at][w]
  OBVIOUS
<1>4. PICK c : c = Copied(s, w, "count", "check")
  OBVIOUS
<1>5. /\ s.pc = "copy" /\ s.prep /\ w \in s.left
      /\ file' = [file EXCEPT ![s.at] = [file[s.at] EXCEPT !.part = [file[s.at].part EXCEPT ![w] = e]]]
      /\ Become(l, c)
      /\ learned' = learned
  BY <1>2, <1>3, <1>4, Zenon DEF SavePart
<1>6. kept' = IF s.left = {w} /\ s.at = N
              THEN [p \in Cortexes |-> [v \in Weights |-> s.mem[p][v]]]
              ELSE kept
  BY <1>2 DEF SavePart
<1>7. /\ Files(file')
      /\ file'[s.at].part[w] = e
      /\ \A p \in Cortexes, v \in Parts :
            p # s.at \/ v # w => file'[p].part[v] = file[p].part[v]
  <2>1. s.at \in Cortexes /\ file[s.at] \in [rounds : Nat, part : Image] /\ s.mem[s.at] \in Image
    BY DEF Process, Inv, Files
  <2>2. PICK g : g = [file[s.at].part EXCEPT ![w] = e]
    OBVIOUS
  <2>3. /\ g \in Image /\ g[w] = e
        /\ \A v \in Parts : v # w => g[v] = file[s.at].part[v]
    <3>1. (w \in Parts => e \in Value(w)) /\ file[s.at].part \in Image
      BY <1>3, <2>1, ImageHas
    <3>2. g \in Image
      BY <2>2, <3>1, ImagePut
    <3>3. \A v \in Parts : g[v] = IF v = w THEN e ELSE file[s.at].part[v]
      BY <2>2, <3>1 DEF Image
    <3>. QED
      BY <3>2, <3>3
  <2>4. PICK h : h = [file[s.at] EXCEPT !.part = g]
    OBVIOUS
  <2>5. h \in [rounds : Nat, part : Image] /\ h.part = g
    BY <2>1, <2>3, <2>4
  <2>6. file' = [file EXCEPT ![s.at] = h]
    BY <1>5, <2>2, <2>4
  <2>7. Files(file') /\ file'[s.at] = h /\ \A p \in Cortexes : p # s.at => file'[p] = file[p]
    BY <2>1, <2>5, <2>6 DEF Inv, Files
  <2>. QED
    BY <2>3, <2>5, <2>7
<1>8. \A p \in Cortexes, v \in Weights : Holds(file, s, p, v) /\ Loaded(s, p, v)
  BY <1>2, <1>5 DEF Fits, Loaded
<1>9. \A p \in Cortexes, v \in Weights :
          /\ file[p].part[v] \subseteq file'[p].part[v]
          /\ file'[p].part[v] \subseteq s.mem[p][v]
  BY <1>3, <1>7, <1>8, PartsAre DEF Holds
<1>10. /\ c \in Process /\ c.mem = s.mem /\ c.prep = s.prep
       /\ \/ s.left # {w} /\ c.pc = s.pc /\ c.at = s.at /\ c.left = s.left \ {w}
          \/ s.left = {w} /\ s.at < N /\ c.pc = "count" /\ c.at = s.at + 1 /\ c.left = Parts
          \/ s.left = {w} /\ s.at = N /\ c.pc = "check" /\ c.at = 1 /\ c.left = Parts
  <2>1. "count" \in Pcs /\ "check" \in Pcs
    BY DEF Pcs
  <2>2. w \in s.left
    BY <1>5
  <2>. QED
    BY <1>4, <2>1, <2>2, CopiedIs
<1>11. Placed(l, c)
  BY <1>1, <1>5, <1>10 DEF Placed, LearnerPcs
<1>12. ASSUME NEW p \in Cortexes, NEW v \in Weights PROVE Holds(file', c, p, v)
  <2>1. Holds(file, s, p, v) /\ Loaded(s, p, v)
    BY <1>8
  <2>2. p = s.at /\ v = w => file'[p].part[v] = c.mem[p][v]
    BY <1>3, <1>7, <1>10
  <2>3. p # s.at \/ v # w => file'[p].part[v] = file[p].part[v]
    BY <1>7, PartsAre
  <2>4. /\ Saved(c, p, v) => Saved(s, p, v) \/ (p = s.at /\ v = w)
        /\ Behind(s, p, v) => Behind(c, p, v) \/ v = w
        /\ Behind(s, p, v) => p = s.at
    <3>1. s.at \in Nat /\ p \in Nat /\ p <= N /\ s.at <= N /\ N \in Nat
      BY Members DEF Process
    <3>. QED
      BY <1>5, <1>10, <3>1 DEF Saved, Passed, Behind
  <2>5. FrozenIn(file', p, v) => FrozenIn(file, p, v) \/ (p = s.at /\ w = <<v[1], 0>>)
    BY <1>7, PartsAre DEF FrozenIn
  <2>6. p = s.at /\ w = <<v[1], 0>> => Behind(c, p, v) \/ Saved(s, p, v)
    <3>1. v # <<v[1], 0>>
      BY PartsAre
    <3>. QED
      BY <1>5, <1>10, <3>1 DEF Saved, Passed, Behind
  <2>. QED
    BY <1>9, <1>10, <2>1, <2>2, <2>3, <2>4, <2>5, <2>6 DEF Holds
<1>13. Fits(file', l, c)
  BY <1>1, <1>10, <1>11, <1>12 DEF Fits
<1>14. /\ self' \in [Procs -> Process] /\ self'[l] = c
       /\ \A q \in Procs : q # l => self'[q] = self[q]
  BY <1>1, <1>5, <1>10 DEF Inv, Become
<1>15. ASSUME NEW q \in Procs PROVE Fits(file', q, self'[q])
  <2>1. CASE q = l
    BY <1>13, <1>14, <2>1
  <2>2. CASE q # l
    <3>1. self'[q] = self[q] /\ q \notin Learners /\ Fits(file, q, self[q])
      BY <1>14, <2>2 DEF OneLearner, Inv
    <3>2. \A p \in Cortexes, v \in Weights :
              Follows(file, self[q], p, v) => Follows(file', self[q], p, v)
      BY <1>9 DEF Follows
    <3>. QED
      BY <3>1, <3>2 DEF Fits
  <2>. QED
    BY <2>1, <2>2
<1>16. SavesKept' /\ kept' \in [Cortexes -> [Weights -> Steps]]
  <2>1. CASE s.left = {w} /\ s.at = N
    <3>1. kept' = [p \in Cortexes |-> [v \in Weights |-> s.mem[p][v]]]
      BY <1>6, <2>1
    <3>2. \A p \in Cortexes, v \in Weights :
              file'[p].part[v] = s.mem[p][v] /\ s.mem[p][v] \in Steps
      <4>. SUFFICES ASSUME NEW p \in Cortexes, NEW v \in Weights
                    PROVE  file'[p].part[v] = s.mem[p][v] /\ s.mem[p][v] \in Steps
        OBVIOUS
      <4>1. s.mem[p][v] \in Steps
        <5>1. s.mem[p] \in Image
          BY DEF Process
        <5>. QED
          BY <5>1, ImageHas, PartsAre
      <4>2. Saved(s, p, v) \/ (p = s.at /\ v = w)
        BY <1>5, <2>1, Members DEF Saved, Passed
      <4>3. p = s.at /\ v = w => file'[p].part[v] = s.mem[p][v]
        BY <1>3, <1>7
      <4>4. p # s.at \/ v # w => file'[p].part[v] = file[p].part[v]
        BY <1>7, PartsAre
      <4>5. Saved(s, p, v) => s.mem[p][v] = file[p].part[v]
        BY <1>8 DEF Holds
      <4>. QED
        BY <4>1, <4>2, <4>3, <4>4, <4>5
    <3>. QED
      BY <3>1, <3>2 DEF SavesKept
  <2>2. CASE ~(s.left = {w} /\ s.at = N)
    <3>1. kept' = kept
      BY <1>6, <2>2
    <3>. QED
      BY <1>9, <3>1 DEF Inv, SavesKept
  <2>. QED
    BY <2>1, <2>2
<1>. QED
  BY <1>5, <1>7, <1>9, <1>14, <1>15, <1>16 DEF Inv, Files

LEMMA StopsKeep ==
    ASSUME Inv, NEW q \in Procs,
           SaveNothing(q) \/ Kill(q) \/ (q \in Readers /\ (Finish(q) \/ Reload(q)))
    PROVE  Inv'
<1>1. CASE SaveNothing(q) \/ Kill(q) \/ Finish(q)
  <2>1. Become(q, Off) /\ UNCHANGED <<file, learned, kept>>
    BY <1>1 DEF SaveNothing, Kill, Finish
  <2>. QED
    BY <2>1, OffFits, OneMoves DEF Inv
<1>2. CASE q \in Readers /\ Reload(q)
  <2>1. PICK s \in Process : s = self[q] /\ Fits(file, q, s)
    BY DEF Inv
  <2>2. PICK t : t = [s EXCEPT !.pc = "load"]
    OBVIOUS
  <2>3. s.pc = "run" /\ Become(q, t) /\ UNCHANGED <<file, learned, kept>>
    BY <1>2, <2>1, <2>2 DEF Reload
  <2>4. /\ t \in Process /\ t.pc = "load" /\ t.at = s.at /\ t.left = s.left
        /\ t.prep = s.prep /\ t.mem = s.mem
    BY <2>2 DEF Process, Pcs
  <2>5. q \notin Learners /\ q \notin Tools
    BY <1>2, Members
  <2>6. Placed(q, t)
    BY <2>1, <2>3, <2>4, <2>5 DEF Fits, Placed, ReaderPcs
  <2>7. \A p \in Cortexes, w \in Weights : Follows(file, t, p, w)
    BY <1>2, <2>1, <2>3, <2>4 DEF Fits, Follows, Loaded
  <2>8. Fits(file, q, t)
    BY <2>4, <2>5, <2>6, <2>7 DEF Fits
  <2>. QED
    BY <2>3, <2>8, OneMoves DEF Inv
<1>. QED
  BY <1>1, <1>2

(***************************************************************************)
(* The command unfreeze changes a header and dies in its save; that of     *)
(* reset is not run.                                                       *)
(***************************************************************************)
LEMMA CommandsKeep ==
    ASSUME Inv, NoReset, NEW t \in Tools, NEW p \in Cortexes,
           Reset(t, p) \/ (\E last \in BOOLEAN : Unfreeze(t, p, last)) \/ Scram(t)
    PROVE  Inv' /\ Thawed(file, file')
<1>1. t \in Procs /\ t \notin Learners /\ t \notin Readers
  BY Members
<1>2. ~Reset(t, p) /\ ~Scram(t)
  BY <1>1 DEF NoReset, Reset, Command, Scram, ScramEnd, ScramPart, Inv, Fits, Placed, ToolPcs
<1>3. PICK last \in BOOLEAN : Unfreeze(t, p, last)
  BY <1>2
<1>4. PICK s : s = [Off EXCEPT !.pc = "count", !.at = p]
  OBVIOUS
<1>5. /\ s \in Process /\ s.pc = "count" /\ s.left = Parts /\ s.prep = FALSE
  BY <1>4, OffFits DEF Process, Pcs
<1>6. Fits(file, t, s)
  BY <1>1, <1>5 DEF Fits, Placed, ToolPcs
<1>7. \/ file' = file
      \/ \E w : w \notin Weights /\ file' = [file EXCEPT ![p].part[w] = 0]
  <2>1. \A y : <<y, 0>> \notin Weights
    BY CortexFileAssumption DEF Weights
  <2>. QED
    BY <1>3, <2>1 DEF Unfreeze
<1>8. Thawed(file, file')
  <2>1. CASE file' = file
    BY <2>1, SameFile
  <2>2. CASE \E w : w \notin Weights /\ file' = [file EXCEPT ![p].part[w] = 0]
    <3>1. PICK w : w \notin Weights /\ file' = [file EXCEPT ![p].part[w] = 0]
      BY <2>2
    <3>2. file[p] \in [rounds : Nat, part : Image] /\ 0 \in Value(w)
      BY <3>1 DEF Inv, Files, Value
    <3>3. PICK g : g = [file[p].part EXCEPT ![w] = 0]
      OBVIOUS
    <3>4. /\ g \in Image
          /\ \A v \in Parts : g[v] = IF v = w THEN 0 ELSE file[p].part[v]
      <4>1. file[p].part \in Image /\ (w \in Parts => 0 \in Value(w))
        BY <3>2
      <4>2. g \in Image
        BY <3>3, <4>1, ImagePut
      <4>3. \A v \in Parts : g[v] = IF v = w THEN 0 ELSE file[p].part[v]
        BY <3>3, <4>1 DEF Image
      <4>. QED
        BY <4>2, <4>3
    <3>5. PICK h : h = [file[p] EXCEPT !.part = g]
      OBVIOUS
    <3>6. h \in [rounds : Nat, part : Image] /\ h.part = g
      BY <3>2, <3>4, <3>5
    <3>7. file' = [file EXCEPT ![p] = h]
      BY <3>1, <3>3, <3>5, Zenon
    <3>8. Files(file') /\ file'[p] = h /\ \A r \in Cortexes : r # p => file'[r] = file[r]
      BY <3>6, <3>7 DEF Inv, Files
    <3>9. ASSUME NEW r \in Cortexes, NEW v \in Weights
          PROVE  /\ file'[r].part[v] = file[r].part[v]
                 /\ FrozenIn(file', r, v) => FrozenIn(file, r, v)
      <4>1. v # w /\ v \in Parts /\ <<v[1], 0>> \in Parts /\ v[2] \in Nat /\ v[2] # 0
        BY <3>1, PartsAre
      <4>2. file'[r].part[v] = file[r].part[v]
        BY <3>4, <3>6, <3>8, <4>1
      <4>3. CASE r = p /\ <<v[1], 0>> = w
        <5>1. file'[r].part[<<v[1], 0>>] = 0
          BY <3>4, <3>6, <3>8, <4>1, <4>3
        <5>2. ~(v[2] <= 0)
          BY <4>1
        <5>. QED
          BY <4>2, <5>1, <5>2 DEF FrozenIn
      <4>4. CASE ~(r = p /\ <<v[1], 0>> = w)
        <5>1. file'[r].part[<<v[1], 0>>] = file[r].part[<<v[1], 0>>]
          BY <3>4, <3>6, <3>8, <4>1, <4>4
        <5>. QED
          BY <4>2, <5>1 DEF FrozenIn
      <4>. QED
        BY <4>3, <4>4
    <3>. QED
      BY <3>8, <3>9 DEF Thawed
  <2>. QED
    BY <1>7, <2>1, <2>2
<1>9. Become(t, s) /\ UNCHANGED <<learned, kept>>
  BY <1>3, <1>4 DEF Unfreeze
<1>. QED
  BY <1>1, <1>6, <1>8, <1>9, HeaderMoves

-----------------------------------------------------------------------------
LEMMA NewImage == \A p \in Cortexes : New(p) \in Image
<1>. SUFFICES ASSUME NEW p \in Cortexes PROVE New(p) \in Image
  OBVIOUS
<1>1. ASSUME NEW w \in Parts PROVE New(p)[w] \in Value(w) /\ Value(w) \subseteq Nat \cup Steps
  <2>1. PICK x : x = <<p, w[1]>>
    OBVIOUS
  <2>2. x \in (1..N) \X (1..L)
    BY <2>1 DEF Parts, Cortexes, Layers
  <2>3. Freeze[x] \in Nat
    BY <2>2, CortexFileAssumption
  <2>4. New(p)[w] = IF w \in Weights THEN {} ELSE Freeze[x]
    BY <2>1, Zenon DEF New
  <2>. QED
    BY <2>3, <2>4 DEF Value, Steps
<1>. QED
  BY <1>1 DEF New, Image

LEMMA InitInv == Init => Inv
<1>. SUFFICES ASSUME Init PROVE Inv
  OBVIOUS
<1>1. \A p \in Cortexes : New(p) \in Image
  BY NewImage
<1>2. Files(file)
  BY <1>1 DEF Init, Files
<1>3. self \in [Procs -> Process] /\ \A q \in Procs : Fits(file, q, self[q])
  <2>1. \A q \in Procs : self[q] = Off
    BY DEF Init
  <2>. QED
    BY <2>1, OffFits DEF Init
<1>4. learned \in 0..MaxLearned /\ kept \in [Cortexes -> [Weights -> Steps]] /\ SavesKept
  BY CortexFileAssumption DEF Init, Steps, SavesKept
<1>. QED
  BY <1>2, <1>3, <1>4 DEF Inv

LEMMA NextKeeps ==
    ASSUME OneLearner, NoReset, Inv, [Next]_vars
    PROVE  Inv'
<1>1. CASE UNCHANGED vars
  BY <1>1 DEF vars, Inv, Files, SavesKept
<1>2. ASSUME NEW q \in Learners \cup Readers, Start(q) PROVE Inv'
  BY <1>2, OpensKeep
<1>3. ASSUME NEW l \in Learners, LearnerStep(l) PROVE Inv'
  <2>1. CASE Opening(l)
    BY <2>1, OpensKeep, TakesKeep DEF Opening
  <2>2. CASE Check(l) \/ Learn(l)
    BY <2>2, LearnKeeps
  <2>3. CASE Save(l)
    BY <2>3, SaveHeaderKeeps, SavePartKeeps, StopsKeep, Members DEF Save
  <2>. QED
    BY <1>3, <2>1, <2>2, <2>3 DEF LearnerStep
<1>4. ASSUME NEW r \in Readers, ReaderStep(r) \/ Finish(r) PROVE Inv'
  <2>1. CASE Opening(r)
    BY <2>1, OpensKeep, TakesKeep DEF Opening
  <2>2. CASE Reload(r) \/ Finish(r)
    BY <2>2, StopsKeep, Members
  <2>3. CASE \E w \in Parts : LoadPart(r, w)
    BY <2>3, TakesKeep
  <2>. QED
    BY <1>4, <2>1, <2>2, <2>3 DEF ReaderStep
<1>5. ASSUME NEW t \in Tools, ToolStep(t) PROVE Inv'
  <2>1. t \in Procs /\ ~self[t].prep /\ 1 \in Cortexes
    BY Members DEF Inv, Fits, Placed
  <2>2. CASE Save(t)
    BY <2>1, <2>2, SaveHeaderKeeps, StopsKeep DEF Save, SavePart
  <2>3. CASE Scram(t)
    BY <2>1, <2>3, CommandsKeep
  <2>. QED
    BY <1>5, <2>2, <2>3 DEF ToolStep
<1>6. ASSUME NEW t \in Tools, NEW p \in Cortexes,
             Reset(t, p) \/ \E last \in BOOLEAN : Unfreeze(t, p, last)
      PROVE  Inv'
  BY <1>6, CommandsKeep
<1>7. ASSUME NEW q \in Procs, Kill(q) PROVE Inv'
  BY <1>7, StopsKeep
<1>. QED
  BY <1>1, <1>2, <1>3, <1>4, <1>5, <1>6, <1>7 DEF Next

LEMMA InvAlways == ASSUME OneLearner, NoReset PROVE Spec => []Inv
<1>1. Inv /\ [Next]_vars => Inv'
  BY NextKeeps
<1>. QED
  BY <1>1, InitInv, PTL DEF Spec

(***************************************************************************)
(* A finished save of a chain is not lost again, however often the learner *)
(* is killed and started again and in whatever order dek copies layers: a  *)
(* learner has all that the files have before it saves.                    *)
(***************************************************************************)
THEOREM SavesAlwaysKept == ASSUME OneLearner, NoReset PROVE Spec => []SavesKept
<1>1. Inv => SavesKept
  BY DEF Inv
<1>. QED
  BY <1>1, InvAlways, PTL

(***************************************************************************)
(* What a step stores in a file is no less than was there, and what it     *)
(* leaves a running reader with is no less than that had.                  *)
(***************************************************************************)
FilesGrow == \A p \in Cortexes, w \in Weights : file[p].part[w] \subseteq file'[p].part[w]
ReaderGrows(r) ==
    self[r].pc \in {"run", "load"} /\ self'[r].pc # "off" =>
        \A p \in Cortexes, w \in Weights :
            self[r].mem[p][w] \subseteq self'[r].mem[p][w]

LEMMA LoadsGrow ==
    ASSUME Inv, NEW r \in Readers, NEW w \in Parts, LoadPart(r, w)
    PROVE  ReaderGrows(r)
<1>1. PICK s \in Process : s = self[r] /\ Fits(file, r, s) /\ r \in Procs
  BY Members DEF Inv
<1>2. s.pc = "load" /\ w \in s.left /\ Become(r, Copied(Taken(s, w), w, "load", "run"))
  BY <1>1 DEF LoadPart
<1>3. PICK t : t = Taken(s, w)
  OBVIOUS
<1>4. /\ t \in Process /\ t.left = s.left
      /\ t.mem[s.at][w] = file[s.at].part[w]
      /\ \A p \in Cortexes, v \in Parts : p # s.at \/ v # w => t.mem[p][v] = s.mem[p][v]
  BY <1>3, TakenIs DEF Inv
<1>5. PICK c : c = Copied(t, w, "load", "run")
  OBVIOUS
<1>6. c.mem = t.mem
  <2>1. w \in t.left /\ "load" \in Pcs /\ "run" \in Pcs
    BY <1>2, <1>4 DEF Pcs
  <2>. QED
    BY <1>4, <1>5, <2>1, CopiedIs
<1>7. self'[r] = c
  BY <1>1, <1>2, <1>3, <1>5 DEF Become, Inv
<1>8. \A p \in Cortexes, v \in Weights : s.mem[p][v] \subseteq file[p].part[v]
  <2>1. s.prep
    BY <1>1, <1>2 DEF Fits, Placed
  <2>. QED
    BY <1>1, <1>2, <2>1 DEF Fits, Follows, Loaded
<1>9. \A p \in Cortexes, v \in Weights : s.mem[p][v] \subseteq c.mem[p][v]
  BY <1>4, <1>6, <1>8, PartsAre
<1>. QED
  BY <1>1, <1>7, <1>9 DEF ReaderGrows

LEMMA NextGrows ==
    ASSUME OneLearner, NoReset, Inv, Next
    PROVE  FilesGrow /\ \A r \in Readers : ReaderGrows(r)
<1>1. Thawed(file, file') \/ UNCHANGED file => FilesGrow
  BY DEF Thawed, FilesGrow
<1>2. ASSUME NEW q \in Procs, NEW s, Become(q, s), q \notin Readers
      PROVE  \A r \in Readers : ReaderGrows(r)
  BY <1>2, Members DEF Become, ReaderGrows, Inv
<1>3. ASSUME NEW q \in Readers, NEW s, Become(q, s), ReaderGrows(q)
      PROVE  \A r \in Readers : ReaderGrows(r)
  BY <1>3, Members DEF Become, ReaderGrows, Inv
<1>4. ASSUME NEW q \in Procs, NEW s, Become(q, s),
             s = Off \/ self[q].pc \notin {"run", "load"}
      PROVE  \A r \in Readers : ReaderGrows(r)
  <2>1. self'[q] = s
    BY <1>4 DEF Become, Inv
  <2>2. ReaderGrows(q)
    BY <1>4, <2>1, OffFits DEF ReaderGrows
  <2>. QED
    BY <1>2, <1>3, <1>4, <2>2
<1>. DEFINE Grown == FilesGrow /\ \A r \in Readers : ReaderGrows(r)
<1>5. ASSUME NEW q \in Learners \cup Readers, Start(q) \/ Opening(q) PROVE Grown
  <2>1. q \in Procs /\ self[q].pc \notin {"run", "load"} /\ UNCHANGED file
    BY <1>5, Members DEF Start, Opening, Open, Prepare
  <2>2. PICK s : Become(q, s)
    BY <1>5 DEF Start, Opening, Open, Prepare
  <2>. QED
    BY <1>1, <1>4, <2>1, <2>2
<1>6. ASSUME NEW l \in Learners, Check(l) \/ Learn(l) PROVE Grown
  <2>1. PICK s : Become(l, s)
    BY <1>6 DEF Check, Learn
  <2>2. l \in Procs /\ l \notin Readers /\ UNCHANGED file
    BY <1>6, Members DEF Check, Learn
  <2>. QED
    BY <1>1, <1>2, <2>1, <2>2
<1>7. ASSUME NEW q \in Learners \cup Tools, Save(q) PROVE Grown
  <2>1. PICK s : Become(q, s)
    BY <1>7 DEF Save, SaveCount, SaveHead, SaveNothing, SavePart
  <2>2. q \in Procs /\ q \notin Readers
    BY Members
  <2>3. CASE SaveCount(q) \/ SaveHead(q)
    BY <1>1, <1>2, <2>1, <2>2, <2>3, SaveHeaderKeeps
  <2>4. CASE SaveNothing(q)
    BY <1>1, <1>2, <2>1, <2>2, <2>4 DEF SaveNothing
  <2>5. ASSUME NEW w \in Parts, SavePart(q, w) PROVE Grown
    <3>1. q \in Learners
      BY <2>2, <2>5 DEF SavePart, Inv, Fits, Placed
    <3>. QED
      BY <1>2, <2>1, <2>2, <2>5, <3>1, SavePartKeeps DEF FilesGrow
  <2>. QED
    BY <1>7, <2>3, <2>4, <2>5 DEF Save
<1>8. ASSUME NEW r \in Readers, Reload(r) \/ Finish(r) PROVE Grown
  <2>1. r \in Procs /\ UNCHANGED file
    BY <1>8, Members DEF Reload, Finish
  <2>2. CASE Finish(r)
    BY <1>1, <1>4, <2>1, <2>2 DEF Finish
  <2>3. CASE Reload(r)
    <3>1. self[r] \in Process /\ self'[r] = [self[r] EXCEPT !.pc = "load"]
      BY <2>1, <2>3 DEF Reload, Become, Inv
    <3>2. self'[r].mem = self[r].mem
      BY <3>1 DEF Process
    <3>3. ReaderGrows(r)
      BY <3>2 DEF ReaderGrows
    <3>. QED
      BY <1>1, <1>3, <2>1, <2>3, <3>3 DEF Reload
  <2>. QED
    BY <1>8, <2>2, <2>3
<1>9. ASSUME NEW r \in Readers, NEW w \in Parts, LoadPart(r, w) PROVE Grown
  <2>1. UNCHANGED file /\ ReaderGrows(r)
    BY <1>9, LoadsGrow DEF LoadPart
  <2>. QED
    BY <1>1, <1>3, <1>9, <2>1 DEF LoadPart
<1>10. ASSUME NEW t \in Tools, NEW p \in Cortexes,
              Reset(t, p) \/ (\E last \in BOOLEAN : Unfreeze(t, p, last)) \/ Scram(t)
       PROVE  Grown
  <2>1. PICK s : Become(t, s)
    BY <1>10 DEF Reset, Unfreeze, Scram, ScramEnd, ScramPart
  <2>. QED
    BY <1>1, <1>2, <1>10, <2>1, CommandsKeep, Members
<1>11. ASSUME NEW q \in Procs, Kill(q) PROVE Grown
  BY <1>1, <1>4, <1>11 DEF Kill
<1>. HIDE DEF Grown
<1>12. Grown
  BY <1>5, <1>6, <1>7, <1>8, <1>9, <1>10, <1>11, Members
     DEF Next, LearnerStep, ReaderStep, ToolStep
<1>. QED
  BY <1>12 DEF Grown

(***************************************************************************)
(* A reader's weights never get older, though it loads while the learner   *)
(* saves and the learner is stopped and started: it never has more than    *)
(* the files, and the files only grow.                                     *)
(***************************************************************************)
THEOREM ReadersNeverGetOlder == ASSUME OneLearner, NoReset PROVE Spec => NeverOlder
<1>1. Inv /\ [Next]_vars =>
          [\A r \in Readers : self[r].pc \in {"run", "load"} /\ self'[r].pc # "off" =>
              \A p \in Cortexes, w \in Weights :
                  self[r].mem[p][w] \subseteq self'[r].mem[p][w]]_vars
  BY NextGrows DEF ReaderGrows
<1>. QED
  BY <1>1, InvAlways, PTL DEF Spec, NeverOlder

(***************************************************************************)
(* A frozen channel does not learn: a learner has of it what the file has, *)
(* also after an unfreeze that the learner's save undid, except between    *)
(* the header and the weights of that save.                                *)
(***************************************************************************)
THEOREM FrozenChannelsUntrained == ASSUME OneLearner, NoReset PROVE Spec => []FrozenUntrained
<1>1. ASSUME Inv, NEW l \in Learners, NEW p \in Cortexes, NEW w \in Weights,
             self[l].pc \in {"check", "learn", "count", "head", "copy"},
             Frozen(p, w), ~PuttingBack(l, p, w)
      PROVE  self[l].mem[p][w] = file[p].part[w]
  <2>1. Holds(file, self[l], p, w) /\ Placed(l, self[l])
    BY <1>1, Members DEF Inv, Fits
  <2>2. Loaded(self[l], p, w)
    BY <1>1, <2>1 DEF Placed, Loaded
  <2>3. FrozenIn(file, p, w) /\ ~Behind(self[l], p, w)
    BY <1>1 DEF Frozen, FrozenIn, PuttingBack, Behind
  <2>. QED
    BY <2>1, <2>2, <2>3 DEF Holds
<1>2. Inv => FrozenUntrained
  BY <1>1 DEF FrozenUntrained
<1>. QED
  BY <1>2, InvAlways, PTL

-----------------------------------------------------------------------------
(***************************************************************************)
(* Sums over a finite set, and the induction over a set of numbers that    *)
(* they need: a set of numbers without a least member is empty.            *)
(***************************************************************************)
LEMMA NatSetInduction ==
    ASSUME NEW T, 0 \in T, \A n \in Nat : n \in T => n + 1 \in T
    PROVE  Nat \subseteq T
<1>. DEFINE U == {0..n - 1 : n \in Nat \ T}
<1>1. SUFFICES ASSUME NEW n \in Nat, n \notin T PROVE FALSE
  OBVIOUS
<1>2. U # {} /\ U \subseteq FiniteSubsetsOf(Nat)
  <2>1. \A m \in Nat : 0..m - 1 \in SUBSET Nat /\ IsFiniteSet(0..m - 1)
    BY FS_Interval
  <2>. QED
    BY <1>1, <2>1 DEF FiniteSubsetsOf
<1>3. IsWellFoundedOn(StrictSubsetOrdering(Nat), FiniteSubsetsOf(Nat))
  BY FS_StrictSubsetOrderingWellFounded
<1>4. PICK x \in U : \A y \in U : ~ (<<y, x>> \in StrictSubsetOrdering(Nat))
  <2>. HIDE DEF U
  <2>. QED
    BY <1>2, <1>3, WFMin
<1>5. PICK m \in Nat : m \notin T /\ x = 0..m - 1
  BY <1>4
<1>6. PICK k \in Nat : m = k + 1
  <2>1. m # 0
    BY <1>5
  <2>2. m - 1 \in Nat /\ m = (m - 1) + 1
    BY <2>1
  <2>. QED
    BY <2>2
<1>7. k \notin T
  BY <1>5, <1>6
<1>8. 0..k - 1 \in U
  BY <1>7
<1>9. <<0..k - 1, x>> \in StrictSubsetOrdering(Nat)
  <2>1. 0..k - 1 \in SUBSET Nat /\ x \in SUBSET Nat
    BY <1>5
  <2>2. k \in x /\ k \notin 0..k - 1
    BY <1>5, <1>6
  <2>3. 0..k - 1 \subseteq x
    BY <1>5, <1>6
  <2>. QED
    BY <2>1, <2>2, <2>3 DEF StrictSubsetOrdering
<1>. QED
  BY <1>4, <1>8, <1>9

Pick(s) == CHOOSE x \in s : TRUE

LEMMA SubsetFacts ==
    ASSUME NEW S, IsFiniteSet(S), NEW s \in SUBSET S
    PROVE  /\ Cardinality(s) \in Nat /\ Cardinality(s) <= Cardinality(S)
           /\ Cardinality(s) = 0 <=> s = {}
           /\ s # {} => /\ Pick(s) \in s /\ s \ {Pick(s)} \in SUBSET S
                        /\ Cardinality(s \ {Pick(s)}) = Cardinality(s) - 1
<1>1. IsFiniteSet(s) /\ Cardinality(s) <= Cardinality(S)
  BY FS_Subset
<1>2. Cardinality(s) \in Nat /\ (Cardinality(s) = 0 <=> s = {})
  BY <1>1, FS_CardinalityType, FS_EmptySet
<1>3. \A x \in s : Cardinality(s \ {x}) = Cardinality(s) - 1
  BY <1>1, FS_RemoveElement
<1>4. s # {} => Pick(s) \in s
  BY DEF Pick
<1>. QED
  BY <1>1, <1>2, <1>3, <1>4

LEMMA SubsetInduction ==
    ASSUME NEW S, IsFiniteSet(S), NEW T, {} \in T,
           \A s \in SUBSET S : s # {} /\ s \ {Pick(s)} \in T => s \in T
    PROVE  SUBSET S \subseteq T
<1>. DEFINE K == {n \in Nat : \A s \in SUBSET S : Cardinality(s) = n => s \in T}
<1>1. 0 \in K
  BY SubsetFacts
<1>2. ASSUME NEW n \in Nat, n \in K PROVE n + 1 \in K
  <2>. SUFFICES ASSUME NEW s \in SUBSET S, Cardinality(s) = n + 1 PROVE s \in T
    OBVIOUS
  <2>1. s # {}
    BY FS_EmptySet
  <2>2. s \ {Pick(s)} \in SUBSET S /\ Cardinality(s \ {Pick(s)}) = n
    BY <2>1, SubsetFacts
  <2>. QED
    BY <1>2, <2>1, <2>2
<1>3. Nat \subseteq K
  <2>. HIDE DEF K
  <2>. QED
    BY <1>1, <1>2, NatSetInduction
<1>. QED
  BY <1>3, SubsetFacts

(***************************************************************************)
(* What SumFunction computes, though not in what order: its fold is the    *)
(* sum over each subset.                                                   *)
(***************************************************************************)
SumStep(f, h, s) == IF s = {} THEN 0 ELSE f[Pick(s)] + h[s \ {Pick(s)}]
SumFold(f, S) == CHOOSE h : h = [s \in SUBSET S |-> SumStep(f, h, s)]

LEMMA SumIs ==
    ASSUME NEW f, NEW S, S = DOMAIN f
    PROVE  SumFunction(f) = SumFold(f, S)[S]
BY DEF SumFunction, SumFunctionOnSet, FoldFunctionOnSet, MapThenFoldSet, SumFold, SumStep, Pick

LEMMA SumExists ==
    ASSUME NEW S, IsFiniteSet(S), NEW f \in [S -> Nat]
    PROVE  \E h \in [SUBSET S -> Nat] : h = [s \in SUBSET S |-> SumStep(f, h, s)]
<1>. DEFINE Small(n) == {s \in SUBSET S : Cardinality(s) <= n}
            T == {n \in Nat : \E h \in [Small(n) -> Nat] :
                                \A s \in Small(n) : h[s] = SumStep(f, h, s)}
<1>1. \A s \in SUBSET S :
          /\ Cardinality(s) \in Nat
          /\ Cardinality(s) = 0 => s = {}
          /\ s # {} => /\ Pick(s) \in s
                       /\ Cardinality(s \ {Pick(s)}) = Cardinality(s) - 1
  BY SubsetFacts
<1>2. 0 \in T
  <2>1. ASSUME NEW s \in Small(0) PROVE s = {}
    <3>1. s \in SUBSET S /\ Cardinality(s) <= 0
      OBVIOUS
    <3>2. Cardinality(s) \in Nat
      BY <1>1, <3>1
    <3>3. Cardinality(s) = 0
      BY <3>1, <3>2
    <3>. QED
      BY <1>1, <3>1, <3>3
  <2>2. PICK h : h = [s \in Small(0) |-> 0]
    OBVIOUS
  <2>3. h \in [Small(0) -> Nat] /\ \A s \in Small(0) : h[s] = SumStep(f, h, s)
    BY <2>1, <2>2 DEF SumStep
  <2>. QED
    BY <2>3
<1>3. ASSUME NEW n \in Nat, n \in T PROVE n + 1 \in T
  <2>1. PICK h \in [Small(n) -> Nat] : \A s \in Small(n) : h[s] = SumStep(f, h, s)
    BY <1>3
  <2>2. PICK g : g = [s \in Small(n + 1) |-> SumStep(f, h, s)]
    OBVIOUS
  <2>3. ASSUME NEW s \in Small(n + 1)
        PROVE  /\ SumStep(f, h, s) \in Nat
               /\ s \in Small(n) => SumStep(f, h, s) = h[s]
               /\ s # {} => s \ {Pick(s)} \in Small(n)
    <3>1. s # {} => Pick(s) \in S /\ s \ {Pick(s)} \in Small(n)
      BY <1>1
    <3>2. s # {} => f[Pick(s)] \in Nat /\ h[s \ {Pick(s)}] \in Nat
      BY <2>1, <3>1
    <3>. QED
      BY <2>1, <3>1, <3>2 DEF SumStep
  <2>4. Small(n) \subseteq Small(n + 1)
    <3>1. ASSUME NEW s \in SUBSET S, Cardinality(s) <= n PROVE Cardinality(s) <= n + 1
      <4>1. Cardinality(s) \in Nat
        BY <1>1
      <4>. QED
        BY <3>1, <4>1
    <3>. QED
      BY <3>1
  <2>5. g \in [Small(n + 1) -> Nat] /\ \A s \in Small(n) : g[s] = h[s]
    <3>. HIDE DEF Small
    <3>. QED
      BY <2>2, <2>3, <2>4
  <2>6. \A s \in Small(n + 1) : g[s] = SumStep(f, g, s)
    <3>. HIDE DEF Small
    <3>. QED
      BY <2>2, <2>3, <2>5 DEF SumStep
  <2>7. \E k \in [Small(n + 1) -> Nat] : \A s \in Small(n + 1) : k[s] = SumStep(f, k, s)
    <3>. HIDE DEF Small
    <3>. QED
      BY <2>5, <2>6
  <2>. HIDE DEF Small
  <2>. QED
    BY <2>7
<1>4. Cardinality(S) \in T
  <2>. HIDE DEF T
  <2>. QED
    BY <1>2, <1>3, FS_CardinalityType, NatSetInduction
<1>5. Small(Cardinality(S)) = SUBSET S
  BY FS_Subset
<1>6. PICK h \in [SUBSET S -> Nat] : \A s \in SUBSET S : h[s] = SumStep(f, h, s)
  BY <1>4, <1>5
<1>7. h = [s \in SUBSET S |-> SumStep(f, h, s)]
  BY <1>6
<1>. QED
  BY <1>6, <1>7

Sums(f, S, h) ==
    /\ SumFunction(f) = h[S]
    /\ h \in [SUBSET S -> Nat]
    /\ h[{}] = 0
    /\ \A s \in SUBSET S : s # {} => h[s] = f[Pick(s)] + h[s \ {Pick(s)}]

LEMMA SumHas ==
    ASSUME NEW S, IsFiniteSet(S), NEW f \in [S -> Nat]
    PROVE  \E h : Sums(f, S, h)
<1>. DEFINE h == SumFold(f, S)
<1>1. h = [s \in SUBSET S |-> SumStep(f, h, s)]
  BY SumExists DEF SumFold
<1>. HIDE DEF h
<1>2. SumFunction(f) = h[S]
  <2>1. S = DOMAIN f
    OBVIOUS
  <2>. QED
    BY <2>1, SumIs DEF h
<1>3. /\ h[{}] = 0
      /\ \A s \in SUBSET S : s # {} => h[s] = f[Pick(s)] + h[s \ {Pick(s)}]
  <2>1. \A s \in SUBSET S : h[s] = SumStep(f, h, s)
    BY <1>1
  <2>. QED
    BY <2>1 DEF SumStep
<1>4. h \in [SUBSET S -> Nat]
  <2>. DEFINE T == {s \in SUBSET S : h[s] \in Nat}
  <2>1. {} \in T
    BY <1>3
  <2>2. ASSUME NEW s \in SUBSET S, s # {}, s \ {Pick(s)} \in T PROVE s \in T
    <3>1. Pick(s) \in S
      BY <2>2, SubsetFacts
    <3>2. f[Pick(s)] \in Nat /\ h[s \ {Pick(s)}] \in Nat
      BY <2>2, <3>1
    <3>3. h[s] = f[Pick(s)] + h[s \ {Pick(s)}]
      BY <1>3, <2>2
    <3>. QED
      BY <3>2, <3>3
  <2>3. SUBSET S \subseteq T
    <3>. HIDE DEF T
    <3>. QED
      BY <2>1, <2>2, SubsetInduction
  <2>. QED
    BY <1>1, <2>3
<1>. QED
  BY <1>2, <1>3, <1>4 DEF Sums

LEMMA SumIsNat ==
    ASSUME NEW S, IsFiniteSet(S), NEW f \in [S -> Nat]
    PROVE  SumFunction(f) \in Nat
<1>1. PICK h : Sums(f, S, h)
  BY SumHas
<1>. QED
  BY <1>1 DEF Sums

(***************************************************************************)
(* One term of a sum changes.                                              *)
(***************************************************************************)
LEMMA SumChanges ==
    ASSUME NEW S, IsFiniteSet(S), NEW f \in [S -> Nat], NEW e \in [S -> Nat],
           NEW a \in S, \A b \in S : b # a => e[b] = f[b]
    PROVE  /\ SumFunction(f) \in Nat /\ SumFunction(e) \in Nat
           /\ SumFunction(e) + f[a] = SumFunction(f) + e[a]
<1>3. PICK h : Sums(f, S, h)
  BY SumHas
<1>4. PICK g : Sums(e, S, g)
  BY SumHas
<1>. DEFINE Agree(s) == IF a \in s THEN g[s] + f[a] = h[s] + e[a] ELSE g[s] = h[s]
            T == {s \in SUBSET S : Agree(s)}
<1>5. {} \in T
  BY <1>3, <1>4 DEF Sums
<1>6. ASSUME NEW s \in SUBSET S, s # {}, s \ {Pick(s)} \in T PROVE s \in T
  <2>1. PICK x \in s : x = Pick(s)
    BY <1>6, SubsetFacts
  <2>2. PICK r \in SUBSET S : r = s \ {x}
    OBVIOUS
  <2>3. Agree(r)
    BY <1>6, <2>1, <2>2
  <2>4. h[s] = f[x] + h[r] /\ g[s] = e[x] + g[r]
    BY <1>3, <1>4, <1>6, <2>1, <2>2 DEF Sums
  <2>5. /\ f[x] \in Nat /\ f[a] \in Nat /\ e[x] \in Nat /\ e[a] \in Nat
        /\ h[r] \in Nat /\ g[r] \in Nat
    BY <1>3, <1>4 DEF Sums
  <2>6. Agree(s)
    <3>1. CASE x = a
      BY <2>1, <2>2, <2>3, <2>4, <2>5, <3>1
    <3>2. CASE x # a
      <4>1. e[x] = f[x] /\ (a \in r <=> a \in s)
        BY <2>1, <2>2, <3>2
      <4>. QED
        BY <2>3, <2>4, <2>5, <4>1
    <3>. QED
      BY <3>1, <3>2
  <2>. QED
    BY <2>6
<1>7. SUBSET S \subseteq T
  <2>. HIDE DEF T
  <2>. QED
    BY <1>5, <1>6, SubsetInduction
<1>. QED
  BY <1>3, <1>4, <1>7 DEF Sums

LEMMA SumOfZeros ==
    ASSUME NEW S, IsFiniteSet(S), NEW f \in [S -> Nat], \A a \in S : f[a] = 0
    PROVE  SumFunction(f) = 0
<1>2. PICK h : Sums(f, S, h)
  BY SumHas
<1>. DEFINE T == {s \in SUBSET S : h[s] = 0}
<1>3. {} \in T
  BY <1>2 DEF Sums
<1>4. ASSUME NEW s \in SUBSET S, s # {}, s \ {Pick(s)} \in T PROVE s \in T
  <2>1. Pick(s) \in S
    BY <1>4, SubsetFacts
  <2>2. f[Pick(s)] = 0 /\ h[s \ {Pick(s)}] = 0
    BY <1>4, <2>1
  <2>. QED
    BY <1>2, <1>4, <2>2 DEF Sums
<1>5. SUBSET S \subseteq T
  <2>. HIDE DEF T
  <2>. QED
    BY <1>3, <1>4, SubsetInduction
<1>. QED
  BY <1>2, <1>5 DEF Sums

-----------------------------------------------------------------------------
(***************************************************************************)
(* The rounds: with any learners and commands, reset too.  A save that has *)
(* counted and not yet stored is not in the file nor in new_rounds; and a  *)
(* process that does not learn has none to add.                            *)
(***************************************************************************)
Typed ==
    /\ Files(file)
    /\ self \in [Procs -> Process]
    /\ learned \in 0..MaxLearned

Counted ==
    /\ Typed
    /\ RoundsNotOvercounted
    /\ \A q \in Procs, p \in Cortexes :
          self[q].pc = "head" /\ self[q].at = p => self[q].rounds[p] + Pending(p) <= learned
    /\ \A q \in Procs \ Learners, p \in Cortexes : self[q].fresh[p] = 0

LEMMA PendingMoves ==
    ASSUME Typed, NEW q \in Procs, NEW s \in Process, Become(q, s), NEW p \in Cortexes
    PROVE  /\ Pending(p) \in Nat /\ Pending(p)' \in Nat
           /\ q \in Learners => Pending(p)' + self[q].fresh[p] = Pending(p) + s.fresh[p]
           /\ q \notin Learners => Pending(p)' = Pending(p)
<1>1. PICK f : f = [l \in Learners |-> self[l].fresh[p]]
  OBVIOUS
<1>2. PICK e : e = [l \in Learners |-> self'[l].fresh[p]]
  OBVIOUS
<1>3. /\ \A l \in Learners : self[l].fresh[p] \in Nat /\ self'[l].fresh[p] \in Nat
      /\ self'[q] = s /\ \A r \in Procs : r # q => self'[r] = self[r]
  <2>1. /\ self' \in [Procs -> Process]
        /\ self'[q] = s /\ \A r \in Procs : r # q => self'[r] = self[r]
    BY DEF Typed, Become
  <2>2. \A l \in Learners : self[l] \in Process /\ self'[l] \in Process
    BY <2>1, Members DEF Typed
  <2>. QED
    BY <2>1, <2>2 DEF Process
<1>4. f \in [Learners -> Nat] /\ e \in [Learners -> Nat]
  BY <1>1, <1>2, <1>3
<1>5. IsFiniteSet(Learners)
  BY CortexFileAssumption
<1>6. Pending(p) = SumFunction(f) /\ Pending(p)' = SumFunction(e)
  BY <1>1, <1>2 DEF Pending
<1>7. CASE q \in Learners
  <2>1. \A l \in Learners : l # q => e[l] = f[l]
    BY <1>1, <1>2, <1>3, Members
  <2>2. f[q] = self[q].fresh[p] /\ e[q] = s.fresh[p]
    BY <1>1, <1>2, <1>3, <1>7
  <2>3. /\ SumFunction(f) \in Nat /\ SumFunction(e) \in Nat
        /\ SumFunction(e) + f[q] = SumFunction(f) + e[q]
    BY <1>4, <1>5, <1>7, <2>1, SumChanges
  <2>. QED
    BY <1>6, <1>7, <2>2, <2>3
<1>8. CASE q \notin Learners
  <2>1. e = f
    BY <1>1, <1>2, <1>3, <1>8, Members
  <2>2. SumFunction(f) \in Nat
    BY <1>4, <1>5, SumIsNat
  <2>. QED
    BY <1>6, <1>8, <2>1, <2>2
<1>. QED
  BY <1>7, <1>8

(***************************************************************************)
(* Most steps count nothing: they lose rounds, or leave them.              *)
(***************************************************************************)
Fewer(s, t) == \A p \in Cortexes : t.fresh[p] <= s.fresh[p]
Cut(f, g) == Files(g) /\ \A p \in Cortexes : g[p].rounds <= f[p].rounds

LEMMA QuietCounts ==
    ASSUME Counted, NEW q \in Procs, NEW s \in Process, Become(q, s),
           s.pc # "head", Fewer(self[q], s), Cut(file, file'), learned' = learned
    PROVE  Counted'
<1>1. /\ self' \in [Procs -> Process]
      /\ self'[q] = s /\ \A r \in Procs : r # q => self'[r] = self[r]
  BY DEF Counted, Typed, Become
<1>2. \A p \in Cortexes : /\ Pending(p) \in Nat /\ Pending(p)' \in Nat
                          /\ Pending(p)' <= Pending(p)
  <2>. SUFFICES ASSUME NEW p \in Cortexes
                PROVE  /\ Pending(p) \in Nat /\ Pending(p)' \in Nat
                       /\ Pending(p)' <= Pending(p)
    OBVIOUS
  <2>1. self[q].fresh[p] \in Nat /\ s.fresh[p] \in Nat /\ s.fresh[p] <= self[q].fresh[p]
    BY DEF Counted, Typed, Process, Fewer
  <2>2. /\ Pending(p) \in Nat /\ Pending(p)' \in Nat
        /\ q \in Learners => Pending(p)' + self[q].fresh[p] = Pending(p) + s.fresh[p]
        /\ q \notin Learners => Pending(p)' = Pending(p)
    BY PendingMoves DEF Counted
  <2>. QED
    BY <2>1, <2>2
<1>3. Typed'
  BY <1>1 DEF Counted, Typed, Cut
<1>4. RoundsNotOvercounted'
  <2>. SUFFICES ASSUME NEW p \in Cortexes PROVE file'[p].rounds + Pending(p)' <= learned'
    BY DEF RoundsNotOvercounted
  <2>1. /\ file[p].rounds \in Nat /\ file'[p].rounds \in Nat /\ learned \in Nat
        /\ file'[p].rounds <= file[p].rounds
        /\ file[p].rounds + Pending(p) <= learned
    BY CortexFileAssumption DEF Counted, Typed, Files, Cut, RoundsNotOvercounted
  <2>. QED
    BY <1>2, <2>1
<1>5. ASSUME NEW r \in Procs, NEW p \in Cortexes, self'[r].pc = "head", self'[r].at = p
      PROVE  self'[r].rounds[p] + Pending(p)' <= learned'
  <2>1. r # q /\ self'[r] = self[r]
    BY <1>1, <1>5
  <2>2. self[r].rounds[p] \in Nat /\ learned \in Nat
    BY CortexFileAssumption DEF Counted, Typed, Process
  <2>3. self[r].rounds[p] + Pending(p) <= learned
    BY <1>5, <2>1 DEF Counted
  <2>. QED
    BY <1>2, <2>1, <2>2, <2>3
<1>6. \A r \in Procs \ Learners, p \in Cortexes : self'[r].fresh[p] = 0
  <2>. SUFFICES ASSUME NEW r \in Procs \ Learners, NEW p \in Cortexes
                PROVE  self'[r].fresh[p] = 0
    OBVIOUS
  <2>1. self[r].fresh[p] = 0
    BY DEF Counted
  <2>2. CASE r = q
    <3>1. s.fresh[p] \in Nat /\ s.fresh[p] <= self[q].fresh[p]
      BY DEF Process, Fewer
    <3>. QED
      BY <1>1, <2>1, <2>2, <3>1
  <2>. QED
    BY <1>1, <2>1, <2>2
<1>. QED
  BY <1>3, <1>4, <1>5, <1>6 DEF Counted

(***************************************************************************)
(* One part of one file is stored.                                         *)
(***************************************************************************)
LEMMA PartStored ==
    ASSUME NEW f, Files(f), NEW p \in Cortexes, NEW w, NEW e, w \in Parts => e \in Value(w),
           NEW g, g = [f EXCEPT ![p] = [f[p] EXCEPT !.part = [f[p].part EXCEPT ![w] = e]]]
    PROVE  Cut(f, g)
<1>1. \A r \in Cortexes : f[r] \in [rounds : Nat, part : Image]
  BY DEF Files
<1>2. PICK m : m = [f[p].part EXCEPT ![w] = e]
  OBVIOUS
<1>3. m \in Image
  <2>1. f[p].part \in Image
    BY <1>1
  <2>. QED
    BY <1>2, <2>1, ImagePut
<1>4. PICK h : h = [f[p] EXCEPT !.part = m]
  OBVIOUS
<1>5. h \in [rounds : Nat, part : Image] /\ h.rounds = f[p].rounds
  BY <1>1, <1>3, <1>4
<1>6. g = [f EXCEPT ![p] = h]
  BY <1>2, <1>4
<1>7. Files(g) /\ \A r \in Cortexes : g[r].rounds = f[r].rounds
  BY <1>5, <1>6 DEF Files
<1>8. \A r \in Cortexes : f[r].rounds \in Nat
  BY <1>1
<1>. QED
  BY <1>7, <1>8 DEF Cut

LEMMA SameCut == Typed => Cut(file, file)
<1>1. Files(file) => \A p \in Cortexes : file[p].rounds \in Nat
  BY DEF Files
<1>. QED
  BY <1>1 DEF Typed, Cut

LEMMA StopCounts ==
    ASSUME Counted, NEW q \in Procs, Become(q, Off), Cut(file, file'), learned' = learned
    PROVE  Counted'
<1>1. self[q] \in Process
  BY DEF Counted, Typed
<1>2. Fewer(self[q], Off)
  <2>1. \A p \in Cortexes : Off.fresh[p] = 0 /\ self[q].fresh[p] \in Nat
    BY <1>1 DEF Off, Process
  <2>. QED
    BY <2>1 DEF Fewer
<1>3. Off \in Process /\ Off.pc # "head"
  BY OffFits
<1>. QED
  BY <1>2, <1>3, QuietCounts

LEMMA SameFresh ==
    ASSUME NEW s \in Process, NEW t, t.fresh = s.fresh
    PROVE  Fewer(s, t)
<1>1. \A p \in Cortexes : s.fresh[p] \in Nat
  BY DEF Process
<1>. QED
  BY <1>1 DEF Fewer

LEMMA OpensCount ==
    ASSUME Counted, NEW q \in Procs, Start(q) \/ Open(q)
    PROVE  Counted'
<1>0. self[q] \in Process /\ Files(file) /\ Cut(file, file)
  BY SameCut DEF Counted, Typed
<1>1. CASE Start(q)
  <2>1. PICK s : s = [Off EXCEPT !.pc = "open"]
    OBVIOUS
  <2>2. s \in Process /\ s.pc = "open" /\ s.fresh = Off.fresh
    BY <2>1, OffFits DEF Process, Pcs
  <2>3. Fewer(self[q], s)
    <3>1. \A p \in Cortexes : Off.fresh[p] = 0 /\ self[q].fresh[p] \in Nat
      BY <1>0 DEF Off, Process
    <3>. QED
      BY <2>2, <3>1 DEF Fewer
  <2>4. Become(q, s) /\ UNCHANGED <<file, learned>>
    BY <1>1, <2>1 DEF Start
  <2>. QED
    BY <1>0, <2>2, <2>3, <2>4, QuietCounts
<1>2. CASE Open(q)
  <2>. DEFINE t == self[q]
  <2>1. PICK s : s = [t EXCEPT !.rounds[t.at] = file[t.at].rounds,
                               !.at = IF t.at < N THEN t.at + 1 ELSE 1,
                               !.pc = IF t.at < N THEN "open" ELSE "prepare"]
    OBVIOUS
  <2>2. Become(q, s) /\ UNCHANGED <<file, learned>>
    BY <1>2, <2>1 DEF Open
  <2>3. t \in Process
    BY <1>0
  <2>. HIDE DEF t
  <2>4. PICK r : r = [t.rounds EXCEPT ![t.at] = file[t.at].rounds]
    OBVIOUS
  <2>5. s = [t EXCEPT !.rounds = r,
                      !.at = IF t.at < N THEN t.at + 1 ELSE 1,
                      !.pc = IF t.at < N THEN "open" ELSE "prepare"]
    BY <2>1, <2>4
  <2>6. r \in [Cortexes -> Nat]
    BY <1>0, <2>3, <2>4 DEF Process, Files
  <2>7. t.at \in Cortexes /\ (IF t.at < N THEN t.at + 1 ELSE 1) \in Cortexes
    BY <2>3, Members DEF Process
  <2>8. s \in Process /\ s.pc # "head" /\ s.fresh = t.fresh
    BY <2>3, <2>5, <2>6, <2>7 DEF Process, Pcs
  <2>9. Fewer(self[q], s)
    BY <2>3, <2>8, SameFresh DEF t
  <2>. QED
    BY <1>0, <2>2, <2>8, <2>9, QuietCounts
<1>. QED
  BY <1>1, <1>2

LEMMA TakesCount ==
    ASSUME Counted, NEW q \in Procs, NEW w \in Parts, Prepare(q, w) \/ LoadPart(q, w)
    PROVE  Counted'
<1>1. Files(file) /\ Cut(file, file)
  BY SameCut DEF Counted, Typed
<1>2. PICK s \in Process : s = self[q]
  BY DEF Counted, Typed
<1>3. PICK t : t = Taken(s, w)
  OBVIOUS
<1>4. t \in Process /\ t.pc = s.pc /\ t.left = s.left /\ t.fresh = s.fresh
  BY <1>1, <1>3, TakenIs
<1>5. PICK out \in {"check", "run"} : out = IF q \in Learners THEN "check" ELSE "run"
  OBVIOUS
<1>6. PICK again \in {"prepare", "load"}, end \in {"check", "run"} : \E d :
          /\ s.pc = again /\ w \in s.left
          /\ \/ d = Copied(t, w, again, end)
             \/ d = [Copied(t, w, again, end) EXCEPT !.prep = TRUE]
          /\ Become(q, d)
          /\ UNCHANGED <<file, learned>>
  <2>1. CASE Prepare(q, w)
    <3>1. PICK d : d = [Copied(t, w, "prepare", out) EXCEPT !.prep = TRUE]
      OBVIOUS
    <3>2. s.pc = "prepare" /\ w \in s.left /\ Become(q, d) /\ UNCHANGED <<file, learned>>
      BY <1>2, <1>3, <1>5, <2>1, <3>1 DEF Prepare
    <3>. QED
      BY <3>1, <3>2
  <2>2. CASE LoadPart(q, w)
    <3>1. PICK d : d = Copied(t, w, "load", "run")
      OBVIOUS
    <3>2. s.pc = "load" /\ w \in s.left /\ Become(q, d) /\ UNCHANGED <<file, learned>>
      BY <1>2, <1>3, <2>2, <3>1 DEF LoadPart
    <3>. QED
      BY <3>1, <3>2
  <2>. QED
    BY <2>1, <2>2
<1>7. PICK d :
          /\ s.pc = again /\ w \in s.left
          /\ \/ d = Copied(t, w, again, end)
             \/ d = [Copied(t, w, again, end) EXCEPT !.prep = TRUE]
          /\ Become(q, d)
          /\ UNCHANGED <<file, learned>>
  BY <1>6
<1>8. PICK c : c = Copied(t, w, again, end)
  OBVIOUS
<1>9. c \in Process /\ c.fresh = s.fresh /\ c.pc # "head"
  <2>1. w \in t.left /\ again \in Pcs /\ end \in Pcs
    BY <1>4, <1>7 DEF Pcs
  <2>2. /\ c \in Process /\ c.fresh = t.fresh
        /\ c.pc = t.pc \/ c.pc = again \/ c.pc = end
    BY <1>4, <1>8, <2>1, CopiedIs
  <2>. QED
    BY <1>4, <1>7, <2>2
<1>10. d \in Process /\ d.fresh = s.fresh /\ d.pc # "head"
  <2>1. d = c \/ d = [c EXCEPT !.prep = TRUE]
    BY <1>7, <1>8
  <2>. QED
    BY <1>9, <2>1 DEF Process
<1>11. Fewer(self[q], d)
  BY <1>2, <1>10, SameFresh
<1>. QED
  BY <1>1, <1>7, <1>10, <1>11, QuietCounts

LEMMA MovesCount ==
    ASSUME Counted, NEW q \in Procs, Check(q) \/ Reload(q)
    PROVE  Counted'
<1>1. PICK s \in Process : s = self[q] /\ Cut(file, file)
  BY SameCut DEF Counted, Typed
<1>2. PICK t : \E pc \in {"learn", "load"} :
          /\ t = [s EXCEPT !.pc = pc]
          /\ Become(q, t) \/ Become(q, Off)
          /\ UNCHANGED <<file, learned>>
  BY <1>1 DEF Check, Reload
<1>3. t \in Process /\ t.pc # "head" /\ t.fresh = s.fresh
  BY <1>2 DEF Process, Pcs
<1>4. Fewer(self[q], t)
  BY <1>1, <1>3, SameFresh
<1>. QED
  BY <1>1, <1>2, <1>3, <1>4, QuietCounts, StopCounts

(***************************************************************************)
(* A round is one more everywhere; a count moves new_rounds to rounds; and *)
(* what was counted is stored.                                             *)
(***************************************************************************)
LEMMA LearnCounts ==
    ASSUME Counted, NEW l \in Learners, Learn(l)
    PROVE  Counted'
<1>1. l \in Procs
  BY Members
<1>2. PICK s \in Process : s = self[l]
  BY <1>1 DEF Counted, Typed
<1>3. s.pc = "learn" /\ learned < MaxLearned /\ learned' = learned + 1 /\ UNCHANGED file
  BY <1>2 DEF Learn
<1>4. /\ learned \in Nat /\ learned + 1 \in 1..MaxLearned /\ learned' \in 0..MaxLearned
      /\ learned' \in Nat
  BY <1>3, CortexFileAssumption DEF Counted, Typed
<1>5. PICK m : m = [p \in Cortexes |-> [w \in Parts |-> Trained(s, p, w, learned + 1)]]
  OBVIOUS
<1>6. PICK r : r = [p \in Cortexes |-> s.rounds[p] + 1]
  OBVIOUS
<1>7. PICK f : f = [p \in Cortexes |-> s.fresh[p] + 1]
  OBVIOUS
<1>8. PICK pc \in {"count", "learn"} :
          pc = IF SaveDue(s.rounds[N] + 1) THEN "count" ELSE "learn"
  OBVIOUS
<1>9. PICK t : t = [s EXCEPT !.mem = m, !.rounds = r, !.fresh = f, !.pc = pc]
  OBVIOUS
<1>10. Become(l, t)
  BY <1>2, <1>5, <1>6, <1>7, <1>8, <1>9, Zenon DEF Learn
<1>11. m \in [Cortexes -> Image]
  <2>1. \A p \in Cortexes : [w \in Parts |-> Trained(s, p, w, learned + 1)] \in Image
    BY <1>4, TrainedImage
  <2>. QED
    BY <1>5, <2>1
<1>12. r \in [Cortexes -> Nat] /\ f \in [Cortexes -> Nat]
  BY <1>6, <1>7 DEF Process
<1>13. t \in Process /\ t.pc # "head" /\ t.fresh = f
  BY <1>9, <1>11, <1>12 DEF Process, Pcs
<1>14. /\ self' \in [Procs -> Process]
       /\ self'[l] = t /\ \A q \in Procs : q # l => self'[q] = self[q]
  BY <1>1, <1>10, <1>13 DEF Counted, Typed, Become
<1>15. \A p \in Cortexes : /\ Pending(p) \in Nat /\ Pending(p)' = Pending(p) + 1
  <2>. SUFFICES ASSUME NEW p \in Cortexes
                PROVE  Pending(p) \in Nat /\ Pending(p)' = Pending(p) + 1
    OBVIOUS
  <2>1. /\ Pending(p) \in Nat /\ Pending(p)' \in Nat
        /\ Pending(p)' + self[l].fresh[p] = Pending(p) + t.fresh[p]
    BY <1>1, <1>10, <1>13, PendingMoves DEF Counted
  <2>2. self[l].fresh[p] \in Nat /\ t.fresh[p] = self[l].fresh[p] + 1
    BY <1>2, <1>7, <1>13 DEF Process
  <2>. QED
    BY <2>1, <2>2
<1>16. Typed'
  BY <1>3, <1>4, <1>14 DEF Counted, Typed, Files
<1>17. RoundsNotOvercounted'
  <2>. SUFFICES ASSUME NEW p \in Cortexes PROVE file'[p].rounds + Pending(p)' <= learned'
    BY DEF RoundsNotOvercounted
  <2>1. file[p].rounds \in Nat /\ file[p].rounds + Pending(p) <= learned /\ file' = file
    BY <1>3 DEF Counted, Typed, Files, RoundsNotOvercounted
  <2>. QED
    BY <1>3, <1>4, <1>15, <2>1
<1>18. ASSUME NEW q \in Procs, NEW p \in Cortexes, self'[q].pc = "head", self'[q].at = p
       PROVE  self'[q].rounds[p] + Pending(p)' <= learned'
  <2>1. self'[q] = self[q]
    BY <1>13, <1>14, <1>18
  <2>2. self[q].rounds[p] \in Nat
    BY DEF Counted, Typed, Process
  <2>3. self[q].rounds[p] + Pending(p) <= learned
    BY <1>18, <2>1 DEF Counted
  <2>. QED
    BY <1>3, <1>4, <1>15, <2>1, <2>2, <2>3
<1>19. \A q \in Procs \ Learners, p \in Cortexes : self'[q].fresh[p] = 0
  BY <1>14 DEF Counted
<1>. QED
  BY <1>16, <1>17, <1>18, <1>19 DEF Counted

LEMMA SaveCountCounts ==
    ASSUME Counted, NEW q \in Procs, SaveCount(q)
    PROVE  Counted'
<1>1. PICK s \in Process : s = self[q]
  BY DEF Counted, Typed
<1>2. PICK a \in Cortexes : a = s.at
  BY DEF Process
<1>3. PICK n \in Nat : n = file[a].rounds + s.fresh[a]
  BY DEF Counted, Typed, Files, Process
<1>4. PICK r : r = [s.rounds EXCEPT ![a] = n]
  OBVIOUS
<1>5. PICK f : f = [s.fresh EXCEPT ![a] = 0]
  OBVIOUS
<1>6. PICK t : t = [s EXCEPT !.rounds = r, !.fresh = f, !.pc = "head"]
  OBVIOUS
<1>7. Become(q, t) /\ UNCHANGED <<file, learned>>
  BY <1>1, <1>2, <1>3, <1>4, <1>5, <1>6, Zenon DEF SaveCount
<1>8. r \in [Cortexes -> Nat] /\ f \in [Cortexes -> Nat]
  BY <1>4, <1>5 DEF Process
<1>9. t \in Process /\ t.pc = "head" /\ t.fresh = f /\ t.rounds = r /\ t.at = a
  BY <1>2, <1>6, <1>8 DEF Process, Pcs
<1>10. /\ self' \in [Procs -> Process]
       /\ self'[q] = t /\ \A o \in Procs : o # q => self'[o] = self[o]
  BY <1>7, <1>9 DEF Counted, Typed, Become
<1>11. ASSUME NEW p \in Cortexes
       PROVE  /\ Pending(p) \in Nat /\ Pending(p)' \in Nat /\ Pending(p)' <= Pending(p)
              /\ p = a => Pending(p)' + s.fresh[p] = Pending(p)
  <2>1. /\ Pending(p) \in Nat /\ Pending(p)' \in Nat
        /\ q \in Learners => Pending(p)' + s.fresh[p] = Pending(p) + t.fresh[p]
        /\ q \notin Learners => Pending(p)' = Pending(p)
    BY <1>1, <1>7, <1>9, PendingMoves DEF Counted
  <2>2. s.fresh[p] \in Nat /\ t.fresh[p] = IF p = a THEN 0 ELSE s.fresh[p]
    BY <1>5, <1>9 DEF Process
  <2>3. q \notin Learners => s.fresh[p] = 0
    BY <1>1 DEF Counted
  <2>. QED
    BY <2>1, <2>2, <2>3
<1>12. Typed'
  BY <1>7, <1>10 DEF Counted, Typed, Files
<1>13. \A p \in Cortexes : /\ file[p].rounds \in Nat /\ learned \in Nat
                           /\ file[p].rounds + Pending(p) <= learned
  BY CortexFileAssumption DEF Counted, Typed, Files, RoundsNotOvercounted
<1>14. RoundsNotOvercounted'
  <2>. SUFFICES ASSUME NEW p \in Cortexes PROVE file'[p].rounds + Pending(p)' <= learned'
    BY DEF RoundsNotOvercounted
  <2>1. file' = file /\ learned' = learned
    BY <1>7
  <2>. QED
    BY <1>11, <1>13, <2>1
<1>15. ASSUME NEW o \in Procs, NEW p \in Cortexes, self'[o].pc = "head", self'[o].at = p
       PROVE  self'[o].rounds[p] + Pending(p)' <= learned'
  <2>1. CASE o = q
    <3>1. p = a /\ self'[o].rounds[p] = file[p].rounds + s.fresh[p]
      BY <1>3, <1>4, <1>9, <1>10, <1>15, <2>1 DEF Process
    <3>2. s.fresh[p] \in Nat /\ learned' = learned
      BY <1>7 DEF Process
    <3>. QED
      BY <1>11, <1>13, <3>1, <3>2
  <2>2. CASE o # q
    <3>1. self'[o] = self[o] /\ learned' = learned
      BY <1>7, <1>10, <2>2
    <3>2. self[o].rounds[p] \in Nat
      BY DEF Counted, Typed, Process
    <3>3. self[o].rounds[p] + Pending(p) <= learned
      BY <1>15, <3>1 DEF Counted
    <3>. QED
      BY <1>11, <1>13, <3>1, <3>2, <3>3
  <2>. QED
    BY <2>1, <2>2
<1>16. \A o \in Procs \ Learners, p \in Cortexes : self'[o].fresh[p] = 0
  <2>. SUFFICES ASSUME NEW o \in Procs \ Learners, NEW p \in Cortexes
                PROVE  self'[o].fresh[p] = 0
    OBVIOUS
  <2>1. self[o].fresh[p] = 0
    BY DEF Counted
  <2>2. t.fresh[p] = IF p = a THEN 0 ELSE s.fresh[p]
    BY <1>5, <1>9 DEF Process
  <2>. QED
    BY <1>1, <1>10, <2>1, <2>2
<1>. QED
  BY <1>12, <1>14, <1>15, <1>16 DEF Counted

LEMMA SaveHeadCounts ==
    ASSUME Counted, NEW q \in Procs, SaveHead(q)
    PROVE  Counted'
<1>1. PICK s \in Process : s = self[q]
  BY DEF Counted, Typed
<1>2. PICK a \in Cortexes : a = s.at
  BY DEF Process
<1>3. PICK n \in Nat : n = s.rounds[a]
  BY DEF Process
<1>4. PICK t : t = [s EXCEPT !.pc = "copy"]
  OBVIOUS
<1>5. /\ s.pc = "head" /\ Become(q, t) /\ learned' = learned
      /\ file' = [file EXCEPT ![a] = [file[a] EXCEPT !.rounds = n]]
  BY <1>1, <1>2, <1>3, <1>4 DEF SaveHead
<1>6. t \in Process /\ t.pc = "copy" /\ t.fresh = s.fresh
  BY <1>4 DEF Process, Pcs
<1>7. /\ self' \in [Procs -> Process]
      /\ self'[q] = t /\ \A o \in Procs : o # q => self'[o] = self[o]
  BY <1>5, <1>6 DEF Counted, Typed, Become
<1>8. /\ Files(file')
      /\ \A p \in Cortexes : file'[p].rounds = IF p = a THEN n ELSE file[p].rounds
  <2>1. \A p \in Cortexes : file[p] \in [rounds : Nat, part : Image]
    BY DEF Counted, Typed, Files
  <2>2. PICK h : h = [file[a] EXCEPT !.rounds = n]
    OBVIOUS
  <2>3. h \in [rounds : Nat, part : Image] /\ h.rounds = n
    BY <2>1, <2>2
  <2>4. file' = [file EXCEPT ![a] = h]
    BY <1>5, <2>2
  <2>. QED
    BY <2>3, <2>4 DEF Counted, Typed, Files
<1>9. \A p \in Cortexes : Pending(p) \in Nat /\ Pending(p)' = Pending(p)
  <2>. SUFFICES ASSUME NEW p \in Cortexes PROVE Pending(p) \in Nat /\ Pending(p)' = Pending(p)
    OBVIOUS
  <2>1. /\ Pending(p) \in Nat /\ Pending(p)' \in Nat
        /\ q \in Learners => Pending(p)' + s.fresh[p] = Pending(p) + t.fresh[p]
        /\ q \notin Learners => Pending(p)' = Pending(p)
    BY <1>1, <1>5, <1>6, PendingMoves DEF Counted
  <2>2. s.fresh[p] \in Nat /\ t.fresh[p] = s.fresh[p]
    BY <1>6 DEF Process
  <2>. QED
    BY <2>1, <2>2
<1>10. Typed'
  BY <1>5, <1>7, <1>8 DEF Counted, Typed
<1>11. RoundsNotOvercounted'
  <2>. SUFFICES ASSUME NEW p \in Cortexes PROVE file'[p].rounds + Pending(p)' <= learned'
    BY DEF RoundsNotOvercounted
  <2>1. file[p].rounds + Pending(p) <= learned
    BY DEF Counted, RoundsNotOvercounted
  <2>2. p = a => n + Pending(p) <= learned
    BY <1>1, <1>2, <1>3, <1>5 DEF Counted
  <2>. QED
    BY <1>5, <1>8, <1>9, <2>1, <2>2
<1>12. ASSUME NEW o \in Procs, NEW p \in Cortexes, self'[o].pc = "head", self'[o].at = p
       PROVE  self'[o].rounds[p] + Pending(p)' <= learned'
  <2>1. self'[o] = self[o]
    BY <1>6, <1>7, <1>12
  <2>. QED
    BY <1>5, <1>9, <1>12, <2>1 DEF Counted
<1>13. \A o \in Procs \ Learners, p \in Cortexes : self'[o].fresh[p] = 0
  BY <1>1, <1>6, <1>7 DEF Counted
<1>. QED
  BY <1>10, <1>11, <1>12, <1>13 DEF Counted

LEMMA SavePartCounts ==
    ASSUME Counted, NEW q \in Procs, NEW w \in Parts, SavePart(q, w)
    PROVE  Counted'
<1>1. PICK s \in Process : s = self[q]
  BY DEF Counted, Typed
<1>2. PICK a \in Cortexes : a = s.at
  BY DEF Process
<1>3. PICK e \in Value(w) : e = s.mem[a][w]
  <2>1. s.mem[a] \in Image
    BY <1>2 DEF Process
  <2>. QED
    BY <2>1, ImageHas
<1>4. PICK c : c = Copied(s, w, "count", "check")
  OBVIOUS
<1>5. /\ s.pc = "copy" /\ w \in s.left /\ Become(q, c) /\ learned' = learned
      /\ file' = [file EXCEPT ![a] = [file[a] EXCEPT !.part = [file[a].part EXCEPT ![w] = e]]]
  BY <1>1, <1>2, <1>3, <1>4, Zenon DEF SavePart
<1>6. c \in Process /\ c.fresh = s.fresh /\ c.pc # "head"
  <2>1. w \in s.left /\ "count" \in Pcs /\ "check" \in Pcs
    BY <1>5 DEF Pcs
  <2>2. /\ c \in Process /\ c.fresh = s.fresh
        /\ c.pc = s.pc \/ c.pc = "count" \/ c.pc = "check"
    BY <1>4, <2>1, CopiedIs
  <2>. QED
    BY <1>5, <2>2
<1>7. Cut(file, file')
  BY <1>5, PartStored DEF Counted, Typed
<1>. QED
  BY <1>1, <1>5, <1>6, <1>7, SameFresh, QuietCounts

LEMMA CommandsCount ==
    ASSUME Counted, NEW t \in Procs, NEW p \in Cortexes,
           Reset(t, p) \/ (\E last \in BOOLEAN : Unfreeze(t, p, last))
    PROVE  Counted'
<1>1. /\ self[t] \in Process /\ Files(file) /\ Cut(file, file)
      /\ file[p] \in [rounds : Nat, part : Image]
  BY SameCut DEF Counted, Typed, Files
<1>2. PICK s : /\ Become(t, s) /\ learned' = learned
               /\ \E pc \in {"count", "scram"} : s = [Off EXCEPT !.pc = pc, !.at = p]
  BY DEF Reset, Unfreeze
<1>3. s \in Process /\ s.pc # "head" /\ Fewer(self[t], s)
  <2>1. s \in Process /\ s.pc # "head" /\ s.fresh = Off.fresh
    BY <1>2, OffFits DEF Process, Pcs
  <2>2. \A r \in Cortexes : Off.fresh[r] = 0 /\ self[t].fresh[r] \in Nat
    BY <1>1 DEF Off, Process
  <2>. QED
    BY <2>1, <2>2 DEF Fewer
<1>4. Cut(file, file')
  <2>1. CASE Reset(t, p)
    <3>1. PICK h : h = [file[p] EXCEPT !.rounds = 0]
      OBVIOUS
    <3>2. h \in [rounds : Nat, part : Image] /\ h.rounds = 0
      BY <1>1, <3>1
    <3>3. file' = [file EXCEPT ![p] = h]
      BY <2>1, <3>1 DEF Reset
    <3>4. /\ Files(file')
          /\ \A r \in Cortexes : file'[r].rounds = IF r = p THEN 0 ELSE file[r].rounds
      BY <1>1, <3>2, <3>3 DEF Files
    <3>5. \A r \in Cortexes : file[r].rounds \in Nat
      BY <1>1 DEF Files
    <3>. QED
      BY <3>4, <3>5 DEF Cut
  <2>2. CASE \E last \in BOOLEAN : Unfreeze(t, p, last)
    <3>1. CASE file' = file
      BY <1>1, <3>1
    <3>2. CASE file' # file
      <4>1. \A y : <<y, 0>> \notin Weights
        BY CortexFileAssumption DEF Weights
      <4>2. PICK w : w \notin Weights /\ file' = [file EXCEPT ![p].part[w] = 0]
        BY <2>2, <3>2, <4>1 DEF Unfreeze
      <4>3. PICK e : e = 0
        OBVIOUS
      <4>4. /\ file' = [file EXCEPT ![p] = [file[p] EXCEPT !.part = [file[p].part EXCEPT ![w] = e]]]
            /\ e \in Value(w)
        BY <4>2, <4>3 DEF Value
      <4>. QED
        BY <1>1, <4>4, PartStored
    <3>. QED
      BY <3>1, <3>2
  <2>. QED
    BY <2>1, <2>2
<1>. QED
  BY <1>2, <1>3, <1>4, QuietCounts

LEMMA ScramCounts ==
    ASSUME Counted, NEW t \in Procs, Scram(t)
    PROVE  Counted'
<1>1. PICK s \in Process : s = self[t] /\ s.at \in Cortexes /\ Files(file)
  BY DEF Counted, Typed, Process
<1>2. CASE ScramEnd(t)
  BY <1>2, StopCounts, SameCut DEF ScramEnd, Counted
<1>3. ASSUME NEW w \in Weights, ScramPart(t, w) PROVE Counted'
  <2>1. PICK r : r = [s EXCEPT !.left = s.left \ {w}]
    OBVIOUS
  <2>2. PICK e : e = {}
    OBVIOUS
  <2>3. /\ s.pc = "scram" /\ learned' = learned /\ Become(t, r)
        /\ file' = [file EXCEPT ![s.at] = [file[s.at] EXCEPT !.part = [file[s.at].part EXCEPT ![w] = e]]]
    BY <1>1, <1>3, <2>1, <2>2, Zenon DEF ScramPart
  <2>4. e \in Value(w)
    BY <2>2 DEF Value, Steps
  <2>5. Cut(file, file')
    BY <1>1, <2>3, <2>4, PartStored
  <2>6. r \in Process /\ r.pc # "head" /\ r.fresh = s.fresh
    BY <2>1, <2>3 DEF Process
  <2>. QED
    BY <1>1, <2>3, <2>5, <2>6, SameFresh, QuietCounts
<1>. QED
  BY <1>2, <1>3 DEF Scram

LEMMA InitCounts == Init => Counted
<1>. SUFFICES ASSUME Init PROVE Counted
  OBVIOUS
<1>1. Typed
  <2>1. \A p \in Cortexes : New(p) \in Image
    BY NewImage
  <2>2. self \in [Procs -> Process] /\ learned \in 0..MaxLearned
    BY OffFits, CortexFileAssumption DEF Init
  <2>. QED
    BY <2>1, <2>2 DEF Init, Typed, Files
<1>2. \A q \in Procs, p \in Cortexes : self[q].fresh[p] = 0 /\ self[q].pc = "off"
  BY DEF Init, Off
<1>3. RoundsNotOvercounted
  <2>. SUFFICES ASSUME NEW p \in Cortexes PROVE file[p].rounds + Pending(p) <= learned
    BY DEF RoundsNotOvercounted
  <2>1. PICK f : f = [l \in Learners |-> self[l].fresh[p]]
    OBVIOUS
  <2>2. f \in [Learners -> Nat] /\ \A l \in Learners : f[l] = 0
    BY <1>2, <2>1, Members
  <2>3. SumFunction(f) = 0
    BY <2>2, SumOfZeros, CortexFileAssumption
  <2>4. Pending(p) = 0
    BY <2>1, <2>3 DEF Pending
  <2>5. file[p].rounds = 0 /\ learned = 0
    BY DEF Init
  <2>. QED
    BY <2>4, <2>5
<1>. QED
  BY <1>1, <1>2, <1>3 DEF Counted

LEMMA NextCounts ==
    ASSUME Counted, [Next]_vars
    PROVE  Counted'
<1>1. CASE UNCHANGED vars
  BY <1>1 DEF vars, Counted, Typed, Files, RoundsNotOvercounted, Pending
<1>2. CASE Next
  <2>1. ASSUME NEW q \in Procs, Start(q) \/ Opening(q) PROVE Counted'
    BY <2>1, OpensCount, TakesCount DEF Opening
  <2>2. ASSUME NEW q \in Procs, Save(q) PROVE Counted'
    <3>1. CASE SaveNothing(q)
      BY <3>1, StopCounts, SameCut DEF SaveNothing, Counted
    <3>. QED
      BY <2>2, <3>1, SaveCountCounts, SaveHeadCounts, SavePartCounts DEF Save
  <2>3. ASSUME NEW l \in Learners, Check(l) \/ Learn(l) PROVE Counted'
    BY <2>3, MovesCount, LearnCounts, Members
  <2>4. ASSUME NEW r \in Procs, Reload(r) \/ (\E w \in Parts : LoadPart(r, w)) PROVE Counted'
    BY <2>4, MovesCount, TakesCount
  <2>5. ASSUME NEW q \in Procs, Finish(q) \/ Kill(q) PROVE Counted'
    BY <2>5, StopCounts, SameCut DEF Finish, Kill, Counted
  <2>. QED
    BY <1>2, <2>1, <2>2, <2>3, <2>4, <2>5, ScramCounts, CommandsCount, Members
       DEF Next, LearnerStep, ReaderStep, ToolStep
<1>. QED
  BY <1>1, <1>2

(***************************************************************************)
(* Rounds are never counted twice, with any learners on the files at once, *)
(* resets, unfreezes and kills at any place: what a learner adds to the    *)
(* count it read is no longer in its new_rounds, and others lose rounds of *)
(* the file but never repeat one.                                          *)
(***************************************************************************)
THEOREM RoundsNeverOvercounted == Spec => []RoundsNotOvercounted
<1>1. Counted => RoundsNotOvercounted
  BY DEF Counted
<1>2. Counted /\ [Next]_vars => Counted'
  BY NextCounts
<1>. QED
  BY <1>1, <1>2, InitCounts, PTL DEF Spec
=============================================================================
