----------------------------- MODULE CortexMake -----------------------------
(***************************************************************************)
(* How a cortex file comes to be: the command make (src/tewel.cc) creates  *)
(* it, opens it and pushes the layers of its spec one after the other, and *)
(* meanwhile other processes, learners here, open it too.  What happens to *)
(* a file that is whole is left to CortexFile.                             *)
(*                                                                         *)
(* push grows the file, which fills it with zeros, and then stores the new *)
(* layer's header through the mapping; the weights are stored at the end,  *)
(* by scram.  create leaves a file alone that is there (O_EXCL), or, with  *)
(* clobber, empties it under whoever has it mapped (O_TRUNC).  A layer is  *)
(* known by the maker whose header it has.                                 *)
(***************************************************************************)
EXTENDS Naturals, Sequences

CONSTANTS
    Makers, Users,   \* processes
    NoMaker,         \* whose header is where there are zeros
    Lines,           \* layers in a maker's spec
    MaxKills         \* bound: processes killed

ASSUME CortexMakeAssumption ==
    /\ Makers \cap Users = {} /\ NoMaker \notin Makers
    /\ Lines \in Nat \ {0} /\ MaxKills \in Nat

VARIABLES
    file,    \* whether it is there, its Head and its layers
    at,      \* where each process is
    basen,   \* the size each process works with, in layers
    pos,     \* the layer it is at in a walk through them
    line,    \* the lines of its spec that a maker has pushed
    kbase,   \* a user's copy of the layers
    early,   \* history: a user has opened the file while no make was done
    raced,   \* history: the file was clobbered under a process
    killed   \* where the processes that were killed were

vars == <<file, at, basen, pos, line, kbase, early, raced, killed>>
Procs == Makers \cup Users

Blank == [of |-> NoMaker, weights |-> "zero"]
Layers == file.layers
Idle == {"off", "made", "refused", "dead"}

Init ==
    /\ file = [there |-> FALSE, head |-> "short", layers |-> <<>>]
    /\ at = [p \in Procs |-> "off"]
    /\ basen = [p \in Procs |-> 0]
    /\ pos = [p \in Procs |-> 1]
    /\ line = [m \in Makers |-> 0]
    /\ kbase = [u \in Users |-> <<>>]
    /\ early = FALSE
    /\ raced = FALSE
    /\ killed = <<>>

Goes(p, place) == at' = [at EXCEPT ![p] = place]

(***************************************************************************)
(* A walk of p through its layers, one a step, which ends at place.        *)
(***************************************************************************)
Walks(p, place) ==
    /\ pos' = [pos EXCEPT ![p] = IF @ < basen[p] THEN @ + 1 ELSE 1]
    /\ Goes(p, IF pos[p] < basen[p] THEN at[p] ELSE place)

(***************************************************************************)
(* The layer that p is at is still there; or it lies beyond the end of the *)
(* file (SIGBUS: a layer is taken to be larger than a page), or its header *)
(* is zeros (_parse_header's assertion).                                   *)
(***************************************************************************)
Gone(p) == pos[p] <= basen[p] /\ pos[p] > Len(Layers)
Torn(p) == pos[p] <= basen[p] /\ pos[p] <= Len(Layers) /\ Layers[pos[p]].of = NoMaker
Sound(p) == pos[p] <= basen[p] /\ ~Gone(p) /\ ~Torn(p)

-----------------------------------------------------------------------------
(* Cortex::create *)

\* Mutated form: without clobber open has no O_EXCL.
CreateAnyway(m, clobber) ==
    /\ at[m] = "off"
    /\ file' = IF clobber \/ ~file.there
               THEN [there |-> TRUE, head |-> "short", layers |-> <<>>]
               ELSE file
    /\ raced' = (raced \/ (clobber /\ \E p \in Procs : at[p] \notin Idle))
    /\ early' = FALSE
    /\ Goes(m, "head")
    /\ UNCHANGED <<basen, pos, line, kbase, killed>>
Create(m, clobber) ==
    /\ at[m] = "off"
    /\ file.there => clobber
    /\ file' = [there |-> TRUE, head |-> "short", layers |-> <<>>]
    /\ raced' = (raced \/ \E p \in Procs : at[p] \notin Idle)
    /\ early' = FALSE
    /\ Goes(m, "head")
    /\ UNCHANGED <<basen, pos, line, kbase, killed>>

CreateRefused(m) ==
    /\ at[m] = "off"
    /\ file.there
    /\ Goes(m, "refused")
    /\ UNCHANGED <<file, basen, pos, line, kbase, early, raced, killed>>

WriteHead(m) ==
    /\ at[m] = "head"
    /\ file' = [file EXCEPT !.head = "good"]
    /\ Goes(m, "fstat")
    /\ UNCHANGED <<basen, pos, line, kbase, early, raced, killed>>

-----------------------------------------------------------------------------
(* Cortex::open: the size of the file, and then what is in it. *)

Start(u) ==
    /\ at[u] = "off"
    /\ file.there
    /\ Goes(u, "fstat")
    /\ UNCHANGED <<file, basen, pos, line, kbase, early, raced, killed>>

Fstat(p) ==
    /\ at[p] = "fstat"
    /\ basen' = [basen EXCEPT ![p] = Len(Layers)]
    /\ Goes(p, IF file.head = "short" THEN "dead" ELSE "open")
    /\ UNCHANGED <<file, pos, line, kbase, early, raced, killed>>

Whole(p) ==
    /\ file.head = "good"
    /\ basen[p] <= Len(Layers)
    /\ \A y \in 1..basen[p] : Layers[y].of # NoMaker

Open(p) ==
    /\ at[p] = "open"
    /\ Whole(p)
    /\ Goes(p, IF p \in Makers THEN "push" ELSE "prepare")
    /\ IF p \in Makers THEN UNCHANGED <<early, kbase>>
       ELSE /\ early' = (early \/ \E m \in Makers : at[m] \notin Idle)
            /\ kbase' = [kbase EXCEPT ![p] = <<>>]
    /\ UNCHANGED <<file, basen, pos, line, raced, killed>>

OpenAborts(p) ==
    /\ at[p] = "open"
    /\ ~Whole(p)
    /\ Goes(p, "dead")
    /\ UNCHANGED <<file, basen, pos, line, kbase, early, raced, killed>>

-----------------------------------------------------------------------------
(* make: push of every line of the spec, and scram *)

\* ftruncate, which also cuts off what another maker has pushed beyond
Resized(s, size) == [y \in 1..size |-> IF y <= Len(s) THEN s[y] ELSE Blank]

Grow(m) ==
    /\ at[m] = "push"
    /\ file' = [file EXCEPT !.layers = Resized(@, basen[m] + 1),
                            !.head = IF @ = "short" THEN "zero" ELSE @]
    /\ Goes(m, "header")
    /\ UNCHANGED <<basen, pos, line, kbase, early, raced, killed>>

PutHeader(m) ==
    /\ at[m] = "header"
    /\ basen[m] < Len(Layers)
    /\ file' = [file EXCEPT !.layers[basen[m] + 1].of = m]
    /\ basen' = [basen EXCEPT ![m] = @ + 1]
    /\ line' = [line EXCEPT ![m] = @ + 1]
    /\ Goes(m, IF line[m] + 1 < Lines THEN "push" ELSE "scram")
    /\ UNCHANGED <<pos, kbase, early, raced, killed>>

Scram(m) ==
    /\ at[m] = "scram"
    /\ Sound(m)
    /\ file' = [file EXCEPT !.layers[pos[m]].weights = "scrammed"]
    /\ Walks(m, "made")
    /\ UNCHANGED <<basen, line, kbase, early, raced, killed>>

\* the spec, or its next line, is not as it should be: make ends there
SpecError(m) ==
    /\ at[m] = "push"
    /\ Goes(m, "dead")
    /\ UNCHANGED <<file, basen, pos, line, kbase, early, raced, killed>>

MakeDies(m) ==
    /\ \/ at[m] = "header" /\ basen[m] >= Len(Layers)
       \/ at[m] = "scram" /\ (Gone(m) \/ Torn(m))
    /\ Goes(m, "dead")
    /\ UNCHANGED <<file, basen, pos, line, kbase, early, raced, killed>>

-----------------------------------------------------------------------------
(* A user: prepare copies the layers into kbase, learning changes them     *)
(* there, save copies headers and weights back.                            *)

Prepare(u) ==
    /\ at[u] = "prepare"
    /\ Sound(u)
    /\ kbase' = [kbase EXCEPT ![u] = Append(@, Layers[pos[u]])]
    /\ Walks(u, "learn")
    /\ UNCHANGED <<file, basen, line, early, raced, killed>>

Learned(r) == [r EXCEPT !.weights = IF @ = "zero" THEN "learned from zero" ELSE @]
Learn(u) ==
    /\ at[u] = "learn"
    /\ kbase' = [kbase EXCEPT ![u] = [y \in DOMAIN @ |-> Learned(@[y])]]
    /\ Goes(u, "save")
    /\ UNCHANGED <<file, basen, pos, line, early, raced, killed>>

Save(u) ==
    /\ at[u] = "save"
    /\ ~Gone(u)
    /\ file' = [file EXCEPT !.layers[pos[u]] = kbase[u][pos[u]]]
    /\ Walks(u, "learn")
    /\ UNCHANGED <<basen, line, kbase, early, raced, killed>>

Close(u) ==
    /\ at[u] = "learn"
    /\ Goes(u, "off")
    /\ UNCHANGED <<file, basen, pos, line, kbase, early, raced, killed>>

\* prepare asserts ic > 0, which a file without layers does not have
UserDies(u) ==
    /\ \/ at[u] = "prepare" /\ (basen[u] = 0 \/ Torn(u))
       \/ at[u] \in {"prepare", "save"} /\ Gone(u)
    /\ Goes(u, "dead")
    /\ UNCHANGED <<file, basen, pos, line, kbase, early, raced, killed>>

Kill(p) ==
    /\ at[p] \notin Idle
    /\ Len(killed) < MaxKills
    /\ killed' = Append(killed, at[p])
    /\ Goes(p, "dead")
    /\ UNCHANGED <<file, basen, pos, line, kbase, early, raced>>

-----------------------------------------------------------------------------
Next ==
    \/ \E m \in Makers :
          \/ \E clobber \in BOOLEAN : Create(m, clobber)
          \/ CreateRefused(m) \/ WriteHead(m)
          \/ Grow(m) \/ PutHeader(m) \/ Scram(m) \/ SpecError(m) \/ MakeDies(m)
    \/ \E u \in Users :
          Start(u) \/ Prepare(u) \/ Learn(u) \/ Save(u) \/ Close(u) \/ UserDies(u)
    \/ \E p \in Procs : Fstat(p) \/ Open(p) \/ OpenAborts(p) \/ Kill(p)

Spec == Init /\ [][Next]_vars

-----------------------------------------------------------------------------
(***************************************************************************)
(* Who has copied the layers of a file, one that is still being made or    *)
(* whose make was killed included, has the first layers of one spec.       *)
(***************************************************************************)
CopiesAreOneMakes ==
    \A u \in Users : at[u] \in {"learn", "save"} =>
        \E m \in Makers : \A y \in 1..basen[u] : kbase[u][y].of = m

(***************************************************************************)
(* A file cannot be opened only while a make is between creating it and    *)
(* writing its Head, or between growing it and writing a header, or when   *)
(* one was killed there; a spec that is found wrong half way leaves a file *)
(* that opens.                                                             *)
(***************************************************************************)
Opens ==
    file.head = "good" /\ \A y \in 1..Len(Layers) : Layers[y].of # NoMaker
Windows == {"head", "header"}
BadOnlyAmid ==
    file.there /\ ~Opens =>
        \/ \E m \in Makers : at[m] \in Windows
        \/ \E y \in 1..Len(killed) : killed[y] \in Windows

(***************************************************************************)
(* What a make has finished is all of its spec, every layer with weights   *)
(* that scram has drawn or that were learned from those, if no user came   *)
(* before it was done: such a user has loaded zeros, and saves after scram *)
(* what it has learned from them.                                          *)
(***************************************************************************)
MadeWhole ==
    file.there /\ (\A m \in Makers : at[m] \in {"off", "made", "refused"}) =>
        /\ Len(Layers) = Lines
        /\ \E m \in Makers : at[m] = "made" /\ \A y \in 1..Lines : Layers[y].of = m
        /\ ~early => \A y \in 1..Lines : Layers[y].weights = "scrammed"

(***************************************************************************)
(* What a make promises to those who open its file, before and after it is *)
(* done, unless a file was clobbered under another process.                *)
(***************************************************************************)
WholeChains == ~raced => CopiesAreOneMakes /\ BadOnlyAmid /\ MadeWhole
=============================================================================
