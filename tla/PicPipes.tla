------------------------------ MODULE PicPipes ------------------------------
(***************************************************************************)
(* Picreader and Picwriter (src/picpipes.cc): pictures are read from, and  *)
(* written to, a child process through a pipe, or a plain file when the    *)
(* name ends in .ppm.  At most one of each is open at a time: "in" names   *)
(* the Picreader, its pipe and its child, "out" the Picwriter's.           *)
(*                                                                         *)
(* No end of a pipe is closed on exec, so a child also holds the ends that *)
(* main held when it was forked: end of file, SIGPIPE and with them the    *)
(* waits in close depend on who was forked when.                           *)
(*                                                                         *)
(* The operations of main are given here as the effects of their system    *)
(* calls; Synth says when main makes them.                                 *)
(***************************************************************************)
EXTENDS Naturals, Sequences

CONSTANTS Parts,     \* a picture goes through a pipe in so many parts
          PipeN,     \* the parts a pipe holds
          MaxDeaths  \* bound: how many children die before their end

ASSUME PipeAssumption == Parts \in Nat \ {0} /\ PipeN \in Nat \ {0} /\ MaxDeaths \in Nat

Ends == {"in", "out"}
Procs == {"main"} \cup Ends

VARIABLES
    fp,        \* main's FILE for each end: "none", a "pipe" or a "file"
    readers,   \* the processes that hold the read end of each pipe
    writers,   \* the processes that hold the write end of each pipe
    data,      \* the parts in each pipe or file
    child,     \* each end's child: "none", "runs" or "ended" (a zombie)
    left,      \* the parts the reader's child has yet to write
    got,       \* the parts the writer's child has read
    buf,       \* the part that stays in the buffer of the Picwriter's FILE
    pend,      \* the parts that main is writing, or flushing
    deaths     \* how many children died before their end

pipeVars == <<fp, readers, writers, data, child, left, got, buf, pend, deaths>>

Cut(picture) == [n \in 1..Parts |-> <<picture, n>>]

PipesInit ==
    /\ fp = [e \in Ends |-> "none"]
    /\ readers = [e \in Ends |-> {}]
    /\ writers = [e \in Ends |-> {}]
    /\ data = [e \in Ends |-> <<>>]
    /\ child = [e \in Ends |-> "none"]
    /\ left = <<>> /\ got = <<>> /\ buf = <<>> /\ pend = <<>>
    /\ deaths = 0

(***************************************************************************)
(* What holders of an end become when main forks the child e.              *)
(***************************************************************************)
Inherited(holders, e) == [o \in Ends |-> holders[o] \cup (IF "main" \in holders[o] THEN {e} ELSE {})]

OpenReader(parts) ==
    /\ fp' = [fp EXCEPT !["in"] = "pipe"]
    /\ readers' = [Inherited(readers, "in") EXCEPT !["in"] = {"main"}]
    /\ writers' = [Inherited(writers, "in") EXCEPT !["in"] = {"in"}]
    /\ child' = [child EXCEPT !["in"] = "runs"]
    /\ left' = parts
    /\ data' = [data EXCEPT !["in"] = <<>>]
    /\ UNCHANGED <<got, buf, pend, deaths>>

OpenReaderFile(parts) ==
    /\ fp' = [fp EXCEPT !["in"] = "file"]
    /\ data' = [data EXCEPT !["in"] = parts]
    /\ UNCHANGED <<readers, writers, child, left, got, buf, pend, deaths>>

\* Mutated form: the writer's child keeps the write end of its own pipe.
OpenWriterOwnEnd ==
    /\ fp' = [fp EXCEPT !["out"] = "pipe"]
    /\ readers' = [Inherited(readers, "out") EXCEPT !["out"] = {"out"}]
    /\ writers' = [Inherited(writers, "out") EXCEPT !["out"] = {"main", "out"}]
    /\ child' = [child EXCEPT !["out"] = "runs"]
    /\ data' = [data EXCEPT !["out"] = <<>>]
    /\ got' = <<>>
    /\ UNCHANGED <<left, buf, pend, deaths>>
OpenWriter ==
    /\ fp' = [fp EXCEPT !["out"] = "pipe"]
    /\ readers' = [Inherited(readers, "out") EXCEPT !["out"] = {"out"}]
    /\ writers' = [Inherited(writers, "out") EXCEPT !["out"] = {"main"}]
    /\ child' = [child EXCEPT !["out"] = "runs"]
    /\ data' = [data EXCEPT !["out"] = <<>>]
    /\ got' = <<>>
    /\ UNCHANGED <<left, buf, pend, deaths>>

OpenWriterFile ==
    /\ fp' = [fp EXCEPT !["out"] = "file"]
    /\ got' = <<>>
    /\ UNCHANGED <<readers, writers, data, child, left, buf, pend, deaths>>

-----------------------------------------------------------------------------
(* load_ppm and save_ppm, part by part; a FILE keeps what does not fill    *)
(* its buffer.                                                             *)

Readable == data["in"] # <<>>
AtEof == ~Readable /\ (fp["in"] = "pipe" => writers["in"] = {})
TakePart ==
    /\ data' = [data EXCEPT !["in"] = Tail(@)]
    /\ UNCHANGED <<fp, readers, writers, child, left, got, buf, pend, deaths>>

Save(picture) ==
    /\ pend' = buf \o SubSeq(Cut(picture), 1, Parts - 1)
    /\ buf' = <<Cut(picture)[Parts]>>
    /\ UNCHANGED <<fp, readers, writers, data, child, left, got, deaths>>

\* Mutated form: what the buffer holds is lost at fclose.
Unflushed ==
    /\ buf' = <<>>
    /\ UNCHANGED <<fp, readers, writers, data, child, left, got, pend, deaths>>
Flush ==
    /\ pend' = buf
    /\ buf' = <<>>
    /\ UNCHANGED <<fp, readers, writers, data, child, left, got, deaths>>

Broken == fp["out"] = "pipe" /\ readers["out"] = {}
PushPart ==
    /\ pend # <<>>
    /\ IF fp["out"] = "file"
       THEN got' = Append(got, Head(pend)) /\ UNCHANGED data
       ELSE /\ Len(data["out"]) < PipeN
            /\ ~Broken
            /\ data' = [data EXCEPT !["out"] = Append(@, Head(pend))]
            /\ UNCHANGED got
    /\ pend' = Tail(pend)
    /\ UNCHANGED <<fp, readers, writers, child, left, buf, deaths>>

(***************************************************************************)
(* close: main lets its end go, then waits for the child.                  *)
(***************************************************************************)
Without(holders, p) == [o \in Ends |-> holders[o] \ {p}]
LetGo(e) ==
    /\ fp' = [fp EXCEPT ![e] = "none"]
    /\ readers' = [readers EXCEPT ![e] = @ \ {"main"}]
    /\ writers' = [writers EXCEPT ![e] = @ \ {"main"}]
    /\ data' = IF fp[e] = "file" THEN [data EXCEPT ![e] = <<>>] ELSE data
    /\ UNCHANGED <<child, left, got, buf, pend, deaths>>
Reap(e) ==
    /\ child[e] # "runs"
    /\ child' = [child EXCEPT ![e] = "none"]
    /\ UNCHANGED <<fp, readers, writers, data, left, got, buf, pend, deaths>>

(***************************************************************************)
(* Main dies: by an assertion, or by SIGPIPE, which nothing in the synth   *)
(* command catches.                                                        *)
(***************************************************************************)
MainDies ==
    /\ readers' = Without(readers, "main")
    /\ writers' = Without(writers, "main")
    /\ fp' = [e \in Ends |-> "none"]
    /\ buf' = <<>> /\ pend' = <<>>
    /\ UNCHANGED <<data, child, left, got, deaths>>

-----------------------------------------------------------------------------
(* The children: programs like picreader.pl and vidwriter.pl.              *)

Exits(e) ==
    /\ child' = [child EXCEPT ![e] = "ended"]
    /\ readers' = Without(readers, e)
    /\ writers' = Without(writers, e)

ChildWrites ==
    /\ child["in"] = "runs"
    /\ left # <<>>
    /\ readers["in"] # {}
    /\ Len(data["in"]) < PipeN
    /\ data' = [data EXCEPT !["in"] = Append(@, Head(left))]
    /\ left' = Tail(left)
    /\ UNCHANGED <<fp, readers, writers, child, got, buf, pend, deaths>>

(***************************************************************************)
(* The reader's child has written all, or nobody can read it any more.     *)
(***************************************************************************)
ReaderEnds ==
    /\ child["in"] = "runs"
    /\ left = <<>> \/ readers["in"] = {}
    /\ Exits("in")
    /\ UNCHANGED <<fp, data, left, got, buf, pend, deaths>>

ChildReads ==
    /\ child["out"] = "runs"
    /\ data["out"] # <<>>
    /\ got' = Append(got, Head(data["out"]))
    /\ data' = [data EXCEPT !["out"] = Tail(@)]
    /\ UNCHANGED <<fp, readers, writers, child, left, buf, pend, deaths>>

WriterEnds ==
    /\ child["out"] = "runs"
    /\ data["out"] = <<>>
    /\ writers["out"] = {}
    /\ Exits("out")
    /\ UNCHANGED <<fp, data, left, got, buf, pend, deaths>>

ChildDies(e) ==
    /\ deaths < MaxDeaths
    /\ child[e] = "runs"
    /\ deaths' = deaths + 1
    /\ Exits(e)
    /\ UNCHANGED <<fp, data, left, got, buf, pend>>
=============================================================================
