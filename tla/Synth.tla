------------------------------- MODULE Synth --------------------------------
(***************************************************************************)
(* The synth command of src/tewel.cc: pick a sample from the source,       *)
(* synthesise a picture from it and place that in the sink, until the      *)
(* limit or the end of the source; and the pairs that learnfunc trains on. *)
(* A source is a tree or a video, read through a Picreader; a sink is a    *)
(* video or pictures, written through Picwriters, or plain.                *)
(*                                                                         *)
(* Main runs the calls of todo, one after the other, and its children run  *)
(* beside it.  scene, chosen first, is what the command line asks for.     *)
(***************************************************************************)
EXTENDS PicPipes, Kleption, Integers

CONSTANTS Scenes     \* the command lines, and the sources they are given

\* The two files of a pair have names that end alike, and so no raw file is
\* paired with a picture.  The id of a picture has no v.
ASSUME SceneAssumption ==
    \A s \in Scenes :
       /\ s.cmd \in {"synth", "pairs"} /\ s.limit \in Int
       /\ IsTree(s.tree) /\ IsTree(s.tgt) /\ s.frames \in Nat
       /\ s.cmd = "pairs" =>
             \A n \in DOMAIN s.tree \cap DOMAIN s.tgt : s.tree[n].kind = "u8" => s.tgt[n].kind # "pic"
       /\ s.refs \in Seq([of : Seq(Nat), v : Nat, x : Nat])
       /\ \A k \in 1..Len(s.refs) :
             \/ s.refs[k].of \in DOMAIN s.tree /\ s.tree[s.refs[k].of].kind = "u8"
             \/ s.refs[k].v = 0

VARIABLES
    scene,     \* the command, its source, its sink and its options
    at,        \* main: "starts", "runs", "ended", "aborted" or in "error"
    todo,      \* the calls that main has before it
    kl,        \* the source's Kleption: what is loaded, and the idi
    tkl,       \* the target's
    line,      \* how many lines of refs were read
    frames,    \* VID: how many samples were picked
    have,      \* how many parts of a picture were read
    dat,       \* VID: the frame in dat
    hand,      \* the sample that was picked last, and its id
    i,         \* the rounds of the loop
    name,      \* the file that the Picwriter is for
    disk,      \* what was written, by name
    log        \* history: what was placed, or paired

mainVars == <<scene, at, todo, kl, tkl, line, frames, have, dat, hand, i, name, disk, log>>
vars == <<mainVars, pipeVars>>
sourceVars == <<kl, tkl, line, frames>>
readVars == <<have, dat>>
sinkVars == <<name, disk>>
loopVars == <<hand, i, log>>

Source == KindOf(scene.src.given, scene.src.onDisk, scene.src.ends, FALSE, scene.opt.trav)
Sink == KindOf(scene.out.given, scene.out.onDisk, scene.out.ends, TRUE, "scan")

(***************************************************************************)
(* Main's calls.  "open in" is of a node; the others need no more.         *)
(***************************************************************************)
C(call) == [call |-> call, of |-> <<>>]
At(call) == at = "runs" /\ todo # <<>> /\ Head(todo).call = call
Then(calls) == todo' = calls \o Tail(todo)

Load1(n) == <<[call |-> "open in", of |-> n], C("pic"), C("close in")>>
Loads(reads) == [k \in 1..(3 * Len(reads)) |-> Load1(reads[(k + 2) \div 3])[((k - 1) % 3) + 1]]
LoadVid == <<C("open in"), C("first")>>
Finish == <<C("close in"), C("close out"), C("exit")>>

\* The sink's file, if there is one, has the name <<>>, and a picture or a sample.
There == IF scene.out.onDisk = "file" THEN {<<>>} ELSE {}
Was == IF Sink \in {"vid", "dir", "pic"} THEN Cut(NoSample) ELSE <<NoSample>>

Init ==
    /\ scene \in Scenes
    /\ at = "starts" /\ todo = <<>>
    /\ kl = Fresh(scene.tree) /\ tkl = Fresh(scene.tgt)
    /\ line = 0 /\ frames = 0 /\ have = 0 /\ dat = <<>> /\ i = 0
    /\ hand = [sample |-> NoSample, id |-> NoSample]
    /\ name = <<>>
    /\ disk = [n \in There |-> Was]
    /\ log = <<>>
    /\ PipesInit

(***************************************************************************)
(* The source is made and loaded, then the sink is made.                   *)
(***************************************************************************)
Start ==
    /\ at = "starts"
    /\ IF Source = "error" THEN at' = "error" /\ UNCHANGED <<todo, kl>>
       ELSE /\ at' = "runs"
            /\ IF scene.cmd = "pairs" THEN todo' = <<C("top")>> /\ UNCHANGED kl
               ELSE IF Source = "vid" THEN todo' = LoadVid \o <<C("sink"), C("top")>> /\ UNCHANGED kl
               ELSE /\ todo' = Loads(Reads(scene.tree, <<>>, kl)) \o <<C("sink"), C("top")>>
                    /\ kl' = Load(<<>>, kl)
    /\ UNCHANGED <<scene, tkl, line, frames, readVars, sinkVars, loopVars, pipeVars>>

MakeSink ==
    /\ At("sink")
    /\ IF Sink = "error" THEN at' = "error" /\ todo' = <<>> /\ MainDies
       ELSE Then(<<>>) /\ UNCHANGED <<at, pipeVars>>
    /\ UNCHANGED <<scene, sourceVars, readVars, sinkVars, loopVars>>

(***************************************************************************)
(* An assertion fails, or SIGPIPE is delivered.                            *)
(***************************************************************************)
Aborts ==
    /\ at' = "aborted" /\ todo' = <<>>
    /\ MainDies
    /\ UNCHANGED <<scene, sourceVars, readVars, sinkVars, loopVars>>

-----------------------------------------------------------------------------
(* The loop. *)

\* Mutated form: one round more than the limit.
TopLate ==
    /\ At("top")
    /\ todo' = IF scene.limit >= 0 /\ i > scene.limit THEN Finish
               ELSE <<C("pick"), C(IF scene.cmd = "pairs" THEN "find" ELSE "place")>>
    /\ UNCHANGED <<scene, at, sourceVars, readVars, sinkVars, loopVars, pipeVars>>
Top ==
    /\ At("top")
    /\ todo' = IF scene.limit >= 0 /\ i >= scene.limit THEN Finish
               ELSE <<C("pick"), C(IF scene.cmd = "pairs" THEN "find" ELSE "place")>>
    /\ UNCHANGED <<scene, at, sourceVars, readVars, sinkVars, loopVars, pipeVars>>

(***************************************************************************)
(* pick, of a tree.                                                        *)
(***************************************************************************)
PickSample ==
    /\ At("pick")
    /\ Source # "vid" /\ scene.opt.trav # "refs"
    /\ \E r \in Pick(scene.tree, scene.opt, kl) :
          \/ /\ r.ret # "abort"
             /\ kl' = r.st
             /\ todo' = Loads(r.reads) \o IF r.ret = "sample" THEN Tail(todo) ELSE Finish
             /\ hand' = IF r.ret = "sample" THEN [sample |-> r.sample, id |-> r.id] ELSE hand
             /\ UNCHANGED <<scene, at, tkl, line, frames, readVars, sinkVars, i, log, pipeVars>>
          \/ r.ret = "abort" /\ Aborts

(***************************************************************************)
(* pick with a list of ids: the next line, and at the end of the list the  *)
(* first one again, or the end.                                            *)
(***************************************************************************)
PickRef ==
    /\ At("pick")
    /\ scene.opt.trav = "refs"
    /\ LET over == line >= Len(scene.refs)
           next == IF over THEN 1 ELSE line + 1
           found == Find(scene.tree, scene.refs[next])
       IN  IF scene.refs = <<>> THEN Aborts
           ELSE IF over /\ ~scene.opt.repeat
           THEN /\ line' = 0
                /\ todo' = Finish
                /\ UNCHANGED <<scene, at, kl, tkl, frames, readVars, sinkVars, loopVars, pipeVars>>
           ELSE IF found = NoSample THEN Aborts
           ELSE /\ line' = next
                /\ kl' = AfterFind(scene.refs[next], kl)
                /\ hand' = [sample |-> found, id |-> scene.refs[next]]
                /\ Then(Loads(Reads(scene.tree, found.of, kl)))
                /\ UNCHANGED <<scene, at, tkl, frames, readVars, sinkVars, i, log, pipeVars>>

(***************************************************************************)
(* pick, of a video: the frame in dat, and the next one is read; a source  *)
(* that was through is opened again, though nothing more is picked from it.*)
(***************************************************************************)
PickFrame ==
    /\ At("pick")
    /\ Source = "vid"
    /\ IF fp["in"] = "none"
       THEN todo' = LoadVid \o Finish /\ UNCHANGED <<hand, frames>>
       ELSE /\ \E x \in Crops(scene.tree, <<>>, scene.opt) :
                  hand' = [sample |-> [of |-> dat, v |-> frames, x |-> x], id |-> [of |-> <<>>, v |-> frames, x |-> x]]
            /\ frames' = frames + 1
            /\ Then(<<C("next")>>)
    /\ UNCHANGED <<scene, at, kl, tkl, line, readVars, sinkVars, i, log, pipeVars>>

-----------------------------------------------------------------------------
(* Reading: a frame for load, a frame for pick, or a picture.              *)

Frames == [k \in 1..(scene.frames * Parts) |-> <<<<((k - 1) \div Parts) + 1>>, ((k - 1) % Parts) + 1>>]
OpenIn ==
    /\ At("open in")
    /\ LET n == Head(todo).of
           parts == IF Source = "vid" /\ scene.cmd = "synth" THEN Frames ELSE Cut(n)
           plain == Source = "vid" /\ scene.src.plain
       IN  IF plain THEN OpenReaderFile(parts) ELSE OpenReader(parts)
    /\ Then(<<>>)
    /\ UNCHANGED <<scene, at, sourceVars, readVars, sinkVars, loopVars>>

Reading == At("first") \/ At("next") \/ At("pic")
Read ==
    /\ Reading
    /\ Readable
    /\ TakePart
    /\ have' = (have + 1) % Parts
    /\ dat' = Head(data["in"])[1]
    /\ IF have + 1 = Parts THEN Then(<<>>) ELSE UNCHANGED todo
    /\ UNCHANGED <<scene, at, sourceVars, sinkVars, loopVars>>

(***************************************************************************)
(* The input ends.  At the end of a frame a video is through; anywhere     *)
(* else main dies: load_ppm asserts the rest of a picture.  A picture of   *)
(* which the child, when it died, had written nothing, load takes no       *)
(* notice of, and its w and h are anything: main closes the reader, whose  *)
(* child is over, and dies at the error about the size or at pick's        *)
(* assert(dat).  Here it dies at once, as nothing that others do comes     *)
(* between; that it ends well, when the size happens to fit and the scan   *)
(* is over before the picture is picked again, is left out.                *)
(***************************************************************************)
\* Mutated form: the source that repeats is not opened again.
ReadEofOnce ==
    /\ Reading
    /\ AtEof
    /\ IF At("next") /\ have = 0
       THEN /\ Then(<<C("close in")>>)
            /\ UNCHANGED <<scene, at, sourceVars, readVars, sinkVars, loopVars, pipeVars>>
       ELSE Aborts
ReadEof ==
    /\ Reading
    /\ AtEof
    /\ IF At("next") /\ have = 0
       THEN /\ Then(<<C("close in")>> \o IF scene.opt.repeat THEN LoadVid ELSE <<>>)
            /\ UNCHANGED <<scene, at, sourceVars, readVars, sinkVars, loopVars, pipeVars>>
       ELSE Aborts

-----------------------------------------------------------------------------
(***************************************************************************)
(* place.  A video's writer is opened for the first picture and kept, each *)
(* picture has a writer of its own.  In a directory the name is the id     *)
(* without its last part, unless there is no other.                        *)
(***************************************************************************)
NameOf(id) == IF Sink # "dir" THEN <<>> ELSE IF id.of = <<>> THEN <<id.v, id.x>> ELSE id.of
Plain == IF Sink = "dir" THEN hand.id.of = <<>> ELSE scene.out.plain

PlacePicture ==
    /\ At("place")
    /\ Sink \in {"vid", "dir", "pic"}
    /\ name' = NameOf(hand.id)
    /\ todo' = (IF Sink # "vid" THEN <<C("open out"), C("write"), C("push"), C("close out")>>
                ELSE IF fp["out"] = "none" THEN <<C("open out"), C("write"), C("push")>>
                ELSE <<C("write"), C("push")>>) \o <<C("top")>>
    /\ i' = i + 1
    /\ log' = Append(log, hand)
    /\ UNCHANGED <<scene, at, sourceVars, readVars, hand, disk, pipeVars>>

(***************************************************************************)
(* Raw samples and lists of ids are appended, to what was there or to      *)
(* nothing; statistics of pixels (RVG) are kept until the end; a display   *)
(* may have been closed.                                                   *)
(***************************************************************************)
Entry(sink, h) == IF sink = "ref" THEN h.id ELSE h.sample

PlacePlain ==
    /\ At("place")
    /\ Sink \in {"u8", "ref", "rvg", "sdl"}
    /\ IF Sink \in {"u8", "ref"}
       THEN LET old == IF <<>> \in DOMAIN disk /\ (i > 0 \/ scene.append) THEN disk[<<>>] ELSE <<>>
            IN  disk' = [n \in {<<>>} |-> Append(old, Entry(Sink, hand))]
       ELSE UNCHANGED disk
    /\ \/ todo' = <<C("top")>> /\ i' = i + 1
       \/ Sink = "sdl" /\ todo' = Finish /\ UNCHANGED i
    /\ log' = Append(log, hand)
    /\ UNCHANGED <<scene, at, sourceVars, readVars, hand, name, pipeVars>>

OpenOut ==
    /\ At("open out")
    /\ IF Plain THEN OpenWriterFile ELSE OpenWriter
    /\ Then(<<>>)
    /\ UNCHANGED <<scene, at, sourceVars, readVars, sinkVars, loopVars>>

Write ==
    /\ At("write")
    /\ Save(hand.sample)
    /\ Then(<<>>)
    /\ UNCHANGED <<scene, at, sourceVars, readVars, sinkVars, loopVars>>

Push ==
    /\ At("push")
    /\ \/ PushPart /\ UNCHANGED todo
       \/ pend = <<>> /\ Then(<<>>) /\ UNCHANGED pipeVars
    /\ UNCHANGED <<scene, at, sourceVars, readVars, sinkVars, loopVars>>
SigPipe == At("push") /\ pend # <<>> /\ Broken /\ Aborts

-----------------------------------------------------------------------------
(***************************************************************************)
(* close of either end; what has none open does nothing.                   *)
(***************************************************************************)
CloseIn ==
    /\ At("close in")
    /\ IF fp["in"] = "none" THEN Then(<<>>) /\ UNCHANGED pipeVars
       ELSE Then(<<C("reap in")>>) /\ LetGo("in")
    /\ UNCHANGED <<scene, at, sourceVars, readVars, sinkVars, loopVars>>
CloseOut ==
    /\ At("close out")
    /\ IF fp["out"] = "none" THEN Then(<<>>) /\ UNCHANGED pipeVars
       ELSE Then(<<C("push"), C("let go out"), C("reap out")>>) /\ Flush
    /\ UNCHANGED <<scene, at, sourceVars, readVars, sinkVars, loopVars>>
LetGoOut ==
    /\ At("let go out")
    /\ LetGo("out")
    /\ Then(<<>>)
    /\ UNCHANGED <<scene, at, sourceVars, readVars, sinkVars, loopVars>>
ReapIn ==
    /\ At("reap in")
    /\ Reap("in")
    /\ Then(<<>>)
    /\ UNCHANGED <<scene, at, sourceVars, readVars, sinkVars, loopVars>>
ReapOut ==
    /\ At("reap out")
    /\ Reap("out")
    /\ Then(<<>>)
    /\ disk' = [n \in DOMAIN disk \cup {name} |-> IF n = name THEN got ELSE disk[n]]
    /\ UNCHANGED <<scene, at, sourceVars, readVars, name, loopVars>>

(***************************************************************************)
(* The sink's destructor saves the statistics, which one pixel is not      *)
(* enough for.                                                             *)
(***************************************************************************)
Exit ==
    /\ At("exit")
    /\ IF Sink = "rvg" /\ Len(log) * scene.pixels = 1 THEN Aborts
       ELSE /\ at' = "ended" /\ todo' = <<>>
            /\ UNCHANGED <<scene, sourceVars, readVars, sinkVars, loopVars, pipeVars>>

-----------------------------------------------------------------------------
(***************************************************************************)
(* pick_pair's find of the same id in the target, and the round of         *)
(* learning that follows.                                                  *)
(***************************************************************************)
FindPair ==
    /\ At("find")
    /\ LET found == Find(scene.tgt, hand.id)
       IN  IF found = NoSample THEN Aborts
           ELSE /\ tkl' = AfterFind(hand.id, tkl)
                /\ log' = Append(log, [sample |-> hand.sample, id |-> found])
                /\ i' = i + 1
                /\ todo' = Loads(Reads(scene.tgt, found.of, tkl)) \o <<C("top")>>
                /\ UNCHANGED <<scene, at, kl, line, frames, readVars, hand, sinkVars, pipeVars>>

MainStep ==
    \/ Start \/ MakeSink \/ Top \/ PickSample \/ PickRef \/ PickFrame
    \/ OpenIn \/ Read \/ ReadEof \/ CloseIn \/ ReapIn
    \/ PlacePicture \/ PlacePlain \/ OpenOut \/ Write \/ Push \/ SigPipe
    \/ CloseOut \/ LetGoOut \/ ReapOut \/ Exit \/ FindPair
ReaderChild == (ChildWrites \/ ReaderEnds) /\ UNCHANGED mainVars
WriterChild == (ChildReads \/ WriterEnds) /\ UNCHANGED mainVars
Death == (\E e \in Ends : ChildDies(e)) /\ UNCHANGED mainVars
Next == MainStep \/ ReaderChild \/ WriterChild \/ Death

(***************************************************************************)
(* Three processes run until they end; nobody has to close the display,    *)
(* and no child has to die before its end.                                 *)
(***************************************************************************)
Spec == Init /\ [][Next]_vars /\ WF_vars(MainStep) /\ WF_vars(ReaderChild) /\ WF_vars(WriterChild)

-----------------------------------------------------------------------------
Lexi(p, q) == \E k \in 1..Len(p) : k <= Len(q) /\ p[k] < q[k] /\ \A l \in 1..(k - 1) : p[l] = q[l]
Rank(s) ==
    IF Source = "vid" THEN s.of[1] - 1
    ELSE Cardinality({t \in Samples(scene.tree) : Lexi(t.of, s.of) \/ (t.of = s.of /\ t.v < s.v)})
All == IF Source = "vid" THEN scene.frames ELSE Cardinality(Samples(scene.tree))

(***************************************************************************)
(* A scan places every sample of the source once a pass, in the order of   *)
(* the names and of the samples in a file, pass after pass when it repeats *)
(* and one pass when it does not, however the calls of load, unload and    *)
(* pick in the tree share their idi, and with lowmem.                      *)
(***************************************************************************)
ScanOrder ==
    scene.cmd = "synth" /\ scene.opt.trav = "scan" /\ deaths = 0 =>
        /\ \A j \in 1..Len(log) : Rank(log[j].sample) = (j - 1) % All
        /\ at = "ended" /\ Sink # "sdl" =>
              Len(log) = IF scene.limit >= 0 /\ (scene.opt.repeat \/ scene.limit < All) THEN scene.limit ELSE All

(***************************************************************************)
(* When the command has ended, the sink has what was placed, whole and in  *)
(* order: a video each picture once, a directory under each name the last  *)
(* picture placed for it, a raw file all samples and a list the ids of all *)
(* samples, after what it had before.                                      *)
(***************************************************************************)
Delivered ==
    at = "ended" /\ scene.cmd = "synth" /\ deaths = 0 =>
        CASE Sink = "vid" ->
                log # <<>> => disk[<<>>] = [k \in 1..(Len(log) * Parts) |->
                                  <<log[((k - 1) \div Parts) + 1].sample, ((k - 1) % Parts) + 1>>]
          [] Sink \in {"dir", "pic"} ->
                /\ DOMAIN disk = There \cup {NameOf(log[j].id) : j \in 1..Len(log)}
                /\ \A j \in 1..Len(log) :
                      \/ disk[NameOf(log[j].id)] = Cut(log[j].sample)
                      \/ \E l \in (j + 1)..Len(log) : NameOf(log[l].id) = NameOf(log[j].id)
          [] Sink \in {"u8", "ref"} ->
                log # <<>> => disk[<<>>] = (IF scene.append /\ scene.out.onDisk = "file" THEN <<NoSample>> ELSE <<>>)
                                               \o [j \in 1..Len(log) |-> Entry(Sink, log[j])]
          [] OTHER -> TRUE

(***************************************************************************)
(* The command and its children end, unless they wait for each other: main *)
(* in the close of the reader, whose child waits to write and gets no      *)
(* SIGPIPE, because the writer's child inherited the read end, and that    *)
(* child waits for the end of file that comes when main closes the writer. *)
(***************************************************************************)
Over == at \in {"ended", "aborted", "error"} /\ \A e \in Ends : child[e] # "runs"
Stuck ==
    /\ At("reap in") /\ child["in"] = "runs" /\ left # <<>> /\ Len(data["in"]) = PipeN
    /\ readers["in"] = {"out"}
    /\ child["out"] = "runs" /\ data["out"] = <<>> /\ "main" \in writers["out"]
EndsUnlessStuck == <>(Over \/ Stuck)

(***************************************************************************)
(* They wait for each other only when the limit ends the first pass over a *)
(* video with more frames to come than a pipe holds and the sink is a      *)
(* video, and then always.                                                 *)
(***************************************************************************)
CutShort ==
    /\ scene.cmd = "synth"
    /\ Source = "vid" /\ Sink = "vid" /\ ~scene.src.plain /\ ~scene.out.plain
    /\ scene.limit > 0
    /\ Parts * (scene.frames - scene.limit - 1) > PipeN
StuckWhenCutShort ==
    deaths = 0 => /\ Stuck => CutShort
                  /\ at = "ended" => ~CutShort

(***************************************************************************)
(* The ids that pick makes and find takes apart agree, in trees where a    *)
(* sub gives way to the next amid a pick too: the id of a sample names it, *)
(* and the pair that is trained on is of the same sample and crop.         *)
(***************************************************************************)
IdsNameSamples == Source # "vid" => \A j \in 1..Len(log) : log[j].sample = log[j].id
=============================================================================
