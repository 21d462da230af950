------------------------------- MODULE MCSynth ------------------------------
(***************************************************************************)
(* Scenes for Synth, for TLC: each names a source, a sink and options.     *)
(***************************************************************************)
EXTENDS Synth

Leaf(kind, b, spare) == [kind |-> kind, b |-> b, spare |-> spare]
Dir == Leaf("dir", 0, 0)
Pic(spare) == Leaf("pic", 1, spare)
OneOf(leaf) == [n \in {<<>>} |-> leaf]

\* A directory with a picture, a directory of two, and a file of two samples.
Deep(spare) == [n \in {<<>>, <<1>>, <<2>>, <<2, 1>>, <<2, 2>>, <<3>>} |->
                   IF n \in {<<>>, <<2>>} THEN Dir
                   ELSE IF n = <<3>> THEN Leaf("u8", 2, spare) ELSE Pic(spare)]
Nested == [n \in {<<>>, <<1>>, <<1, 1>>} |-> IF n = <<1, 1>> THEN Pic(1) ELSE Dir]
Mixed == [n \in {<<>>, <<1>>, <<2>>} |-> IF n = <<>> THEN Dir ELSE IF n = <<1>> THEN Pic(1) ELSE Leaf("u8", 2, 0)]

File(given, ends) == [given |-> given, onDisk |-> "file", ends |-> ends, plain |-> FALSE]
New(given, ends) == [given |-> given, onDisk |-> "nothing", ends |-> ends, plain |-> FALSE]
Folder == [given |-> "any", onDisk |-> "dir", ends |-> "other", plain |-> FALSE]
Opt(trav, repeat, lowmem, center) == [trav |-> trav, repeat |-> repeat, lowmem |-> lowmem, center |-> center]
Scan == Opt("scan", FALSE, FALSE, TRUE)

Base == [cmd |-> "synth", src |-> Folder, out |-> New("any", "vid"), opt |-> Scan, limit |-> -1,
         tree |-> OneOf(Pic(0)), tgt |-> OneOf(Pic(0)), frames |-> 0, refs |-> <<>>,
         append |-> FALSE, pixels |-> 4]

\* A video to a video, to pictures and to plain sinks.
Videos ==
    {[Base EXCEPT !.src = File("any", "vid"), !.out = o, !.frames = f, !.limit = l, !.opt.repeat = r] :
        o \in {New("any", "vid"), [New("any", "vid") EXCEPT !.plain = TRUE], New("dir", "other"), New("pic", "other"),
               New("sdl", "other"), New("ref", "other"), [New("pic", "other") EXCEPT !.plain = TRUE]},
        f \in 0..4, l \in {-1, 0, 1, 2, 5}, r \in BOOLEAN}
    \cup {[Base EXCEPT !.src = [File("vid", "other") EXCEPT !.plain = TRUE], !.frames = 3, !.limit = l] : l \in {-1, 1}}

\* Trees of files, scanned.
Trees ==
    {[Base EXCEPT !.tree = t, !.out = o, !.limit = l, !.opt = Opt("scan", r, m, c)] :
        t \in {Deep(0), Nested, Mixed}, o \in {New("dir", "other"), New("any", "vid")},
        l \in {-1, 2, 8}, r \in BOOLEAN, m \in BOOLEAN, c \in BOOLEAN}
Files ==
    {[Base EXCEPT !.src = File("any", "u8"), !.tree = OneOf(Leaf("u8", 2, 1)), !.out = o, !.limit = l,
                  !.append = a, !.opt.repeat = r, !.pixels = p] :
        o \in {New("ref", "other"), New("any", "u8"), File("any", "u8"), New("any", "rvg")},
        l \in {-1, 1, 3}, a \in BOOLEAN, r \in BOOLEAN, p \in {1, 4}}
    \cup {[Base EXCEPT !.src = File("any", "pic"), !.opt = Opt("scan", r, m, FALSE), !.limit = l,
                       !.tree = OneOf(Pic(1)), !.out = o] :
             l \in {-1, 0, 3}, r \in BOOLEAN, m \in BOOLEAN, o \in {New("dir", "other"), File("pic", "other")}}

\* Lists of ids.
Id(n, v, x) == [of |-> n, v |-> v, x |-> x]
Lists ==
    {[Base EXCEPT !.tree = Deep(0), !.out = New("dir", "other"), !.refs = ids, !.limit = l,
                  !.opt = Opt("refs", l > 0, FALSE, TRUE)] :
        ids \in {<<>>, <<Id(<<3>>, 1, 0), Id(<<2, 2>>, 0, 0)>>, <<Id(<<2>>, 0, 0)>>, <<Id(<<1>>, 0, 1)>>}, l \in {-1, 3}}

\* Pairs, of sources that match or do not.
Pairs ==
    {[Base EXCEPT !.cmd = "pairs", !.tree = ts[1], !.tgt = ts[2], !.limit = 2, !.out = New("ref", "other"),
                  !.opt = Opt("rand", TRUE, m, FALSE)] :
        ts \in {<<Deep(0), Deep(0)>>, <<Mixed, Mixed>>, <<Nested, Nested>>, <<Deep(1), Deep(0)>>, <<Mixed, Nested>>},
        m \in BOOLEAN}

Random == {[Base EXCEPT !.tree = Mixed, !.limit = 2, !.opt = Opt("rand", TRUE, m, FALSE)] : m \in BOOLEAN}
Refused ==
    {[Base EXCEPT !.src = File("any", "vid"), !.opt.trav = "rand"], [Base EXCEPT !.src = New("any", "pic")],
     [Base EXCEPT !.out = File("dir", "vid"), !.src = File("ref", "other")]}

AllScenes == {s \in Videos \cup Trees \cup Files \cup Lists \cup Pairs \cup Random \cup Refused :
                 s.opt.repeat => s.limit >= 0}
=============================================================================
