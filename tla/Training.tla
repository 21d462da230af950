------------------------------ MODULE Training ------------------------------
(***************************************************************************)
(* Training: the loops of learnfunc, learnhans and learn (tewel.cc), run   *)
(* over a Chain of Paracortexes of Cortexes (chain.cc, paracortex.cc) and  *)
(* over the Cortexes the adversarial loops add: dis judges, cnd, enc and   *)
(* inf condition.  A loop's body is a sequence of calls ("todo"); a call   *)
(* that walks a pipe takes one step per layer, as pipe_prep, pipe_synth    *)
(* and pipe_learn do.                                                      *)
(*                                                                         *)
(* Each Cortex has one buffer, kbuf, with its input at the front, the      *)
(* output of every layer behind it and kout the last of them.  Learning    *)
(* puts the gradient of a layer's input where that input was.  Numbers are *)
(* abstracted to what they are: a value says which picked samples it       *)
(* comes from (of), which layer put it out (by), and whether it is that    *)
(* output or the gradient of a loss with respect to it (grad: the target). *)
(* A region of a buffer holds one value per channel.  Whatever is read     *)
(* where nothing of that shape was written is Junk.                        *)
(*                                                                         *)
(* What save writes is CortexFile's; here it is left out, as are the       *)
(* noise, the losses and the reports.                                      *)
(***************************************************************************)
EXTENDS Kernels, SequencesExt

CONSTANTS
  Setups,       \* what the program may be started on, see SetupOK
  RepInt,       \* repint: rounds between two saves
  Reps,         \* reps: saves until the loop ends
  StopRounds    \* stoprounds, or -1

\* A set-up: the command, the chain (its Paracortexes, each a name and its
\* members, of which debrak asserts one), the pipe of every Cortex, and the
\* size of the samples.  The adversarial commands open the Cortexes they need.
SetupOK(s) ==
  /\ s.mode \in {"learnfunc", "learnhans", "learn"}
  /\ s.w \in Nat /\ s.h \in Nat
  /\ \A c \in DOMAIN s.pipe : s.pipe[c] \in Seq(Layers) \ {<<>>}
  /\ s.chain \in Seq([name : STRING, members : Seq(DOMAIN s.pipe) \ {<<>>}]) \ {<<>>}
  /\ s.mode # "learnfunc" => "dis" \in DOMAIN s.pipe
  /\ s.mode = "learn" => {"cnd", "enc", "inf"} \subseteq DOMAIN s.pipe

ASSUME SetupAssumption == \A s \in Setups : SetupOK(s)

ASSUME LoopAssumption == RepInt \in Nat \ {0} /\ Reps \in Nat /\ StopRounds \in Int

VARIABLES
  setup,    \* the program's arguments
  ctx,      \* every Cortex
  host,     \* the buffers outside of Cortexes: _kinp, _kout, ktmp, ktgt
  walk,     \* the walk over a pipe that is under way
  todo,     \* the calls left of this round
  iter,     \* rounds finished
  rep,      \* rep: saves made
  updated,  \* per layer, what its last weight update was made of
  verdict   \* "run", "done", or where the program died

vars == <<setup, ctx, host, walk, todo, iter, rep, updated, verdict>>

----------------------------------------------------------------------------
(* Values and buffers.                                                     *)

Junk == [of |-> {}, by |-> <<"junk", 0>>, grad |-> "none"]

Sample(what) == [of |-> {<<what, iter + 1>>}, by |-> <<what, 0>>, grad |-> "none"]

Copies(v, n) == [j \in 1 .. n |-> v]

Sources(chan) == UNION {chan[j].of : j \in DOMAIN chan}

Overlaps(r, at, n) == r.at < at + n /\ at < r.at + r.n

Store(buf, at, n, chan) ==
  {r \in buf : ~Overlaps(r, at, n)}
    \cup (IF n = 0 THEN {} ELSE {[at |-> at, n |-> n, chan |-> chan]})

Load(buf, at, n, chans) ==
  IF \E r \in buf : r.at = at /\ r.n = n /\ Len(r.chan) = chans
  THEN (CHOOSE r \in buf : r.at = at /\ r.n = n /\ Len(r.chan) = chans).chan
  ELSE Copies(Junk, chans)

\* A place is a buffer's owner and which of its buffers is meant.
Kinp(o) == <<o, "kinp">>
Kout(o) == <<o, "kout">>
Ktmp    == <<"host", "ktmp">>
Ktgt    == <<"host", "ktgt">>

InSize(c)  == ctx[c].iw * ctx[c].ih * ctx[c].ic
OutSize(c) == ctx[c].ow * ctx[c].oh * ctx[c].oc

Get(p) ==
  IF p[1] \notin DOMAIN ctx THEN host[p]
  ELSE LET c == p[1]
       IN  IF p[2] = "kinp" THEN Load(ctx[c].kbuf, 0, InSize(c), ctx[c].ic)
           ELSE Load(ctx[c].kbuf, ctx[c].kout, OutSize(c), ctx[c].oc)

Put(p, chan) ==
  IF p[1] \notin DOMAIN ctx
  THEN host' = [host EXCEPT ![p] = chan] /\ UNCHANGED ctx
  ELSE LET c == p[1]
       IN  /\ ctx' = [ctx EXCEPT ![c].kbuf =
                        IF p[2] = "kinp" THEN Store(@, 0, InSize(c), chan)
                        ELSE Store(@, ctx[c].kout, OutSize(c), chan)]
           /\ UNCHANGED host

----------------------------------------------------------------------------
(* The calls.                                                              *)

Call(op, c)        == <<[op |-> op, c |-> c]>>
Prepare(c, from)   == <<[op |-> "prepare", c |-> c, from |-> from]>>
Pick(what, p)      == <<[op |-> "pick", what |-> what, to |-> p]>>
Copy(p, q)         == <<[op |-> "copy", from |-> p, to |-> q]>>
Target(p, goal)    == <<[op |-> "target", at |-> p, goal |-> goal]>>
Learn(c, how)      == <<[op |-> "learn", c |-> c, how |-> how]>>

\* ksplice: n channels of p, from xa on, to those of q, from ya on.
Splice(p, xa, n, q, ya) ==
  <<[op |-> "splice", from |-> p, xa |-> xa, n |-> n, to |-> q, ya |-> ya]>>

\* One call per member, at its offset in the Paracortex's channels.
ForMembers(p, Do(_, _), Chans(_)) ==
  FlattenSeq([j \in DOMAIN p.members |->
    Do(p.members[j], FoldLeft(LAMBDA n, m : n + Chans(m), 0, SubSeq(p.members, 1, j - 1)))])

PipeIc(c) == setup.pipe[c][1].ic
PipeOc(c) == Last(setup.pipe[c]).oc

ParaIc(p) == FoldLeft(LAMBDA n, m : n + PipeIc(m), 0, p.members)
ParaOc(p) == FoldLeft(LAMBDA n, m : n + PipeOc(m), 0, p.members)

Single(p) == Len(p.members) = 1

\* Paracortex::kinp and ::kout: a single member lends its own.
Owner(p) == IF Single(p) THEN p.members[1] ELSE p.name

\* Paracortex::synth.  Its first Paracortex the chain calls with no input,
\* NULL, which a Paracortex of several members leaves alone and a single one
\* hands to Cortex::synth(const double *) to copy from.
ParaSynth(p, from) ==
  IF Single(p)
  THEN (IF from = <<>> THEN Call("copynull", p.members[1])
        ELSE Copy(from, Kinp(p.members[1]))) \o Call("synth", p.members[1])
  ELSE (IF from = <<>> THEN <<>> ELSE Copy(from, Kinp(p.name)))
         \o ForMembers(p, LAMBDA m, off :
              Splice(Kinp(p.name), off, PipeIc(m), Kinp(m), 0) \o Call("synth", m),
              PipeIc)
         \o ForMembers(p, LAMBDA m, off :
              Splice(Kout(m), 0, PipeOc(m), Kout(p.name), off), PipeOc)

ParaTarget(p, goal) ==
  IF Single(p) THEN Target(Kout(p.members[1]), goal)
  ELSE Target(Kout(p.name), goal)
         \o ForMembers(p, LAMBDA m, off :
              Splice(Kout(p.name), off, PipeOc(m), Kout(m), 0), PipeOc)

ParaLearn(p) ==
  IF Single(p) THEN Learn(p.members[1], "learn")
  ELSE ForMembers(p, LAMBDA m, off :
         Splice(Kout(p.name), off, PipeOc(m), Kout(m), 0) \o Learn(m, "learn"),
         PipeOc)
         \o ForMembers(p, LAMBDA m, off :
              Splice(Kinp(m), 0, PipeIc(m), Kinp(p.name), off), PipeIc)

Head1 == Owner(setup.chain[1])
Tail1 == Owner(Last(setup.chain))
GenOc == ParaOc(Last(setup.chain))

\* Chain::prepare, ::synth, ::target and ::learn.
ChainPrepare(from) ==
  FlattenSeq([i \in DOMAIN setup.chain |->
    ForMembers(setup.chain[i], LAMBDA m, off :
      Prepare(m, IF i = 1 THEN from ELSE setup.chain[i - 1].members[1]), PipeIc)])
  \o Call("fit", "chain")

ChainSynth ==
  FlattenSeq([i \in DOMAIN setup.chain |->
    ParaSynth(setup.chain[i],
              IF i = 1 THEN <<>> ELSE Kout(Owner(setup.chain[i - 1])))])

ChainTarget(goal) == ParaTarget(Last(setup.chain), goal)

ChainLearn ==
  LET n == Len(setup.chain)
  IN  FlattenSeq([k \in 1 .. n |->
        LET i == n + 1 - k
        IN  (IF i = n THEN <<>>
             ELSE Copy(Kinp(Owner(setup.chain[i + 1])), Kout(Owner(setup.chain[i]))))
            \o ParaLearn(setup.chain[i])])

----------------------------------------------------------------------------
(* The loops.                                                              *)

HasCnd == "cnd" \in DOMAIN setup.pipe

Prologue ==
  CASE setup.mode = "learnfunc" -> ChainPrepare("input")
    [] setup.mode = "learnhans" ->
         ChainPrepare("input") \o Prepare("dis", Last(setup.chain).members[1])
           \o (IF HasCnd THEN Prepare("cnd", "input") ELSE <<>>) \o Call("fit", "hans")
    [] setup.mode = "learn" ->
         Prepare("enc", "input") \o Prepare("inf", "input") \o ChainPrepare("enc")
           \o Prepare("dis", Last(setup.chain).members[1]) \o Prepare("cnd", "inf")
           \o Call("fit", "learn")

LearnfuncRound ==
  Pick("src", Kinp(Head1)) \o Pick("tgt", Ktgt)
    \o ChainSynth \o ChainTarget("tgt") \o ChainLearn

\* Mutated form of JudgeFake: dis learns what it only passes on.
JudgeFakeTaught ==
  Copy(Kinp("dis"), Ktmp) \o Call("synth", "dis") \o Call("pushbuf", "dis")
    \o Target(Kout("dis"), "real") \o Learn("dis", "accumulate")
    \o Splice(Kinp("dis"), 0, GenOc, Kout(Tail1), 0) \o ChainLearn

\* What learnhans and learn do once dis has its fake input: the loss that
\* dis takes it for real goes back to the generator; the buffer is put back
\* as dis left it, for dis to learn that it was fake; then dis learns that
\* the target, with the same conditions, is real.
JudgeFake ==
  Copy(Kinp("dis"), Ktmp) \o Call("synth", "dis") \o Call("pushbuf", "dis")
    \o Target(Kout("dis"), "real") \o Learn("dis", "propback")
    \o Splice(Kinp("dis"), 0, GenOc, Kout(Tail1), 0) \o ChainLearn

\* Mutated forms of JudgeReal: the buffer is not put back; the input is not.
JudgeRealUnrestored ==
  Target(Kout("dis"), "fake") \o Learn("dis", "accumulate")
    \o Copy(Ktmp, Kinp("dis")) \o Splice(Ktgt, 0, GenOc, Kinp("dis"), 0)
    \o Call("synth", "dis") \o Target(Kout("dis"), "real") \o Learn("dis", "learn")

JudgeRealStale ==
  Call("popbuf", "dis") \o Target(Kout("dis"), "fake") \o Learn("dis", "accumulate")
    \o Splice(Ktgt, 0, GenOc, Kinp("dis"), 0)
    \o Call("synth", "dis") \o Target(Kout("dis"), "real") \o Learn("dis", "learn")

JudgeReal ==
  Call("popbuf", "dis") \o Target(Kout("dis"), "fake") \o Learn("dis", "accumulate")
    \o Copy(Ktmp, Kinp("dis")) \o Splice(Ktgt, 0, GenOc, Kinp("dis"), 0)
    \o Call("synth", "dis") \o Target(Kout("dis"), "real") \o Learn("dis", "learn")

LearnhansRound ==
  Pick("src", Kinp(Head1)) \o Pick("tgt", Ktgt)
    \o (IF HasCnd
        THEN Copy(Kinp(Head1), Kinp("cnd")) \o Call("synth", "cnd")
               \o Splice(Kout("cnd"), 0, PipeIc("dis") - GenOc, Kinp("dis"), GenOc)
        ELSE <<>>)
    \o ChainSynth \o Splice(Kout(Tail1), 0, GenOc, Kinp("dis"), 0)
    \o JudgeFake \o JudgeReal

LearnRound ==
  Pick("src", Kinp("enc")) \o Pick("tgt", Ktgt) \o Call("synth", "enc")
    \o Copy(Kinp("enc"), Kinp("inf")) \o Call("synth", "inf")
    \o Copy(Kout("inf"), Kinp("cnd")) \o Call("synth", "cnd")
    \o Splice(Kout("enc"), 0, PipeOc("enc"), Kinp(Head1), 0)
    \o Splice(Kout("inf"), 0, PipeOc("inf"), Kinp(Head1), PipeOc("enc"))
    \o ChainSynth \o Splice(Kout(Tail1), 0, GenOc, Kinp("dis"), 0)
    \o Splice(Kout("cnd"), 0, PipeOc("cnd"), Kinp("dis"), GenOc)
    \o JudgeFake
    \o Splice(Kinp(Head1), 0, PipeOc("enc"), Kout("enc"), 0) \o Learn("enc", "learn")
    \o JudgeReal

Round ==
  CASE setup.mode = "learnfunc" -> LearnfuncRound
    [] setup.mode = "learnhans" -> LearnhansRound
    [] setup.mode = "learn"     -> LearnRound

\* What Chain::prepare asserts of the chain, and what learnhans, learn and
\* main ask of the other Cortexes.
ChainFits ==
  \A i \in DOMAIN setup.chain :
    LET p == setup.chain[i]
        a == ctx[p.members[1]]
    IN  /\ \A m \in ToSet(p.members) : ctx[m].ow = a.ow /\ ctx[m].oh = a.oh
        /\ i > 1 => ParaIc(p) = ParaOc(setup.chain[i - 1])

SameOut(a, b) == ctx[a].ow = ctx[b].ow /\ ctx[a].oh = ctx[b].oh

Fits(what) ==
  LET head == setup.chain[1].members[1]
      tail == Last(setup.chain).members[1]
  IN  CASE what = "chain" -> ChainFits
        [] what = "hans"  ->
             /\ PipeIc("dis") = GenOc + (IF HasCnd THEN PipeOc("cnd") ELSE 0)
             /\ HasCnd => /\ PipeIc("cnd") = ParaIc(setup.chain[1])
                          /\ SameOut("cnd", tail)
        [] what = "learn" ->
             /\ SameOut("inf", "enc") /\ PipeIc("inf") = PipeIc("enc")
             /\ PipeOc("enc") + PipeOc("inf") = ParaIc(setup.chain[1])
             /\ PipeIc("cnd") = PipeOc("inf") /\ SameOut("cnd", tail)
             /\ PipeIc("dis") = PipeOc("cnd") + GenOc

----------------------------------------------------------------------------
(* Steps.                                                                  *)

Idle == [op |-> "idle"]

NewCortex(pipe) ==
  [iw |-> 0, ih |-> 0, ic |-> pipe[1].ic, ow |-> 0, oh |-> 0, oc |-> Last(pipe).oc,
   kbufn |-> 0, dwn |-> 0, kbuf |-> {}, kout |-> -1, stack |-> <<>>,
   dw |-> <<>>, rounds |-> 0]

Owners == {p.name : p \in ToSet(setup.chain)}

Init ==
  /\ setup \in Setups
  /\ ctx = [c \in DOMAIN setup.pipe |-> NewCortex(setup.pipe[c])]
  /\ host = [p \in {Ktmp, Ktgt} \cup {Kinp(o) : o \in Owners}
                     \cup {Kout(o) : o \in Owners} |-> <<>>]
  /\ walk = Idle
  /\ todo = Prologue
  /\ iter = 0 /\ rep = 0
  /\ updated = [c \in DOMAIN setup.pipe |-> [k \in DOMAIN setup.pipe[c] |-> {}]]
  /\ verdict = "run"

Die(where) ==
  /\ verdict' = where
  /\ UNCHANGED <<setup, ctx, host, walk, todo, iter, rep, updated>>

Calling(op) ==
  verdict = "run" /\ walk = Idle /\ todo # <<>> /\ Head(todo).op = op

Return == todo' = Tail(todo)

Layer == setup.pipe[walk.c][walk.k]
AtEnd == walk.k > Len(setup.pipe[walk.c])

Walking(op) == verdict = "run" /\ walk.op = op

\* Mutated form of StartPrepare: the buffer has no room for the input.
StartPrepareShort ==
  /\ Calling("prepare")
  /\ LET c == Head(todo).c
         f == Head(todo).from
         w == IF f = "input" THEN setup.w ELSE ctx[f].ow
         h == IF f = "input" THEN setup.h ELSE ctx[f].oh
     IN  /\ ctx' = [ctx EXCEPT ![c].iw = w, ![c].ih = h]
         /\ walk' = [op |-> "prep", c |-> c, k |-> 1, w |-> w, h |-> h,
                     ic |-> ctx[c].ic, off |-> 0, doff |-> 0]
  /\ UNCHANGED <<setup, host, todo, iter, rep, updated, verdict>>

StartPrepare ==
  /\ Calling("prepare")
  /\ LET c == Head(todo).c
         f == Head(todo).from
         w == IF f = "input" THEN setup.w ELSE ctx[f].ow
         h == IF f = "input" THEN setup.h ELSE ctx[f].oh
     IN  /\ ctx' = [ctx EXCEPT ![c].iw = w, ![c].ih = h]
         /\ walk' = [op |-> "prep", c |-> c, k |-> 1, w |-> w, h |-> h,
                     ic |-> ctx[c].ic, off |-> w * h * ctx[c].ic, doff |-> 0]
  /\ UNCHANGED <<setup, host, todo, iter, rep, updated, verdict>>

PrepLayer ==
  /\ Walking("prep") /\ ~AtEnd
  /\ IF ~PrepAccepts(Layer, walk.ic, walk.w, walk.h) THEN Die("prep")
     ELSE LET o == PrepShape(Layer, walk.w, walk.h)
          IN  /\ walk' = [walk EXCEPT !.k = @ + 1, !.w = o.w, !.h = o.h,
                                      !.ic = Layer.oc,
                                      !.off = @ + o.w * o.h * Layer.oc,
                                      !.doff = @ + Layer.len \div 3]
              /\ UNCHANGED <<setup, ctx, host, todo, iter, rep, updated, verdict>>

EndPrepare ==
  /\ Walking("prep") /\ AtEnd
  /\ ctx' = [ctx EXCEPT ![walk.c].ow = walk.w, ![walk.c].oh = walk.h,
                        ![walk.c].kbufn = walk.off, ![walk.c].dwn = walk.doff,
                        ![walk.c].dw = [d \in 0 .. walk.doff |-> {}]]
  /\ walk' = Idle
  /\ Return
  /\ UNCHANGED <<setup, host, iter, rep, updated, verdict>>

CheckFit ==
  /\ Calling("fit")
  /\ IF ~Fits(Head(todo).c) THEN Die("fit")
     ELSE /\ Return
          /\ UNCHANGED <<setup, ctx, host, walk, iter, rep, updated, verdict>>

Moved == Return /\ UNCHANGED <<setup, walk, iter, rep, updated, verdict>>

DoPick ==
  /\ Calling("pick")
  /\ LET t == Head(todo).to
         n == IF t = Ktgt THEN GenOc
              ELSE IF t[1] \in DOMAIN ctx THEN ctx[t[1]].ic ELSE ParaIc(setup.chain[1])
     IN  Put(t, Copies(Sample(Head(todo).what), n))
  /\ Moved

DoCopy ==
  /\ Calling("copy")
  /\ Put(Head(todo).to, Get(Head(todo).from))
  /\ Moved

\* kcopy from NULL: memcpy dies of it; cudaMemcpy returns an error nobody
\* looks at, and the input stays what it was.
DoCopyNull ==
  /\ Calling("copynull")
  /\ IF Device = "cpu" THEN Die("null")
     ELSE Moved /\ UNCHANGED <<ctx, host>>

Chans(p) ==
  IF p[1] \notin DOMAIN ctx
  THEN LET para == CHOOSE x \in ToSet(setup.chain) : x.name = p[1]
       IN  IF p[2] = "kinp" THEN ParaIc(para) ELSE ParaOc(para)
  ELSE IF p[2] = "kinp" THEN ctx[p[1]].ic ELSE ctx[p[1]].oc

DoSplice ==
  /\ Calling("splice")
  /\ LET s   == Head(todo)
         x   == Get(s.from)
         old == Get(s.to)
     IN  Put(s.to, [j \in 1 .. Chans(s.to) |->
                      IF j \in s.ya + 1 .. s.ya + s.n THEN x[s.xa + j - s.ya]
                      ELSE IF j \in DOMAIN old THEN old[j] ELSE Junk])
  /\ Moved

\* ksubvec(ktgt, kout, ..., kout): kout becomes the gradient of the loss.
DoTarget ==
  /\ Calling("target")
  /\ LET t == Head(todo)
         x == Get(t.at)
     IN  Put(t.at, [j \in DOMAIN x |-> IF x[j].grad = "none"
                                       THEN [x[j] EXCEPT !.grad = t.goal] ELSE Junk])
  /\ Moved

DoPushbuf ==
  /\ Calling("pushbuf")
  /\ ctx' = [ctx EXCEPT ![Head(todo).c].stack = <<ctx[Head(todo).c].kbuf>> \o @]
  /\ Moved /\ UNCHANGED host

DoPopbuf ==
  /\ Calling("popbuf")
  /\ LET c == Head(todo).c
     IN  ctx' = [ctx EXCEPT ![c].kbuf = Head(ctx[c].stack), ![c].stack = Tail(@)]
  /\ Moved /\ UNCHANGED host

StartSynth ==
  /\ Calling("synth")
  /\ LET c == Head(todo).c
     IN  walk' = [op |-> "synth", c |-> c, k |-> 1, w |-> ctx[c].iw, h |-> ctx[c].ih,
                  off |-> 0]
  /\ UNCHANGED <<setup, ctx, host, todo, iter, rep, updated, verdict>>

InN == walk.w * walk.h * Layer.ic

\* synth_smax turns its input into a mask, for learn_smax.
SynthLayer ==
  /\ Walking("synth") /\ ~AtEnd
  /\ IF ~SynthAccepts(Layer, walk.w, walk.h) THEN Die("synth")
     ELSE LET o    == SynthShape(Layer, walk.w, walk.h)
              put  == SynthWrites(Layer, walk.w, walk.h)
              in   == Load(ctx[walk.c].kbuf, walk.off, InN, Layer.ic)
              left == [j \in DOMAIN in |-> IF Layer.type = "smax"
                                           THEN [in[j] EXCEPT !.grad = "mask"] ELSE in[j]]
              v    == [of |-> Sources(in), by |-> <<walk.c, walk.k>>, grad |-> "none"]
          IN  /\ ctx' = [ctx EXCEPT ![walk.c].kbuf =
                           Store(Store(@, walk.off, InN, left),
                                 walk.off + InN, put.w * put.h * Layer.oc,
                                 Copies(v, Layer.oc))]
              /\ walk' = [walk EXCEPT !.k = @ + 1, !.w = o.w, !.h = o.h, !.off = @ + InN]
              /\ UNCHANGED <<setup, host, todo, iter, rep, updated, verdict>>

EndSynth ==
  /\ Walking("synth") /\ AtEnd
  /\ ctx' = [ctx EXCEPT ![walk.c].kout = walk.off]
  /\ walk' = Idle
  /\ Return
  /\ UNCHANGED <<setup, host, iter, rep, updated, verdict>>

\* propback, accumulate and learn; stats() counts the last two.
StartLearn ==
  /\ Calling("learn")
  /\ LET c == Head(todo).c
         how == Head(todo).how
     IN  /\ ctx' = [ctx EXCEPT ![c].rounds = IF how = "propback" THEN @ ELSE @ + 1]
         /\ walk' = [op |-> "down", c |-> c, k |-> 1, w |-> ctx[c].iw, h |-> ctx[c].ih,
                     off |-> 0, doff |-> 0, how |-> how, frames |-> <<>>]
  /\ UNCHANGED <<setup, host, todo, iter, rep, updated, verdict>>

LearnDown ==
  /\ Walking("down") /\ ~AtEnd
  /\ IF ~LearnAccepts(Layer, walk.w, walk.h) THEN Die("learn")
     ELSE LET o == LearnShape(Layer, walk.w, walk.h)
              f == [w |-> walk.w, h |-> walk.h, off |-> walk.off, fout |-> walk.off + InN,
                    ow |-> o.w, oh |-> o.h, doff |-> walk.doff]
          IN  /\ walk' = [walk EXCEPT !.k = @ + 1, !.w = o.w, !.h = o.h, !.off = @ + InN,
                                      !.doff = @ + Layer.len \div 3,
                                      !.frames = Append(@, f)]
              /\ UNCHANGED <<setup, ctx, host, todo, iter, rep, updated, verdict>>

LearnBottom ==
  /\ Walking("down") /\ AtEnd
  /\ walk' = [walk EXCEPT !.op = "up", !.k = @ - 1]
  /\ UNCHANGED <<setup, ctx, host, todo, iter, rep, updated, verdict>>

\* What a layer's learn_ function finds: its input, and the gradient of its
\* output behind it.
Frame   == Last(walk.frames)
BackIn  == Load(ctx[walk.c].kbuf, Frame.off, Frame.w * Frame.h * Layer.ic, Layer.ic)
BackOut == Load(ctx[walk.c].kbuf, Frame.fout, Frame.ow * Frame.oh * Layer.oc, Layer.oc)

\* The gradient's share in the weights goes to dw; learn, with a nu above 0,
\* updates them by what dw has and clears it.
LearnUp ==
  /\ Walking("up") /\ walk.frames # <<>>
  /\ IF ~BackAccepts(Layer) THEN Die("back")
     ELSE LET goal  == BackOut[1].grad
              share == {[of |-> Sources(BackIn), grad |-> goal]}
              dw    == ctx[walk.c].dw[Frame.doff] \cup share
              fin   == [j \in DOMAIN BackIn |-> [BackIn[j] EXCEPT !.grad = goal]]
              heavy == Layer.len > 0 /\ walk.how # "propback"
          IN  /\ ctx' = [ctx EXCEPT
                   ![walk.c].kbuf =
                      Store(@, Frame.off, Frame.w * Frame.h * Layer.ic, fin),
                   ![walk.c].dw[Frame.doff] =
                      IF ~heavy THEN @ ELSE IF walk.how = "learn" THEN {} ELSE dw]
              /\ updated' = IF heavy /\ walk.how = "learn"
                            THEN [updated EXCEPT ![walk.c][walk.k] = dw] ELSE updated
              /\ walk' = [walk EXCEPT !.k = @ - 1, !.frames = Front(@)]
              /\ UNCHANGED <<setup, host, todo, iter, rep, verdict>>

EndLearn ==
  /\ Walking("up") /\ walk.frames = <<>>
  /\ walk' = Idle
  /\ Return
  /\ UNCHANGED <<setup, ctx, host, iter, rep, updated, verdict>>

\* Paracortex::rounds: its first member's.
ChainRounds == ctx[Last(setup.chain).members[1]].rounds

\* A round is over, or the loop is entered (iter = 0 and nothing learned):
\* learnfunc saves by the generator's rounds, the others by their own count.
Fresh == iter = 0 /\ ChainRounds = 0

EndRound ==
  LET n    == iter + (IF Fresh THEN 0 ELSE 1)
      due  == ~Fresh /\ (IF setup.mode = "learnfunc" THEN ChainRounds ELSE n) % RepInt = 0
      stop == StopRounds >= 0 /\ ChainRounds >= StopRounds
      over == \/ (Fresh \/ due) /\ stop
              \/ rep + (IF due THEN 1 ELSE 0) >= Reps
  IN  /\ verdict = "run" /\ walk = Idle /\ todo = <<>>
      /\ iter' = n
      /\ rep' = IF due /\ ~stop THEN rep + 1 ELSE rep
      /\ IF over THEN verdict' = "done" /\ UNCHANGED todo
         ELSE todo' = Round /\ UNCHANGED verdict
      /\ UNCHANGED <<setup, ctx, host, walk, updated>>

Next ==
  \/ StartPrepare \/ PrepLayer \/ EndPrepare \/ CheckFit
  \/ DoPick \/ DoCopy \/ DoCopyNull \/ DoSplice \/ DoTarget \/ DoPushbuf \/ DoPopbuf
  \/ StartSynth \/ SynthLayer \/ EndSynth
  \/ StartLearn \/ LearnDown \/ LearnBottom \/ LearnUp \/ EndLearn
  \/ EndRound

Spec == Init /\ [][Next]_vars

----------------------------------------------------------------------------
(* Properties.                                                             *)

\* A pipe pipe_prep has taken runs forward to its end: pipe_synth, which
\* works every size out again, asserts nothing pipe_prep has let through,
\* but for the layers above.
PreparedPipesRun ==
  verdict = "synth" =>
    \E k \in DOMAIN setup.pipe[walk.c] :
      Refused(setup.pipe[walk.c][k]) \/ ScalesDown(setup.pipe[walk.c][k])

\* pipe_learn goes down a pipe that has run forward without an assertion,
\* and comes back unless one of its layers has no learn_ function.
RunPipesLearn ==
  /\ verdict # "learn"
  /\ verdict = "back" => \E k \in DOMAIN setup.pipe[walk.c] :
                            setup.pipe[walk.c][k].type \in Unlearnable

Straight(c) == \A k \in 1 .. Len(setup.pipe[c]) - 1 : ~ScalesDown(setup.pipe[c][k])

\* The three functions agree on where things are: each layer's input and
\* output lie in the buffer pipe_prep has measured, its share of the weights'
\* gradients in dw, and what pipe_synth returns as kout is the end of the
\* buffer, as large as owhc says.
BuffersHold ==
  /\ walk.op \in {"synth", "down"} /\ ~AtEnd /\ verdict = "run" =>
       LET o == IF walk.op = "synth" THEN SynthWrites(Layer, walk.w, walk.h)
                ELSE LearnShape(Layer, walk.w, walk.h)
       IN  walk.off + InN + o.w * o.h * Layer.oc <= ctx[walk.c].kbufn
  /\ walk.op = "down" /\ ~AtEnd =>
       walk.doff + Layer.len \div 3 <= ctx[walk.c].dwn
  /\ \A c \in DOMAIN ctx : ctx[c].kout >= 0 /\ Straight(c) =>
       ctx[c].kout + OutSize(c) = ctx[c].kbufn

\* Every layer runs on what belongs there: the first on the round's samples
\* (or what a Cortex made of them), every other on the whole output of the
\* layer before, from the same run of the pipe; never on a gradient, on a
\* mask or on something an earlier round has left.  inf copies the input enc
\* has run on, which an enc that begins with smax has made a mask of.
EncoderKeepsInput == setup.pipe["enc"][1].type # "smax"

RunsOnThisRound ==
  walk.op = "synth" /\ ~AtEnd /\ Straight(walk.c)
    /\ (walk.c = "inf" => EncoderKeepsInput) =>
    LET in == Load(ctx[walk.c].kbuf, walk.off, InN, Layer.ic)
    IN  \A j \in DOMAIN in :
          /\ in[j].grad = "none"
          /\ in[j].of # {} /\ \A s \in in[j].of : s[2] = iter + 1
          /\ walk.k > 1 => in[j].by = <<walk.c, walk.k - 1>>

\* Gradients go home: a layer learns from the gradient of its own output,
\* one loss's, and from the very input that output was made of.  The
\* adversarial loops run dis back twice on one synth (pushbuf, popbuf), send
\* a part of its input's gradient to the generator, and join and split
\* channels all along the chain.
GradientsGoHome ==
  walk.op = "up" /\ walk.frames # <<>> /\ Straight(walk.c) =>
    /\ \A j \in DOMAIN BackOut :
         /\ BackOut[j].grad # "none" /\ BackOut[j].grad = BackOut[1].grad
         /\ BackOut[j].by = <<walk.c, walk.k>>
         /\ BackOut[j].of = Sources(BackIn)
    /\ \A j \in DOMAIN BackIn :
         /\ BackIn[j].grad = IF Layer.type = "smax" THEN "mask" ELSE "none"
         /\ BackIn[j] # Junk

\* What a round teaches: the generator, its encoder and a learnfunc chain
\* one loss of this round's source; dis exactly two, a fake it is told is
\* fake and the target it is told is real, and not the loss it passed on.
FakeOf == {<<"src", iter + 1>>}
RealOf == {<<"tgt", iter + 1>>}

Lessons(c) ==
  IF setup.mode = "learnfunc" THEN {[of |-> FakeOf, grad |-> "tgt"]}
  ELSE IF c # "dis" THEN {[of |-> FakeOf, grad |-> "real"]}
  ELSE {[of |-> FakeOf, grad |-> "fake"],
        [of |-> RealOf \cup (IF HasCnd THEN FakeOf ELSE {}), grad |-> "real"]}

Learners == {c \in DOMAIN ctx : c \notin {"cnd", "inf"}}

RoundsTeach ==
  verdict = "run" /\ walk = Idle /\ todo = <<>> /\ ~Fresh =>
    \A c \in Learners : Straight(c) =>
      /\ \A k \in DOMAIN setup.pipe[c] :
           setup.pipe[c][k].len > 0 => updated[c][k] = Lessons(c)
      /\ \A d \in DOMAIN ctx[c].dw : ctx[c].dw[d] = {}
      /\ ctx[c].stack = <<>>

\* The kernels of a layer that has run forward and is about to be learned, at
\* its size.  They depend on nothing else, so one-layer pipes and the first
\* round are enough.
LearnedKernel(P(_, _, _, _)) ==
  walk.op = "up" /\ iter = 0 /\ Len(walk.frames) = 1 /\ Len(setup.pipe[walk.c]) = 1
    /\ BackAccepts(Layer) /\ Layer.type \in Known =>
    LET k == Kernel(Layer)
    IN  Sane(k, Frame.w, Frame.h) => \A x \in Inputs : P(k, Frame.w, Frame.h, x)

\* A layer's kernels stay within its input, its output and its weights, wrap
\* round the picture's edges or not, and fill the output.
KernelsStayInside == LearnedKernel(ReadsInside)

\* What goes back to an input cell is what went out of it: the learn_ kernel
\* gathers, for every input cell, the gradient of each output cell that used
\* it, times the very factor it was used with (a weight, a share of a mean
\* or of a maximum, a sign, none if a relu has cut it off), and as often as
\* that.  norm, cent and inrf are not so exact.
InexactLayers == {"norm", "cent", "inrf"}

InputsGetTheirGradient ==
  LearnedKernel(LAMBDA k, w, h, x :
    k.type \notin InexactLayers => ReturnsGradient(k, w, h, x))

\* Every weight's gradient gathers just the products the weight has been in:
\* from the output cells and the input cells that the kernel of synth brought
\* together over it, frozen channels and cut inputs left out.
WeightsGetTheirGradient ==
  LearnedKernel(LAMBDA k, w, h, x : k.type # "norm" => TeachesWeights(k, w, h, x))

\* Learning is the adjoint of synth in both respects, though the kernels of
\* the two are written apart.
KernelsTeach == InputsGetTheirGradient /\ WeightsGetTheirGradient

\* Inputs that no relu cuts off.
Lively == CHOOSE x \in Inputs : \A i \in DOMAIN x : x[i] > 0

\* No weight in a cortex file is idle, and none does another's work: synth
\* uses every one that the layer's length makes room for, but for those of
\* frozen channels; and a conv's are the same ones wherever the picture is,
\* so that a picture moved round its edges comes out moved.
EveryWeightCounts ==
  LearnedKernel(LAMBDA k, w, h, x :
    k.len > 0 /\ x = Lively => CountsWeights(k, w, h, x))

ConvsMoveAlong ==
  LearnedKernel(LAMBDA k, w, h, x :
    k.type = "conv" /\ k.dim = 2 /\ x = Lively => MovesAlong(k, w, h, x))

\* A dns layer puts back what an ups layer of the same rad and dim has taken
\* apart, and the other way round: no cell is lost and none is doubled.
ScalingComesBack ==
  LearnedKernel(LAMBDA k, w, h, x :
    k.type \in {"ups", "dns"} /\ x = Lively => ComesBack(k, w, h, x))

\* No weight and no cell goes missing or counts twice on the way forward.
ForwardExact == EveryWeightCounts /\ ConvsMoveAlong /\ ScalingComesBack

\* Once prepared, a training command never dies of the NULL input its chain
\* hands to a head of one member.
ChainsSynthesize == verdict # "null"
=============================================================================
