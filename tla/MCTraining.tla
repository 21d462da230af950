----------------------------- MODULE MCTraining -----------------------------
EXTENDS Training

\* No stoprounds.
MCNever == -1

Line(type, d, ic, oc) ==
  [type |-> type, d |-> d, ic |-> ic, oc |-> oc, iw |-> 0, ih |-> 0,
   ow |-> 0, oh |-> 0, dim |-> 2, len |-> 0, relu |-> FALSE, freeze |-> 0]

Flat(l) == [l EXCEPT !.dim = 1]

\* A spec line that names the sizes of its layer.
SizedLine(l, w, h, ow, oh) == [l EXCEPT !.iw = w, !.ih = h, !.ow = ow, !.oh = oh]

Relu(l) == [l EXCEPT !.relu = TRUE]
Frz(l, n) == [l EXCEPT !.freeze = n]

\* Inputs, large enough for every layer: all alive; of both signs, with
\* equals among them and some beyond 1.0.  None is 1.0 itself, where synth_
\* clamps an input and learn_clamp takes the slope from below.
Cells == 0 .. 255
MCInputs == {[i \in Cells |-> 1], [i \in Cells |-> ((i * i) % 5) - 1]}

\* What `make' turns spec lines into: {} where it calls error() or aborts.
Made(lines, ic) ==
  LET Add(pipes, l) ==
        UNION {LET c == IF p = <<>> THEN ic ELSE Last(p).oc
               IN  IF PushAccepts(l, c) THEN {Append(p, Pushed(l, c))} ELSE {} : p \in pipes}
  IN  FoldLeft(Add, {<<>>}, lines)

SameLines == {Line(t, 0, 0, 0) : t \in {"relu", "blur", "medi", "iden", "summ", "mean"}}
               \cup {Line("tlab", 0, 0, 3), Line("smax", 0, 0, 3)}

MoreLines ==
  {Line("conv", 1, 0, 0), Line("conv", 0, 0, 4), Flat(Line("conv", 1, 0, 1)),
   Line("lrnd", 0, 0, 0), Line("addg", 0, 0, 0), Line("diff", 0, 0, 2), Line("mean", 0, 0, 2),
   Line("padd", 1, 0, 0), Line("trim", 1, 0, 0), Line("crop", 1, 0, 0),
   Line("scal", 0, 0, 1), Line("scal", 0, 0, 4), Line("ups", 1, 0, 0), Line("dns", 1, 0, 0),
   Flat(Line("ups", 1, 0, 2)), Flat(Line("dns", 1, 0, 8)), Flat(Line("scal", 0, 0, 1)),
   SizedLine(Line("loc", 1, 0, 1), 2, 2, 2, 2), SizedLine(Line("bias", 0, 0, 0), 4, 2, 4, 2),
   SizedLine(Line("norm", 0, 0, 0), 0, 2, 2, 2), SizedLine(Line("relu", 0, 0, 0), 2, 2, 0, 0),
   SizedLine(Line("dns", 1, 0, 4), 0, 0, 1, 1)}

\* Lines for pipes of one layer.
KernelLines ==
  {Relu(Line("conv", 1, 0, 2)), Frz(Line("conv", 1, 0, 2), 1), Relu(Frz(Line("conv", 1, 0, 3), 1)),
   Relu(Flat(Line("conv", 1, 0, 2))), Frz(Flat(Line("conv", 1, 0, 2)), 1), Line("conv", 2, 0, 2),
   Line("popp", 0, 0, 1), Line("popp", 0, 0, 3), Line("iden", 0, 0, 3), Line("iden", 0, 0, 9),
   Line("zero", 0, 0, 2), Line("summ", 0, 0, 3), Line("smax", 0, 0, 2), Line("ups", 2, 0, 0),
   Line("dns", 2, 0, 0), SizedLine(Line("loc", 0, 0, 2), 4, 2, 4, 2),
   SizedLine(Line("loc", 2, 0, 2), 4, 2, 4, 2)}
  \cup {Line(t, 0, 0, 0) : t \in {"absv", "clmp", "sigm", "cent", "nerf", "inrf", "grnd", "drnd", "pad1"}}

MCLines == SameLines \cup MoreLines

One(name) == [name |-> "p1", members |-> <<name>>]

MCSetupsLearnfunc ==
  UNION {{[mode |-> "learnfunc", chain |-> <<One("gen")>>, pipe |-> [c \in {"gen"} |-> p],
           w |-> w, h |-> 2] : p \in Made(ls, ic)} :
          ls \in {<<a>> : a \in MCLines \cup KernelLines} \cup {<<a, b>> : a \in MCLines, b \in MCLines},
          ic \in {1, 4}, w \in {2, 4}}
  \cup
  UNION {{[mode |-> "learnfunc", chain |-> <<One("gen")>>, pipe |-> [c \in {"gen"} |-> p],
           w |-> 3, h |-> 4] : p \in Made(<<a>>, 3)} : a \in MCLines \cup KernelLines}

\* Pipes of the adversarial set-ups, from ic channels to oc.
Two(ic, oc) == CHOOSE p \in Made(<<Line("conv", 1, 0, oc), Line("relu", 0, 0, 0)>>, ic) : TRUE
Three(ic, oc) ==
  CHOOSE p \in Made(<<Line("dns", 1, 0, 0), Line("conv", 0, 0, 4 * oc), Line("ups", 1, 0, 0)>>, ic) : TRUE

Chain(k) ==
  CASE k = 1 -> <<One("gen")>>
    [] k = 2 -> <<One("gen"), [name |-> "p2", members |-> <<"more">>]>>
    [] k = 3 -> <<[name |-> "p1", members |-> <<"gen", "more">>]>>
    [] k = 4 -> <<[name |-> "p1", members |-> <<"gen", "more">>],
                  [name |-> "p2", members |-> <<"last">>]>>
    [] k = 5 -> <<One("gen"), [name |-> "p2", members |-> <<"more", "last">>]>>

Members(k) == UNION {ToSet(p.members) : p \in ToSet(Chain(k))}

\* The members' channels: the chain takes InOf(k) and puts out OutOf(k).
Ins(k)  == CASE k = 4 -> [gen |-> 1, more |-> 1, last |-> 3]
             [] k = 5 -> [gen |-> 2, more |-> 1, last |-> 2]
             [] k = 2 -> [gen |-> 2, more |-> 3]
             [] OTHER -> [gen |-> 2, more |-> 1]
Outs(k) == CASE k = 4 -> [gen |-> 1, more |-> 2, last |-> 2]
             [] k = 5 -> [gen |-> 3, more |-> 1, last |-> 2]
             [] k = 2 -> [gen |-> 3, more |-> 2]
             [] OTHER -> [gen |-> 1, more |-> 2]
InOf(k)  == CASE k = 3 -> 3 [] OTHER -> 2
OutOf(k) == CASE k \in {3, 5} -> 3 [] k = 1 -> 1 [] OTHER -> 2

ChainPipes(k, Pipe(_, _)) == [c \in Members(k) |-> Pipe(Ins(k)[c], Outs(k)[c])]

MCSetupsHans ==
  {[mode |-> "learnhans", chain |-> Chain(k), w |-> 2, h |-> 2,
    pipe |-> ChainPipes(k, Two) @@ [c \in {"dis"} |-> Three(OutOf(k), 1)]] : k \in 1 .. 5}
  \cup
  {[mode |-> "learnhans", chain |-> Chain(k), w |-> 2, h |-> 2,
    pipe |-> ChainPipes(k, Three) @@ [c \in {"dis"} |-> Two(OutOf(k) + 2, 1)]
               @@ [c \in {"cnd"} |-> Two(InOf(k), 2)]] : k \in 1 .. 5}

MCSetupsLearn ==
  {[mode |-> "learn", chain |-> Chain(k), w |-> 2, h |-> 2,
    pipe |-> ChainPipes(k, Two) @@
             [c \in {"dis", "cnd", "enc", "inf"} |->
                CASE c = "enc" -> Three(3, InOf(k) - 1) [] c = "inf" -> Two(3, 1)
                  [] c = "cnd" -> Two(1, 2) [] c = "dis" -> Three(OutOf(k) + 2, 1)]] : k \in 1 .. 5}

\* enc makes a mask of the input that inf takes.
MCSetupsMask ==
  {[mode |-> "learn", chain |-> Chain(1), w |-> 2, h |-> 2,
    pipe |-> [c \in {"gen", "dis", "cnd", "enc", "inf"} |->
       CASE c = "enc" -> CHOOSE p \in Made(<<Line("smax", 0, 0, 3), Line("conv", 0, 0, 1)>>, 3) : TRUE
         [] c = "inf" -> Two(3, 1) [] c = "gen" -> Two(2, 1)
         [] c = "cnd" -> Two(1, 2) [] c = "dis" -> Three(3, 1)]]}

MCSetups == MCSetupsMask \cup MCSetupsLearnfunc \cup MCSetupsHans \cup MCSetupsLearn

\* One chain of one Cortex, for the run on the CPU.
MCSetupOne ==
  {[mode |-> "learnfunc", chain |-> <<One("gen")>>, pipe |-> [c \in {"gen"} |-> p], w |-> 2, h |-> 2] :
     p \in Made(<<Line("conv", 1, 0, 3)>>, 3)}
=============================================================================
