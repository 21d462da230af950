------------------------------- MODULE Kernels ------------------------------
(***************************************************************************)
(* The kernels of the layers (colonel-core.inc) and their launches         *)
(* (colonel-common.inc).  A synth_ kernel has one thread per output cell,  *)
(* a learn_ kernel one per weight (learn_conv1, ...) or per input cell     *)
(* (learn_conv2, learn_pad, ...), and each writes its own cell only.       *)
(*                                                                         *)
(* What a thread sums up is a bag of terms <<a, b>>, the products a * b:   *)
(* in synth_ a is an input cell and b what it is multiplied by, in learn_  *)
(* a is the gradient found in an output cell.  What a number is beyond     *)
(* that is left out, but for the inputs x, whose signs and order some      *)
(* kernels branch on; they are counted in halves, so 1.0 is 2.             *)
(*                                                                         *)
(* l is the layer, with relu and freeze besides what Pipeline needs; its   *)
(* input is w wide and h high.                                             *)
(***************************************************************************)
EXTENDS Pipeline, Bags, FiniteSets

CONSTANTS
  Inputs        \* the inputs looked at: functions from cells to numbers

\* Symbols.
In(i)    == <<"in", i>>        \* input cell i
Grad(o)  == <<"grad", o>>      \* the gradient in output cell o
Weight(i) == <<"weight", i>>   \* wmv[i * 3]
Unit     == <<"one", 0>>
Minus    == <<"minus one", 0>>
Part(n)  == <<"one of", n>>    \* 1 / n
Slope    == <<"slope", 0>>     \* the derivative at that input
WrongSlope == <<"wrong slope", 0>>

Just(a, b) == SetToBag({<<a, b>>})

\* The terms T(s) for the s in S, as often as they come.
Tally(S, T(_)) == BagOfAll(T, SetToBag(S))

\* Cells: channel z of the pixel at x, y of a picture of c channels, w wide.
Cell(z, x, y, c, w) == z + c * (x + w * y)

Place(i, c, w) == [z |-> i % c, x |-> (i \div c) % w, y |-> i \div (c * w)]

\* C's %, which keeps the sign.
Rem(a, n) == IF a >= 0 THEN a % n ELSE -((-a) % n)

\* Mutated form of Wrap: n is not added.
WrapShort(a, n) == Rem(a, n)

\* The index (a + n) % n.
Wrap(a, n) == Rem(a + n, n)

Side(l) == 2 * l.d + 1

\* The taps of a filter: channel and offset, dx and dy from 0 to 2d.
Taps(l) ==
  [z : 0 .. l.ic - 1, dx : 0 .. 2 * l.d,
   dy : IF l.type = "conv" /\ l.dim = 1 THEN {l.d} ELSE 0 .. 2 * l.d]

\* The cell a tap finds in a picture of c channels around x, y; its row is
\* not wrapped by the kernels of dim 1.
Tapped(l, w, h, z, c, x, y, dx, dy) ==
  Cell(z, Wrap(x - l.d + dx, w),
       IF l.type = "conv" /\ l.dim = 1 THEN y ELSE Wrap(y - l.d + dy, h), c, w)

Pixels(w, h) == (0 .. w - 1) \X (0 .. h - 1)

----------------------------------------------------------------------------
(* Filters with weights.                                                   *)

\* Mutated form of ConvWeight: rows are not told apart.
ConvWeightFlat(l, t, oz) ==
  l.oc + (t.z + l.ic * (t.dx + Side(l) * (IF l.dim = 1 THEN oz ELSE t.dy + oz)))

ConvWeight(l, t, oz) ==
  l.oc + (t.z + l.ic * (t.dx + Side(l) * (IF l.dim = 1 THEN oz ELSE t.dy + Side(l) * oz)))

Live(l, v, z) == ~l.relu \/ v > 0 \/ z < l.freeze

synth_conv(l, w, h, x, o) ==
  LET p == Place(o, l.oc, w)
      i(t) == Tapped(l, w, h, t.z, l.ic, p.x, p.y, t.dx, t.dy)
  IN  IF p.z < l.freeze THEN Just(In(Cell(p.z, p.x, p.y, l.ic, w)), Unit)
      ELSE Tally({t \in Taps(l) : Live(l, x[i(t)], t.z)},
               LAMBDA t : <<In(i(t)), Weight(ConvWeight(l, t, p.z))>>)
             (+) Just(Unit, Weight(p.z))

\* Which weight a thread of learn_conv1 has.
ConvTap(l, wi) ==
  LET n == wi - l.oc
      m == (n \div l.ic) \div Side(l)
  IN  [z |-> n % l.ic, dx |-> (n \div l.ic) % Side(l),
       dy |-> IF l.dim = 1 THEN l.d ELSE m % Side(l),
       oz |-> (IF l.dim = 1 THEN m ELSE m \div Side(l)) % l.oc]

learn_conv1(l, w, h, x, wi) ==
  IF wi < l.oc
  THEN IF wi < l.freeze THEN EmptyBag
       ELSE Tally(Pixels(w, h), LAMBDA q : <<Grad(Cell(wi, q[1], q[2], l.oc, w)), Unit>>)
  ELSE LET t == ConvTap(l, wi)
           i(q) == Tapped(l, w, h, t.z, l.ic, q[1], q[2], t.dx, t.dy)
       IN  IF t.oz < l.freeze THEN EmptyBag
           ELSE Tally({q \in Pixels(w, h) : Live(l, x[i(q)], t.z)},
                    LAMBDA q : <<Grad(Cell(t.oz, q[1], q[2], l.oc, w)), In(i(q))>>)

\* Mutated form of learn_conv2: the tap is not turned round.
learn_conv2Unturned(l, w, h, x, i) ==
  LET p == Place(i, l.ic, w)
      o(t, oz) == Tapped(l, w, h, oz, l.oc, p.x, p.y, t.dx, t.dy)
  IN  Tally({s \in Taps(l) \X (0 .. l.oc - 1) : s[1].z = p.z},
          LAMBDA s : <<Grad(o(s[1], s[2])), Weight(ConvWeight(l, s[1], s[2]))>>)

\* A tap that sees an output cell at offset -d + dx is seen from there at
\* d - dx.  A frozen channel's output goes to its own input alone.
learn_conv2(l, w, h, x, i) ==
  LET p == Place(i, l.ic, w)
      o(t, oz) == Tapped(l, w, h, oz, l.oc, p.x, p.y, t.dx, t.dy)
      back(t) == [t EXCEPT !.dx = 2 * l.d - @, !.dy = 2 * l.d - @]
      reaches(t, oz) ==
        oz >= l.freeze \/ (oz = p.z /\ o(t, oz) = Cell(oz, p.x, p.y, l.oc, w))
  IN  IF ~Live(l, x[i], p.z) THEN EmptyBag
      ELSE Tally({s \in Taps(l) \X (0 .. l.oc - 1) : s[1].z = p.z /\ reaches(s[1], s[2])},
               LAMBDA s : <<Grad(o(s[1], s[2])),
                            IF s[2] < l.freeze THEN Unit
                            ELSE Weight(ConvWeight(l, back(s[1]), s[2]))>>)

LocalWeight(l, w, h, t, o) ==
  w * h * l.oc + (t.z + l.ic * (t.dx + Side(l) * (t.dy + Side(l) * o)))

synth_local(l, w, h, x, o) ==
  LET p == Place(o, l.oc, w)
  IN  Tally(Taps(l), LAMBDA t : <<In(Tapped(l, w, h, t.z, l.ic, p.x, p.y, t.dx, t.dy)),
                                Weight(LocalWeight(l, w, h, t, o))>>)
        (+) Just(Unit, Weight(o))

learn_local1(l, w, h, x, wi) ==
  LET outn == w * h * l.oc
      n == wi - outn
      m == n \div l.ic
      o == (m \div (Side(l) * Side(l))) % outn
      p == Place(o, l.oc, w)
  IN  IF wi < outn THEN Just(Grad(wi), Unit)
      ELSE Just(Grad(o), In(Tapped(l, w, h, n % l.ic, l.ic, p.x, p.y % h, m % Side(l),
                                   (m \div Side(l)) % Side(l))))

learn_local2(l, w, h, x, i) ==
  LET p == Place(i, l.ic, w)
      o(t, oz) == Tapped(l, w, h, oz, l.oc, p.x, p.y, t.dx, t.dy)
      back(t) == [t EXCEPT !.dx = 2 * l.d - @, !.dy = 2 * l.d - @]
  IN  Tally({s \in Taps(l) \X (0 .. l.oc - 1) : s[1].z = p.z},
          LAMBDA s : <<Grad(o(s[1], s[2])),
                       Weight(LocalWeight(l, w, h, back(s[1]), o(s[1], s[2])))>>)

synth_bias(l, w, h, x, o) == Just(In(o), Unit) (+) Just(Unit, Weight(o))

learn_bias1(l, w, h, x, wi) == Just(Grad(wi), Unit)

learn_bias2(l, w, h, x, i) == Just(Grad(i), Unit)

synth_norm(l, w, h, x, o) ==
  Just(In(o), Unit) (+) Just(In(o), Weight(o + w * h * l.oc)) (+) Just(Unit, Weight(o))

\* The factors' gradient is switched off (#if 0).
learn_norm1(l, w, h, x, wi) ==
  IF wi < w * h * l.oc THEN Just(Grad(wi), Unit) ELSE EmptyBag

learn_norm2(l, w, h, x, i) == Just(Grad(i), Unit)

----------------------------------------------------------------------------
(* Pictures cut and padded.                                                *)

synth_padd(l, w, h, x, o) ==
  LET p == Place(o, l.oc, w + 2 * l.d)
  IN  IF p.x - l.d \notin 0 .. w - 1 \/ p.y - l.d \notin 0 .. h - 1 THEN EmptyBag
      ELSE Just(In(Cell(p.z, p.x - l.d, p.y - l.d, l.ic, w)), Unit)

learn_padd(l, w, h, x, i) ==
  LET p == Place(i, l.ic, w)
  IN  Just(Grad(Cell(p.z, p.x + l.d, p.y + l.d, l.oc, w + 2 * l.d)), Unit)

synth_trim(l, w, h, x, o) ==
  LET p == Place(o, l.oc, w - 2 * l.d)
  IN  Just(In(Cell(p.z, p.x + l.d, p.y + l.d, l.ic, w)), Unit)

learn_trim(l, w, h, x, i) ==
  LET p == Place(i, l.ic, w)
  IN  IF p.x \notin l.d .. w - l.d - 1 \/ p.y \notin l.d .. h - l.d - 1 THEN EmptyBag
      ELSE Just(Grad(Cell(p.z, p.x - l.d, p.y - l.d, l.oc, w - 2 * l.d)), Unit)

----------------------------------------------------------------------------
(* Channels added, taken away and folded.  What is put into channels that  *)
(* are added (noise, ones, zeros, the place in the picture) is left out.   *)

\* The cell with the same pixel as p, in the other picture.
Across(p, z, c, w) == Cell(z, p.x, p.y, c, w)

synth_pad(l, w, h, x, o) ==
  LET p == Place(o, l.oc, w)
  IN  IF p.z < l.ic THEN Just(In(Across(p, p.z, l.ic, w)), Unit) ELSE EmptyBag

learn_pad(l, w, h, x, i) ==
  LET p == Place(i, l.ic, w) IN Just(Grad(Across(p, p.z, l.oc, w)), Unit)

synth_addgeo(l, w, h, x, o) ==
  LET p == Place(o, l.oc, w)
  IN  IF p.z < l.ic THEN Just(In(Across(p, p.z, l.ic, w)), Unit) ELSE EmptyBag

learn_addgeo(l, w, h, x, i) ==
  LET p == Place(i, l.ic, w) IN Just(Grad(Across(p, p.z, l.oc, w)), Unit)

synth_zero(l, w, h, x, o) == EmptyBag

learn_zero(l, w, h, x, i) == EmptyBag

\* popp keeps the last channels.
synth_popp(l, w, h, x, o) ==
  LET p == Place(o, l.oc, w)
  IN  Just(In(Across(p, Rem((l.ic - l.oc) + p.z, l.ic), l.ic, w)), Unit)

learn_popp(l, w, h, x, i) ==
  LET p == Place(i, l.ic, w)
      z == p.z - (l.ic - l.oc)
  IN  IF z < 0 THEN EmptyBag ELSE Just(Grad(Across(p, z, l.oc, w)), Unit)

\* iden repeats its channels, or keeps the first ones.
synth_iden(l, w, h, x, o) ==
  LET p == Place(o, l.oc, w) IN Just(In(Across(p, p.z % l.ic, l.ic, w)), Unit)

\* The channels z, z + step, ... below n.
Every(z, step, n) == {k \in z .. n - 1 : (k - z) % step = 0}

learn_iden(l, w, h, x, i) ==
  LET p == Place(i, l.ic, w)
  IN  Tally(Every(p.z, l.ic, l.oc), LAMBDA z : <<Grad(Across(p, z, l.oc, w)), Unit>>)

synth_sum(l, w, h, x, o) ==
  LET p == Place(o, l.oc, w)
  IN  Tally(Every(p.z, l.oc, l.ic), LAMBDA z : <<In(Across(p, z, l.ic, w)), Unit>>)

learn_sum(l, w, h, x, i) ==
  LET p == Place(i, l.ic, w) IN Just(Grad(Across(p, p.z % l.oc, l.oc, w)), Unit)

synth_mean(l, w, h, x, o) ==
  LET p == Place(o, l.oc, w)
  IN  Tally(Every(p.z, l.oc, l.ic),
          LAMBDA z : <<In(Across(p, z, l.ic, w)), Part(l.ic \div l.oc)>>)

learn_mean(l, w, h, x, i) ==
  LET p == Place(i, l.ic, w)
  IN  Just(Grad(Across(p, p.z % l.oc, l.oc, w)), Part(l.ic \div l.oc))

\* The cells that hold the greatest of an output cell's inputs; synth_smax
\* leaves 1 / their number in each of them, and 0 in the others, for
\* learn_smax to multiply by.
Greatest(l, w, x, p) ==
  LET cells == {Across(p, z, l.ic, w) : z \in Every(p.z, l.oc, l.ic)}
  IN  {i \in cells : \A j \in cells : x[j] <= x[i]}

synth_smax(l, w, h, x, o) ==
  LET g == Greatest(l, w, x, Place(o, l.oc, w))
  IN  Tally(g, LAMBDA i : <<In(i), Part(Cardinality(g))>>)

learn_smax(l, w, h, x, i) ==
  LET p == Place(i, l.ic, w)
      g == Greatest(l, w, x, [p EXCEPT !.z = @ % l.oc])
  IN  IF i \in g THEN Just(Grad(Across(p, p.z % l.oc, l.oc, w)), Part(Cardinality(g)))
      ELSE EmptyBag

synth_diff(l, w, h, x, o) ==
  LET p == Place(o, l.oc, w)
  IN  Just(In(Across(p, p.z, l.ic, w)), Unit) (+) Just(In(Across(p, p.z + l.oc, l.ic, w)), Minus)

learn_diff(l, w, h, x, i) ==
  LET p == Place(i, l.ic, w)
  IN  Just(Grad(Across(p, p.z % l.oc, l.oc, w)), IF p.z >= l.oc THEN Minus ELSE Unit)

----------------------------------------------------------------------------
(* Cell by cell.                                                           *)

synth_relu(l, w, h, x, o) == IF x[o] > 0 THEN Just(In(o), Unit) ELSE EmptyBag
learn_relu(l, w, h, x, i) == IF x[i] > 0 THEN Just(Grad(i), Unit) ELSE EmptyBag

synth_abs(l, w, h, x, o) == Just(In(o), IF x[o] > 0 THEN Unit ELSE Minus)
learn_abs(l, w, h, x, i) == Just(Grad(i), IF x[i] > 0 THEN Unit ELSE Minus)

synth_clamp(l, w, h, x, o) ==
  IF x[o] <= 0 THEN EmptyBag ELSE IF x[o] < 2 THEN Just(In(o), Unit) ELSE Just(Unit, Unit)
learn_clamp(l, w, h, x, i) == IF x[i] > 0 /\ x[i] <= 2 THEN Just(Grad(i), Unit) ELSE EmptyBag

\* sigm, nerf, cent and inrf.
synth_curve(l, w, h, x, o) == Just(In(o), Slope)

\* learn_cent passes the gradient on as it is; learn_inrf takes the slope at
\* the gradient, where the cell's value is meant.
learn_curve(l, w, h, x, i) ==
  Just(Grad(i), CASE l.type = "cent" -> Unit [] l.type = "inrf" -> WrongSlope [] OTHER -> Slope)

----------------------------------------------------------------------------
(* Pixels into channels and back, by s powers of two.                      *)

synth_upscale(l, w, h, x, o) ==
  LET f == 2^(l.d)
      p == Place(o, l.oc, w * f)
  IN  IF l.dim = 1
      THEN Just(In(Cell(p.z + l.oc * (p.x % f), p.x \div f, p.y, l.ic, w)), Unit)
      ELSE Just(In(Cell(p.z + l.oc * ((p.x % f) + f * (p.y % f)),
                        p.x \div f, p.y \div f, l.ic, w)), Unit)

learn_upscale(l, w, h, x, i) ==
  LET f == 2^(l.d)
      p == Place(i, l.ic, w)
      dx == (p.z \div l.oc) % f
      dy == (p.z \div l.oc) \div f
  IN  Just(Grad(Cell(p.z % l.oc, p.x * f + dx, IF l.dim = 1 THEN p.y ELSE p.y * f + dy,
                     l.oc, w * f)), Unit)

synth_downscale(l, w, h, x, o) ==
  LET f == 2^(l.d)
      p == Place(o, l.oc, w \div f)
      dx == (p.z \div l.ic) % f
      dy == (p.z \div l.ic) \div f
  IN  Just(In(Cell(p.z % l.ic, p.x * f + dx, IF l.dim = 1 THEN p.y ELSE p.y * f + dy,
                   l.ic, w)), Unit)

learn_downscale(l, w, h, x, i) ==
  LET f == 2^(l.d)
      p == Place(i, l.ic, w)
  IN  Just(Grad(Cell(p.z + l.ic * ((p.x % f) + (IF l.dim = 1 THEN 0 ELSE f * (p.y % f))),
                     p.x \div f, IF l.dim = 1 THEN p.y ELSE p.y \div f, l.oc, w \div f)), Unit)

----------------------------------------------------------------------------
(* The layers' kernels.  scal is one of three.                             *)

Kernel(l) ==
  IF l.type # "scal" THEN l
  ELSE [l EXCEPT !.type = IF Scale(l) > 0 THEN "ups" ELSE IF Scale(l) < 0 THEN "dns" ELSE "pad1",
                 !.d = IF Scale(l) < 0 THEN -Scale(l) ELSE Scale(l)]

Curves == {"sigm", "nerf", "cent", "inrf"}

\* The layers whose synth_ and learn_ kernels are above.  crop and blur are
\* never learned, medi orders by values, and its learn_ runs on a GPU alone.
Known == Types \ ({"crop", "blur", "medi"} \cup Labs)

SynthTerms(k, w, h, x, o) ==
  CASE k.type = "conv" -> synth_conv(k, w, h, x, o)
    [] k.type = "loc"  -> synth_local(k, w, h, x, o)
    [] k.type = "bias" -> synth_bias(k, w, h, x, o)
    [] k.type = "norm" -> synth_norm(k, w, h, x, o)
    [] k.type = "padd" -> synth_padd(k, w, h, x, o)
    [] k.type = "trim" -> synth_trim(k, w, h, x, o)
    [] k.type = "ups"  -> synth_upscale(k, w, h, x, o)
    [] k.type = "dns"  -> synth_downscale(k, w, h, x, o)
    [] k.type = "addg" -> synth_addgeo(k, w, h, x, o)
    [] k.type \in Padders -> synth_pad(k, w, h, x, o)
    [] k.type = "zero" -> synth_zero(k, w, h, x, o)
    [] k.type = "popp" -> synth_popp(k, w, h, x, o)
    [] k.type = "iden" -> synth_iden(k, w, h, x, o)
    [] k.type = "summ" -> synth_sum(k, w, h, x, o)
    [] k.type = "mean" -> synth_mean(k, w, h, x, o)
    [] k.type = "smax" -> synth_smax(k, w, h, x, o)
    [] k.type = "diff" -> synth_diff(k, w, h, x, o)
    [] k.type = "relu" -> synth_relu(k, w, h, x, o)
    [] k.type = "absv" -> synth_abs(k, w, h, x, o)
    [] k.type = "clmp" -> synth_clamp(k, w, h, x, o)
    [] k.type \in Curves -> synth_curve(k, w, h, x, o)

InputTerms(k, w, h, x, i) ==
  CASE k.type = "conv" -> learn_conv2(k, w, h, x, i)
    [] k.type = "loc"  -> learn_local2(k, w, h, x, i)
    [] k.type = "bias" -> learn_bias2(k, w, h, x, i)
    [] k.type = "norm" -> learn_norm2(k, w, h, x, i)
    [] k.type = "padd" -> learn_padd(k, w, h, x, i)
    [] k.type = "trim" -> learn_trim(k, w, h, x, i)
    [] k.type = "ups"  -> learn_upscale(k, w, h, x, i)
    [] k.type = "dns"  -> learn_downscale(k, w, h, x, i)
    [] k.type = "addg" -> learn_addgeo(k, w, h, x, i)
    [] k.type \in Padders -> learn_pad(k, w, h, x, i)
    [] k.type = "zero" -> learn_zero(k, w, h, x, i)
    [] k.type = "popp" -> learn_popp(k, w, h, x, i)
    [] k.type = "iden" -> learn_iden(k, w, h, x, i)
    [] k.type = "summ" -> learn_sum(k, w, h, x, i)
    [] k.type = "mean" -> learn_mean(k, w, h, x, i)
    [] k.type = "smax" -> learn_smax(k, w, h, x, i)
    [] k.type = "diff" -> learn_diff(k, w, h, x, i)
    [] k.type = "relu" -> learn_relu(k, w, h, x, i)
    [] k.type = "absv" -> learn_abs(k, w, h, x, i)
    [] k.type = "clmp" -> learn_clamp(k, w, h, x, i)
    [] k.type \in Curves -> learn_curve(k, w, h, x, i)

WeightTerms(k, w, h, x, wi) ==
  CASE k.type = "conv" -> learn_conv1(k, w, h, x, wi)
    [] k.type = "loc"  -> learn_local1(k, w, h, x, wi)
    [] k.type = "bias" -> learn_bias1(k, w, h, x, wi)
    [] k.type = "norm" -> learn_norm1(k, w, h, x, wi)

\* The threads that are launched and get past their kernel's test: as many as
\* output cells, weights or input cells; upscale and downscale of dim 1, and
\* conv of dim 1, are launched as if they were of dim 2.
OutThreads(k, w, h) ==
  LET o == SynthShape(k, w, h)
      n == CASE k.type = "ups" -> w * 2^(k.d) * h * 2^(k.d) * k.oc
             [] k.type = "dns" -> w * h * k.oc
             [] OTHER -> o.w * o.h * k.oc
  IN  {i \in 0 .. n - 1 : i < o.w * o.h * k.oc}

WeightThreads(k, w, h) ==
  CASE k.type = "conv" ->
         {i \in 0 .. k.oc + k.ic * Side(k) * Side(k) * k.oc - 1 :
            i < k.oc + k.ic * Side(k) * (IF k.dim = 1 THEN 1 ELSE Side(k)) * k.oc}
    [] k.type = "loc"  ->
         0 .. w * h * k.oc + k.ic * Side(k) * Side(k) * (w * h * k.oc) - 1
    [] k.type = "bias" -> 0 .. w * h * k.oc - 1
    [] k.type = "norm" -> 0 .. 2 * (w * h * k.oc) - 1
    [] OTHER -> {}

InThreads(k, w, h) == 0 .. w * h * k.ic - 1

----------------------------------------------------------------------------
(* What the kernels of a layer promise each other.                         *)

\* What synth_ sums up, as <<input cell, factor, output cell, how often>>,
\* and what the two learn_ kernels sum up.
Forward(k, w, h, x) ==
  UNION {LET b == SynthTerms(k, w, h, x, o)
         IN  {<<t[1], t[2], o, b[t]>> : t \in DOMAIN b} : o \in OutThreads(k, w, h)}

BackToInputs(k, w, h, x) ==
  UNION {LET b == InputTerms(k, w, h, x, i)
         IN  {<<In(i), t[2], t[1][2], b[t]>> : t \in DOMAIN b} : i \in InThreads(k, w, h)}

BackToWeights(k, w, h, x) ==
  UNION {LET b == WeightTerms(k, w, h, x, wi)
         IN  {<<t[2], Weight(wi), t[1][2], b[t]>> : t \in DOMAIN b} :
           wi \in WeightThreads(k, w, h)}

\* What no assertion asks for: a filter no wider than the picture (a frozen
\* channel: narrower), frozen channels that there are, and no more channels
\* popped than there are.
Sane(k, w, h) ==
  /\ k.type \in {"conv", "loc"} => k.d <= w /\ (k.dim = 1 \/ k.d <= h)
  /\ k.type = "conv" /\ k.freeze > 0 =>
       k.freeze <= k.ic /\ k.d < w /\ (k.dim = 1 \/ k.d < h)
  /\ k.type = "popp" => k.oc <= k.ic

ReadsInside(k, w, h, x) ==
  LET o == SynthShape(k, w, h)
      outs == 0 .. o.w * o.h * k.oc - 1
      used == Forward(k, w, h, x) \cup BackToInputs(k, w, h, x) \cup BackToWeights(k, w, h, x)
  IN  /\ OutThreads(k, w, h) = outs
      /\ \A u \in used :
           /\ u[1][1] = "in" => u[1][2] \in InThreads(k, w, h)
           /\ u[2][1] = "weight" => u[2][2] \in 0 .. k.len \div 3 - 1
           /\ u[3] \in outs

ReturnsGradient(k, w, h, x) ==
  {u \in Forward(k, w, h, x) : u[1] # Unit} = BackToInputs(k, w, h, x)

TeachesWeights(k, w, h, x) ==
  {u \in Forward(k, w, h, x) : u[2][1] = "weight"} = BackToWeights(k, w, h, x)

Frozen(k, wi) == k.type = "conv" /\ (IF wi < k.oc THEN wi ELSE ConvTap(k, wi).oz) < k.freeze

CountsWeights(k, w, h, x) ==
  {u[2][2] : u \in {v \in Forward(k, w, h, x) : v[2][1] = "weight"}}
    = {wi \in 0 .. k.len \div 3 - 1 : ~Frozen(k, wi)}

\* The picture moved by dx and dy, round its edges.
Shifted(i, c, w, h, dx, dy) ==
  LET p == Place(i, c, w) IN Cell(p.z, (p.x + dx) % w, (p.y + dy) % h, c, w)

MovesAlong(k, w, h, x) ==
  \A dx \in 0 .. w - 1, dy \in 0 .. h - 1 :
    {<<IF u[1] = Unit THEN Unit ELSE In(Shifted(u[1][2], k.ic, w, h, dx, dy)), u[2],
       Shifted(u[3], k.oc, w, h, dx, dy), u[4]>> : u \in Forward(k, w, h, x)}
      = Forward(k, w, h, x)

\* dns undoes ups, and ups dns.
Undone(k) ==
  [k EXCEPT !.type = IF k.type = "ups" THEN "dns" ELSE "ups", !.ic = k.oc, !.oc = k.ic]

ComesBack(k, w, h, x) ==
  LET o == SynthShape(k, w, h)
  IN  {<<u[1][2], u[3]>> : u \in Forward(k, w, h, x)}
        = {<<u[3], u[1][2]>> : u \in Forward(Undone(k), o.w, o.h, x)}
=============================================================================
