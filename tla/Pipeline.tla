------------------------------ MODULE Pipeline ------------------------------
(***************************************************************************)
(* The layers of a Cortex and the three functions that walk them           *)
(* (cortex.cc): pipe_prep lays the buffer out, pipe_synth runs the pipe    *)
(* forward and pipe_learn runs it backward.  Each works out the shapes of  *)
(* every layer again by itself, so each has its own rules here: what it    *)
(* asserts of a layer whose input is w wide and h high (...Accepts) and    *)
(* the shape it hands to the next layer (...Shape).                        *)
(*                                                                         *)
(* A layer is a Segment header: its type without the digit, that digit or  *)
(* the header's rad (d), its channels, the sizes its spec line names (0:   *)
(* not named), dim and the number of weights.  RCN0..3, CON0..3 and CONV   *)
(* are one type, "conv": they differ in the kernel's arithmetic alone.     *)
(* Byte counts are counted in doubles, and the headers between the weights *)
(* are left out.                                                           *)
(***************************************************************************)
EXTENDS Integers, Sequences

CONSTANTS
  Device        \* "cpu" or "gpu": where setkdev has put the kernels

ASSUME DeviceAssumption == Device \in {"cpu", "gpu"}

Elementwise == {"absv", "relu", "clmp", "sigm", "cent", "nerf", "inrf"}
Filters   == {"medi", "blur"}
Padders   == {"grnd", "lrnd", "drnd", "pad1"}
Labs      == {"tlab", "flab"}
Pickers   == {"popp", "iden", "zero"}
Folders   == {"mean", "smax", "summ"}
Weighted  == {"norm", "bias", "loc", "conv"}

Types == Elementwise \cup Filters \cup Padders \cup Labs \cup Pickers
           \cup Folders \cup Weighted
           \cup {"padd", "crop", "trim", "scal", "ups", "dns", "addg", "diff"}

\* Segment headers, whose numbers are unsigned; relu and freeze are for the
\* kernels.  There are ups1 to ups5 and dns1 to dns5.
Layers ==
  {l \in [type : Types, d : Nat, ic : Nat, oc : Nat, iw : Nat, ih : Nat, ow : Nat,
          oh : Nat, dim : Nat, len : Nat, relu : BOOLEAN, freeze : Nat] :
     l.type \in {"ups", "dns"} => l.d \in 1 .. 5}

Sized(w, h) == [w |-> w, h |-> h]

\* _scale_factor: the s with ic = oc * 4^s; there is none when error() is
\* called.
ScaleFactors(ic, oc) ==
  {s \in -8 .. 8 : IF s < 0 THEN ic * 4^(-s) = oc ELSE oc * 4^s = ic}

Scale(l) == CHOOSE s \in ScaleFactors(l.ic, l.oc) : TRUE

\* size_norm, size_bias, size_local and size_conv: three doubles a weight.
Size(l, w, h) ==
  LET f == 2 * l.d + 1
  IN  CASE l.type = "norm" -> 6 * (w * h * l.oc)
        [] l.type = "bias" -> 3 * (w * h * l.oc)
        [] l.type = "loc"  -> 3 * (w * h * l.oc * (1 + l.ic * f * f))
        [] l.type = "conv" ->
             3 * (l.oc + l.ic * (IF l.dim = 1 THEN f ELSE f * f) * l.oc)
        [] OTHER -> 0

----------------------------------------------------------------------------
(* Cortex::push, on the line of a spec file.                               *)

\* The channels a layer gets when its line names none (oc <= 0).
DefaultOc(l, ic) ==
  CASE l.type = "dns" /\ l.d < 5 -> ic * 4^(l.d)
    [] l.type = "ups" /\ l.d < 5 -> ic \div 4^(l.d)
    [] l.type \in {"grnd", "lrnd", "pad1"} -> ic + 1
    [] OTHER -> ic

PushedOc(l, ic) == IF l.oc > 0 THEN l.oc ELSE DefaultOc(l, ic)

PushAccepts(l, ic) ==
  /\ ic > 0
  /\ PushedOc(l, ic) > 0
  /\ l.oc <= 0 /\ l.type = "ups" /\ l.d < 5
       => DefaultOc(l, ic) * 4^(l.d) = ic
  /\ l.type \in {"norm", "bias", "loc"} => l.ow > 0 /\ l.oh > 0
  /\ l.type = "conv" => l.dim \in {1, 2}
  /\ l.type \in Types

Pushed(l, ic) ==
  LET seg == [l EXCEPT !.ic = ic, !.oc = PushedOc(l, ic)]
  IN  [seg EXCEPT !.len = Size(seg, l.ow, l.oh)]

----------------------------------------------------------------------------
(* pipe_prep.                                                              *)

PrepShape(l, w, h) ==
  IF l.type = "padd" THEN Sized(w + 2 * l.d, h + 2 * l.d)
  ELSE IF l.type = "crop" THEN Sized(l.d, l.d)
  ELSE IF l.type = "trim" THEN Sized(w - 2 * l.d, h - 2 * l.d)
  ELSE IF l.type = "ups"
  THEN Sized(w * 2^(l.d), IF l.dim = 1 THEN h ELSE h * 2^(l.d))
  ELSE IF l.type = "dns"
  THEN Sized(w \div 2^(l.d), IF l.dim = 1 THEN h ELSE h \div 2^(l.d))
  ELSE IF l.type # "scal" THEN Sized(w, h)
  ELSE IF Scale(l) >= 0 THEN Sized(w * 2^Scale(l), h * 2^Scale(l))
  ELSE Sized(w \div 2^(-Scale(l)), h \div 2^(-Scale(l)))

\* The channels the switch asserts: ups and dns move whole squares of pixels
\* (or runs of them, when dim is 1) into channels and back.
Factor(l) == IF l.dim = 1 THEN 2^(l.d) ELSE 4^(l.d)

PrepChannels(l) ==
  /\ l.type \in {"norm", "bias", "padd", "crop", "trim"}
                 \cup Elementwise \cup Filters => l.ic = l.oc
  /\ l.type = "scal"    => ScaleFactors(l.ic, l.oc) # {}
  /\ l.type = "ups"     => l.oc * Factor(l) = l.ic
  /\ l.type = "dns"     => l.ic * Factor(l) = l.oc
  /\ l.type \in Padders => l.oc >= l.ic
  /\ l.type = "addg"    => l.oc = l.ic + 4
  /\ l.type \in Labs    => l.ic = 3 /\ l.oc = 3
  /\ l.type = "diff"    => 2 * l.oc = l.ic
  /\ l.type \in Pickers \cup Folders \cup {"loc", "conv"} => l.ic > 0 /\ l.oc > 0

PrepRoom(l, w, h) ==
  LET o == PrepShape(l, w, h)
  IN  /\ l.type = "crop" => w > l.d /\ h > l.d
      /\ l.type = "trim" => w > 2 * l.d /\ h > 2 * l.d
      /\ l.type = "scal" /\ Scale(l) < 0
           => o.w * 2^(-Scale(l)) = w /\ o.h * 2^(-Scale(l)) = h
      /\ l.type = "dns" => o.w * 2^(l.d) = w /\ (l.dim # 1 => o.h * 2^(l.d) = h)

Named(l, w, h) == (l.iw # 0 => l.iw = w) /\ (l.ih # 0 => l.ih = h)

PrepAccepts(l, ic, w, h) ==
  /\ Named(l, w, h)
  /\ l.ic = ic /\ w > 0 /\ h > 0 /\ ic > 0
  /\ l.type = "conv" => l.dim \in {1, 2}
  /\ l.type # "scal" => l.len = Size(l, w, h)
  /\ PrepChannels(l) /\ PrepRoom(l, w, h)
  /\ LET o == PrepShape(l, w, h)
     IN  /\ l.ow # 0 => l.ow = o.w
         /\ l.oh # 0 => l.oh = o.h
         /\ o.w > 0 /\ o.h > 0 /\ l.oc > 0

----------------------------------------------------------------------------
(* pipe_synth.                                                             *)

\* Mutated form of SynthShape: ups and dns of dim 1 change the height as well.
SynthShapeSquare(l, w, h) ==
  IF l.type = "ups" THEN Sized(w * 2^(l.d), h * 2^(l.d))
  ELSE IF l.type = "dns" THEN Sized(w \div 2^(l.d), h \div 2^(l.d))
  ELSE PrepShape(l, w, h)

\* A scal layer that scales down shifts left by a negative count; the shift
\* takes the count modulo 32, and pipe_prep has seen that 2^-s divides the
\* sizes, so nothing of them is left.
SynthShape(l, w, h) ==
  IF l.type = "padd" THEN Sized(w + 2 * l.d, h + 2 * l.d)
  ELSE IF l.type = "crop" THEN Sized(l.d, l.d)
  ELSE IF l.type = "trim" THEN Sized(w - 2 * l.d, h - 2 * l.d)
  ELSE IF l.type = "ups"
  THEN Sized(w * 2^(l.d), IF l.dim = 1 THEN h ELSE h * 2^(l.d))
  ELSE IF l.type = "dns"
  THEN Sized(w \div 2^(l.d), IF l.dim = 1 THEN h ELSE h \div 2^(l.d))
  ELSE IF l.type # "scal" THEN Sized(w, h)
  ELSE IF Scale(l) < 0 THEN Sized(0, 0)
  ELSE Sized(w * 2^Scale(l), h * 2^Scale(l))

\* What the synth_ function fills: synth_downscale gets the count with its
\* sign turned, and works its shape out by itself.
SynthWrites(l, w, h) ==
  IF l.type = "scal" /\ Scale(l) < 0
  THEN Sized(w \div 2^(-Scale(l)), h \div 2^(-Scale(l)))
  ELSE SynthShape(l, w, h)

\* The asserts of the switch and of the synth_ function it calls.
SynthChannels(l) ==
  /\ l.type \in {"padd", "crop", "trim"} \cup Elementwise \cup Filters => l.ic = l.oc
  /\ l.type = "scal" =>
       /\ ScaleFactors(l.ic, l.oc) # {}
       /\ Scale(l) # 0 => l.dim \in {1, 2}
       /\ Scale(l) > 0 => l.oc * (IF l.dim = 1 THEN 2^Scale(l) ELSE 4^Scale(l)) = l.ic
  /\ l.type = "ups"     => l.dim \in {1, 2} /\ l.oc * Factor(l) = l.ic
  /\ l.type = "dns"     => l.dim \in {1, 2} /\ l.ic * Factor(l) = l.oc
  /\ l.type \in Padders => l.ic <= l.oc
  /\ l.type = "addg"    => l.ic + 4 = l.oc
  /\ l.type \in Labs    => l.ic = 3 /\ l.oc = 3
  /\ l.type \in Pickers => l.ic > 0 /\ l.oc > 0
  /\ l.type \in {"mean", "smax"} => l.ic % l.oc = 0
  /\ l.type = "diff"    => 2 * l.oc = l.ic

SynthRoom(l, w, h) ==
  LET o == SynthShape(l, w, h)
  IN  /\ l.type = "crop" => l.d > 0 /\ w >= l.d /\ h >= l.d
      /\ l.type = "trim" => w - 2 * l.d > 0 /\ h - 2 * l.d > 0
      /\ l.type = "dns"  => o.w * 2^(l.d) = w /\ (l.dim # 1 => o.h * 2^(l.d) = h)

\* The last test asks for ih and compares oh.
SynthAccepts(l, w, h) ==
  /\ Named(l, w, h)
  /\ l.type \notin {"padd", "crop", "trim", "scal", "ups", "dns"}
       => l.len = Size(l, w, h)
  /\ SynthChannels(l) /\ SynthRoom(l, w, h)
  /\ LET o == SynthShape(l, w, h)
     IN  (l.ow # 0 => l.ow = o.w) /\ (l.ih # 0 => l.oh = o.h)

----------------------------------------------------------------------------
(* pipe_learn: on the way down, and on the way back (the learn_ function   *)
(* of the layer).                                                          *)

\* Mutated form of LearnShape: the same of pipe_learn.
LearnShapeSquare(l, w, h) ==
  IF l.type = "ups" THEN Sized(w * 2^(l.d), h * 2^(l.d))
  ELSE IF l.type = "dns" THEN Sized(w \div 2^(l.d), h \div 2^(l.d))
  ELSE PrepShape(l, w, h)

LearnShape(l, w, h) ==
  IF l.type = "padd" THEN Sized(w + 2 * l.d, h + 2 * l.d)
  ELSE IF l.type = "crop" THEN Sized(l.d, l.d)
  ELSE IF l.type = "trim" THEN Sized(w - 2 * l.d, h - 2 * l.d)
  ELSE IF l.type = "ups"
  THEN Sized(w * 2^(l.d), IF l.dim = 1 THEN h ELSE h * 2^(l.d))
  ELSE IF l.type = "dns"
  THEN Sized(w \div 2^(l.d), IF l.dim = 1 THEN h ELSE h \div 2^(l.d))
  ELSE IF l.type # "scal" THEN Sized(w, h)
  ELSE IF Scale(l) >= 0 THEN Sized(w * 2^Scale(l), h * 2^Scale(l))
  ELSE Sized(w \div 2^(-Scale(l)), h \div 2^(-Scale(l)))

LearnChannels(l) ==
  /\ l.type \in Elementwise \cup Filters => l.ic = l.oc
  /\ l.type = "scal"    => ScaleFactors(l.ic, l.oc) # {}
  /\ l.type \in Padders => l.ic <= l.oc
  /\ l.type = "addg"    => l.ic + 4 = l.oc
  /\ l.type \in Labs    => l.ic = 3 /\ l.oc = 3
  /\ l.type \in Pickers => l.ic > 0 /\ l.oc > 0
  /\ l.type \in Folders => l.oc > 0
  /\ l.type = "diff"    => 2 * l.oc = l.ic

\* assert(ih == (dim == 1) ? oh : (oh << s)) is read as a test of ih against
\* the truth of dim == 1, and asserts oh or oh << s.
LearnRoom(l, w, h) ==
  LET o == LearnShape(l, w, h)
  IN  /\ l.type = "scal" /\ Scale(l) < 0
           => o.w * 2^(-Scale(l)) = w /\ o.h * 2^(-Scale(l)) = h
      /\ l.type = "dns" => o.w * 2^(l.d) = w /\ o.h # 0

LearnAccepts(l, w, h) ==
  /\ Named(l, w, h)
  /\ l.type \notin {"padd", "crop", "trim", "scal", "ups", "dns"}
       => l.len = Size(l, w, h)
  /\ LearnChannels(l) /\ LearnRoom(l, w, h)
  /\ LET o == LearnShape(l, w, h)
     IN  (l.ow # 0 => l.ow = o.w) /\ (l.oh # 0 => l.oh = o.h)

\* learn_crop, learn_blur and the lab types assert(0); learn_median calls
\* syncthreads, which a CPU asserts never to do.
Unlearnable == {"crop", "blur"} \cup Labs
                 \cup (IF Device = "cpu" THEN {"medi"} ELSE {})

BackAccepts(l) ==
  /\ l.type \notin Unlearnable
  /\ l.type = "ups" \/ l.type = "dns"
       \/ (l.type = "scal" /\ l.ic # l.oc) => l.dim \in {1, 2}

----------------------------------------------------------------------------
\* The layers pipe_prep takes that pipe_synth does not: one whose dim its
\* kernels refuse, mean and smax of channels that do not divide, and one that
\* names ih without oh; and a scal that scales down and names its output, or
\* is followed by a layer that names or asserts a size.
Refused(l) ==
  \/ l.type \in {"ups", "dns", "scal"} /\ l.dim \notin {1, 2}
  \/ l.type = "scal" /\ l.dim = 1 /\ Scale(l) > 0
  \/ l.type \in {"mean", "smax"} /\ l.ic % l.oc # 0
  \/ l.ih # 0 /\ l.oh = 0

ScalesDown(l) == l.type = "scal" /\ Scale(l) < 0
=============================================================================
