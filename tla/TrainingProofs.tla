--------------------------- MODULE TrainingProofs ---------------------------
(***************************************************************************)
(* Two results on pipes, for layers of any type, size and channels.        *)
(*                                                                         *)
(* What pipe_prep lets through, pipe_synth and pipe_learn run: the three   *)
(* functions' rules agree on every layer, but for those Refused and        *)
(* ScalesDown name (LayerAgrees).                                          *)
(*                                                                         *)
(* So the learning commands, on any chain of any pipes, die of no other    *)
(* layer, and never leave the buffers (PreparedRun, RunLearn and           *)
(* BuffersAlwaysHold).  TrainingInv, the inductive invariant, says where   *)
(* in its buffer every walk is, what was laid out there by pipe_prep, and  *)
(* that the calls to come find Cortexes that are prepared and have run.    *)
(***************************************************************************)
EXTENDS Training, SequenceTheorems, FiniteSetTheorems, TLAPS

----------------------------------------------------------------------------
(* Shapes.                                                                 *)

\* The shape pipe_synth hands on is the one pipe_prep measured, unless the
\* layer scales down.
LEMMA SynthShapeAgrees ==
  ASSUME NEW l, NEW w, NEW h,
         l.type = "scal" => Scale(l) >= 0 /\ ~(Scale(l) < 0)
  PROVE  SynthShape(l, w, h) = PrepShape(l, w, h)
BY Zenon DEF SynthShape, PrepShape

\* pipe_learn works out pipe_prep's shape for every layer.
LEMMA LearnShapeAgrees ==
  ASSUME NEW l, NEW w, NEW h
  PROVE  LearnShape(l, w, h) = PrepShape(l, w, h)
BY Zenon DEF LearnShape, PrepShape

----------------------------------------------------------------------------
(* Layers.                                                                 *)

\* The scale pipe_prep has found is a number of halvings or doublings.
LEMMA ScaleIsSmall ==
  ASSUME NEW l, ScaleFactors(l.ic, l.oc) # {}
  PROVE  /\ Scale(l) \in Int
         /\ IF Scale(l) < 0 THEN l.ic * 4^(-Scale(l)) = l.oc
            ELSE l.oc * 4^Scale(l) = l.ic
<1>1. Scale(l) \in ScaleFactors(l.ic, l.oc)
  BY Zenon DEF Scale
<1>2. Scale(l) \in -8 .. 8
  BY <1>1, Zenon DEF ScaleFactors
<1>3. IF Scale(l) < 0 THEN l.ic * 4^(-Scale(l)) = l.oc ELSE l.oc * 4^Scale(l) = l.ic
  BY <1>1, Zenon DEF ScaleFactors
<1> QED BY <1>2, <1>3

\* The powers of two that layers shift by.
LEMMA PowerIs ==
  ASSUME NEW n \in 0 .. 8
  PROVE  2^n \in Nat \ {0}
<1>1. n = 0 => 2^n = 1
  <2>1. 2^0 = 1
    OBVIOUS
  <2> QED BY <2>1, Zenon
<1>2. n = 1 => 2^n = 2
  <2>1. 2^1 = 2
    OBVIOUS
  <2> QED BY <2>1, Zenon
<1>3. n = 2 => 2^n = 4
  <2>1. 2^2 = 4
    OBVIOUS
  <2> QED BY <2>1, Zenon
<1>4. n = 3 => 2^n = 8
  <2>1. 2^3 = 8
    OBVIOUS
  <2> QED BY <2>1, Zenon
<1>5. n = 4 => 2^n = 16
  <2>1. 2^4 = 16
    OBVIOUS
  <2> QED BY <2>1, Zenon
<1>6. n = 5 => 2^n = 32
  <2>1. 2^5 = 32
    OBVIOUS
  <2> QED BY <2>1, Zenon
<1>7. n = 6 => 2^n = 64
  <2>1. 2^6 = 64
    OBVIOUS
  <2> QED BY <2>1, Zenon
<1>8. n = 7 => 2^n = 128
  <2>1. 2^7 = 128
    OBVIOUS
  <2> QED BY <2>1, Zenon
<1>9. n = 8 => 2^n = 256
  <2>1. 2^8 = 256
    OBVIOUS
  <2> QED BY <2>1, Zenon
<1> QED BY <1>1, <1>2, <1>3, <1>4, <1>5, <1>6, <1>7, <1>8, <1>9

\* The scale of a scal layer lies among those _scale_factor looks at.
LEMMA ScaleIs ==
  ASSUME NEW l, ScaleFactors(l.ic, l.oc) # {}
  PROVE  /\ Scale(l) \in -8 .. 8
         /\ Scale(l) >= 0 => 2^Scale(l) \in Nat \ {0}
         /\ Scale(l) < 0 => 2^(-Scale(l)) \in Nat \ {0}
<1>1. Scale(l) \in ScaleFactors(l.ic, l.oc)
  BY Zenon DEF Scale
<1>2. Scale(l) \in -8 .. 8
  BY <1>1, Zenon DEF ScaleFactors
<1>3. PICK n \in -8 .. 8 : n = Scale(l)
  BY <1>2, Zenon
<1>4. n >= 0 => n \in 0 .. 8
  OBVIOUS
<1>5. n < 0 => -n \in 0 .. 8
  OBVIOUS
<1> QED BY <1>2, <1>3, <1>4, <1>5, PowerIs, Zenon

LEMMA Halves ==
  ASSUME NEW a \in Nat, NEW b \in Nat, a <= b, NEW f \in Nat \ {0}
  PROVE  /\ a \div f \in Nat /\ b \div f \in Nat /\ a \div f <= b \div f
         /\ a * f \in Nat /\ b * f \in Nat /\ a * f <= b * f
<1>1. PICK q \in Nat, r \in Nat : q = a \div f /\ r = a % f /\ a = f * q + r /\ r < f
  OBVIOUS
<1>2. PICK p \in Nat, t \in Nat : p = b \div f /\ t = b % f /\ b = f * p + t /\ t < f
  OBVIOUS
<1>3. q <= p
  <2> SUFFICES ASSUME q > p PROVE FALSE
    BY <1>1, <1>2
  <2>1. PICK x \in Nat : q = p + 1 + x
    <3>1. q - p - 1 \in Nat /\ q = p + 1 + (q - p - 1)
      OBVIOUS
    <3> QED BY <3>1
  <2>2. f * q = f * p + f + f * x /\ f * x \in Nat
    BY <2>1
  <2> QED BY <1>1, <1>2, <2>2
<1>4. a * f \in Nat /\ b * f \in Nat /\ a * f <= b * f
  <2>1. PICK x \in Nat : b = a + x
    <3>1. b - a \in Nat /\ b = a + (b - a)
      OBVIOUS
    <3> QED BY <3>1
  <2>2. b * f = a * f + x * f /\ x * f \in Nat /\ a * f \in Nat
    BY <2>1
  <2> QED BY <2>2
<1> QED BY <1>1, <1>2, <1>3, <1>4

\* What pipe_prep has measured of a layer it takes is a picture.
LEMMA PrepShapeIs ==
  ASSUME NEW l \in Layers, NEW ic, NEW w \in Nat, NEW h \in Nat, PrepAccepts(l, ic, w, h)
  PROVE  /\ PrepShape(l, w, h).w \in Nat \ {0}
         /\ PrepShape(l, w, h).h \in Nat \ {0}
         /\ w # 0 /\ h # 0 /\ l.ic = ic /\ l.oc # 0
<1> DEFINE o == PrepShape(l, w, h)
<1>1. o.w > 0 /\ o.h > 0 /\ w > 0 /\ h > 0 /\ l.ic = ic /\ l.oc > 0
  BY Zenon DEF PrepAccepts
<1>2. l.d \in Nat /\ l.oc \in Nat /\ (l.type \in {"ups", "dns"} => l.d \in 0 .. 8)
  BY DEF Layers
<1>3. l.type \in {"ups", "dns"} => 2^(l.d) \in Nat \ {0}
  BY <1>2, PowerIs, Zenon
<1>4. l.type = "scal" => ScaleFactors(l.ic, l.oc) # {}
  BY Zenon DEF PrepAccepts, PrepChannels
<1>5. o.w \in Int /\ o.h \in Int
  <2>1. CASE l.type \in {"padd", "crop", "trim"}
    BY <1>2, <2>1 DEF PrepShape, Sized
  <2>2. CASE l.type \in {"ups", "dns"}
    <3>1. PICK f \in Nat \ {0} : f = 2^(l.d)
      BY <1>3, <2>2
    <3>2. w * f \in Int /\ h * f \in Int /\ w \div f \in Int /\ h \div f \in Int
      OBVIOUS
    <3> QED BY <2>2, <3>1, <3>2 DEF PrepShape, Sized
  <2>3. CASE l.type = "scal" /\ Scale(l) >= 0
    <3>1. PICK f \in Nat \ {0} : f = 2^Scale(l)
      BY <1>4, <2>3, ScaleIs
    <3>2. w * f \in Int /\ h * f \in Int
      OBVIOUS
    <3> QED BY <2>3, <3>1, <3>2 DEF PrepShape, Sized
  <2>4. CASE l.type = "scal" /\ Scale(l) < 0
    <3>1. PICK f \in Nat \ {0} : f = 2^(-Scale(l))
      BY <1>4, <2>4, ScaleIs
    <3>2. w \div f \in Int /\ h \div f \in Int
      OBVIOUS
    <3>3. ~(Scale(l) >= 0)
      BY <1>4, <2>4, ScaleIs
    <3> QED BY <2>4, <3>1, <3>2, <3>3 DEF PrepShape, Sized
  <2>5. CASE l.type \notin {"padd", "crop", "trim", "ups", "dns", "scal"}
    BY <2>5 DEF PrepShape, Sized
  <2>6. l.type = "scal" => Scale(l) < 0 \/ Scale(l) >= 0
    BY <1>4, ScaleIs
  <2> QED BY <2>1, <2>2, <2>3, <2>4, <2>5, <2>6, Zenon
<1> QED BY <1>1, <1>2, <1>5

\* A layer of a smaller picture, which pipe_synth takes, hands on a smaller one.
LEMMA SynthNarrows ==
  ASSUME NEW l \in Layers, NEW ic, NEW w \in Nat, NEW h \in Nat, PrepAccepts(l, ic, w, h),
         NEW x \in 0 .. w, NEW y \in 0 .. h, SynthAccepts(l, x, y)
  PROVE  /\ SynthShape(l, x, y).w \in 0 .. PrepShape(l, w, h).w
         /\ SynthShape(l, x, y).h \in 0 .. PrepShape(l, w, h).h
<1>1. l.d \in Nat /\ (l.type \in {"ups", "dns"} => l.d \in 0 .. 8)
  BY DEF Layers
<1>2. l.type = "scal" => ScaleFactors(l.ic, l.oc) # {}
  BY Zenon DEF PrepAccepts, PrepChannels
<1>3. x \in Nat /\ y \in Nat /\ x <= w /\ y <= h
  OBVIOUS
<1>4. PrepShape(l, w, h).w \in Nat /\ PrepShape(l, w, h).h \in Nat
  BY PrepShapeIs
<1>5. CASE l.type \in {"padd", "crop"}
  <2>1. CASE l.type = "padd"
    <3>1. /\ SynthShape(l, x, y).w = x + 2 * l.d /\ SynthShape(l, x, y).h = y + 2 * l.d
          /\ PrepShape(l, w, h).w = w + 2 * l.d /\ PrepShape(l, w, h).h = h + 2 * l.d
      BY <2>1 DEF PrepShape, SynthShape, Sized
    <3> QED BY <1>1, <1>3, <3>1
  <2>2. CASE l.type = "crop"
    <3>1. /\ SynthShape(l, x, y).w = l.d /\ SynthShape(l, x, y).h = l.d
          /\ PrepShape(l, w, h).w = l.d /\ PrepShape(l, w, h).h = l.d
      BY <2>2 DEF PrepShape, SynthShape, Sized
    <3> QED BY <1>1, <3>1
  <2> QED BY <1>5, <2>1, <2>2
<1>6. CASE l.type = "trim"
  <2>1. x - 2 * l.d > 0 /\ y - 2 * l.d > 0
    BY <1>6 DEF SynthAccepts, SynthRoom
  <2> QED BY <1>1, <1>3, <1>6, <2>1 DEF PrepShape, SynthShape, Sized
<1>7. CASE l.type \in {"ups", "dns"}
  <2>1. PICK f \in Nat \ {0} : f = 2^(l.d)
    BY <1>1, <1>7, PowerIs
  <2>2. /\ x \div f \in Nat /\ w \div f \in Nat /\ x \div f <= w \div f
        /\ x * f \in Nat /\ w * f \in Nat /\ x * f <= w * f
    BY <1>3, Halves
  <2>3. /\ y \div f \in Nat /\ h \div f \in Nat /\ y \div f <= h \div f
        /\ y * f \in Nat /\ h * f \in Nat /\ y * f <= h * f
    BY <1>3, Halves
  <2>4. CASE l.type = "ups"
    <3>1. /\ SynthShape(l, x, y) = Sized(x * f, IF l.dim = 1 THEN y ELSE y * f)
          /\ PrepShape(l, w, h) = Sized(w * f, IF l.dim = 1 THEN h ELSE h * f)
      BY <2>1, <2>4 DEF PrepShape, SynthShape
    <3> QED BY <1>3, <2>2, <2>3, <3>1 DEF Sized
  <2>5. CASE l.type = "dns"
    <3>1. /\ SynthShape(l, x, y) = Sized(x \div f, IF l.dim = 1 THEN y ELSE y \div f)
          /\ PrepShape(l, w, h) = Sized(w \div f, IF l.dim = 1 THEN h ELSE h \div f)
      BY <2>1, <2>5 DEF PrepShape, SynthShape
    <3> QED BY <1>3, <2>2, <2>3, <3>1 DEF Sized
  <2> QED BY <1>7, <2>4, <2>5
<1>8. CASE l.type = "scal" /\ Scale(l) >= 0
  <2>1. PICK f \in Nat \ {0} : f = 2^Scale(l)
    BY <1>2, <1>8, ScaleIs
  <2>2. x * f \in Nat /\ w * f \in Nat /\ x * f <= w * f
    BY <1>3, Halves
  <2>3. y * f \in Nat /\ h * f \in Nat /\ y * f <= h * f
    BY <1>3, Halves
  <2>4. ~(Scale(l) < 0)
    BY <1>2, <1>8, ScaleIs
  <2> QED BY <1>8, <2>1, <2>2, <2>3, <2>4 DEF PrepShape, SynthShape, Sized
<1>9. CASE l.type = "scal" /\ Scale(l) < 0
  BY <1>4, <1>9 DEF SynthShape, Sized
<1>10. CASE l.type \notin {"padd", "crop", "trim", "ups", "dns", "scal"}
  BY <1>3, <1>10 DEF PrepShape, SynthShape, Sized
<1>11. l.type = "scal" => Scale(l) < 0 \/ Scale(l) >= 0
  BY <1>2, ScaleIs
<1> QED BY <1>5, <1>6, <1>7, <1>8, <1>9, <1>10, <1>11, Zenon

LEMMA AreaGrows ==
  ASSUME NEW a \in Nat, NEW b \in Nat, NEW c \in Nat, NEW d \in Nat, NEW z \in Nat,
         a <= b, c <= d
  PROVE  a * c * z \in Nat /\ b * d * z \in Nat /\ a * c * z <= b * d * z
<1>1. PICK m \in Nat : b = a + m
  <2>1. b - a \in Nat /\ b = a + (b - a)
    OBVIOUS
  <2> QED BY <2>1
<1>2. PICK n \in Nat : d = c + n
  <2>1. d - c \in Nat /\ d = c + (d - c)
    OBVIOUS
  <2> QED BY <2>1
<1>3. PICK p \in Nat, q \in Nat : p = a * c /\ q = b * d /\ p <= q
  <2>1. a * n \in Nat /\ m * c \in Nat /\ m * n \in Nat /\ a * c \in Nat /\ b * d \in Nat
    OBVIOUS
  <2>2. b * d = a * c + a * n + m * c + m * n
    BY <1>1, <1>2
  <2> QED BY <2>1, <2>2
<1>4. PICK k \in Nat : q = p + k
  <2>1. q - p \in Nat /\ q = p + (q - p)
    BY <1>3
  <2> QED BY <2>1
<1>5. p * z \in Nat /\ k * z \in Nat /\ q * z = p * z + k * z
  BY <1>4
<1> QED BY <1>3, <1>5

\* The trims of a picture and of a smaller one, which may be too small.
LEMMA TrimFits ==
  ASSUME NEW w \in Nat, NEW h \in Nat, NEW x \in Nat, NEW y \in Nat, NEW e \in Nat,
         x <= w, y <= h, e < w, e < h
  PROVE  x * y + (x - e) * (y - e) <= w * h + (w - e) * (h - e)
<1>1. CASE x >= e /\ y >= e
  <2>1. PICK a \in Nat, b \in Nat, c \in Nat, d \in Nat :
          a = x - e /\ b = w - e /\ c = y - e /\ d = h - e
    BY <1>1
  <2>2. a * c * 1 <= b * d * 1 /\ x * y * 1 <= w * h * 1
    BY <2>1, AreaGrows
  <2>3. a * c \in Nat /\ b * d \in Nat /\ x * y \in Nat /\ w * h \in Nat
    OBVIOUS
  <2>4. a * c <= b * d /\ x * y <= w * h
    BY <2>2, <2>3
  <2> QED BY <2>1, <2>3, <2>4
<1>2. CASE x < e /\ y < e
  <2>1. PICK a \in Nat, b \in Nat : a = e - x /\ b = e - y
    BY <1>2
  <2>2. (x - e) * (y - e) = a * b
    BY <2>1
  <2>3. x * y \in Nat /\ x * b \in Nat /\ a * y \in Nat /\ a * b \in Nat
    OBVIOUS
  <2>4. e * e = x * y + x * b + a * y + a * b
    BY <2>1
  <2>5. PICK m \in Nat, n \in Nat : w = e + m /\ h = e + n
    <3>1. w - e \in Nat /\ h - e \in Nat /\ w = e + (w - e) /\ h = e + (h - e)
      OBVIOUS
    <3> QED BY <3>1
  <2>6. w * h = e * e + e * n + m * e + m * n /\ e * n \in Nat /\ m * e \in Nat /\ m * n \in Nat
    BY <2>5
  <2>7. (w - e) * (h - e) = m * n
    BY <2>5
  <2> QED BY <2>2, <2>3, <2>4, <2>6, <2>7
<1>3. CASE (x < e /\ y >= e) \/ (x >= e /\ y < e)
  <2>1. (x - e) * (y - e) <= 0
    <3>1. CASE x < e /\ y >= e
      <4>1. PICK a \in Nat, b \in Nat : a = e - x /\ b = y - e
        BY <3>1
      <4>2. a * b \in Nat /\ (x - e) * (y - e) = -(a * b)
        BY <4>1
      <4> QED BY <4>2
    <3>2. CASE x >= e /\ y < e
      <4>1. PICK a \in Nat, b \in Nat : a = x - e /\ b = e - y
        BY <3>2
      <4>2. a * b \in Nat /\ (x - e) * (y - e) = -(a * b)
        BY <4>1
      <4> QED BY <4>2
    <3> QED BY <1>3, <3>1, <3>2
  <2>2. (w - e) * (h - e) >= 0
    <3>1. PICK m \in Nat, n \in Nat : m = w - e /\ n = h - e
      OBVIOUS
    <3>2. m * n \in Nat
      OBVIOUS
    <3> QED BY <3>1, <3>2
  <2>3. x * y <= w * h /\ x * y \in Nat /\ w * h \in Nat
    <3>1. x * y * 1 <= w * h * 1
      BY AreaGrows
    <3>2. x * y \in Nat /\ w * h \in Nat
      OBVIOUS
    <3> QED BY <3>1, <3>2
  <2>4. (x - e) * (y - e) \in Int /\ (w - e) * (h - e) \in Int
    OBVIOUS
  <2> QED BY <2>1, <2>2, <2>3, <2>4
<1> QED BY <1>1, <1>2, <1>3

\* What pipe_synth puts behind a layer's input ends where pipe_prep has left
\* room for it, of the measured picture or of a smaller one.
LEMMA WritesFit ==
  ASSUME NEW l \in Layers, NEW ic, NEW w \in Nat, NEW h \in Nat, PrepAccepts(l, ic, w, h),
         NEW x \in 0 .. w, NEW y \in 0 .. h
  PROVE  LET put == SynthWrites(l, x, y)
             o   == PrepShape(l, w, h)
         IN  x * y * l.ic + put.w * put.h * l.oc <= w * h * l.ic + o.w * o.h * l.oc
<1> DEFINE put == SynthWrites(l, x, y)
           o   == PrepShape(l, w, h)
<1>1. /\ l.d \in Nat /\ l.ic \in Nat /\ l.oc \in Nat
      /\ l.type \in {"ups", "dns"} => l.d \in 0 .. 8
  BY DEF Layers
<1>2. l.type = "scal" => ScaleFactors(l.ic, l.oc) # {}
  BY Zenon DEF PrepAccepts, PrepChannels
<1>3. x \in Nat /\ y \in Nat /\ x <= w /\ y <= h
  OBVIOUS
<1>4. o.w \in Nat /\ o.h \in Nat
  BY PrepShapeIs
<1>5. ASSUME put.w \in 0 .. o.w, put.h \in 0 .. o.h
      PROVE  x * y * l.ic + put.w * put.h * l.oc <= w * h * l.ic + o.w * o.h * l.oc
  <2>1. PICK a \in Nat, b \in Nat, c \in Nat, d \in Nat :
          a = put.w /\ b = o.w /\ c = put.h /\ d = o.h /\ a <= b /\ c <= d
    BY <1>4, <1>5
  <2>2. a * c * l.oc \in Nat /\ b * d * l.oc \in Nat /\ a * c * l.oc <= b * d * l.oc
    BY <1>1, <2>1, AreaGrows
  <2>3. x * y * l.ic \in Nat /\ w * h * l.ic \in Nat /\ x * y * l.ic <= w * h * l.ic
    BY <1>1, <1>3, AreaGrows
  <2>4. PICK m \in Nat, n \in Nat, p \in Nat, q \in Nat :
          /\ m = a * c * l.oc /\ n = b * d * l.oc /\ p = x * y * l.ic /\ q = w * h * l.ic
          /\ m <= n /\ p <= q
    BY <2>2, <2>3
  <2>5. p + m <= q + n
    BY <2>4
  <2> QED BY <2>1, <2>4, <2>5
<1>6. CASE l.type \in {"padd", "crop"}
  <2>1. CASE l.type = "padd"
    <3>1. put.w = x + 2 * l.d /\ put.h = y + 2 * l.d /\ o.w = w + 2 * l.d /\ o.h = h + 2 * l.d
      BY <2>1 DEF PrepShape, SynthShape, SynthWrites, Sized
    <3>2. put.w \in 0 .. o.w /\ put.h \in 0 .. o.h
      BY <1>1, <1>3, <3>1
    <3> QED BY <1>5, <3>2
  <2>2. CASE l.type = "crop"
    <3>1. put.w = l.d /\ put.h = l.d /\ o.w = l.d /\ o.h = l.d
      BY <2>2 DEF PrepShape, SynthShape, SynthWrites, Sized
    <3>2. put.w \in 0 .. o.w /\ put.h \in 0 .. o.h
      BY <1>1, <3>1
    <3> QED BY <1>5, <3>2
  <2> QED BY <1>6, <2>1, <2>2
<1>7. CASE l.type = "trim"
  <2>1. put.w = x - 2 * l.d /\ put.h = y - 2 * l.d /\ o.w = w - 2 * l.d /\ o.h = h - 2 * l.d
    BY <1>7 DEF PrepShape, SynthShape, SynthWrites, Sized
  <2>2. w > 2 * l.d /\ h > 2 * l.d /\ l.ic = l.oc
    BY <1>7 DEF PrepAccepts, PrepRoom, PrepChannels
  <2>3. PICK e \in Nat : e = 2 * l.d
    BY <1>1
  <2>4. x * y + (x - e) * (y - e) <= w * h + (w - e) * (h - e)
    BY <1>3, <2>2, <2>3, TrimFits
  <2>5. PICK a \in Int, b \in Int, c \in Int, d \in Int :
          /\ a = x * y /\ b = (x - e) * (y - e) /\ c = w * h /\ d = (w - e) * (h - e)
          /\ a + b <= c + d
    <3>1. /\ x * y \in Int /\ (x - e) * (y - e) \in Int /\ w * h \in Int
          /\ (w - e) * (h - e) \in Int
      OBVIOUS
    <3> QED BY <2>4, <3>1
  <2>6. PICK n \in Nat : c + d = a + b + n
    <3>1. c + d - (a + b) \in Nat /\ c + d = a + b + (c + d - (a + b))
      BY <2>5
    <3> QED BY <3>1
  <2>7. ASSUME NEW z \in Nat PROVE a * z + b * z <= c * z + d * z
    <3>1. (c + d) * z = (a + b) * z + n * z /\ n * z \in Nat
      BY <2>6
    <3>2. (c + d) * z = c * z + d * z /\ (a + b) * z = a * z + b * z
      OBVIOUS
    <3>3. a * z \in Int /\ b * z \in Int /\ c * z \in Int /\ d * z \in Int
      OBVIOUS
    <3> QED BY <3>1, <3>2, <3>3
  <2>8. a * l.ic + b * l.ic <= c * l.ic + d * l.ic
    BY <1>1, <2>7
  <2>9. put.w * put.h * l.oc = b * l.ic /\ o.w * o.h * l.oc = d * l.ic
    BY <2>1, <2>2, <2>3, <2>5
  <2>10. x * y * l.ic = a * l.ic /\ w * h * l.ic = c * l.ic
    BY <2>5
  <2> QED BY <2>8, <2>9, <2>10
<1>8. CASE l.type \in {"ups", "dns"}
  <2>1. PICK f \in Nat \ {0} : f = 2^(l.d)
    BY <1>1, <1>8, PowerIs
  <2>2. /\ x \div f \in Nat /\ w \div f \in Nat /\ x \div f <= w \div f
        /\ x * f \in Nat /\ w * f \in Nat /\ x * f <= w * f
    BY <1>3, Halves
  <2>3. /\ y \div f \in Nat /\ h \div f \in Nat /\ y \div f <= h \div f
        /\ y * f \in Nat /\ h * f \in Nat /\ y * f <= h * f
    BY <1>3, Halves
  <2>4. CASE l.type = "ups"
    <3>1. /\ put = Sized(x * f, IF l.dim = 1 THEN y ELSE y * f)
          /\ o = Sized(w * f, IF l.dim = 1 THEN h ELSE h * f)
      BY <2>1, <2>4 DEF PrepShape, SynthShape, SynthWrites
    <3>2. put.w \in 0 .. o.w /\ put.h \in 0 .. o.h
      BY <1>3, <2>2, <2>3, <3>1 DEF Sized
    <3> QED BY <1>5, <3>2
  <2>5. CASE l.type = "dns"
    <3>1. /\ put = Sized(x \div f, IF l.dim = 1 THEN y ELSE y \div f)
          /\ o = Sized(w \div f, IF l.dim = 1 THEN h ELSE h \div f)
      BY <2>1, <2>5 DEF PrepShape, SynthShape, SynthWrites
    <3>2. put.w \in 0 .. o.w /\ put.h \in 0 .. o.h
      BY <1>3, <2>2, <2>3, <3>1 DEF Sized
    <3> QED BY <1>5, <3>2
  <2> QED BY <1>8, <2>4, <2>5
<1>9. CASE l.type = "scal" /\ Scale(l) >= 0
  <2>1. PICK f \in Nat \ {0} : f = 2^Scale(l)
    BY <1>2, <1>9, ScaleIs
  <2>2. x * f \in Nat /\ w * f \in Nat /\ x * f <= w * f
    BY <1>3, Halves
  <2>3. y * f \in Nat /\ h * f \in Nat /\ y * f <= h * f
    BY <1>3, Halves
  <2>4. ~(Scale(l) < 0)
    BY <1>2, <1>9, ScaleIs
  <2>5. put = Sized(x * f, y * f) /\ o = Sized(w * f, h * f)
    BY <1>9, <2>1, <2>4 DEF PrepShape, SynthShape, SynthWrites
  <2>6. put.w \in 0 .. o.w /\ put.h \in 0 .. o.h
    BY <2>2, <2>3, <2>5 DEF Sized
  <2> QED BY <1>5, <2>6
<1>10. CASE l.type = "scal" /\ Scale(l) < 0
  <2>1. PICK f \in Nat \ {0} : f = 2^(-Scale(l))
    BY <1>2, <1>10, ScaleIs
  <2>2. x \div f \in Nat /\ w \div f \in Nat /\ x \div f <= w \div f
    BY <1>3, Halves
  <2>3. y \div f \in Nat /\ h \div f \in Nat /\ y \div f <= h \div f
    BY <1>3, Halves
  <2>4. ~(Scale(l) >= 0)
    BY <1>2, <1>10, ScaleIs
  <2>5. put = Sized(x \div f, y \div f) /\ o = Sized(w \div f, h \div f)
    BY <1>10, <2>1, <2>4 DEF PrepShape, SynthWrites
  <2>6. put.w \in 0 .. o.w /\ put.h \in 0 .. o.h
    BY <2>2, <2>3, <2>5 DEF Sized
  <2> QED BY <1>5, <2>6
<1>11. CASE l.type \notin {"padd", "crop", "trim", "ups", "dns", "scal"}
  <2>1. put = Sized(x, y) /\ o = Sized(w, h)
    BY <1>11 DEF PrepShape, SynthShape, SynthWrites
  <2>2. put.w \in 0 .. o.w /\ put.h \in 0 .. o.h
    BY <1>3, <2>1 DEF Sized
  <2> QED BY <1>5, <2>2
<1>12. l.type = "scal" => Scale(l) < 0 \/ Scale(l) >= 0
  BY <1>2, ScaleIs
<1> QED BY <1>6, <1>7, <1>8, <1>9, <1>10, <1>11, <1>12, Zenon

\* What pipe_prep takes, pipe_learn takes on its way down.
LEMMA PrepLearns ==
  ASSUME NEW l \in Layers, NEW ic, NEW w \in Nat, NEW h \in Nat, PrepAccepts(l, ic, w, h)
  PROVE  LearnAccepts(l, w, h) /\ LearnShape(l, w, h) = PrepShape(l, w, h)
<1> DEFINE o == PrepShape(l, w, h)
<1>1. LearnShape(l, w, h) = o
  BY LearnShapeAgrees, Zenon
<1>2. LearnChannels(l)
  <2>1. PrepChannels(l) /\ l.ic \in Int /\ l.oc \in Int
    BY DEF PrepAccepts, Layers
  <2> QED BY <2>1
       DEF LearnChannels, PrepChannels, Elementwise, Filters, Padders, Labs, Pickers, Folders
<1>3. LearnRoom(l, w, h)
  <2>1. PrepRoom(l, w, h)
    BY Zenon DEF PrepAccepts
  <2>2. l.type = "dns" => o.w * 2^(l.d) = w
    BY <2>1, Zenon DEF PrepRoom
  <2>3. o.h # 0
    BY DEF PrepAccepts
  <2>4. l.type = "scal" /\ Scale(l) < 0 => o.w * 2^(-Scale(l)) = w /\ o.h * 2^(-Scale(l)) = h
    BY <2>1, Zenon DEF PrepRoom
  <2> QED BY <1>1, <2>2, <2>3, <2>4, Zenon DEF LearnRoom
<1>4. /\ Named(l, w, h)
      /\ l.type # "scal" => l.len = Size(l, w, h)
      /\ (l.ow # 0 => l.ow = o.w) /\ (l.oh # 0 => l.oh = o.h)
  BY Zenon DEF PrepAccepts
<1>5. /\ l.ow # 0 => l.ow = LearnShape(l, w, h).w
      /\ l.oh # 0 => l.oh = LearnShape(l, w, h).h
  BY <1>1, <1>4, Zenon
<1> QED BY <1>1, <1>2, <1>3, <1>4, <1>5, Zenon DEF LearnAccepts

\* A layer that has run forward comes back, if it can be learned at all.
LEMMA SynthReturns ==
  ASSUME NEW l \in Layers, NEW w, NEW h, SynthAccepts(l, w, h)
  PROVE  BackAccepts(l) \/ l.type \in Unlearnable
<1>1. SynthChannels(l)
  BY Zenon DEF SynthAccepts
<1>2. l.type = "ups" \/ l.type = "dns" => l.dim \in {1, 2}
  BY <1>1, Zenon DEF SynthChannels
<1>3. ASSUME l.type = "scal", l.ic # l.oc PROVE l.dim \in {1, 2}
  <2>1. ScaleFactors(l.ic, l.oc) # {} /\ (Scale(l) # 0 => l.dim \in {1, 2})
    BY <1>1, <1>3, Zenon DEF SynthChannels
  <2>2. Scale(l) # 0
    <3> SUFFICES ASSUME Scale(l) = 0 PROVE FALSE
      OBVIOUS
    <3>1. l.oc * 4^0 = l.ic
      <4>1. IF Scale(l) < 0 THEN l.ic * 4^(-Scale(l)) = l.oc ELSE l.oc * 4^Scale(l) = l.ic
        BY <2>1, ScaleIsSmall
      <4>2. ~(0 < 0)
        OBVIOUS
      <4> QED BY <4>1, <4>2, Zenon
    <3>2. 4^0 = 1 /\ l.oc \in Nat
      BY DEF Layers
    <3>3. l.oc * 1 = l.oc
      BY <3>2
    <3> QED BY <1>3, <3>1, <3>2, <3>3
  <2> QED BY <2>1, <2>2
<1> QED BY <1>2, <1>3, Zenon DEF BackAccepts

\* Every layer pipe_prep takes, pipe_synth and pipe_learn take as well, at
\* the same size, and they hand on the shape it has measured; so what the
\* three functions lay out, run and learn is one pipe, but for a Refused
\* layer and one that scales down.
THEOREM LayerAgrees ==
  ASSUME NEW l \in Layers, NEW ic, NEW w \in Nat, NEW h \in Nat,
         PrepAccepts(l, ic, w, h), ~Refused(l), ~ScalesDown(l)
  PROVE  /\ SynthAccepts(l, w, h) /\ SynthShape(l, w, h) = PrepShape(l, w, h)
         /\ LearnAccepts(l, w, h) /\ LearnShape(l, w, h) = PrepShape(l, w, h)
         /\ BackAccepts(l) \/ l.type \in Unlearnable
<1> DEFINE o == PrepShape(l, w, h)
<1>1. l.type = "scal" =>
        /\ ScaleFactors(l.ic, l.oc) # {}
        /\ Scale(l) \in Int /\ Scale(l) >= 0 /\ ~(Scale(l) < 0)
        /\ l.oc * 4^Scale(l) = l.ic
  <2>1. l.type = "scal" => ScaleFactors(l.ic, l.oc) # {}
    BY Zenon DEF PrepAccepts, PrepChannels
  <2>2. l.type = "scal" => ~(Scale(l) < 0)
    BY Zenon DEF ScalesDown
  <2> QED BY <2>1, <2>2, ScaleIsSmall
<1>2. SynthShape(l, w, h) = o /\ LearnShape(l, w, h) = o
  BY <1>1, SynthShapeAgrees, LearnShapeAgrees, Zenon
<1>3. /\ Named(l, w, h)
      /\ l.type \notin {"padd", "crop", "trim", "scal", "ups", "dns"}
           => l.len = Size(l, w, h)
      /\ l.ow # 0 => l.ow = o.w
      /\ l.oh # 0 => l.oh = o.h
      /\ l.ih # 0 => l.oh = o.h
  BY Zenon DEF PrepAccepts, Refused
<1>4. SynthChannels(l)
  <2>1. l.type = "scal" =>
          /\ Scale(l) # 0 => l.dim \in {1, 2}
          /\ Scale(l) > 0 => l.dim # 1
    BY Zenon DEF Refused
  <2>2. l.type \in {"ups", "dns"} => l.dim \in {1, 2}
    BY Zenon DEF Refused
  <2>3. l.type \in {"mean", "smax"} => l.ic % l.oc = 0
    BY Zenon DEF Refused
  <2>4. PrepChannels(l) /\ l.ic \in Int /\ l.oc \in Int
    BY DEF PrepAccepts, Layers
  <2>5. l.type = "scal" /\ Scale(l) > 0
          => l.oc * (IF l.dim = 1 THEN 2^Scale(l) ELSE 4^Scale(l)) = l.ic
    BY <1>1, <2>1, Zenon
  <2>6. /\ l.type \in {"padd", "crop", "trim"} \cup Elementwise \cup Filters => l.ic = l.oc
        /\ l.type \in Padders => l.ic <= l.oc
        /\ l.type = "addg"    => l.ic + 4 = l.oc
        /\ l.type \in Labs    => l.ic = 3 /\ l.oc = 3
        /\ l.type \in Pickers => l.ic > 0 /\ l.oc > 0
        /\ l.type = "diff"    => 2 * l.oc = l.ic
    BY <2>4 DEF PrepChannels, Elementwise, Filters, Padders, Labs, Pickers, Folders
  <2>7. /\ l.type = "ups" => l.oc * Factor(l) = l.ic
        /\ l.type = "dns" => l.ic * Factor(l) = l.oc
    BY <2>4, Zenon DEF PrepChannels
  <2>8. l.type = "ups" => l.dim \in {1, 2} /\ l.oc * Factor(l) = l.ic
    BY <2>2, <2>7, Zenon
  <2>9. l.type = "dns" => l.dim \in {1, 2} /\ l.ic * Factor(l) = l.oc
    BY <2>2, <2>7, Zenon
  <2>10. l.type = "scal" =>
           /\ ScaleFactors(l.ic, l.oc) # {}
           /\ Scale(l) # 0 => l.dim \in {1, 2}
           /\ Scale(l) > 0
                => l.oc * (IF l.dim = 1 THEN 2^Scale(l) ELSE 4^Scale(l)) = l.ic
    BY <1>1, <2>1, <2>5, Zenon
  <2> QED BY <2>3, <2>6, <2>8, <2>9, <2>10, Zenon DEF SynthChannels
<1>5. SynthRoom(l, w, h)
  <2>1. PrepRoom(l, w, h) /\ o.w > 0 /\ l.d \in Nat
    BY Zenon DEF PrepAccepts, Layers
  <2>2. l.type = "crop" => o.w = l.d
    BY Zenon DEF PrepShape, Sized
  <2>3. l.type = "crop" => l.d > 0 /\ w >= l.d /\ h >= l.d
    BY <2>1, <2>2 DEF PrepRoom
  <2>4. l.type = "trim" => w - 2 * l.d > 0 /\ h - 2 * l.d > 0
    BY <2>1 DEF PrepRoom
  <2>5. l.type = "dns" => o.w * 2^(l.d) = w /\ (l.dim # 1 => o.h * 2^(l.d) = h)
    BY <2>1, Zenon DEF PrepRoom
  <2> QED BY <1>2, <2>3, <2>4, <2>5, Zenon DEF SynthRoom
<1>6. SynthAccepts(l, w, h)
  BY <1>2, <1>3, <1>4, <1>5, Zenon DEF SynthAccepts
<1>7. LearnAccepts(l, w, h)
  BY PrepLearns
<1>8. BackAccepts(l) \/ l.type \in Unlearnable
  BY <1>6, SynthReturns
<1> QED BY <1>2, <1>6, <1>7, <1>8, Zenon

-----------------------------------------------------------------------------
(***************************************************************************)
(* Where pipe_prep has laid out a pipe.  A place is what lies in front of  *)
(* a layer: the size and the channels of its input, where in kbuf it is,   *)
(* and where in dw the layer's gradients are.                              *)
(***************************************************************************)
Places == [w : Nat, h : Nat, ic : Nat, at : Nat, doff : Nat]

Room(q) == q.w * q.h * q.ic

\* The end of a place, where the next one is.
End(q) == q.at + Room(q)

NextPlace(l, q) ==
  LET o == PrepShape(l, q.w, q.h)
  IN  [w |-> o.w, h |-> o.h, ic |-> l.oc, at |-> End(q), doff |-> q.doff + l.len \div 3]

\* s has the first k places of the pipe p.
Laid(p, s, k) ==
  /\ s \in [1 .. k -> Places]
  /\ s[1].at = 0 /\ s[1].doff = 0 /\ s[1].ic = p[1].ic
  /\ \A j \in 1 .. k - 1 :
       PrepAccepts(p[j], s[j].ic, s[j].w, s[j].h) /\ s[j + 1] = NextPlace(p[j], s[j])
  /\ \A j \in 1 .. k : End(s[j]) <= End(s[k]) /\ s[j].doff <= s[k].doff

Depth(c) == Len(setup.pipe[c])

\* pipe_prep has been through the pipe of c, and s is what it found.
PreparedAs(c, s) ==
  LET n == Depth(c)
  IN  /\ Laid(setup.pipe[c], s, n + 1)
      /\ ctx[c].iw = s[1].w /\ ctx[c].ih = s[1].h
      /\ ctx[c].ow = s[n + 1].w /\ ctx[c].oh = s[n + 1].h
      /\ ctx[c].kbufn = End(s[n + 1]) /\ ctx[c].dwn = s[n + 1].doff

Prepared(c) == \E s : PreparedAs(c, s)

\* pipe_synth has been past this layer.
Ran(l) == \E x \in Nat, y \in Nat : SynthAccepts(l, x, y)

StraightTo(c, k) == \A j \in 1 .. k : ~ScalesDown(setup.pipe[c][j])

----------------------------------------------------------------------------
(***************************************************************************)
(* What a sequence of calls needs and gives.  A prepare gives its Cortex   *)
(* prepared, at the size of the input or of another Cortex; a synth needs  *)
(* that and gives it synthesised; a learn needs both.                      *)
(***************************************************************************)
KnownOf(c) == <<"known", c>>
SourceOf(c) == <<"source", c>>
PreparedOf(c) == <<"prepared", c>>
RunOf(c) == <<"run", c>>

Takes(a) ==
  CASE a.op = "prepare" -> {KnownOf(a.c), SourceOf(a.from)}
    [] a.op = "synth" -> {PreparedOf(a.c)}
    [] a.op = "learn" -> {PreparedOf(a.c), RunOf(a.c)}
    [] OTHER -> {}

Gives(a) ==
  CASE a.op = "prepare" -> {PreparedOf(a.c)}
    [] a.op = "synth" -> {RunOf(a.c)}
    [] OTHER -> {}

Given(t, n) == UNION {Gives(t[j]) : j \in 1 .. n}

PrologueOps == {"prepare", "fit"}
RoundOps == {"pick", "copy", "copynull", "splice", "target", "pushbuf", "popbuf",
             "synth", "learn"}

\* t consists of calls of the kinds ops; where A is given it can be made, and
\* has B given.
Serves(t, ops, A, B) ==
  /\ t \in Seq(ToSet(t))
  /\ \A i \in 1 .. Len(t) :
       /\ t[i].op \in ops
       /\ Takes(t[i]) \subseteq A \cup Given(t, i - 1)
  /\ B \subseteq A \cup Given(t, Len(t))

Cortexes == DOMAIN setup.pipe

ChainMembers == UNION {ToSet(setup.chain[i].members) : i \in DOMAIN setup.chain}

\* The Cortexes the prologue prepares.
Used ==
  ChainMembers \cup (CASE setup.mode = "learnfunc" -> {}
                  [] setup.mode = "learnhans" -> {"dis"} \cup (IF HasCnd THEN {"cnd"} ELSE {})
                  [] setup.mode = "learn"     -> {"dis", "cnd", "enc", "inf"})

Needed == {PreparedOf(c) : c \in Used}

AtHand == {KnownOf(c) : c \in Cortexes} \cup {SourceOf(c) : c \in Cortexes \cup {"input"}}

Have == AtHand \cup {PreparedOf(c) : c \in {d \in Cortexes : Prepared(d)}}
          \cup {RunOf(c) : c \in {d \in Cortexes : ctx[d].kout >= 0}}

----------------------------------------------------------------------------
(***************************************************************************)
(* The inductive invariant.                                                *)
(***************************************************************************)
CortexFields == {"iw", "ih", "ic", "ow", "oh", "oc", "kbufn", "dwn", "kbuf", "kout",
                 "stack", "dw", "rounds"}

CortexesOK ==
  /\ setup \in Setups
  /\ DOMAIN ctx = Cortexes
  /\ \A c \in Cortexes :
       /\ DOMAIN ctx[c] = CortexFields
       /\ ctx[c].iw \in Nat /\ ctx[c].ih \in Nat /\ ctx[c].ow \in Nat /\ ctx[c].oh \in Nat
       /\ ctx[c].ic = PipeIc(c) /\ ctx[c].oc = PipeOc(c)
       /\ ctx[c].kout \in Int

\* The calls to come find what they need, and at their end there is what the
\* next round needs.
CallsOK ==
  \/ Serves(todo, PrologueOps, Have, Needed) /\ \A c \in Cortexes : ctx[c].kout < 0
  \/ Serves(todo, RoundOps, Have, Needed)

\* What pipe_synth has been through it has accepted, and its kout is the end
\* of the buffer.
RunsOK ==
  \A c \in Cortexes : ctx[c].kout >= 0 =>
    /\ \A k \in 1 .. Depth(c) : Ran(setup.pipe[c][k])
    /\ Straight(c) => ctx[c].kout + OutSize(c) = ctx[c].kbufn

\* The call a walk belongs to is still the first of todo.
Under(op, c) == todo # <<>> /\ Head(todo).op = op /\ Head(todo).c = c /\ c \in Cortexes

PrepWalk(c, k, s) ==
  /\ Under("prepare", c) /\ k \in 1 .. Depth(c) + 1 /\ Laid(setup.pipe[c], s, k)
  /\ ctx[c].iw = s[1].w /\ ctx[c].ih = s[1].h
  /\ walk = [op |-> "prep", c |-> c, k |-> k, w |-> s[k].w, h |-> s[k].h, ic |-> s[k].ic,
             off |-> End(s[k]), doff |-> s[k].doff]

\* A walk forward is where pipe_prep has been until a layer scales down; from
\* there on it is nearer to the front of the buffer, on smaller pictures.
SynthWalk(c, k, s, x, y, at) ==
  /\ Under("synth", c) /\ k \in 1 .. Depth(c) + 1 /\ PreparedAs(c, s)
  /\ x \in 0 .. s[k].w /\ y \in 0 .. s[k].h /\ at \in 0 .. s[k].at
  /\ StraightTo(c, k - 1) => x = s[k].w /\ y = s[k].h
  /\ StraightTo(c, k - 2) => at = s[k].at
  /\ \A j \in 1 .. k - 1 : Ran(setup.pipe[c][j])
  /\ walk = [op |-> "synth", c |-> c, k |-> k, w |-> x, h |-> y, off |-> at]

DownWalk(c, k, s, how, frames) ==
  /\ Under("learn", c) /\ k \in 1 .. Depth(c) + 1 /\ PreparedAs(c, s)
  /\ frames \in Seq(ToSet(frames)) /\ Len(frames) = k - 1
  /\ walk = [op |-> "down", c |-> c, k |-> k, w |-> s[k].w, h |-> s[k].h, off |-> s[k].at,
             doff |-> s[k].doff, how |-> how, frames |-> frames]

UpWalk(c, frames) ==
  /\ Under("learn", c)
  /\ frames \in Seq(ToSet(frames)) /\ Len(frames) <= Depth(c)
  /\ DOMAIN walk = {"op", "c", "k", "w", "h", "off", "doff", "how", "frames"}
  /\ walk.op = "up" /\ walk.c = c /\ walk.k = Len(frames) /\ walk.frames = frames

WalkOK ==
  \/ walk = Idle
  \/ \E c, k, s : PrepWalk(c, k, s)
  \/ \E c, k, s, x, y, at : SynthWalk(c, k, s, x, y, at)
  \/ \E c, k, s, how, frames : DownWalk(c, k, s, how, frames)
  \/ \E c, frames : UpWalk(c, frames)

VerdictOK ==
  /\ verdict \in {"run", "done", "prep", "fit", "null", "synth", "back"}
  /\ PreparedPipesRun /\ RunPipesLearn

TrainingInv == CortexesOK /\ CallsOK /\ RunsOK /\ WalkOK /\ VerdictOK

----------------------------------------------------------------------------
(***************************************************************************)
(* The calls of a round, put together.                                     *)
(***************************************************************************)
LEMMA SetOfSeq ==
  ASSUME NEW S, NEW t \in Seq(S)
  PROVE  /\ ToSet(t) = {t[i] : i \in 1 .. Len(t)}
         /\ t \in Seq(ToSet(t))
<1>1. DOMAIN t = 1 .. Len(t) /\ Len(t) \in Nat
  OBVIOUS
<1>2. ToSet(t) = {t[i] : i \in 1 .. Len(t)}
  BY <1>1 DEF ToSet
<1>3. \A i \in 1 .. Len(t) : t[i] \in ToSet(t)
  BY <1>2
<1>4. t = [i \in 1 .. Len(t) |-> t[i]]
  BY <1>1
<1>. QED
  BY <1>1, <1>2, <1>3, <1>4, IsASeq

LEMMA GivenGrows ==
  ASSUME NEW t, NEW n \in Nat, NEW m \in Nat, n <= m
  PROVE  Given(t, n) \subseteq Given(t, m)
BY DEF Given

LEMMA GivenHas ==
  ASSUME NEW t, NEW n \in Nat, NEW i \in 1 .. n, NEW x \in Gives(t[i])
  PROVE  x \in Given(t, n)
BY DEF Given

LEMMA ServesNone ==
  ASSUME NEW ops, NEW A
  PROVE  Serves(<<>>, ops, A, A)
BY DEF Serves, Given, ToSet

LEMMA ServesOne ==
  ASSUME NEW a, NEW ops, NEW A, a.op \in ops, Takes(a) \subseteq A
  PROVE  Serves(<<a>>, ops, A, A \cup Gives(a))
<1>1. PICK t : t = <<a>>
  OBVIOUS
<1>2. Len(t) = 1 /\ t[1] = a /\ t = [i \in 1 .. 1 |-> a]
  BY <1>1
<1>3. Given(t, 0) = {} /\ Given(t, 1) = Gives(a)
  BY <1>2 DEF Given
<1>4. t \in Seq(ToSet(t))
  <2>1. [i \in 1 .. 1 |-> a] \in Seq({a})
    OBVIOUS
  <2>2. t \in Seq({a})
    BY <1>2, <2>1
  <2>. QED
    BY <2>2, SetOfSeq
<1>5. Serves(t, ops, A, A \cup Gives(a))
  BY <1>2, <1>3, <1>4 DEF Serves
<1>. QED
  BY <1>1, <1>5

\* What serves A serves more, and the rest stays given.
LEMMA ServesMore ==
  ASSUME NEW t, NEW ops, NEW A, NEW B, Serves(t, ops, A, B),
         NEW A1, A \subseteq A1, NEW B1, B1 \subseteq A1 \cup B
  PROVE  Serves(t, ops, A1, B1)
BY DEF Serves

LEMMA ServesThen ==
  ASSUME NEW p, NEW q, NEW ops, NEW A, NEW B, NEW C,
         Serves(p, ops, A, B), Serves(q, ops, B, C)
  PROVE  Serves(p \o q, ops, A, C)
<1>1. p \in Seq(ToSet(p)) /\ q \in Seq(ToSet(q))
  BY DEF Serves
<1>2. PICK S : S = ToSet(p) \cup ToSet(q)
  OBVIOUS
<1>3. p \in Seq(S) /\ q \in Seq(S)
  BY <1>1, <1>2
<1>4. PICK r \in Seq(S) : r = p \o q
  BY <1>3, ConcatProperties
<1>5. PICK m \in Nat, n \in Nat : m = Len(p) /\ n = Len(q)
  BY <1>3
<1>6. /\ Len(r) = m + n
      /\ \A i \in 1 .. m : r[i] = p[i]
      /\ \A i \in m + 1 .. m + n : r[i] = q[i - m]
  BY <1>3, <1>4, <1>5
<1>7. ASSUME NEW i \in 0 .. m PROVE Given(r, i) = Given(p, i)
  BY <1>6 DEF Given
<1>8. ASSUME NEW i \in 0 .. n PROVE Given(p, m) \cup Given(q, i) \subseteq Given(r, m + i)
  <2>1. ASSUME NEW j \in 1 .. i PROVE Gives(q[j]) \subseteq Given(r, m + i)
    <3>1. m + j \in 1 .. m + i /\ r[m + j] = q[j]
      BY <1>6
    <3>. QED
      BY <3>1 DEF Given
  <2>2. Given(q, i) \subseteq Given(r, m + i)
    BY <2>1 DEF Given
  <2>3. Given(p, m) \subseteq Given(r, m + i)
    BY <1>7, GivenGrows
  <2>. QED
    BY <2>2, <2>3
<1>9. ASSUME NEW i \in 1 .. m + n
      PROVE  r[i].op \in ops /\ Takes(r[i]) \subseteq A \cup Given(r, i - 1)
  <2>1. CASE i \in 1 .. m
    BY <2>1, <1>5, <1>6, <1>7 DEF Serves
  <2>2. CASE i \in m + 1 .. m + n
    <3>1. PICK j \in 1 .. n : i = m + j
      BY <2>2
    <3>2. r[i] = q[j]
      BY <1>6, <3>1
    <3>3. q[j].op \in ops /\ Takes(q[j]) \subseteq B \cup Given(q, j - 1)
      BY <1>5 DEF Serves
    <3>4. B \subseteq A \cup Given(p, m)
      BY <1>5 DEF Serves
    <3>5. Given(p, m) \cup Given(q, j - 1) \subseteq Given(r, m + (j - 1))
      BY <1>8
    <3>6. m + (j - 1) = i - 1
      BY <3>1
    <3>. QED
      BY <3>2, <3>3, <3>4, <3>5, <3>6
  <2>. QED
    BY <2>1, <2>2
<1>10. C \subseteq A \cup Given(r, m + n)
  <2>1. B \subseteq A \cup Given(p, m) /\ C \subseteq B \cup Given(q, n)
    BY <1>5 DEF Serves
  <2>. QED
    BY <2>1, <1>8
<1>11. r \in Seq(ToSet(r))
  BY SetOfSeq
<1>. QED
  BY <1>4, <1>6, <1>9, <1>10, <1>11 DEF Serves

\* Once its first call is made, the rest serves what that has given; and t
\* serves whatever has all but what its first call gives anyway.
LEMMA ServesRest ==
  ASSUME NEW t, NEW ops, NEW A, NEW B, Serves(t, ops, A, B), t # <<>>,
         NEW A1, A \cup Gives(Head(t)) \subseteq A1
  PROVE  /\ Takes(Head(t)) \subseteq A /\ Head(t).op \in ops
         /\ Serves(Tail(t), ops, A1, B)
<1>1. t \in Seq(ToSet(t))
  BY DEF Serves
<1>2. PICK n \in Nat : Len(t) = n + 1
  <2>1. Len(t) \in Nat /\ Len(t) # 0
    BY <1>1
  <2>2. Len(t) - 1 \in Nat /\ Len(t) = (Len(t) - 1) + 1
    BY <2>1
  <2>. QED
    BY <2>2
<1>3. PICK r \in Seq(ToSet(t)) : r = Tail(t)
  BY <1>1, HeadTailProperties
<1>4. Len(r) = n /\ (\A i \in 1 .. n : r[i] = t[i + 1]) /\ Head(t) = t[1]
  BY <1>1, <1>2, <1>3
<1>5. ASSUME NEW i \in 0 .. n PROVE Given(t, i + 1) \subseteq Gives(t[1]) \cup Given(r, i)
  <2>1. ASSUME NEW j \in 1 .. i + 1 PROVE Gives(t[j]) \subseteq Gives(t[1]) \cup Given(r, i)
    <3>1. CASE j = 1
      BY <3>1
    <3>2. CASE j # 1
      <4>1. PICK k \in 1 .. i : j = k + 1
        <5>1. j - 1 \in 1 .. i /\ j = (j - 1) + 1
          BY <3>2
        <5>. QED
          BY <5>1
      <4>. QED
        BY <4>1, <1>4 DEF Given
    <3>. QED
      BY <3>1, <3>2
  <2>. QED
    BY <2>1 DEF Given
<1>6. t[1].op \in ops /\ Takes(t[1]) \subseteq A
  <2>1. Given(t, 0) = {}
    BY DEF Given
  <2>2. 1 \in 1 .. Len(t) /\ 1 - 1 = 0
    BY <1>2
  <2>. QED
    BY <2>1, <2>2 DEF Serves
<1>7. ASSUME NEW i \in 1 .. n
      PROVE  r[i].op \in ops /\ Takes(r[i]) \subseteq A1 \cup Given(r, i - 1)
  <2>1. i + 1 \in 1 .. Len(t) /\ (i + 1) - 1 = i /\ i - 1 \in 0 .. n /\ (i - 1) + 1 = i
    BY <1>2
  <2>2. t[i + 1].op \in ops /\ Takes(t[i + 1]) \subseteq A \cup Given(t, i)
    BY <2>1 DEF Serves
  <2>3. Given(t, i) \subseteq Gives(t[1]) \cup Given(r, i - 1)
    BY <1>5, <2>1
  <2>. QED
    BY <2>2, <2>3, <1>4
<1>8. B \subseteq A1 \cup Given(r, n)
  <2>1. B \subseteq A \cup Given(t, n + 1)
    BY <1>2 DEF Serves
  <2>. QED
    BY <2>1, <1>4, <1>5
<1>9. r \in Seq(ToSet(r))
  BY SetOfSeq
<1>. QED
  BY <1>3, <1>4, <1>6, <1>7, <1>8, <1>9 DEF Serves

LEMMA ServesWithout ==
  ASSUME NEW t, NEW ops, NEW A, NEW B, Serves(t, ops, A, B), t # <<>>,
         NEW A1, Takes(Head(t)) \subseteq A1, A \subseteq A1 \cup Gives(Head(t))
  PROVE  Serves(t, ops, A1, B)
<1>1. t \in Seq(ToSet(t))
  BY DEF Serves
<1>2. Len(t) \in Nat /\ Len(t) # 0 /\ Head(t) = t[1]
  BY <1>1
<1>3. ASSUME NEW i \in Nat, i # 0 PROVE Gives(t[1]) \subseteq Given(t, i)
  <2>1. 1 \in 1 .. i
    BY <1>3
  <2>. QED
    BY <2>1, GivenHas
<1>4. ASSUME NEW i \in 1 .. Len(t)
      PROVE  t[i].op \in ops /\ Takes(t[i]) \subseteq A1 \cup Given(t, i - 1)
  <2>1. t[i].op \in ops /\ Takes(t[i]) \subseteq A \cup Given(t, i - 1)
    BY DEF Serves
  <2>2. CASE i = 1
    BY <2>1, <2>2, <1>2
  <2>3. CASE i # 1
    <3>1. i - 1 \in Nat /\ i - 1 # 0
      BY <2>3, <1>2
    <3>. QED
      BY <2>1, <3>1, <1>2, <1>3
  <2>. QED
    BY <2>2, <2>3
<1>5. B \subseteq A1 \cup Given(t, Len(t))
  <2>1. B \subseteq A \cup Given(t, Len(t))
    BY DEF Serves
  <2>. QED
    BY <2>1, <1>2, <1>3
<1>. QED
  BY <1>1, <1>4, <1>5 DEF Serves

----------------------------------------------------------------------------
(***************************************************************************)
(* Induction over the numbers, for a set (a predicate would be a parameter *)
(* that no prover here can instantiate): the least number that is missing  *)
(* ends the shortest of the intervals 0..n - 1 for the missing n.          *)
(***************************************************************************)
LEMMA NatSetInduction ==
    ASSUME NEW T, 0 \in T, \A n \in Nat : n \in T => n + 1 \in T
    PROVE  Nat \subseteq T
<1>. DEFINE U == {0..n - 1 : n \in Nat \ T}
<1>1. SUFFICES ASSUME NEW n \in Nat, n \notin T PROVE FALSE
  OBVIOUS
<1>2. U # {} /\ U \subseteq FiniteSubsetsOf(Nat)
  <2>1. \A m \in Nat : 0..m - 1 \in SUBSET Nat /\ IsFiniteSet(0..m - 1)
    BY FS_Interval
  <2>. QED
    BY <1>1, <2>1 DEF FiniteSubsetsOf
<1>3. IsWellFoundedOn(StrictSubsetOrdering(Nat), FiniteSubsetsOf(Nat))
  BY FS_StrictSubsetOrderingWellFounded
<1>4. PICK x \in U : \A y \in U : ~ (<<y, x>> \in StrictSubsetOrdering(Nat))
  <2>. HIDE DEF U
  <2>. QED
    BY <1>2, <1>3, WFMin
<1>5. PICK m \in Nat : m \notin T /\ x = 0..m - 1
  BY <1>4
<1>6. PICK k \in Nat : m = k + 1
  <2>1. m # 0
    BY <1>5
  <2>2. m - 1 \in Nat /\ m = (m - 1) + 1
    BY <2>1
  <2>. QED
    BY <2>2
<1>7. k \notin T
  BY <1>5, <1>6
<1>8. 0..k - 1 \in U
  BY <1>7
<1>9. <<0..k - 1, x>> \in StrictSubsetOrdering(Nat)
  <2>1. 0..k - 1 \in SUBSET Nat /\ x \in SUBSET Nat
    BY <1>5
  <2>2. k \in x /\ k \notin 0..k - 1
    BY <1>5, <1>6
  <2>3. 0..k - 1 \subseteq x
    BY <1>5, <1>6
  <2>. QED
    BY <2>1, <2>2, <2>3 DEF StrictSubsetOrdering
<1>. QED
  BY <1>4, <1>8, <1>9

\* What FlattenSeq computes, one element after the other.
FlatStep(t, h, i) == IF i = 1 THEN t[i] ELSE h[i - 1] \o t[i]
FlatFold(t) == CHOOSE h : h = [i \in 1..Len(t) |-> FlatStep(t, h, i)]

LEMMA FlatIs ==
    ASSUME NEW t
    PROVE  FlattenSeq(t) = IF Len(t) = 0 THEN t ELSE FlatFold(t)[Len(t)]
BY DEF FlattenSeq, FlatFold, FlatStep

LEMMA FlatExists ==
    ASSUME NEW t, NEW m \in Nat
    PROVE  \E h : h = [i \in 1..m |-> FlatStep(t, h, i)]
<1>. DEFINE T == {n \in Nat : \E h : h = [i \in 1..n |-> FlatStep(t, h, i)]}
<1>1. 0 \in T
  <2>1. PICK h : h = [i \in 1..0 |-> t]
    OBVIOUS
  <2>2. h = [i \in 1..0 |-> FlatStep(t, h, i)]
    BY <2>1
  <2>. QED
    BY <2>2
<1>2. ASSUME NEW n \in Nat, n \in T PROVE n + 1 \in T
  <2>1. PICK h : h = [i \in 1..n |-> FlatStep(t, h, i)]
    BY <1>2
  <2>2. PICK g : g = [i \in 1..n + 1 |-> FlatStep(t, h, i)]
    OBVIOUS
  <2>3. \A i \in 1..n : g[i] = h[i]
    <3>1. ASSUME NEW i \in 1..n PROVE i \in 1..n + 1
      OBVIOUS
    <3>2. \A i \in 1..n : h[i] = FlatStep(t, h, i)
      BY <2>1
    <3>. QED
      BY <2>2, <3>1, <3>2
  <2>4. ASSUME NEW i \in 1..n + 1 PROVE FlatStep(t, h, i) = FlatStep(t, g, i)
    <3>1. i # 1 => i - 1 \in 1..n
      OBVIOUS
    <3>. QED
      BY <2>3, <3>1 DEF FlatStep
  <2>5. g = [i \in 1..n + 1 |-> FlatStep(t, g, i)]
    BY <2>2, <2>4
  <2>. QED
    BY <2>5
<1>3. Nat \subseteq T
  <2>. HIDE DEF T
  <2>. QED
    BY <1>1, <1>2, NatSetInduction
<1>. QED
  BY <1>3

LEMMA FlatServes ==
  ASSUME NEW S, NEW f \in Seq(S), NEW ops, NEW A, NEW X,
         \A i \in 1 .. Len(f) : Serves(f[i], ops, A, A \cup X[i])
  PROVE  Serves(FlattenSeq(f), ops, A, A \cup UNION {X[i] : i \in 1 .. Len(f)})
<1>1. PICK n \in Nat : n = Len(f)
  OBVIOUS
<1>2. CASE n = 0
  <2>1. f = <<>> /\ FlattenSeq(f) = f
    BY <1>1, <1>2, EmptySeq, FlatIs
  <2>2. UNION {X[i] : i \in 1 .. 0} = {}
    OBVIOUS
  <2>3. Serves(<<>>, ops, A, A)
    BY ServesNone
  <2>. QED
    BY <2>1, <2>2, <2>3, <1>1, <1>2
<1>3. CASE n # 0
  <2>1. PICK h : h = [i \in 1 .. n |-> FlatStep(f, h, i)]
    BY FlatExists
  <2>2. PICK g : g = FlatFold(f)
    OBVIOUS
  <2>3. g = [i \in 1 .. n |-> FlatStep(f, g, i)] /\ FlattenSeq(f) = g[n]
    BY <2>1, <2>2, <1>1, <1>3, FlatIs DEF FlatFold
  <2>4. \A i \in 1 .. n : g[i] = FlatStep(f, g, i)
    BY <2>3
  <2> DEFINE All(k) == A \cup UNION {X[i] : i \in 1 .. k}
             T == {k \in Nat : k + 1 \in 1 .. n => Serves(g[k + 1], ops, A, All(k + 1))}
  <2>5. 0 \in T
    <3>1. g[1] = f[1] /\ 1 \in 1 .. n
      BY <2>4, <1>3 DEF FlatStep
    <3>2. All(1) = A \cup X[1]
      OBVIOUS
    <3>3. Serves(f[1], ops, A, A \cup X[1])
      BY <3>1, <1>1
    <3>4. Serves(g[1], ops, A, All(1))
      BY <3>1, <3>2, <3>3
    <3>5. 0 + 1 = 1
      OBVIOUS
    <3> HIDE DEF All
    <3>. QED
      BY <3>4, <3>5
  <2>6. ASSUME NEW k \in Nat, k \in T PROVE k + 1 \in T
    <3>1. SUFFICES ASSUME k + 2 \in 1 .. n PROVE Serves(g[k + 2], ops, A, All(k + 2))
      OBVIOUS
    <3>2. Serves(g[k + 1], ops, A, All(k + 1))
      BY <2>6, <3>1
    <3>3. g[k + 2] = g[k + 1] \o f[k + 2]
      <4>1. k + 2 # 1 /\ (k + 2) - 1 = k + 1
        OBVIOUS
      <4>2. g[k + 2] = FlatStep(f, g, k + 2)
        BY <2>4, <3>1
      <4>. QED
        BY <4>1, <4>2 DEF FlatStep
    <3>4. Serves(f[k + 2], ops, A, A \cup X[k + 2])
      BY <3>1, <1>1
    <3>5. All(k + 2) = All(k + 1) \cup X[k + 2]
      <4>1. 1 .. k + 2 = 1 .. k + 1 \cup {k + 2}
        OBVIOUS
      <4>. QED
        BY <4>1
    <3>6. A \subseteq All(k + 1)
      OBVIOUS
    <3>7. PICK B : B = All(k + 1)
      OBVIOUS
    <3>8. Serves(f[k + 2], ops, B, B \cup X[k + 2])
      <4>1. B \cup X[k + 2] \subseteq B \cup (A \cup X[k + 2])
        OBVIOUS
      <4>2. A \subseteq B
        BY <3>6, <3>7
      <4> HIDE DEF All
      <4>. QED
        BY <3>4, <4>1, <4>2, ServesMore
    <3>9. Serves(g[k + 1], ops, A, B)
      BY <3>2, <3>7
    <3>10. Serves(g[k + 1] \o f[k + 2], ops, A, B \cup X[k + 2])
      <4> HIDE DEF All, T
      <4>. QED
        BY <3>8, <3>9, ServesThen
    <3> HIDE DEF All
    <3>. QED
      BY <3>3, <3>5, <3>7, <3>10
  <2>7. Nat \subseteq T
    <3> HIDE DEF T
    <3>. QED
      BY <2>5, <2>6, NatSetInduction
  <2>8. n - 1 \in Nat /\ (n - 1) + 1 = n /\ n \in 1 .. n
    BY <1>3
  <2>9. Serves(g[n], ops, A, All(n))
    BY <2>7, <2>8
  <2>. QED
    BY <2>3, <2>9, <1>1
<1>. QED
  BY <1>2, <1>3

----------------------------------------------------------------------------
(***************************************************************************)
(* Single calls.                                                           *)
(***************************************************************************)
LEMMA ServesPlain ==
  ASSUME NEW a, NEW A, a.op \in RoundOps \ {"synth", "learn"}
  PROVE  Serves(<<a>>, RoundOps, A, A)
<1>1. Takes(a) = {} /\ Gives(a) = {} /\ a.op \in RoundOps
  BY DEF RoundOps, Takes, Gives
<1>2. Takes(a) \subseteq A /\ A \cup Gives(a) = A
  BY <1>1
<1>. QED
  BY <1>1, <1>2, ServesOne

LEMMA ServesPick ==
  ASSUME NEW what, NEW p, NEW A
  PROVE  Serves(Pick(what, p), RoundOps, A, A)
<1>1. PICK a : a = [op |-> "pick", what |-> what, to |-> p]
  OBVIOUS
<1>2. a.op \in RoundOps \ {"synth", "learn"}
  BY <1>1 DEF RoundOps
<1>. QED
  BY <1>1, <1>2, ServesPlain DEF Pick

LEMMA ServesCopy ==
  ASSUME NEW p, NEW q, NEW A
  PROVE  Serves(Copy(p, q), RoundOps, A, A)
<1>1. PICK a : a = [op |-> "copy", from |-> p, to |-> q]
  OBVIOUS
<1>2. a.op \in RoundOps \ {"synth", "learn"}
  BY <1>1 DEF RoundOps
<1>. QED
  BY <1>1, <1>2, ServesPlain DEF Copy

LEMMA ServesTarget ==
  ASSUME NEW p, NEW goal, NEW A
  PROVE  Serves(Target(p, goal), RoundOps, A, A)
<1>1. PICK a : a = [op |-> "target", at |-> p, goal |-> goal]
  OBVIOUS
<1>2. a.op \in RoundOps \ {"synth", "learn"}
  BY <1>1 DEF RoundOps
<1>. QED
  BY <1>1, <1>2, ServesPlain DEF Target

LEMMA ServesSplice ==
  ASSUME NEW p, NEW xa, NEW n, NEW q, NEW ya, NEW A
  PROVE  Serves(Splice(p, xa, n, q, ya), RoundOps, A, A)
<1>1. PICK a : a = [op |-> "splice", from |-> p, xa |-> xa, n |-> n, to |-> q, ya |-> ya]
  OBVIOUS
<1>2. a.op \in RoundOps \ {"synth", "learn"}
  BY <1>1 DEF RoundOps
<1>. QED
  BY <1>1, <1>2, ServesPlain DEF Splice

LEMMA ServesCall ==
  ASSUME NEW op \in RoundOps \ {"synth", "learn"}, NEW c, NEW A
  PROVE  Serves(Call(op, c), RoundOps, A, A)
<1>1. PICK a : a = [op |-> op, c |-> c]
  OBVIOUS
<1>2. a.op \in RoundOps \ {"synth", "learn"}
  BY <1>1
<1>. QED
  BY <1>1, <1>2, ServesPlain DEF Call

LEMMA ServesSynth ==
  ASSUME NEW c, NEW A, PreparedOf(c) \in A
  PROVE  Serves(Call("synth", c), RoundOps, A, A \cup {RunOf(c)})
<1>1. PICK a : a = [op |-> "synth", c |-> c]
  OBVIOUS
<1>2. a.op \in RoundOps /\ Takes(a) = {PreparedOf(c)} /\ Gives(a) = {RunOf(c)}
  BY <1>1 DEF RoundOps, Takes, Gives
<1>3. Serves(<<a>>, RoundOps, A, A \cup Gives(a))
  BY <1>2, ServesOne
<1>. QED
  BY <1>1, <1>2, <1>3 DEF Call

LEMMA ServesLearn ==
  ASSUME NEW c, NEW how, NEW A, PreparedOf(c) \in A, RunOf(c) \in A
  PROVE  Serves(Learn(c, how), RoundOps, A, A)
<1>1. PICK a : a = [op |-> "learn", c |-> c, how |-> how]
  OBVIOUS
<1>2. a.op \in RoundOps /\ Takes(a) = {PreparedOf(c), RunOf(c)} /\ Gives(a) = {}
  BY <1>1 DEF RoundOps, Takes, Gives
<1>3. Serves(<<a>>, RoundOps, A, A \cup Gives(a))
  BY <1>2, ServesOne
<1>4. A \cup Gives(a) = A
  BY <1>2
<1>. QED
  BY <1>1, <1>3, <1>4 DEF Learn

LEMMA ServesPrepare ==
  ASSUME NEW c, NEW from, NEW A, KnownOf(c) \in A, SourceOf(from) \in A
  PROVE  Serves(Prepare(c, from), PrologueOps, A, A \cup {PreparedOf(c)})
<1>1. PICK a : a = [op |-> "prepare", c |-> c, from |-> from]
  OBVIOUS
<1>2. a.op \in PrologueOps /\ Takes(a) = {KnownOf(c), SourceOf(from)} /\ Gives(a) = {PreparedOf(c)}
  BY <1>1 DEF PrologueOps, Takes, Gives
<1>3. Serves(<<a>>, PrologueOps, A, A \cup Gives(a))
  BY <1>2, ServesOne
<1>. QED
  BY <1>1, <1>2, <1>3 DEF Prepare

LEMMA ServesFit ==
  ASSUME NEW what, NEW A
  PROVE  Serves(Call("fit", what), PrologueOps, A, A)
<1>1. PICK a : a = [op |-> "fit", c |-> what]
  OBVIOUS
<1>2. a.op \in PrologueOps /\ Takes(a) = {} /\ Gives(a) = {}
  BY <1>1 DEF PrologueOps, Takes, Gives
<1>3. Serves(<<a>>, PrologueOps, A, A \cup Gives(a))
  BY <1>2, ServesOne
<1>4. A \cup Gives(a) = A
  BY <1>2
<1>. QED
  BY <1>1, <1>3, <1>4 DEF Call

----------------------------------------------------------------------------
(***************************************************************************)
(* The calls of a Paracortex.                                              *)
(***************************************************************************)
\* One group of calls after the other, each giving something of its own.
LEMMA GroupsServe ==
  ASSUME NEW n \in Nat, NEW f, f = [j \in 1 .. n |-> f[j]], NEW ops, NEW A, NEW X,
         \A j \in 1 .. n : Serves(f[j], ops, A, A \cup X[j])
  PROVE  Serves(FlattenSeq(f), ops, A, A \cup UNION {X[j] : j \in 1 .. n})
<1>1. PICK S : S = {f[j] : j \in 1 .. n}
  OBVIOUS
<1>2. [j \in 1 .. n |-> f[j]] \in Seq(S) /\ Len([j \in 1 .. n |-> f[j]]) = n
  BY <1>1, IsASeq
<1>3. f \in Seq(S) /\ Len(f) = n
  BY <1>2
<1>. QED
  BY <1>3, FlatServes

\* A Paracortex of the chain: its members are Cortexes.
Para(p) == p.members \in Seq(Cortexes) \ {<<>>}

LEMMA ParaIs ==
  ASSUME NEW p, Para(p)
  PROVE  /\ Len(p.members) \in Nat \ {0} /\ DOMAIN p.members = 1 .. Len(p.members)
         /\ \A j \in 1 .. Len(p.members) : p.members[j] \in Cortexes
         /\ ToSet(p.members) = {p.members[j] : j \in 1 .. Len(p.members)}
         /\ p.members[1] \in ToSet(p.members)
<1>1. PICK t \in Seq(Cortexes) : t = p.members /\ t # <<>>
  BY DEF Para
<1>2. Len(t) \in Nat \ {0} /\ DOMAIN t = 1 .. Len(t) /\ \A j \in 1 .. Len(t) : t[j] \in Cortexes
  BY <1>1
<1>3. ToSet(t) = {t[j] : j \in 1 .. Len(t)}
  BY SetOfSeq
<1>4. t[1] \in ToSet(t)
  BY <1>2, <1>3
<1>. QED
  BY <1>1, <1>2, <1>3, <1>4

\* The synths of its members; the offset of a member's channels is whatever
\* it is.
LEMMA SynthMembers ==
  ASSUME NEW p, Para(p), NEW off, NEW A,
         \A m \in ToSet(p.members) : PreparedOf(m) \in A
  PROVE  Serves(FlattenSeq([j \in DOMAIN p.members |->
                  Splice(Kinp(p.name), off[j], PipeIc(p.members[j]), Kinp(p.members[j]), 0) \o Call("synth", p.members[j])]),
                RoundOps, A, A \cup {RunOf(m) : m \in ToSet(p.members)})
<1>0. PICK n \in Nat : n = Len(p.members)
  BY ParaIs
<1>a. /\ DOMAIN p.members = 1 .. n
      /\ ToSet(p.members) = {p.members[j] : j \in 1 .. n}
  BY <1>0, ParaIs
<1> DEFINE f == [j \in DOMAIN p.members |->
                  Splice(Kinp(p.name), off[j], PipeIc(p.members[j]), Kinp(p.members[j]), 0)
                    \o Call("synth", p.members[j])]
           X == [j \in 1 .. n |-> {RunOf(p.members[j])}]
<1>2. ASSUME NEW j \in 1 .. n, NEW o, NEW k
      PROVE  Serves(Splice(Kinp(p.name), o, k, Kinp(p.members[j]), 0) \o Call("synth", p.members[j]),
                    RoundOps, A, A \cup {RunOf(p.members[j])})
  BY <1>a, ServesSplice, ServesSynth, ServesThen
<1>3. \A j \in 1 .. n : f[j] = Splice(Kinp(p.name), off[j], PipeIc(p.members[j]), Kinp(p.members[j]), 0)
                                 \o Call("synth", p.members[j])
  BY <1>a, Zenon
<1>4. \A j \in 1 .. n : Serves(f[j], RoundOps, A, A \cup X[j])
  BY <1>2, <1>3
<1>5. f = [j \in 1 .. n |-> f[j]]
  BY <1>a
<1>6. Serves(FlattenSeq(f), RoundOps, A, A \cup UNION {X[j] : j \in 1 .. n})
  <2> HIDE DEF f, X
  <2>. QED
    BY <1>4, <1>5, GroupsServe
<1>7. UNION {X[j] : j \in 1 .. n} = {RunOf(m) : m \in ToSet(p.members)}
  BY <1>a
<1>. QED
  BY <1>6, <1>7

LEMMA GroupsServePlain ==
  ASSUME NEW n \in Nat, NEW f, f = [j \in 1 .. n |-> f[j]], NEW ops, NEW A,
         \A j \in 1 .. n : Serves(f[j], ops, A, A)
  PROVE  Serves(FlattenSeq(f), ops, A, A)
<1>1. PICK X : X = [j \in 1 .. n |-> {}]
  OBVIOUS
<1>2. \A j \in 1 .. n : A \cup X[j] = A
  BY <1>1
<1>3. Serves(FlattenSeq(f), ops, A, A \cup UNION {X[j] : j \in 1 .. n})
  <2>1. ASSUME NEW j \in 1 .. n PROVE Serves(f[j], ops, A, A \cup X[j])
    <3>1. A \cup X[j] = A
      BY <1>2
    <3>. QED
      BY <3>1, Zenon
  <2>. QED
    BY <2>1, GroupsServe
<1>4. A \cup UNION {X[j] : j \in 1 .. n} = A
  BY <1>1
<1>. QED
  BY <1>3, <1>4

\* The splices of synth, target and learn.
LEMMA JoinOutputs ==
  ASSUME NEW p, Para(p), NEW off, NEW A
  PROVE  Serves(FlattenSeq([j \in DOMAIN p.members |->
                  Splice(Kout(p.members[j]), 0, PipeOc(p.members[j]), Kout(p.name), off[j])]),
                RoundOps, A, A)
<1>0. PICK n \in Nat : n = Len(p.members)
  BY ParaIs
<1>a. /\ DOMAIN p.members = 1 .. n
      /\ ToSet(p.members) = {p.members[j] : j \in 1 .. n}
  BY <1>0, ParaIs
<1> DEFINE f == [j \in DOMAIN p.members |->
                  Splice(Kout(p.members[j]), 0, PipeOc(p.members[j]), Kout(p.name), off[j])]
<1>2. ASSUME NEW j \in 1 .. n, NEW o, NEW k
      PROVE  Serves(Splice(Kout(p.members[j]), 0, k, Kout(p.name), o),
                    RoundOps, A, A)
  BY ServesSplice
<1>3. \A j \in 1 .. n : f[j] =
         Splice(Kout(p.members[j]), 0, PipeOc(p.members[j]), Kout(p.name), off[j])
  BY <1>a, Zenon
<1>4. \A j \in 1 .. n : Serves(f[j], RoundOps, A, A)
  BY <1>2, <1>3
<1>5. f = [j \in 1 .. n |-> f[j]]
  BY <1>a
<1>6. Serves(FlattenSeq(f), RoundOps, A, A)
  <2> HIDE DEF f
  <2>. QED
    BY <1>4, <1>5, GroupsServePlain
<1>. QED
  BY <1>6


LEMMA SplitOutputs ==
  ASSUME NEW p, Para(p), NEW off, NEW A
  PROVE  Serves(FlattenSeq([j \in DOMAIN p.members |->
                  Splice(Kout(p.name), off[j], PipeOc(p.members[j]), Kout(p.members[j]), 0)]),
                RoundOps, A, A)
<1>0. PICK n \in Nat : n = Len(p.members)
  BY ParaIs
<1>a. /\ DOMAIN p.members = 1 .. n
      /\ ToSet(p.members) = {p.members[j] : j \in 1 .. n}
  BY <1>0, ParaIs
<1> DEFINE f == [j \in DOMAIN p.members |->
                  Splice(Kout(p.name), off[j], PipeOc(p.members[j]), Kout(p.members[j]), 0)]
<1>2. ASSUME NEW j \in 1 .. n, NEW o, NEW k
      PROVE  Serves(Splice(Kout(p.name), o, k, Kout(p.members[j]), 0),
                    RoundOps, A, A)
  BY ServesSplice
<1>3. \A j \in 1 .. n : f[j] =
         Splice(Kout(p.name), off[j], PipeOc(p.members[j]), Kout(p.members[j]), 0)
  BY <1>a, Zenon
<1>4. \A j \in 1 .. n : Serves(f[j], RoundOps, A, A)
  BY <1>2, <1>3
<1>5. f = [j \in 1 .. n |-> f[j]]
  BY <1>a
<1>6. Serves(FlattenSeq(f), RoundOps, A, A)
  <2> HIDE DEF f
  <2>. QED
    BY <1>4, <1>5, GroupsServePlain
<1>. QED
  BY <1>6


LEMMA JoinInputs ==
  ASSUME NEW p, Para(p), NEW off, NEW A
  PROVE  Serves(FlattenSeq([j \in DOMAIN p.members |->
                  Splice(Kinp(p.members[j]), 0, PipeIc(p.members[j]), Kinp(p.name), off[j])]),
                RoundOps, A, A)
<1>0. PICK n \in Nat : n = Len(p.members)
  BY ParaIs
<1>a. /\ DOMAIN p.members = 1 .. n
      /\ ToSet(p.members) = {p.members[j] : j \in 1 .. n}
  BY <1>0, ParaIs
<1> DEFINE f == [j \in DOMAIN p.members |->
                  Splice(Kinp(p.members[j]), 0, PipeIc(p.members[j]), Kinp(p.name), off[j])]
<1>2. ASSUME NEW j \in 1 .. n, NEW o, NEW k
      PROVE  Serves(Splice(Kinp(p.members[j]), 0, k, Kinp(p.name), o),
                    RoundOps, A, A)
  BY ServesSplice
<1>3. \A j \in 1 .. n : f[j] =
         Splice(Kinp(p.members[j]), 0, PipeIc(p.members[j]), Kinp(p.name), off[j])
  BY <1>a, Zenon
<1>4. \A j \in 1 .. n : Serves(f[j], RoundOps, A, A)
  BY <1>2, <1>3
<1>5. f = [j \in 1 .. n |-> f[j]]
  BY <1>a
<1>6. Serves(FlattenSeq(f), RoundOps, A, A)
  <2> HIDE DEF f
  <2>. QED
    BY <1>4, <1>5, GroupsServePlain
<1>. QED
  BY <1>6


LEMMA LearnMembers ==
  ASSUME NEW p, Para(p), NEW off, NEW A,
         \A m \in ToSet(p.members) : PreparedOf(m) \in A /\ RunOf(m) \in A
  PROVE  Serves(FlattenSeq([j \in DOMAIN p.members |->
                  Splice(Kout(p.name), off[j], PipeOc(p.members[j]), Kout(p.members[j]), 0) \o Learn(p.members[j], "learn")]),
                RoundOps, A, A)
<1>0. PICK n \in Nat : n = Len(p.members)
  BY ParaIs
<1>a. /\ DOMAIN p.members = 1 .. n
      /\ ToSet(p.members) = {p.members[j] : j \in 1 .. n}
  BY <1>0, ParaIs
<1> DEFINE f == [j \in DOMAIN p.members |->
                  Splice(Kout(p.name), off[j], PipeOc(p.members[j]), Kout(p.members[j]), 0) \o Learn(p.members[j], "learn")]
<1>2. ASSUME NEW j \in 1 .. n, NEW o, NEW k
      PROVE  Serves(Splice(Kout(p.name), o, k, Kout(p.members[j]), 0) \o Learn(p.members[j], "learn"),
                    RoundOps, A, A)
  BY <1>a, ServesSplice, ServesLearn, ServesThen
<1>3. \A j \in 1 .. n : f[j] =
         Splice(Kout(p.name), off[j], PipeOc(p.members[j]), Kout(p.members[j]), 0) \o Learn(p.members[j], "learn")
  BY <1>a, Zenon
<1>4. \A j \in 1 .. n : Serves(f[j], RoundOps, A, A)
  BY <1>2, <1>3
<1>5. f = [j \in 1 .. n |-> f[j]]
  BY <1>a
<1>6. Serves(FlattenSeq(f), RoundOps, A, A)
  <2> HIDE DEF f
  <2>. QED
    BY <1>4, <1>5, GroupsServePlain
<1>. QED
  BY <1>6

LEMMA ParaSynthServes ==
  ASSUME NEW p, Para(p), NEW from, NEW A, \A m \in ToSet(p.members) : PreparedOf(m) \in A
  PROVE  Serves(ParaSynth(p, from), RoundOps, A, A \cup {RunOf(m) : m \in ToSet(p.members)})
<1>1. PICK n \in Nat : n = Len(p.members) /\ n # 0
  BY ParaIs
<1>2. /\ DOMAIN p.members = 1 .. n /\ p.members[1] \in ToSet(p.members)
      /\ ToSet(p.members) = {p.members[j] : j \in 1 .. n}
  BY <1>1, ParaIs
<1>3. PICK B : B = A \cup {RunOf(m) : m \in ToSet(p.members)}
  OBVIOUS
<1>4. B = A \cup {RunOf(p.members[j]) : j \in 1 .. n}
  BY <1>2, <1>3
<1>5. CASE Single(p)
  <2>1. n = 1
    BY <1>1, <1>5 DEF Single
  <2>2. B = A \cup {RunOf(p.members[1])}
    BY <1>4, <2>1
  <2>3. Serves(Call("synth", p.members[1]), RoundOps, A, B)
    BY <1>2, <2>2, ServesSynth
  <2>4. "copynull" \in RoundOps \ {"synth", "learn"}
    BY DEF RoundOps
  <2>5. PICK t : t = (IF from = <<>> THEN Call("copynull", p.members[1])
                      ELSE Copy(from, Kinp(p.members[1])))
    OBVIOUS
  <2>6. Serves(t, RoundOps, A, A)
    BY <2>4, <2>5, ServesCall, ServesCopy
  <2>7. Serves(t \o Call("synth", p.members[1]), RoundOps, A, B)
    BY <2>3, <2>6, ServesThen
  <2>8. ParaSynth(p, from) = t \o Call("synth", p.members[1])
    BY <1>5, <2>5, Zenon DEF ParaSynth
  <2>. QED
    BY <1>3, <2>7, <2>8
<1>6. CASE ~Single(p)
  <2>1. PICK t : t = (IF from = <<>> THEN <<>> ELSE Copy(from, Kinp(p.name)))
    OBVIOUS
  <2>2. Serves(t, RoundOps, A, A)
    BY <2>1, ServesNone, ServesCopy
  <2>3. PICK u : u = ForMembers(p, LAMBDA m, off :
              Splice(Kinp(p.name), off, PipeIc(m), Kinp(m), 0) \o Call("synth", m),
              PipeIc)
    OBVIOUS
  <2>6. Serves(u, RoundOps, A, B)
    <3> DEFINE at(j) == FoldLeft(LAMBDA k, m : k + PipeIc(m), 0, SubSeq(p.members, 1, j - 1))
               f == [j \in DOMAIN p.members |->
                      Splice(Kinp(p.name), at(j), PipeIc(p.members[j]), Kinp(p.members[j]), 0) \o Call("synth", p.members[j])]
    <3>1. u = FlattenSeq(f)
      BY <2>3 DEF ForMembers
    <3> HIDE DEF at
    <3>2. PICK off : off = [j \in DOMAIN p.members |-> at(j)]
      OBVIOUS
    <3>3. f = [j \in DOMAIN p.members |->
                      Splice(Kinp(p.name), off[j], PipeIc(p.members[j]), Kinp(p.members[j]), 0) \o Call("synth", p.members[j])]
      BY <3>2
    <3> HIDE DEF f
    <3>. QED
      BY <3>1, <3>3, <1>3, SynthMembers
  <2>7. PICK v : v = ForMembers(p, LAMBDA m, off :
              Splice(Kout(m), 0, PipeOc(m), Kout(p.name), off), PipeOc)
    OBVIOUS
  <2>8. Serves(v, RoundOps, B, B)
    <3> DEFINE at(j) == FoldLeft(LAMBDA k, m : k + PipeOc(m), 0, SubSeq(p.members, 1, j - 1))
               f == [j \in DOMAIN p.members |->
                      Splice(Kout(p.members[j]), 0, PipeOc(p.members[j]), Kout(p.name), at(j))]
    <3>1. v = FlattenSeq(f)
      BY <2>7 DEF ForMembers
    <3> HIDE DEF at
    <3>2. PICK off : off = [j \in DOMAIN p.members |-> at(j)]
      OBVIOUS
    <3>3. f = [j \in DOMAIN p.members |->
                      Splice(Kout(p.members[j]), 0, PipeOc(p.members[j]), Kout(p.name), off[j])]
      BY <3>2
    <3> HIDE DEF f
    <3>. QED
      BY <3>1, <3>3, JoinOutputs
  <2>9. ParaSynth(p, from) = (t \o u) \o v
    BY <1>6, <2>1, <2>3, <2>7, Zenon DEF ParaSynth
  <2>10. Serves(t \o u, RoundOps, A, B)
    BY <2>2, <2>6, ServesThen
  <2>11. Serves((t \o u) \o v, RoundOps, A, B)
    BY <2>8, <2>10, ServesThen
  <2>. QED
    BY <1>3, <2>9, <2>11
<1>. QED
  BY <1>5, <1>6

LEMMA ParaTargetServes ==
  ASSUME NEW p, Para(p), NEW goal, NEW A
  PROVE  Serves(ParaTarget(p, goal), RoundOps, A, A)
<1>1. CASE Single(p)
  <2>1. ParaTarget(p, goal) = Target(Kout(p.members[1]), goal)
    BY <1>1, Zenon DEF ParaTarget
  <2>. QED
    BY <2>1, ServesTarget
<1>2. CASE ~Single(p)
  <2>1. PICK v : v = ForMembers(p, LAMBDA m, off :
              Splice(Kout(p.name), off, PipeOc(m), Kout(m), 0), PipeOc)
    OBVIOUS
  <2>2. Serves(v, RoundOps, A, A)
    <3> DEFINE at(j) == FoldLeft(LAMBDA k, m : k + PipeOc(m), 0, SubSeq(p.members, 1, j - 1))
               f == [j \in DOMAIN p.members |->
                      Splice(Kout(p.name), at(j), PipeOc(p.members[j]), Kout(p.members[j]), 0)]
    <3>1. v = FlattenSeq(f)
      BY <2>1 DEF ForMembers
    <3> HIDE DEF at
    <3>2. PICK off : off = [j \in DOMAIN p.members |-> at(j)]
      OBVIOUS
    <3>3. f = [j \in DOMAIN p.members |->
                      Splice(Kout(p.name), off[j], PipeOc(p.members[j]), Kout(p.members[j]), 0)]
      BY <3>2
    <3> HIDE DEF f
    <3>. QED
      BY <3>1, <3>3, SplitOutputs
  <2>3. ParaTarget(p, goal) = Target(Kout(p.name), goal) \o v
    BY <1>2, <2>1, Zenon DEF ParaTarget
  <2>4. Serves(Target(Kout(p.name), goal), RoundOps, A, A)
    BY ServesTarget
  <2>. QED
    BY <2>2, <2>3, <2>4, ServesThen
<1>. QED
  BY <1>1, <1>2

LEMMA ParaLearnServes ==
  ASSUME NEW p, Para(p), NEW A,
         \A m \in ToSet(p.members) : PreparedOf(m) \in A /\ RunOf(m) \in A
  PROVE  Serves(ParaLearn(p), RoundOps, A, A)
<1>1. PICK n \in Nat : n = Len(p.members) /\ n # 0
  BY ParaIs
<1>2. /\ DOMAIN p.members = 1 .. n /\ p.members[1] \in ToSet(p.members)
      /\ \A j \in 1 .. n : PreparedOf(p.members[j]) \in A /\ RunOf(p.members[j]) \in A
  BY <1>1, ParaIs
<1>3. CASE Single(p)
  <2>1. ParaLearn(p) = Learn(p.members[1], "learn")
    BY <1>3, Zenon DEF ParaLearn
  <2>. QED
    BY <1>2, <2>1, ServesLearn
<1>4. CASE ~Single(p)
  <2>1. PICK u : u = ForMembers(p, LAMBDA m, off :
         Splice(Kout(p.name), off, PipeOc(m), Kout(m), 0) \o Learn(m, "learn"),
         PipeOc)
    OBVIOUS
  <2>2. Serves(u, RoundOps, A, A)
    <3> DEFINE at(j) == FoldLeft(LAMBDA k, m : k + PipeOc(m), 0, SubSeq(p.members, 1, j - 1))
               f == [j \in DOMAIN p.members |->
                      Splice(Kout(p.name), at(j), PipeOc(p.members[j]), Kout(p.members[j]), 0) \o Learn(p.members[j], "learn")]
    <3>1. u = FlattenSeq(f)
      BY <2>1 DEF ForMembers
    <3> HIDE DEF at
    <3>2. PICK off : off = [j \in DOMAIN p.members |-> at(j)]
      OBVIOUS
    <3>3. f = [j \in DOMAIN p.members |->
                      Splice(Kout(p.name), off[j], PipeOc(p.members[j]), Kout(p.members[j]), 0) \o Learn(p.members[j], "learn")]
      BY <3>2
    <3> HIDE DEF f
    <3>. QED
      BY <3>1, <3>3, LearnMembers
  <2>3. PICK v : v = ForMembers(p, LAMBDA m, off :
              Splice(Kinp(m), 0, PipeIc(m), Kinp(p.name), off), PipeIc)
    OBVIOUS
  <2>4. Serves(v, RoundOps, A, A)
    <3> DEFINE at(j) == FoldLeft(LAMBDA k, m : k + PipeIc(m), 0, SubSeq(p.members, 1, j - 1))
               f == [j \in DOMAIN p.members |->
                      Splice(Kinp(p.members[j]), 0, PipeIc(p.members[j]), Kinp(p.name), at(j))]
    <3>1. v = FlattenSeq(f)
      BY <2>3 DEF ForMembers
    <3> HIDE DEF at
    <3>2. PICK off : off = [j \in DOMAIN p.members |-> at(j)]
      OBVIOUS
    <3>3. f = [j \in DOMAIN p.members |->
                      Splice(Kinp(p.members[j]), 0, PipeIc(p.members[j]), Kinp(p.name), off[j])]
      BY <3>2
    <3> HIDE DEF f
    <3>. QED
      BY <3>1, <3>3, JoinInputs
  <2>5. ParaLearn(p) = u \o v
    BY <1>4, <2>1, <2>3, Zenon DEF ParaLearn
  <2>. QED
    BY <2>2, <2>4, <2>5, ServesThen
<1>. QED
  BY <1>3, <1>4

----------------------------------------------------------------------------
(***************************************************************************)
(* The calls of the chain.                                                 *)
(***************************************************************************)
LEMMA SetupIs ==
  ASSUME setup \in Setups
  PROVE  /\ setup.mode \in {"learnfunc", "learnhans", "learn"}
         /\ setup.w \in Nat /\ setup.h \in Nat
         /\ \A c \in Cortexes : setup.pipe[c] \in Seq(Layers) \ {<<>>}
         /\ setup.chain \in Seq([name : STRING, members : Seq(Cortexes) \ {<<>>}]) \ {<<>>}
         /\ setup.mode # "learnfunc" => "dis" \in Cortexes
         /\ setup.mode = "learn" => {"cnd", "enc", "inf"} \subseteq Cortexes
BY SetupAssumption DEF SetupOK, Cortexes

LEMMA ChainIs ==
  ASSUME setup \in Setups
  PROVE  /\ Len(setup.chain) \in Nat \ {0} /\ DOMAIN setup.chain = 1 .. Len(setup.chain)
         /\ \A i \in 1 .. Len(setup.chain) :
              /\ Para(setup.chain[i])
              /\ setup.chain[i].members[1] \in Cortexes
              /\ ToSet(setup.chain[i].members) \subseteq ChainMembers
         /\ ChainMembers = UNION {ToSet(setup.chain[i].members) : i \in 1 .. Len(setup.chain)}
         /\ ChainMembers \subseteq Cortexes
         /\ Last(setup.chain) = setup.chain[Len(setup.chain)]
<1>1. PICK t \in Seq([name : STRING, members : Seq(Cortexes) \ {<<>>}]) :
        t = setup.chain /\ t # <<>>
  BY SetupIs
<1>2. Len(t) \in Nat \ {0} /\ DOMAIN t = 1 .. Len(t)
  BY <1>1
<1>3. ASSUME NEW i \in 1 .. Len(t)
      PROVE  Para(t[i]) /\ t[i].members[1] \in Cortexes /\ ToSet(t[i].members) \subseteq Cortexes
  <2>1. t[i].members \in Seq(Cortexes) \ {<<>>}
    <3>1. PICK S : S = [name : STRING, members : Seq(Cortexes) \ {<<>>}] /\ t \in Seq(S)
      BY <1>1
    <3>2. t[i] \in S
      BY <3>1, ElementOfSeq
    <3>. QED
      BY <3>1, <3>2
  <2>2. Para(t[i])
    BY <2>1 DEF Para
  <2>3. PICK q : q = t[i]
    OBVIOUS
  <2>4. Para(q)
    BY <2>2, <2>3
  <2>5. q.members[1] \in ToSet(q.members) /\ ToSet(q.members) \subseteq Cortexes
    <3>1. q.members[1] \in ToSet(q.members)
      BY <2>4, ParaIs
    <3>2. ToSet(q.members) = {q.members[j] : j \in 1 .. Len(q.members)}
      BY <2>4, ParaIs
    <3>3. \A j \in 1 .. Len(q.members) : q.members[j] \in Cortexes
      BY <2>4, ParaIs
    <3>. QED
      BY <3>1, <3>2, <3>3
  <2>. QED
    BY <2>2, <2>3, <2>5
<1>4. ChainMembers = UNION {ToSet(t[i].members) : i \in 1 .. Len(t)}
  BY <1>1, <1>2 DEF ChainMembers
<1>5. Last(t) = t[Len(t)]
  BY DEF Last
<1>. QED
  BY <1>1, <1>2, <1>3, <1>4, <1>5

LEMMA ChainSynthServes ==
  ASSUME setup \in Setups, NEW A, \A m \in ChainMembers : PreparedOf(m) \in A
  PROVE  Serves(ChainSynth, RoundOps, A, A \cup {RunOf(m) : m \in ChainMembers})
<1>1. PICK n \in Nat : n = Len(setup.chain) /\ DOMAIN setup.chain = 1 .. n
  BY ChainIs
<1> DEFINE from(i) == IF i = 1 THEN <<>> ELSE Kout(Owner(setup.chain[i - 1]))
           f == [i \in 1 .. n |-> ParaSynth(setup.chain[i], from(i))]
           X == [i \in 1 .. n |-> {RunOf(m) : m \in ToSet(setup.chain[i].members)}]
<1>2. ChainSynth = FlattenSeq(f)
  BY <1>1 DEF ChainSynth
<1>3. ASSUME NEW i \in 1 .. n PROVE Serves(f[i], RoundOps, A, A \cup X[i])
  <2>1. f[i] = ParaSynth(setup.chain[i], from(i))
    OBVIOUS
  <2>2. Para(setup.chain[i]) /\ \A m \in ToSet(setup.chain[i].members) : PreparedOf(m) \in A
    BY <1>1, ChainIs
  <2> HIDE DEF from, f
  <2>3. Serves(ParaSynth(setup.chain[i], from(i)), RoundOps, A,
               A \cup {RunOf(m) : m \in ToSet(setup.chain[i].members)})
    BY <2>2, ParaSynthServes
  <2>. QED
    BY <2>1, <2>3
<1>4. f = [i \in 1 .. n |-> f[i]]
  OBVIOUS
<1>5. UNION {X[i] : i \in 1 .. n} = {RunOf(m) : m \in ChainMembers}
  <2>1. \A m : m \in ChainMembers <=> \E i \in 1 .. n : m \in ToSet(setup.chain[i].members)
    <3>1. ChainMembers = UNION {ToSet(setup.chain[i].members) : i \in 1 .. n}
      BY <1>1, ChainIs
    <3>. QED
      BY <3>1
  <2>2. \A i \in 1 .. n : X[i] = {RunOf(m) : m \in ToSet(setup.chain[i].members)}
    OBVIOUS
  <2>3. \A x : x \in UNION {X[i] : i \in 1 .. n} <=> \E i \in 1 .. n : x \in X[i]
    OBVIOUS
  <2> HIDE DEF X
  <2>4. ASSUME NEW x
        PROVE  x \in UNION {X[i] : i \in 1 .. n} <=> x \in {RunOf(m) : m \in ChainMembers}
    BY <2>1, <2>2, <2>3
  <2>. QED
    BY <2>4, Zenon
<1> HIDE DEF f, X
<1>6. Serves(FlattenSeq(f), RoundOps, A, A \cup UNION {X[i] : i \in 1 .. n})
  BY <1>3, <1>4, GroupsServe
<1>. QED
  BY <1>2, <1>5, <1>6

LEMMA ChainTargetServes ==
  ASSUME setup \in Setups, NEW goal, NEW A
  PROVE  Serves(ChainTarget(goal), RoundOps, A, A)
BY ChainIs, ParaTargetServes DEF ChainTarget

LEMMA ChainLearnServes ==
  ASSUME setup \in Setups, NEW A,
         \A m \in ChainMembers : PreparedOf(m) \in A /\ RunOf(m) \in A
  PROVE  Serves(ChainLearn, RoundOps, A, A)
<1>1. PICK n \in Nat : n = Len(setup.chain) /\ DOMAIN setup.chain = 1 .. n
  BY ChainIs
<1> DEFINE back(i) == IF i = n THEN <<>>
                      ELSE Copy(Kinp(Owner(setup.chain[i + 1])), Kout(Owner(setup.chain[i])))
           f == [k \in 1 .. n |-> back(n + 1 - k) \o ParaLearn(setup.chain[n + 1 - k])]
<1>2. ChainLearn = FlattenSeq(f)
  BY <1>1 DEF ChainLearn
<1>3. ASSUME NEW k \in 1 .. n PROVE Serves(f[k], RoundOps, A, A)
  <2>1. PICK i \in 1 .. n : i = n + 1 - k
    <3>1. n + 1 - k \in 1 .. n
      OBVIOUS
    <3>. QED
      BY <3>1
  <2>2. f[k] = back(i) \o ParaLearn(setup.chain[i])
    BY <2>1
  <2>3. /\ Para(setup.chain[i])
        /\ \A m \in ToSet(setup.chain[i].members) : PreparedOf(m) \in A /\ RunOf(m) \in A
    BY <1>1, ChainIs
  <2>4. Serves(ParaLearn(setup.chain[i]), RoundOps, A, A)
    BY <2>3, ParaLearnServes
  <2>5. Serves(back(i), RoundOps, A, A)
    BY ServesNone, ServesCopy
  <2> HIDE DEF back, f
  <2>6. Serves(back(i) \o ParaLearn(setup.chain[i]), RoundOps, A, A)
    BY <2>4, <2>5, ServesThen
  <2>. QED
    BY <2>2, <2>6
<1>4. f = [i \in 1 .. n |-> f[i]]
  OBVIOUS
<1> HIDE DEF f
<1>5. Serves(FlattenSeq(f), RoundOps, A, A)
  BY <1>3, <1>4, GroupsServePlain
<1>. QED
  BY <1>2, <1>5

LEMMA MembersPrepared ==
  ASSUME NEW p, Para(p), NEW from, NEW A, AtHand \subseteq A, from \in Cortexes \cup {"input"}
  PROVE  Serves(FlattenSeq([j \in DOMAIN p.members |-> Prepare(p.members[j], from)]),
                PrologueOps, A, A \cup {PreparedOf(m) : m \in ToSet(p.members)})
<1>1. PICK n \in Nat : n = Len(p.members)
  BY ParaIs
<1>2. /\ DOMAIN p.members = 1 .. n /\ \A j \in 1 .. n : p.members[j] \in Cortexes
      /\ ToSet(p.members) = {p.members[j] : j \in 1 .. n}
  BY <1>1, ParaIs
<1> DEFINE f == [j \in DOMAIN p.members |-> Prepare(p.members[j], from)]
           X == [j \in 1 .. n |-> {PreparedOf(p.members[j])}]
<1>3. ASSUME NEW j \in 1 .. n PROVE Serves(f[j], PrologueOps, A, A \cup X[j])
  <2>1. KnownOf(p.members[j]) \in A /\ SourceOf(from) \in A
    BY <1>2 DEF AtHand
  <2>2. Serves(Prepare(p.members[j], from), PrologueOps, A, A \cup {PreparedOf(p.members[j])})
    BY <2>1, ServesPrepare
  <2>. QED
    BY <2>2, <1>2
<1>4. f = [j \in 1 .. n |-> f[j]]
  BY <1>2
<1>5. UNION {X[j] : j \in 1 .. n} = {PreparedOf(m) : m \in ToSet(p.members)}
  BY <1>2
<1> HIDE DEF f, X
<1>6. Serves(FlattenSeq(f), PrologueOps, A, A \cup UNION {X[j] : j \in 1 .. n})
  BY <1>3, <1>4, GroupsServe
<1>7. Serves(FlattenSeq(f), PrologueOps, A, A \cup {PreparedOf(m) : m \in ToSet(p.members)})
  BY <1>5, <1>6
<1>. QED
  BY <1>7 DEF f

LEMMA ChainPrepareServes ==
  ASSUME setup \in Setups, NEW from \in Cortexes \cup {"input"}, NEW A, AtHand \subseteq A
  PROVE  Serves(ChainPrepare(from), PrologueOps, A, A \cup {PreparedOf(m) : m \in ChainMembers})
<1>1. PICK n \in Nat : n = Len(setup.chain) /\ DOMAIN setup.chain = 1 .. n
  BY ChainIs
<1> DEFINE of(i) == IF i = 1 THEN from ELSE setup.chain[i - 1].members[1]
           g(i) == FlattenSeq([j \in DOMAIN setup.chain[i].members |->
                                 Prepare(setup.chain[i].members[j], of(i))])
           f == [i \in 1 .. n |-> g(i)]
           X == [i \in 1 .. n |-> {PreparedOf(m) : m \in ToSet(setup.chain[i].members)}]
<1>2. ChainPrepare(from) = FlattenSeq(f) \o Call("fit", "chain")
  BY <1>1 DEF ChainPrepare, ForMembers
<1>3. ASSUME NEW i \in 1 .. n PROVE Serves(f[i], PrologueOps, A, A \cup X[i])
  <2>1. of(i) \in Cortexes \cup {"input"}
    <3>1. i # 1 => i - 1 \in 1 .. n
      OBVIOUS
    <3>. QED
      BY <3>1, <1>1, ChainIs
  <2>2. Para(setup.chain[i])
    BY <1>1, ChainIs
  <2>3. f[i] = g(i) /\ X[i] = {PreparedOf(m) : m \in ToSet(setup.chain[i].members)}
    OBVIOUS
  <2> HIDE DEF of
  <2>4. Serves(g(i), PrologueOps, A, A \cup {PreparedOf(m) : m \in ToSet(setup.chain[i].members)})
    BY <2>1, <2>2, MembersPrepared
  <2> HIDE DEF g, f, X
  <2>. QED
    BY <2>3, <2>4
<1>4. f = [i \in 1 .. n |-> f[i]]
  OBVIOUS
<1>5. UNION {X[i] : i \in 1 .. n} = {PreparedOf(m) : m \in ChainMembers}
  <2>1. \A m : m \in ChainMembers <=> \E i \in 1 .. n : m \in ToSet(setup.chain[i].members)
    <3>1. ChainMembers = UNION {ToSet(setup.chain[i].members) : i \in 1 .. n}
      BY <1>1, ChainIs
    <3>. QED
      BY <3>1
  <2>2. \A i \in 1 .. n : X[i] = {PreparedOf(m) : m \in ToSet(setup.chain[i].members)}
    OBVIOUS
  <2>3. \A x : x \in UNION {X[i] : i \in 1 .. n} <=> \E i \in 1 .. n : x \in X[i]
    OBVIOUS
  <2> HIDE DEF X
  <2>4. ASSUME NEW x
        PROVE  x \in UNION {X[i] : i \in 1 .. n} <=> x \in {PreparedOf(m) : m \in ChainMembers}
    BY <2>1, <2>2, <2>3
  <2>. QED
    BY <2>4, Zenon
<1> HIDE DEF f, X
<1>6. Serves(FlattenSeq(f), PrologueOps, A, A \cup UNION {X[i] : i \in 1 .. n})
  BY <1>3, <1>4, GroupsServe
<1>7. PICK B : B = A \cup {PreparedOf(m) : m \in ChainMembers}
  OBVIOUS
<1>8. Serves(FlattenSeq(f), PrologueOps, A, B)
  BY <1>5, <1>6, <1>7
<1>9. Serves(FlattenSeq(f) \o Call("fit", "chain"), PrologueOps, A, B)
  BY <1>8, ServesFit, ServesThen
<1>. QED
  BY <1>2, <1>7, <1>9

----------------------------------------------------------------------------
(***************************************************************************)
(* The prologue and the rounds of the three commands.                      *)
(***************************************************************************)
\* Two sequences that the same serves.
LEMMA ServesBoth ==
  ASSUME NEW p, NEW q, NEW ops, NEW A, NEW X, NEW Y,
         Serves(p, ops, A, A \cup X), Serves(q, ops, A, A \cup Y)
  PROVE  Serves(p \o q, ops, A, A \cup (X \cup Y))
<1>1. PICK B : B = A \cup X
  OBVIOUS
<1>2. PICK C : C = A \cup (X \cup Y)
  OBVIOUS
<1>3. Serves(q, ops, B, C)
  <2>1. A \subseteq B /\ C \subseteq B \cup (A \cup Y)
    BY <1>1, <1>2
  <2>. QED
    BY <2>1, ServesMore
<1>4. Serves(p, ops, A, B)
  BY <1>1
<1>5. Serves(p \o q, ops, A, C)
  BY <1>3, <1>4, ServesThen
<1>. QED
  BY <1>2, <1>5

LEMMA PrologueServes ==
  ASSUME setup \in Setups
  PROVE  Serves(Prologue, PrologueOps, AtHand, Needed)
<1>1. PICK A : A = AtHand
  OBVIOUS
<1> DEFINE Ready(S) == {PreparedOf(m) : m \in S}
           tail == Last(setup.chain).members[1]
<1>2. ASSUME NEW c \in Cortexes, NEW from \in Cortexes \cup {"input"}
      PROVE  Serves(Prepare(c, from), PrologueOps, A, A \cup Ready({c}))
  <2>1. KnownOf(c) \in A /\ SourceOf(from) \in A
    BY <1>1 DEF AtHand
  <2>2. Serves(Prepare(c, from), PrologueOps, A, A \cup {PreparedOf(c)})
    BY <2>1, ServesPrepare
  <2>. QED
    BY <2>2
<1>3. ASSUME NEW from \in Cortexes \cup {"input"}
      PROVE  Serves(ChainPrepare(from), PrologueOps, A, A \cup Ready(ChainMembers))
  BY <1>1, ChainPrepareServes
<1>4. ASSUME NEW what PROVE Serves(Call("fit", what), PrologueOps, A, A \cup Ready({}))
  <2>1. Serves(Call("fit", what), PrologueOps, A, A)
    BY ServesFit
  <2>2. A \cup Ready({}) = A
    OBVIOUS
  <2>. QED
    BY <2>1, <2>2
<1>5. tail \in Cortexes
  BY ChainIs
<1>6. ASSUME NEW p, NEW q, NEW S, NEW T,
             Serves(p, PrologueOps, A, A \cup Ready(S)), Serves(q, PrologueOps, A, A \cup Ready(T))
      PROVE  Serves(p \o q, PrologueOps, A, A \cup Ready(S \cup T))
  <2>1. Ready(S \cup T) = Ready(S) \cup Ready(T)
    OBVIOUS
  <2> HIDE DEF Ready
  <2>2. Serves(p \o q, PrologueOps, A, A \cup (Ready(S) \cup Ready(T)))
    BY <1>6, ServesBoth
  <2>. QED
    BY <2>1, <2>2
<1>7. Needed = Ready(Used)
  BY DEF Needed
<1> HIDE DEF Ready, tail
<1>8. SUFFICES \E S : Used \subseteq S /\ Serves(Prologue, PrologueOps, A, A \cup Ready(S))
  <2>1. PICK S : Used \subseteq S /\ Serves(Prologue, PrologueOps, A, A \cup Ready(S))
    BY <1>8
  <2>2. Ready(Used) \subseteq A \cup (A \cup Ready(S))
    BY <2>1 DEF Ready
  <2>3. Serves(Prologue, PrologueOps, A, Ready(Used))
    BY <2>1, <2>2, ServesMore
  <2>. QED
    BY <2>3, <1>1, <1>7
<1>9. CASE setup.mode = "learnfunc"
  <2>1. Prologue = ChainPrepare("input")
    BY <1>9 DEF Prologue
  <2>2. Used = ChainMembers
    BY <1>9 DEF Used
  <2>. QED
    BY <2>1, <2>2, <1>3
<1>10. CASE setup.mode = "learnhans"
  <2>1. "dis" \in Cortexes
    BY <1>10, SetupIs
  <2>2. PICK t : t = IF HasCnd THEN Prepare("cnd", "input") ELSE <<>>
    OBVIOUS
  <2>3. PICK T : T = IF HasCnd THEN {"cnd"} ELSE {}
    OBVIOUS
  <2>4. Serves(t, PrologueOps, A, A \cup Ready(T))
    <3>1. CASE HasCnd
      <4>1. "cnd" \in Cortexes
        BY <3>1 DEF HasCnd, Cortexes
      <4>. QED
        BY <4>1, <3>1, <2>2, <2>3, <1>2
    <3>2. CASE ~HasCnd
      <4>1. A \cup Ready({}) = A
        BY DEF Ready
      <4>2. Serves(<<>>, PrologueOps, A, A)
        BY ServesNone
      <4>3. t = <<>> /\ T = {}
        BY <3>2, <2>2, <2>3
      <4>. QED
        BY <4>1, <4>2, <4>3
    <3>. QED
      BY <3>1, <3>2
  <2>5. Prologue = ((ChainPrepare("input") \o Prepare("dis", tail)) \o t) \o Call("fit", "hans")
    BY <1>10, <2>2 DEF Prologue, tail
  <2>6. Serves(ChainPrepare("input") \o Prepare("dis", tail), PrologueOps, A,
               A \cup Ready(ChainMembers \cup {"dis"}))
    BY <1>2, <1>3, <1>5, <1>6, <2>1
  <2>7. Serves((ChainPrepare("input") \o Prepare("dis", tail)) \o t, PrologueOps, A,
               A \cup Ready((ChainMembers \cup {"dis"}) \cup T))
    BY <2>4, <2>6, <1>6
  <2>8. Serves(Prologue, PrologueOps, A,
               A \cup Ready(((ChainMembers \cup {"dis"}) \cup T) \cup {}))
    BY <2>5, <2>7, <1>4, <1>6
  <2>9. Used \subseteq ((ChainMembers \cup {"dis"}) \cup T) \cup {}
    BY <1>10, <2>3 DEF Used
  <2>. QED
    BY <2>8, <2>9
<1>11. CASE setup.mode = "learn"
  <2>1. "dis" \in Cortexes /\ "enc" \in Cortexes /\ "inf" \in Cortexes /\ "cnd" \in Cortexes
    BY <1>11, SetupIs
  <2> DEFINE p1 == Prepare("enc", "input") \o Prepare("inf", "input")
             p2 == p1 \o ChainPrepare("enc")
             p3 == p2 \o Prepare("dis", tail)
             p4 == p3 \o Prepare("cnd", "inf")
             S1 == {"enc"} \cup {"inf"}
             S2 == S1 \cup ChainMembers
             S3 == S2 \cup {"dis"}
             S4 == S3 \cup {"cnd"}
  <2>2. Prologue = p4 \o Call("fit", "learn")
    BY <1>11 DEF Prologue, tail
  <2>3. Serves(p1, PrologueOps, A, A \cup Ready(S1))
    BY <2>1, <1>2, <1>6
  <2>4. Serves(p2, PrologueOps, A, A \cup Ready(S2))
    <3> HIDE DEF p1, S1
    <3>. QED
      BY <2>1, <2>3, <1>3, <1>6
  <2>5. Serves(p3, PrologueOps, A, A \cup Ready(S3))
    <3> HIDE DEF p2, S2
    <3>. QED
      BY <2>1, <2>4, <1>2, <1>5, <1>6
  <2>6. Serves(p4, PrologueOps, A, A \cup Ready(S4))
    <3> HIDE DEF p3, S3
    <3>. QED
      BY <2>1, <2>5, <1>2, <1>6
  <2>7. Serves(Prologue, PrologueOps, A, A \cup Ready(S4 \cup {}))
    <3> HIDE DEF p4, S4
    <3>. QED
      BY <2>2, <2>6, <1>4, <1>6
  <2>8. Used \subseteq S4 \cup {}
    BY <1>11 DEF Used
  <2>. QED
    BY <2>7, <2>8
<1>. QED
  BY <1>9, <1>10, <1>11, SetupIs

\* The calls that need and give nothing.
LEMMA ServesPlainly ==
  ASSUME NEW A
  PROVE  /\ \A what, p : Serves(Pick(what, p), RoundOps, A, A)
         /\ \A p, q : Serves(Copy(p, q), RoundOps, A, A)
         /\ \A p, goal : Serves(Target(p, goal), RoundOps, A, A)
         /\ \A p, xa, n, q, ya : Serves(Splice(p, xa, n, q, ya), RoundOps, A, A)
         /\ \A op \in {"pushbuf", "popbuf"} : \A c : Serves(Call(op, c), RoundOps, A, A)
<1>1. {"pushbuf", "popbuf"} \subseteq RoundOps \ {"synth", "learn"}
  BY DEF RoundOps
<1>. QED
  BY <1>1, ServesPick, ServesCopy, ServesTarget, ServesSplice, ServesCall

\* A synth of what has been synthesised before.
LEMMA ServesAgain ==
  ASSUME NEW c, NEW A, PreparedOf(c) \in A, RunOf(c) \in A
  PROVE  Serves(Call("synth", c), RoundOps, A, A)
<1>1. A \cup {RunOf(c)} = A
  OBVIOUS
<1>2. Serves(Call("synth", c), RoundOps, A, A \cup {RunOf(c)})
  BY ServesSynth
<1>. QED
  BY <1>1, <1>2

LEMMA JudgeFakeServes ==
  ASSUME setup \in Setups, NEW A, PreparedOf("dis") \in A,
         \A m \in ChainMembers : PreparedOf(m) \in A /\ RunOf(m) \in A
  PROVE  Serves(JudgeFake, RoundOps, A, A \cup {RunOf("dis")})
<1> DEFINE p1 == Copy(Kinp("dis"), Ktmp)
           p2 == p1 \o Call("synth", "dis")
           p3 == p2 \o Call("pushbuf", "dis")
           p4 == p3 \o Target(Kout("dis"), "real")
           p5 == p4 \o Learn("dis", "propback")
           p6 == p5 \o Splice(Kinp("dis"), 0, GenOc, Kout(Tail1), 0)
           p7 == p6 \o ChainLearn
           B1 == A \cup {RunOf("dis")}
<1>1. PreparedOf("dis") \in B1 /\ RunOf("dis") \in B1
      /\ \A m \in ChainMembers : PreparedOf(m) \in B1 /\ RunOf(m) \in B1
  OBVIOUS
<1> HIDE DEF B1
<1>2. Serves(p1, RoundOps, A, A)
  BY ServesPlainly
<1>3. Serves(p2, RoundOps, A, B1)
  <2>1. Serves(Call("synth", "dis"), RoundOps, A, B1)
    BY ServesSynth DEF B1
  <2> HIDE DEF p1
  <2>. QED
    BY <1>2, <2>1, ServesThen
<1>4. Serves(p3, RoundOps, A, B1)
  <2>1. Serves(Call("pushbuf", "dis"), RoundOps, B1, B1)
    BY ServesPlainly
  <2> HIDE DEF p2
  <2>. QED
    BY <1>3, <2>1, ServesThen
<1>5. Serves(p4, RoundOps, A, B1)
  <2>1. Serves(Target(Kout("dis"), "real"), RoundOps, B1, B1)
    BY ServesPlainly
  <2> HIDE DEF p3
  <2>. QED
    BY <1>4, <2>1, ServesThen
<1>6. Serves(p5, RoundOps, A, B1)
  <2>1. Serves(Learn("dis", "propback"), RoundOps, B1, B1)
    BY <1>1, ServesLearn
  <2> HIDE DEF p4
  <2>. QED
    BY <1>5, <2>1, ServesThen
<1>7. Serves(p6, RoundOps, A, B1)
  <2>1. Serves(Splice(Kinp("dis"), 0, GenOc, Kout(Tail1), 0), RoundOps, B1, B1)
    BY ServesPlainly
  <2> HIDE DEF p5
  <2>. QED
    BY <1>6, <2>1, ServesThen
<1>8. Serves(p7, RoundOps, A, B1)
  <2>1. Serves(ChainLearn, RoundOps, B1, B1)
    BY <1>1, ChainLearnServes
  <2> HIDE DEF p6
  <2>. QED
    BY <1>7, <2>1, ServesThen
<1>9. JudgeFake = p7
  BY DEF JudgeFake
<1> HIDE DEF p7
<1>. QED
  BY <1>8, <1>9 DEF B1

LEMMA JudgeRealServes ==
  ASSUME NEW A, PreparedOf("dis") \in A, RunOf("dis") \in A
  PROVE  Serves(JudgeReal, RoundOps, A, A)
<1> DEFINE p1 == Call("popbuf", "dis")
           p2 == p1 \o Target(Kout("dis"), "fake")
           p3 == p2 \o Learn("dis", "accumulate")
           p4 == p3 \o Copy(Ktmp, Kinp("dis"))
           p5 == p4 \o Splice(Ktgt, 0, GenOc, Kinp("dis"), 0)
           p6 == p5 \o Call("synth", "dis")
           p7 == p6 \o Target(Kout("dis"), "real")
           p8 == p7 \o Learn("dis", "learn")
<1>1. Serves(p1, RoundOps, A, A)
  BY ServesPlainly
<1>2. Serves(p2, RoundOps, A, A)
  <2>1. Serves(Target(Kout("dis"), "fake"), RoundOps, A, A)
    BY ServesPlainly
  <2> HIDE DEF p1
  <2>. QED
    BY <1>1, <2>1, ServesThen
<1>3. Serves(p3, RoundOps, A, A)
  <2>1. Serves(Learn("dis", "accumulate"), RoundOps, A, A)
    BY ServesLearn
  <2> HIDE DEF p2
  <2>. QED
    BY <1>2, <2>1, ServesThen
<1>4. Serves(p4, RoundOps, A, A)
  <2>1. Serves(Copy(Ktmp, Kinp("dis")), RoundOps, A, A)
    BY ServesPlainly
  <2> HIDE DEF p3
  <2>. QED
    BY <1>3, <2>1, ServesThen
<1>5. Serves(p5, RoundOps, A, A)
  <2>1. Serves(Splice(Ktgt, 0, GenOc, Kinp("dis"), 0), RoundOps, A, A)
    BY ServesPlainly
  <2> HIDE DEF p4
  <2>. QED
    BY <1>4, <2>1, ServesThen
<1>6. Serves(p6, RoundOps, A, A)
  <2>1. Serves(Call("synth", "dis"), RoundOps, A, A)
    BY ServesAgain
  <2> HIDE DEF p5
  <2>. QED
    BY <1>5, <2>1, ServesThen
<1>7. Serves(p7, RoundOps, A, A)
  <2>1. Serves(Target(Kout("dis"), "real"), RoundOps, A, A)
    BY ServesPlainly
  <2> HIDE DEF p6
  <2>. QED
    BY <1>6, <2>1, ServesThen
<1>8. Serves(p8, RoundOps, A, A)
  <2>1. Serves(Learn("dis", "learn"), RoundOps, A, A)
    BY ServesLearn
  <2> HIDE DEF p7
  <2>. QED
    BY <1>7, <2>1, ServesThen
<1>9. JudgeReal = p8
  BY DEF JudgeReal
<1> HIDE DEF p8
<1>. QED
  BY <1>8, <1>9

\* The rounds leave what they need.
LEMMA LearnfuncServes ==
  ASSUME setup \in Setups, setup.mode = "learnfunc", NEW A, A = Needed
  PROVE  Serves(LearnfuncRound, RoundOps, A, Needed)
<1> DEFINE p1 == Pick("src", Kinp(Head1))
           p2 == p1 \o Pick("tgt", Ktgt)
           p3 == p2 \o ChainSynth
           p4 == p3 \o ChainTarget("tgt")
           p5 == p4 \o ChainLearn
           B1 == A \cup {RunOf(m) : m \in ChainMembers}
<1>1. \A m \in ChainMembers : PreparedOf(m) \in A
  BY DEF Needed, Used
<1>2. \A m \in ChainMembers : PreparedOf(m) \in B1 /\ RunOf(m) \in B1
  BY <1>1
<1>3. Needed \subseteq A \cup B1
  OBVIOUS
<1> HIDE DEF B1
<1>4. Serves(p1, RoundOps, A, A)
  BY ServesPlainly
<1>5. Serves(p2, RoundOps, A, A)
  <2>1. Serves(Pick("tgt", Ktgt), RoundOps, A, A)
    BY ServesPlainly
  <2> HIDE DEF p1
  <2>. QED
    BY <1>4, <2>1, ServesThen
<1>6. Serves(p3, RoundOps, A, B1)
  <2>1. Serves(ChainSynth, RoundOps, A, B1)
    BY <1>1, ChainSynthServes DEF B1
  <2> HIDE DEF p2
  <2>. QED
    BY <1>5, <2>1, ServesThen
<1>7. Serves(p4, RoundOps, A, B1)
  <2>1. Serves(ChainTarget("tgt"), RoundOps, B1, B1)
    BY ChainTargetServes
  <2> HIDE DEF p3
  <2>. QED
    BY <1>6, <2>1, ServesThen
<1>8. Serves(p5, RoundOps, A, B1)
  <2>1. Serves(ChainLearn, RoundOps, B1, B1)
    BY <1>2, ChainLearnServes
  <2> HIDE DEF p4
  <2>. QED
    BY <1>7, <2>1, ServesThen
<1>9. LearnfuncRound = p5
  BY DEF LearnfuncRound
<1> HIDE DEF p5
<1>. QED
  BY <1>8, <1>9, <1>3, ServesMore

LEMMA HansConditionServes ==
  ASSUME NEW A, HasCnd => PreparedOf("cnd") \in A
  PROVE  Serves((IF HasCnd
           THEN Copy(Kinp(Head1), Kinp("cnd")) \o Call("synth", "cnd")
                  \o Splice(Kout("cnd"), 0, PipeIc("dis") - GenOc, Kinp("dis"), GenOc)
           ELSE <<>>),
                RoundOps, A, A)
<1>1. CASE HasCnd
  <2>1. Serves(Copy(Kinp(Head1), Kinp("cnd")), RoundOps, A, A)
    BY ServesCopy
  <2>2. PICK B : B = A \cup {RunOf("cnd")}
    OBVIOUS
  <2>3. Serves(Call("synth", "cnd"), RoundOps, A, B)
    BY <1>1, <2>2, ServesSynth
  <2>4. PICK t : t = Splice(Kout("cnd"), 0, PipeIc("dis") - GenOc, Kinp("dis"), GenOc)
    OBVIOUS
  <2>5. Serves(t, RoundOps, B, B)
    BY <2>4, ServesSplice
  <2>6. Serves(Copy(Kinp(Head1), Kinp("cnd")) \o Call("synth", "cnd"), RoundOps, A, B)
    BY <2>1, <2>3, ServesThen
  <2>7. Serves((Copy(Kinp(Head1), Kinp("cnd")) \o Call("synth", "cnd")) \o t, RoundOps, A, B)
    BY <2>5, <2>6, ServesThen
  <2>8. A \subseteq A \cup B
    OBVIOUS
  <2>9. Serves((Copy(Kinp(Head1), Kinp("cnd")) \o Call("synth", "cnd")) \o t, RoundOps, A, A)
    BY <2>7, <2>8, ServesMore
  <2>. QED
    BY <1>1, <2>4, <2>9
<1>2. CASE ~HasCnd
  BY <1>2, ServesNone
<1>. QED
  BY <1>1, <1>2

LEMMA LearnhansServes ==
  ASSUME setup \in Setups, setup.mode = "learnhans", NEW A, A = Needed
  PROVE  Serves(LearnhansRound, RoundOps, A, Needed)
<1> DEFINE p1 == Pick("src", Kinp(Head1))
           p2 == p1 \o Pick("tgt", Ktgt)
           p3 == p2 \o (IF HasCnd
              THEN Copy(Kinp(Head1), Kinp("cnd")) \o Call("synth", "cnd")
                     \o Splice(Kout("cnd"), 0, PipeIc("dis") - GenOc, Kinp("dis"), GenOc)
              ELSE <<>>)
           p4 == p3 \o ChainSynth
           p5 == p4 \o Splice(Kout(Tail1), 0, GenOc, Kinp("dis"), 0)
           p6 == p5 \o JudgeFake
           p7 == p6 \o JudgeReal
           B1 == A \cup {RunOf(m) : m \in ChainMembers}
           B2 == B1 \cup {RunOf("dis")}
<1>1. (\A m \in ChainMembers : PreparedOf(m) \in A) /\ (HasCnd => PreparedOf("cnd") \in A)
      /\ PreparedOf("dis") \in A
  BY DEF Needed, Used
<1>2. (\A m \in ChainMembers : PreparedOf(m) \in B1 /\ RunOf(m) \in B1) /\ PreparedOf("dis") \in B1
  BY <1>1
<1>3. PreparedOf("dis") \in B2 /\ RunOf("dis") \in B2
  BY <1>1
<1>4. Needed \subseteq A \cup B2
  OBVIOUS
<1> HIDE DEF B1, B2
<1>5. Serves(p1, RoundOps, A, A)
  BY ServesPlainly
<1>6. Serves(p2, RoundOps, A, A)
  <2>1. Serves(Pick("tgt", Ktgt), RoundOps, A, A)
    BY ServesPlainly
  <2> HIDE DEF p1
  <2>. QED
    BY <1>5, <2>1, ServesThen
<1>7. Serves(p3, RoundOps, A, A)
  <2>1. Serves((IF HasCnd
              THEN Copy(Kinp(Head1), Kinp("cnd")) \o Call("synth", "cnd")
                     \o Splice(Kout("cnd"), 0, PipeIc("dis") - GenOc, Kinp("dis"), GenOc)
              ELSE <<>>), RoundOps, A, A)
    BY <1>1, HansConditionServes
  <2> HIDE DEF p2
  <2>. QED
    BY <1>6, <2>1, ServesThen
<1>8. Serves(p4, RoundOps, A, B1)
  <2>1. Serves(ChainSynth, RoundOps, A, B1)
    BY <1>1, ChainSynthServes DEF B1
  <2> HIDE DEF p3
  <2>. QED
    BY <1>7, <2>1, ServesThen
<1>9. Serves(p5, RoundOps, A, B1)
  <2>1. Serves(Splice(Kout(Tail1), 0, GenOc, Kinp("dis"), 0), RoundOps, B1, B1)
    BY ServesPlainly
  <2> HIDE DEF p4
  <2>. QED
    BY <1>8, <2>1, ServesThen
<1>10. Serves(p6, RoundOps, A, B2)
  <2>1. Serves(JudgeFake, RoundOps, B1, B2)
    BY <1>2, JudgeFakeServes DEF B2
  <2> HIDE DEF p5
  <2>. QED
    BY <1>9, <2>1, ServesThen
<1>11. Serves(p7, RoundOps, A, B2)
  <2>1. Serves(JudgeReal, RoundOps, B2, B2)
    BY <1>3, JudgeRealServes
  <2> HIDE DEF p6
  <2>. QED
    BY <1>10, <2>1, ServesThen
<1>12. LearnhansRound = p7
  BY DEF LearnhansRound
<1> HIDE DEF p7
<1>. QED
  BY <1>11, <1>12, <1>4, ServesMore

LEMMA LearnServes ==
  ASSUME setup \in Setups, setup.mode = "learn", NEW A, A = Needed
  PROVE  Serves(LearnRound, RoundOps, A, Needed)
<1> DEFINE p1 == Pick("src", Kinp("enc"))
           p2 == p1 \o Pick("tgt", Ktgt)
           p3 == p2 \o Call("synth", "enc")
           p4 == p3 \o Copy(Kinp("enc"), Kinp("inf"))
           p5 == p4 \o Call("synth", "inf")
           p6 == p5 \o Copy(Kout("inf"), Kinp("cnd"))
           p7 == p6 \o Call("synth", "cnd")
           p8 == p7 \o Splice(Kout("enc"), 0, PipeOc("enc"), Kinp(Head1), 0)
           p9 == p8 \o Splice(Kout("inf"), 0, PipeOc("inf"), Kinp(Head1), PipeOc("enc"))
           p10 == p9 \o ChainSynth
           p11 == p10 \o Splice(Kout(Tail1), 0, GenOc, Kinp("dis"), 0)
           p12 == p11 \o Splice(Kout("cnd"), 0, PipeOc("cnd"), Kinp("dis"), GenOc)
           p13 == p12 \o JudgeFake
           p14 == p13 \o Splice(Kinp(Head1), 0, PipeOc("enc"), Kout("enc"), 0)
           p15 == p14 \o Learn("enc", "learn")
           p16 == p15 \o JudgeReal
           B1 == A \cup {RunOf("enc")}
           B2 == B1 \cup {RunOf("inf")}
           B3 == B2 \cup {RunOf("cnd")}
           B4 == B3 \cup {RunOf(m) : m \in ChainMembers}
           B5 == B4 \cup {RunOf("dis")}
<1>1. (\A m \in ChainMembers : PreparedOf(m) \in A)
      /\ \A c \in {"dis", "cnd", "enc", "inf"} : PreparedOf(c) \in A
  BY DEF Needed, Used
<1>2. PreparedOf("inf") \in B1
  BY <1>1
<1>3. PreparedOf("cnd") \in B2
  BY <1>1
<1>4. \A m \in ChainMembers : PreparedOf(m) \in B3
  BY <1>1
<1>5. (\A m \in ChainMembers : PreparedOf(m) \in B4 /\ RunOf(m) \in B4) /\ PreparedOf("dis") \in B4
  BY <1>1
<1>6. \A c \in {"dis", "enc"} : PreparedOf(c) \in B5 /\ RunOf(c) \in B5
  BY <1>1
<1>7. Needed \subseteq A \cup B5
  OBVIOUS
<1> HIDE DEF B1, B2, B3, B4, B5
<1>8. Serves(p1, RoundOps, A, A)
  BY ServesPlainly
<1>9. Serves(p2, RoundOps, A, A)
  <2>1. Serves(Pick("tgt", Ktgt), RoundOps, A, A)
    BY ServesPlainly
  <2> HIDE DEF p1
  <2>. QED
    BY <1>8, <2>1, ServesThen
<1>10. Serves(p3, RoundOps, A, B1)
  <2>1. Serves(Call("synth", "enc"), RoundOps, A, B1)
    BY <1>1, ServesSynth DEF B1
  <2> HIDE DEF p2
  <2>. QED
    BY <1>9, <2>1, ServesThen
<1>11. Serves(p4, RoundOps, A, B1)
  <2>1. Serves(Copy(Kinp("enc"), Kinp("inf")), RoundOps, B1, B1)
    BY ServesPlainly
  <2> HIDE DEF p3
  <2>. QED
    BY <1>10, <2>1, ServesThen
<1>12. Serves(p5, RoundOps, A, B2)
  <2>1. Serves(Call("synth", "inf"), RoundOps, B1, B2)
    BY <1>2, ServesSynth DEF B2
  <2> HIDE DEF p4
  <2>. QED
    BY <1>11, <2>1, ServesThen
<1>13. Serves(p6, RoundOps, A, B2)
  <2>1. Serves(Copy(Kout("inf"), Kinp("cnd")), RoundOps, B2, B2)
    BY ServesPlainly
  <2> HIDE DEF p5
  <2>. QED
    BY <1>12, <2>1, ServesThen
<1>14. Serves(p7, RoundOps, A, B3)
  <2>1. Serves(Call("synth", "cnd"), RoundOps, B2, B3)
    BY <1>3, ServesSynth DEF B3
  <2> HIDE DEF p6
  <2>. QED
    BY <1>13, <2>1, ServesThen
<1>15. Serves(p8, RoundOps, A, B3)
  <2>1. Serves(Splice(Kout("enc"), 0, PipeOc("enc"), Kinp(Head1), 0), RoundOps, B3, B3)
    BY ServesPlainly
  <2> HIDE DEF p7
  <2>. QED
    BY <1>14, <2>1, ServesThen
<1>16. Serves(p9, RoundOps, A, B3)
  <2>1. Serves(Splice(Kout("inf"), 0, PipeOc("inf"), Kinp(Head1), PipeOc("enc")), RoundOps, B3, B3)
    BY ServesPlainly
  <2> HIDE DEF p8
  <2>. QED
    BY <1>15, <2>1, ServesThen
<1>17. Serves(p10, RoundOps, A, B4)
  <2>1. Serves(ChainSynth, RoundOps, B3, B4)
    BY <1>4, ChainSynthServes DEF B4
  <2> HIDE DEF p9
  <2>. QED
    BY <1>16, <2>1, ServesThen
<1>18. Serves(p11, RoundOps, A, B4)
  <2>1. Serves(Splice(Kout(Tail1), 0, GenOc, Kinp("dis"), 0), RoundOps, B4, B4)
    BY ServesPlainly
  <2> HIDE DEF p10
  <2>. QED
    BY <1>17, <2>1, ServesThen
<1>19. Serves(p12, RoundOps, A, B4)
  <2>1. Serves(Splice(Kout("cnd"), 0, PipeOc("cnd"), Kinp("dis"), GenOc), RoundOps, B4, B4)
    BY ServesPlainly
  <2> HIDE DEF p11
  <2>. QED
    BY <1>18, <2>1, ServesThen
<1>20. Serves(p13, RoundOps, A, B5)
  <2>1. Serves(JudgeFake, RoundOps, B4, B5)
    BY <1>5, JudgeFakeServes DEF B5
  <2> HIDE DEF p12
  <2>. QED
    BY <1>19, <2>1, ServesThen
<1>21. Serves(p14, RoundOps, A, B5)
  <2>1. Serves(Splice(Kinp(Head1), 0, PipeOc("enc"), Kout("enc"), 0), RoundOps, B5, B5)
    BY ServesPlainly
  <2> HIDE DEF p13
  <2>. QED
    BY <1>20, <2>1, ServesThen
<1>22. Serves(p15, RoundOps, A, B5)
  <2>1. Serves(Learn("enc", "learn"), RoundOps, B5, B5)
    BY <1>6, ServesLearn
  <2> HIDE DEF p14
  <2>. QED
    BY <1>21, <2>1, ServesThen
<1>23. Serves(p16, RoundOps, A, B5)
  <2>1. Serves(JudgeReal, RoundOps, B5, B5)
    BY <1>6, JudgeRealServes
  <2> HIDE DEF p15
  <2>. QED
    BY <1>22, <2>1, ServesThen
<1>24. LearnRound = p16
  BY DEF LearnRound
<1> HIDE DEF p16
<1>. QED
  BY <1>23, <1>24, <1>7, ServesMore

LEMMA RoundServes ==
  ASSUME setup \in Setups
  PROVE  Serves(Round, RoundOps, Needed, Needed)
BY SetupIs, LearnfuncServes, LearnhansServes, LearnServes DEF Round

-----------------------------------------------------------------------------
(***************************************************************************)
(* What most steps leave alone.                                            *)
(***************************************************************************)
LastingFields == {"iw", "ih", "ic", "ow", "oh", "oc", "kbufn", "dwn", "kout"}

\* A step that changes at most buffers, their stack, gradients and rounds.
Kept ==
  /\ setup' = setup /\ DOMAIN ctx' = DOMAIN ctx
  /\ \A c \in DOMAIN ctx : /\ DOMAIN ctx'[c] = DOMAIN ctx[c]
                           /\ \A f \in LastingFields : ctx'[c][f] = ctx[c][f]

LEMMA KeptIs ==
  ASSUME CortexesOK, Kept
  PROVE  /\ setup' = setup /\ Cortexes' = Cortexes
         /\ \A c \in Cortexes :
              /\ Depth(c)' = Depth(c)
              /\ ctx'[c].iw = ctx[c].iw /\ ctx'[c].ih = ctx[c].ih /\ ctx'[c].ic = ctx[c].ic
              /\ ctx'[c].ow = ctx[c].ow /\ ctx'[c].oh = ctx[c].oh /\ ctx'[c].oc = ctx[c].oc
              /\ ctx'[c].kbufn = ctx[c].kbufn /\ ctx'[c].dwn = ctx[c].dwn
              /\ ctx'[c].kout = ctx[c].kout
BY DEF Kept, LastingFields, CortexesOK, Cortexes, Depth

LEMMA KeptPrepared ==
  ASSUME CortexesOK, Kept, NEW c \in Cortexes
  PROVE  /\ \A s : PreparedAs(c, s)' <=> PreparedAs(c, s)
         /\ Prepared(c)' <=> Prepared(c)
<1>1. ASSUME NEW s PROVE PreparedAs(c, s)' <=> PreparedAs(c, s)
  BY KeptIs DEF PreparedAs
<1>. QED
  BY <1>1 DEF Prepared

LEMMA KeptHave ==
  ASSUME CortexesOK, Kept
  PROVE  Have' = Have /\ Needed' = Needed
<1>1. Needed' = Needed
  BY KeptIs DEF Needed, Used, ChainMembers, HasCnd, Cortexes
<1>2. {d \in Cortexes : Prepared(d)}' = {d \in Cortexes : Prepared(d)}
  BY KeptIs, KeptPrepared
<1>3. {d \in Cortexes : ctx[d].kout >= 0}' = {d \in Cortexes : ctx[d].kout >= 0}
  BY KeptIs
<1>4. AtHand' = AtHand
  BY KeptIs DEF AtHand
<1>. QED
  BY <1>1, <1>2, <1>3, <1>4 DEF Have

LEMMA KeptOK ==
  ASSUME TrainingInv, Kept
  PROVE  CortexesOK' /\ RunsOK'
<1>0. CortexesOK
  BY DEF TrainingInv
<1>1. CortexesOK'
  <2>1. DOMAIN ctx' = Cortexes' /\ setup' \in Setups
    BY <1>0, KeptIs DEF Kept, CortexesOK
  <2>2. ASSUME NEW c \in Cortexes'
        PROVE  /\ DOMAIN ctx'[c] = CortexFields
               /\ ctx'[c].iw \in Nat /\ ctx'[c].ih \in Nat
               /\ ctx'[c].ow \in Nat /\ ctx'[c].oh \in Nat
               /\ ctx'[c].ic = PipeIc(c)' /\ ctx'[c].oc = PipeOc(c)'
               /\ ctx'[c].kout \in Int
    <3>1. c \in Cortexes /\ setup' = setup
      BY <1>0, KeptIs
    <3>2. PipeIc(c)' = PipeIc(c) /\ PipeOc(c)' = PipeOc(c)
      BY <3>1 DEF PipeIc, PipeOc
    <3>3. DOMAIN ctx'[c] = CortexFields
      BY <1>0, <3>1 DEF Kept, CortexesOK
    <3>. QED
      BY <1>0, <3>1, <3>2, <3>3, KeptIs DEF CortexesOK
  <2>. QED
    BY <2>1, <2>2 DEF CortexesOK
<1>2. RunsOK'
  BY <1>0, KeptIs DEF TrainingInv, RunsOK, Straight, OutSize
<1>. QED
  BY <1>1, <1>2

Passing == CortexFields \ LastingFields

Alike(q, r) == DOMAIN q = CortexFields /\ \A g \in LastingFields : q[g] = r[g]

LEMMA PassingKept ==
  ASSUME NEW r, DOMAIN r = CortexFields, NEW f \in Passing, NEW v
  PROVE  Alike([r EXCEPT ![f] = v], r)
<1>1. PICK q : q = [r EXCEPT ![f] = v]
  OBVIOUS
<1>2. DOMAIN q = CortexFields
  BY <1>1
<1>3. \A g \in CortexFields : q[g] = IF g = f THEN v ELSE r[g]
  BY <1>1
<1>4. \A g \in LastingFields : f # g /\ g \in CortexFields
  BY DEF Passing, LastingFields, CortexFields
<1>5. Alike(q, r)
  BY <1>2, <1>3, <1>4 DEF Alike
<1>. QED
  BY <1>1, <1>5

LEMMA AlikeKept ==
  ASSUME CortexesOK, setup' = setup, DOMAIN ctx' = DOMAIN ctx,
         \A d \in Cortexes : Alike(ctx'[d], ctx[d])
  PROVE  Kept
BY DEF Kept, CortexesOK, Alike

LEMMA KbufKept ==
  ASSUME CortexesOK, setup' = setup, NEW c \in Cortexes, NEW v,
         ctx' = [ctx EXCEPT ![c].kbuf = v]
  PROVE  Kept
<1>1. DOMAIN ctx' = DOMAIN ctx
  OBVIOUS
<1>2. ASSUME NEW d \in Cortexes
      PROVE  ctx'[d] = IF d = c THEN [ctx[d] EXCEPT !["kbuf"] = v] ELSE ctx[d]
  BY DEF CortexesOK
<1>3. "kbuf" \in Passing /\ \A d \in Cortexes : DOMAIN ctx[d] = CortexFields
  BY DEF Passing, CortexFields, LastingFields, CortexesOK
<1>4. \A d \in Cortexes : Alike(ctx'[d], ctx[d])
  <2>1. ASSUME NEW d \in Cortexes PROVE Alike([ctx[d] EXCEPT !["kbuf"] = v], ctx[d])
    BY <1>3, PassingKept
  <2>2. ASSUME NEW d \in Cortexes PROVE Alike(ctx[d], ctx[d])
    BY <1>3 DEF Alike
  <2>. QED
    BY <2>1, <2>2, <1>2
<1>. QED
  BY <1>1, <1>4, AlikeKept

LEMMA PutKept ==
  ASSUME CortexesOK, setup' = setup, NEW p, NEW chan, Put(p, chan)
  PROVE  Kept
<1>1. CASE p[1] \notin DOMAIN ctx
  BY <1>1, Zenon DEF Put, Kept
<1>2. CASE p[1] \in DOMAIN ctx
  <2>1. p[1] \in Cortexes
    BY <1>2 DEF CortexesOK
  <2>2. PICK v : ctx' = [ctx EXCEPT ![p[1]].kbuf = v]
    BY <1>2 DEF Put
  <2>. QED
    BY <2>1, <2>2, KbufKept
<1>. QED
  BY <1>1, <1>2

LEMMA ReturnOK ==
  ASSUME TrainingInv, todo # <<>>, todo' = Tail(todo), Cortexes' = Cortexes,
         Needed' = Needed, Have \cup Gives(Head(todo)) \subseteq Have',
         \A c \in Cortexes : ctx[c].kout < 0 => ctx'[c].kout < 0 \/ Head(todo).op = "synth"
  PROVE  CallsOK'
<1>1. CASE Serves(todo, PrologueOps, Have, Needed) /\ \A c \in Cortexes : ctx[c].kout < 0
  <2>1. Serves(Tail(todo), PrologueOps, Have', Needed) /\ Head(todo).op \in PrologueOps
    BY <1>1, ServesRest
  <2>2. \A c \in Cortexes : ctx'[c].kout < 0
    BY <1>1, <2>1 DEF PrologueOps
  <2>. QED
    BY <2>1, <2>2 DEF CallsOK
<1>2. CASE Serves(todo, RoundOps, Have, Needed)
  <2>1. Serves(Tail(todo), RoundOps, Have', Needed)
    BY <1>2, ServesRest
  <2>. QED
    BY <2>1 DEF CallsOK
<1>. QED
  BY <1>1, <1>2 DEF TrainingInv, CallsOK

\* A verdict "run" says nothing of the pipes.
LEMMA RunOK ==
  ASSUME verdict' = "run"
  PROVE  VerdictOK'
BY DEF VerdictOK, PreparedPipesRun, RunPipesLearn

LEMMA PlainCallInv ==
  ASSUME TrainingInv, Kept, NEW op \in (RoundOps \ {"synth", "learn"}) \cup {"fit"},
         Calling(op), Return, walk' = walk, verdict' = verdict
  PROVE  TrainingInv'
<1>1. CortexesOK
  BY DEF TrainingInv
<1>2. Gives(Head(todo)) = {}
  BY DEF Calling, Gives, RoundOps
<1>3. CallsOK'
  <2>1. Have \cup Gives(Head(todo)) \subseteq Have' /\ Needed' = Needed
    BY <1>1, <1>2, KeptHave
  <2>2. Cortexes' = Cortexes /\ \A c \in Cortexes : ctx'[c].kout = ctx[c].kout
    BY <1>1, KeptIs
  <2>3. todo # <<>> /\ todo' = Tail(todo)
    BY DEF Calling, Return
  <2>. QED
    BY <2>1, <2>2, <2>3, ReturnOK
<1>4. WalkOK'
  BY DEF Calling, WalkOK, Idle
<1>5. VerdictOK'
  BY RunOK DEF Calling
<1>. QED
  BY <1>3, <1>4, <1>5, KeptOK DEF TrainingInv

LEMMA PlainStep ==
  ASSUME TrainingInv, DoPick \/ DoCopy \/ DoSplice \/ DoTarget \/ DoPushbuf \/ DoPopbuf
  PROVE  TrainingInv'
<1>1. CortexesOK
  BY DEF TrainingInv
<1>2. Moved /\ \E op \in RoundOps \ {"synth", "learn"} : Calling(op)
  <2>1. {"pick", "copy", "splice", "target", "pushbuf", "popbuf"} \subseteq RoundOps \ {"synth", "learn"}
    BY DEF RoundOps
  <2>. QED
    BY <2>1, Zenon DEF DoPick, DoCopy, DoSplice, DoTarget, DoPushbuf, DoPopbuf
<1>3. Return /\ setup' = setup /\ walk' = walk /\ verdict' = verdict
  BY <1>2 DEF Moved
<1>4. Kept
  <2>1. CASE DoPick \/ DoCopy \/ DoSplice \/ DoTarget
    <3>1. \E p, chan : Put(p, chan)
      BY <2>1, Zenon DEF DoPick, DoCopy, DoSplice, DoTarget
    <3>. QED
      BY <3>1, <1>1, <1>3, PutKept
  <2>2. CASE DoPushbuf
    <3>1. PICK c, v : ctx' = [ctx EXCEPT ![c].stack = v]
      BY <2>2 DEF DoPushbuf
    <3>2. DOMAIN ctx' = DOMAIN ctx
      BY <3>1
    <3>3. ASSUME NEW d \in Cortexes
          PROVE  ctx'[d] = IF d = c THEN [ctx[d] EXCEPT !["stack"] = v] ELSE ctx[d]
      BY <1>1, <3>1 DEF CortexesOK
    <3>4. "stack" \in Passing /\ \A d \in Cortexes : DOMAIN ctx[d] = CortexFields
      BY <1>1 DEF Passing, CortexFields, LastingFields, CortexesOK
    <3>5. \A d \in Cortexes : Alike(ctx'[d], ctx[d])
      <4>1. ASSUME NEW d \in Cortexes PROVE Alike([ctx[d] EXCEPT !["stack"] = v], ctx[d])
        BY <3>4, PassingKept
      <4>2. ASSUME NEW d \in Cortexes PROVE Alike(ctx[d], ctx[d])
        BY <3>4 DEF Alike
      <4>. QED
        BY <4>1, <4>2, <3>3
    <3>. QED
      BY <1>1, <1>3, <3>2, <3>5, AlikeKept
  <2>3. CASE DoPopbuf
    <3>1. PICK c, v, w : ctx' = [ctx EXCEPT ![c].kbuf = v, ![c].stack = w]
      BY <2>3 DEF DoPopbuf
    <3>2. PICK t : t = [ctx EXCEPT ![c].kbuf = v]
      OBVIOUS
    <3>3. ctx' = [t EXCEPT ![c].stack = w]
      BY <3>1, <3>2
    <3>4. DOMAIN ctx' = DOMAIN ctx
      BY <3>2, <3>3
    <3>5. ASSUME NEW d \in Cortexes
          PROVE  t[d] = IF d = c THEN [ctx[d] EXCEPT !["kbuf"] = v] ELSE ctx[d]
      BY <1>1, <3>2 DEF CortexesOK
    <3>6. ASSUME NEW d \in Cortexes
          PROVE  ctx'[d] = IF d = c THEN [t[d] EXCEPT !["stack"] = w] ELSE t[d]
      BY <1>1, <3>2, <3>3 DEF CortexesOK
    <3>7. "kbuf" \in Passing /\ "stack" \in Passing
      BY DEF Passing, CortexFields, LastingFields
    <3>8. \A d \in Cortexes : Alike(t[d], ctx[d])
      <4>1. \A d \in Cortexes : DOMAIN ctx[d] = CortexFields
        BY <1>1 DEF CortexesOK
      <4>2. ASSUME NEW d \in Cortexes PROVE Alike([ctx[d] EXCEPT !["kbuf"] = v], ctx[d])
        BY <4>1, <3>7, PassingKept
      <4>3. ASSUME NEW d \in Cortexes PROVE Alike(ctx[d], ctx[d])
        BY <4>1 DEF Alike
      <4>. QED
        BY <4>2, <4>3, <3>5
    <3>9. \A d \in Cortexes : Alike(ctx'[d], t[d])
      <4>1. \A d \in Cortexes : DOMAIN t[d] = CortexFields
        BY <3>8 DEF Alike
      <4>2. ASSUME NEW d \in Cortexes PROVE Alike([t[d] EXCEPT !["stack"] = w], t[d])
        BY <4>1, <3>7, PassingKept
      <4>3. ASSUME NEW d \in Cortexes PROVE Alike(t[d], t[d])
        BY <4>1 DEF Alike
      <4>. QED
        BY <4>2, <4>3, <3>6
    <3>10. \A d \in Cortexes : Alike(ctx'[d], ctx[d])
      BY <3>8, <3>9 DEF Alike
    <3>. QED
      BY <1>1, <1>3, <3>4, <3>10, AlikeKept
  <2>. QED
    BY <2>1, <2>2, <2>3
<1>. QED
  BY <1>2, <1>3, <1>4, PlainCallInv

LEMMA KeptCalls ==
  ASSUME TrainingInv, Kept, todo' = todo
  PROVE  CallsOK'
<1>1. CortexesOK
  BY DEF TrainingInv
<1>2. Have' = Have /\ Needed' = Needed /\ Cortexes' = Cortexes
      /\ \A c \in Cortexes : ctx'[c].kout = ctx[c].kout
  BY <1>1, KeptHave, KeptIs
<1>. QED
  BY <1>2 DEF TrainingInv, CallsOK

LEMMA KeptWalks ==
  ASSUME TrainingInv, Kept, todo' = todo, walk' = walk
  PROVE  WalkOK'
<1>1. CortexesOK
  BY DEF TrainingInv
<1>2. setup' = setup /\ Cortexes' = Cortexes
  BY <1>1, KeptIs
<1>3. ASSUME NEW op, NEW c PROVE Under(op, c)' <=> Under(op, c)
  BY <1>2 DEF Under
<1>4. ASSUME NEW c, NEW k, NEW s, PrepWalk(c, k, s) PROVE PrepWalk(c, k, s)'
  <2>1. c \in Cortexes
    BY <1>4 DEF PrepWalk, Under
  <2>. QED
    BY <1>1, <1>2, <1>3, <1>4, <2>1, KeptIs DEF PrepWalk
<1>5. ASSUME NEW c, NEW k, NEW s, NEW x, NEW y, NEW at, SynthWalk(c, k, s, x, y, at)
      PROVE  SynthWalk(c, k, s, x, y, at)'
  <2>1. c \in Cortexes
    BY <1>5 DEF SynthWalk, Under
  <2>2. Depth(c)' = Depth(c) /\ (PreparedAs(c, s)' <=> PreparedAs(c, s))
    BY <1>1, <2>1, KeptIs, KeptPrepared
  <2>3. \A i : StraightTo(c, i)' <=> StraightTo(c, i)
    BY <1>2 DEF StraightTo
  <2>. QED
    BY <1>2, <1>3, <1>5, <2>2, <2>3 DEF SynthWalk
<1>6. ASSUME NEW c, NEW k, NEW s, NEW how, NEW frames, DownWalk(c, k, s, how, frames)
      PROVE  DownWalk(c, k, s, how, frames)'
  <2>1. c \in Cortexes
    BY <1>6 DEF DownWalk, Under
  <2>2. Depth(c)' = Depth(c) /\ (PreparedAs(c, s)' <=> PreparedAs(c, s))
    BY <1>1, <2>1, KeptIs, KeptPrepared
  <2>. QED
    BY <1>2, <1>3, <1>6, <2>2 DEF DownWalk
<1>7. ASSUME NEW c, NEW frames, UpWalk(c, frames) PROVE UpWalk(c, frames)'
  <2>1. c \in Cortexes
    BY <1>7 DEF UpWalk, Under
  <2>2. Depth(c)' = Depth(c)
    BY <1>1, <2>1, KeptIs
  <2>. QED
    BY <1>3, <1>7, <2>2 DEF UpWalk
<1>8. WalkOK
  BY DEF TrainingInv
<1>. QED
  BY <1>4, <1>5, <1>6, <1>7, <1>8 DEF WalkOK

LEMMA UnchangedKept ==
  ASSUME UNCHANGED <<setup, ctx>>
  PROVE  Kept
BY Zenon DEF Kept

LEMMA DieInv ==
  ASSUME TrainingInv, NEW where, Die(where), VerdictOK'
  PROVE  TrainingInv'
<1>1. Kept /\ todo' = todo /\ walk' = walk
  BY UnchangedKept DEF Die
<1>. QED
  BY <1>1, KeptOK, KeptCalls, KeptWalks DEF TrainingInv

LEMMA ElseDieInv ==
  ASSUME TrainingInv, NEW where \in {"prep", "fit", "null"}, Die(where)
  PROVE  TrainingInv'
<1>1. VerdictOK'
  BY DEF VerdictOK, PreparedPipesRun, RunPipesLearn, Die
<1>. QED
  BY <1>1, DieInv

LEMMA StutterInv ==
  ASSUME TrainingInv, UNCHANGED vars
  PROVE  TrainingInv'
<1>1. Kept /\ todo' = todo /\ walk' = walk /\ verdict' = verdict /\ setup' = setup
  BY UnchangedKept DEF vars
<1>2. VerdictOK'
  BY <1>1 DEF TrainingInv, VerdictOK, PreparedPipesRun, RunPipesLearn
<1>. QED
  BY <1>1, <1>2, KeptOK, KeptCalls, KeptWalks DEF TrainingInv

LEMMA FitStep ==
  ASSUME TrainingInv, CheckFit \/ DoCopyNull
  PROVE  TrainingInv'
<1>1. CASE Die("fit") \/ Die("null")
  BY <1>1, ElseDieInv
<1>2. CASE ~ (Die("fit") \/ Die("null"))
  <2>1. \E op \in (RoundOps \ {"synth", "learn"}) \cup {"fit"} : Calling(op)
    BY DEF CheckFit, DoCopyNull, RoundOps
  <2>2. Return /\ walk' = walk /\ verdict' = verdict /\ UNCHANGED <<setup, ctx>>
    BY <1>2, Zenon DEF CheckFit, DoCopyNull, Moved
  <2>. QED
    BY <2>1, <2>2, UnchangedKept, PlainCallInv
<1>. QED
  BY <1>1, <1>2

----------------------------------------------------------------------------
(***************************************************************************)
(* pipe_prep lays the places out.                                          *)
(***************************************************************************)
LEMMA PlaceIs ==
  ASSUME NEW q \in Places
  PROVE  /\ q.w \in Nat /\ q.h \in Nat /\ q.ic \in Nat /\ q.at \in Nat /\ q.doff \in Nat
         /\ Room(q) \in Nat /\ End(q) \in Nat /\ q.at <= End(q)
<1>1. q.w \in Nat /\ q.h \in Nat /\ q.ic \in Nat /\ q.at \in Nat /\ q.doff \in Nat
  BY DEF Places
<1>2. PICK a \in Nat : a = q.w * q.h
  BY <1>1
<1>3. a * q.ic \in Nat
  BY <1>1
<1>. QED
  BY <1>1, <1>2, <1>3 DEF Room, End

LEMMA NextPlaceIs ==
  ASSUME NEW l \in Layers, NEW q \in Places, PrepAccepts(l, q.ic, q.w, q.h)
  PROVE  LET o == PrepShape(l, q.w, q.h)
         IN  /\ NextPlace(l, q) \in Places
             /\ NextPlace(l, q).w = o.w /\ NextPlace(l, q).h = o.h /\ NextPlace(l, q).ic = l.oc
             /\ NextPlace(l, q).at = End(q) /\ NextPlace(l, q).doff = q.doff + l.len \div 3
             /\ End(NextPlace(l, q)) = End(q) + o.w * o.h * l.oc
             /\ End(q) <= End(NextPlace(l, q)) /\ q.doff <= NextPlace(l, q).doff
<1>1. PICK o : o = PrepShape(l, q.w, q.h)
  OBVIOUS
<1>2. o.w \in Nat /\ o.h \in Nat
  BY <1>1, PlaceIs, PrepShapeIs
<1>3. l.oc \in Nat /\ l.len \in Nat
  BY DEF Layers
<1>4. PICK z \in Nat : z = l.len \div 3
  BY <1>3
<1>5. PICK r : r = NextPlace(l, q)
  OBVIOUS
<1>6. r = [w |-> o.w, h |-> o.h, ic |-> l.oc, at |-> End(q), doff |-> q.doff + z]
  BY <1>1, <1>4, <1>5 DEF NextPlace
<1>7. r \in Places
  BY <1>2, <1>3, <1>6, PlaceIs DEF Places
<1>8. r.w = o.w /\ r.h = o.h /\ r.ic = l.oc /\ r.at = End(q) /\ r.doff = q.doff + z
  BY <1>6
<1>9. End(r) = End(q) + o.w * o.h * l.oc
  BY <1>8 DEF End, Room
<1>10. End(q) <= End(r) /\ q.doff <= r.doff
  BY <1>7, <1>8, PlaceIs
<1>. QED
  BY <1>1, <1>4, <1>5, <1>7, <1>8, <1>9, <1>10

LEMMA LaidFirst ==
  ASSUME NEW p, NEW s \in [1 .. 1 -> Places],
         s[1].at = 0, s[1].doff = 0, s[1].ic = p[1].ic
  PROVE  Laid(p, s, 1) /\ End(s[1]) = Room(s[1])
<1>1. 1 .. 1 - 1 = {} /\ 1 .. 1 = {1} /\ s[1] \in Places
  OBVIOUS
<1>2. End(s[1]) \in Nat /\ Room(s[1]) \in Nat
  BY <1>1, PlaceIs
<1>3. Laid(p, s, 1)
  BY <1>1, <1>2 DEF Laid
<1>4. End(s[1]) = Room(s[1])
  BY <1>2 DEF End
<1>. QED
  BY <1>3, <1>4

LEMMA LaidNext ==
  ASSUME NEW p, NEW k \in Nat \ {0}, NEW s, Laid(p, s, k), p[k] \in Layers,
         PrepAccepts(p[k], s[k].ic, s[k].w, s[k].h)
  PROVE  \E t : Laid(p, t, k + 1) /\ t[1] = s[1] /\ t[k + 1] = NextPlace(p[k], s[k])
<1>1. s \in [1 .. k -> Places] /\ s[k] \in Places
  BY DEF Laid
<1>2. PICK q \in Places : /\ q = NextPlace(p[k], s[k])
                          /\ End(s[k]) <= End(q) /\ s[k].doff <= q.doff
  BY <1>1, NextPlaceIs
<1>3. PICK t : t = [j \in 1 .. k + 1 |-> IF j = k + 1 THEN q ELSE s[j]]
  OBVIOUS
<1>4. /\ t \in [1 .. k + 1 -> Places] /\ t[k + 1] = q
      /\ \A j \in 1 .. k : t[j] = s[j]
  BY <1>1, <1>3
<1>5. t[1] = s[1]
  BY <1>4
<1>6. ASSUME NEW j \in 1 .. (k + 1) - 1
      PROVE  PrepAccepts(p[j], t[j].ic, t[j].w, t[j].h) /\ t[j + 1] = NextPlace(p[j], t[j])
  <2>1. CASE j = k
    BY <2>1, <1>2, <1>4
  <2>2. CASE j # k
    <3>1. j \in 1 .. k - 1 /\ j \in 1 .. k /\ j + 1 \in 1 .. k
      BY <2>2
    <3>. QED
      BY <3>1, <1>4 DEF Laid
  <2>. QED
    BY <2>1, <2>2
<1>7. ASSUME NEW j \in 1 .. k + 1
      PROVE  End(t[j]) <= End(t[k + 1]) /\ t[j].doff <= t[k + 1].doff
  <2>1. CASE j = k + 1
    BY <2>1, <1>4, PlaceIs
  <2>2. CASE j # k + 1
    <3>1. j \in 1 .. k /\ s[j] \in Places
      BY <2>2, <1>1
    <3>2. End(s[j]) <= End(s[k]) /\ s[j].doff <= s[k].doff
      BY <3>1 DEF Laid
    <3>3. /\ End(s[j]) \in Nat /\ End(s[k]) \in Nat /\ End(q) \in Nat
          /\ s[j].doff \in Nat /\ s[k].doff \in Nat /\ q.doff \in Nat
      BY <3>1, <1>1, PlaceIs
    <3>. QED
      BY <3>1, <3>2, <3>3, <1>2, <1>4
  <2>. QED
    BY <2>1, <2>2
<1>8. t[1].at = 0 /\ t[1].doff = 0 /\ t[1].ic = p[1].ic
  BY <1>5 DEF Laid
<1>9. Laid(p, t, k + 1)
  BY <1>4, <1>6, <1>7, <1>8 DEF Laid
<1>. QED
  BY <1>2, <1>4, <1>5, <1>9

LEMMA LaidIs ==
  ASSUME NEW p, NEW n \in Nat, NEW s, Laid(p, s, n + 1), NEW k \in 1 .. n, p[k] \in Layers
  PROVE  LET o == PrepShape(p[k], s[k].w, s[k].h)
         IN  /\ s[k] \in Places /\ s[k + 1] \in Places
             /\ PrepAccepts(p[k], s[k].ic, s[k].w, s[k].h)
             /\ s[k].ic = p[k].ic /\ s[k + 1].ic = p[k].oc
             /\ s[k + 1].w = o.w /\ s[k + 1].h = o.h
             /\ s[k + 1].at = End(s[k]) /\ s[k + 1].doff = s[k].doff + p[k].len \div 3
             /\ End(s[k + 1]) = End(s[k]) + o.w * o.h * p[k].oc
             /\ End(s[k + 1]) <= End(s[n + 1]) /\ s[k + 1].doff <= s[n + 1].doff
<1>1. k \in 1 .. (n + 1) - 1 /\ k \in 1 .. n + 1 /\ k + 1 \in 1 .. n + 1
  OBVIOUS
<1>2. s[k] \in Places /\ s[k + 1] \in Places
  BY <1>1 DEF Laid
<1>3. PrepAccepts(p[k], s[k].ic, s[k].w, s[k].h) /\ s[k + 1] = NextPlace(p[k], s[k])
  BY <1>1 DEF Laid
<1>4. End(s[k + 1]) <= End(s[n + 1]) /\ s[k + 1].doff <= s[n + 1].doff
  BY <1>1 DEF Laid
<1>5. s[k].ic = p[k].ic
  BY <1>2, <1>3, PlaceIs, PrepShapeIs
<1>. QED
  BY <1>2, <1>3, <1>4, <1>5, NextPlaceIs

-----------------------------------------------------------------------------
(***************************************************************************)
(* The first state, and pipe_prep.                                         *)
(***************************************************************************)
LEMMA InitInv ==
  ASSUME Init
  PROVE  TrainingInv
<1>1. /\ setup \in Setups /\ DOMAIN ctx = Cortexes
      /\ \A c \in Cortexes : ctx[c] = NewCortex(setup.pipe[c])
  BY DEF Init, Cortexes
<1>2. ASSUME NEW c \in Cortexes
      PROVE  /\ DOMAIN ctx[c] = CortexFields
             /\ ctx[c].iw = 0 /\ ctx[c].ih = 0 /\ ctx[c].ow = 0 /\ ctx[c].oh = 0
             /\ ctx[c].ic = PipeIc(c) /\ ctx[c].oc = PipeOc(c) /\ ctx[c].kout = -1
  BY <1>1 DEF NewCortex, CortexFields, PipeIc, PipeOc
<1>3. CortexesOK
  BY <1>1, <1>2 DEF CortexesOK
<1>4. \A c \in Cortexes : ctx[c].kout < 0
  BY <1>2
<1>5. CallsOK
  <2>1. Serves(Prologue, PrologueOps, AtHand, Needed)
    BY <1>1, PrologueServes
  <2>2. AtHand \subseteq Have /\ Needed \subseteq Have \cup Needed
    BY DEF Have
  <2>3. Serves(Prologue, PrologueOps, Have, Needed)
    BY <2>1, <2>2, ServesMore
  <2>. QED
    BY <2>3, <1>4 DEF CallsOK, Init
<1>6. RunsOK
  <2>1. \A c \in Cortexes : ~ (ctx[c].kout >= 0)
    BY <1>2
  <2>. QED
    BY <2>1 DEF RunsOK
<1>7. WalkOK
  BY DEF Init, WalkOK
<1>8. VerdictOK
  BY DEF Init, VerdictOK, PreparedPipesRun, RunPipesLearn
<1>. QED
  BY <1>3, <1>5, <1>6, <1>7, <1>8 DEF TrainingInv

\* While a Cortex is prepared, none has run.
LEMMA PreparingIs ==
  ASSUME TrainingInv, todo # <<>>, Head(todo).op = "prepare"
  PROVE  /\ Serves(todo, PrologueOps, Have, Needed)
         /\ \A c \in Cortexes : ctx[c].kout < 0
         /\ Takes(Head(todo)) = {KnownOf(Head(todo).c), SourceOf(Head(todo).from)}
         /\ Gives(Head(todo)) = {PreparedOf(Head(todo).c)}
         /\ Head(todo).c \in Cortexes /\ Head(todo).from \in Cortexes \cup {"input"}
<1>1. ~ Serves(todo, RoundOps, Have, Needed)
  <2>1. "prepare" \notin RoundOps
    BY DEF RoundOps
  <2>2. Serves(todo, RoundOps, Have, Needed) => Head(todo).op \in RoundOps
    <3>1. Have \cup Gives(Head(todo)) \subseteq Have \cup Gives(Head(todo))
      OBVIOUS
    <3>. QED
      BY <3>1, ServesRest
  <2>. QED
    BY <2>1, <2>2
<1>2. Serves(todo, PrologueOps, Have, Needed) /\ \A c \in Cortexes : ctx[c].kout < 0
  BY <1>1 DEF TrainingInv, CallsOK
<1>3. /\ Takes(Head(todo)) = {KnownOf(Head(todo).c), SourceOf(Head(todo).from)}
      /\ Gives(Head(todo)) = {PreparedOf(Head(todo).c)}
  BY DEF Takes, Gives
<1>4. Takes(Head(todo)) \subseteq Have
  <2>1. Have \cup Gives(Head(todo)) \subseteq Have \cup Gives(Head(todo))
    OBVIOUS
  <2>. QED
    BY <1>2, <2>1, ServesRest
<1>5. /\ \A c : KnownOf(c) \in Have => c \in Cortexes
      /\ \A c : SourceOf(c) \in Have => c \in Cortexes \cup {"input"}
  <2>1. \A c : KnownOf(c) \in Have => c \in Cortexes
    BY DEF Have, AtHand, KnownOf, SourceOf, PreparedOf, RunOf
  <2>2. \A c : SourceOf(c) \in Have => c \in Cortexes \cup {"input"}
    BY DEF Have, AtHand, KnownOf, SourceOf, PreparedOf, RunOf
  <2>. QED
    BY <2>1, <2>2
<1>. QED
  BY <1>2, <1>3, <1>4, <1>5

LEMMA PipeIs ==
  ASSUME setup \in Setups, NEW c \in Cortexes
  PROVE  /\ setup.pipe[c] \in Seq(Layers) /\ Depth(c) \in Nat \ {0}
         /\ DOMAIN setup.pipe[c] = 1 .. Depth(c)
         /\ \A k \in 1 .. Depth(c) : setup.pipe[c][k] \in Layers
         /\ setup.pipe[c][1].ic \in Nat
         /\ PipeIc(c) = setup.pipe[c][1].ic /\ PipeOc(c) = setup.pipe[c][Depth(c)].oc
<1>1. setup.pipe[c] \in Seq(Layers) \ {<<>>}
  BY SetupIs
<1>2. Depth(c) \in Nat \ {0} /\ DOMAIN setup.pipe[c] = 1 .. Depth(c)
  BY <1>1 DEF Depth
<1>3. \A k \in 1 .. Depth(c) : setup.pipe[c][k] \in Layers
  BY <1>1, <1>2
<1>4. setup.pipe[c][1] \in Layers
  BY <1>2, <1>3
<1>5. setup.pipe[c][1].ic \in Nat
  BY <1>4 DEF Layers
<1>6. PipeOc(c) = setup.pipe[c][Depth(c)].oc
  BY <1>1 DEF PipeOc, Last, Depth
<1>. QED
  BY <1>1, <1>2, <1>3, <1>5, <1>6 DEF PipeIc

LEMMA StartPrepareStep ==
  ASSUME TrainingInv, StartPrepare
  PROVE  TrainingInv'
<1>1. CortexesOK /\ todo # <<>> /\ Head(todo).op = "prepare"
  BY DEF TrainingInv, StartPrepare, Calling
<1>2. PICK c \in Cortexes : c = Head(todo).c
  BY <1>1, PreparingIs
<1>3. PICK f \in Cortexes \cup {"input"} : f = Head(todo).from
  BY <1>1, PreparingIs
<1>4. PICK w \in Nat, h \in Nat : /\ w = IF f = "input" THEN setup.w ELSE ctx[f].ow
                                  /\ h = IF f = "input" THEN setup.h ELSE ctx[f].oh
  BY <1>1, <1>3, SetupIs DEF CortexesOK
<1>5. /\ ctx' = [ctx EXCEPT ![c].iw = w, ![c].ih = h]
      /\ walk' = [op |-> "prep", c |-> c, k |-> 1, w |-> w, h |-> h,
                  ic |-> ctx[c].ic, off |-> w * h * ctx[c].ic, doff |-> 0]
  BY <1>2, <1>3, <1>4 DEF StartPrepare
<1>6. setup' = setup /\ todo' = todo /\ verdict' = verdict /\ Cortexes' = Cortexes
  BY DEF StartPrepare, Cortexes
<1>7. /\ DOMAIN ctx' = Cortexes
      /\ \A d \in Cortexes :
           /\ DOMAIN ctx'[d] = CortexFields
           /\ d # c => ctx'[d] = ctx[d]
      /\ ctx'[c].iw = w /\ ctx'[c].ih = h
      /\ \A g \in CortexFields \ {"iw", "ih"} : ctx'[c][g] = ctx[c][g]
  <2>1. PICK q : q = ctx[c]
    OBVIOUS
  <2>2. PICK r : r = [q EXCEPT !["iw"] = w]
    OBVIOUS
  <2>3. PICK z : z = [r EXCEPT !["ih"] = h]
    OBVIOUS
  <2>4. DOMAIN q = CortexFields /\ DOMAIN r = CortexFields /\ DOMAIN z = CortexFields
    BY <1>1, <2>1, <2>2, <2>3 DEF CortexesOK
  <2>5. "iw" \in CortexFields /\ "ih" \in CortexFields /\ "iw" # "ih"
    BY DEF CortexFields
  <2>6. z.iw = w /\ z.ih = h /\ \A g \in CortexFields \ {"iw", "ih"} : z[g] = q[g]
    BY <2>2, <2>3, <2>4, <2>5
  <2>7. DOMAIN ctx' = Cortexes
    BY <1>1, <1>5 DEF CortexesOK
  <2>8. \A d \in Cortexes : ctx'[d] = IF d = c THEN z ELSE ctx[d]
    BY <1>1, <1>5, <2>1, <2>2, <2>3 DEF CortexesOK
  <2>. QED
    BY <1>1, <2>1, <2>4, <2>6, <2>7, <2>8 DEF CortexesOK
<1>8. \A d \in Cortexes :
        /\ ctx'[d].ow = ctx[d].ow /\ ctx'[d].oh = ctx[d].oh /\ ctx'[d].ic = ctx[d].ic
        /\ ctx'[d].oc = ctx[d].oc /\ ctx'[d].kout = ctx[d].kout
        /\ ctx'[d].iw \in Nat /\ ctx'[d].ih \in Nat
  <2>1. {"ow", "oh", "ic", "oc", "kout"} \subseteq CortexFields \ {"iw", "ih"}
    BY DEF CortexFields
  <2>. QED
    BY <1>1, <1>7, <2>1 DEF CortexesOK
<1>9. CortexesOK'
  <2>1. \A d \in Cortexes : PipeIc(d)' = PipeIc(d) /\ PipeOc(d)' = PipeOc(d)
    BY <1>6 DEF PipeIc, PipeOc
  <2>2. \A d \in Cortexes :
          /\ ctx'[d].ow \in Nat /\ ctx'[d].oh \in Nat /\ ctx'[d].kout \in Int
          /\ ctx'[d].ic = PipeIc(d)' /\ ctx'[d].oc = PipeOc(d)'
    BY <1>1, <1>8, <2>1 DEF CortexesOK
  <2>3. setup' \in Setups /\ DOMAIN ctx' = Cortexes'
    BY <1>1, <1>6, <1>7 DEF CortexesOK
  <2>. QED
    BY <1>6, <1>7, <1>8, <2>2, <2>3, Zenon DEF CortexesOK
<1>10. /\ \A d \in Cortexes : ctx'[d].kout < 0
       /\ Serves(todo, PrologueOps, Have, Needed)
       /\ Takes(Head(todo)) = {KnownOf(c), SourceOf(f)} /\ Gives(Head(todo)) = {PreparedOf(c)}
  BY <1>1, <1>2, <1>3, <1>8, PreparingIs
<1>11. CallsOK'
  <2>1. Needed' = Needed /\ AtHand' = AtHand
    BY <1>6 DEF Needed, Used, ChainMembers, HasCnd, AtHand
  <2>2. ASSUME NEW d \in Cortexes, d # c PROVE Prepared(d)' <=> Prepared(d)
    <3>1. ctx'[d] = ctx[d] /\ setup' = setup
      BY <1>6, <1>7, <2>2
    <3>2. ASSUME NEW s PROVE PreparedAs(d, s)' <=> PreparedAs(d, s)
      BY <3>1 DEF PreparedAs, Depth
    <3>. QED
      BY <3>2 DEF Prepared
  <2>3. Have \subseteq Have' \cup {PreparedOf(c)}
    BY <1>6, <1>8, <2>1, <2>2 DEF Have
  <2>4. {KnownOf(c), SourceOf(f)} \subseteq Have'
    <3>1. {KnownOf(c), SourceOf(f)} \subseteq AtHand
      BY DEF AtHand
    <3>. QED
      BY <2>1, <3>1 DEF Have
  <2>5. Serves(todo, PrologueOps, Have', Needed)
    BY <1>1, <1>10, <2>3, <2>4, ServesWithout
  <2>. QED
    BY <1>6, <1>10, <2>1, <2>5 DEF CallsOK
<1>12. RunsOK'
  <2>1. \A d \in Cortexes : ~ (ctx'[d].kout >= 0)
    BY <1>9, <1>6, <1>10 DEF CortexesOK
  <2>. QED
    BY <1>6, <2>1 DEF RunsOK
<1>13. WalkOK'
  <2>1. PICK s : /\ Laid(setup.pipe[c], s, 1) /\ s[1].w = w /\ s[1].h = h
                 /\ s[1].ic = ctx[c].ic /\ s[1].doff = 0 /\ End(s[1]) = w * h * ctx[c].ic
    <3>1. setup.pipe[c][1].ic \in Nat /\ ctx[c].ic = setup.pipe[c][1].ic
      BY <1>1, PipeIs DEF CortexesOK
    <3>2. PICK p : p = setup.pipe[c]
      OBVIOUS
    <3>3. p[1].ic \in Nat /\ ctx[c].ic = p[1].ic
      BY <3>1, <3>2
    <3>4. PICK q : q = [w |-> w, h |-> h, ic |-> p[1].ic, at |-> 0, doff |-> 0]
      OBVIOUS
    <3>5. q \in Places /\ q.w = w /\ q.h = h /\ q.ic = p[1].ic /\ q.at = 0 /\ q.doff = 0
      BY <1>4, <3>3, <3>4 DEF Places
    <3>6. PICK s : s = [j \in 1 .. 1 |-> q]
      OBVIOUS
    <3>7. s \in [1 .. 1 -> Places] /\ s[1] = q
      BY <3>5, <3>6
    <3>8. Laid(p, s, 1) /\ End(s[1]) = Room(s[1])
      BY <3>5, <3>7, LaidFirst
    <3>9. Room(s[1]) = w * h * p[1].ic
      BY <3>5, <3>7 DEF Room
    <3>. QED
      BY <3>2, <3>3, <3>5, <3>7, <3>8, <3>9
  <2>2. Depth(c) \in Nat \ {0} /\ Depth(c)' = Depth(c)
    BY <1>1, <1>6, PipeIs DEF CortexesOK, Depth
  <2>3. Under("prepare", c)'
    BY <1>1, <1>2, <1>6 DEF Under
  <2>4. PrepWalk(c, 1, s)'
    BY <1>5, <1>6, <1>7, <2>1, <2>2, <2>3 DEF PrepWalk
  <2>. QED
    BY <2>4 DEF WalkOK
<1>14. VerdictOK'
  BY <1>6, RunOK DEF StartPrepare, Calling
<1>. QED
  BY <1>9, <1>11, <1>12, <1>13, <1>14 DEF TrainingInv

\* Which walk it is, its op tells.
LEMMA WalkIs ==
  ASSUME WalkOK
  PROVE  /\ walk.op = "prep" => \E c, k, s : PrepWalk(c, k, s)
         /\ walk.op = "synth" => \E c, k, s, x, y, at : SynthWalk(c, k, s, x, y, at)
         /\ walk.op = "down" => \E c, k, s, how, frames : DownWalk(c, k, s, how, frames)
         /\ walk.op = "up" => \E c, frames : UpWalk(c, frames)
         /\ walk.op \in {"idle", "prep", "synth", "down", "up"}
<1>1. walk = Idle => walk.op = "idle"
  BY DEF Idle
<1>2. \A c, k, s : PrepWalk(c, k, s) => walk.op = "prep"
  BY DEF PrepWalk
<1>3. \A c, k, s, x, y, at : SynthWalk(c, k, s, x, y, at) => walk.op = "synth"
  BY DEF SynthWalk
<1>4. \A c, k, s, how, frames : DownWalk(c, k, s, how, frames) => walk.op = "down"
  BY DEF DownWalk
<1>5. \A c, frames : UpWalk(c, frames) => walk.op = "up"
  BY DEF UpWalk
<1>. QED
  BY <1>1, <1>2, <1>3, <1>4, <1>5, Zenon DEF WalkOK

LEMMA PrepLayerStep ==
  ASSUME TrainingInv, PrepLayer
  PROVE  TrainingInv'
<1>1. CASE Die("prep")
  BY <1>1, ElseDieInv
<1>2. CASE ~ Die("prep")
  <2>1. PICK c, k, s : PrepWalk(c, k, s)
    BY WalkIs DEF TrainingInv, PrepLayer, Walking
  <2>2. PICK p : p = setup.pipe[c]
    OBVIOUS
  <2>3. /\ c \in Cortexes /\ Depth(c) \in Nat \ {0} /\ k \in 1 .. Depth(c) + 1
        /\ Laid(p, s, k) /\ ctx[c].iw = s[1].w /\ ctx[c].ih = s[1].h
        /\ walk = [op |-> "prep", c |-> c, k |-> k, w |-> s[k].w, h |-> s[k].h,
                   ic |-> s[k].ic, off |-> End(s[k]), doff |-> s[k].doff]
        /\ \A j \in 1 .. Depth(c) : p[j] \in Layers
    BY <2>1, <2>2, PipeIs DEF TrainingInv, CortexesOK, PrepWalk, Under
  <2>4. walk.c = c /\ walk.k = k /\ Layer = p[k]
    BY <2>2, <2>3 DEF Layer
  <2>5. k \in 1 .. Depth(c) /\ k \in Nat \ {0}
    BY <2>2, <2>3, <2>4 DEF PrepLayer, AtEnd, Depth
  <2>6. /\ PrepAccepts(Layer, walk.ic, walk.w, walk.h)
        /\ UNCHANGED <<setup, ctx, host, todo, iter, rep, updated, verdict>>
    BY <1>2, Zenon DEF PrepLayer
  <2>7. PrepAccepts(p[k], s[k].ic, s[k].w, s[k].h) /\ p[k] \in Layers
    BY <2>3, <2>4, <2>5, <2>6
  <2>8. PICK t : Laid(p, t, k + 1) /\ t[1] = s[1] /\ t[k + 1] = NextPlace(p[k], s[k])
    BY <2>3, <2>5, <2>7, LaidNext
  <2>9. PICK o : o = PrepShape(p[k], s[k].w, s[k].h)
    OBVIOUS
  <2>10. s[k] \in Places
    BY <2>3, <2>5 DEF Laid
  <2>11. /\ t[k + 1].w = o.w /\ t[k + 1].h = o.h /\ t[k + 1].ic = p[k].oc
         /\ t[k + 1].doff = s[k].doff + p[k].len \div 3
         /\ End(t[k + 1]) = End(s[k]) + o.w * o.h * p[k].oc
    BY <2>7, <2>8, <2>9, <2>10, NextPlaceIs
  <2>12. walk' = [walk EXCEPT !.k = @ + 1, !.w = o.w, !.h = o.h, !.ic = p[k].oc,
                              !.off = @ + o.w * o.h * p[k].oc,
                              !.doff = @ + p[k].len \div 3]
    BY <2>3, <2>4, <2>6, <2>9, Zenon DEF PrepLayer
  <2>13. walk' = [op |-> "prep", c |-> c, k |-> k + 1, w |-> t[k + 1].w, h |-> t[k + 1].h,
                  ic |-> t[k + 1].ic, off |-> End(t[k + 1]), doff |-> t[k + 1].doff]
    BY <2>3, <2>11, <2>12
  <2>14. Under("prepare", c)' /\ Depth(c)' = Depth(c)
    BY <2>1, <2>6 DEF PrepWalk, Under, Cortexes, Depth
  <2>15. k + 1 \in 1 .. Depth(c) + 1
    BY <2>3, <2>5
  <2>16. PrepWalk(c, k + 1, t)'
    BY <2>2, <2>3, <2>6, <2>8, <2>13, <2>14, <2>15 DEF PrepWalk
  <2>17. Kept /\ todo' = todo /\ verdict' = verdict
    BY <2>6, UnchangedKept
  <2>18. VerdictOK'
    BY <2>17, RunOK DEF PrepLayer, Walking
  <2>19. WalkOK'
    BY <2>16 DEF WalkOK
  <2>. QED
    BY <2>17, <2>18, <2>19, KeptOK, KeptCalls DEF TrainingInv
<1>. QED
  BY <1>1, <1>2

LEMMA EndPrepareStep ==
  ASSUME TrainingInv, EndPrepare
  PROVE  TrainingInv'
<1>1. PICK c, k, s : PrepWalk(c, k, s)
  BY WalkIs DEF TrainingInv, EndPrepare, Walking
<1>2. /\ CortexesOK /\ c \in Cortexes /\ Depth(c) \in Nat \ {0} /\ k \in 1 .. Depth(c) + 1
      /\ Laid(setup.pipe[c], s, k) /\ ctx[c].iw = s[1].w /\ ctx[c].ih = s[1].h
      /\ walk = [op |-> "prep", c |-> c, k |-> k, w |-> s[k].w, h |-> s[k].h,
                 ic |-> s[k].ic, off |-> End(s[k]), doff |-> s[k].doff]
      /\ todo # <<>> /\ Head(todo).op = "prepare" /\ Head(todo).c = c
  BY <1>1, PipeIs DEF TrainingInv, CortexesOK, PrepWalk, Under
<1>3. walk.c = c /\ walk.k = k
  BY <1>2
<1>4. k = Depth(c) + 1
  BY <1>2, <1>3 DEF EndPrepare, AtEnd, Depth
<1>5. PICK q : q = s[k]
  OBVIOUS
<1>6. q \in Places /\ walk.w = q.w /\ walk.h = q.h /\ walk.off = End(q) /\ walk.doff = q.doff
  BY <1>2, <1>5 DEF Laid
<1>7. PICK e : e = [d \in 0 .. q.doff |-> {}]
  OBVIOUS
<1>8. /\ ctx' = [ctx EXCEPT ![c].ow = q.w, ![c].oh = q.h, ![c].kbufn = End(q),
                            ![c].dwn = q.doff, ![c].dw = e]
      /\ walk' = Idle /\ todo' = Tail(todo) /\ setup' = setup /\ verdict' = verdict
      /\ Cortexes' = Cortexes
  BY <1>3, <1>6, <1>7 DEF EndPrepare, Return, Cortexes
<1>9. /\ DOMAIN ctx' = Cortexes
      /\ \A d \in Cortexes :
           /\ DOMAIN ctx'[d] = CortexFields
           /\ d # c => ctx'[d] = ctx[d]
      /\ ctx'[c].ow = q.w /\ ctx'[c].oh = q.h /\ ctx'[c].kbufn = End(q) /\ ctx'[c].dwn = q.doff
      /\ \A g \in CortexFields \ {"ow", "oh", "kbufn", "dwn", "dw"} : ctx'[c][g] = ctx[c][g]
  <2>1. PICK r0 : r0 = ctx[c]
    OBVIOUS
  <2>2. PICK r1 : r1 = [r0 EXCEPT !["ow"] = q.w]
    OBVIOUS
  <2>3. PICK r2 : r2 = [r1 EXCEPT !["oh"] = q.h]
    OBVIOUS
  <2>4. PICK r3 : r3 = [r2 EXCEPT !["kbufn"] = End(q)]
    OBVIOUS
  <2>5. PICK r4 : r4 = [r3 EXCEPT !["dwn"] = q.doff]
    OBVIOUS
  <2>6. PICK r5 : r5 = [r4 EXCEPT !["dw"] = e]
    OBVIOUS
  <2>7. /\ DOMAIN r0 = CortexFields /\ DOMAIN r1 = CortexFields /\ DOMAIN r2 = CortexFields
        /\ DOMAIN r3 = CortexFields /\ DOMAIN r4 = CortexFields /\ DOMAIN r5 = CortexFields
    BY <1>2, <2>1, <2>2, <2>3, <2>4, <2>5, <2>6 DEF CortexesOK
  <2>8. {"ow", "oh", "kbufn", "dwn", "dw"} \subseteq CortexFields
    BY DEF CortexFields
  <2>9. /\ r5.ow = q.w /\ r5.oh = q.h /\ r5.kbufn = End(q) /\ r5.dwn = q.doff
        /\ \A g \in CortexFields \ {"ow", "oh", "kbufn", "dwn", "dw"} : r5[g] = r0[g]
    BY <2>2, <2>3, <2>4, <2>5, <2>6, <2>7, <2>8
  <2>10. DOMAIN ctx' = Cortexes
    BY <1>2, <1>8 DEF CortexesOK
  <2>11. \A d \in Cortexes : ctx'[d] = IF d = c THEN r5 ELSE ctx[d]
    BY <1>2, <1>8, <2>1, <2>2, <2>3, <2>4, <2>5, <2>6 DEF CortexesOK
  <2>. QED
    BY <1>2, <2>1, <2>7, <2>9, <2>10, <2>11 DEF CortexesOK
<1>10. \A d \in Cortexes :
         /\ ctx'[d].iw = ctx[d].iw /\ ctx'[d].ih = ctx[d].ih /\ ctx'[d].ic = ctx[d].ic
         /\ ctx'[d].oc = ctx[d].oc /\ ctx'[d].kout = ctx[d].kout
         /\ ctx'[d].ow \in Nat /\ ctx'[d].oh \in Nat
  <2>1. {"iw", "ih", "ic", "oc", "kout"} \subseteq CortexFields \ {"ow", "oh", "kbufn", "dwn", "dw"}
    BY DEF CortexFields
  <2>2. q.w \in Nat /\ q.h \in Nat
    BY <1>6, PlaceIs
  <2>3. \A d \in Cortexes : ctx[d].ow \in Nat /\ ctx[d].oh \in Nat
    BY <1>2 DEF CortexesOK
  <2>4. /\ ctx'[c].iw = ctx[c].iw /\ ctx'[c].ih = ctx[c].ih /\ ctx'[c].ic = ctx[c].ic
        /\ ctx'[c].oc = ctx[c].oc /\ ctx'[c].kout = ctx[c].kout
        /\ ctx'[c].ow \in Nat /\ ctx'[c].oh \in Nat
    BY <1>9, <2>1, <2>2
  <2>5. ASSUME NEW d \in Cortexes, d # c
        PROVE  ctx'[d] = ctx[d] /\ ctx'[d].ow \in Nat /\ ctx'[d].oh \in Nat
    BY <1>9, <2>3, <2>5
  <2>. QED
    BY <2>4, <2>5
<1>11. CortexesOK'
  <2>1. \A d \in Cortexes : PipeIc(d)' = PipeIc(d) /\ PipeOc(d)' = PipeOc(d)
    BY <1>8 DEF PipeIc, PipeOc
  <2>2. \A d \in Cortexes :
          /\ ctx'[d].iw \in Nat /\ ctx'[d].ih \in Nat /\ ctx'[d].kout \in Int
          /\ ctx'[d].ic = PipeIc(d)' /\ ctx'[d].oc = PipeOc(d)'
    <3>1. \A d \in Cortexes :
            /\ ctx[d].iw \in Nat /\ ctx[d].ih \in Nat /\ ctx[d].kout \in Int
            /\ ctx[d].ic = PipeIc(d) /\ ctx[d].oc = PipeOc(d)
      BY <1>2 DEF CortexesOK
    <3>. QED
      BY <1>10, <2>1, <3>1, Zenon
  <2>3. setup' \in Setups /\ DOMAIN ctx' = Cortexes'
    BY <1>2, <1>8, <1>9 DEF CortexesOK
  <2>4. \A d \in Cortexes : DOMAIN ctx'[d] = CortexFields /\ ctx'[d].ow \in Nat /\ ctx'[d].oh \in Nat
    BY <1>9, <1>10
  <2>5. Cortexes' = Cortexes
    BY <1>8
  <2>. QED
    BY <2>2, <2>3, <2>4, <2>5 DEF CortexesOK
<1>12. /\ \A d \in Cortexes : ctx'[d].kout < 0
       /\ Gives(Head(todo)) = {PreparedOf(c)}
  BY <1>2, <1>10, PreparingIs
<1>13. PreparedAs(c, s)'
  <2>1. Depth(c)' = Depth(c)
    BY <1>8 DEF Depth
  <2>2. setup' = setup
    BY <1>8
  <2>3. Laid(setup.pipe[c], s, Depth(c) + 1) /\ q = s[Depth(c) + 1]
    BY <1>2, <1>4, <1>5
  <2>4. ctx'[c].iw = s[1].w /\ ctx'[c].ih = s[1].h
    BY <1>2, <1>10
  <2>5. ctx'[c].ow = q.w /\ ctx'[c].oh = q.h /\ ctx'[c].kbufn = End(q) /\ ctx'[c].dwn = q.doff
    BY <1>9
  <2>. QED
    BY <2>1, <2>2, <2>3, <2>4, <2>5 DEF PreparedAs
<1>14. CallsOK'
  <2>1. Needed' = Needed /\ AtHand' = AtHand
    BY <1>8 DEF Needed, Used, ChainMembers, HasCnd, AtHand
  <2>2. ASSUME NEW d \in Cortexes, Prepared(d) PROVE Prepared(d)'
    <3>1. CASE d = c
      BY <3>1, <1>13 DEF Prepared
    <3>2. CASE d # c
      <4>1. ctx'[d] = ctx[d] /\ setup' = setup
        BY <1>8, <1>9, <3>2
      <4>2. ASSUME NEW z PROVE PreparedAs(d, z)' <=> PreparedAs(d, z)
        BY <4>1 DEF PreparedAs, Depth
      <4>. QED
        BY <2>2, <4>2 DEF Prepared
    <3>. QED
      BY <3>1, <3>2
  <2>3. Have \subseteq Have'
    BY <1>8, <1>10, <2>1, <2>2 DEF Have
  <2>4. PreparedOf(c) \in Have'
    <3>1. c \in Cortexes' /\ Prepared(c)'
      BY <1>2, <1>8, <1>13 DEF Prepared
    <3>. QED
      BY <3>1 DEF Have
  <2>5. Have \cup Gives(Head(todo)) \subseteq Have'
    BY <1>12, <2>3, <2>4
  <2>. QED
    BY <1>2, <1>8, <1>12, <2>1, <2>5, ReturnOK
<1>15. RunsOK'
  <2>1. \A d \in Cortexes : ~ (ctx'[d].kout >= 0)
    <3>1. \A d \in Cortexes' : ctx'[d].kout \in Int
      BY <1>11 DEF CortexesOK
    <3>2. ASSUME NEW d \in Cortexes PROVE ~ (ctx'[d].kout >= 0)
      <4>1. PICK x \in Int : x = ctx'[d].kout /\ x < 0
        BY <3>1, <1>8, <1>12
      <4>. QED
        BY <4>1
    <3>. QED
      BY <3>2
  <2>. QED
    BY <1>8, <2>1 DEF RunsOK
<1>16. WalkOK'
  BY <1>8 DEF WalkOK
<1>17. VerdictOK'
  BY <1>8, RunOK DEF EndPrepare, Walking
<1>. QED
  BY <1>11, <1>14, <1>15, <1>16, <1>17 DEF TrainingInv

----------------------------------------------------------------------------
(***************************************************************************)
(* pipe_synth.                                                             *)
(***************************************************************************)
\* What runs has been prepared, what learns has run.
LEMMA RunningIs ==
  ASSUME TrainingInv, todo # <<>>, Head(todo).op \in {"synth", "learn"}
  PROVE  /\ Serves(todo, RoundOps, Have, Needed)
         /\ Head(todo).c \in Cortexes /\ Prepared(Head(todo).c)
         /\ Head(todo).op = "synth" => Gives(Head(todo)) = {RunOf(Head(todo).c)}
         /\ Head(todo).op = "learn" => ctx[Head(todo).c].kout >= 0 /\ Gives(Head(todo)) = {}
<1>1. Have \cup Gives(Head(todo)) \subseteq Have \cup Gives(Head(todo))
  OBVIOUS
<1>2. ~ Serves(todo, PrologueOps, Have, Needed)
  <2>1. Head(todo).op \notin PrologueOps
    BY DEF PrologueOps
  <2>. QED
    BY <1>1, <2>1, ServesRest
<1>3. Serves(todo, RoundOps, Have, Needed)
  BY <1>2 DEF TrainingInv, CallsOK
<1>4. Takes(Head(todo)) \subseteq Have
  BY <1>1, <1>3, ServesRest
<1>5. PreparedOf(Head(todo).c) \in Have
  BY <1>4 DEF Takes
<1>6. Head(todo).c \in Cortexes /\ Prepared(Head(todo).c)
  BY <1>5 DEF Have, AtHand, KnownOf, SourceOf, PreparedOf, RunOf
<1>7. Head(todo).op = "synth" => Gives(Head(todo)) = {RunOf(Head(todo).c)}
  BY DEF Gives
<1>8. ASSUME Head(todo).op = "learn"
      PROVE  ctx[Head(todo).c].kout >= 0 /\ Gives(Head(todo)) = {}
  <2>1. RunOf(Head(todo).c) \in Have
    BY <1>4, <1>8 DEF Takes
  <2>2. ctx[Head(todo).c].kout >= 0
    BY <2>1 DEF Have, AtHand, KnownOf, SourceOf, PreparedOf, RunOf
  <2>. QED
    BY <1>8, <2>2 DEF Gives
<1>. QED
  BY <1>3, <1>6, <1>7, <1>8

LEMMA PreparedIs ==
  ASSUME CortexesOK, NEW c \in Cortexes, NEW s, PreparedAs(c, s)
  PROVE  /\ Depth(c) \in Nat \ {0} /\ Laid(setup.pipe[c], s, Depth(c) + 1)
         /\ s[1] \in Places /\ s[1].at = 0 /\ s[1].doff = 0 /\ s[1].ic = setup.pipe[c][1].ic
         /\ ctx[c].iw = s[1].w /\ ctx[c].ih = s[1].h
         /\ s[Depth(c) + 1] \in Places
         /\ ctx[c].ow = s[Depth(c) + 1].w /\ ctx[c].oh = s[Depth(c) + 1].h
         /\ ctx[c].kbufn = End(s[Depth(c) + 1]) /\ ctx[c].dwn = s[Depth(c) + 1].doff
<1>1. PICK n \in Nat \ {0} : n = Depth(c)
  BY PipeIs DEF CortexesOK
<1>2. Laid(setup.pipe[c], s, n + 1)
  BY <1>1 DEF PreparedAs
<1>3. 1 \in 1 .. n + 1 /\ n + 1 \in 1 .. n + 1
  BY <1>1
<1>4. s[1] \in Places /\ s[n + 1] \in Places
  BY <1>2, <1>3 DEF Laid
<1>5. s[1].at = 0 /\ s[1].doff = 0 /\ s[1].ic = setup.pipe[c][1].ic
  BY <1>2 DEF Laid
<1>. QED
  BY <1>1, <1>2, <1>4, <1>5 DEF PreparedAs

LEMMA StartSynthStep ==
  ASSUME TrainingInv, StartSynth
  PROVE  TrainingInv'
<1>1. /\ CortexesOK /\ todo # <<>> /\ Head(todo).op = "synth"
      /\ setup' = setup /\ todo' = todo /\ verdict' = verdict /\ verdict = "run"
      /\ UNCHANGED <<setup, ctx>>
  BY DEF TrainingInv, StartSynth, Calling
<1>2. PICK c \in Cortexes : c = Head(todo).c /\ Prepared(c)
  BY <1>1, RunningIs
<1>3. PICK s : PreparedAs(c, s)
  BY <1>2 DEF Prepared
<1>4. walk' = [op |-> "synth", c |-> c, k |-> 1, w |-> s[1].w, h |-> s[1].h, off |-> 0]
  BY <1>1, <1>2, <1>3, PreparedIs DEF StartSynth
<1>5. Kept
  BY <1>1, UnchangedKept
<1>6. /\ Under("synth", c)' /\ Depth(c)' = Depth(c) /\ Depth(c) \in Nat \ {0}
      /\ PreparedAs(c, s)'
  <2>1. Under("synth", c)'
    BY <1>1, <1>2 DEF Under, Cortexes
  <2>2. PreparedAs(c, s)' /\ Depth(c)' = Depth(c)
    BY <1>1, <1>3, <1>5, KeptPrepared, KeptIs
  <2>. QED
    BY <2>1, <2>2, <1>1, <1>3, PreparedIs
<1>7. s[1].w \in 0 .. s[1].w /\ s[1].h \in 0 .. s[1].h /\ 0 \in 0 .. s[1].at /\ 0 = s[1].at
  BY <1>1, <1>3, PreparedIs, PlaceIs
<1>8. SynthWalk(c, 1, s, s[1].w, s[1].h, 0)'
  BY <1>4, <1>6, <1>7 DEF SynthWalk
<1>9. WalkOK'
  BY <1>8, Zenon DEF WalkOK
<1>10. VerdictOK'
  BY <1>1, RunOK
<1>. QED
  BY <1>1, <1>5, <1>9, <1>10, KeptOK, KeptCalls DEF TrainingInv

\* A step of a walk over a prepared pipe, from layer k to the next: whatever
\* pipe_synth accepts, it goes on with smaller sizes or the measured ones.
LEMMA SynthGoesOn ==
  ASSUME CortexesOK, NEW c \in Cortexes, NEW s, PreparedAs(c, s), NEW k \in 1 .. Depth(c),
         NEW x \in 0 .. s[k].w, NEW y \in 0 .. s[k].h, NEW at \in 0 .. s[k].at,
         StraightTo(c, k - 1) => x = s[k].w /\ y = s[k].h,
         StraightTo(c, k - 2) => at = s[k].at,
         SynthAccepts(setup.pipe[c][k], x, y)
  PROVE  LET l == setup.pipe[c][k]
             o == SynthShape(l, x, y)
         IN  /\ o.w \in 0 .. s[k + 1].w /\ o.h \in 0 .. s[k + 1].h
             /\ at + x * y * l.ic \in 0 .. s[k + 1].at
             /\ StraightTo(c, k) => o.w = s[k + 1].w /\ o.h = s[k + 1].h
             /\ StraightTo(c, k - 1) => at + x * y * l.ic = s[k + 1].at
             /\ Ran(l)
<1>1. PICK n \in Nat \ {0} : n = Depth(c) /\ Laid(setup.pipe[c], s, n + 1)
  BY PreparedIs
<1>2. PICK p : p = setup.pipe[c]
  OBVIOUS
<1>3. PICK l \in Layers : l = p[k] /\ l = setup.pipe[c][k]
  BY <1>2, PipeIs DEF CortexesOK
<1>4. /\ k \in 1 .. n /\ Laid(p, s, n + 1) /\ p[k] \in Layers
      /\ SynthAccepts(l, x, y)
  BY <1>1, <1>2, <1>3
<1>5. PICK u : u = PrepShape(l, s[k].w, s[k].h)
  OBVIOUS
<1>6. /\ s[k] \in Places /\ s[k + 1] \in Places
      /\ PrepAccepts(l, s[k].ic, s[k].w, s[k].h) /\ s[k].ic = l.ic
      /\ s[k + 1].w = u.w /\ s[k + 1].h = u.h /\ s[k + 1].at = End(s[k])
  <2>1. /\ s[k] \in Places /\ s[k + 1] \in Places
        /\ PrepAccepts(p[k], s[k].ic, s[k].w, s[k].h) /\ s[k].ic = p[k].ic
        /\ s[k + 1].w = PrepShape(p[k], s[k].w, s[k].h).w
        /\ s[k + 1].h = PrepShape(p[k], s[k].w, s[k].h).h
        /\ s[k + 1].at = End(s[k])
    BY <1>1, <1>4, LaidIs
  <2>. QED
    BY <2>1, <1>3, <1>5
<1>7. /\ s[k].w \in Nat /\ s[k].h \in Nat /\ s[k].at \in Nat /\ l.ic \in Nat
      /\ x \in Nat /\ y \in Nat /\ at \in Nat
      /\ x <= s[k].w /\ y <= s[k].h /\ at <= s[k].at
  <2>1. s[k].w \in Nat /\ s[k].h \in Nat /\ s[k].at \in Nat /\ l.ic \in Nat
    BY <1>6, PlaceIs DEF Layers
  <2>. QED
    BY <2>1
<1>8. PICK o : o = SynthShape(l, x, y)
  OBVIOUS
<1>9. o.w \in 0 .. s[k + 1].w /\ o.h \in 0 .. s[k + 1].h
  BY <1>4, <1>5, <1>6, <1>7, <1>8, SynthNarrows
<1>10. PICK a \in Nat, b \in Nat : a = x * y * l.ic /\ b = s[k].w * s[k].h * l.ic /\ a <= b
  <2>1. /\ x * y * l.ic \in Nat /\ s[k].w * s[k].h * l.ic \in Nat
        /\ x * y * l.ic <= s[k].w * s[k].h * l.ic
    BY <1>7, AreaGrows, Zenon
  <2>. QED
    BY <2>1, Zenon
<1>11. s[k + 1].at = s[k].at + b
  BY <1>6, <1>10 DEF End, Room
<1>12. at + a \in 0 .. s[k + 1].at
  BY <1>7, <1>10, <1>11
<1>13. ASSUME StraightTo(c, k - 1) PROVE at + a = s[k + 1].at
  <2>1. StraightTo(c, k - 2)
    BY <1>4, <1>13 DEF StraightTo
  <2>2. x = s[k].w /\ y = s[k].h /\ at = s[k].at
    BY <1>13, <2>1
  <2>. QED
    BY <2>2, <1>10, <1>11
<1>14. ASSUME StraightTo(c, k) PROVE o.w = s[k + 1].w /\ o.h = s[k + 1].h
  <2>1. StraightTo(c, k - 1) /\ ~ ScalesDown(l)
    BY <1>2, <1>3, <1>4, <1>14 DEF StraightTo
  <2>2. x = s[k].w /\ y = s[k].h
    BY <2>1
  <2>3. l.type = "scal" => Scale(l) >= 0 /\ ~ (Scale(l) < 0)
    <3>1. l.type = "scal" => ScaleFactors(l.ic, l.oc) # {}
      BY <1>6, Zenon DEF PrepAccepts, PrepChannels
    <3>2. l.type = "scal" => ~ (Scale(l) < 0)
      BY <2>1, Zenon DEF ScalesDown
    <3>. QED
      BY <3>1, <3>2, ScaleIs
  <2>4. SynthShape(l, x, y) = PrepShape(l, x, y)
    BY <2>3, SynthShapeAgrees
  <2>. QED
    BY <2>2, <2>4, <1>5, <1>6, <1>8
<1>15. Ran(l)
  BY <1>4, <1>7 DEF Ran
<1>. QED
  BY <1>3, <1>8, <1>9, <1>10, <1>12, <1>13, <1>14, <1>15

LEMMA SynthDies ==
  ASSUME CortexesOK, NEW c \in Cortexes, NEW s, PreparedAs(c, s), NEW k \in 1 .. Depth(c),
         NEW x, NEW y, StraightTo(c, k - 1) => x = s[k].w /\ y = s[k].h,
         ~ SynthAccepts(setup.pipe[c][k], x, y)
  PROVE  \E j \in 1 .. Depth(c) : Refused(setup.pipe[c][j]) \/ ScalesDown(setup.pipe[c][j])
<1>1. PICK n \in Nat \ {0} : n = Depth(c) /\ Laid(setup.pipe[c], s, n + 1)
  BY PreparedIs
<1>2. CASE ~ StraightTo(c, k - 1)
  BY <1>1, <1>2 DEF StraightTo
<1>3. CASE StraightTo(c, k - 1)
  <2>1. PICK p : p = setup.pipe[c]
    OBVIOUS
  <2>2. PICK l \in Layers : l = p[k] /\ l = setup.pipe[c][k]
    BY <2>1, PipeIs DEF CortexesOK
  <2>3. k \in 1 .. n /\ Laid(p, s, n + 1) /\ p[k] \in Layers
    BY <1>1, <2>1, <2>2
  <2>4. s[k] \in Places /\ PrepAccepts(l, s[k].ic, s[k].w, s[k].h)
    <3>1. s[k] \in Places /\ PrepAccepts(p[k], s[k].ic, s[k].w, s[k].h)
      BY <1>1, <2>3, LaidIs
    <3>. QED
      BY <3>1, <2>2
  <2>5. s[k].w \in Nat /\ s[k].h \in Nat
    BY <2>4, PlaceIs
  <2>6. ~ SynthAccepts(l, s[k].w, s[k].h)
    BY <1>3, <2>2
  <2>7. Refused(l) \/ ScalesDown(l)
    BY <2>4, <2>5, <2>6, LayerAgrees
  <2>. QED
    BY <2>2, <2>7
<1>. QED
  BY <1>2, <1>3

LEMMA SynthLayerStep ==
  ASSUME TrainingInv, SynthLayer
  PROVE  TrainingInv'
<1>1. PICK c, k, s, x, y, at : SynthWalk(c, k, s, x, y, at)
  BY WalkIs DEF TrainingInv, SynthLayer, Walking
<1>2. /\ CortexesOK /\ c \in Cortexes /\ Depth(c) \in Nat \ {0} /\ k \in 1 .. Depth(c) + 1
      /\ PreparedAs(c, s)
      /\ walk = [op |-> "synth", c |-> c, k |-> k, w |-> x, h |-> y, off |-> at]
  BY <1>1, PreparedIs DEF TrainingInv, SynthWalk, Under
<1>3. /\ x \in 0 .. s[k].w /\ y \in 0 .. s[k].h /\ at \in 0 .. s[k].at
      /\ StraightTo(c, k - 1) => x = s[k].w /\ y = s[k].h
      /\ StraightTo(c, k - 2) => at = s[k].at
      /\ \A j \in 1 .. k - 1 : Ran(setup.pipe[c][j])
  BY <1>1 DEF SynthWalk
<1>4. PICK l : l = setup.pipe[c][k]
  OBVIOUS
<1>5. walk.c = c /\ walk.k = k /\ walk.w = x /\ walk.h = y /\ Layer = l
  BY <1>2, <1>4 DEF Layer
<1>6. k \in 1 .. Depth(c) /\ k \in Nat \ {0}
  BY <1>2, <1>5 DEF SynthLayer, AtEnd, Depth
<1>7. CASE ~ SynthAccepts(l, x, y)
  <2>1. Die("synth")
    BY <1>5, <1>7, Zenon DEF SynthLayer
  <2>2. \E j \in 1 .. Depth(c) : Refused(setup.pipe[c][j]) \/ ScalesDown(setup.pipe[c][j])
    BY <1>2, <1>3, <1>4, <1>6, <1>7, SynthDies
  <2>3. \E j \in DOMAIN setup.pipe[walk.c] :
          Refused(setup.pipe[walk.c][j]) \/ ScalesDown(setup.pipe[walk.c][j])
    BY <2>2, <1>2, <1>5, PipeIs DEF CortexesOK
  <2>4. setup' = setup /\ walk' = walk /\ verdict' = "synth"
    BY <2>1 DEF Die
  <2>5. PreparedPipesRun'
    BY <2>3, <2>4, Zenon DEF PreparedPipesRun
  <2>6. VerdictOK'
    BY <2>4, <2>5 DEF VerdictOK, RunPipesLearn
  <2>. QED
    BY <2>1, <2>6, DieInv
<1>8. CASE SynthAccepts(l, x, y)
  <2>1. PICK o : o = SynthShape(l, x, y)
    OBVIOUS
  <2>2. UNCHANGED <<setup, host, todo, iter, rep, updated, verdict>>
    BY <1>5, <1>8, Zenon DEF SynthLayer
  <2>3. walk' = [walk EXCEPT !.k = @ + 1, !.w = o.w, !.h = o.h, !.off = @ + InN]
    BY <1>5, <1>8, <2>1, Zenon DEF SynthLayer
  <2>4. PICK v : ctx' = [ctx EXCEPT ![c].kbuf = v]
    BY <1>5, <1>8 DEF SynthLayer
  <2>5. Kept
    BY <1>2, <2>2, <2>4, KbufKept
  <2>6. InN = x * y * l.ic
    BY <1>5 DEF InN
  <2>7. walk' = [op |-> "synth", c |-> c, k |-> k + 1, w |-> o.w, h |-> o.h,
                 off |-> at + x * y * l.ic]
    BY <1>2, <2>3, <2>6
  <2>8. /\ o.w \in 0 .. s[k + 1].w /\ o.h \in 0 .. s[k + 1].h
        /\ at + x * y * l.ic \in 0 .. s[k + 1].at
        /\ StraightTo(c, k) => o.w = s[k + 1].w /\ o.h = s[k + 1].h
        /\ StraightTo(c, k - 1) => at + x * y * l.ic = s[k + 1].at
        /\ Ran(l)
    BY <1>2, <1>3, <1>4, <1>6, <1>8, <2>1, SynthGoesOn
  <2>9. Under("synth", c)' /\ Depth(c)' = Depth(c) /\ PreparedAs(c, s)'
        /\ setup' = setup
    <3>1. Under("synth", c)'
      BY <1>1, <2>2 DEF SynthWalk, Under, Cortexes
    <3>2. PreparedAs(c, s)' /\ Depth(c)' = Depth(c)
      BY <1>2, <2>5, KeptPrepared, KeptIs
    <3>. QED
      BY <3>1, <3>2, <2>2
  <2>10. \A j \in 1 .. (k + 1) - 1 : Ran(setup.pipe[c][j])
    BY <1>3, <1>4, <1>6, <2>8
  <2>11. (k + 1) - 1 = k /\ (k + 1) - 2 = k - 1 /\ k + 1 \in 1 .. Depth(c) + 1
    BY <1>2, <1>6
  <2>12. \A j : StraightTo(c, j)' <=> StraightTo(c, j)
    BY <2>9 DEF StraightTo
  <2>13. SynthWalk(c, k + 1, s, o.w, o.h, at + x * y * l.ic)'
    BY <2>7, <2>8, <2>9, <2>10, <2>11, <2>12 DEF SynthWalk
  <2>14. WalkOK'
    BY <2>13, Zenon DEF WalkOK
  <2>15. VerdictOK'
    BY <2>2, RunOK DEF SynthLayer, Walking
  <2>. QED
    BY <2>2, <2>5, <2>14, <2>15, KeptOK, KeptCalls DEF TrainingInv
<1>. QED
  BY <1>7, <1>8

LEMMA EndSynthStep ==
  ASSUME TrainingInv, EndSynth
  PROVE  TrainingInv'
<1>1. PICK c, k, s, x, y, at : SynthWalk(c, k, s, x, y, at)
  BY WalkIs DEF TrainingInv, EndSynth, Walking
<1>2. /\ CortexesOK /\ c \in Cortexes /\ Depth(c) \in Nat \ {0} /\ k \in 1 .. Depth(c) + 1
      /\ PreparedAs(c, s)
      /\ walk = [op |-> "synth", c |-> c, k |-> k, w |-> x, h |-> y, off |-> at]
      /\ todo # <<>> /\ Head(todo).op = "synth" /\ Head(todo).c = c
  BY <1>1, PreparedIs DEF TrainingInv, SynthWalk, Under
<1>3. /\ at \in 0 .. s[k].at
      /\ StraightTo(c, k - 2) => at = s[k].at
      /\ \A j \in 1 .. k - 1 : Ran(setup.pipe[c][j])
  BY <1>1 DEF SynthWalk
<1>4. walk.c = c /\ walk.k = k /\ walk.off = at
  BY <1>2
<1>5. PICK n \in Nat \ {0} : n = Depth(c) /\ k = n + 1
  BY <1>2, <1>4 DEF EndSynth, AtEnd, Depth
<1>6. PICK q \in Places : q = s[n + 1]
  BY <1>2, <1>5, PreparedIs
<1>7. at \in Nat
  BY <1>3, <1>5, <1>6, PlaceIs
<1>8. /\ ctx' = [ctx EXCEPT ![c].kout = at]
      /\ walk' = Idle /\ todo' = Tail(todo) /\ setup' = setup /\ verdict' = verdict
      /\ Cortexes' = Cortexes
  BY <1>4 DEF EndSynth, Return, Cortexes
<1>9. /\ DOMAIN ctx' = Cortexes
      /\ \A d \in Cortexes :
           /\ DOMAIN ctx'[d] = CortexFields
           /\ d # c => ctx'[d] = ctx[d]
      /\ ctx'[c].kout = at
      /\ \A g \in CortexFields \ {"kout"} : ctx'[c][g] = ctx[c][g]
  <2>1. PICK q0 : q0 = ctx[c]
    OBVIOUS
  <2>2. PICK r : r = [q0 EXCEPT !["kout"] = at]
    OBVIOUS
  <2>3. DOMAIN q0 = CortexFields /\ DOMAIN r = CortexFields
    BY <1>2, <2>1, <2>2 DEF CortexesOK
  <2>4. "kout" \in CortexFields
    BY DEF CortexFields
  <2>5. r.kout = at /\ \A g \in CortexFields \ {"kout"} : r[g] = q0[g]
    BY <2>2, <2>3, <2>4
  <2>6. DOMAIN ctx' = Cortexes
    BY <1>2, <1>8 DEF CortexesOK
  <2>7. \A d \in Cortexes : ctx'[d] = IF d = c THEN r ELSE ctx[d]
    BY <1>2, <1>8, <2>1, <2>2 DEF CortexesOK
  <2>. QED
    BY <1>2, <2>1, <2>3, <2>5, <2>6, <2>7 DEF CortexesOK
<1>10. \A d \in Cortexes :
         /\ ctx'[d].iw = ctx[d].iw /\ ctx'[d].ih = ctx[d].ih /\ ctx'[d].ic = ctx[d].ic
         /\ ctx'[d].ow = ctx[d].ow /\ ctx'[d].oh = ctx[d].oh /\ ctx'[d].oc = ctx[d].oc
         /\ ctx'[d].kbufn = ctx[d].kbufn /\ ctx'[d].dwn = ctx[d].dwn
  <2>1. {"iw", "ih", "ic", "ow", "oh", "oc", "kbufn", "dwn"} \subseteq CortexFields \ {"kout"}
    BY DEF CortexFields
  <2>. QED
    BY <1>2, <1>9, <2>1
<1>11. CortexesOK'
  <2>1. \A d \in Cortexes : PipeIc(d)' = PipeIc(d) /\ PipeOc(d)' = PipeOc(d)
    BY <1>8 DEF PipeIc, PipeOc
  <2>2. \A d \in Cortexes :
          /\ ctx'[d].iw \in Nat /\ ctx'[d].ih \in Nat /\ ctx'[d].ow \in Nat /\ ctx'[d].oh \in Nat
          /\ ctx'[d].ic = PipeIc(d)' /\ ctx'[d].oc = PipeOc(d)'
    <3>1. \A d \in Cortexes :
            /\ ctx[d].iw \in Nat /\ ctx[d].ih \in Nat /\ ctx[d].ow \in Nat /\ ctx[d].oh \in Nat
            /\ ctx[d].ic = PipeIc(d) /\ ctx[d].oc = PipeOc(d)
      BY <1>2 DEF CortexesOK
    <3>. QED
      BY <1>10, <2>1, <3>1, Zenon
  <2>3. setup' \in Setups /\ DOMAIN ctx' = Cortexes' /\ Cortexes' = Cortexes
    BY <1>2, <1>8, <1>9 DEF CortexesOK
  <2>4. \A d \in Cortexes : DOMAIN ctx'[d] = CortexFields /\ ctx'[d].kout \in Int
    BY <1>2, <1>7, <1>9 DEF CortexesOK
  <2>. QED
    BY <2>2, <2>3, <2>4 DEF CortexesOK
<1>12. ASSUME NEW d \in Cortexes PROVE Prepared(d)' <=> Prepared(d)
  <2>1. setup' = setup
    BY <1>8
  <2>2. ASSUME NEW z PROVE PreparedAs(d, z)' <=> PreparedAs(d, z)
    BY <1>10, <2>1 DEF PreparedAs, Depth
  <2>. QED
    BY <2>2 DEF Prepared
<1>13. CallsOK'
  <2>1. Needed' = Needed /\ AtHand' = AtHand
    BY <1>8 DEF Needed, Used, ChainMembers, HasCnd, AtHand
  <2>2. ASSUME NEW d \in Cortexes, ctx[d].kout >= 0 PROVE ctx'[d].kout >= 0
    BY <1>7, <1>9, <2>2
  <2>3. Have \subseteq Have'
    BY <1>8, <1>12, <2>1, <2>2 DEF Have
  <2>4. RunOf(c) \in Have'
    BY <1>2, <1>7, <1>8, <1>9 DEF Have
  <2>5. Gives(Head(todo)) = {RunOf(c)}
    BY <1>2, RunningIs
  <2>6. Have \cup Gives(Head(todo)) \subseteq Have'
    BY <2>3, <2>4, <2>5
  <2>. QED
    BY <1>2, <1>8, <2>1, <2>6, ReturnOK
<1>14. ASSUME NEW d \in Cortexes, ctx'[d].kout >= 0
       PROVE  /\ \A j \in 1 .. Depth(d) : Ran(setup.pipe[d][j])
              /\ Straight(d) => ctx'[d].kout + OutSize(d)' = ctx'[d].kbufn
  <2>1. OutSize(d)' = OutSize(d)
    BY <1>10 DEF OutSize
  <2>2. CASE d # c
    BY <1>9, <1>14, <2>1, <2>2 DEF TrainingInv, RunsOK
  <2>3. CASE d = c
    <3>1. \A j \in 1 .. Depth(d) : Ran(setup.pipe[d][j])
      BY <1>3, <1>5, <2>3
    <3>2. ASSUME Straight(c) PROVE at + OutSize(c) = ctx[c].kbufn
      <4>1. StraightTo(c, k - 2)
        BY <1>5, <3>2 DEF Straight, StraightTo, Depth
      <4>2. at = q.at
        BY <4>1, <1>3, <1>5, <1>6
      <4>3. ctx[c].ow = q.w /\ ctx[c].oh = q.h /\ ctx[c].kbufn = End(q)
        BY <1>2, <1>5, <1>6, PreparedIs
      <4>4. ctx[c].oc = q.ic
        <5>1. ctx[c].oc = setup.pipe[c][n].oc
          BY <1>2, <1>5, PipeIs DEF CortexesOK
        <5>2. PICK p : p = setup.pipe[c]
          OBVIOUS
        <5>3. Laid(p, s, n + 1) /\ p[n] \in Layers /\ n \in 1 .. n
          BY <1>2, <1>5, <5>2, PipeIs, PreparedIs DEF CortexesOK
        <5>4. s[n + 1].ic = p[n].oc
          BY <5>3, <1>5, LaidIs
        <5>. QED
          BY <5>1, <5>2, <5>4, <1>6
      <4>. QED
        BY <4>2, <4>3, <4>4 DEF End, Room, OutSize
    <3>. QED
      BY <3>1, <3>2, <2>1, <2>3, <1>2, <1>9, <1>10
  <2>. QED
    BY <2>2, <2>3
<1>15. RunsOK'
  <2>1. setup' = setup /\ Cortexes' = Cortexes
    BY <1>8
  <2>2. \A d : Depth(d)' = Depth(d) /\ (Straight(d)' <=> Straight(d))
    BY <2>1 DEF Depth, Straight
  <2>. QED
    BY <1>14, <2>1, <2>2 DEF RunsOK
<1>16. WalkOK'
  BY <1>8 DEF WalkOK
<1>17. VerdictOK'
  BY <1>8, RunOK DEF EndSynth, Walking
<1>. QED
  BY <1>11, <1>13, <1>15, <1>16, <1>17 DEF TrainingInv

----------------------------------------------------------------------------
(***************************************************************************)
(* pipe_learn.                                                             *)
(***************************************************************************)
LEMMA RoundsKept ==
  ASSUME CortexesOK, setup' = setup, NEW c \in Cortexes, NEW v,
         ctx' = [ctx EXCEPT ![c].rounds = v]
  PROVE  Kept
<1>1. DOMAIN ctx' = DOMAIN ctx
  OBVIOUS
<1>2. ASSUME NEW d \in Cortexes
      PROVE  ctx'[d] = IF d = c THEN [ctx[d] EXCEPT !["rounds"] = v] ELSE ctx[d]
  BY DEF CortexesOK
<1>3. "rounds" \in Passing /\ \A d \in Cortexes : DOMAIN ctx[d] = CortexFields
  BY DEF Passing, CortexFields, LastingFields, CortexesOK
<1>4. \A d \in Cortexes : Alike(ctx'[d], ctx[d])
  <2>1. ASSUME NEW d \in Cortexes PROVE Alike([ctx[d] EXCEPT !["rounds"] = v], ctx[d])
    BY <1>3, PassingKept
  <2>2. ASSUME NEW d \in Cortexes PROVE Alike(ctx[d], ctx[d])
    BY <1>3 DEF Alike
  <2>. QED
    BY <2>1, <2>2, <1>2
<1>. QED
  BY <1>1, <1>4, AlikeKept

LEMMA AlikeTwice ==
  ASSUME NEW q, NEW r, NEW z, Alike(q, r), Alike(r, z)
  PROVE  Alike(q, z)
BY DEF Alike

LEMMA GradientsKept ==
  ASSUME CortexesOK, setup' = setup, NEW c \in Cortexes, NEW v, NEW w,
         ctx' = [ctx EXCEPT ![c].kbuf = v, ![c].dw = w]
  PROVE  Kept
<1>1. PICK t : t = [ctx EXCEPT ![c].kbuf = v]
  OBVIOUS
<1>2. ctx' = [t EXCEPT ![c].dw = w]
  BY <1>1
<1>3. DOMAIN ctx' = DOMAIN ctx
  BY <1>1, <1>2
<1>4. ASSUME NEW d \in Cortexes
      PROVE  t[d] = IF d = c THEN [ctx[d] EXCEPT !["kbuf"] = v] ELSE ctx[d]
  BY <1>1 DEF CortexesOK
<1>5. ASSUME NEW d \in Cortexes
      PROVE  ctx'[d] = IF d = c THEN [t[d] EXCEPT !["dw"] = w] ELSE t[d]
  BY <1>1, <1>2 DEF CortexesOK
<1>6. "kbuf" \in Passing /\ "dw" \in Passing
  BY DEF Passing, CortexFields, LastingFields
<1>7. \A d \in Cortexes : Alike(t[d], ctx[d])
  <2>1. \A d \in Cortexes : DOMAIN ctx[d] = CortexFields
    BY DEF CortexesOK
  <2>2. ASSUME NEW d \in Cortexes PROVE Alike([ctx[d] EXCEPT !["kbuf"] = v], ctx[d])
    BY <2>1, <1>6, PassingKept
  <2>3. ASSUME NEW d \in Cortexes PROVE Alike(ctx[d], ctx[d])
    BY <2>1 DEF Alike
  <2>. QED
    BY <2>2, <2>3, <1>4
<1>8. \A d \in Cortexes : Alike(ctx'[d], t[d])
  <2>1. \A d \in Cortexes : DOMAIN t[d] = CortexFields
    BY <1>7 DEF Alike
  <2>2. ASSUME NEW d \in Cortexes PROVE Alike([t[d] EXCEPT !["dw"] = w], t[d])
    BY <2>1, <1>6, PassingKept
  <2>3. ASSUME NEW d \in Cortexes PROVE Alike(t[d], t[d])
    BY <2>1 DEF Alike
  <2>. QED
    BY <2>2, <2>3, <1>5
<1>9. \A d \in Cortexes : Alike(ctx'[d], ctx[d])
  BY <1>7, <1>8, AlikeTwice
<1>. QED
  BY <1>3, <1>9, AlikeKept

LEMMA StartLearnStep ==
  ASSUME TrainingInv, StartLearn
  PROVE  TrainingInv'
<1>1. /\ CortexesOK /\ todo # <<>> /\ Head(todo).op = "learn"
      /\ setup' = setup /\ todo' = todo /\ verdict' = verdict /\ verdict = "run"
  BY DEF TrainingInv, StartLearn, Calling
<1>2. PICK c \in Cortexes : c = Head(todo).c /\ Prepared(c)
  BY <1>1, RunningIs
<1>3. PICK s : PreparedAs(c, s)
  BY <1>2 DEF Prepared
<1>4. PICK how : how = Head(todo).how
  OBVIOUS
<1>5. walk' = [op |-> "down", c |-> c, k |-> 1, w |-> s[1].w, h |-> s[1].h, off |-> s[1].at,
               doff |-> s[1].doff, how |-> how, frames |-> <<>>]
  BY <1>1, <1>2, <1>3, <1>4, PreparedIs DEF StartLearn
<1>6. Kept
  <2>1. PICK v : ctx' = [ctx EXCEPT ![c].rounds = v]
    BY <1>2 DEF StartLearn
  <2>. QED
    BY <1>1, <2>1, RoundsKept
<1>7. /\ Under("learn", c)' /\ Depth(c)' = Depth(c) /\ Depth(c) \in Nat \ {0}
      /\ PreparedAs(c, s)'
  <2>1. Under("learn", c)'
    BY <1>1, <1>2 DEF Under, Cortexes
  <2>2. PreparedAs(c, s)' /\ Depth(c)' = Depth(c)
    BY <1>1, <1>3, <1>6, KeptPrepared, KeptIs
  <2>. QED
    BY <2>1, <2>2, <1>1, <1>3, PreparedIs
<1>8. <<>> \in Seq(ToSet(<<>>)) /\ Len(<<>>) = 1 - 1
  OBVIOUS
<1>9. DownWalk(c, 1, s, how, <<>>)'
  BY <1>5, <1>7, <1>8 DEF DownWalk
<1>10. WalkOK'
  BY <1>9, Zenon DEF WalkOK
<1>11. VerdictOK'
  BY <1>1, RunOK
<1>. QED
  BY <1>1, <1>6, <1>10, <1>11, KeptOK, KeptCalls DEF TrainingInv

LEMMA LearnDownStep ==
  ASSUME TrainingInv, LearnDown
  PROVE  TrainingInv'
<1>1. PICK c, k, s, how, frames : DownWalk(c, k, s, how, frames)
  BY WalkIs DEF TrainingInv, LearnDown, Walking
<1>2. /\ CortexesOK /\ c \in Cortexes /\ Depth(c) \in Nat \ {0} /\ k \in 1 .. Depth(c) + 1
      /\ PreparedAs(c, s) /\ Laid(setup.pipe[c], s, Depth(c) + 1)
      /\ frames \in Seq(ToSet(frames)) /\ Len(frames) = k - 1
      /\ walk = [op |-> "down", c |-> c, k |-> k, w |-> s[k].w, h |-> s[k].h, off |-> s[k].at,
                 doff |-> s[k].doff, how |-> how, frames |-> frames]
  BY <1>1, PreparedIs DEF TrainingInv, DownWalk, Under
<1>3. PICK p : p = setup.pipe[c]
  OBVIOUS
<1>4. walk.c = c /\ walk.k = k /\ walk.w = s[k].w /\ walk.h = s[k].h /\ Layer = p[k]
  BY <1>2, <1>3 DEF Layer
<1>5. PICK n \in Nat \ {0} : n = Depth(c) /\ k \in 1 .. n /\ k \in Nat \ {0}
  BY <1>2, <1>4 DEF LearnDown, AtEnd, Depth
<1>6. Laid(p, s, n + 1) /\ p[k] \in Layers
  BY <1>2, <1>3, <1>5, PipeIs DEF CortexesOK
<1>7. PICK o : o = PrepShape(p[k], s[k].w, s[k].h)
  OBVIOUS
<1>8. /\ s[k] \in Places /\ PrepAccepts(p[k], s[k].ic, s[k].w, s[k].h) /\ s[k].ic = p[k].ic
      /\ s[k + 1].w = PrepShape(p[k], s[k].w, s[k].h).w
      /\ s[k + 1].h = PrepShape(p[k], s[k].w, s[k].h).h
      /\ s[k + 1].at = End(s[k]) /\ s[k + 1].doff = s[k].doff + p[k].len \div 3
  BY <1>5, <1>6, LaidIs
<1>9. s[k].w \in Nat /\ s[k].h \in Nat
  BY <1>8, PlaceIs
<1>10. LearnAccepts(p[k], s[k].w, s[k].h) /\ LearnShape(p[k], s[k].w, s[k].h) = o
  BY <1>6, <1>7, <1>8, <1>9, PrepLearns
<1>11. UNCHANGED <<setup, ctx, host, todo, iter, rep, updated, verdict>>
  <2>1. LearnAccepts(Layer, walk.w, walk.h)
    BY <1>4, <1>10
  <2>. QED
    BY <2>1, Zenon DEF LearnDown
<1>12. PICK f : walk' = [walk EXCEPT !.k = @ + 1, !.w = o.w, !.h = o.h, !.off = @ + InN,
                                     !.doff = @ + p[k].len \div 3, !.frames = Append(@, f)]
  <2>1. LearnAccepts(Layer, walk.w, walk.h) /\ LearnShape(Layer, walk.w, walk.h) = o
    BY <1>4, <1>10
  <2>2. PICK f : walk' = [walk EXCEPT !.k = @ + 1, !.w = o.w, !.h = o.h, !.off = @ + InN,
                                      !.doff = @ + Layer.len \div 3, !.frames = Append(@, f)]
    BY <2>1, Zenon DEF LearnDown
  <2>. QED
    BY <2>2, <1>4, Zenon
<1>13. PICK g : g = Append(frames, f)
  OBVIOUS
<1>14. g \in Seq(ToSet(g)) /\ Len(g) = k
  <2>1. g \in Seq(ToSet(frames) \cup {f}) /\ Len(g) = k
    <3>1. frames \in Seq(ToSet(frames) \cup {f}) /\ f \in ToSet(frames) \cup {f}
      BY <1>2
    <3>2. Append(frames, f) \in Seq(ToSet(frames) \cup {f}) /\ Len(Append(frames, f)) = Len(frames) + 1
      BY <3>1, AppendProperties
    <3>. QED
      BY <3>2, <1>2, <1>5, <1>13
  <2>. QED
    BY <2>1, SetOfSeq
<1>15. InN = s[k].w * s[k].h * p[k].ic
  BY <1>4 DEF InN
<1>16. s[k].at + InN = s[k + 1].at
  BY <1>8, <1>15 DEF End, Room
<1>17. walk' = [op |-> "down", c |-> c, k |-> k + 1, w |-> s[k + 1].w, h |-> s[k + 1].h,
                off |-> s[k + 1].at, doff |-> s[k + 1].doff, how |-> how, frames |-> g]
  BY <1>2, <1>7, <1>8, <1>12, <1>13, <1>16
<1>18. Kept
  BY <1>11, UnchangedKept
<1>19. Under("learn", c)' /\ Depth(c)' = Depth(c) /\ PreparedAs(c, s)'
  <2>1. Under("learn", c)'
    BY <1>1, <1>11 DEF DownWalk, Under, Cortexes
  <2>2. PreparedAs(c, s)' /\ Depth(c)' = Depth(c)
    BY <1>2, <1>18, KeptPrepared, KeptIs
  <2>. QED
    BY <2>1, <2>2
<1>20. (k + 1) - 1 = k /\ k + 1 \in 1 .. Depth(c) + 1
  BY <1>5
<1>21. DownWalk(c, k + 1, s, how, g)'
  BY <1>14, <1>17, <1>19, <1>20 DEF DownWalk
<1>22. WalkOK'
  BY <1>21, Zenon DEF WalkOK
<1>23. VerdictOK'
  BY <1>11, RunOK DEF LearnDown, Walking
<1>. QED
  BY <1>11, <1>18, <1>22, <1>23, KeptOK, KeptCalls DEF TrainingInv

LEMMA LearnBottomStep ==
  ASSUME TrainingInv, LearnBottom
  PROVE  TrainingInv'
<1>1. PICK c, k, s, how, frames : DownWalk(c, k, s, how, frames)
  BY WalkIs DEF TrainingInv, LearnBottom, Walking
<1>2. /\ CortexesOK /\ c \in Cortexes /\ Depth(c) \in Nat \ {0} /\ k \in 1 .. Depth(c) + 1
      /\ frames \in Seq(ToSet(frames)) /\ Len(frames) = k - 1
      /\ walk = [op |-> "down", c |-> c, k |-> k, w |-> s[k].w, h |-> s[k].h, off |-> s[k].at,
                 doff |-> s[k].doff, how |-> how, frames |-> frames]
  BY <1>1, PreparedIs DEF TrainingInv, DownWalk, Under
<1>3. /\ walk' = [walk EXCEPT !.op = "up", !.k = @ - 1]
      /\ UNCHANGED <<setup, ctx>> /\ todo' = todo /\ verdict' = verdict
  BY DEF LearnBottom
<1>4. walk' = [op |-> "up", c |-> c, k |-> k - 1, w |-> s[k].w, h |-> s[k].h, off |-> s[k].at,
               doff |-> s[k].doff, how |-> how, frames |-> frames]
  BY <1>2, <1>3
<1>5. Kept
  BY <1>3, UnchangedKept
<1>6. Under("learn", c)' /\ Depth(c)' = Depth(c) /\ Len(frames) <= Depth(c)
  BY <1>1, <1>2, <1>3 DEF DownWalk, Under, Cortexes, Depth
<1>7. UpWalk(c, frames)'
  BY <1>2, <1>4, <1>6 DEF UpWalk
<1>8. WalkOK'
  BY <1>7, Zenon DEF WalkOK
<1>9. VerdictOK'
  BY <1>3, RunOK DEF LearnBottom, Walking
<1>. QED
  BY <1>3, <1>5, <1>8, <1>9, KeptOK, KeptCalls DEF TrainingInv

LEMMA LearnUpStep ==
  ASSUME TrainingInv, LearnUp
  PROVE  TrainingInv'
<1>1. PICK c, frames : UpWalk(c, frames)
  BY WalkIs DEF TrainingInv, LearnUp, Walking
<1>2. /\ CortexesOK /\ c \in Cortexes /\ Depth(c) \in Nat \ {0}
      /\ frames \in Seq(ToSet(frames)) /\ Len(frames) <= Depth(c)
      /\ DOMAIN walk = {"op", "c", "k", "w", "h", "off", "doff", "how", "frames"}
      /\ walk.op = "up" /\ walk.c = c /\ walk.k = Len(frames) /\ walk.frames = frames
      /\ todo # <<>> /\ Head(todo).op = "learn" /\ Head(todo).c = c
  BY <1>1, PipeIs DEF TrainingInv, CortexesOK, UpWalk, Under
<1>3. PICK n \in Nat : Len(frames) = n + 1
  <2>1. frames # <<>>
    BY <1>2 DEF LearnUp
  <2>2. Len(frames) \in Nat /\ Len(frames) # 0
    BY <1>2, <2>1
  <2>3. Len(frames) - 1 \in Nat /\ Len(frames) = (Len(frames) - 1) + 1
    BY <2>2
  <2>. QED
    BY <2>3
<1>4. PICK l : l = setup.pipe[c][n + 1]
  OBVIOUS
<1>5. Layer = l /\ n + 1 \in 1 .. Depth(c)
  BY <1>2, <1>3, <1>4 DEF Layer
<1>6. CASE ~ BackAccepts(l)
  <2>1. Die("back")
    BY <1>5, <1>6, Zenon DEF LearnUp
  <2>2. ctx[c].kout >= 0
    BY <1>2, RunningIs
  <2>3. Ran(l)
    BY <1>2, <1>4, <1>5, <2>2 DEF TrainingInv, RunsOK
  <2>4. PICK x \in Nat, y \in Nat : SynthAccepts(l, x, y)
    BY <2>3 DEF Ran
  <2>5. l.type \in Unlearnable
    <3>1. l \in Layers
      BY <1>2, <1>4, <1>5, PipeIs DEF CortexesOK
    <3>. QED
      BY <2>4, <3>1, <1>6, SynthReturns
  <2>6. \E j \in DOMAIN setup.pipe[walk.c] : setup.pipe[walk.c][j].type \in Unlearnable
    BY <2>5, <1>2, <1>4, <1>5, PipeIs DEF CortexesOK
  <2>7. setup' = setup /\ walk' = walk /\ verdict' = "back"
    BY <2>1 DEF Die
  <2>8. RunPipesLearn'
    BY <2>6, <2>7 DEF RunPipesLearn
  <2>9. VerdictOK'
    BY <2>7, <2>8 DEF VerdictOK, PreparedPipesRun
  <2>. QED
    BY <2>1, <2>9, DieInv
<1>7. CASE BackAccepts(l)
  <2>1. UNCHANGED <<setup, host, todo, iter, rep, verdict>>
    BY <1>5, <1>7, Zenon DEF LearnUp
  <2>2. walk' = [walk EXCEPT !.k = @ - 1, !.frames = Front(@)]
    BY <1>5, <1>7, Zenon DEF LearnUp
  <2>3. ctx' = [ctx EXCEPT
                 ![walk.c].kbuf =
                    Store(@, Frame.off, Frame.w * Frame.h * Layer.ic,
                          [j \in DOMAIN BackIn |-> [BackIn[j] EXCEPT !.grad = BackOut[1].grad]]),
                 ![walk.c].dw[Frame.doff] =
                    IF ~(Layer.len > 0 /\ walk.how # "propback") THEN @
                    ELSE IF walk.how = "learn" THEN {}
                    ELSE ctx[walk.c].dw[Frame.doff]
                           \cup {[of |-> Sources(BackIn), grad |-> BackOut[1].grad]}]
    <3>1. BackAccepts(Layer)
      BY <1>5, <1>7, Zenon
    <3>. QED
      BY <3>1, Zenon DEF LearnUp
  <2>4. PICK v, z : ctx' = [ctx EXCEPT ![c].kbuf = v, ![c].dw = z]
    <3>1. PICK v : v = Store(ctx[c].kbuf, Frame.off, Frame.w * Frame.h * Layer.ic,
                             [j \in DOMAIN BackIn |->
                                [BackIn[j] EXCEPT !.grad = BackOut[1].grad]])
      OBVIOUS
    <3>2. PICK t : t = [ctx EXCEPT ![c].kbuf = v]
      OBVIOUS
    <3>3. PICK w : w = IF ~(Layer.len > 0 /\ walk.how # "propback") THEN t[c].dw[Frame.doff]
                       ELSE IF walk.how = "learn" THEN {}
                       ELSE ctx[c].dw[Frame.doff]
                              \cup {[of |-> Sources(BackIn), grad |-> BackOut[1].grad]}
      OBVIOUS
    <3>4. ctx' = [t EXCEPT ![c].dw[Frame.doff] = w]
      BY <2>3, <1>2, <3>1, <3>2, <3>3
    <3>5. PICK z : z = [t[c].dw EXCEPT ![Frame.doff] = w]
      OBVIOUS
    <3>6. ctx' = [t EXCEPT ![c].dw = z]
      BY <3>4, <3>5
    <3>. QED
      BY <3>2, <3>6
  <2>5. Kept
    BY <1>2, <2>1, <2>4, GradientsKept
  <2>6. PICK g : g = Front(frames)
    OBVIOUS
  <2>7. g \in Seq(ToSet(g)) /\ Len(g) = n
    <3>1. Front(frames) = SubSeq(frames, 1, n)
      BY <1>3 DEF Front
    <3>2. SubSeq(frames, 1, n) \in Seq(ToSet(frames)) /\ Len(SubSeq(frames, 1, n)) = n
      <4>1. 1 \in 1 .. Len(frames) + 1 /\ n \in 1 - 1 .. Len(frames)
        BY <1>3
      <4>2. /\ SubSeq(frames, 1, n) \in Seq(ToSet(frames))
            /\ Len(SubSeq(frames, 1, n)) = IF 1 <= n THEN n - 1 + 1 ELSE 0
        BY <1>2, <4>1, SubSeqProperties
      <4>. QED
        BY <4>2
    <3>. QED
      BY <2>6, <3>1, <3>2, SetOfSeq
  <2>8. /\ DOMAIN walk' = {"op", "c", "k", "w", "h", "off", "doff", "how", "frames"}
        /\ walk'.op = "up" /\ walk'.c = c /\ walk'.k = n /\ walk'.frames = g
    BY <1>2, <1>3, <2>2, <2>6
  <2>9. Under("learn", c)' /\ Depth(c)' = Depth(c) /\ n <= Depth(c)
    BY <1>2, <1>3, <2>1 DEF Under, Cortexes, Depth
  <2>10. UpWalk(c, g)'
    BY <2>7, <2>8, <2>9 DEF UpWalk
  <2>11. WalkOK'
    BY <2>10, Zenon DEF WalkOK
  <2>12. VerdictOK'
    BY <2>1, RunOK DEF LearnUp, Walking
  <2>. QED
    BY <2>1, <2>5, <2>11, <2>12, KeptOK, KeptCalls DEF TrainingInv
<1>. QED
  BY <1>6, <1>7

LEMMA EndLearnStep ==
  ASSUME TrainingInv, EndLearn
  PROVE  TrainingInv'
<1>1. PICK c, frames : UpWalk(c, frames)
  BY WalkIs DEF TrainingInv, EndLearn, Walking
<1>2. todo # <<>> /\ Head(todo).op = "learn"
  BY <1>1 DEF UpWalk, Under
<1>3. /\ walk' = Idle /\ todo' = Tail(todo) /\ verdict' = verdict /\ UNCHANGED <<setup, ctx>>
  BY DEF EndLearn, Return
<1>4. Kept /\ CortexesOK
  BY <1>3, UnchangedKept DEF TrainingInv
<1>5. CallsOK'
  <2>1. Have' = Have /\ Needed' = Needed
    BY <1>4, KeptHave
  <2>2. Gives(Head(todo)) = {}
    BY <1>2, RunningIs
  <2>3. Have \cup Gives(Head(todo)) \subseteq Have'
    BY <2>1, <2>2
  <2>4. Cortexes' = Cortexes /\ \A d \in Cortexes : ctx'[d].kout = ctx[d].kout
    BY <1>4, KeptIs
  <2>. QED
    BY <1>2, <1>3, <2>1, <2>3, <2>4, ReturnOK
<1>6. WalkOK'
  BY <1>3 DEF WalkOK
<1>7. VerdictOK'
  BY <1>3, RunOK DEF EndLearn, Walking
<1>. QED
  BY <1>4, <1>5, <1>6, <1>7, KeptOK DEF TrainingInv

LEMMA EndRoundStep ==
  ASSUME TrainingInv, EndRound
  PROVE  TrainingInv'
<1>1. /\ CortexesOK /\ todo = <<>> /\ UNCHANGED <<setup, ctx, walk>>
      /\ \/ verdict' = "done" /\ todo' = todo
         \/ todo' = Round /\ verdict' = "run"
  BY DEF TrainingInv, EndRound
<1>2. Kept
  BY <1>1, UnchangedKept
<1>3. CASE verdict' = "done" /\ todo' = todo
  <2>1. VerdictOK'
    BY <1>3 DEF VerdictOK, PreparedPipesRun, RunPipesLearn
  <2>2. walk' = walk
    BY <1>1
  <2>. QED
    BY <1>2, <1>3, <2>1, <2>2, KeptOK, KeptCalls, KeptWalks DEF TrainingInv
<1>4. CASE todo' = Round /\ verdict' = "run"
  <2>1. Needed \subseteq Have
    <3>1. Given(<<>>, Len(<<>>)) = {}
      BY DEF Given
    <3>. QED
      BY <1>1, <3>1 DEF TrainingInv, CallsOK, Serves
  <2>2. Serves(Round, RoundOps, Needed, Needed)
    BY <1>1, RoundServes DEF CortexesOK
  <2>3. Serves(Round, RoundOps, Have, Needed)
    <3>1. Needed \subseteq Have \cup Needed
      OBVIOUS
    <3>. QED
      BY <2>1, <2>2, <3>1, ServesMore
  <2>4. CallsOK'
    <3>1. Have' = Have /\ Needed' = Needed
      BY <1>1, <1>2, KeptHave
    <3>2. Serves(todo', RoundOps, Have', Needed')
      BY <1>4, <2>3, <3>1
    <3>. QED
      BY <3>2 DEF CallsOK
  <2>5. WalkOK'
    <3>1. walk = Idle
      BY DEF EndRound
    <3>. QED
      BY <1>1, <3>1 DEF WalkOK
  <2>6. VerdictOK'
    BY <1>4, RunOK
  <2>. QED
    BY <1>2, <2>4, <2>5, <2>6, KeptOK DEF TrainingInv
<1>. QED
  BY <1>1, <1>3, <1>4

LEMMA StepInv ==
  ASSUME TrainingInv, [Next]_vars
  PROVE  TrainingInv'
BY StutterInv, StartPrepareStep, PrepLayerStep, EndPrepareStep, FitStep, PlainStep,
   StartSynthStep, SynthLayerStep, EndSynthStep, StartLearnStep, LearnDownStep,
   LearnBottomStep, LearnUpStep, EndLearnStep, EndRoundStep, Zenon DEF Next

LEMMA TrainingInvariant == Spec => []TrainingInv
BY InitInv, StepInv, PTL DEF Spec

----------------------------------------------------------------------------
(***************************************************************************)
(* What the invariant says of the program.                                 *)
(***************************************************************************)
\* A command dies in pipe_synth only of a pipe with a layer pipe_prep should
\* have refused or that scales down: whatever the chain, the Paracortexes,
\* the pipes and the size of the samples, no Cortex is run before it is
\* prepared, and none at another size than the one it is prepared for.
THEOREM PreparedRun == Spec => []PreparedPipesRun
<1>1. TrainingInv => PreparedPipesRun
  BY DEF TrainingInv, VerdictOK
<1>. QED
  BY <1>1, TrainingInvariant, PTL

\* pipe_learn never asserts on its way down, and on its way back only at a
\* layer without a learn_ function: no Cortex learns before it has run.
THEOREM RunLearn == Spec => []RunPipesLearn
<1>1. TrainingInv => RunPipesLearn
  BY DEF TrainingInv, VerdictOK
<1>. QED
  BY <1>1, TrainingInvariant, PTL

LEMMA SynthWritesIs ==
  ASSUME NEW l \in Layers, NEW ic, NEW w, NEW h, PrepAccepts(l, ic, w, h),
         NEW x \in Nat, NEW y \in Nat
  PROVE  SynthWrites(l, x, y).w \in Int /\ SynthWrites(l, x, y).h \in Int
<1>1. l.d \in Nat /\ (l.type \in {"ups", "dns"} => l.d \in 0 .. 8)
  BY DEF Layers
<1>2. l.type = "scal" => ScaleFactors(l.ic, l.oc) # {}
  BY Zenon DEF PrepAccepts, PrepChannels
<1>0. l.type # "scal" => SynthWrites(l, x, y) = SynthShape(l, x, y)
  BY Zenon DEF SynthWrites
<1>3. CASE l.type \in {"padd", "crop", "trim"}
  BY <1>0, <1>1, <1>3 DEF SynthShape, Sized
<1>4. CASE l.type \in {"ups", "dns"}
  <2>1. PICK f \in Nat \ {0} : f = 2^(l.d)
    BY <1>1, <1>4, PowerIs
  <2>2. x * f \in Int /\ y * f \in Int /\ x \div f \in Int /\ y \div f \in Int
    OBVIOUS
  <2>. QED
    BY <1>0, <1>4, <2>1, <2>2 DEF SynthShape, Sized
<1>5. CASE l.type = "scal" /\ Scale(l) >= 0
  <2>1. PICK f \in Nat \ {0} : f = 2^Scale(l)
    BY <1>2, <1>5, ScaleIs
  <2>2. x * f \in Int /\ y * f \in Int /\ ~ (Scale(l) < 0)
    BY <1>2, <1>5, ScaleIs
  <2>. QED
    BY <1>5, <2>1, <2>2 DEF SynthWrites, SynthShape, Sized
<1>6. CASE l.type = "scal" /\ Scale(l) < 0
  <2>1. PICK f \in Nat \ {0} : f = 2^(-Scale(l))
    BY <1>2, <1>6, ScaleIs
  <2>2. x \div f \in Int /\ y \div f \in Int
    OBVIOUS
  <2>. QED
    BY <1>6, <2>1, <2>2 DEF SynthWrites, Sized
<1>7. CASE l.type \notin {"padd", "crop", "trim", "ups", "dns", "scal"}
  BY <1>0, <1>7 DEF SynthShape, Sized
<1>8. l.type = "scal" => Scale(l) < 0 \/ Scale(l) >= 0
  BY <1>2, ScaleIs
<1>. QED
  BY <1>3, <1>4, <1>5, <1>6, <1>7, <1>8, Zenon

LEMMA SynthHolds ==
  ASSUME TrainingInv, walk.op = "synth", ~ AtEnd
  PROVE  LET o == SynthWrites(Layer, walk.w, walk.h)
         IN  walk.off + InN + o.w * o.h * Layer.oc <= ctx[walk.c].kbufn
<1>1. PICK c, k, s, x, y, at : SynthWalk(c, k, s, x, y, at)
  BY WalkIs DEF TrainingInv
<1>2. /\ CortexesOK /\ c \in Cortexes /\ Depth(c) \in Nat \ {0} /\ k \in 1 .. Depth(c) + 1
      /\ PreparedAs(c, s) /\ Laid(setup.pipe[c], s, Depth(c) + 1)
      /\ ctx[c].kbufn = End(s[Depth(c) + 1]) /\ s[Depth(c) + 1] \in Places
      /\ walk = [op |-> "synth", c |-> c, k |-> k, w |-> x, h |-> y, off |-> at]
  BY <1>1, PreparedIs DEF TrainingInv, SynthWalk, Under
<1>3. x \in 0 .. s[k].w /\ y \in 0 .. s[k].h /\ at \in 0 .. s[k].at
  BY <1>1 DEF SynthWalk
<1>4. PICK p : p = setup.pipe[c]
  OBVIOUS
<1>5. walk.c = c /\ walk.k = k /\ walk.w = x /\ walk.h = y /\ walk.off = at /\ Layer = p[k]
  BY <1>2, <1>4 DEF Layer
<1>6. PICK n \in Nat \ {0} : n = Depth(c) /\ k \in 1 .. n
  BY <1>2, <1>5 DEF AtEnd, Depth
<1>7. Laid(p, s, n + 1) /\ p[k] \in Layers
  BY <1>2, <1>4, <1>6, PipeIs DEF CortexesOK
<1>8. /\ s[k] \in Places /\ s[k + 1] \in Places
      /\ PrepAccepts(p[k], s[k].ic, s[k].w, s[k].h) /\ s[k].ic = p[k].ic
      /\ End(s[k + 1]) = End(s[k]) + PrepShape(p[k], s[k].w, s[k].h).w
                           * PrepShape(p[k], s[k].w, s[k].h).h * p[k].oc
      /\ End(s[k + 1]) <= End(s[n + 1])
  BY <1>6, <1>7, LaidIs
<1>9. s[k].w \in Nat /\ s[k].h \in Nat /\ s[k].at \in Nat
  BY <1>8, PlaceIs
<1>10. PICK o : o = SynthWrites(p[k], x, y)
  OBVIOUS
<1>11. x * y * p[k].ic + o.w * o.h * p[k].oc
         <= s[k].w * s[k].h * p[k].ic + PrepShape(p[k], s[k].w, s[k].h).w
                                          * PrepShape(p[k], s[k].w, s[k].h).h * p[k].oc
  BY <1>3, <1>7, <1>8, <1>9, <1>10, WritesFit
<1>12. PICK a \in Nat, b \in Int, g \in Nat :
         /\ a = x * y * p[k].ic /\ b = o.w * o.h * p[k].oc
         /\ g = PrepShape(p[k], s[k].w, s[k].h).w * PrepShape(p[k], s[k].w, s[k].h).h * p[k].oc
  <2>1. x \in Nat /\ y \in Nat /\ p[k].ic \in Nat /\ p[k].oc \in Nat
    BY <1>3, <1>7, <1>9 DEF Layers
  <2>2. o.w \in Int /\ o.h \in Int
    BY <1>7, <1>8, <1>10, <2>1, SynthWritesIs
  <2>3. PICK u \in Nat, v \in Nat : /\ u = PrepShape(p[k], s[k].w, s[k].h).w
                                   /\ v = PrepShape(p[k], s[k].w, s[k].h).h
    BY <1>7, <1>8, <1>9, PrepShapeIs
  <2>4. x * y * p[k].ic \in Nat /\ o.w * o.h * p[k].oc \in Int /\ u * v * p[k].oc \in Nat
    BY <2>1, <2>2
  <2>. QED
    BY <2>3, <2>4
<1>13. PICK r \in Nat : r = Room(s[k]) /\ End(s[k]) = s[k].at + r
  BY <1>8, PlaceIs DEF End
<1>14. a + b <= r + g
  BY <1>8, <1>11, <1>12, <1>13 DEF Room
<1>15. at \in Nat /\ at <= s[k].at
  BY <1>3, <1>9
<1>16. PICK m \in Nat, z \in Nat : m = End(s[k + 1]) /\ z = End(s[n + 1])
  BY <1>2, <1>6, <1>8, PlaceIs
<1>17. m = s[k].at + r + g /\ m <= z
  BY <1>8, <1>12, <1>13, <1>16
<1>18. at + a + b <= z
  BY <1>9, <1>14, <1>15, <1>17
<1>19. InN = a
  BY <1>5, <1>12 DEF InN
<1>20. walk.off + InN = at + a /\ ctx[walk.c].kbufn = z
  BY <1>2, <1>5, <1>6, <1>16, <1>19
<1>21. SynthWrites(Layer, walk.w, walk.h) = o /\ o.w * o.h * Layer.oc = b
  BY <1>5, <1>10, <1>12
<1>. QED
  BY <1>18, <1>20, <1>21

LEMMA DownHolds ==
  ASSUME TrainingInv, walk.op = "down", ~ AtEnd
  PROVE  LET o == LearnShape(Layer, walk.w, walk.h)
         IN  /\ walk.off + InN + o.w * o.h * Layer.oc <= ctx[walk.c].kbufn
             /\ walk.doff + Layer.len \div 3 <= ctx[walk.c].dwn
<1>1. PICK c, k, s, how, frames : DownWalk(c, k, s, how, frames)
  BY WalkIs DEF TrainingInv
<1>2. /\ CortexesOK /\ c \in Cortexes /\ Depth(c) \in Nat \ {0} /\ k \in 1 .. Depth(c) + 1
      /\ PreparedAs(c, s) /\ Laid(setup.pipe[c], s, Depth(c) + 1)
      /\ ctx[c].kbufn = End(s[Depth(c) + 1]) /\ ctx[c].dwn = s[Depth(c) + 1].doff
      /\ walk = [op |-> "down", c |-> c, k |-> k, w |-> s[k].w, h |-> s[k].h, off |-> s[k].at,
                 doff |-> s[k].doff, how |-> how, frames |-> frames]
  BY <1>1, PreparedIs DEF TrainingInv, DownWalk, Under
<1>3. PICK p : p = setup.pipe[c]
  OBVIOUS
<1>4. /\ walk.c = c /\ walk.k = k /\ walk.w = s[k].w /\ walk.h = s[k].h
      /\ walk.off = s[k].at /\ walk.doff = s[k].doff /\ Layer = p[k]
  BY <1>2, <1>3 DEF Layer
<1>5. PICK n \in Nat \ {0} : n = Depth(c) /\ k \in 1 .. n
  BY <1>2, <1>4 DEF AtEnd, Depth
<1>6. Laid(p, s, n + 1) /\ p[k] \in Layers
  BY <1>2, <1>3, <1>5, PipeIs DEF CortexesOK
<1>7. /\ s[k] \in Places /\ s[k].ic = p[k].ic
      /\ End(s[k + 1]) = End(s[k]) + PrepShape(p[k], s[k].w, s[k].h).w
                           * PrepShape(p[k], s[k].w, s[k].h).h * p[k].oc
      /\ s[k + 1].doff = s[k].doff + p[k].len \div 3
      /\ End(s[k + 1]) <= End(s[n + 1]) /\ s[k + 1].doff <= s[n + 1].doff
  BY <1>5, <1>6, LaidIs
<1>8. LearnShape(p[k], s[k].w, s[k].h) = PrepShape(p[k], s[k].w, s[k].h)
  BY LearnShapeAgrees
<1>9. s[k].at + InN = End(s[k])
  BY <1>4, <1>7 DEF InN, End, Room
<1>10. PICK o : o = PrepShape(p[k], s[k].w, s[k].h)
  OBVIOUS
<1>11. End(s[k]) + o.w * o.h * p[k].oc <= ctx[c].kbufn
  BY <1>2, <1>5, <1>7, <1>10
<1>12. LearnShape(Layer, walk.w, walk.h) = o
  BY <1>4, <1>8, <1>10
<1>13. walk.off + InN + o.w * o.h * Layer.oc <= ctx[walk.c].kbufn
  BY <1>4, <1>9, <1>11
<1>14. walk.doff + Layer.len \div 3 <= ctx[walk.c].dwn
  BY <1>2, <1>4, <1>5, <1>7
<1>. QED
  BY <1>12, <1>13, <1>14

\* A walk never leaves the buffers pipe_prep has measured, whatever the pipes
\* do to the size of a picture, a layer that scales down, after which
\* pipe_synth is lost, included; and where none does, kout is the end of the
\* buffer, of the size that owhc says.
THEOREM BuffersAlwaysHold == Spec => []BuffersHold
<1>1. TrainingInv => BuffersHold
  <2>. SUFFICES ASSUME TrainingInv PROVE BuffersHold
    OBVIOUS
  <2>1. ASSUME NEW c \in DOMAIN ctx, ctx[c].kout >= 0, Straight(c)
        PROVE  ctx[c].kout + OutSize(c) = ctx[c].kbufn
    BY <2>1 DEF TrainingInv, CortexesOK, RunsOK
  <2>2. walk.op = "synth" => walk.op # "down"
    OBVIOUS
  <2>. QED
    BY <2>1, <2>2, SynthHolds, DownHolds, Zenon DEF BuffersHold
<1>. QED
  BY <1>1, TrainingInvariant, PTL
=============================================================================
