------------------------------ MODULE Transforms ------------------------------
(***************************************************************************)
(* The transformative properties of an image (clap, irot, imir) as the     *)
(* decoder applies them in three ways: to a picture it owns, one property   *)
(* after the other; through a plan that maps single pixels forwards or      *)
(* backwards; and, for turns and mirrors only, as one affine map.           *)
(*                                                                          *)
(* A picture is a width, a height and the pixels of its rows in one buffer.  *)
(* What a pixel is does not matter here.                                    *)
(***************************************************************************)
EXTENDS Integers, Sequences, SequencesExt

Lesser(a, b) == IF a < b THEN a ELSE b
Greater(a, b) == IF a > b THEN a ELSE b

CeilDiv(a, b) == (a + b - 1) \div b

(***************************************************************************)
(* Rational numbers with a positive denominator.  Division of integers     *)
(* drops the fraction, towards zero.                                       *)
(***************************************************************************)
Quot(n, d) == IF n >= 0 THEN n \div d ELSE -((-n) \div d)

Ratio(n, d) == [n |-> n, d |-> d]
Plus(a, b) == Ratio(a.n * b.d + b.n * a.d, a.d * b.d)
Minus(a, b) == Ratio(a.n * b.d - b.n * a.d, a.d * b.d)
MinusInt(a, k) == Ratio(a.n - k * a.d, a.d)
Over(a, k) == Ratio(a.n, a.d * k)
RoundDown(a) == Quot(a.n, a.d)

\* Mutant of Round: every fraction is rounded up.
RoundUp(a) == Quot(a.n + a.d - 1, a.d)
Round(a) == Quot(a.n + Quot(a.d, 2), a.d)

(***************************************************************************)
(* A clean aperture has a width and a height and the offset of its centre   *)
(* from the centre of the picture.                                          *)
(***************************************************************************)
ClapLeft(c, w) ==
  RoundDown(Minus(Plus(c.x, Ratio(w - 1, 2)), Over(MinusInt(c.width, 1), 2)))

ClapRight(c, w) == Round(Plus(MinusInt(c.width, 1), Ratio(ClapLeft(c, w), 1)))

ClapTop(c, h) ==
  Round(Minus(Plus(c.y, Ratio(h - 1, 2)), Over(MinusInt(c.height, 1), 2)))

ClapBottom(c, h) == Round(Plus(MinusInt(c.height, 1), Ratio(ClapTop(c, h), 1)))

CropBounds(c, w, h) ==
  LET left == Greater(ClapLeft(c, w), 0)
      top == Greater(ClapTop(c, h), 0)
      right == Lesser(ClapRight(c, w), w - 1)
      bottom == Lesser(ClapBottom(c, h), h - 1)
  IN  [valid |-> w > 0 /\ h > 0 /\ left <= right /\ top <= bottom,
       left |-> left, top |-> top, right |-> right, bottom |-> bottom,
       width |-> right - left + 1, height |-> bottom - top + 1]

Fraction == [n : Int, d : Nat \ {0}]
Transform ==
  [kind : {"clap"}, width : Fraction, height : Fraction, x : Fraction, y : Fraction]
  \cup [kind : {"irot"}, degrees : {0, 90, 180, 270}]
  \cup [kind : {"imir"}, axis : {"horizontal", "vertical"}]

IsClap(t) == t.kind = "clap"
IsIdentity(t) == t.kind = "irot" /\ t.degrees = 0
Swaps(t) == t.kind = "irot" /\ t.degrees \in {90, 270}

(***************************************************************************)
(* One property after the other on a picture that is owned.  A loop over    *)
(* the pixels of the source writes each to its destination in the buffer.   *)
(***************************************************************************)
Pixels(w, h) == 0 .. w * h - 1
X(p, i) == i % p.w
Y(p, i) == i \div p.w

RotateTarget(p, t, i) ==
  LET x == X(p, i)
      y == Y(p, i)
      mx == p.w - 1 - x
      my == p.h - 1 - y
  IN  CASE t.degrees = 90 -> << y, mx >>
        [] t.degrees = 180 -> << mx, my >>
        [] t.degrees = 270 -> << my, x >>

MirrorTarget(p, t, i) ==
  IF t.axis = "horizontal" THEN << p.w - 1 - X(p, i), Y(p, i) >>
  ELSE << X(p, i), p.h - 1 - Y(p, i) >>

Target(p, t, i) == IF t.kind = "irot" THEN RotateTarget(p, t, i) ELSE MirrorTarget(p, t, i)

Moved(p, t) ==
  LET w == IF Swaps(t) THEN p.h ELSE p.w
      h == IF Swaps(t) THEN p.w ELSE p.h
      index == [i \in Pixels(p.w, p.h) |-> LET to == Target(p, t, i) IN to[2] * w + to[1]]
  IN  [w |-> w, h |-> h,
       px |-> [d \in Pixels(w, h) |->
                 p.px[CHOOSE i \in Pixels(p.w, p.h) : index[i] = d]]]

Cropped(p, c) ==
  [w |-> c.width, h |-> c.height,
   px |-> [d \in Pixels(c.width, c.height) |->
             p.px[(c.top + (d \div c.width)) * p.w + c.left + (d % c.width)]]]

(* What one property makes of a picture, if it can be applied. *)
CanApply(p, t) == IsClap(t) => CropBounds(t, p.w, p.h).valid

Applied(p, t) ==
  IF IsIdentity(t) THEN p
  ELSE IF IsClap(t) THEN Cropped(p, CropBounds(t, p.w, p.h))
  ELSE Moved(p, t)

(***************************************************************************)
(* The size a picture ends with, which a caller learns before decoding.     *)
(***************************************************************************)
Resized(size, t) ==
  IF ~size.valid THEN size
  ELSE IF IsClap(t)
       THEN LET c == CropBounds(t, size.w, size.h)
            IN  [valid |-> c.valid, w |-> c.width, h |-> c.height]
       ELSE IF Swaps(t) THEN [size EXCEPT !.w = size.h, !.h = size.w] ELSE size

TransformedSize(w, h, transforms) ==
  FoldLeft(Resized, [valid |-> TRUE, w |-> w, h |-> h], transforms)

(***************************************************************************)
(* The plan: every property that does something, with the size of the       *)
(* picture it meets.                                                        *)
(***************************************************************************)
ClapStep(c) ==
  [kind |-> "clap", left |-> c.left, top |-> c.top, right |-> c.right, bottom |-> c.bottom]

TurnStep(t, w, h) == [kind |-> "irot", degrees |-> t.degrees, w |-> w, h |-> h]

MirrorStep(t, w, h) == [kind |-> "imir", axis |-> t.axis, w |-> w, h |-> h]

Planned(plan, t) ==
  LET crop == CropBounds(t, plan.w, plan.h)
  IN  IF ~plan.valid \/ IsIdentity(t) THEN plan
      ELSE IF IsClap(t)
      THEN IF crop.valid
           THEN [plan EXCEPT !.w = crop.width, !.h = crop.height,
                             !.steps = Append(plan.steps, ClapStep(crop))]
           ELSE [plan EXCEPT !.valid = FALSE]
      ELSE IF t.kind = "imir"
      THEN [plan EXCEPT !.steps = Append(plan.steps, MirrorStep(t, plan.w, plan.h))]
      ELSE [plan EXCEPT !.steps = Append(plan.steps, TurnStep(t, plan.w, plan.h)),
                        !.w = IF Swaps(t) THEN plan.h ELSE plan.w,
                        !.h = IF Swaps(t) THEN plan.w ELSE plan.h]

Plan(w, h, transforms) ==
  FoldLeft(Planned,
           [valid |-> w > 0 /\ h > 0, sw |-> w, sh |-> h, w |-> w, h |-> h, steps |-> << >>],
           transforms)

(* One step backwards, from the picture it makes to the one it is given. *)
StepBack(step, at) ==
  CASE step.kind = "clap" -> << at[1] + step.left, at[2] + step.top >>
    [] step.kind = "irot" /\ step.degrees = 90 -> << step.w - 1 - at[2], at[1] >>
    [] step.kind = "irot" /\ step.degrees = 180 -> << step.w - 1 - at[1], step.h - 1 - at[2] >>
    [] step.kind = "irot" /\ step.degrees = 270 -> << at[2], step.h - 1 - at[1] >>
    [] step.kind = "imir" /\ step.axis = "horizontal" -> << step.w - 1 - at[1], at[2] >>
    [] step.kind = "imir" /\ step.axis = "vertical" -> << at[1], step.h - 1 - at[2] >>

MapDestination(plan, x, y) ==
  FoldLeft(LAMBDA at, step : StepBack(step, at), << x, y >>, Reverse(plan.steps))

(* One step forwards; a crop has no place for what it cuts away. *)
Nowhere == << -1, -1 >>

StepOn(at, step) ==
  IF at = Nowhere THEN Nowhere
  ELSE CASE step.kind = "clap" ->
              IF /\ at[1] \in step.left .. step.right
                 /\ at[2] \in step.top .. step.bottom
              THEN << at[1] - step.left, at[2] - step.top >> ELSE Nowhere
         [] step.kind = "irot" /\ step.degrees = 90 -> << at[2], step.w - 1 - at[1] >>
         [] step.kind = "irot" /\ step.degrees = 180 ->
              << step.w - 1 - at[1], step.h - 1 - at[2] >>
         [] step.kind = "irot" /\ step.degrees = 270 -> << step.h - 1 - at[2], at[1] >>
         [] step.kind = "imir" /\ step.axis = "horizontal" -> << step.w - 1 - at[1], at[2] >>
         [] step.kind = "imir" /\ step.axis = "vertical" -> << at[1], step.h - 1 - at[2] >>

MapSource(plan, x, y) == FoldLeft(StepOn, << x, y >>, plan.steps)

(* Three-channel pictures are transformed in one pass through the plan. *)
Replanned(p, transforms) ==
  LET plan == Plan(p.w, p.h, transforms)
  IN  IF plan.steps = << >> THEN p
      ELSE [w |-> plan.w, h |-> plan.h,
            px |-> [d \in Pixels(plan.w, plan.h) |->
                      LET at == MapDestination(plan, d % plan.w, d \div plan.w)
                      IN  p.px[at[2] * p.w + at[1]]]]

(***************************************************************************)
(* Turns and mirrors alone make an affine map.  Each axis of the            *)
(* destination is a combination of the axes of the source.                  *)
(***************************************************************************)
Axis(fx, fy, o) == [fx |-> fx, fy |-> fy, o |-> o]
Flipped(axis, size) == Axis(-axis.fx, -axis.fy, size - 1 - axis.o)

Turn(o, t) ==
  CASE t.degrees = 90 ->
         [o EXCEPT !.x = o.y, !.y = Flipped(o.x, o.w), !.w = o.h, !.h = o.w]
    [] t.degrees = 180 -> [o EXCEPT !.x = Flipped(o.x, o.w), !.y = Flipped(o.y, o.h)]
    [] t.degrees = 270 ->
         [o EXCEPT !.x = Flipped(o.y, o.h), !.y = o.x, !.w = o.h, !.h = o.w]

Mirror(o, t) ==
  IF t.axis = "horizontal" THEN [o EXCEPT !.x = Flipped(o.x, o.w)]
  ELSE [o EXCEPT !.y = Flipped(o.y, o.h)]

Oriented(o, t) ==
  IF o.cropped \/ IsIdentity(t) THEN o
  ELSE IF IsClap(t) THEN [o EXCEPT !.cropped = TRUE]
  ELSE [(IF t.kind = "irot" THEN Turn(o, t) ELSE Mirror(o, t)) EXCEPT !.effective = TRUE]

(* There is no such map when nothing moves or a crop is among the properties. *)
Orientation(w, h, transforms) ==
  LET o == FoldLeft(Oriented,
             [sw |-> w, sh |-> h, w |-> w, h |-> h, x |-> Axis(1, 0, 0), y |-> Axis(0, 1, 0),
              effective |-> FALSE, cropped |-> FALSE], transforms)
  IN  [o EXCEPT !.effective = o.effective /\ ~o.cropped]

Along(axis, x, y) == axis.fx * x + axis.fy * y + axis.o
MapOriented(o, x, y) == << Along(o.x, x, y), Along(o.y, x, y) >>
===============================================================================
