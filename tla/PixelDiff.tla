------------------------------ MODULE PixelDiff ------------------------------
(***************************************************************************)
(* The comparison of two frames (src/apps/api/src/diff/diff.service.ts).   *)
(*                                                                         *)
(* A file is what decodeFrame and loadFrame tell apart: a picture, one     *)
(* with the signature of a picture that does not decode (`broken`), or     *)
(* something else.  A picture is its size and the set of its inked pixels; *)
(* pixelmatch, external, marks the pixels in which two pictures differ.    *)
(* The ratios are compared as integers (per cent).                         *)
(***************************************************************************)
EXTENDS Integers, FiniteSets, FiniteSetsExt

NOISE_RATIO  == 35
REGION_RATIO == 40

Decodes(f)   == f.kind = "picture"
Showable(f)  == f.kind \in {"picture", "broken"}   \* loadFrame: by signature
SizeOf(f)    == [width |-> f.width, height |-> f.height]
Area(f)      == f.width * f.height

NoSize == [width |-> 0, height |-> 0]
NoRegion == [x |-> 0, y |-> 0, width |-> 0, height |-> 0]

Changed(before, after) == SymDiff(before.ink, after.ink)

(* Mutant: the far side is taken for the length.                           *)
FarSides(px) ==
  LET xs == {p[1] : p \in px}
      ys == {p[2] : p \in px}
  IN [x |-> Min(xs), y |-> Min(ys), width |-> Max(xs), height |-> Max(ys)]

BoundingBox(px) ==
  LET xs == {p[1] : p \in px}
      ys == {p[2] : p \in px}
  IN [x |-> Min(xs), y |-> Min(ys), width |-> Max(xs) - Min(xs) + 1, height |-> Max(ys) - Min(ys) + 1]

CannotCompare(size) == [kind |-> "cannot_compare", size |-> size, region |-> NoRegion, changed |-> {}]

Compare(before, after) ==
  LET px     == Changed(before, after)
      region == IF px = {} THEN NoRegion ELSE BoundingBox(px)
  IN
  IF ~Decodes(before) \/ ~Decodes(after) THEN CannotCompare(NoSize)
  ELSE IF SizeOf(before) # SizeOf(after) THEN CannotCompare(SizeOf(after))
  ELSE IF \/ 100 * Cardinality(px) > NOISE_RATIO * Area(before)
          \/ 100 * Area(region) > REGION_RATIO * Area(before)
       THEN CannotCompare(SizeOf(after))
  ELSE [kind |-> "ok", size |-> SizeOf(before), region |-> region, changed |-> px]

-----------------------------------------------------------------------------
(* What a frame of changes has to be: nothing changed outside it, and no   *)
(* side of it could be moved inwards.                                      *)
Inside(p, r) == /\ r.x <= p[1] /\ p[1] < r.x + r.width
                /\ r.y <= p[2] /\ p[2] < r.y + r.height

FramesExactly(r, px) ==
  /\ \A p \in px : Inside(p, r)
  /\ \E p \in px : p[1] = r.x
  /\ \E p \in px : p[1] = r.x + r.width - 1
  /\ \E p \in px : p[2] = r.y
  /\ \E p \in px : p[2] = r.y + r.height - 1
=============================================================================
