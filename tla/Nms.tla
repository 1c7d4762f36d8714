--------------------------------- MODULE Nms ---------------------------------
(***************************************************************************)
(* nms of cup_detector.py: the loop that keeps the box with the best score *)
(* and drops the boxes it overlaps too much, until none is left.           *)
(* A box is <<x1, y1, x2, y2>> in whole pixels and is known by its index.  *)
(* order, the array sorted by score, is the set of indices still in it:    *)
(* equal scores come in an order the sort does not promise, so any of them *)
(* may be next.                                                            *)
(***************************************************************************)
EXTENDS Integers, Sequences

VARIABLES
  boxes, scores,  \* the arguments: functions of the index
  order,          \* indices still to look at
  keep            \* indices kept, in the order they were

nmsVars == <<boxes, scores, order, keep>>

Index == DOMAIN boxes

Larger(x, y)  == IF x > y THEN x ELSE y
Smaller(x, y) == IF x < y THEN x ELSE y

Area(b) == (b[3] - b[1]) * (b[4] - b[2])

\* Mutant: the sides of the overlap are not cut off at zero.
SignedIntersection(a, b) ==
  (Smaller(a[3], b[3]) - Larger(a[1], b[1])) * (Smaller(a[4], b[4]) - Larger(a[2], b[2]))

Intersection(a, b) ==
  Larger(0, Smaller(a[3], b[3]) - Larger(a[1], b[1]))
    * Larger(0, Smaller(a[4], b[4]) - Larger(a[2], b[2]))

\* iou > 0.5, without the division: the union of two boxes with an area is not zero.
Overlap(i, j) ==
  LET common == Intersection(boxes[i], boxes[j])
  IN  2 * common > Area(boxes[i]) + Area(boxes[j]) - common

BestOf(S) == {i \in S : \A j \in S : scores[j] <= scores[i]}

\* Mutant: only boxes inside the kept one are dropped.
DropsInside(i) == {j \in order \ {i} : Intersection(boxes[i], boxes[j]) < Area(boxes[j])}

\* What stays in order once i is kept.
Survivors(i) == {j \in order \ {i} : ~Overlap(i, j)}

-----------------------------------------------------------------------------
\* The function is called; without boxes there is nothing to do.
Call(bs, ss) ==
  /\ order = {}
  /\ boxes' = bs /\ scores' = ss
  /\ order' = DOMAIN bs
  /\ keep' = <<>>

\* A round of the loop.
Keep(i) ==
  /\ keep' = Append(keep, i)
  /\ order' = Survivors(i)
  /\ UNCHANGED <<boxes, scores>>

Round == \E i \in BestOf(order) : Keep(i)

-----------------------------------------------------------------------------
Kept == {keep[k] : k \in 1..Len(keep)}

NmsTypeOK ==
  /\ boxes \in [Index -> Int \X Int \X Int \X Int] /\ scores \in [Index -> Int]
  /\ order \subseteq Index
  /\ keep \in Seq(Index)

\* No two boxes that are kept overlap by more than the threshold.
KeptApart == \A i, j \in Kept : i # j => ~Overlap(i, j)

\* A box is dropped only because of a kept box that overlaps it and scores no less.
DroppedForABetter ==
  \A j \in Index \ (order \cup Kept) :
    \E i \in Kept : Overlap(i, j) /\ scores[i] >= scores[j]

\* No box is kept twice, and none that is kept is looked at again: the loop shrinks
\* the array in every round and ends.
KeptOnce ==
  /\ \A k, l \in 1..Len(keep) : keep[k] = keep[l] => k = l
  /\ Kept \cap order = {}

\* The first box kept, the one callback uses, has the best score of all; so the
\* detection that is published does not depend on which boxes are dropped.
FirstIsBest == \A j \in Index : keep # <<>> => scores[j] <= scores[keep[1]]

\* What callback relies on: the boxes that are kept are apart and each of them once,
\* every other gave way to one as good, and the first is the best there was; in every
\* round, whatever the frame shows and however ties are broken.
SuppressesNonMaxima == KeptApart /\ DroppedForABetter /\ KeptOnce /\ FirstIsBest
=============================================================================
