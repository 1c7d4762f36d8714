-------------------------- MODULE CupDetectorProofs --------------------------
(***************************************************************************)
(* What nms makes of every frame that callback hands it, for frames of any *)
(* size with any number of boxes, inside the frame or not.                 *)
(***************************************************************************)
EXTENDS CupDetector, SequenceTheorems, TLAPS

\* The inductive invariant: on top of the properties, a kept box overlaps none of
\* those still in order, and nothing is missing from order before the first round.
IInv ==
  /\ NmsTypeOK
  /\ KeptApart /\ DroppedForABetter /\ KeptOnce /\ FirstIsBest
  /\ \A i \in Kept, j \in order : ~Overlap(i, j)
  /\ keep = <<>> => order = Index

\* Overlapping is symmetric.
LEMMA OverlapSymmetric ==
  ASSUME NEW i \in Index, NEW j \in Index, boxes \in [Index -> Int \X Int \X Int \X Int]
  PROVE  Overlap(i, j) <=> Overlap(j, i)
<1> DEFINE a == boxes[i]
           b == boxes[j]
<1>1. /\ a[1] \in Int /\ a[2] \in Int /\ a[3] \in Int /\ a[4] \in Int
      /\ b[1] \in Int /\ b[2] \in Int /\ b[3] \in Int /\ b[4] \in Int
  OBVIOUS
<1> HIDE DEF a, b
<1>2. /\ Smaller(a[3], b[3]) = Smaller(b[3], a[3]) /\ Smaller(a[4], b[4]) = Smaller(b[4], a[4])
      /\ Larger(a[1], b[1]) = Larger(b[1], a[1]) /\ Larger(a[2], b[2]) = Larger(b[2], a[2])
  BY <1>1 DEF Smaller, Larger
<1>3. Intersection(a, b) = Intersection(b, a)
  BY <1>2 DEF Intersection
<1>4. Area(a) \in Int /\ Area(b) \in Int
  BY <1>1 DEF Area
<1>5. Intersection(a, b) \in Int
  BY <1>1 DEF Intersection, Smaller, Larger
<1>6. Overlap(i, j) <=> 2 * Intersection(a, b) > Area(a) + Area(b) - Intersection(a, b)
  BY DEF Overlap, a, b
<1>7. Overlap(j, i) <=> 2 * Intersection(b, a) > Area(b) + Area(a) - Intersection(b, a)
  BY DEF Overlap, a, b
<1>8. QED
  BY <1>3, <1>4, <1>5, <1>6, <1>7

\* Clipped corners are whole numbers.
LEMMA ClipType ==
  ASSUME NEW b \in Int \X Int \X Int \X Int
  PROVE  Clip(b) \in Int \X Int \X Int \X Int
BY DetectorAssumption DEF Clip

\* Boxes and scores of a frame are arguments that nms can take.
LEMMA ArgumentsType ==
  ASSUME NEW f \in Frames, NEW t
  PROVE  /\ Boxes(f, t) \in [Candidates(f, t) -> Int \X Int \X Int \X Int]
         /\ Scores(f, t) \in [Candidates(f, t) -> Int]
<1>1. \A k \in Candidates(f, t) : k \in DOMAIN f
  BY DEF Candidates
<1>2. \A k \in Candidates(f, t) : f[k].box \in Int \X Int \X Int \X Int /\ f[k].score \in Int
  BY <1>1, DetectorAssumption
<1>3. \A k \in Candidates(f, t) : Clip(f[k].box) \in Int \X Int \X Int \X Int
  BY <1>2, ClipType
<1>4. QED
  BY <1>2, <1>3 DEF Boxes, Scores

\* Nothing is kept or dropped when nms is called.
LEMMA CallIInv ==
  ASSUME NEW S, NEW bs \in [S -> Int \X Int \X Int \X Int], NEW ss \in [S -> Int],
         Call(bs, ss)
  PROVE  IInv'
<1>1. boxes' = bs /\ scores' = ss /\ order' = S /\ keep' = <<>> /\ Index' = S
  BY DEF Call, Index
<1>2. Kept' = {} /\ Len(keep') = 0
  BY <1>1 DEF Kept
<1>3. NmsTypeOK'
  BY <1>1 DEF NmsTypeOK
<1>4. QED
  BY <1>1, <1>2, <1>3 DEF IInv, KeptApart, DroppedForABetter, KeptOnce, FirstIsBest

\* Before the first frame there are no boxes.
LEMMA InitIInv == Init => IInv
<1> SUFFICES ASSUME Init PROVE IInv
  OBVIOUS
<1>1. boxes = <<>> /\ scores = <<>> /\ order = {} /\ keep = <<>> /\ Index = {}
  BY DEF Init, Index
<1>2. Kept = {} /\ Len(keep) = 0
  BY <1>1 DEF Kept
<1>3. NmsTypeOK
  BY <1>1 DEF NmsTypeOK
<1>4. QED
  BY <1>1, <1>2, <1>3 DEF IInv, KeptApart, DroppedForABetter, KeptOnce, FirstIsBest

\* One round of the loop.
LEMMA KeepIInv ==
  ASSUME IInv, NEW i \in BestOf(order), Keep(i)
  PROVE  IInv'
<1> USE DEF IInv, NmsTypeOK
<1>1. i \in order /\ i \in Index /\ \A j \in order : scores[j] <= scores[i]
  BY DEF BestOf
<1>2. /\ keep' = Append(keep, i) /\ keep' \in Seq(Index) /\ keep' # <<>>
      /\ Len(keep') = Len(keep) + 1
      /\ \A k \in 1..Len(keep) : keep'[k] = keep[k]
      /\ keep'[Len(keep) + 1] = i
      /\ Len(keep) \in Nat
  <2>1. keep' = Append(keep, i)
    BY DEF Keep
  <2>2. keep \in Seq(Index) /\ i \in Index /\ Len(keep) \in Nat
    BY <1>1, LenProperties
  <2>3. /\ Append(keep, i) \in Seq(Index)
        /\ Append(keep, i) # <<>>
        /\ Len(Append(keep, i)) = Len(keep) + 1
        /\ \A k \in 1..Len(keep) : Append(keep, i)[k] = keep[k]
        /\ Append(keep, i)[Len(keep) + 1] = i
    BY <2>2, AppendProperties, Zenon
  <2>4. QED
    BY <2>1, <2>2, <2>3, Zenon
<1>3. Kept' = Kept \cup {i}
  <2>1. Kept' = {keep'[k] : k \in 1..(Len(keep) + 1)}
    BY <1>2 DEF Kept
  <2>2. \A k \in 1..(Len(keep) + 1) : k \in 1..Len(keep) \/ k = Len(keep) + 1
    BY <1>2
  <2>3. \A k \in 1..Len(keep) : k \in 1..(Len(keep) + 1)
    BY <1>2
  <2>4. Len(keep) + 1 \in 1..(Len(keep) + 1)
    BY <1>2
  <2>5. QED
    BY <1>2, <2>1, <2>2, <2>3, <2>4, SMTT(30) DEF Kept
<1>4. \A k, j \in Index : Overlap(k, j)' <=> Overlap(k, j)
  BY DEF Keep, Overlap
<1>5. order' = {j \in order \ {i} : ~Overlap(i, j)} /\ UNCHANGED <<boxes, scores>>
      /\ Index' = Index
  BY DEF Keep, Survivors, Index
<1>6. NmsTypeOK'
  BY <1>2, <1>5
<1>7. Kept \subseteq Index
  BY LenProperties, SMTT(30) DEF Kept
<1>8. KeptApart'
  <2>1. \A k \in Kept : ~Overlap(k, i) /\ ~Overlap(i, k)
    BY <1>1, <1>7, OverlapSymmetric
  <2>2. QED
    BY <1>1, <1>3, <1>4, <1>7, <2>1 DEF KeptApart
<1>9. DroppedForABetter'
  <2>1. ASSUME NEW j \in Index \ (order' \cup Kept')
        PROVE  \E k \in Kept' : Overlap(k, j)' /\ scores'[k] >= scores'[j]
    <3>1. CASE j \in order
      <4>1. Overlap(i, j)
        BY <1>3, <1>5, <2>1, <3>1
      <4>2. scores'[i] >= scores'[j]
        BY <1>1, <1>5, <3>1
      <4>3. QED
        BY <1>1, <1>3, <1>4, <4>1, <4>2
    <3>2. CASE j \notin order
      <4>1. PICK k \in Kept : Overlap(k, j) /\ scores[k] >= scores[j]
        BY <1>3, <2>1, <3>2 DEF DroppedForABetter
      <4>2. QED
        BY <1>3, <1>4, <1>5, <1>7, <4>1
    <3>3. QED
      BY <3>1, <3>2
  <2>2. QED
    BY <1>5, <2>1 DEF DroppedForABetter
<1>10. KeptOnce'
  <2>1. \A k \in 1..Len(keep) : keep[k] # i
    BY <1>1 DEF KeptOnce, Kept
  <2>2. ASSUME NEW k \in 1..Len(keep'), NEW l \in 1..Len(keep'), keep'[k] = keep'[l]
        PROVE  k = l
    <3>1. /\ k \in 1..Len(keep) \/ k = Len(keep) + 1
          /\ l \in 1..Len(keep) \/ l = Len(keep) + 1
      <4>1. Len(keep) \in Nat /\ k \in 1..(Len(keep) + 1) /\ l \in 1..(Len(keep) + 1)
        BY <1>2, <2>2, Zenon
      <4> HIDE DEF IInv, NmsTypeOK
      <4>2. QED
        BY <4>1
    <3>2. \A m, n \in 1..Len(keep) : keep[m] = keep[n] => m = n
      BY DEF KeptOnce
    <3>3. QED
      BY <1>2, <2>1, <2>2, <3>1, <3>2
  <2>3. Kept' \cap order' = {}
    BY <1>3, <1>5 DEF KeptOnce
  <2>4. QED
    BY <2>2, <2>3 DEF KeptOnce
<1>11. FirstIsBest'
  <2>1. CASE keep = <<>>
    <3>1. keep'[1] = i
      BY <1>2, <2>1
    <3>2. QED
      BY <1>1, <1>5, <2>1, <3>1 DEF FirstIsBest
  <2>2. CASE keep # <<>>
    <3>1. Len(keep) >= 1
      BY <2>2, EmptySeq
    <3>2. keep'[1] = keep[1]
      BY <1>2, <3>1
    <3>3. QED
      BY <1>5, <2>2, <3>2 DEF FirstIsBest
  <2>3. QED
    BY <2>1, <2>2
<1>12. (\A k \in Kept, j \in order : ~Overlap(k, j))'
  BY <1>1, <1>3, <1>4, <1>5, <1>7
<1>13. keep' # <<>>
  BY <1>2
<1>14. QED
  BY <1>6, <1>8, <1>9, <1>10, <1>11, <1>12, <1>13

\* A state in which only the other variables of the node change.
LEMMA SameIInv == IInv /\ UNCHANGED nmsVars => IInv'
BY SMTT(30) DEF nmsVars, IInv, NmsTypeOK, KeptApart, DroppedForABetter, KeptOnce, FirstIsBest, Kept,
       Overlap, Index

\* The invariant of nms holds at every round of the loop, for the bottles and the cups of
\* every frame.
THEOREM NmsCorrect == Spec => []IInv
<1> DEFINE DInv == IInv /\ frame \in Frames \cup {None}
<1>1. DInv /\ [Next]_vars => DInv'
  <2> SUFFICES ASSUME DInv, [Next]_vars PROVE DInv'
    OBVIOUS
  <2>1. ASSUME NEW f \in Frames, Predict(f) PROVE DInv'
    BY <2>1, ArgumentsType, CallIInv DEF Predict
  <2>2. ASSUME Suppress PROVE DInv'
    BY <2>2, KeepIInv DEF Suppress, Round
  <2>3. ASSUME Cups PROVE DInv'
    BY <2>3, ArgumentsType, CallIInv DEF Cups
  <2>4. ASSUME Publish PROVE DInv'
    BY <2>4, SameIInv DEF Publish
  <2>5. CASE UNCHANGED vars
    BY <2>5, SameIInv DEF vars
  <2>6. QED
    BY <2>1, <2>2, <2>3, <2>4, <2>5 DEF Next
<1>2. Init => DInv
  BY InitIInv DEF Init
<1>3. QED
  BY <1>1, <1>2, PTL DEF Spec

\* Whatever the number of boxes and however ties are broken, the boxes that nms keeps are
\* apart, every other gave way to one as good, and the first is the best there was.
THEOREM KeepsTheBest == Spec => []SuppressesNonMaxima
<1>1. IInv => SuppressesNonMaxima
  BY DEF IInv, SuppressesNonMaxima
<1>2. QED
  BY <1>1, NmsCorrect, PTL

-----------------------------------------------------------------------------
(* What is published.                                                       *)

Pixels == (0..(Width - 1)) \X (0..(Height - 1))
Corners == (0..(Width - 1)) \X (0..(Height - 1)) \X (0..(Width - 1)) \X (0..(Height - 1))

\* Clipped corners are in the frame.
LEMMA ClipInFrame ==
  ASSUME NEW b \in Int \X Int \X Int \X Int
  PROVE  Clip(b) \in Corners
BY DetectorAssumption DEF Clip, Corners

\* And so is the centre of a box with such corners.
LEMMA CentreInFrame ==
  ASSUME NEW b \in Corners
  PROVE  Centre(b) \in Pixels
<1>1. /\ b[1] \in 0..(Width - 1) /\ b[2] \in 0..(Height - 1)
      /\ b[3] \in 0..(Width - 1) /\ b[4] \in 0..(Height - 1)
  BY DEF Corners
<1>2. \A n \in Nat : \A x, y \in 0..(n - 1) : (x + y) \div 2 \in 0..(n - 1)
  OBVIOUS
<1>3. (b[1] + b[3]) \div 2 \in 0..(Width - 1) /\ (b[2] + b[4]) \div 2 \in 0..(Height - 1)
  BY <1>1, <1>2, DetectorAssumption
<1>4. QED
  BY <1>3 DEF Centre, Pixels

\* The sums of a history of at most five detections are what they should be: the
\* function that is described by its recursion exists, as it can be written out.
LEMMA SumsAre ==
  ASSUME NEW h \in Seq(Int \X Int), Len(h) <= HistoryLen, NEW a \in {1, 2}
  PROVE  /\ Sums(h, a)[0] = 0
         /\ \A n \in 1..Len(h) : Sums(h, a)[n] = Sums(h, a)[n - 1] + h[n][a]
<1> DEFINE D == 0..Len(h)
           Is(f) == f = [n \in D |-> IF n = 0 THEN 0 ELSE f[n - 1] + h[n][a]]
           v(n) == h[n][a]
           g == [n \in D |-> IF n = 0 THEN 0
                             ELSE IF n = 1 THEN v(1)
                             ELSE IF n = 2 THEN v(1) + v(2)
                             ELSE IF n = 3 THEN v(1) + v(2) + v(3)
                             ELSE IF n = 4 THEN v(1) + v(2) + v(3) + v(4)
                             ELSE v(1) + v(2) + v(3) + v(4) + v(5)]
<1>1. Len(h) \in Nat /\ Len(h) <= 5
  BY LenProperties DEF HistoryLen
<1>2. \A n \in 1..Len(h) : v(n) \in Int
  BY ElementOfSeq
<1>3. Is(g)
  <2>1. ASSUME NEW n \in D, n # 0
        PROVE  g[n] = g[n - 1] + v(n)
    <3>1. n - 1 \in D /\ n \in 1..Len(h) /\ n \in {1, 2, 3, 4, 5} /\ \A i \in 1..n : i \in 1..Len(h)
      BY <1>1, <2>1
    <3> HIDE DEF v, D
    <3>2. CASE n = 1
      <4>1. v(1) \in Int
        BY <1>2, <3>1, <3>2
      <4>2. QED
        BY <3>1, <3>2, <4>1
    <3>3. CASE n = 2
      BY <3>1, <3>3
    <3>4. CASE n = 3
      BY <3>1, <3>4
    <3>5. CASE n = 4
      BY <3>1, <3>5
    <3>6. CASE n = 5
      BY <3>1, <3>6
    <3>7. QED
      BY <3>1, <3>2, <3>3, <3>4, <3>5, <3>6
  <2>2. g[0] = 0
    BY <1>1
  <2> DEFINE r == [n \in D |-> IF n = 0 THEN 0 ELSE g[n - 1] + v(n)]
  <2>3. \A n \in D : g[n] = r[n]
    <3> HIDE DEF g
    <3>1. QED
      BY <2>1, <2>2
  <2>4. g = r
    BY <2>3
  <2>5. QED
    BY <2>4
<1> HIDE DEF g
<1>4. \E f : Is(f)
  BY <1>3
<1>5. Is(CHOOSE f : Is(f))
  <2> HIDE DEF Is
  <2>1. QED
    BY <1>4
<1>6. Sums(h, a) = (CHOOSE f : Is(f))
  BY DEF Sums
<1> DEFINE s == Sums(h, a)
<1>7. s = [n \in D |-> IF n = 0 THEN 0 ELSE s[n - 1] + h[n][a]]
  BY <1>5, <1>6
<1> HIDE DEF s
<1>8. s[0] = 0 /\ \A n \in 1..Len(h) : s[n] = s[n - 1] + h[n][a]
  <2>1. 0 \in D /\ \A n \in 1..Len(h) : n \in D /\ n # 0
    BY <1>1
  <2> HIDE DEF D
  <2>2. QED
    BY <1>7, <2>1
<1>9. QED
  BY <1>8 DEF s

\* A mean lies between bounds of what it is the mean of.
LEMMA MeanBetween ==
  ASSUME NEW h \in Seq(Int \X Int), Len(h) \in 1..HistoryLen, NEW a \in {1, 2},
         NEW lo \in Int, NEW hi \in Int, \A n \in 1..Len(h) : h[n][a] \in lo..hi
  PROVE  Mean(h, a) \in lo..hi
<1> DEFINE s == Sums(h, a)
           l == Len(h)
<1>1. s[0] = 0 /\ \A n \in 1..l : s[n] = s[n - 1] + h[n][a]
  BY SumsAre
<1>2. l \in {1, 2, 3, 4, 5}
  BY DEF HistoryLen
<1>3. Mean(h, a) = s[l] \div l
  BY DEF Mean
<1> DEFINE v(n) == h[n][a]
<1>4. \A n \in 1..l : v(n) \in lo..hi /\ v(n) \in Int
  OBVIOUS
<1>5. \A n \in 1..l : s[n] = s[n - 1] + v(n)
  BY <1>1
<1> HIDE DEF s, v, l
<1> DEFINE Between(n) == s[n] \in Int /\ s[n] >= n * lo /\ s[n] <= n * hi
<1>6. Between(1)
  <2>1. 1 \in 1..l
    BY <1>2
  <2>2. s[1] = s[0] + v(1) /\ v(1) \in lo..hi
    BY <1>4, <1>5, <2>1
  <2>3. QED
    BY <1>1, <2>2
<1>7. \A n \in 2..5 : n \in 1..l /\ Between(n - 1) => Between(n)
  <2>1. ASSUME NEW n \in 2..5, n \in 1..l, Between(n - 1) PROVE Between(n)
    <3>1. s[n] = s[n - 1] + v(n) /\ v(n) \in lo..hi
      BY <1>4, <1>5, <2>1
    <3>2. n = 2 \/ n = 3 \/ n = 4 \/ n = 5
      BY <2>1
    <3>3. s[n] \in Int /\ s[n] >= s[n - 1] + lo /\ s[n] <= s[n - 1] + hi
      BY <2>1, <3>1
    <3>4. QED
      BY <2>1, <3>2, <3>3, SMTT(30)
  <2>2. QED
    BY <2>1
<1>8. Between(l)
  <2> HIDE DEF Between
  <2>1. l >= 2 => Between(2)
    BY <1>2, <1>6, <1>7
  <2>2. l >= 3 => Between(3)
    BY <1>2, <1>7, <2>1
  <2>3. l >= 4 => Between(4)
    BY <1>2, <1>7, <2>2
  <2>4. l >= 5 => Between(5)
    BY <1>2, <1>7, <2>3
  <2>5. QED
    BY <1>2, <1>6, <2>1, <2>2, <2>3, <2>4
<1>9. s[l] \div l \in lo..hi
  BY <1>2, <1>8
<1>10. QED
  BY <1>3, <1>9

\* What the node has in hand and what it keeps of the frames before.
Kinds ==
  /\ \A k \in Index : boxes[k] \in Corners
  /\ found \in Pixels \cup {None}
  /\ history \in [Topics -> Seq(Pixels)]
  /\ out \in [Topics -> Pixels \cup {None}]
  /\ seen \in [Topics -> [at : Pixels \cup {None}, times : 0..HistoryLen]]

\* The last detections are those that seen counts, and the point is then their place.
Settled(t) ==
  LET h == history[t]
      k == seen[t].times
  IN  /\ Len(h) <= HistoryLen /\ k <= Len(h)
      /\ \A n \in 1..Len(h) : n > Len(h) - k => h[n] = seen[t].at
      /\ k = HistoryLen => out[t] = seen[t].at
      /\ out[t] # None => h # <<>>

PInv == Kinds /\ \A t \in Topics : Settled(t)

\* None is no pixel.
LEMMA NoneIsNoPixel == None \notin Pixels
<1>1. \A p \in Pixels : p \in Int \X Int
  BY DEF Pixels
<1>2. QED
  BY <1>1, DetectorAssumption

\* deque(maxlen=5), element by element.
LEMMA Remembered ==
  ASSUME NEW h \in Seq(Pixels), Len(h) <= HistoryLen, NEW d \in Pixels
  PROVE  LET r == Remember(h, d) IN
         /\ r \in Seq(Pixels)
         /\ Len(r) = IF Len(h) = HistoryLen THEN HistoryLen ELSE Len(h) + 1
         /\ Len(r) \in 1..HistoryLen /\ Len(r) <= Len(h) + 1 /\ Len(r) \in Nat
         /\ r[Len(r)] = d
         /\ \A n \in 1..(Len(r) - 1) : r[n] = h[n + Len(h) + 1 - Len(r)]
<1> DEFINE r == Remember(h, d)
<1>1. Len(h) \in Nat
  BY LenProperties
<1>2. CASE Len(h) = HistoryLen
  <2>1. r = Append(Tail(h), d)
    BY <1>2 DEF Remember
  <2>2. h # <<>>
    <3>1. Len(<<>>) = 0
      OBVIOUS
    <3>2. h = <<>> => Len(h) = 0
      BY <3>1, Zenon
    <3>3. QED
      BY <1>2, <3>2 DEF HistoryLen
  <2>3. /\ Tail(h) \in Seq(Pixels) /\ Len(Tail(h)) = Len(h) - 1
        /\ \A n \in 1..Len(Tail(h)) : Tail(h)[n] = h[n + 1]
    BY <2>2, HeadTailProperties
  <2>4. /\ r \in Seq(Pixels) /\ Len(r) = Len(h)
        /\ \A n \in 1..(Len(h) - 1) : r[n] = h[n + 1]
        /\ r[Len(h)] = d
    <3>1. /\ Append(Tail(h), d) \in Seq(Pixels) /\ Len(Append(Tail(h), d)) = Len(Tail(h)) + 1
          /\ \A n \in 1..Len(Tail(h)) : Append(Tail(h), d)[n] = Tail(h)[n]
          /\ Append(Tail(h), d)[Len(Tail(h)) + 1] = d
      BY <2>3, AppendProperties, ZenonT(40)
    <3> HIDE DEF r
    <3>2. Len(Tail(h)) + 1 = Len(h)
      BY <1>1, <2>3
    <3>3. QED
      BY <1>1, <2>1, <2>3, <3>1, <3>2
  <2> HIDE DEF r
  <2>5. QED
    BY <1>1, <1>2, <2>4 DEF r, HistoryLen
<1>3. CASE Len(h) # HistoryLen
  <2>1. r = Append(h, d)
    BY <1>3 DEF Remember
  <2>2. /\ Append(h, d) \in Seq(Pixels) /\ Len(Append(h, d)) = Len(h) + 1
        /\ \A n \in 1..Len(h) : Append(h, d)[n] = h[n]
        /\ Append(h, d)[Len(h) + 1] = d
    BY AppendProperties
  <2> HIDE DEF r
  <2>3. Len(h) \in Nat /\ Len(h) < 5 /\ Len(r) = Len(h) + 1
    <3>1. \A m, n \in Nat : m <= n /\ m # n => m < n
      OBVIOUS
    <3>2. Len(h) < HistoryLen
      BY <1>1, <1>3, <3>1, HistoryLen \in Nat DEF HistoryLen
    <3>3. QED
      BY <1>1, <2>1, <2>2, <3>2 DEF HistoryLen
  <2>4. Len(r) >= 1 /\ Len(r) <= 5 /\ Len(r) <= Len(h) + 1 /\ Len(r) \in Nat
    BY <2>3
  <2>5. \A n \in 1..(Len(r) - 1) : n \in 1..Len(h) /\ n + Len(h) + 1 - Len(r) = n
    BY <2>3
  <2>6. QED
    BY <1>3, <2>1, <2>2, <2>3, <2>4, <2>5 DEF r, HistoryLen
<1>4. QED
  BY <1>2, <1>3

\* The mean of a history of pixels is a pixel.
LEMMA MeanIsPixel ==
  ASSUME NEW h \in Seq(Pixels), Len(h) \in 1..HistoryLen
  PROVE  /\ <<Mean(h, 1), Mean(h, 2)>> \in Pixels
         /\ \A d \in Pixels : (\A n \in 1..Len(h) : h[n] = d) => <<Mean(h, 1), Mean(h, 2)>> = d
<1>1. \A n \in 1..Len(h) : h[n] \in Pixels
  BY ElementOfSeq
<1>2. h \in Seq(Int \X Int)
  <2>1. Pixels \subseteq Int \X Int
    BY DEF Pixels
  <2>2. QED
    BY <2>1
<1>3. Width - 1 \in Int /\ Height - 1 \in Int
  BY DetectorAssumption
<1>4. Mean(h, 1) \in 0..(Width - 1)
  <2>1. \A n \in 1..Len(h) : h[n][1] \in 0..(Width - 1)
    BY <1>1 DEF Pixels
  <2>2. QED
    BY <1>2, <1>3, <2>1, MeanBetween, 0 \in Int, 1 \in {1, 2}
<1>5. Mean(h, 2) \in 0..(Height - 1)
  <2>1. \A n \in 1..Len(h) : h[n][2] \in 0..(Height - 1)
    BY <1>1 DEF Pixels
  <2>2. QED
    BY <1>2, <1>3, <2>1, MeanBetween, 0 \in Int, 2 \in {1, 2}
<1>6. ASSUME NEW d \in Pixels, \A n \in 1..Len(h) : h[n] = d
      PROVE  <<Mean(h, 1), Mean(h, 2)>> = d
  <2>1. d[1] \in Int /\ d[2] \in Int /\ d = <<d[1], d[2]>>
    BY DEF Pixels
  <2>2. Mean(h, 1) \in d[1]..d[1]
    <3>1. \A n \in 1..Len(h) : h[n][1] \in d[1]..d[1]
      BY <1>6, <2>1
    <3>2. QED
      BY <1>2, <2>1, <3>1, MeanBetween
  <2>3. Mean(h, 2) \in d[2]..d[2]
    <3>1. \A n \in 1..Len(h) : h[n][2] \in d[2]..d[2]
      BY <1>6, <2>1
    <3>2. QED
      BY <1>2, <2>1, <3>1, MeanBetween
  <2>4. Mean(h, 1) = d[1] /\ Mean(h, 2) = d[2]
    BY <2>1, <2>2, <2>3
  <2>5. QED
    BY <2>1, <2>4
<1>7. QED
  BY <1>4, <1>5, <1>6 DEF Pixels

\* A detection is in the frame.
LEMMA DetectionInFrame ==
  ASSUME IInv, Kinds
  PROVE  Detection \in Pixels \cup {None}
<1>1. CASE keep = <<>>
  BY <1>1 DEF Detection
<1>2. CASE keep # <<>>
  <2>1. keep \in Seq(Index) /\ Len(keep) >= 1
    <3>1. keep \in Seq(Index)
      BY DEF IInv, NmsTypeOK
    <3>2. QED
      BY <1>2, <3>1, EmptySeq
  <2>2. keep[1] \in Index
    BY <2>1, ElementOfSeq
  <2>3. boxes[keep[1]] \in Corners
    BY <2>2 DEF Kinds
  <2>4. QED
    BY <1>2, <2>3, CentreInFrame DEF Detection
<1>3. QED
  BY <1>1, <1>2

\* The boxes that nms is called with are in the frame.
LEMMA BoxesInFrame ==
  ASSUME NEW f \in Frames, NEW t, Call(Boxes(f, t), Scores(f, t))
  PROVE  \A k \in Index' : boxes'[k] \in Corners
<1>1. boxes' = Boxes(f, t)
  BY DEF Call
<1>2. \A k \in Candidates(f, t) : f[k].box \in Int \X Int \X Int \X Int
  BY DetectorAssumption DEF Candidates
<1>3. \A k \in Candidates(f, t) : Clip(f[k].box) \in Corners
  BY <1>2, ClipInFrame
<1>4. QED
  BY <1>1, <1>3 DEF Boxes, Index

\* Before the first frame nothing is kept and nothing counted.
LEMMA InitPInv == Init => PInv
<1> SUFFICES ASSUME Init PROVE PInv
  OBVIOUS
<1>1. \A k \in Index : FALSE
  BY DEF Init, Index
<1>2. /\ found = None /\ history = [t \in Topics |-> <<>>] /\ out = [t \in Topics |-> None]
      /\ seen = [t \in Topics |-> [at |-> None, times |-> 0]]
  BY DEF Init
<1>3. Kinds
  BY <1>1, <1>2 DEF Kinds, HistoryLen
<1>4. ASSUME NEW t \in Topics PROVE Settled(t)
  <2>1. history[t] = <<>> /\ seen[t].times = 0 /\ out[t] = None /\ Len(<<>>) = 0
    BY <1>2
  <2>2. QED
    BY <2>1 DEF Settled, HistoryLen
<1>5. QED
  BY <1>3, <1>4 DEF PInv

\* What publishing does for one topic: d is the detection of this frame.
LEMMA PublishTopic ==
  ASSUME Kinds, NEW t \in Topics, Settled(t), NEW d \in Pixels \cup {None},
         history'[t] = Smooth(history[t], d).history,
         out'[t] = Smooth(history[t], d).point,
         seen'[t] = IF d = None THEN seen[t]
                    ELSE [at |-> d, times |-> IF d # seen[t].at THEN 1
                                              ELSE Smaller(seen[t].times + 1, HistoryLen)]
  PROVE  /\ history'[t] \in Seq(Pixels)
         /\ out'[t] \in Pixels \cup {None}
         /\ seen'[t] \in [at : Pixels \cup {None}, times : 0..HistoryLen]
         /\ Settled(t)'
         /\ out[t] # None => out'[t] # None
<1> DEFINE h == history[t]
           s == seen[t]
           r == Remember(h, d)
<1>1. h \in Seq(Pixels) /\ s \in [at : Pixels \cup {None}, times : 0..HistoryLen]
      /\ out[t] \in Pixels \cup {None}
  BY DEF Kinds
<1>2. /\ Len(h) \in Nat /\ Len(h) <= HistoryLen /\ s.times <= Len(h) /\ s.times \in 0..HistoryLen
      /\ s.at \in Pixels \cup {None}
  BY <1>1, LenProperties DEF Settled
<1>3. \A n \in 1..Len(h) : n > Len(h) - s.times => h[n] = s.at
  BY DEF Settled
<1>4. HistoryLen = 5
  BY DEF HistoryLen
<1>5. CASE d = None
  <2>1. history'[t] = h /\ seen'[t] = s
    BY <1>5 DEF Smooth
  <2>2. out'[t] = IF h = <<>> THEN None ELSE h[Len(h)]
    BY <1>5 DEF Smooth
  <2>3. h # <<>> => Len(h) \in 1..Len(h) /\ h[Len(h)] \in Pixels
    BY <1>1, <1>2, EmptySeq, ElementOfSeq
  <2>4. out'[t] \in Pixels \cup {None} /\ (out'[t] # None <=> h # <<>>)
    BY <2>2, <2>3, NoneIsNoPixel
  <2>5. s.times = HistoryLen => out'[t] = s.at
    <3>1. ASSUME s.times = HistoryLen PROVE out'[t] = s.at
      <4>1. h # <<>>
        <5>1. Len(<<>>) = 0
          OBVIOUS
        <5>2. h = <<>> => Len(h) = 0
          BY <5>1, Zenon
        <5>3. QED
          BY <1>2, <1>4, <3>1, <5>2
      <4>2. h[Len(h)] = s.at
        BY <1>2, <1>3, <1>4, <2>3, <3>1, <4>1
      <4>3. QED
        BY <2>2, <4>1, <4>2
    <3>2. QED
      BY <3>1
  <2>6. Settled(t)'
    <3> HIDE DEF h, s
    <3>1. QED
      BY <1>2, <1>3, <2>1, <2>4, <2>5 DEF Settled
  <2>7. out[t] # None => h # <<>>
    BY DEF Settled
  <2>8. QED
    BY <1>1, <2>1, <2>4, <2>6, <2>7
<1>6. CASE d # None
  <2>1. d \in Pixels
    BY <1>6
  <2>2. /\ r \in Seq(Pixels)
        /\ Len(r) = IF Len(h) = HistoryLen THEN HistoryLen ELSE Len(h) + 1
        /\ Len(r) \in 1..HistoryLen /\ Len(r) <= Len(h) + 1 /\ Len(r) \in Nat
        /\ r[Len(r)] = d
        /\ \A n \in 1..(Len(r) - 1) : r[n] = h[n + Len(h) + 1 - Len(r)]
    BY <1>1, <1>2, <2>1, Remembered
  <2>3. history'[t] = r /\ out'[t] = <<Mean(r, 1), Mean(r, 2)>>
    BY <1>6 DEF Smooth
  <2>4. Len(r) \in 1..HistoryLen /\ Len(r) <= Len(h) + 1 /\ Len(r) \in Nat
    BY <2>2
  <2>5. out'[t] \in Pixels /\ ((\A n \in 1..Len(r) : r[n] = d) => out'[t] = d)
    BY <2>1, <2>2, <2>3, <2>4, MeanIsPixel
  <2> DEFINE k == seen'[t].times
  <2>6. /\ seen'[t] \in [at : Pixels \cup {None}, times : 0..HistoryLen]
        /\ seen'[t].at = d
        /\ k \in 1..HistoryLen
        /\ k <= 1 \/ (d = s.at /\ k <= s.times + 1)
    <3>1. seen'[t] = [at |-> d, times |-> IF d # s.at THEN 1 ELSE Smaller(s.times + 1, HistoryLen)]
      BY <1>6
    <3>2. seen'[t].at = d /\ k = IF d # s.at THEN 1 ELSE Smaller(s.times + 1, HistoryLen)
      BY <3>1
    <3>3. k \in 1..HistoryLen /\ (d # s.at => k <= 1) /\ (d = s.at => k <= s.times + 1)
      <4> HIDE DEF k, s
      <4>1. QED
        BY <1>2, <1>4, <3>2 DEF Smaller
    <3>4. seen'[t] \in [at : Pixels \cup {None}, times : 0..HistoryLen]
      <4>1. seen'[t] = [at |-> d, times |-> k]
        BY <3>1, <3>2
      <4> HIDE DEF k
      <4>2. QED
        BY <1>4, <3>3, <4>1
    <3>5. QED
      BY <3>2, <3>3, <3>4
  <2>7. k <= Len(r)
    <3> HIDE DEF k, r, s, h
    <3>1. QED
      BY <1>2, <1>4, <2>2, <2>4, <2>6
  <2>8. \A n \in 1..Len(r) : n > Len(r) - k => r[n] = d
    <3> HIDE DEF k, r, s, h
    <3>1. ASSUME NEW n \in 1..Len(r), n > Len(r) - k, n # Len(r)
          PROVE  r[n] = d
      <4>1. d = s.at /\ k <= s.times + 1
        BY <2>4, <2>6, <3>1
      <4>2. n \in 1..(Len(r) - 1)
        BY <2>4, <3>1
      <4> DEFINE m == n + Len(h) + 1 - Len(r)
      <4>3. r[n] = h[m]
        BY <2>2, <4>2
      <4>4. m \in 1..Len(h) /\ m > Len(h) - s.times
        BY <1>2, <2>4, <2>6, <3>1, <4>1, <4>2
      <4>5. h[m] = s.at
        <5> HIDE DEF m
        <5>1. QED
          BY <1>3, <4>4
      <4>6. QED
        BY <4>1, <4>3, <4>5
    <3>2. QED
      BY <2>2, <3>1
  <2>9. k = HistoryLen => out'[t] = d
    <3>1. ASSUME k = HistoryLen PROVE \A n \in 1..Len(r) : n > Len(r) - k
      <4> HIDE DEF k, r, s, h
      <4>1. QED
        BY <1>4, <2>2, <2>4, <3>1
    <3>2. QED
      BY <2>5, <2>8, <3>1
  <2>10. r # <<>>
    <3>1. Len(<<>>) = 0
      OBVIOUS
    <3>2. r = <<>> => Len(r) = 0
      BY <3>1, Zenon
    <3> HIDE DEF k, r, s, h
    <3>3. QED
      BY <1>4, <2>2, <2>4, <3>2
  <2>11. Settled(t)'
    <3> HIDE DEF k, r
    <3>1. /\ Len(r) <= HistoryLen /\ k <= Len(r)
          /\ \A n \in 1..Len(r) : n > Len(r) - k => r[n] = seen'[t].at
          /\ k = HistoryLen => out'[t] = seen'[t].at
          /\ r # <<>>
      BY <1>4, <2>4, <2>6, <2>7, <2>8, <2>9, <2>10
    <3>2. QED
      BY <2>3, <3>1 DEF Settled, k
  <2>12. QED
    BY <2>2, <2>3, <2>5, <2>6, <2>11, NoneIsNoPixel
<1>7. QED
  BY <1>5, <1>6

\* One frame, for both topics.
LEMMA PublishPInv ==
  ASSUME IInv, PInv, Publish
  PROVE  /\ PInv'
         /\ \A t \in Topics : out[t] # None => out'[t] # None
<1> DEFINE d == [t \in Topics |-> IF t = "bottle" THEN found ELSE Detection]
<1>1. \A t \in Topics : d[t] \in Pixels \cup {None}
  BY DetectionInFrame DEF PInv, Kinds
<1>2. \A t \in Topics : Settled(t) /\ Kinds
  BY DEF PInv
<1>3. /\ history' = [t \in Topics |-> Smooth(history[t], d[t]).history]
      /\ out' = [t \in Topics |-> Smooth(history[t], d[t]).point]
      /\ seen' = [t \in Topics |->
            IF d[t] = None THEN seen[t]
            ELSE [at |-> d[t], times |-> IF d[t] # seen[t].at THEN 1
                                         ELSE Smaller(seen[t].times + 1, HistoryLen)]]
      /\ UNCHANGED <<nmsVars, found>>
  BY DEF Publish
<1> HIDE DEF d
<1>4. ASSUME NEW t \in Topics
      PROVE  /\ history'[t] \in Seq(Pixels)
             /\ out'[t] \in Pixels \cup {None}
             /\ seen'[t] \in [at : Pixels \cup {None}, times : 0..HistoryLen]
             /\ Settled(t)'
             /\ out[t] # None => out'[t] # None
  <2>1. /\ history'[t] = Smooth(history[t], d[t]).history
        /\ out'[t] = Smooth(history[t], d[t]).point
    BY <1>3
  <2>2. seen'[t] = IF d[t] = None THEN seen[t]
                   ELSE [at |-> d[t], times |-> IF d[t] # seen[t].at THEN 1
                                                ELSE Smaller(seen[t].times + 1, HistoryLen)]
    BY <1>3
  <2>3. QED
    BY <1>1, <1>2, <2>1, <2>2, PublishTopic
<1>5. Kinds'
  <2>1. history' \in [Topics -> Seq(Pixels)]
    BY <1>3, <1>4
  <2>2. out' \in [Topics -> Pixels \cup {None}]
    BY <1>3, <1>4
  <2>3. seen' \in [Topics -> [at : Pixels \cup {None}, times : 0..HistoryLen]]
    BY <1>3, <1>4
  <2>4. (\A k \in Index : boxes[k] \in Corners)' /\ found' \in Pixels \cup {None}
    BY <1>3 DEF PInv, Kinds, nmsVars, Index
  <2>5. QED
    BY <2>1, <2>2, <2>3, <2>4 DEF Kinds
<1>6. QED
  BY <1>4, <1>5 DEF PInv

\* A call of nms leaves what is kept of earlier frames alone.
LEMMA HandledPInv ==
  ASSUME PInv, UNCHANGED handled, found' \in Pixels \cup {None},
         \A k \in Index' : boxes'[k] \in Corners
  PROVE  PInv'
BY DEF PInv, Kinds, Settled, handled

\* Both invariants, and the frame in hand.
AllInv == IInv /\ PInv /\ frame \in Frames \cup {None}

\* A step keeps them, and a topic that is published stays so.
LEMMA StepAllInv ==
  ASSUME AllInv, [Next]_vars
  PROVE  AllInv' /\ \A t \in Topics : out[t] # None => out'[t] # None
<1>1. ASSUME NEW f \in Frames, Predict(f)
      PROVE  AllInv' /\ out' = out
  <2>1. IInv' /\ frame' \in Frames
    BY <1>1, ArgumentsType, CallIInv DEF Predict
  <2>2. PInv' /\ out' = out
    BY <1>1, BoxesInFrame, HandledPInv DEF Predict, AllInv, handled
  <2>3. QED
    BY <2>1, <2>2 DEF AllInv
<1>2. ASSUME Suppress
      PROVE  AllInv' /\ out' = out
  <2>1. IInv'
    BY <1>2, KeepIInv DEF Suppress, Round, AllInv
  <2>2. UNCHANGED <<frame, found, handled, boxes>>
    BY <1>2 DEF Suppress, Round, Keep
  <2>3. PInv'
    BY <2>2 DEF AllInv, PInv, Kinds, Settled, handled, Index
  <2>4. QED
    BY <2>1, <2>2, <2>3 DEF AllInv, handled
<1>3. ASSUME Cups
      PROVE  AllInv' /\ out' = out
  <2>1. frame \in Frames
    BY <1>3 DEF Cups, AllInv
  <2>2. IInv' /\ frame' \in Frames
    BY <1>3, <2>1, ArgumentsType, CallIInv DEF Cups
  <2>3. found' \in Pixels \cup {None}
    BY <1>3, DetectionInFrame DEF Cups, AllInv, PInv
  <2>4. PInv' /\ out' = out
    BY <1>3, <2>1, <2>3, BoxesInFrame, HandledPInv DEF Cups, AllInv, handled
  <2>5. QED
    BY <2>2, <2>4 DEF AllInv
<1>4. ASSUME Publish
      PROVE  AllInv' /\ \A t \in Topics : out[t] # None => out'[t] # None
  <2>1. IInv'
    BY <1>4, SameIInv DEF Publish, AllInv
  <2>2. frame' = None
    BY <1>4 DEF Publish
  <2>3. QED
    BY <1>4, <2>1, <2>2, PublishPInv DEF AllInv
<1>5. ASSUME UNCHANGED vars
      PROVE  AllInv' /\ out' = out
  <2>1. IInv'
    BY <1>5, SameIInv DEF vars, AllInv
  <2>2. PInv'
    BY <1>5 DEF vars, nmsVars, AllInv, PInv, Kinds, Settled, Index
  <2>3. QED
    BY <1>5, <2>1, <2>2 DEF vars, AllInv
<1>6. QED
  BY <1>1, <1>2, <1>3, <1>4, <1>5 DEF Next

\* They hold in every state.
LEMMA Published == Spec => []AllInv
<1>1. Init => AllInv
  BY InitIInv, InitPInv DEF AllInv, Init
<1>2. AllInv /\ [Next]_vars => AllInv'
  BY StepAllInv
<1>3. QED
  BY <1>1, <1>2, PTL DEF Spec

\* However far outside the frame the network puts the corners of its boxes, what is
\* published is a pixel of it.
THEOREM InFrame == Spec => []PublishedInFrame
<1>1. AllInv => PublishedInFrame
  <2>1. \A p \in Pixels : p[1] \in 0..(Width - 1) /\ p[2] \in 0..(Height - 1)
    BY DEF Pixels
  <2>2. QED
    BY <2>1 DEF AllInv, PInv, Kinds, PublishedInFrame
<1>2. QED
  BY <1>1, Published, PTL

\* Five detections at one place move the published point there.
THEOREM Settles == Spec => []SettlesInFive
<1>1. AllInv => SettlesInFive
  BY DEF AllInv, PInv, Settled, SettlesInFive
<1>2. QED
  BY <1>1, Published, PTL

\* A topic that has been published once is published for every later frame.
THEOREM StaysPublished == Spec => KeepsPublishing
<1>1. AllInv /\ [Next]_vars => [\A t \in Topics : out[t] # None => out'[t] # None]_vars
  BY StepAllInv
<1>2. QED
  BY <1>1, Published, PTL DEF Spec, KeepsPublishing
=============================================================================
