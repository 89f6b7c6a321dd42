---------------------------- MODULE DetectorMatch ----------------------------
(***************************************************************************)
(* The scoring of the person detector (tools/eval/detector_iou.py, as      *)
(* detector_eval.py calls it): boxes are matched with boxes twice, frame   *)
(* by frame for the counts and in one walk over the whole set for the      *)
(* average precision, by two pieces of code that have to agree.            *)
(*                                                                         *)
(* A fraction is compared by its cross products; precision is counted in   *)
(* parts of Scale.                                                         *)
(***************************************************************************)
EXTENDS Integers, Sequences, FiniteSets

CONSTANTS
    FrameCount,     \* number of frames of the test set
    Width, Height,  \* of every image, in pixels
    MaxConf,        \* confidences are 0 .. MaxConf, or NoConf
    Num, Den,       \* the IoU threshold is Num / Den
    MaxGts,         \* bound on the annotated boxes of all frames
    MaxPreds,       \* bound on the predicted boxes of all frames
    Scale           \* every precision is a whole number of its parts

MatchAssumption ==
    /\ {FrameCount, Width, Height, MaxConf, MaxGts, MaxPreds} \subseteq Nat
    /\ Num \in Nat \ {0} /\ Den \in Nat /\ Num <= Den
    /\ Scale \in Nat \ {0} /\ \A n \in 1 .. MaxPreds : Scale % n = 0

VARIABLES
    stage,      \* "annotations", "predictions", "counts", "walk", "done"
    gts,        \* Frame.gt, for each frame: sequences of [box, key]
    preds,      \* Frame.preds: sequences of [box, conf, key]
    todo,       \* <<frame, prediction>> a loop has still to come to
    results,    \* <<frame, prediction, gt>> that are counted, frame by frame
    pairs,      \* <<frame, prediction, gt>> of the walk over all frames
    points,     \* its points: <<tp_cum, tp_cum + fp_cum>>
    ap          \* the average precision in parts of Scale * n_gt, or NaN

vars == <<stage, gts, preds, todo, results, pairs, points, ap>>

NoConf == -1
NaN == -1
Frame == 1 .. FrameCount

-----------------------------------------------------------------------------
\* Boxes: <<x_min, y_min, x_max, y_max>>

\* validate_box
Valid(b) == b[1] < b[3] /\ b[2] < b[4] /\ b[3] <= Width /\ b[4] <= Height

Boxes == {b \in (0 .. Width) \X (0 .. Height) \X (0 .. Width) \X (0 .. Height) : Valid(b)}

Lower(a, b) == IF a < b THEN a ELSE b
Upper(a, b) == IF a < b THEN b ELSE a

Area(b) == (b[3] - b[1]) * (b[4] - b[2])

\* iou is Inter / Union.
Inter(a, b) ==
    LET w == Lower(a[3], b[3]) - Upper(a[1], b[1])
        h == Lower(a[4], b[4]) - Upper(a[2], b[2])
    IN  IF w <= 0 \/ h <= 0 THEN 0 ELSE w * h
Union(a, b) == Area(a) + Area(b) - Inter(a, b)

Overlaps(a, b) == Inter(a, b) * Den >= Num * Union(a, b)
IouCompared(p, g, h) == Inter(p, g) * Union(p, h) - Inter(p, h) * Union(p, g)

-----------------------------------------------------------------------------
\* The boxes of all frames, as <<frame, row>>.
Rows(boxes) == UNION {{<<f, i>> : i \in DOMAIN boxes[f]} : f \in Frame}
Total(boxes) == Cardinality(Rows(boxes))

Pred(p) == preds[p[1]][p[2]]

\* The order the predictions are taken in: by confidence, by key, by frame, by
\* row.
Ahead(p, q) ==
    \/ Pred(p).conf > Pred(q).conf
    \/ /\ Pred(p).conf = Pred(q).conf
       /\ \/ Pred(p).key < Pred(q).key
          \/ /\ Pred(p).key = Pred(q).key
             /\ p[1] < q[1] \/ (p[1] = q[1] /\ p[2] < q[2])

\* Prediction p prefers g to h, which are boxes of its frame.
Prefers(p, g, h) ==
    LET c == IouCompared(Pred(p).box, gts[p[1]][g].box, gts[p[1]][h].box)
    IN  c > 0 \/ (c = 0 /\ gts[p[1]][g].key < gts[p[1]][h].key)

\* A mutant of Free: a box may be matched again.
FreeAgain(p, matching) == DOMAIN gts[p[1]]

Free(p, matching) == {g \in DOMAIN gts[p[1]] : \A m \in matching : m[1] = p[1] => m[3] # g}

\* What prediction p takes: a set of one, or none.
Best(p, matching) ==
    LET fits == {g \in Free(p, matching) : Overlaps(Pred(p).box, gts[p[1]][g].box)}
    IN  {g \in fits : \A h \in fits \ {g} : Prefers(p, g, h)}

Match(p, matching) == {<<p[1], p[2], g>> : g \in Best(p, matching)}

-----------------------------------------------------------------------------
NewKey(s, k) == \A i \in DOMAIN s : s[i].key # k

\* The loaders, which let through what make_box makes.
LoadGroundtruth(f, box, key) ==
    /\ stage = "annotations"
    /\ NewKey(gts[f], key) /\ Total(gts) < MaxGts
    /\ gts' = [gts EXCEPT ![f] = Append(@, [box |-> box, key |-> key])]
    /\ UNCHANGED <<stage, preds, todo, results, pairs, points, ap>>

EndGroundtruth ==
    /\ stage = "annotations" /\ stage' = "predictions"
    /\ UNCHANGED <<gts, preds, todo, results, pairs, points, ap>>

LoadPrediction(f, box, conf, key) ==
    /\ stage = "predictions"
    /\ NewKey(preds[f], key) /\ Total(preds) < MaxPreds
    /\ preds' = [preds EXCEPT ![f] = Append(@, [box |-> box, conf |-> conf, key |-> key])]
    /\ UNCHANGED <<stage, gts, todo, results, pairs, points, ap>>

\* score: aggregate over match_frame.
Count ==
    /\ stage = "predictions" /\ stage' = "counts"
    /\ todo' = Rows(preds)
    /\ UNCHANGED <<gts, preds, results, pairs, points, ap>>

\* match_frame, its loop: the next in confidence_order of the first frame that
\* has any.  What is not matched is fp and fn.
MatchFrame(p) ==
    /\ stage = "counts"
    /\ \A q \in todo \ {p} : p[1] < q[1] \/ (p[1] = q[1] /\ Ahead(p, q))
    /\ todo' = todo \ {p} /\ results' = results \cup Match(p, results)
    /\ UNCHANGED <<stage, gts, preds, pairs, points, ap>>

\* average_precision; without ground truth there is none.
Rank ==
    /\ stage = "counts" /\ todo = {}
    /\ IF Total(gts) = 0
       THEN stage' = "done" /\ UNCHANGED todo
       ELSE stage' = "walk" /\ todo' = Rows(preds)
    /\ UNCHANGED <<gts, preds, results, pairs, points, ap>>

\* tp_cum after j of the ranking.
Found(j) == IF j = 0 THEN 0 ELSE points[j][1]

\* The next of the ranking, in its own frame.
Walk(p) ==
    /\ stage = "walk"
    /\ \A q \in todo \ {p} : Ahead(p, q)
    /\ todo' = todo \ {p} /\ pairs' = pairs \cup Match(p, pairs)
    /\ LET tp == Found(Len(points)) + (IF Match(p, pairs) = {} THEN 0 ELSE 1)
       IN  points' = Append(points, <<tp, Len(points) + 1>>)
    /\ UNCHANGED <<stage, gts, preds, results, ap>>

\* Precision at a point, and its envelope: the best at any recall as high.
Precision(j) == (points[j][1] * Scale) \div points[j][2]
Envelope(j) ==
    LET right == {Precision(k) : k \in j .. Len(points)}
    IN  CHOOSE best \in right : \A other \in right : other <= best

\* The area under it.
AreaTo[j \in 0 .. Len(points)] ==
    IF j = 0 THEN 0 ELSE AreaTo[j - 1] + (Found(j) - Found(j - 1)) * Envelope(j)

Integrate ==
    /\ stage = "walk" /\ todo = {} /\ stage' = "done"
    /\ ap' = AreaTo[Len(points)]
    /\ UNCHANGED <<gts, preds, todo, results, pairs, points>>

\* The next results directory.
NextSet ==
    /\ stage = "done" /\ stage' = "annotations"
    /\ gts' = [f \in Frame |-> <<>>] /\ preds' = gts'
    /\ results' = {} /\ pairs' = {} /\ points' = <<>> /\ ap' = NaN
    /\ UNCHANGED todo

Init ==
    /\ stage = "annotations"
    /\ gts = [f \in Frame |-> <<>>] /\ preds = [f \in Frame |-> <<>>]
    /\ todo = {} /\ results = {} /\ pairs = {} /\ points = <<>>
    /\ ap = NaN

Next ==
    \/ \E f \in Frame, box \in Boxes :
          \/ \E key \in 1 .. MaxGts : LoadGroundtruth(f, box, key)
          \/ \E conf \in NoConf .. MaxConf, key \in 1 .. MaxPreds :
                LoadPrediction(f, box, conf, key)
    \/ \E p \in todo : MatchFrame(p) \/ Walk(p)
    \/ EndGroundtruth \/ Count \/ Rank \/ Integrate
    \/ NextSet

Spec == Init /\ [][Next]_vars

-----------------------------------------------------------------------------
\* No prediction would rather have a box that is free or went to one ranked
\* below it.
Stable(p) ==
    \A g \in DOMAIN gts[p[1]] :
        Overlaps(Pred(p).box, gts[p[1]][g].box) =>
            \/ \E m \in results : m[1] = p[1] /\ m[2] = p[2]
                                  /\ (m[3] = g \/ Prefers(p, m[3], g))
            \/ \E m \in results : m[1] = p[1] /\ m[3] = g /\ Ahead(m, p)

\* Every person is found, and no false box ranks above one of them.
Perfect ==
    /\ Cardinality(pairs) = Total(gts)
    /\ \A m \in pairs, p \in Rows(preds) :
          Ahead(p, m) => \E n \in pairs : n[1] = p[1] /\ n[2] = p[2]

\* The counts and the average precision are of one and the same matching; it is
\* one to one and leaves no prediction a box it has the better claim to; and
\* the average precision is full exactly when every person is found and no
\* false box ranks above one of them (match_frame, average_precision).
SameMatching ==
    stage = "done" =>
        /\ \A p \in Rows(preds) : Stable(p)
        /\ \A m, n \in results : m[1] = n[1] => (m[2] = n[2]) = (m[3] = n[3])
        /\ Total(gts) > 0 =>
              /\ pairs = results
              /\ ap <= Scale * Cardinality(pairs)
              /\ (ap = Scale * Total(gts)) = Perfect
=============================================================================
