------------------------------- MODULE TestSet -------------------------------
(***************************************************************************)
(* The detector's test set: four append-only sheets (tools/eval/common.py),*)
(* the imports that add a frame with its detector run and its predicted    *)
(* boxes (detector_import.py), the annotators who draw the true boxes      *)
(* (detector_annotate.py), and the loader every report is computed from    *)
(* (detector_data.py).  A program reads the sheets, decides, and appends   *)
(* row by row; another one may run beside it, and each may die between two *)
(* rows.                                                                   *)
(*                                                                         *)
(* An exported record is a frame with a number of predicted boxes, or one  *)
(* that cannot be used.  Rows that the loader drops because of what is in  *)
(* their cells are left out.                                               *)
(***************************************************************************)
EXTENDS Integers, Sequences, FiniteSets, Functions

CONSTANTS
    Exported,     \* exported frames
    Importer,
    Annotator,
    MaxBox,     \* bound on the boxes of a record
    MaxDrawn    \* bound on the rows of the annotators

TestSetAssumption == MaxBox \in Nat /\ MaxDrawn \in Nat

VARIABLES
    boxes,      \* the number of predicted boxes of each record, or Refused
    indexRows, runRows, predRows, gtRows,   \* the sheets
    known,      \* for each import: the frames in the index when it began, and
                \* those it has done since
    work,       \* for each import: the record it writes and the rows done
    drawing     \* for each annotator: the row it has decided to append

sheets == <<indexRows, runRows, predRows, gtRows>>
vars == <<boxes, sheets, known, work, drawing>>

Idle == [at |-> "idle"]
Ready == [at |-> "ready"]
Pred(f, i) == [at |-> "pred", frame |-> f, n |-> i]
Blank == 0      \* EMPTY_BOX_ID
Refused == -1

Init ==
    /\ boxes \in [Exported -> {Refused} \cup 0 .. MaxBox]
    /\ indexRows = <<>> /\ runRows = <<>> /\ predRows = <<>> /\ gtRows = <<>>
    /\ known = [p \in Importer |-> {}]
    /\ work = [p \in Importer |-> Idle]
    /\ drawing = [a \in Annotator |-> Idle]

-----------------------------------------------------------------------------
\* load_dataset

\* _load_index: a second row of a frame is dropped.
Frames == Range(indexRows)

\* _frame_of: a row of another frame is dropped.
FrameOf(f) == f \in Frames

\* _load_runs: all runs of a frame are kept.
Runs(f) == {i \in DOMAIN runRows : FrameOf(f) /\ runRows[i] = f}
Ran(f) == Runs(f) # {}

\* _load_predictions: of a frame that ran, each pred_id once.
Preds(f) == IF Ran(f) THEN {r[2] : r \in {r \in Range(predRows) : r[1] = f}} ELSE {}

\* _load_groundtruth: each box_id once; Blank says that nobody is in the frame.
Said(f) == {r[2] : r \in {r \in Range(gtRows) : FrameOf(f) /\ r[1] = f}}
Annotated(f) == Said(f) # {}
Gt(f) == Said(f) \ {Blank}
PersonFree(f) == Annotated(f) /\ Gt(f) = {}

Scorable(f) == Annotated(f) /\ Ran(f)

\* A mutant of Warned: the rows of the sheet are counted, those the loader
\* dropped with the others.
WarnedByRows(f) ==
    \E i \in Runs(f) : Len(SelectSeq(predRows, LAMBDA r : r[1] = f)) # boxes[f]

\* _cross_check: a run names its number of boxes.
Warned(f) == \E i \in Runs(f) : Cardinality(Preds(f)) # boxes[f]

-----------------------------------------------------------------------------
\* detector_import.py

\* It reads the index once, when it starts.
StartImport(p) ==
    /\ work[p] = Idle
    /\ known' = [known EXCEPT ![p] = Frames]
    /\ work' = [work EXCEPT ![p] = Ready]
    /\ UNCHANGED <<boxes, sheets, drawing>>

\* read_record: one bad prediction and the record is refused.
Usable(f) == boxes[f] # Refused

\* A record whose frame is known is skipped.
TakeRecord(p) ==
    /\ work[p] = Ready
    /\ \E f \in {f \in Exported \ known[p] : Usable(f)} :
        /\ indexRows' = Append(indexRows, f)
        /\ known' = [known EXCEPT ![p] = @ \cup {f}]
        /\ work' = [work EXCEPT ![p] = [at |-> "run", frame |-> f]]
    /\ UNCHANGED <<boxes, runRows, predRows, gtRows, drawing>>

WriteRun(p) ==
    /\ work[p].at = "run"
    /\ LET f == work[p].frame
       IN  /\ runRows' = Append(runRows, f)
           /\ work' = [work EXCEPT ![p] = IF boxes[f] = 0 THEN Ready ELSE Pred(f, 1)]
    /\ UNCHANGED <<boxes, indexRows, predRows, gtRows, known, drawing>>

WritePred(p) ==
    /\ work[p].at = "pred"
    /\ LET f == work[p].frame
           n == work[p].n
       IN  /\ predRows' = Append(predRows, <<f, n>>)
           /\ work' = [work EXCEPT ![p] = IF n = boxes[f] THEN Ready ELSE Pred(f, n + 1)]
    /\ UNCHANGED <<boxes, indexRows, runRows, gtRows, known, drawing>>

\* It is done with its files, or dies between two rows.
EndImport(p) ==
    /\ work[p] # Idle
    /\ work' = [work EXCEPT ![p] = Idle]
    /\ known' = [known EXCEPT ![p] = {}]
    /\ UNCHANGED <<boxes, sheets, drawing>>

-----------------------------------------------------------------------------
\* detector_annotate.py: one row, after the sheets were read.  What another
\* annotator appends in between is not seen: a frame may end up with a box and
\* with the row that says it has none, which the loader takes for a box.

\* What the annotator's command needs of what is there already.
MayDraw(f, b) == IF b = Blank THEN ~Annotated(f) ELSE ~PersonFree(f) /\ b \notin Gt(f)

\* A box without a name gets the next number.
Decide(a) ==
    /\ drawing[a] = Idle
    /\ \E f \in Frames : \E b \in {Blank, Cardinality(Gt(f)) + 1} :
        /\ MayDraw(f, b)
        /\ drawing' = [drawing EXCEPT ![a] = [at |-> "draw", row |-> <<f, b>>]]
    /\ UNCHANGED <<boxes, sheets, known, work>>

Draw(a) ==
    /\ drawing[a] # Idle /\ Len(gtRows) < MaxDrawn
    /\ gtRows' = Append(gtRows, drawing[a].row)
    /\ drawing' = [drawing EXCEPT ![a] = Idle]
    /\ UNCHANGED <<boxes, indexRows, runRows, predRows, known, work>>

Next ==
    \/ \E p \in Importer :
        StartImport(p) \/ TakeRecord(p) \/ WriteRun(p) \/ WritePred(p) \/ EndImport(p)
    \/ \E a \in Annotator : Decide(a) \/ Draw(a)

Spec == Init /\ [][Next]_vars

-----------------------------------------------------------------------------
\* A frame that is scored without a warning has all the boxes its detector run
\* found, whatever imports ran beside one another or died between two rows (the
\* loader counts what the run says it wrote: _load_predictions, _cross_check).
Scored ==
    \A f \in Exported :
        Scorable(f) /\ ~Warned(f) => Preds(f) = 1 .. boxes[f]
=============================================================================
