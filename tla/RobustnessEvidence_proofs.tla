----------------------- MODULE RobustnessEvidence_proofs -----------------------
(***************************************************************************)
(* Theorems about RobustnessMatrix and RobustnessEvidence: what the        *)
(* generator of the windows owes to the validator that reads their         *)
(* documents, and what a run leaves behind, for every number of processes  *)
(* and cells, every history and every policy.                              *)
(***************************************************************************)
EXTENDS RobustnessEvidence, TLAPS

-----------------------------------------------------------------------------
(* The windows                                                              *)

LEMMA IndexType ==
    ASSUME NEW scheme \in Schemes, NEW ordinal \in Nat
    PROVE  /\ TestStart(scheme, ordinal) \in Nat
           /\ TestStart(scheme, ordinal) > TrainBars[scheme]
           /\ TrainStart(scheme, ordinal) \in 1..TestStart(scheme, ordinal) - 1
<1>1. ordinal * StepBars \in Nat /\ TrainBars[scheme] \in Nat \ {0}
  BY MatrixAssumption
<1> QED
  BY <1>1 DEF TestStart, TrainStart

\* A later test starts later; as many bars later as the steps between.
LEMMA StepsApart ==
    ASSUME NEW scheme \in Schemes, NEW o \in Nat, NEW p \in Nat, o < p
    PROVE  TestStart(scheme, o) + StepBars <= TestStart(scheme, p)
<1>1. PICK d \in Nat : p = o + 1 + d
  <2>1. p - o - 1 \in Nat /\ p = o + 1 + (p - o - 1)
    OBVIOUS
  <2> QED BY <2>1
<1>2. StepBars \in Nat /\ TrainBars[scheme] \in Nat
  BY MatrixAssumption
<1>3. p * StepBars = o * StepBars + StepBars + d * StepBars
  BY <1>1, <1>2
<1>4. o * StepBars \in Nat /\ d * StepBars \in Nat /\ p * StepBars \in Nat
  BY <1>1, <1>2
<1> QED
  BY <1>2, <1>3, <1>4 DEF TestStart

\* The bars of a window that fits.
LEMMA WindowIndices ==
    ASSUME NEW scheme \in Schemes, NEW ordinal \in Nat, Fits(scheme, ordinal)
    PROVE  /\ TrainStart(scheme, ordinal) \in 1..Len(Bars)
           /\ TestStart(scheme, ordinal) - 1 \in 1..Len(Bars)
           /\ TestStart(scheme, ordinal) \in 1..Len(Bars)
           /\ TestStart(scheme, ordinal) + TestBars - 1 \in 1..Len(Bars)
           /\ TrainStart(scheme, ordinal) <= TestStart(scheme, ordinal) - 1
<1> DEFINE c == TestStart(scheme, ordinal)
           a == TrainStart(scheme, ordinal)
<1>1. TestBars \in Nat \ {0} /\ Len(Bars) \in Nat /\ TrainBars[scheme] \in Nat \ {0}
  BY MatrixAssumption
<1>2. c \in Nat /\ c > TrainBars[scheme] /\ a \in 1..c - 1
  BY IndexType
<1>3. c + TestBars - 1 <= Len(Bars)
  BY DEF Fits
<1> HIDE DEF a, c
<1>4. /\ a \in 1..Len(Bars) /\ c - 1 \in 1..Len(Bars) /\ c \in 1..Len(Bars)
      /\ c + TestBars - 1 \in 1..Len(Bars) /\ a <= c - 1
  BY <1>1, <1>2, <1>3
<1> QED
  BY <1>4 DEF a, c

LEMMA BarsOrdered ==
    /\ \A i \in 1..Len(Bars) : Bars[i] \in EvaluationStart..EvaluationEnd
    /\ \A i, j \in 1..Len(Bars) : i <= j => Bars[i] <= Bars[j]
    /\ \A i, j \in 1..Len(Bars) : i < j => Bars[i] < Bars[j]
<1>1. DOMAIN Bars = 1..Len(Bars)
  BY MatrixAssumption
<1>2. \A i \in 1..Len(Bars) : Bars[i] \in Int
  BY MatrixAssumption
<1>3. \A i \in 1..Len(Bars) : Bars[i] \in EvaluationStart..EvaluationEnd
  BY <1>1, MatrixAssumption DEF Bounded
<1>4. \A i, j \in 1..Len(Bars) : i < j => Bars[i] < Bars[j]
  BY <1>1, MatrixAssumption DEF Bounded
<1>5. ASSUME NEW i \in 1..Len(Bars), NEW j \in 1..Len(Bars), i <= j PROVE Bars[i] <= Bars[j]
  <2>1. CASE i = j
    BY <1>2, <2>1
  <2>2. CASE i < j
    BY <1>2, <1>4, <2>2
  <2>3. Len(Bars) \in Nat
    BY MatrixAssumption
  <2> QED BY <1>5, <2>1, <2>2, <2>3
<1> QED
  BY <1>3, <1>4, <1>5

LEMMA WindowOf ==
    ASSUME NEW w \in Windows
    PROVE  \E scheme \in Schemes, ordinal \in Ordinals :
              Fits(scheme, ordinal) /\ w = Window(scheme, ordinal)
BY DEF Windows

\* _validated_cell_document accepts every window generate_robustness_windows makes: a
\* window trains on at least one bar, strictly before its test, and ends with the data.
THEOREM GeneratedAccepted == \A w \in Windows : ValidWindow(w)
<1> SUFFICES ASSUME NEW scheme \in Schemes, NEW ordinal \in Ordinals, Fits(scheme, ordinal)
             PROVE  ValidWindow(Window(scheme, ordinal))
  BY WindowOf
<1>1. ordinal \in Nat
  BY MatrixAssumption DEF Ordinals
<1> DEFINE a == TrainStart(scheme, ordinal)
           b == TestStart(scheme, ordinal) - 1
           c == TestStart(scheme, ordinal)
           d == TestStart(scheme, ordinal) + TestBars - 1
<1>2. a \in 1..Len(Bars) /\ b \in 1..Len(Bars) /\ c \in 1..Len(Bars) /\ d \in 1..Len(Bars)
  BY <1>1, WindowIndices
<1>3. a <= b /\ b < c /\ c <= d
  <2>1. a <= b
    BY <1>1, WindowIndices
  <2>2. c \in Nat /\ TestBars \in Nat \ {0}
    BY <1>1, IndexType, MatrixAssumption
  <2> QED BY <2>1, <2>2
<1>4. EvaluationStart <= Bars[a] /\ Bars[a] <= Bars[b] /\ Bars[b] < Bars[c] /\ Bars[c] <= Bars[d]
         /\ Bars[d] <= EvaluationEnd
  <2> HIDE DEF a, b, c, d
  <2> QED BY <1>2, <1>3, BarsOrdered
<1>5. \A i \in 1..Len(Bars) : Bars[i] \in Int
  BY BarsOrdered, MatrixAssumption
<1>6. 0 < Bars[a] /\ Bars[d] <= DataAsOf
  <2> HIDE DEF a, b, c, d
  <2>1. Bars[a] \in Int /\ Bars[d] \in Int
    BY <1>2, <1>5
  <2>2. EvaluationStart \in Nat \ {0} /\ EvaluationEnd \in Nat /\ DataAsOf \in Nat /\ EvaluationEnd <= DataAsOf
    BY MatrixAssumption
  <2> QED BY <1>4, <2>1, <2>2
<1> QED
  BY <1>4, <1>6 DEF ValidWindow, Window

\* The loop of a scheme breaks at the first window that does not fit: none after it does,
\* so the comprehension of Windows is what the loop appends.
THEOREM LoopStops ==
    ASSUME NEW scheme \in Schemes, NEW o \in Nat, NEW p \in Nat, o < p, Fits(scheme, p)
    PROVE  Fits(scheme, o)
<1>1. TestStart(scheme, o) \in Nat /\ TestStart(scheme, p) \in Nat
  BY IndexType
<1>2. StepBars \in Nat /\ TestBars \in Nat /\ Len(Bars) \in Nat
  BY MatrixAssumption
<1> QED
  BY <1>1, <1>2, StepsApart DEF Fits

\* A policy whose step is not below its test span tests no bar of a scheme twice.
THEOREM TestsDisjoint ==
    ASSUME NEW scheme \in Schemes, NEW o \in Nat, NEW p \in Nat, o < p,
           Fits(scheme, p), TestBars <= StepBars
    PROVE  Window(scheme, o).test[2] < Window(scheme, p).test[1]
<1>1. Fits(scheme, o)
  BY LoopStops
<1>2. TestStart(scheme, o) + TestBars - 1 \in 1..Len(Bars) /\ TestStart(scheme, p) \in 1..Len(Bars)
  BY <1>1, WindowIndices
<1>3. TestStart(scheme, o) + TestBars - 1 < TestStart(scheme, p)
  <2>1. TestStart(scheme, o) + StepBars <= TestStart(scheme, p)
    BY StepsApart
  <2>2. TestStart(scheme, o) \in Nat /\ TestStart(scheme, p) \in Nat
    BY IndexType
  <2>3. TestBars \in Nat /\ StepBars \in Nat
    BY MatrixAssumption
  <2> QED BY <2>1, <2>2, <2>3
<1> QED
  BY <1>2, <1>3, BarsOrdered DEF Window

\* A matrix is complete, which no verdict that advances can do without, exactly when the
\* last window of every scheme fits into the history.
THEOREM CompleteWhenLongEnough ==
    Complete <=> \A scheme \in Schemes : Fits(scheme, MaxWindows - 1)
<1>1. MaxWindows - 1 \in Nat /\ MaxWindows - 1 \in Ordinals /\ Ordinals \subseteq Nat
  BY MatrixAssumption DEF Ordinals
<1> DEFINE Coordinates == {<<cell[1].scheme, cell[1].ordinal, cell[2]>> : cell \in Matrix}
<1>2. \A s \in Schemes, o \in Ordinals, x \in Scenarios :
         <<s, o, x>> \in Coordinates <=> Fits(s, o)
  <2> TAKE s \in Schemes, o \in Ordinals, x \in Scenarios
  <2>1. ASSUME Fits(s, o) PROVE <<s, o, x>> \in Coordinates
    <3>1. Window(s, o) \in Windows
      <4>1. <<s, o>> \in {y \in Schemes \X Ordinals : Fits(y[1], y[2])}
        BY <2>1
      <4>2. PICK z \in {y \in Schemes \X Ordinals : Fits(y[1], y[2])} : z = <<s, o>>
        BY <4>1
      <4>3. Window(z[1], z[2]) \in Windows
        BY Zenon DEF Windows
      <4>4. z[1] = s /\ z[2] = o
        BY <4>2
      <4> QED BY <4>3, <4>4
    <3>2. <<Window(s, o), x>> \in Matrix
      BY <3>1 DEF Matrix
    <3>3. <<Window(s, o), x>>[1].scheme = s /\ <<Window(s, o), x>>[1].ordinal = o
      BY DEF Window
    <3> QED BY <3>2, <3>3
  <2>2. ASSUME <<s, o, x>> \in Coordinates PROVE Fits(s, o)
    <3>1. PICK cell \in Matrix : <<s, o, x>> = <<cell[1].scheme, cell[1].ordinal, cell[2]>>
      BY <2>2
    <3>2. cell[1] \in Windows
      BY DEF Matrix
    <3>3. PICK t \in Schemes, p \in Ordinals : Fits(t, p) /\ cell[1] = Window(t, p)
      BY <3>2, WindowOf
    <3>4. s = t /\ o = p
      BY <3>1, <3>3 DEF Window
    <3> QED BY <3>3, <3>4
  <2> QED BY <2>1, <2>2
<1>3. Coordinates \subseteq Schemes \X Ordinals \X Scenarios
  <2> SUFFICES ASSUME NEW cell \in Matrix
               PROVE  <<cell[1].scheme, cell[1].ordinal, cell[2]>> \in Schemes \X Ordinals \X Scenarios
    OBVIOUS
  <2>1. cell[1] \in Windows /\ cell[2] \in Scenarios
    BY DEF Matrix
  <2>2. PICK t \in Schemes, p \in Ordinals : cell[1] = Window(t, p)
    BY <2>1, WindowOf
  <2> QED BY <2>1, <2>2 DEF Window
<1>4. ASSUME Complete PROVE \A scheme \in Schemes : Fits(scheme, MaxWindows - 1)
  <2> TAKE scheme \in Schemes
  <2>1. PICK x : x \in Scenarios
    BY MatrixAssumption
  <2>2. <<scheme, MaxWindows - 1, x>> \in Coordinates
    BY <1>1, <1>4, <2>1 DEF Complete
  <2> QED BY <1>1, <1>2, <2>1, <2>2
<1>5. ASSUME \A scheme \in Schemes : Fits(scheme, MaxWindows - 1) PROVE Complete
  <2>1. \A s \in Schemes, o \in Ordinals : Fits(s, o)
    <3> TAKE s \in Schemes, o \in Ordinals
    <3>1. o \in Nat /\ (o = MaxWindows - 1 \/ o < MaxWindows - 1)
      BY MatrixAssumption DEF Ordinals
    <3> QED BY <1>1, <1>5, <3>1, LoopStops
  <2>2. \A s \in Schemes, o \in Ordinals, x \in Scenarios : <<s, o, x>> \in Coordinates
    BY <1>2, <2>1
  <2>3. Schemes \X Ordinals \X Scenarios \subseteq Coordinates
    BY <2>2
  <2> QED BY <1>3, <2>3 DEF Complete
<1> QED
  BY <1>4, <1>5

-----------------------------------------------------------------------------
(* The runs                                                                 *)

\* The steps at which the results of all cells are there.
Formed == {"documents", "record", "unwind", "remove", "readback"}

\* What a worker's step says of its locals.
LocalsOK ==
    \A w \in Workers :
        /\ At(w, "publish") =>
              /\ Len(results[w]) < Cells
              /\ drawn[w] \in [result: {"pass", "fail"}, missing: BOOLEAN]
        /\ step[w] \in Formed => Len(results[w]) = Cells
        /\ At(w, "idle") => made[w] = {}

TypeInv == RobustnessTypeOK /\ LocalsOK

\* Results that are complete are a verdict.
LEMMA VerdictType ==
    ASSUME TypeInv, NEW w \in Workers, Len(results[w]) = Cells
    PROVE  Verdict(w) \in Verdicts
<1>1. results[w] \in Seq(Results)
  BY DEF TypeInv, RobustnessTypeOK
<1> QED
  BY <1>1 DEF Verdict, Verdicts

LEMMA TypeInit == RobustnessInit => TypeInv
BY RobustnessAssumption DEF RobustnessInit, TypeInv, RobustnessTypeOK, LocalsOK, At, Steps,
   Formed, CellFiles, Stores

LEMMA LeaveType ==
    ASSUME TypeInv, NEW w \in Workers, Leave(w), UNCHANGED <<store, record, lapses>>
    PROVE  TypeInv'
BY RobustnessAssumption
   DEF TypeInv, RobustnessTypeOK, LocalsOK, At, Goto, Steps, Formed, Leave, store, CellFiles, Stores

LEMMA CleanUpType ==
    ASSUME TypeInv, NEW w \in Workers, CleanUp(w), cellFile' \in CellFiles,
           documents' \subseteq Verdicts, record' \in Verdicts \cup {None},
           lapses' \subseteq {"overlap", "late"}, UNCHANGED <<drawn, made, before>>
    PROVE  TypeInv'
BY RobustnessAssumption
   DEF TypeInv, RobustnessTypeOK, LocalsOK, At, Goto, Steps, Formed, CleanUp, CellFiles, Stores

LEMMA TypeStep == TypeInv /\ [RobustnessNext]_robustnessVars => TypeInv'
<1> SUFFICES ASSUME TypeInv, [RobustnessNext]_robustnessVars PROVE TypeInv'
  OBVIOUS
<1>1. CASE UNCHANGED robustnessVars
  BY <1>1 DEF robustnessVars, store, local, TypeInv, RobustnessTypeOK, LocalsOK, At
<1>2. ASSUME NEW w \in Workers, Run(w) PROVE TypeInv'
  <2> USE DEF TypeInv, RobustnessTypeOK, LocalsOK, At, Goto, Steps, Formed, store, local
  <2>1. CASE Reuse(w)
    BY <2>1 DEF Reuse
  <2>2. CASE Begin(w)
    <3>1. store \in Stores
      BY DEF Stores
    <3> QED BY <2>2, <3>1 DEF Begin
  <2>3. CASE EvaluateFails(w)
    BY <2>3, RobustnessAssumption DEF EvaluateFails, Cell, Results
  <2>4. CASE Evaluate(w)
    <3>1. PICK result \in Yields[Cell(w)] :
             drawn' = [drawn EXCEPT ![w] =
                         [result |-> result, missing |-> cellFile[Cell(w)] = None]]
      BY <2>4 DEF Evaluate
    <3>2. result \in {"pass", "fail"} /\ (cellFile[Cell(w)] = None) \in BOOLEAN
      BY <2>4, RobustnessAssumption DEF Evaluate
    <3>3. Cell(w) \in 1..Cells /\ Len(results[w]) \in Nat
      BY <2>4 DEF Evaluate
    <3>4. Len(results[w]) < Cells
      BY <3>3, RobustnessAssumption DEF Cell
    <3> DEFINE d == [result |-> result, missing |-> cellFile[Cell(w)] = None]
    <3>5. d \in [result: {"pass", "fail"}, missing: BOOLEAN]
      BY <3>2
    <3>6. drawn' = [drawn EXCEPT ![w] = d]
      BY <3>1
    <3> HIDE DEF d
    <3>7. drawn' \in [Workers -> [result: {"pass", "fail"}, missing: BOOLEAN] \cup {None}]
             /\ drawn'[w] = d /\ \A v \in Workers : v # w => drawn'[v] = drawn[v]
      BY <3>5, <3>6
    <3> QED BY <2>4, <3>4, <3>5, <3>7 DEF Evaluate
  <2>5. CASE PublishCell(w)
    <3>1. Cell(w) \in 1..Cells /\ Len(results[w]) < Cells /\ drawn[w].result \in {"pass", "fail"}
      BY <2>5, RobustnessAssumption DEF PublishCell, Cell
    <3>2. cellFile' \in CellFiles
      <4>1. cellFile' = [cellFile EXCEPT ![Cell(w)] = drawn[w].result] \/ UNCHANGED cellFile
        BY <2>5 DEF PublishCell, CellPublished
      <4> QED BY <3>1, <4>1 DEF CellFiles
    <3>3. PICK result \in Results : results' = [results EXCEPT ![w] = Append(@, result)]
      BY <2>5, <3>1 DEF PublishCell, CellPublished, Results
    <3>4. results' \in [Workers -> Seq(Results)] /\ \A v \in Workers : Len(results'[v]) <= Cells
      BY <3>1, <3>3, RobustnessAssumption
    <3>5. made' \in [Workers -> SUBSET (1..Cells)]
      BY <2>5, <3>1 DEF PublishCell, Made
    <3>6. \A v \in Workers : v # w => results'[v] = results[v]
      BY <3>3
    <3>7. /\ drawn' \in [Workers -> [result: {"pass", "fail"}, missing: BOOLEAN] \cup {None}]
          /\ \A v \in Workers : v # w => drawn'[v] = drawn[v]
      BY <2>5 DEF PublishCell
    <3>8. /\ step' \in [Workers -> Steps] /\ step'[w] = "evaluate"
          /\ \A v \in Workers : v # w => step'[v] = step[v]
      BY <2>5 DEF PublishCell
    <3>9. RobustnessTypeOK'
      BY <2>5, <3>2, <3>4, <3>5, <3>7, <3>8 DEF PublishCell
    <3>10. LocalsOK'
      <4>1. \A v \in Workers : v # w => made'[v] = made[v]
        BY <2>5 DEF PublishCell
      <4> QED BY <3>6, <3>7, <3>8, <4>1
    <3> QED BY <3>9, <3>10
  <2>6. CASE Verify(w)
    <3>1. CASE CleanUp(w)
      BY <2>6, <3>1, CleanUpType DEF Verify
    <3>2. CASE Goto(w, "documents") /\ UNCHANGED results
      <4>1. Len(results[w]) = Cells /\ wrote' \in [Workers -> BOOLEAN]
        <5> DEFINE new == Verdict(w) \notin documents
        <5>1. wrote' = [wrote EXCEPT ![w] = new] \/ CleanUp(w)
          BY <2>6 DEF Verify
        <5>2. new \in BOOLEAN
          OBVIOUS
        <5>3. step'[w] = "documents"
          BY <3>2
        <5>4. ~CleanUp(w)
          BY <5>3 DEF CleanUp
        <5> HIDE DEF new
        <5> QED BY <2>6, <5>1, <5>2, <5>4 DEF Verify
      <4>2. UNCHANGED <<store, record, drawn, made, before, lapses>>
        BY <2>6 DEF Verify
      <4> QED BY <3>2, <4>1, <4>2
    <3> QED BY <2>6, <3>1, <3>2 DEF Verify
  <2>7. CASE PublishDocuments(w)
    <3>1. Verdict(w) \in Verdicts
      BY <2>7, VerdictType DEF PublishDocuments
    <3> QED BY <2>7, <3>1 DEF PublishDocuments
  <2>8. CASE Record(w)
    <3>1. Verdict(w) \in Verdicts
      BY <2>8, VerdictType DEF Record
    <3> QED BY <2>8, <3>1 DEF Record
  <2>9. CASE Readback(w)
    BY <2>9, LeaveType DEF Readback
  <2>10. CASE Raise(w)
    <3>1. CASE At(w, "documents") /\ CleanUp(w)
      BY <2>10, <3>1, CleanUpType DEF Raise
    <3>2. CASE At(w, "record") /\ Goto(w, "unwind") /\ UNCHANGED <<results, wrote>>
      BY <2>10, <3>2 DEF Raise
    <3> QED BY <2>10, <3>1, <3>2 DEF Raise
  <2>11. CASE RaiseLate(w)
    <3>1. CASE At(w, "readback") /\ CleanUp(w) /\ UNCHANGED record
      BY <2>11, <3>1, CleanUpType DEF RaiseLate
    <3>2. CASE At(w, "record") /\ Recordable(w)
      <4>1. Verdict(w) \in Verdicts
        BY <3>2, VerdictType
      <4> QED BY <2>11, <3>2, <4>1 DEF RaiseLate
    <3> QED BY <2>11, <3>1, <3>2 DEF RaiseLate
  <2>12. CASE Unwind(w)
    <3>1. CASE CleanUp(w)
      BY <2>12, <3>1, CleanUpType DEF Unwind
    <3>2. CASE Goto(w, "remove") /\ UNCHANGED <<results, wrote>>
      BY <2>12, <3>2 DEF Unwind
    <3> QED BY <2>12, <3>1, <3>2 DEF Unwind
  <2>13. CASE Remove(w)
    BY <2>13, CleanUpType DEF Remove
  <2>14. CASE Unlink(w)
    BY <2>14 DEF Unlink, CellFiles
  <2>15. CASE Fail(w)
    BY <2>15, LeaveType DEF Fail
  <2>16. CASE Die(w)
    BY <2>16, LeaveType DEF Die
  <2> QED
    BY <1>2, <2>1, <2>2, <2>3, <2>4, <2>5, <2>6, <2>7, <2>8, <2>9, <2>10, <2>11, <2>12,
       <2>13, <2>14, <2>15, <2>16 DEF Run
<1> QED
  BY <1>1, <1>2 DEF RobustnessNext

-----------------------------------------------------------------------------
(* Who moves, and what happens to the record                                *)

LEMMA Others ==
    ASSUME TypeInv, NEW w \in Workers, Run(w), NEW v \in Workers, v # w
    PROVE  /\ step'[v] = step[v] /\ results'[v] = results[v] /\ drawn'[v] = drawn[v]
           /\ made'[v] = made[v] /\ wrote'[v] = wrote[v]
<1> USE DEF TypeInv, RobustnessTypeOK, Goto, local
<1>1. CASE Reuse(w) \/ Begin(w) \/ EvaluateFails(w) \/ Evaluate(w) \/ PublishCell(w)
  BY <1>1 DEF Reuse, Begin, EvaluateFails, Evaluate, PublishCell, CellPublished
<1>2. CASE Verify(w) \/ PublishDocuments(w) \/ Record(w) \/ Readback(w) \/ Raise(w)
  BY <1>2 DEF Verify, PublishDocuments, Record, Readback, Raise, CleanUp, Leave
<1>3. CASE RaiseLate(w) \/ Unwind(w) \/ Remove(w) \/ Unlink(w) \/ Fail(w) \/ Die(w)
  BY <1>3 DEF RaiseLate, Unwind, Remove, Unlink, Fail, Die, CleanUp, Leave
<1> QED
  BY <1>1, <1>2, <1>3 DEF Run

LEMMA LapsesKept ==
    ASSUME NEW w \in Workers, Run(w)
    PROVE  lapses \subseteq lapses'
BY DEF Run, Reuse, Begin, EvaluateFails, Evaluate, PublishCell, Verify, PublishDocuments,
   Record, Readback, Raise, RaiseLate, Unwind, Remove, Unlink, Fail, Die

\* The record is written once, by a run whose documents are there.
LEMMA RecordOnce ==
    ASSUME TypeInv, NEW w \in Workers, Run(w)
    PROVE  \/ UNCHANGED record
           \/ /\ record = None /\ record' = Verdict(w)
              /\ At(w, "record") /\ Recordable(w)
              /\ UNCHANGED <<store, results>>
              /\ \/ step'[w] = "readback"
                 \/ step'[w] = "unwind" /\ "late" \in lapses'
<1> USE DEF TypeInv, RobustnessTypeOK, At, Goto
<1>1. CASE Record(w)
  BY <1>1 DEF Record
<1>2. CASE RaiseLate(w)
  BY <1>2 DEF RaiseLate
<1> QED
  BY <1>1, <1>2 DEF Run, Reuse, Begin, EvaluateFails, Evaluate, PublishCell, Verify,
     PublishDocuments, Readback, Raise, Unwind, Remove, Unlink, Fail, Die

\* A worker that moves was not idle, or it begins.
LEMMA Moves ==
    ASSUME TypeInv, NEW w \in Workers, Run(w), ~Reuse(w), ~Begin(w)
    PROVE  ~At(w, "idle")
BY DEF Run, EvaluateFails, Evaluate, PublishCell, Verify, PublishDocuments, Record, Readback,
   Raise, RaiseLate, Unwind, Remove, Unlink, Fail, Die, At

-----------------------------------------------------------------------------
(* The evidence behind the record                                           *)

\* Runs that did not overlap were alone.
Alone ==
    "overlap" \notin lapses =>
        \A v, w \in Workers : ~At(v, "idle") /\ ~At(w, "idle") => v = w

\* Without an overlap, a run that is under way when there is a record wrote it.
Settled ==
    record # None /\ "overlap" \notin lapses =>
        \A w \in Workers :
            /\ ~At(w, "idle") => step[w] \in {"readback", "unwind", "cleanup"}
            /\ step[w] \in {"readback", "unwind"} => record = Verdict(w)
            /\ step[w] \in {"unwind", "cleanup"} => "late" \in lapses

\* Without an overlap, the cells a run has verified stay until it ends.
Verified ==
    "overlap" \notin lapses =>
        \A w \in Workers :
            step[w] \in {"documents", "record", "readback"} => CellsRead(Verdict(w))

LedgerInv == AnswersAgree /\ Alone /\ Settled /\ Verified /\ EvidenceBacked

LEMMA LedgerInit == RobustnessInit => LedgerInv
BY DEF RobustnessInit, LedgerInv, AnswersAgree, Alone, Settled, Verified, EvidenceBacked, At

LEMMA AnswersStep ==
    ASSUME TypeInv, AnswersAgree, NEW w \in Workers, Run(w) PROVE AnswersAgree'
<1> SUFFICES ASSUME NEW v \in Workers, step'[v] = "readback" PROVE record' = results'[v]
  BY DEF AnswersAgree, At, Verdict
<1>1. CASE v # w
  <2>1. step[v] = "readback" /\ results'[v] = results[v]
    BY <1>1, Others
  <2>2. record = results[v]
    BY <2>1 DEF AnswersAgree, At, Verdict
  <2>3. record # None
    BY <2>1, <2>2, VerdictType, RobustnessAssumption DEF TypeInv, LocalsOK, Formed, Verdict
  <2> QED BY <2>1, <2>2, <2>3, RecordOnce
<1>2. CASE v = w
  <2>1. CASE Record(w)
    BY <1>2, <2>1 DEF Record, Recordable, Verdict, Goto, TypeInv, RobustnessTypeOK
  <2>2. CASE Reuse(w)
    BY <1>2, <2>2 DEF Reuse, local, At, TypeInv, RobustnessTypeOK
  <2> USE DEF TypeInv, RobustnessTypeOK, Goto, local
  <2>3. CASE Begin(w) \/ EvaluateFails(w) \/ Evaluate(w) \/ PublishCell(w) \/ Verify(w)
    BY <1>2, <2>3 DEF Begin, EvaluateFails, Evaluate, PublishCell, Verify, CleanUp, At
  <2>4. CASE PublishDocuments(w) \/ Readback(w) \/ Raise(w) \/ RaiseLate(w) \/ Unwind(w)
    BY <1>2, <2>4 DEF PublishDocuments, Readback, Raise, RaiseLate, Unwind, CleanUp, Leave, At
  <2>5. CASE Remove(w) \/ Unlink(w) \/ Fail(w) \/ Die(w)
    BY <1>2, <2>5 DEF Remove, Unlink, Fail, Die, CleanUp, Leave, At
  <2> QED BY <2>1, <2>2, <2>3, <2>4, <2>5 DEF Run
<1> QED
  BY <1>1, <1>2

LEMMA AloneStep ==
    ASSUME TypeInv, Alone, NEW w \in Workers, Run(w) PROVE Alone'
<1> SUFFICES ASSUME "overlap" \notin lapses', NEW u \in Workers, NEW v \in Workers,
                    step'[u] # "idle", step'[v] # "idle"
             PROVE  u = v
  BY DEF Alone, At
<1>1. "overlap" \notin lapses
  BY LapsesKept
<1>2. CASE Reuse(w)
  BY <1>1, <1>2 DEF Reuse, local, Alone, At
<1>3. CASE Begin(w)
  <2>1. \A x \in Workers : step[x] = "idle"
    BY <1>3 DEF Begin, At
  <2> QED BY <2>1, Others
<1>4. CASE ~Reuse(w) /\ ~Begin(w)
  <2>1. step[w] # "idle"
    BY <1>4, Moves DEF At
  <2> QED BY <1>1, <2>1, Others DEF Alone, At
<1> QED
  BY <1>2, <1>3, <1>4

\* In a run that is alone every other worker is idle.
LEMMA OthersIdle ==
    ASSUME TypeInv, Alone, NEW w \in Workers, Run(w), "overlap" \notin lapses',
           ~Reuse(w), NEW v \in Workers, v # w
    PROVE  step[v] = "idle" /\ step'[v] = "idle"
<1>1. "overlap" \notin lapses
  BY LapsesKept
<1>2. CASE Begin(w)
  BY <1>2, Others DEF Begin, At
<1>3. CASE ~Begin(w)
  BY <1>1, <1>3, Moves, Others DEF Alone, At
<1> QED
  BY <1>2, <1>3

LEMMA SettledStep ==
    ASSUME TypeInv, Alone, Settled, NEW w \in Workers, Run(w) PROVE Settled'
<1> SUFFICES ASSUME record' # None, "overlap" \notin lapses', NEW v \in Workers
             PROVE  /\ step'[v] # "idle" => step'[v] \in {"readback", "unwind", "cleanup"}
                    /\ step'[v] \in {"readback", "unwind"} => record' = results'[v]
                    /\ step'[v] \in {"unwind", "cleanup"} => "late" \in lapses'
  BY DEF Settled, At, Verdict
<1>1. "overlap" \notin lapses /\ lapses \subseteq lapses'
  BY LapsesKept
<1>2. CASE Reuse(w)
  BY <1>1, <1>2 DEF Reuse, local, Settled, At, Verdict
<1>3. CASE ~Reuse(w) /\ v # w
  BY <1>3, OthersIdle
<1>4. CASE v = w /\ record' # record
  BY <1>4, RecordOnce DEF Verdict
<1>5. CASE ~Reuse(w) /\ v = w /\ record' = record
  <2>1. /\ step[w] # "idle" => step[w] \in {"readback", "unwind", "cleanup"}
        /\ step[w] \in {"readback", "unwind"} => record = results[w]
        /\ step[w] \in {"unwind", "cleanup"} => "late" \in lapses
    BY <1>1, <1>5 DEF Settled, At, Verdict
  <2> USE DEF TypeInv, RobustnessTypeOK, Goto, local, At
  <2>2. CASE Begin(w) \/ EvaluateFails(w) \/ Evaluate(w) \/ PublishCell(w) \/ Verify(w)
    BY <1>5, <2>1, <2>2 DEF Begin, EvaluateFails, Evaluate, PublishCell, Verify
  <2>3. CASE PublishDocuments(w) \/ Record(w) \/ Remove(w)
    BY <1>5, <2>1, <2>3 DEF PublishDocuments, Record, Remove
  <2>4. CASE Raise(w) \/ RaiseLate(w)
    BY <1>5, <2>1, <2>4 DEF Raise, RaiseLate, CleanUp
  <2>5. CASE Unwind(w)
    BY <1>1, <1>5, <2>1, <2>5 DEF Unwind, Removable, Verdict, CleanUp
  <2>6. CASE Unlink(w)
    BY <1>1, <1>5, <2>1, <2>6 DEF Unlink
  <2>7. CASE Readback(w) \/ Fail(w) \/ Die(w)
    BY <1>5, <2>7 DEF Readback, Fail, Die, Leave
  <2> QED BY <1>5, <2>2, <2>3, <2>4, <2>5, <2>6, <2>7 DEF Run
<1> QED
  BY <1>2, <1>3, <1>4, <1>5

\* What a cell says changes only when it is published or unlinked.
LEMMA CellsKept ==
    ASSUME NEW w \in Workers, Run(w), ~PublishCell(w), ~Unlink(w)
    PROVE  UNCHANGED cellFile
BY DEF Run, Reuse, Begin, EvaluateFails, Evaluate, Verify, PublishDocuments, Record, Readback,
   Raise, RaiseLate, Unwind, Remove, Fail, Die, store

LEMMA VerifiedStep ==
    ASSUME TypeInv, Alone, Verified, NEW w \in Workers, Run(w) PROVE Verified'
<1> SUFFICES ASSUME "overlap" \notin lapses', NEW v \in Workers,
                    step'[v] \in {"documents", "record", "readback"}
             PROVE  \A k \in 1..Cells : results'[v][k] # "error" => cellFile'[k] = results'[v][k]
  BY DEF Verified, CellsRead, Verdict
<1>1. "overlap" \notin lapses
  BY LapsesKept
<1>2. CASE Reuse(w)
  BY <1>1, <1>2 DEF Reuse, local, store, Verified, CellsRead, Verdict
<1>3. CASE ~Reuse(w) /\ v # w
  BY <1>3, OthersIdle
<1>4. CASE ~Reuse(w) /\ v = w
  <2> USE DEF TypeInv, RobustnessTypeOK, Goto, local, store, At
  <2>1. CASE Verify(w)
    BY <1>4, <2>1 DEF Verify, CellsRead, Verdict, CleanUp
  <2>2. CASE PublishDocuments(w) \/ Record(w)
    BY <1>1, <1>4, <2>2 DEF PublishDocuments, Record, Verified, CellsRead, Verdict
  <2>3. CASE Begin(w) \/ EvaluateFails(w) \/ Evaluate(w) \/ PublishCell(w)
    BY <1>4, <2>3 DEF Begin, EvaluateFails, Evaluate, PublishCell
  <2>4. CASE Raise(w) \/ RaiseLate(w) \/ Unwind(w) \/ Remove(w) \/ Unlink(w)
    BY <1>4, <2>4 DEF Raise, RaiseLate, Unwind, Remove, Unlink, CleanUp
  <2>5. CASE Readback(w) \/ Fail(w) \/ Die(w)
    BY <1>4, <2>5 DEF Readback, Fail, Die, Leave
  <2> QED BY <1>4, <2>1, <2>2, <2>3, <2>4, <2>5 DEF Run
<1> QED
  BY <1>2, <1>3, <1>4

LEMMA BackedStep ==
    ASSUME TypeInv, LedgerInv, NEW w \in Workers, Run(w) PROVE EvidenceBacked'
<1> SUFFICES ASSUME record' # None
             PROVE  /\ "overlap" \notin lapses' => record' \in documents'
                    /\ lapses' = {} =>
                         \A k \in 1..Cells : record'[k] # "error" => cellFile'[k] = record'[k]
  BY DEF EvidenceBacked, CellsRead
<1>1. lapses \subseteq lapses'
  BY LapsesKept
<1>2. CASE record' # record
  <2>1. /\ record' = Verdict(w) /\ At(w, "record") /\ Recordable(w)
        /\ cellFile' = cellFile /\ documents' = documents
    BY <1>2, RecordOnce DEF store
  <2>2. "overlap" \notin lapses => CellsRead(Verdict(w))
    BY <2>1 DEF LedgerInv, Verified, At
  <2> QED BY <1>1, <2>1, <2>2 DEF Recordable, CellsRead
<1>3. CASE record' = record
  <2>1. /\ "overlap" \notin lapses => record \in documents
        /\ lapses = {} => CellsRead(record)
    BY <1>3 DEF LedgerInv, EvidenceBacked
  <2>2. "overlap" \notin lapses' => documents \subseteq documents'
    <3>1. CASE Remove(w)
      BY <1>1, <1>3, <3>1 DEF Remove, At, LedgerInv, Settled
    <3>2. CASE ~Remove(w)
      BY <3>2 DEF Run, Reuse, Begin, EvaluateFails, Evaluate, PublishCell, Verify,
         PublishDocuments, Record, Readback, Raise, RaiseLate, Unwind, Unlink, Fail, Die, store
    <3> QED BY <3>1, <3>2
  <2>3. lapses' = {} => UNCHANGED cellFile
    <3>1. ASSUME lapses' = {}, PublishCell(w) PROVE FALSE
      BY <1>1, <1>3, <3>1 DEF PublishCell, At, LedgerInv, Settled
    <3>2. ASSUME lapses' = {}, Unlink(w) PROVE FALSE
      BY <1>1, <1>3, <3>2 DEF Unlink, At, LedgerInv, Settled
    <3> QED BY <3>1, <3>2, CellsKept
  <2> QED BY <1>1, <1>3, <2>1, <2>2, <2>3 DEF CellsRead
<1> QED
  BY <1>2, <1>3

LEMMA LedgerStep == TypeInv /\ LedgerInv /\ [RobustnessNext]_robustnessVars => LedgerInv'
<1> SUFFICES ASSUME TypeInv, LedgerInv, [RobustnessNext]_robustnessVars PROVE LedgerInv'
  OBVIOUS
<1>1. CASE UNCHANGED robustnessVars
  BY <1>1 DEF robustnessVars, store, local, LedgerInv, AnswersAgree, Alone, Settled, Verified,
     EvidenceBacked, CellsRead, Verdict, At
<1>2. ASSUME NEW w \in Workers, Run(w) PROVE LedgerInv'
  BY <1>2, AnswersStep, AloneStep, SettledStep, VerifiedStep, BackedStep DEF LedgerInv
<1> QED
  BY <1>1, <1>2 DEF RobustnessNext

-----------------------------------------------------------------------------
(* What a failed run leaves                                                 *)

\* While nothing overlaps and nothing raises late, the artifacts are those the run found,
\* the cells c and the documents D, plus the cells it counts as created and, once they are
\* published, the documents of its verdict.
PristineFor(w, c, D) ==
    /\ before[w] = <<c, D>>
    /\ \A k \in 1..Cells : IF k \in made[w] THEN c[k] = None ELSE cellFile[k] = c[k]
    /\ At(w, "publish") => (drawn[w].missing <=> cellFile[Cell(w)] = None)
    /\ documents = IF step[w] \in {"record", "unwind", "remove", "readback"}
                   THEN D \cup {Verdict(w)} ELSE D
    /\ step[w] \in Formed => (wrote[w] <=> Verdict(w) \notin D)
    /\ At(w, "remove") => wrote[w]

Pristine ==
    lapses = {} => \A w \in Workers :
        ~At(w, "idle") => \E c \in CellFiles, D \in SUBSET Verdicts : PristineFor(w, c, D)

LEMMA PristineInit == RobustnessInit => Pristine
BY DEF RobustnessInit, Pristine, At

LEMMA PristineStep ==
    ASSUME TypeInv, LedgerInv, Pristine, NEW w \in Workers, Run(w) PROVE Pristine'
<1> SUFFICES ASSUME lapses' = {}, NEW v \in Workers, step'[v] # "idle"
             PROVE  \E c \in CellFiles, D \in SUBSET Verdicts : PristineFor(v, c, D)'
  BY DEF Pristine, At
<1>1. lapses = {}
  BY LapsesKept
<1>2. CASE Reuse(w)
  <2>1. PICK c \in CellFiles, D \in SUBSET Verdicts : PristineFor(v, c, D)
    BY <1>1, <1>2 DEF Reuse, local, Pristine, At
  <2>2. PristineFor(v, c, D)'
    BY <1>2, <2>1 DEF Reuse, local, store, PristineFor, At, Cell, Verdict
  <2> QED BY <2>2
<1>3. CASE ~Reuse(w) /\ v # w
  BY <1>3, OthersIdle DEF LedgerInv
<1>4. CASE Begin(w) /\ v = w
  <2>1. before'[w] = store /\ step'[w] = "evaluate" /\ UNCHANGED <<cellFile, documents, made>>
    BY <1>4 DEF Begin, TypeInv, RobustnessTypeOK, Goto, store
  <2>2. made'[w] = {}
    BY <1>4, <2>1 DEF Begin, TypeInv, LocalsOK
  <2>3. PICK c \in CellFiles, D \in SUBSET Verdicts : c = cellFile /\ D = documents
    BY DEF TypeInv, RobustnessTypeOK
  <2>4. PristineFor(w, c, D)'
    BY <2>1, <2>2, <2>3 DEF PristineFor, store, At, Formed
  <2> QED BY <1>4, <2>4
<1>5. CASE ~Reuse(w) /\ ~Begin(w) /\ v = w
  <2>1. step[w] # "idle"
    BY <1>5, Moves DEF At
  <2>2. PICK c \in CellFiles, D \in SUBSET Verdicts : PristineFor(w, c, D)
    BY <1>1, <2>1 DEF Pristine, At
  <2> SUFFICES PristineFor(w, c, D)'
    BY <1>5
  <2> USE DEF TypeInv, RobustnessTypeOK, LocalsOK, At, Goto, local, store
  <2>3. CASE EvaluateFails(w)
    BY <2>2, <2>3 DEF EvaluateFails, PristineFor, Formed
  <2>4. CASE Evaluate(w)
    <3> DEFINE missing == cellFile[Cell(w)] = None
    <3>1. PICK result \in Yields[Cell(w)] :
             drawn' = [drawn EXCEPT ![w] = [result |-> result, missing |-> missing]]
      BY <2>4 DEF Evaluate
    <3>2. drawn'[w] = [result |-> result, missing |-> missing]
      BY <3>1
    <3>3. missing \in BOOLEAN
      OBVIOUS
    <3>4. drawn'[w].missing = missing
      <4> HIDE DEF missing
      <4> QED BY <3>2, <3>3
    <3>5. UNCHANGED <<cellFile, documents, results, made, before>> /\ step'[w] = "publish"
      BY <2>4 DEF Evaluate
    <3>6. step[w] = "evaluate"
      BY <2>4 DEF Evaluate
    <3> QED BY <2>2, <3>4, <3>5, <3>6 DEF PristineFor, Formed, Cell
  <2>5. CASE PublishCell(w)
    <3>1. Cell(w) \in 1..Cells /\ step[w] = "publish"
      BY <2>5, RobustnessAssumption DEF PublishCell, Cell
    <3>2. drawn[w].missing <=> cellFile[Cell(w)] = None
      BY <2>2, <3>1 DEF PristineFor
    <3>3. step'[w] = "evaluate" /\ before' = before /\ documents' = documents
      BY <2>5 DEF PublishCell
    <3>4. made'[w] = IF drawn[w].missing THEN made[w] \cup {Cell(w)} ELSE made[w]
      BY <2>5 DEF PublishCell, Made
    <3>5. \/ cellFile' = [cellFile EXCEPT ![Cell(w)] = drawn[w].result]
             /\ (drawn[w].missing \/ cellFile[Cell(w)] \in {None, drawn[w].result})
          \/ cellFile' = cellFile /\ cellFile[Cell(w)] # None
      BY <2>5 DEF PublishCell, CellPublished
    <3>6. ASSUME NEW k \in 1..Cells
          PROVE  IF k \in made'[w] THEN c[k] = None ELSE cellFile'[k] = c[k]
      <4>1. IF k \in made[w] THEN c[k] = None ELSE cellFile[k] = c[k]
        BY <2>2 DEF PristineFor
      <4>2. cellFile \in [1..Cells -> {"pass", "fail", None}]
        BY DEF CellFiles
      <4>3. CASE k # Cell(w)
        BY <3>1, <3>4, <3>5, <4>1, <4>2, <4>3
      <4>4. CASE k = Cell(w) /\ drawn[w].missing
        BY <3>2, <3>4, <4>1, <4>4
      <4>5. CASE k = Cell(w) /\ ~drawn[w].missing
        BY <3>1, <3>2, <3>4, <3>5, <4>1, <4>2, <4>5
      <4> QED BY <4>3, <4>4, <4>5
    <3> QED BY <2>2, <3>1, <3>3, <3>6 DEF PristineFor, Formed
  <2>6. CASE Verify(w)
    <3>1. UNCHANGED <<cellFile, documents, made, before>> /\ step[w] = "evaluate"
      BY <2>6 DEF Verify
    <3>2. CASE CleanUp(w)
      BY <2>2, <3>1, <3>2 DEF PristineFor, CleanUp, Formed
    <3>3. CASE step'[w] = "documents"
      <4> DEFINE new == Verdict(w) \notin documents
      <4>1. wrote' = [wrote EXCEPT ![w] = new] /\ results' = results
        BY <2>6, <3>3 DEF Verify, CleanUp
      <4>2. new \in BOOLEAN
        OBVIOUS
      <4>3. wrote'[w] = new
        <5> HIDE DEF new
        <5> QED BY <4>1
      <4> QED BY <2>2, <3>1, <3>3, <4>1, <4>3 DEF PristineFor, Verdict
    <3> QED BY <2>6, <3>2, <3>3 DEF Verify
  <2>7. CASE PublishDocuments(w)
    BY <2>2, <2>7 DEF PublishDocuments, PristineFor, Verdict, Formed
  <2>8. CASE Record(w)
    <3>1. UNCHANGED <<cellFile, documents, made, before, results, wrote>> /\ step[w] = "record"
      BY <2>8 DEF Record
    <3>2. step'[w] \in {"readback", "unwind"}
      BY <2>8 DEF Record
    <3> QED BY <2>2, <3>1, <3>2 DEF PristineFor, Verdict, Formed
  <2>9. CASE Raise(w)
    <3>1. UNCHANGED <<cellFile, documents, made, before>>
      BY <2>9 DEF Raise
    <3>2. CASE At(w, "documents") /\ CleanUp(w)
      BY <2>2, <3>1, <3>2 DEF PristineFor, CleanUp, Formed
    <3>3. CASE At(w, "record") /\ Goto(w, "unwind") /\ UNCHANGED <<results, wrote>>
      BY <2>2, <3>1, <3>3 DEF PristineFor, Verdict, Formed
    <3> QED BY <2>9, <3>2, <3>3 DEF Raise
  <2>10. CASE Unwind(w)
    <3>1. UNCHANGED <<cellFile, documents, made, before, record>> /\ step[w] = "unwind"
      BY <2>10 DEF Unwind
    <3>2. documents = D \cup {Verdict(w)} /\ (wrote[w] <=> Verdict(w) \notin D)
      BY <2>2, <3>1 DEF PristineFor, Formed
    <3>3. record = None
      BY <1>1, <3>1 DEF LedgerInv, Settled
    <3>4. Verdict(w) # None
      BY <3>1, VerdictType, RobustnessAssumption DEF Formed
    <3>5. CASE Removable(w) /\ Goto(w, "remove") /\ UNCHANGED <<results, wrote>>
      BY <2>2, <3>1, <3>2, <3>5 DEF PristineFor, Verdict, Formed, Removable
    <3>6. CASE ~Removable(w) /\ CleanUp(w)
      <4>1. documents = D
        BY <3>2, <3>3, <3>4, <3>6 DEF Removable
      <4> QED BY <2>2, <3>1, <3>6, <4>1 DEF PristineFor, CleanUp, Formed
    <3> QED BY <2>10, <3>5, <3>6 DEF Unwind
  <2>11. CASE Remove(w)
    <3>1. UNCHANGED <<cellFile, made, before>> /\ step[w] = "remove" /\ CleanUp(w)
      BY <2>11 DEF Remove
    <3>2. documents = D \cup {Verdict(w)} /\ Verdict(w) \notin D
      BY <2>2, <3>1 DEF PristineFor, Formed
    <3>3. documents' = D
      BY <2>11, <3>2 DEF Remove
    <3> QED BY <2>2, <3>1, <3>3 DEF PristineFor, CleanUp, Formed
  <2>12. CASE Unlink(w)
    <3>1. PICK j \in made[w] : /\ cellFile' = [cellFile EXCEPT ![j] = None]
                               /\ made' = [made EXCEPT ![w] = @ \ {j}]
      BY <2>12 DEF Unlink
    <3>2. /\ UNCHANGED <<documents, step, results, drawn, wrote, before>>
          /\ step[w] = "cleanup" /\ j \in 1..Cells
      BY <2>12 DEF Unlink
    <3>3. ASSUME NEW k \in 1..Cells
          PROVE  IF k \in made'[w] THEN c[k] = None ELSE cellFile'[k] = c[k]
      <4>1. IF k \in made[w] THEN c[k] = None ELSE cellFile[k] = c[k]
        BY <2>2 DEF PristineFor
      <4> QED BY <3>1, <3>2, <4>1 DEF CellFiles
    <3> QED BY <2>2, <3>2, <3>3 DEF PristineFor, Formed
  <2>13. CASE RaiseLate(w)
    BY <2>13 DEF RaiseLate
  <2>14. CASE Readback(w) \/ Fail(w) \/ Die(w)
    BY <1>5, <2>14 DEF Readback, Fail, Die, Leave
  <2> QED
    BY <1>5, <2>3, <2>4, <2>5, <2>6, <2>7, <2>8, <2>9, <2>10, <2>11, <2>12, <2>13, <2>14 DEF Run
<1> QED
  BY <1>2, <1>3, <1>4, <1>5

LEMMA PristineMeans == TypeInv /\ Pristine => FailedRunLeavesNothing
<1> SUFFICES ASSUME TypeInv, Pristine, NEW w \in Workers,
                    At(w, "cleanup"), made[w] = {}, lapses = {}
             PROVE  before[w] = store
  BY DEF FailedRunLeavesNothing
<1>1. PICK c \in CellFiles, D \in SUBSET Verdicts : PristineFor(w, c, D)
  BY DEF Pristine, At
<1>2. before[w] = <<c, D>> /\ documents = D /\ \A k \in 1..Cells : cellFile[k] = c[k]
  BY <1>1 DEF PristineFor, At
<1>3. cellFile = c
  <2>1. /\ cellFile = [k \in 1..Cells |-> cellFile[k]]
        /\ c = [k \in 1..Cells |-> c[k]]
    BY DEF CellFiles, TypeInv, RobustnessTypeOK
  <2> QED BY <1>2, <2>1
<1> QED
  BY <1>2, <1>3 DEF store

-----------------------------------------------------------------------------
RobustnessInv == TypeInv /\ LedgerInv /\ Pristine

LEMMA RobustnessInvInit == RobustnessInit => RobustnessInv
BY TypeInit, LedgerInit, PristineInit DEF RobustnessInv

LEMMA RobustnessInvStep == RobustnessInv /\ [RobustnessNext]_robustnessVars => RobustnessInv'
<1> SUFFICES ASSUME RobustnessInv, [RobustnessNext]_robustnessVars PROVE RobustnessInv'
  OBVIOUS
<1>1. TypeInv' /\ LedgerInv'
  BY TypeStep, LedgerStep DEF RobustnessInv
<1>2. CASE UNCHANGED robustnessVars
  <2>1. Pristine'
    BY <1>2 DEF robustnessVars, store, local, RobustnessInv, Pristine, PristineFor, At, Cell, Verdict
  <2> QED BY <1>1, <2>1 DEF RobustnessInv
<1>3. ASSUME NEW w \in Workers, Run(w) PROVE Pristine'
  BY <1>3, PristineStep DEF RobustnessInv
<1> QED
  BY <1>1, <1>2, <1>3 DEF RobustnessInv, RobustnessNext

LEMMA RobustnessInvMeans ==
    RobustnessInv => /\ RobustnessTypeOK /\ EvidenceBacked
                     /\ FailedRunLeavesNothing /\ AnswersAgree
BY PristineMeans DEF RobustnessInv, TypeInv, LedgerInv

\* However many runs for one survivor are started, side by side or one after another,
\* raise or die, over a matrix of any size: run_persisted_robustness returns the verdict
\* that is in the ledger, a failed run leaves the artifacts as it found them, and the
\* record can be read back, the last two as long as nothing overlapped or raised late.
THEOREM RobustnessHolds ==
    RobustnessSpec => [](EvidenceBacked /\ FailedRunLeavesNothing /\ AnswersAgree)
BY RobustnessInvInit, RobustnessInvStep, RobustnessInvMeans, PTL DEF RobustnessSpec
===============================================================================
