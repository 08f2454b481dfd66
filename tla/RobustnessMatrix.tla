--------------------------- MODULE RobustnessMatrix ---------------------------
(***************************************************************************)
(* The matrix of strategy_robustness.py: windows of a training span and    *)
(* the test span behind it, over the closed bars of a survivor, times the  *)
(* stress scenarios.  The windows are generated once, by index, and their  *)
(* documents are validated later, by timestamp, without the bars.          *)
(***************************************************************************)
EXTENDS Integers, Sequences, FiniteSets

CONSTANTS Bars,       \* the timestamps of the survivor's bars within the bounds
          EvaluationStart, EvaluationEnd, \* evaluation_start_ns, evaluation_end_ns
          DataAsOf,   \* data_as_of_ns
          Schemes,    \* "expanding", "rolling"
          TrainBars,  \* scheme -> bars of the (first) training span
          TestBars, StepBars, MaxWindows, Scenarios

\* What _bounded_timestamps returns, or it raises.
Bounded(bars) ==
    /\ bars # <<>>
    /\ \A i \in DOMAIN bars : bars[i] \in EvaluationStart..EvaluationEnd
    /\ \A i, j \in DOMAIN bars : i < j => bars[i] < bars[j]

ASSUME MatrixAssumption ==
    /\ Bars \in Seq(Int) /\ Bounded(Bars)
    /\ EvaluationStart \in Nat \ {0} /\ EvaluationEnd \in Nat /\ DataAsOf \in Nat
    /\ EvaluationStart <= EvaluationEnd /\ EvaluationEnd <= DataAsOf
    /\ Schemes \subseteq {"expanding", "rolling"} /\ Schemes # {}
    /\ TrainBars \in [Schemes -> Nat \ {0}]
    /\ TestBars \in Nat \ {0} /\ StepBars \in Nat \ {0} /\ MaxWindows \in Nat \ {0}
    /\ IsFiniteSet(Scenarios) /\ Scenarios # {}

Ordinals == 0..MaxWindows - 1

-----------------------------------------------------------------------------
(* generate_robustness_windows, generate_robustness_matrix                  *)

\* test_start_index, counted from 1
TestStart(scheme, ordinal) == TrainBars[scheme] + ordinal * StepBars + 1

\* The condition of the loop: the test span ends within the bars.
Fits(scheme, ordinal) == TestStart(scheme, ordinal) + TestBars - 1 <= Len(Bars)

TrainStart(scheme, ordinal) ==
    IF scheme = "expanding" THEN 1 ELSE TestStart(scheme, ordinal) - TrainBars[scheme]

Window(scheme, ordinal) ==
    [scheme  |-> scheme,
     ordinal |-> ordinal,
     train   |-> <<Bars[TrainStart(scheme, ordinal)], Bars[TestStart(scheme, ordinal) - 1]>>,
     test    |-> <<Bars[TestStart(scheme, ordinal)],
                   Bars[TestStart(scheme, ordinal) + TestBars - 1]>>]

Windows == {Window(x[1], x[2]) : x \in {y \in Schemes \X Ordinals : Fits(y[1], y[2])}}

Matrix == Windows \X Scenarios

-----------------------------------------------------------------------------
(* _validated_cell_document, _cell_derived_verdict_closure                  *)

ValidWindow(w) ==
    /\ w.scheme \in Schemes /\ w.ordinal \in Ordinals
    /\ 0 < w.train[1] /\ w.train[1] <= w.train[2]
    /\ w.train[2] < w.test[1] /\ w.test[1] <= w.test[2]
    /\ w.test[2] <= DataAsOf

\* complete: the cells are those of every scheme, ordinal and scenario.
Complete ==
    {<<cell[1].scheme, cell[1].ordinal, cell[2]>> : cell \in Matrix}
        = Schemes \X Ordinals \X Scenarios
===============================================================================
