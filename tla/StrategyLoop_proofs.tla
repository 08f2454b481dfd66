-------------------------- MODULE StrategyLoop_proofs --------------------------
(***************************************************************************)
(* What StrategyLoop guarantees for every number of processes, hypotheses, *)
(* strategies, data versions and policies: an experiment is launched once, *)
(* its evidence is complete when it is terminal, the last commit is never  *)
(* refused, and the loop implements ExperimentRegistry.                    *)
(***************************************************************************)
EXTENDS StrategyLoop, TLAPS

\* What a worker's local variables hold at each of its steps.
LocalsOK ==
    \A w \in Workers :
        /\ pc[w] # "idle" => hyp[w] \in Hypotheses
        /\ Reading(w) => exp[w] \in Experiments /\ exp[w].strategy = StrategyOf[hyp[w]]
        /\ pc[w] \in {"evaluate", "publish_verdict"} => seen[w] \in (0..MaxData) \X Policies
        /\ pc[w] \in {"publish_verdict", "feedback", "stage_nautilus", "stage_screen",
                      "record_verdict"} => result[w] \in Decisions
        /\ pc[w] \in {"publish_error", "error_feedback", "stage_error", "record_error"}
              => result[w] \in FailedStages
        /\ pc[w] \in {"confirm", "return"} => result[w] \in Outcomes

TypeInv == TypeOK /\ LocalsOK

-----------------------------------------------------------------------------

\* Setting one column of an experiment's rows keeps them rows.
LEMMA RowUpdate ==
    ASSUME NEW r \in Row
    PROVE  /\ \A s \in {"PASSED", "ERROR"} : /\ [r EXCEPT !.candidate = s] \in Row
                                           /\ [r EXCEPT !.research = s] \in Row
                                           /\ [r EXCEPT !.nautilus = s] \in Row
           /\ \A d \in Decisions : [r EXCEPT !.verdict = d] \in Row
           /\ \A f \in FailedStages : /\ [r EXCEPT !.error = f] \in Row
                                      /\ FailedRow(r, f) \in Row
           /\ \A h \in Hypotheses : [r EXCEPT !.owner = IF @ = None THEN h ELSE @] \in Row
  BY DEF Row, FailedRow, FailedStages

\* Publishing an artifact keeps the directory a directory.
LEMMA FileUpdate ==
    ASSUME NEW f \in File
    PROVE  /\ [f EXCEPT !.candidate = TRUE] \in File
           /\ \A s \in FailedStages : [f EXCEPT !.error = s] \in File
           /\ \A v \in Decisions, d \in 0..MaxData, p \in Policies :
                 [f EXCEPT !.verdict = v, !.readData = d, !.readPolicy = p] \in File
  BY DEF File

\* The identity derived at any moment is an experiment of the hypothesis' strategy.
LEMMA IdentityType ==
    ASSUME TypeInv, NEW h \in Hypotheses
    PROVE  Identity(h) \in Experiments /\ Identity(h).strategy = StrategyOf[h]
  BY LoopAssumption DEF TypeInv, TypeOK, Identity, Experiments

LEMMA TypeInvInit == Init => TypeInv
<1> SUFFICES ASSUME Init PROVE TypeInv
  OBVIOUS
<1>1. NoRow \in Row /\ NoFile \in File
  BY DEF NoRow, NoFile, Row, File
<1>2. TypeOK
  BY <1>1, LoopAssumption DEF Init, TypeOK, NoRun, Steps, Policies
<1>3. LocalsOK
  BY DEF Init, LocalsOK, Reading
<1> QED  BY <1>2, <1>3 DEF TypeInv

\* A worker that claimed an experiment works on one with rows and files.
LEMMA ClaimedType ==
    ASSUME TypeInv, NEW w \in Workers, Claimed(w)
    PROVE  /\ hyp[w] \in Hypotheses /\ exp[w] \in Experiments
           /\ row[exp[w]] \in Row /\ file[exp[w]] \in File
           /\ feedback[exp[w]] \in [Hypotheses -> Outcomes \cup {None}]
           /\ pc[w] # "idle" /\ Reading(w)
  BY DEF TypeInv, TypeOK, LocalsOK, Claimed, Reading, ClaimedSteps

LEMMA TypeInvStep == TypeInv /\ [Next]_vars => TypeInv'
<1> SUFFICES ASSUME TypeInv, [Next]_vars PROVE TypeInv'
  OBVIOUS
<1> USE DEF TypeInv, TypeOK, LocalsOK, Reading, At, Goto, Steps, ClaimedSteps,
            envVars, localVars, ledgerVars, fileVars
<1>1. ASSUME NEW w \in Workers, NEW h \in Hypotheses, Start(w, h) PROVE TypeInv'
  BY <1>1 DEF Start
<1>2. ASSUME NEW w \in Workers, Prepare(w) PROVE TypeInv'
  <2>1. hyp[w] \in Hypotheses
    BY <1>2 DEF Prepare
  <2> QED  BY <1>2, <2>1, IdentityType DEF Prepare
<1>3. ASSUME NEW w \in Workers, Leave(w),
             UNCHANGED <<envVars, ledgerVars, fileVars, launches>>,
             answer' \in [Workers -> RunRecords \cup {None}]
      PROVE TypeInv'
  BY <1>3 DEF Leave
<1>4. ASSUME NEW w \in Workers, Claim(w) PROVE TypeInv'
  <2>1. CASE SnapshotHolds(w) /\ Goto(w, "lookup") /\ UNCHANGED localVars
    BY <1>4, <2>1 DEF Claim
  <2>2. CASE ~SnapshotHolds(w) /\ Leave(w)
    BY <1>3, <1>4, <2>2 DEF Claim
  <2> QED  BY <1>4, <2>1, <2>2 DEF Claim
<1>5. ASSUME NEW w \in Workers, Raise(w) PROVE TypeInv'
  BY <1>3, <1>5 DEF Raise
<1>6. ASSUME NEW w \in Workers, NEW stage \in FailedStages, Claimed(w), Fail(w, stage),
             pc[w] \in {"candidate", "research", "evaluate"},
             UNCHANGED <<envVars, hyp, exp, fresh, seen, ledgerVars, fileVars, launches, answer>>
      PROVE TypeInv'
  BY <1>6, ClaimedType DEF Fail, Outcomes
<1>7. ASSUME NEW w \in Workers, Proceed(w) PROVE TypeInv'
  <2>0. Claimed(w)
    BY <1>7 DEF Proceed, Claimed, Lookup, RecordHypothesis, RecordExperiment, RefuseExisting,
       ReuseExisting, ConfirmReuse, Launch, BuildCandidate, StageCandidate, CheckResearch,
       ReadInputs, Evaluate, PublishVerdict, PublishFeedback, StageNautilus, StageScreen,
       RecordVerdict, Return, PublishError, PublishErrorFeedback, StageError, RecordError
  <2> USE <2>0, ClaimedType
  <2>1. CASE Lookup(w)
    BY <2>1 DEF Lookup
  <2>2. CASE RecordHypothesis(w)
    BY <2>2 DEF RecordHypothesis
  <2>3. CASE RecordExperiment(w)
    <3>1. row' \in [Experiments -> Row]
      BY <2>3, RowUpdate DEF RecordExperiment
    <3> QED  BY <2>3, <3>1 DEF RecordExperiment
  <2>4. CASE RefuseExisting(w)
    BY <1>3, <2>4 DEF RefuseExisting
  <2>5. CASE ReuseExisting(w)
    <3>1. Recorded(exp[w]) \in Outcomes
      BY <2>5 DEF ReuseExisting, Recorded, Terminal, Row, Outcomes
    <3> QED  BY <2>5, <3>1 DEF ReuseExisting
  <2>6. CASE ConfirmReuse(w)
    <3>1. result[w] \in Outcomes
      BY <2>6 DEF ConfirmReuse
    <3>2. answer' \in [Workers -> RunRecords \cup {None}]
      BY <2>6, <3>1 DEF ConfirmReuse, Answer, RunRecords
    <3> QED  BY <1>3, <2>6, <3>2 DEF ConfirmReuse
  <2>7. CASE Launch(w)
    BY <2>7 DEF Launch
  <2>8. CASE BuildCandidate(w)
    <3>1. CASE Fail(w, "CANDIDATE") /\ UNCHANGED file
      BY <1>6, <2>8, <3>1 DEF BuildCandidate, FailedStages
    <3>2. CASE file' = [file EXCEPT ![exp[w]].candidate = TRUE]
               /\ Goto(w, "stage_candidate") /\ UNCHANGED result
      <4>1. file' \in [Experiments -> File]
        BY <3>2, FileUpdate
      <4> QED  BY <2>8, <3>2, <4>1 DEF BuildCandidate
    <3> QED  BY <2>8, <3>1, <3>2 DEF BuildCandidate
  <2>9. CASE StageCandidate(w)
    <3>1. row' \in [Experiments -> Row]
      BY <2>9, RowUpdate DEF StageCandidate
    <3> QED  BY <2>9, <3>1 DEF StageCandidate
  <2>10. CASE CheckResearch(w)
    <3>1. CASE Fail(w, "RESEARCH")
      BY <1>6, <2>10, <3>1 DEF CheckResearch, FailedStages
    <3>2. CASE Goto(w, "read") /\ UNCHANGED result
      BY <2>10, <3>2 DEF CheckResearch
    <3> QED  BY <2>10, <3>1, <3>2 DEF CheckResearch
  <2>11. CASE ReadInputs(w)
    BY <2>11 DEF ReadInputs
  <2>12. CASE Evaluate(w)
    <3>1. CASE Fail(w, "NAUTILUS")
      BY <1>6, <2>12, <3>1 DEF Evaluate, FailedStages
    <3>2. ASSUME NEW d \in Decisions, result' = [result EXCEPT ![w] = d],
                 Goto(w, "publish_verdict")
          PROVE  TypeInv'
      BY <2>12, <3>2 DEF Evaluate, Outcomes
    <3> QED  BY <2>12, <3>1, <3>2 DEF Evaluate
  <2>13. CASE PublishVerdict(w)
    <3>1. result[w] \in Decisions /\ seen[w][1] \in 0..MaxData /\ seen[w][2] \in Policies
      BY <2>13 DEF PublishVerdict
    <3>2. file' \in [Experiments -> File]
      BY <2>13, <3>1, FileUpdate DEF PublishVerdict
    <3> QED  BY <2>13, <3>2 DEF PublishVerdict
  <2>14. CASE PublishFeedback(w)
    <3>1. result[w] \in Outcomes
      BY <2>14 DEF PublishFeedback, Outcomes
    <3> QED  BY <2>14, <3>1 DEF PublishFeedback
  <2>15. CASE StageNautilus(w)
    <3>1. row' \in [Experiments -> Row]
      BY <2>15, RowUpdate DEF StageNautilus
    <3> QED  BY <2>15, <3>1 DEF StageNautilus
  <2>16. CASE StageScreen(w)
    <3>1. row' \in [Experiments -> Row]
      BY <2>16, RowUpdate DEF StageScreen
    <3> QED  BY <2>16, <3>1 DEF StageScreen
  <2>17. CASE RecordVerdict(w)
    <3>1. row' \in [Experiments -> Row]
      BY <2>17, RowUpdate DEF RecordVerdict
    <3> QED  BY <2>17, <3>1 DEF RecordVerdict, Outcomes
  <2>18. CASE Return(w)
    <3>1. result[w] \in Outcomes
      BY <2>18 DEF Return
    <3>2. answer' \in [Workers -> RunRecords \cup {None}]
      BY <2>18, <3>1 DEF Return, Answer, RunRecords
    <3> QED  BY <1>3, <2>18, <3>2 DEF Return
  <2>19. CASE PublishError(w)
    <3>1. file' \in [Experiments -> File]
      BY <2>19, FileUpdate DEF PublishError
    <3> QED  BY <2>19, <3>1 DEF PublishError
  <2>20. CASE PublishErrorFeedback(w)
    <3>1. result[w] \in Outcomes
      BY <2>20 DEF PublishErrorFeedback, Outcomes
    <3> QED  BY <2>20, <3>1 DEF PublishErrorFeedback
  <2>21. CASE StageError(w)
    <3>1. row' \in [Experiments -> Row]
      BY <2>21, RowUpdate DEF StageError
    <3> QED  BY <2>21, <3>1 DEF StageError
  <2>22. CASE RecordError(w)
    <3>1. row' \in [Experiments -> Row]
      BY <2>22, RowUpdate DEF RecordError
    <3> QED  BY <2>22, <3>1 DEF RecordError, Outcomes
  <2> QED
    BY <1>7, <2>1, <2>2, <2>3, <2>4, <2>5, <2>6, <2>7, <2>8, <2>9, <2>10, <2>11, <2>12, <2>13,
       <2>14, <2>15, <2>16, <2>17, <2>18, <2>19, <2>20, <2>21, <2>22 DEF Proceed
<1>8. CASE Environment
  BY <1>8, LoopAssumption DEF Environment, SyncBegin, SyncWrite, SyncEnd, EditPolicy
<1>9. CASE UNCHANGED vars
  BY <1>9 DEF vars
<1> QED  BY <1>1, <1>2, <1>4, <1>5, <1>7, <1>8, <1>9 DEF Next

\* The variables of the strategy loop have their types in every reachable state.
THEOREM TypeCorrect == Spec => []TypeOK
<1>1. Spec => []TypeInv
  BY TypeInvInit, TypeInvStep, PTL DEF Spec
<1> QED  BY <1>1, PTL DEF TypeInv
-----------------------------------------------------------------------------
(* Per-experiment locking is execution authority.                            *)

\* Why an experiment cannot be launched twice: one process holds its claim; a
\* process that found no row is still the only one to know the experiment until
\* it adds the row; from then on there is a row; and what has no row has not been
\* launched.
Exclusive == \A v, w \in Workers : Claimed(v) /\ Claimed(w) /\ exp[v] = exp[w] => v = w

FreshOK(w) ==
    fresh[w] => /\ Claimed(w) /\ pc[w] # "lookup"
                /\ pc[w] \in {"hypothesis", "experiment"} => row[exp[w]].owner = None
                /\ pc[w] = "existing" => launches[exp[w]] = 0

OwnedOK(w) ==
    Claimed(w) => \/ pc[w] \in {"lookup", "hypothesis", "experiment"}
                  \/ row[exp[w]].owner # None

LaunchOK(e) == (row[e].owner = None => launches[e] = 0) /\ launches[e] <= 1

ClaimInv ==
    /\ Exclusive
    /\ \A w \in Workers : FreshOK(w) /\ OwnedOK(w)
    /\ \A e \in Experiments : LaunchOK(e)

\* A step past the claim touches one worker and one experiment, and keeps the claim
\* or ends the run.
LEMMA ProceedFrame ==
    ASSUME TypeInv, NEW w \in Workers, Proceed(w)
    PROVE  /\ Claimed(w)
           /\ \A v \in Workers \ {w} : /\ pc'[v] = pc[v] /\ exp'[v] = exp[v]
                                        /\ fresh'[v] = fresh[v] /\ hyp'[v] = hyp[v]
           /\ \/ pc'[w] = "idle" /\ fresh'[w] = FALSE
              \/ exp'[w] = exp[w] /\ hyp'[w] = hyp[w]
           /\ \A e \in Experiments \ {exp[w]} : /\ row'[e] = row[e] /\ file'[e] = file[e]
                                                 /\ launches'[e] = launches[e]
<1> USE DEF At, Goto, localVars, ledgerVars, fileVars, Leave
<1>1. Claimed(w)
  BY DEF Proceed, Claimed, ClaimedSteps, Lookup, RecordHypothesis, RecordExperiment, RefuseExisting,
     ReuseExisting, ConfirmReuse, Launch, BuildCandidate, StageCandidate, CheckResearch,
     ReadInputs, Evaluate, PublishVerdict, PublishFeedback, StageNautilus, StageScreen,
     RecordVerdict, Return, PublishError, PublishErrorFeedback, StageError, RecordError
<1>2. \A v \in Workers \ {w} : /\ pc'[v] = pc[v] /\ exp'[v] = exp[v]
                                /\ fresh'[v] = fresh[v] /\ hyp'[v] = hyp[v]
  BY DEF TypeInv, TypeOK, Proceed, Lookup, RecordHypothesis, RecordExperiment, RefuseExisting,
     ReuseExisting, ConfirmReuse, Launch, BuildCandidate, StageCandidate, CheckResearch,
     ReadInputs, Evaluate, PublishVerdict, PublishFeedback, StageNautilus, StageScreen, Fail,
     RecordVerdict, Return, PublishError, PublishErrorFeedback, StageError, RecordError
<1>4. \/ pc'[w] = "idle" /\ fresh'[w] = FALSE
      \/ exp'[w] = exp[w] /\ hyp'[w] = hyp[w]
  <2>1. CASE Leave(w)
    BY <2>1 DEF TypeInv, TypeOK
  <2>2. CASE UNCHANGED <<exp, hyp>>
    BY <2>2
  <2>3. \/ RefuseExisting(w) \/ ConfirmReuse(w) \/ Return(w)
        \/ UNCHANGED <<exp, hyp>>
    BY DEF Proceed, Lookup, RecordHypothesis, RecordExperiment, ReuseExisting,
       Launch, BuildCandidate, StageCandidate, CheckResearch, ReadInputs, Evaluate,
       PublishVerdict, PublishFeedback, StageNautilus, StageScreen, RecordVerdict,
       PublishError, PublishErrorFeedback, StageError, RecordError
  <2> QED  BY <2>1, <2>2, <2>3 DEF RefuseExisting, ConfirmReuse, Return
<1>3. /\ \A e \in Experiments \ {exp[w]} : row'[e] = row[e] /\ file'[e] = file[e]
                                                 /\ launches'[e] = launches[e]
  BY DEF TypeInv, TypeOK, Proceed, Lookup, RecordHypothesis, RecordExperiment, RefuseExisting,
     ReuseExisting, ConfirmReuse, Launch, BuildCandidate, StageCandidate, CheckResearch,
     ReadInputs, Evaluate, PublishVerdict, PublishFeedback, StageNautilus, StageScreen, Fail,
     RecordVerdict, Return, PublishError, PublishErrorFeedback, StageError, RecordError
<1> QED  BY <1>1, <1>2, <1>3, <1>4

LEMMA ClaimInvInit == Init => ClaimInv
  BY DEF Init, ClaimInv, Exclusive, FreshOK, OwnedOK, LaunchOK, Claimed, ClaimedSteps, NoRow

\* A process past its claim keeps it, and launches what nobody launched.
LEMMA ClaimInvProceed ==
    ASSUME TypeInv, ClaimInv, NEW w \in Workers, Proceed(w)
    PROVE  ClaimInv'
<1> SUFFICES ASSUME NEW e, e = exp[w] PROVE ClaimInv'
  OBVIOUS
<1>0. /\ Claimed(w) /\ e \in Experiments /\ hyp[w] \in Hypotheses /\ row[e] \in Row
      /\ \A v \in Workers \ {w} : /\ pc'[v] = pc[v] /\ exp'[v] = exp[v]
                                   /\ fresh'[v] = fresh[v]
      /\ \/ pc'[w] = "idle" /\ fresh'[w] = FALSE
         \/ exp'[w] = e
      /\ \A x \in Experiments \ {e} : row'[x] = row[x] /\ launches'[x] = launches[x]
      /\ launches[e] \in Nat
  BY ProceedFrame, ClaimedType DEF TypeInv, TypeOK
<1>1. Exclusive'
  BY <1>0 DEF ClaimInv, Exclusive, Claimed, ClaimedSteps
<1>2. ASSUME NEW v \in Workers \ {w} PROVE FreshOK(v)' /\ OwnedOK(v)'
  <2>1. Claimed(v) => exp[v] # e /\ exp[v] \in Experiments
    BY <1>0, ClaimedType DEF ClaimInv, Exclusive
  <2> QED  BY <1>0, <2>1 DEF ClaimInv, FreshOK, OwnedOK, Claimed
<1>3. FreshOK(w)' /\ OwnedOK(w)' /\ LaunchOK(e)'
  <2> USE <1>0 DEF At, Goto, ledgerVars, TypeInv, TypeOK, Claimed, ClaimInv, FreshOK, OwnedOK,
               LaunchOK
  <2>1. CASE Lookup(w)
    BY <2>1 DEF Lookup, ClaimedSteps
  <2>2. CASE RecordHypothesis(w)
    BY <2>2 DEF RecordHypothesis, ClaimedSteps, localVars
  <2>3. CASE RecordExperiment(w)
    <3>1. row'[e].owner # None
      BY <2>3, LoopAssumption DEF RecordExperiment, Row
    <3>2. launches' = launches /\ pc'[w] = "existing" /\ fresh'[w] = fresh[w] /\ exp'[w] = e
      BY <2>3 DEF RecordExperiment, localVars
    <3>3. fresh[w] => launches[e] = 0
      BY <2>3 DEF RecordExperiment
    <3> QED  BY <3>1, <3>2, <3>3 DEF ClaimedSteps
  <2>4. CASE Leave(w) /\ UNCHANGED <<row, launches>>
    <3>1. fresh'[w] = FALSE /\ pc'[w] = "idle"
      BY <2>4 DEF Leave
    <3> QED  BY <2>4, <3>1 DEF ClaimedSteps
  <2>5. CASE Launch(w)
    <3>1. fresh[w] /\ launches[e] = 0 /\ row[e].owner # None
      BY <2>5 DEF Launch, ExistingRefused, ClaimedSteps
    <3> QED  BY <2>5, <3>1 DEF Launch, localVars, ClaimedSteps
  <2>6. CASE /\ UNCHANGED <<exp, fresh, launches>> /\ row'[e].owner = row[e].owner
             /\ pc'[w] \in ClaimedSteps \ {"lookup", "hypothesis", "experiment", "existing"}
             /\ pc[w] \notin {"lookup", "hypothesis", "experiment"}
    BY <2>6
  <2> QED
    <3>1. CASE RefuseExisting(w) \/ ConfirmReuse(w) \/ Return(w)
      BY <2>4, <3>1 DEF RefuseExisting, ConfirmReuse, Return
    <3>2. CASE StageCandidate(w) \/ StageNautilus(w) \/ StageScreen(w) \/ RecordVerdict(w)
               \/ StageError(w) \/ RecordError(w)
      BY <2>6, <3>2 DEF StageCandidate, StageNautilus, StageScreen, RecordVerdict, StageError,
         RecordError, FailedRow, localVars, ClaimedSteps, Row, LocalsOK, FailedStages
    <3>3. CASE \/ ReuseExisting(w) \/ BuildCandidate(w) \/ CheckResearch(w) \/ ReadInputs(w)
               \/ Evaluate(w) \/ PublishVerdict(w) \/ PublishFeedback(w)
               \/ PublishError(w) \/ PublishErrorFeedback(w)
      BY <2>6, <3>3 DEF ReuseExisting, BuildCandidate, CheckResearch, ReadInputs, Evaluate,
         PublishVerdict, PublishFeedback, PublishError, PublishErrorFeedback, Fail,
         localVars, ClaimedSteps
    <3> QED  BY <2>1, <2>2, <2>3, <2>5, <3>1, <3>2, <3>3 DEF Proceed
<1>4. ASSUME NEW x \in Experiments PROVE LaunchOK(x)'
  BY <1>0, <1>3 DEF ClaimInv, LaunchOK
<1> QED  BY <1>1, <1>2, <1>3, <1>4 DEF ClaimInv

LEMMA ClaimInvStep == TypeInv /\ ClaimInv /\ [Next]_vars => ClaimInv'
<1> SUFFICES ASSUME TypeInv, ClaimInv, [Next]_vars PROVE ClaimInv'
  OBVIOUS
<1> USE DEF ClaimInv, Exclusive, FreshOK, OwnedOK, LaunchOK, Claimed, ClaimedSteps, At, Goto,
            envVars, localVars, ledgerVars, fileVars, TypeInv, TypeOK
<1>1. ASSUME NEW w \in Workers, NEW h \in Hypotheses, Start(w, h) PROVE ClaimInv'
  BY <1>1 DEF Start
<1>2. ASSUME NEW w \in Workers, Prepare(w) PROVE ClaimInv'
  BY <1>2 DEF Prepare
<1>3. ASSUME NEW w \in Workers, Leave(w), UNCHANGED <<row, launches>> PROVE ClaimInv'
  <2>1. \A v \in Workers : /\ Claimed(v)' => v # w /\ Claimed(v)
                           /\ fresh'[v] => v # w /\ fresh[v]
                           /\ v # w => pc'[v] = pc[v] /\ exp'[v] = exp[v]
    BY <1>3 DEF Leave
  <2> QED  BY <1>3, <2>1
<1>4. ASSUME NEW w \in Workers, Claim(w) PROVE ClaimInv'
  <2>1. CASE ~SnapshotHolds(w) /\ Leave(w)
    BY <1>3, <1>4, <2>1 DEF Claim
  <2>2. CASE SnapshotHolds(w) /\ Goto(w, "lookup") /\ UNCHANGED localVars
    BY <1>4, <2>2 DEF Claim, ClaimFree
  <2> QED  BY <1>4, <2>1, <2>2 DEF Claim
<1>5. ASSUME NEW w \in Workers, Raise(w) PROVE ClaimInv'
  BY <1>3, <1>5 DEF Raise
<1>6. ASSUME NEW w \in Workers, Proceed(w) PROVE ClaimInv'
  BY <1>6, ClaimInvProceed
<1>7. CASE Environment
  BY <1>7 DEF Environment, SyncBegin, SyncWrite, SyncEnd, EditPolicy
<1>8. CASE UNCHANGED vars
  BY <1>8 DEF vars
<1> QED  BY <1>1, <1>2, <1>4, <1>5, <1>6, <1>7, <1>8 DEF Next

\* However many processes ask for an experiment, crash and ask again, it is
\* executed at most once: the lock of run_strategy_loop and its lookup before
\* record_experiment make the claim a one-shot execution authority.
THEOREM LaunchedOnce == Spec => []SingleLaunch
<1>1. Init => TypeInv /\ ClaimInv
  BY TypeInvInit, ClaimInvInit
<1>2. TypeInv /\ ClaimInv /\ [Next]_vars => (TypeInv /\ ClaimInv)'
  BY TypeInvStep, ClaimInvStep
<1>3. ClaimInv => SingleLaunch
  BY DEF ClaimInv, LaunchOK, SingleLaunch
<1> QED  BY <1>1, <1>2, <1>3, PTL DEF Spec

-----------------------------------------------------------------------------
(* Abandoned executions                                                      *)

\* A process past its claim of an abandoned experiment only refuses it.
LEMMA AbandonedProceed ==
    ASSUME TypeInv, ClaimInv, NEW w \in Workers, Proceed(w),
           NEW e \in Experiments, Abandoned(e)
    PROVE  Abandoned(e)' /\ row'[e] = row[e] /\ file'[e] = file[e] /\ launches'[e] = launches[e]
<1>0. /\ \A v \in Workers \ {w} : /\ pc'[v] = pc[v] /\ exp'[v] = exp[v]
                                   /\ fresh'[v] = fresh[v]
      /\ Claimed(w)
      /\ row[e].owner # None /\ ~Terminal(e)
      /\ \A v \in Workers : exp[v] = e => pc[v] \notin LaunchedSteps /\ ~fresh[v]
  BY ProceedFrame DEF Abandoned
<1>1. SUFFICES /\ row'[e] = row[e] /\ file'[e] = file[e] /\ launches'[e] = launches[e]
               /\ exp'[w] = e => pc'[w] \notin LaunchedSteps /\ ~fresh'[w]
  BY <1>0 DEF Abandoned, Terminal
<1>2. CASE exp[w] # e
  <2>1. \/ exp'[w] # e
        \/ pc'[w] = "idle" /\ fresh'[w] = FALSE
    BY <1>2, ProceedFrame
  <2> QED  BY <1>2, <2>1, ProceedFrame DEF LaunchedSteps, ClaimedSteps
<1>3. CASE exp[w] = e
  <2> USE <1>0, <1>3 DEF At, Goto, localVars, ledgerVars, fileVars, TypeInv, TypeOK,
                         LaunchedSteps, ClaimedSteps
  <2>0. pc[w] \in {"lookup", "hypothesis", "experiment", "existing", "confirm"} /\ ~fresh[w]
    BY DEF Claimed
  <2>1. CASE Lookup(w)
    BY <2>1 DEF Lookup
  <2>2. CASE RecordHypothesis(w)
    BY <2>0, <2>2 DEF RecordHypothesis
  <2>3. CASE RecordExperiment(w)
    <3>1. row'[e] = row[e]
      BY <2>3 DEF RecordExperiment, Row
    <3> QED  BY <2>0, <2>3, <3>1 DEF RecordExperiment
  <2>4. CASE RefuseExisting(w) \/ ConfirmReuse(w)
    BY <2>4 DEF RefuseExisting, ConfirmReuse, Leave
  <2>5. ~ReuseExisting(w)
    BY DEF ReuseExisting
  <2>6. ~Launch(w)
    BY <2>0 DEF Launch, ExistingRefused
  <2> QED  BY <2>0, <2>1, <2>2, <2>3, <2>4, <2>5, <2>6
           DEF Proceed, BuildCandidate, StageCandidate, CheckResearch, ReadInputs, Evaluate,
               PublishVerdict, PublishFeedback, StageNautilus, StageScreen, RecordVerdict, Return,
               PublishError, PublishErrorFeedback, StageError, RecordError
<1> QED  BY <1>2, <1>3

LEMMA AbandonedStep ==
    TypeInv /\ ClaimInv /\ [Next]_vars => [\A e \in Experiments : StaysAbandoned(e)]_vars
<1> SUFFICES ASSUME TypeInv, ClaimInv, Next, NEW e \in Experiments, Abandoned(e)
             PROVE  /\ Abandoned(e)' /\ row'[e] = row[e]
                    /\ file'[e] = file[e] /\ launches'[e] = launches[e]
  BY DEF StaysAbandoned
<1> USE DEF Abandoned, Terminal, At, Goto, envVars, localVars, ledgerVars, fileVars, TypeInv,
            TypeOK, LaunchedSteps, ClaimedSteps
<1>1. ASSUME NEW w \in Workers, NEW h \in Hypotheses, Start(w, h)
      PROVE  Abandoned(e)' /\ UNCHANGED <<row, file, launches>>
  BY <1>1 DEF Start
<1>2. ASSUME NEW w \in Workers, Prepare(w)
      PROVE  Abandoned(e)' /\ UNCHANGED <<row, file, launches>>
  <2>1. ~fresh[w]
    BY <1>2 DEF Prepare, ClaimInv, FreshOK, Claimed
  <2> QED  BY <1>2, <2>1 DEF Prepare
<1>3. ASSUME NEW w \in Workers, Leave(w), UNCHANGED <<row, file, launches>>
      PROVE  Abandoned(e)'
  BY <1>3 DEF Leave
<1>4. ASSUME NEW w \in Workers, Claim(w)
      PROVE  Abandoned(e)' /\ UNCHANGED <<row, file, launches>>
  <2>1. CASE ~SnapshotHolds(w) /\ Leave(w)
    BY <1>3, <1>4, <2>1 DEF Claim
  <2>2. CASE SnapshotHolds(w) /\ Goto(w, "lookup") /\ UNCHANGED localVars
    BY <1>4, <2>2 DEF Claim
  <2> QED  BY <1>4, <2>1, <2>2 DEF Claim
<1>5. ASSUME NEW w \in Workers, Raise(w)
      PROVE  Abandoned(e)' /\ UNCHANGED <<row, file, launches>>
  BY <1>3, <1>5 DEF Raise
<1>6. ASSUME Environment PROVE Abandoned(e)' /\ UNCHANGED <<row, file, launches>>
  BY <1>6 DEF Environment, SyncBegin, SyncWrite, SyncEnd, EditPolicy
<1> QED  BY <1>1, <1>2, <1>4, <1>5, <1>6, AbandonedProceed DEF Next

\* "Non-terminal stale evidence is never silently relaunched"
\* (docs/contracts/strategy-campaign-v1.md:56): once the process of an execution is
\* gone, no later call changes its rows, its artifacts or its launch count.
THEOREM NeverRelaunched == Spec => NoResurrection
<1>1. Init => TypeInv /\ ClaimInv
  BY TypeInvInit, ClaimInvInit
<1>2. TypeInv /\ ClaimInv /\ [Next]_vars => (TypeInv /\ ClaimInv)'
  BY TypeInvStep, ClaimInvStep
<1> QED  BY <1>1, <1>2, AbandonedStep, PTL DEF Spec, NoResurrection

-----------------------------------------------------------------------------
(* The evidence of an experiment                                            *)

Unanswered(e) == \A h \in Hypotheses : feedback[e][h] = None

\* Nobody launched e, so that it has no evidence.
BlankOK(e) == launches[e] = 0 => ~Terminal(e) /\ Unanswered(e)

\* The evidence of a terminal experiment.
SettledOK(e) ==
    Terminal(e) =>
        /\ row[e].owner \in hypotheses
        /\ feedback[e][row[e].owner] = Recorded(e)
        /\ \A h \in Hypotheses : feedback[e][h] \in {None, Recorded(e)}
        /\ \/ /\ row[e].error = None
              /\ ChainComplete(e)
              /\ file[e].verdict = row[e].verdict
           \/ /\ row[e].verdict = None
              /\ file[e].error = row[e].error
              /\ row[e] = FailedRow(row[e], row[e].error)

\* Steps of an execution by what it has left behind.
ExecutingSteps == LaunchedSteps \ {"return"}
FedBackSteps   == {"stage_nautilus", "stage_screen", "record_verdict", "stage_error",
                   "record_error"}
ChainSteps     == {"research", "read", "evaluate", "publish_verdict", "feedback",
                   "stage_nautilus", "stage_screen", "record_verdict"}

Owns(w) == row[exp[w]].owner = hyp[w] /\ hyp[w] \in hypotheses

\* What a process knows of its experiment at each step.
ProgressOK(w) ==
    /\ pc[w] = "experiment" => hyp[w] \in hypotheses
    /\ pc[w] = "existing" /\ fresh[w] => Owns(w)
    /\ pc[w] \in ExecutingSteps =>
          Owns(w) /\ ~Terminal(exp[w]) /\ launches[exp[w]] > 0
    /\ pc[w] \in ExecutingSteps \ FedBackSteps => Unanswered(exp[w])
    /\ pc[w] \in FedBackSteps =>
          \A h \in Hypotheses : feedback[exp[w]][h] = IF h = hyp[w] THEN result[w] ELSE None
    /\ pc[w] \in ChainSteps \cup {"stage_candidate"} => file[exp[w]].candidate
    /\ pc[w] \in ChainSteps => row[exp[w]].candidate = "PASSED"
    /\ pc[w] \in {"feedback", "stage_nautilus", "stage_screen", "record_verdict"} =>
          file[exp[w]].verdict = result[w]
    /\ pc[w] \in {"stage_screen", "record_verdict"} => row[exp[w]].nautilus = "PASSED"
    /\ pc[w] = "record_verdict" => row[exp[w]].research = "PASSED"
    /\ pc[w] \in {"error_feedback", "stage_error", "record_error"} =>
          file[exp[w]].error = result[w]
    /\ pc[w] = "record_error" => row[exp[w]] = FailedRow(row[exp[w]], result[w])
    /\ pc[w] \in {"confirm", "return"} => Terminal(exp[w]) /\ result[w] = Recorded(exp[w])

AnswerOK(w) ==
    answer[w] # None =>
        /\ Terminal(answer[w].exp)
        /\ answer[w].outcome = Recorded(answer[w].exp)
        /\ answer[w].exp.strategy = StrategyOf[answer[w].hyp]

EvidenceInv ==
    /\ \A e \in Experiments : BlankOK(e) /\ SettledOK(e)
    /\ \A w \in Workers : ProgressOK(w) /\ AnswerOK(w)

LoopInv == TypeInv /\ ClaimInv /\ EvidenceInv

-----------------------------------------------------------------------------

\* Steps before an execution and after its commit.
LEMMA EarlySteps ==
    \A s \in {"idle", "lookup", "hypothesis", "experiment", "existing", "confirm", "return"} :
        s \notin ExecutingSteps \cup FedBackSteps \cup ChainSteps \cup {"stage_candidate"}
  BY DEF ExecutingSteps, LaunchedSteps, ClaimedSteps, FedBackSteps, ChainSteps

\* The column of the stage that failed.
LEMMA FailedColumns ==
    ASSUME NEW r \in Row, NEW f \in FailedStages
    PROVE  /\ FailedRow(r, f).owner = r.owner
           /\ FailedRow(r, f).verdict = r.verdict /\ FailedRow(r, f).error = r.error
           /\ FailedRow(FailedRow(r, f), f) = FailedRow(r, f)
           /\ r = FailedRow(r, f) =>
                 [r EXCEPT !.error = f] = FailedRow([r EXCEPT !.error = f], f)
<1>1. CASE f = "CANDIDATE"
  BY <1>1 DEF FailedRow, Row
<1>2. CASE f = "RESEARCH"
  BY <1>2 DEF FailedRow, Row
<1>3. CASE f = "NAUTILUS"
  BY <1>3 DEF FailedRow, Row
<1> QED  BY <1>1, <1>2, <1>3 DEF FailedStages

\* What a step past the claim leaves alone, beyond ProceedFrame.
LEMMA EvidenceFrame ==
    ASSUME TypeInv, NEW w \in Workers, Proceed(w)
    PROVE  /\ \A v \in Workers \ {w} : result'[v] = result[v] /\ answer'[v] = answer[v]
           /\ \A e \in Experiments \ {exp[w]} : feedback'[e] = feedback[e]
           /\ hypotheses \subseteq hypotheses'
           /\ UNCHANGED envVars
<1> USE DEF localVars, ledgerVars, fileVars, envVars, Leave, Answer, Fail, TypeInv, TypeOK,
       Proceed, Lookup, RecordHypothesis, RecordExperiment, RefuseExisting,
     ReuseExisting, ConfirmReuse, Launch, BuildCandidate, StageCandidate, CheckResearch,
     ReadInputs, Evaluate, PublishVerdict, PublishFeedback, StageNautilus, StageScreen,
     RecordVerdict, Return, PublishError, PublishErrorFeedback, StageError, RecordError
<1>1. \A v \in Workers \ {w} : result'[v] = result[v] /\ answer'[v] = answer[v]
  OBVIOUS
<1>2. \A e \in Experiments \ {exp[w]} : feedback'[e] = feedback[e]
  OBVIOUS
<1>3. hypotheses \subseteq hypotheses' /\ UNCHANGED envVars
  OBVIOUS
<1> QED  BY <1>1, <1>2, <1>3

\* Whatever a process does to its experiment, the others know as much as before.
LEMMA OthersKept ==
    ASSUME LoopInv, NEW w \in Workers, Proceed(w)
    PROVE  /\ \A v \in Workers \ {w} : ProgressOK(v)'
           /\ \A e \in Experiments \ {exp[w]} : BlankOK(e)' /\ SettledOK(e)'
<1>1. ASSUME NEW v \in Workers \ {w} PROVE ProgressOK(v)'
  <2>1. /\ pc'[v] = pc[v] /\ exp'[v] = exp[v] /\ fresh'[v] = fresh[v] /\ hyp'[v] = hyp[v]
        /\ result'[v] = result[v] /\ hypotheses \subseteq hypotheses'
    BY ProceedFrame, EvidenceFrame DEF LoopInv
  <2>2. CASE Claimed(v)
    <3>1. exp[v] # exp[w] /\ exp[v] \in Experiments
      BY <2>2, ProceedFrame, ClaimedType DEF LoopInv, ClaimInv, Exclusive
    <3>2. /\ row'[exp[v]] = row[exp[v]] /\ file'[exp[v]] = file[exp[v]]
          /\ launches'[exp[v]] = launches[exp[v]] /\ feedback'[exp[v]] = feedback[exp[v]]
      <4>1. /\ \A e \in Experiments \ {exp[w]} : /\ row'[e] = row[e] /\ file'[e] = file[e]
                                                 /\ launches'[e] = launches[e]
            /\ \A e \in Experiments \ {exp[w]} : feedback'[e] = feedback[e]
        BY ProceedFrame, EvidenceFrame DEF LoopInv
      <4> QED  BY <3>1, <4>1
    <3> QED  BY <2>1, <3>2 DEF LoopInv, EvidenceInv, ProgressOK, Owns, Unanswered, Terminal, Recorded
  <2>3. CASE ~Claimed(v)
    BY <2>1, <2>3 DEF ProgressOK, Claimed, ClaimedSteps, LaunchedSteps, ExecutingSteps,
       FedBackSteps, ChainSteps
  <2> QED  BY <2>2, <2>3
<1>2. ASSUME NEW e \in Experiments \ {exp[w]} PROVE BlankOK(e)' /\ SettledOK(e)'
  <2>1. /\ row'[e] = row[e] /\ file'[e] = file[e] /\ launches'[e] = launches[e]
        /\ feedback'[e] = feedback[e] /\ hypotheses \subseteq hypotheses'
    BY ProceedFrame, EvidenceFrame DEF LoopInv
  <2> QED  BY <2>1 DEF LoopInv, EvidenceInv, BlankOK, SettledOK, Unanswered, Terminal, Recorded,
           ChainComplete
<1> QED  BY <1>1, <1>2

\* A process that leaves knows nothing, and what it leaves behind stays as it is.
LEMMA LeaverKept ==
    ASSUME LoopInv, NEW w \in Workers, Leave(w), UNCHANGED <<ledgerVars, fileVars, launches>>
    PROVE  /\ ProgressOK(w)'
           /\ \A e \in Experiments : BlankOK(e)' /\ SettledOK(e)'
<1>1. pc'[w] = "idle"
  BY DEF Leave, LoopInv, TypeInv, TypeOK
<1>2. ProgressOK(w)'
  BY <1>1 DEF ProgressOK, ExecutingSteps, FedBackSteps, ChainSteps, LaunchedSteps, ClaimedSteps
<1>3. ASSUME NEW e \in Experiments PROVE BlankOK(e)' /\ SettledOK(e)'
  BY DEF LoopInv, EvidenceInv, BlankOK, SettledOK, Unanswered, Terminal, Recorded,
     ChainComplete, ledgerVars, fileVars
<1> QED  BY <1>2, <1>3

\* A step of a process keeps what is said of it and of its experiment.
LEMMA OwnKept ==
    ASSUME LoopInv, NEW w \in Workers, Proceed(w), NEW e, e = exp[w]
    PROVE  ProgressOK(w)' /\ BlankOK(e)' /\ SettledOK(e)'
<1>0. /\ Claimed(w) /\ e \in Experiments /\ hyp[w] \in Hypotheses
      /\ row[e] \in Row /\ file[e] \in File
      /\ feedback[e] \in [Hypotheses -> Outcomes \cup {None}]
      /\ launches[e] \in Nat /\ hypotheses \subseteq Hypotheses
      /\ None \notin Hypotheses /\ None \notin Decisions /\ None \notin FailedStages
  BY ProceedFrame, ClaimedType, LoopAssumption DEF LoopInv, TypeInv, TypeOK, Outcomes
<1>1. ProgressOK(w) /\ BlankOK(e) /\ SettledOK(e) /\ FreshOK(w) /\ OwnedOK(w) /\ LaunchOK(e)
  BY <1>0 DEF LoopInv, EvidenceInv, ClaimInv
<1>2. /\ DOMAIN pc = Workers /\ DOMAIN fresh = Workers /\ DOMAIN result = Workers
      /\ DOMAIN row = Experiments /\ DOMAIN file = Experiments
      /\ DOMAIN launches = Experiments /\ DOMAIN feedback = Experiments
  BY DEF LoopInv, TypeInv, TypeOK
<1>3. LocalsOK
  BY DEF LoopInv, TypeInv
<1> DEFINE Kept == ProgressOK(w)' /\ BlankOK(e)' /\ SettledOK(e)'
<1> USE <1>0, <1>1, <1>2 DEF At, Goto, localVars, ledgerVars, fileVars
<1> SUFFICES Kept
  OBVIOUS
<1>4. CASE RefuseExisting(w) \/ ConfirmReuse(w) \/ Return(w)
  BY <1>4, LeaverKept DEF RefuseExisting, ConfirmReuse, Return
<1>5. CASE \/ Lookup(w) \/ RecordHypothesis(w) \/ CheckResearch(w) \/ ReadInputs(w)
           \/ Evaluate(w)
  <2>1. SettledOK(e)' /\ BlankOK(e)'
    BY <1>5 DEF Lookup, RecordHypothesis, CheckResearch, ReadInputs, Evaluate, Fail,
       SettledOK, BlankOK, Terminal, Recorded, Unanswered, ChainComplete
  <2>2. CASE Lookup(w)
    <3>1. pc'[w] = "hypothesis"
      BY <2>2 DEF Lookup
    <3> QED  BY <2>1, <3>1, EarlySteps DEF ProgressOK
  <2>3. CASE RecordHypothesis(w)
    <3>1. pc'[w] = "experiment" /\ hyp'[w] \in hypotheses'
      BY <2>3 DEF RecordHypothesis
    <3> QED  BY <2>1, <3>1, EarlySteps DEF ProgressOK
  <2>4. CASE CheckResearch(w) \/ ReadInputs(w) \/ Evaluate(w)
    <3>1. /\ pc[w] \in {"research", "read", "evaluate"}
          /\ pc'[w] \in {"read", "evaluate", "publish_verdict", "publish_error"}
          /\ UNCHANGED <<exp, hyp, ledgerVars, fileVars, launches>>
      BY <2>4 DEF CheckResearch, ReadInputs, Evaluate, Fail
    <3>2. /\ Owns(w) /\ ~Terminal(e) /\ launches[e] > 0 /\ Unanswered(e)
          /\ file[e].candidate /\ row[e].candidate = "PASSED"
      BY <3>1 DEF ProgressOK, ExecutingSteps, FedBackSteps, ChainSteps, LaunchedSteps,
         ClaimedSteps
    <3>3. /\ Owns(w)' /\ (~Terminal(exp[w]))' /\ (launches[exp[w]] > 0)' /\ Unanswered(exp[w])'
          /\ (file[exp[w]].candidate)' /\ (row[exp[w]].candidate = "PASSED")'
      BY <3>1, <3>2 DEF Owns, Terminal, Unanswered
    <3>4. pc'[w] \notin FedBackSteps
      BY <3>1 DEF FedBackSteps
    <3> QED  BY <2>1, <3>1, <3>3, <3>4 DEF ProgressOK
  <2> QED  BY <1>5, <2>1, <2>2, <2>3, <2>4
<1>6. CASE RecordExperiment(w)
  <2>1. row'[e] = [row[e] EXCEPT !.owner = IF row[e].owner = None THEN hyp[w] ELSE row[e].owner]
    BY <1>6 DEF RecordExperiment
  <2>2. /\ row'[e].owner = IF row[e].owner = None THEN hyp[w] ELSE row[e].owner
        /\ row'[e].verdict = row[e].verdict /\ row'[e].error = row[e].error
        /\ row'[e].candidate = row[e].candidate /\ row'[e].research = row[e].research
        /\ row'[e].nautilus = row[e].nautilus
    BY <2>1 DEF Row
  <2>3. SettledOK(e)' /\ BlankOK(e)'
    <3>1. CASE row[e].owner = None
      <4>1. ~Terminal(e) /\ launches'[e] = launches[e] /\ feedback' = feedback
        BY <1>6, <3>1 DEF LaunchOK, BlankOK, RecordExperiment
      <4> QED  BY <2>2, <4>1 DEF SettledOK, BlankOK, Terminal, Unanswered
    <3>2. CASE row[e].owner # None
      <4>1. row'[e] = row[e]
        BY <2>1, <3>2 DEF Row
      <4> QED  BY <1>6, <4>1 DEF RecordExperiment, SettledOK, BlankOK, Terminal, Recorded,
               Unanswered, ChainComplete
    <3> QED  BY <3>1, <3>2
  <2>4. ProgressOK(w)'
    BY <1>6, <2>2 DEF RecordExperiment, ProgressOK, FreshOK, Owns, ExecutingSteps, FedBackSteps,
       ChainSteps, LaunchedSteps
  <2> QED  BY <2>3, <2>4
<1>7. CASE ReuseExisting(w)
  BY <1>7 DEF ReuseExisting, ProgressOK, SettledOK, BlankOK, Terminal, Recorded, Unanswered,
     ChainComplete, ExecutingSteps, FedBackSteps, ChainSteps, LaunchedSteps
<1>8. CASE Launch(w)
  <2>1. fresh[w] /\ launches[e] = 0 /\ launches'[e] = 1
    BY <1>8 DEF Launch, ExistingRefused, FreshOK
  <2> QED  BY <1>8, <2>1 DEF Launch, ProgressOK, SettledOK, BlankOK, Terminal, Recorded,
           Unanswered, ChainComplete, ExecutingSteps, FedBackSteps, ChainSteps, LaunchedSteps,
           ClaimedSteps, Owns
<1>9. ASSUME pc[w] \in ExecutingSteps, row'[e].verdict = None, row'[e].error = None,
             launches'[e] > 0
      PROVE  SettledOK(e)' /\ BlankOK(e)'
  BY <1>9 DEF SettledOK, BlankOK, Terminal
<1>10. pc[w] \in ExecutingSteps => row[e].verdict = None /\ row[e].error = None /\ launches[e] > 0
  BY DEF ProgressOK, Terminal
<1>11. CASE \/ BuildCandidate(w) \/ PublishVerdict(w) \/ PublishFeedback(w)
            \/ PublishError(w) \/ PublishErrorFeedback(w)
  <2>1. pc[w] \in ExecutingSteps /\ row' = row /\ launches' = launches
    BY <1>11 DEF BuildCandidate, PublishVerdict, PublishFeedback, PublishError,
       PublishErrorFeedback, ExecutingSteps, LaunchedSteps, ClaimedSteps
  <2>2. SettledOK(e)' /\ BlankOK(e)'
    BY <1>9, <1>10, <2>1
  <2>3. ProgressOK(w)'
    BY <1>11, <2>1 DEF BuildCandidate, PublishVerdict, PublishFeedback, PublishError,
       PublishErrorFeedback, Fail, ProgressOK, Owns, Terminal, Unanswered, ExecutingSteps,
       FedBackSteps, ChainSteps, LaunchedSteps, ClaimedSteps, File
  <2> QED  BY <2>2, <2>3
<1>12. CASE StageCandidate(w) \/ StageNautilus(w) \/ StageScreen(w)
  <2>1. pc[w] \in ExecutingSteps /\ launches' = launches
    BY <1>12 DEF StageCandidate, StageNautilus, StageScreen, ExecutingSteps, LaunchedSteps,
       ClaimedSteps
  <2>2. row'[e].verdict = row[e].verdict /\ row'[e].error = row[e].error
    BY <1>12 DEF StageCandidate, StageNautilus, StageScreen, Row
  <2>3. SettledOK(e)' /\ BlankOK(e)'
    BY <1>9, <1>10, <2>1, <2>2
  <2>4. ProgressOK(w)'
    BY <1>12, <2>1, <2>2 DEF StageCandidate, StageNautilus, StageScreen, ProgressOK, Owns,
       Terminal, Unanswered, ExecutingSteps, FedBackSteps, ChainSteps, LaunchedSteps,
       ClaimedSteps, Row
  <2> QED  BY <2>3, <2>4
<1>13. CASE StageError(w)
  <2>1. result[w] \in FailedStages /\ pc[w] \in ExecutingSteps
    BY <1>3, <1>13 DEF StageError, LocalsOK, ExecutingSteps, LaunchedSteps, ClaimedSteps
  <2>2. /\ row'[e] = FailedRow(row[e], result[w]) /\ launches' = launches
        /\ row'[e].verdict = row[e].verdict /\ row'[e].error = row[e].error
        /\ row'[e].owner = row[e].owner
        /\ row'[e] = FailedRow(row'[e], result[w])
    <3>1. row'[e] = FailedRow(row[e], result[w]) /\ launches' = launches
      BY <1>13 DEF StageError
    <3>2. /\ FailedRow(row[e], result[w]).verdict = row[e].verdict
          /\ FailedRow(row[e], result[w]).error = row[e].error
          /\ FailedRow(row[e], result[w]).owner = row[e].owner
          /\ FailedRow(FailedRow(row[e], result[w]), result[w]) = FailedRow(row[e], result[w])
      BY <2>1, FailedColumns
    <3> QED  BY <3>1, <3>2
  <2>3. SettledOK(e)' /\ BlankOK(e)'
    BY <1>9, <1>10, <2>1, <2>2
  <2>4. ProgressOK(w)'
    BY <1>13, <2>1, <2>2 DEF StageError, ProgressOK, Owns, Terminal, ExecutingSteps,
       FedBackSteps, ChainSteps, LaunchedSteps, ClaimedSteps
  <2> QED  BY <2>3, <2>4
<1>14. CASE RecordVerdict(w)
  <2>1. result[w] \in Decisions /\ pc[w] \in ExecutingSteps
    BY <1>3, <1>14 DEF RecordVerdict, LocalsOK, ExecutingSteps, LaunchedSteps, ClaimedSteps
  <2>2. row'[e] = [row[e] EXCEPT !.verdict = result[w]]
    BY <1>14 DEF RecordVerdict
  <2>3. /\ row'[e].verdict = result[w] /\ row'[e].error = None
        /\ row'[e].owner = hyp[w] /\ hyp[w] \in hypotheses /\ ChainComplete(e)'
        /\ file'[e].verdict = result[w]
    BY <1>14, <2>1, <2>2 DEF RecordVerdict, Row, ProgressOK, Owns, ExecutingSteps, Terminal,
       ChainComplete, ChainSteps
  <2>4. feedback' = feedback /\ \A h \in Hypotheses :
            feedback[e][h] = IF h = hyp[w] THEN result[w] ELSE None
    BY <1>14 DEF RecordVerdict, ProgressOK, FedBackSteps
  <2>5. Terminal(e)' /\ Recorded(e)' = result[w] /\ launches' = launches /\ launches[e] > 0
    BY <1>10, <1>14, <2>1, <2>3 DEF Terminal, Recorded, RecordVerdict
  <2>6. SettledOK(e)' /\ BlankOK(e)'
    BY <1>14, <2>3, <2>4, <2>5 DEF SettledOK, BlankOK, RecordVerdict
  <2>7. ProgressOK(w)'
    BY <1>14, <2>5 DEF RecordVerdict, ProgressOK, ExecutingSteps, FedBackSteps, ChainSteps,
       LaunchedSteps, ClaimedSteps
  <2> QED  BY <2>6, <2>7
<1>15. CASE RecordError(w)
  <2>1. result[w] \in FailedStages /\ pc[w] \in ExecutingSteps
    BY <1>3, <1>15 DEF RecordError, LocalsOK, ExecutingSteps, LaunchedSteps, ClaimedSteps
  <2>2. row'[e] = [row[e] EXCEPT !.error = result[w]] /\ row[e] = FailedRow(row[e], result[w])
    BY <1>15 DEF RecordError, ProgressOK
  <2>3. /\ row'[e].error = result[w] /\ row'[e].verdict = None
        /\ row'[e].owner = hyp[w] /\ hyp[w] \in hypotheses
        /\ file'[e].error = result[w] /\ row'[e] = FailedRow(row'[e], result[w])
    <3>1. row'[e] = FailedRow(row'[e], result[w])
      BY <2>1, <2>2, FailedColumns
    <3> QED  BY <1>15, <2>1, <2>2, <3>1 DEF RecordError, Row, ProgressOK, Owns, ExecutingSteps,
             Terminal
  <2>4. feedback' = feedback /\ \A h \in Hypotheses :
            feedback[e][h] = IF h = hyp[w] THEN result[w] ELSE None
    BY <1>15 DEF RecordError, ProgressOK, FedBackSteps
  <2>5. Terminal(e)' /\ Recorded(e)' = result[w] /\ launches' = launches /\ launches[e] > 0
    BY <1>10, <1>15, <2>1, <2>3 DEF Terminal, Recorded, RecordError
  <2>6. SettledOK(e)' /\ BlankOK(e)'
    BY <1>15, <2>3, <2>4, <2>5 DEF SettledOK, BlankOK, RecordError
  <2>7. ProgressOK(w)'
    BY <1>15, <2>5 DEF RecordError, ProgressOK, ExecutingSteps, FedBackSteps, ChainSteps,
       LaunchedSteps, ClaimedSteps
  <2> QED  BY <2>6, <2>7
<1> QED  BY <1>4, <1>5, <1>6, <1>7, <1>8, <1>11, <1>12, <1>13, <1>14, <1>15 DEF Proceed

\* Terminal evidence is final.
LEMMA TerminalStays ==
    ASSUME LoopInv, NEW w \in Workers, Proceed(w), NEW e \in Experiments, Terminal(e)
    PROVE  /\ Terminal(e)' /\ Recorded(e)' = Recorded(e)
           /\ row'[e].owner = row[e].owner /\ launches'[e] = launches[e]
<1> USE DEF At, Goto, localVars, ledgerVars, fileVars, Terminal, Recorded
<1>0. row[e] \in Row /\ DOMAIN row = Experiments /\ row[e].owner # None
  BY LoopAssumption DEF LoopInv, TypeInv, TypeOK, EvidenceInv, SettledOK
<1>1. CASE e # exp[w]
  BY <1>1, ProceedFrame DEF LoopInv
<1>2. CASE e = exp[w]
  <2>1. pc[w] \notin ExecutingSteps
    BY <1>2 DEF LoopInv, EvidenceInv, ProgressOK
  <2>2. \/ Lookup(w) \/ RecordHypothesis(w) \/ RecordExperiment(w)
        \/ RefuseExisting(w) \/ ReuseExisting(w) \/ ConfirmReuse(w) \/ Return(w)
    BY <1>2, <2>1 DEF ExecutingSteps, LaunchedSteps, ClaimedSteps, Proceed, Launch,
       BuildCandidate, StageCandidate, CheckResearch, ReadInputs, Evaluate,
       PublishVerdict, PublishFeedback, StageNautilus, StageScreen, RecordVerdict,
       PublishError, PublishErrorFeedback, StageError, RecordError
  <2>3. CASE RecordExperiment(w)
    <3>1. row'[e] = [row[e] EXCEPT !.owner = row[e].owner] /\ launches' = launches
      BY <1>0, <1>2, <2>3 DEF RecordExperiment
    <3>2. row'[e] = row[e]
      BY <1>0, <3>1 DEF Row
    <3> QED  BY <3>1, <3>2
  <2>4. CASE row' = row /\ launches' = launches
    BY <2>4
  <2> QED  BY <2>2, <2>3, <2>4 DEF Lookup, RecordHypothesis, RefuseExisting, ReuseExisting,
           ConfirmReuse, Return
<1> QED  BY <1>1, <1>2

\* An answer is given from terminal evidence only.
LEMMA AnswersKept ==
    ASSUME LoopInv, NEW w \in Workers, Proceed(w), NEW v \in Workers
    PROVE  AnswerOK(v)'
<1>1. CASE answer'[v] = answer[v]
  <2>1. CASE answer[v] = None
    BY <1>1, <2>1 DEF AnswerOK
  <2>2. CASE answer[v] # None
    <3>1. /\ answer[v].exp \in Experiments /\ Terminal(answer[v].exp)
          /\ answer[v].outcome = Recorded(answer[v].exp)
          /\ answer[v].exp.strategy = StrategyOf[answer[v].hyp]
      BY <2>2 DEF LoopInv, TypeInv, TypeOK, RunRecords, EvidenceInv, AnswerOK
    <3>2. PICK e \in Experiments : e = answer[v].exp
      BY <3>1
    <3>3. Terminal(e)' /\ Recorded(e)' = Recorded(e)
      BY <3>1, <3>2, TerminalStays
    <3> QED  BY <1>1, <3>1, <3>2, <3>3 DEF AnswerOK, Terminal, Recorded
  <2> QED  BY <2>1, <2>2
<1>2. CASE v = w /\ answer' = [answer EXCEPT ![w] = [exp |-> exp[w], hyp |-> hyp[w], outcome |-> result[w]]]
           /\ row' = row /\ pc[w] \in {"confirm", "return"}
  <2>1. answer'[w] = [exp |-> exp[w], hyp |-> hyp[w], outcome |-> result[w]]
    BY <1>2 DEF LoopInv, TypeInv, TypeOK
  <2>2. Terminal(exp[w]) /\ result[w] = Recorded(exp[w]) /\ exp[w].strategy = StrategyOf[hyp[w]]
    BY <1>2 DEF LoopInv, EvidenceInv, ProgressOK, TypeInv, LocalsOK, Reading
  <2> QED  BY <1>2, <2>1, <2>2 DEF AnswerOK, Terminal, Recorded
<1>3. v # w => answer'[v] = answer[v]
  BY EvidenceFrame DEF LoopInv
<1>4. \/ answer' = answer
      \/ /\ answer' = [answer EXCEPT ![w] = [exp |-> exp[w], hyp |-> hyp[w], outcome |-> result[w]]]
         /\ row' = row /\ pc[w] \in {"confirm", "return"}
  BY DEF Proceed, Lookup, RecordHypothesis, RecordExperiment, RefuseExisting,
     ReuseExisting, ConfirmReuse, Launch, BuildCandidate, StageCandidate, CheckResearch,
     ReadInputs, Evaluate, PublishVerdict, PublishFeedback, StageNautilus, StageScreen,
     RecordVerdict, Return, PublishError, PublishErrorFeedback, StageError, RecordError,
     Answer, At, ledgerVars
<1> QED  BY <1>1, <1>2, <1>3, <1>4

\* Steps on which no ledger row, file or launch changes, and no process goes on.
LEMMA QuietStep ==
    ASSUME EvidenceInv, UNCHANGED <<ledgerVars, fileVars, launches>>,
           \A w \in Workers :
              \/ /\ UNCHANGED <<pc[w], exp[w], hyp[w], fresh[w], result[w]>>
              \/ pc'[w] \in {"idle", "prepare", "claim", "lookup"},
           \A w \in Workers : answer'[w] \in {None, answer[w]}
    PROVE  EvidenceInv'
<1> USE DEF ledgerVars, fileVars
<1>1. ASSUME NEW e \in Experiments PROVE BlankOK(e)' /\ SettledOK(e)'
  BY DEF EvidenceInv, BlankOK, SettledOK, Unanswered, Terminal, Recorded, ChainComplete
<1>2. ASSUME NEW w \in Workers PROVE ProgressOK(w)'
  <2>1. CASE UNCHANGED <<pc[w], exp[w], hyp[w], fresh[w], result[w]>>
    BY <2>1 DEF EvidenceInv, ProgressOK, Owns, Unanswered, Terminal, Recorded
  <2>2. CASE pc'[w] \in {"idle", "prepare", "claim", "lookup"}
    BY <2>2 DEF ProgressOK, ExecutingSteps, LaunchedSteps, ClaimedSteps, FedBackSteps, ChainSteps
  <2> QED  BY <2>1, <2>2
<1>3. ASSUME NEW w \in Workers PROVE AnswerOK(w)'
  BY DEF EvidenceInv, AnswerOK, Terminal, Recorded
<1> QED  BY <1>1, <1>2, <1>3 DEF EvidenceInv

LEMMA LoopInvInit == Init => LoopInv
<1> SUFFICES ASSUME Init PROVE EvidenceInv
  BY TypeInvInit, ClaimInvInit DEF LoopInv
<1> QED  BY EarlySteps DEF Init, EvidenceInv, BlankOK, SettledOK, ProgressOK, AnswerOK, Terminal,
         Unanswered, NoRow, NoRun

LEMMA LoopInvStep == LoopInv /\ [Next]_vars => LoopInv'
<1> SUFFICES ASSUME LoopInv, [Next]_vars PROVE EvidenceInv'
  BY TypeInvStep, ClaimInvStep DEF LoopInv
<1>0. EvidenceInv /\ TypeOK
  BY DEF LoopInv, TypeInv
<1> USE DEF At, Goto, envVars, localVars, TypeOK
<1>1. ASSUME NEW w \in Workers, NEW h \in Hypotheses, Start(w, h) PROVE EvidenceInv'
  BY <1>0, <1>1, QuietStep DEF Start
<1>2. ASSUME NEW w \in Workers, Prepare(w) PROVE EvidenceInv'
  BY <1>0, <1>2, QuietStep DEF Prepare
<1>3. ASSUME NEW w \in Workers, Claim(w) PROVE EvidenceInv'
  BY <1>0, <1>3, QuietStep DEF Claim, Leave
<1>4. ASSUME NEW w \in Workers, Raise(w) PROVE EvidenceInv'
  BY <1>0, <1>4, QuietStep DEF Raise, Leave
<1>5. ASSUME NEW w \in Workers, Proceed(w) PROVE EvidenceInv'
  <2>1. /\ \A v \in Workers : ProgressOK(v)'
        /\ \A e \in Experiments : BlankOK(e)' /\ SettledOK(e)'
    BY <1>5, OthersKept, OwnKept
  <2>2. \A v \in Workers : AnswerOK(v)'
    BY <1>5, AnswersKept
  <2> QED  BY <2>1, <2>2 DEF EvidenceInv
<1>6. CASE Environment \/ UNCHANGED vars
  <2>1. UNCHANGED <<pc, localVars, ledgerVars, fileVars, launches, answer>>
    BY <1>6 DEF Environment, SyncBegin, SyncWrite, SyncEnd, EditPolicy, vars
  <2> QED  BY <1>0, <2>1, QuietStep
<1> QED  BY <1>1, <1>2, <1>3, <1>4, <1>5, <1>6 DEF Next

-----------------------------------------------------------------------------
(* What follows for the evidence, the commits and the answers                *)

LEMMA LoopInvariant == Spec => []LoopInv
  BY LoopInvInit, LoopInvStep, PTL DEF Spec

\* A terminal experiment has a verdict or an error, never both, with every stage,
\* artifact and feedback it rests on, wherever processes were interrupted.
THEOREM EvidenceComplete == Spec => []TerminalEvidenceComplete
<1>1. LoopInv => TerminalEvidenceComplete
  BY DEF LoopInv, EvidenceInv, SettledOK, TerminalEvidenceComplete
<1> QED  BY <1>1, LoopInvariant, PTL

\* _existing_feedback never meets a cached feedback that contradicts the ledger.
THEOREM FeedbackAgrees == Spec => []CachedFeedbackAgrees
<1>1. LoopInv => CachedFeedbackAgrees
  BY DEF LoopInv, EvidenceInv, SettledOK, CachedFeedbackAgrees
<1> QED  BY <1>1, LoopInvariant, PTL

\* record_verdict, the unique keys and the triggers never refuse the last commit of a
\* run: what they require was established step by step, and nobody else interferes.
THEOREM CommitNeverRefused == Spec => []CommitAccepted
<1>1. ASSUME LoopInv, NEW w \in Workers
      PROVE  /\ At(w, "record_verdict") => VerdictAccepted(w)
             /\ At(w, "record_error") => ErrorAccepted(w)
  <2>1. ProgressOK(w)
    BY <1>1 DEF LoopInv, EvidenceInv
  <2>2. pc[w] \in {"record_verdict", "record_error"} => Owns(w) /\ ~Terminal(exp[w])
    BY <2>1 DEF ProgressOK, ExecutingSteps, LaunchedSteps, ClaimedSteps
  <2>3. CASE At(w, "record_verdict")
    <3>1. ChainComplete(exp[w])
      BY <2>1, <2>3 DEF At, ProgressOK, ChainSteps, ChainComplete
    <3> QED  BY <2>2, <2>3, <3>1 DEF At, VerdictAccepted, VerdictAdmissible, Owns, Terminal
  <2>4. CASE At(w, "record_error")
    BY <2>2, <2>4 DEF At, ErrorAccepted, Terminal
  <2> QED  BY <2>3, <2>4
<1>2. LoopInv => CommitAccepted
  BY <1>1 DEF CommitAccepted
<1> QED  BY <1>2, LoopInvariant, PTL

\* Every feedback run_strategy_loop ever returned is what the ledger holds.
THEOREM AnswersRecorded == Spec => []AnswerIsRecorded
<1>1. LoopInv => AnswerIsRecorded
  BY DEF LoopInv, EvidenceInv, AnswerOK, AnswerIsRecorded
<1> QED  BY <1>1, LoopInvariant, PTL

-----------------------------------------------------------------------------
(* The loop implements ExperimentRegistry                                    *)

\* Rows and launches determine what the registry sees.
LEMMA SameRegistry ==
    ASSUME UNCHANGED <<launches, answer>>,
           \A e \in Experiments : /\ row'[e].owner = row[e].owner
                                  /\ row'[e].verdict = row[e].verdict
                                  /\ row'[e].error = row[e].error
    PROVE  UNCHANGED <<Registry!registryVars>>
<1>1. \A e \in Experiments : /\ Terminal(e)' = Terminal(e) /\ Phase(e)' = Phase(e)
                             /\ Recorded(e)' = Recorded(e)
  BY DEF Terminal, Phase, Recorded
<1> QED  BY <1>1 DEF Registry!registryVars

\* A step that changes what the registry sees of one experiment.
LEMMA OneRegistered ==
    ASSUME NEW e \in Experiments,
           \A x \in Experiments \ {e} : row'[x] = row[x] /\ launches'[x] = launches[x]
    PROVE  \A x \in Experiments \ {e} : /\ Terminal(x)' = Terminal(x) /\ Phase(x)' = Phase(x)
                                        /\ Recorded(x)' = Recorded(x)
                                        /\ row'[x].owner = row[x].owner
  BY DEF Terminal, Phase, Recorded

LEMMA RegistryProceed ==
    ASSUME LoopInv, NEW w \in Workers, Proceed(w)
    PROVE  Registry!Next \/ UNCHANGED Registry!registryVars
<1> SUFFICES ASSUME NEW e, e = exp[w] PROVE Registry!Next \/ UNCHANGED Registry!registryVars
  OBVIOUS
<1> USE DEF At, Goto, localVars, ledgerVars, fileVars
<1>0. /\ Claimed(w) /\ e \in Experiments /\ hyp[w] \in Hypotheses /\ hyp[w] # None
      /\ row[e] \in Row /\ launches[e] \in Nat
      /\ DOMAIN row = Experiments /\ DOMAIN launches = Experiments
      /\ \A x \in Experiments \ {e} : row'[x] = row[x] /\ launches'[x] = launches[x]
      /\ None \notin Decisions /\ None \notin FailedStages
  BY ProceedFrame, ClaimedType, LoopAssumption DEF LoopInv, TypeInv, TypeOK, Outcomes
<1>1. /\ ProgressOK(w) /\ BlankOK(e) /\ FreshOK(w) /\ OwnedOK(w) /\ LaunchOK(e) /\ LocalsOK
  BY <1>0 DEF LoopInv, EvidenceInv, ClaimInv, TypeInv
<1>2. \A x \in Experiments \ {e} : /\ Terminal(x)' = Terminal(x) /\ Phase(x)' = Phase(x)
                                   /\ Recorded(x)' = Recorded(x)
                                   /\ row'[x].owner = row[x].owner
  BY <1>0, OneRegistered
<1>3. CASE RecordExperiment(w)
  <2>1. /\ row'[e].owner = IF row[e].owner = None THEN hyp[w] ELSE row[e].owner
        /\ row'[e].verdict = row[e].verdict /\ row'[e].error = row[e].error
        /\ UNCHANGED <<launches, answer>>
    BY <1>0, <1>3 DEF RecordExperiment, Row
  <2>2. CASE row[e].owner # None
    <3>1. \A x \in Experiments : /\ row'[x].owner = row[x].owner
                                 /\ row'[x].verdict = row[x].verdict
                                 /\ row'[x].error = row[x].error
      BY <1>0, <2>1, <2>2
    <3> QED  BY <2>1, <3>1, SameRegistry
  <2>3. CASE row[e].owner = None
    <3>1. /\ ~Terminal(e) /\ ~Terminal(e)' /\ launches[e] = 0 /\ launches'[e] = 0
      BY <1>1, <2>1, <2>3 DEF LaunchOK, BlankOK, Terminal
    <3>2. Phase(e) = "absent" /\ Phase(e)' = "registered"
      BY <1>0, <2>1, <2>3, <3>1 DEF Phase
    <3>3. PICK h \in Hypotheses : h = hyp[w]
      BY <1>0
    <3>4. Registry!Register(e, h)
      BY <1>0, <1>2, <2>1, <2>3, <3>1, <3>2, <3>3 DEF Registry!Register
    <3> QED  BY <1>0, <3>4 DEF Registry!Next
  <2> QED  BY <2>2, <2>3
<1>4. CASE Launch(w)
  <2>1. /\ fresh[w] /\ launches[e] = 0 /\ launches'[e] = 1 /\ row[e].owner # None /\ ~Terminal(e)
        /\ UNCHANGED <<row, answer>>
    BY <1>0, <1>1, <1>4 DEF Launch, ExistingRefused, FreshOK, OwnedOK
  <2>2. Phase(e) = "registered" /\ Phase(e)' = "running" /\ ~Terminal(e)'
    BY <2>1 DEF Phase, Terminal
  <2>3. Registry!Launch(e)
    BY <1>0, <1>2, <2>1, <2>2 DEF Registry!Launch
  <2> QED  BY <1>0, <2>3 DEF Registry!Next
<1>5. CASE RecordVerdict(w) \/ RecordError(w)
  <2>1. /\ ~Terminal(e) /\ launches[e] > 0 /\ result[w] \in Outcomes
    BY <1>1, <1>5 DEF RecordVerdict, RecordError, ProgressOK, LocalsOK, ExecutingSteps,
       LaunchedSteps, ClaimedSteps, Outcomes
  <2>2. /\ Terminal(e)' /\ Recorded(e)' = result[w] /\ row'[e].owner = row[e].owner
        /\ UNCHANGED <<launches, answer>>
    <3>1. CASE RecordVerdict(w)
      <4>1. row'[e] = [row[e] EXCEPT !.verdict = result[w]] /\ result[w] \in Decisions
        BY <1>0, <1>1, <3>1 DEF RecordVerdict, LocalsOK
      <4> QED  BY <1>0, <3>1, <4>1 DEF RecordVerdict, Row, Terminal, Recorded
    <3>2. CASE RecordError(w)
      <4>1. row'[e] = [row[e] EXCEPT !.error = result[w]] /\ result[w] \in FailedStages
        BY <1>0, <1>1, <3>2 DEF RecordError, LocalsOK
      <4> QED  BY <1>0, <2>1, <3>2, <4>1 DEF RecordError, Row, Terminal, Recorded
    <3> QED  BY <1>5, <3>1, <3>2
  <2>3. Phase(e) = "running" /\ Phase(e)' = "settled"
    BY <2>1, <2>2 DEF Phase
  <2>4. Registry!Settle(e, result[w])
    BY <1>0, <1>2, <2>1, <2>2, <2>3 DEF Registry!Settle
  <2> QED  BY <1>0, <2>1, <2>4 DEF Registry!Next
<1>6. CASE ConfirmReuse(w) \/ Return(w)
  <2>1. Terminal(e) /\ result[w] = Recorded(e) /\ Phase(e) = "settled"
    BY <1>1, <1>6 DEF ConfirmReuse, Return, ProgressOK, Phase
  <2>2. \A x \in Experiments : /\ row'[x].owner = row[x].owner
                               /\ row'[x].verdict = row[x].verdict
                               /\ row'[x].error = row[x].error
    BY <1>6 DEF ConfirmReuse, Return
  <2>3. launches' = launches
    BY <1>6 DEF ConfirmReuse, Return
  <2>4. CASE answer' = answer
    BY <2>2, <2>3, <2>4, SameRegistry
  <2>5. CASE Answer(w, result[w])
    <3>1. \A x \in Experiments : /\ Terminal(x)' = Terminal(x) /\ Phase(x)' = Phase(x)
                                 /\ Recorded(x)' = Recorded(x)
      BY <2>2, <2>3 DEF Terminal, Phase, Recorded
    <3>2. Registry!Reply(w, e, hyp[w])
      BY <1>0, <2>1, <2>2, <2>5, <3>1 DEF Registry!Reply, Answer
    <3> QED  BY <1>0, <3>2 DEF Registry!Next
  <2> QED  BY <1>6, <2>4, <2>5 DEF ConfirmReuse, Return
<1>7. CASE \/ Lookup(w) \/ RecordHypothesis(w) \/ RefuseExisting(w) \/ ReuseExisting(w)
           \/ BuildCandidate(w) \/ CheckResearch(w) \/ ReadInputs(w) \/ Evaluate(w)
           \/ PublishVerdict(w) \/ PublishFeedback(w) \/ PublishError(w)
           \/ PublishErrorFeedback(w)
  BY <1>7, SameRegistry DEF Lookup, RecordHypothesis, RefuseExisting, ReuseExisting,
     BuildCandidate, CheckResearch, ReadInputs, Evaluate, PublishVerdict, PublishFeedback,
     PublishError, PublishErrorFeedback
<1>8. CASE StageCandidate(w) \/ StageNautilus(w) \/ StageScreen(w) \/ StageError(w)
  <2>1. /\ row'[e].owner = row[e].owner /\ row'[e].verdict = row[e].verdict
        /\ row'[e].error = row[e].error /\ UNCHANGED <<launches, answer>>
    <3>1. CASE StageError(w)
      <4>1. result[w] \in FailedStages /\ row'[e] = FailedRow(row[e], result[w])
        BY <1>0, <1>1, <3>1 DEF StageError, LocalsOK
      <4>2. /\ FailedRow(row[e], result[w]).verdict = row[e].verdict
            /\ FailedRow(row[e], result[w]).error = row[e].error
            /\ FailedRow(row[e], result[w]).owner = row[e].owner
        BY <1>0, <4>1, FailedColumns
      <4> QED  BY <3>1, <4>1, <4>2 DEF StageError
    <3>2. CASE StageCandidate(w) \/ StageNautilus(w) \/ StageScreen(w)
      BY <1>0, <3>2 DEF StageCandidate, StageNautilus, StageScreen, Row
    <3> QED  BY <1>8, <3>1, <3>2
  <2> QED  BY <1>0, <2>1, SameRegistry
<1> QED  BY <1>3, <1>4, <1>5, <1>6, <1>7, <1>8 DEF Proceed

\* The strategy loop, with its stages, files and locks forgotten, is a write-once registry
\* of experiments: registered once, launched at most once, settled at most once, and every
\* reply is the outcome it was settled with.
THEOREM ImplementsRegistry == Spec => RegistrySpec
<1>1. Init => Registry!Init
  BY DEF Init, Registry!Init, Phase, Terminal, NoRow, NoRun
<1>2. LoopInv /\ [Next]_vars => [Registry!Next]_Registry!registryVars
  <2> SUFFICES ASSUME LoopInv, [Next]_vars
               PROVE  Registry!Next \/ UNCHANGED Registry!registryVars
    OBVIOUS
  <2> USE DEF envVars, localVars, ledgerVars, fileVars
  <2>1. ASSUME NEW w \in Workers, NEW h \in Hypotheses, Start(w, h)
        PROVE  Registry!Next
    <3>1. \A x \in Experiments : /\ Terminal(x)' = Terminal(x) /\ Phase(x)' = Phase(x)
                                 /\ Recorded(x)' = Recorded(x) /\ row'[x] = row[x]
      BY <2>1 DEF Start, Terminal, Phase, Recorded
    <3>2. Registry!Forget(w)
      BY <2>1, <3>1 DEF Start, Registry!Forget
    <3> QED  BY <3>2 DEF Registry!Next
  <2>2. ASSUME NEW w \in Workers, Prepare(w) \/ Claim(w) \/ Raise(w)
        PROVE  UNCHANGED Registry!registryVars
    BY <2>2, SameRegistry DEF Prepare, Claim, Raise
  <2>3. CASE Environment \/ UNCHANGED vars
    BY <2>3, SameRegistry DEF Environment, SyncBegin, SyncWrite, SyncEnd, EditPolicy, vars
  <2> QED  BY <2>1, <2>2, <2>3, RegistryProceed DEF Next
<1> QED  BY <1>1, <1>2, LoopInvariant, PTL DEF Spec, Registry!Spec, RegistrySpec

-----------------------------------------------------------------------------
(* What the engine read                                                      *)

\* The shared data lock keeps the sync out from the identity to the verdict; policies,
\* which nothing locks, at least only move forward when no version returns.
InputsInv ==
    /\ \A w \in Workers :
          /\ Reading(w) => sync = "idle" /\ exp[w].data = data
          /\ pc[w] \in {"evaluate", "publish_verdict"} => seen[w][1] = data
    /\ \A e \in Experiments : file[e].verdict # None => file[e].readData = e.data

PolicyInv ==
    /\ \A w \in Workers :
          /\ Reading(w) => exp[w].policy <= policy
          /\ pc[w] = "evaluate" => exp[w].policy <= seen[w][2] /\ seen[w][2] <= policy
          /\ pc[w] = "publish_verdict" => seen[w][2] = exp[w].policy
    /\ \A e \in Experiments : file[e].verdict # None => file[e].readPolicy = e.policy

\* Only a publication changes what a verdict says it was evaluated on.
LEMMA VerdictFileChanges ==
    ASSUME TypeInv, [Next]_vars, NEW e \in Experiments
    PROVE  \/ /\ file'[e].verdict = file[e].verdict
              /\ file'[e].readData = file[e].readData
              /\ file'[e].readPolicy = file[e].readPolicy
           \/ \E w \in Workers : /\ PublishVerdict(w) /\ exp[w] = e
                                 /\ file'[e].readData = seen[w][1]
                                 /\ file'[e].readPolicy = seen[w][2]
<1> USE DEF TypeInv, TypeOK
<1>1. CASE file' = file
  BY <1>1
<1>2. ASSUME NEW w \in Workers, PublishVerdict(w)
      PROVE  \/ file'[e] = file[e]
             \/ /\ exp[w] = e /\ file'[e].readData = seen[w][1]
                /\ file'[e].readPolicy = seen[w][2]
  <2>1. file[e] \in File
    OBVIOUS
  <2> QED  BY <1>2, <2>1 DEF PublishVerdict, File
<1>3. ASSUME NEW w \in Workers, BuildCandidate(w) \/ PublishError(w)
      PROVE  /\ file'[e].verdict = file[e].verdict
             /\ file'[e].readData = file[e].readData
             /\ file'[e].readPolicy = file[e].readPolicy
  <2>1. file[e] \in File
    OBVIOUS
  <2>2. CASE file' = file
    BY <2>2
  <2>3. CASE file' = [file EXCEPT ![exp[w]].candidate = TRUE]
    BY <2>1, <2>3 DEF File
  <2>4. CASE file' = [file EXCEPT ![exp[w]].error = result[w]]
    BY <2>1, <2>4 DEF File
  <2> QED  BY <1>3, <2>2, <2>3, <2>4 DEF BuildCandidate, PublishError
<1>4. \/ file' = file
      \/ \E w \in Workers : PublishVerdict(w) \/ BuildCandidate(w) \/ PublishError(w)
  BY DEF Next, Start, Prepare, Claim, Raise, Proceed, Lookup, RecordHypothesis, RecordExperiment,
     RefuseExisting, ReuseExisting, ConfirmReuse, Launch, StageCandidate, CheckResearch,
     ReadInputs, Evaluate, PublishFeedback, StageNautilus, StageScreen, RecordVerdict, Return,
     PublishErrorFeedback, StageError, RecordError, Environment, SyncBegin, SyncWrite, SyncEnd,
     EditPolicy, fileVars, vars
<1> QED  BY <1>1, <1>2, <1>3, <1>4

\* What a step does to the inputs and to what the processes hold of them.
LEMMA InputSteps ==
    ASSUME TypeInv, [Next]_vars, NEW w \in Workers
    PROVE  \/ pc'[w] \in {"idle", "prepare"}
           \/ /\ pc[w] = "prepare" /\ pc'[w] = "claim" /\ sync = "idle"
              /\ exp'[w] = Identity(hyp[w]) /\ UNCHANGED <<data, policy, sync>>
           \/ /\ pc[w] = "read" /\ pc'[w] = "evaluate" /\ seen'[w] = <<data, policy>>
              /\ UNCHANGED <<exp[w], data, policy, sync>>
           \/ /\ pc[w] = "evaluate" /\ pc'[w] = "publish_verdict" /\ (IsV2(w) => SnapshotHolds(w))
              /\ UNCHANGED <<exp[w], seen[w], data, policy, sync>>
           \/ /\ Reading(w) /\ pc'[w] \notin {"evaluate", "publish_verdict"}
              /\ UNCHANGED <<exp[w], seen[w], data, policy, sync>>
           \/ /\ UNCHANGED <<pc[w], exp[w], seen[w]>>
              /\ UNCHANGED <<data, policy, sync>> \/ Environment
<1> USE DEF TypeInv, TypeOK, At, Goto, envVars, localVars
<1>1. ASSUME NEW v \in Workers, v # w,
             \/ \E h \in Hypotheses : Start(v, h)
             \/ Prepare(v) \/ Claim(v) \/ Proceed(v) \/ Raise(v)
      PROVE  UNCHANGED <<pc[w], exp[w], seen[w], data, policy, sync>>
  BY <1>1 DEF Start, Prepare, Claim, Raise, Leave, Fail, Proceed, Lookup, RecordHypothesis,
     RecordExperiment, RefuseExisting, ReuseExisting, ConfirmReuse, Launch, BuildCandidate,
     StageCandidate, CheckResearch, ReadInputs, Evaluate, PublishVerdict, PublishFeedback,
     StageNautilus, StageScreen, RecordVerdict, Return, PublishError, PublishErrorFeedback,
     StageError, RecordError
<1>2. ASSUME NEW h \in Hypotheses, Start(w, h) PROVE pc'[w] = "prepare"
  BY <1>2 DEF Start
<1>3. ASSUME Leave(w) PROVE pc'[w] = "idle"
  BY <1>3 DEF Leave
<1>4. ASSUME Prepare(w)
      PROVE  /\ pc[w] = "prepare" /\ pc'[w] = "claim" /\ sync = "idle"
             /\ exp'[w] = Identity(hyp[w]) /\ UNCHANGED <<data, policy, sync>>
  BY <1>4 DEF Prepare
<1>5. ASSUME Claim(w)
      PROVE  \/ pc'[w] = "idle"
             \/ /\ Reading(w) /\ pc'[w] = "lookup"
                /\ UNCHANGED <<exp[w], seen[w], data, policy, sync>>
  BY <1>3, <1>5 DEF Claim, Reading
<1>6. ASSUME ReadInputs(w)
      PROVE  /\ pc[w] = "read" /\ pc'[w] = "evaluate" /\ seen'[w] = <<data, policy>>
             /\ UNCHANGED <<exp[w], data, policy, sync>>
  BY <1>6 DEF ReadInputs
<1>7. ASSUME Evaluate(w)
      PROVE  /\ pc[w] = "evaluate" /\ UNCHANGED <<exp[w], seen[w], data, policy, sync>>
             /\ \/ pc'[w] = "publish_verdict" /\ (IsV2(w) => SnapshotHolds(w))
                \/ pc'[w] = "publish_error"
  BY <1>7 DEF Evaluate, Fail
<1>8. ASSUME Proceed(w), ~ReadInputs(w), ~Evaluate(w)
      PROVE  \/ pc'[w] = "idle"
             \/ /\ Reading(w) /\ pc'[w] \notin {"evaluate", "publish_verdict"}
                /\ UNCHANGED <<exp[w], seen[w], data, policy, sync>>
  BY <1>3, <1>8 DEF Reading, Fail, Proceed, Lookup, RecordHypothesis, RecordExperiment,
     RefuseExisting, ReuseExisting, ConfirmReuse, Launch, BuildCandidate, StageCandidate,
     CheckResearch, PublishVerdict, PublishFeedback, StageNautilus, StageScreen, RecordVerdict,
     Return, PublishError, PublishErrorFeedback, StageError, RecordError
<1>9. ASSUME Environment \/ UNCHANGED vars
      PROVE  /\ UNCHANGED <<pc[w], exp[w], seen[w]>>
             /\ UNCHANGED <<data, policy, sync>> \/ Environment
  BY <1>9 DEF Environment, SyncBegin, SyncWrite, SyncEnd, EditPolicy, vars
<1> QED  BY <1>1, <1>2, <1>3, <1>4, <1>5, <1>6, <1>7, <1>8, <1>9 DEF Next, Raise, Reading

LEMMA InputsInvStep == TypeInv /\ InputsInv /\ [Next]_vars => InputsInv'
<1> SUFFICES ASSUME TypeInv, InputsInv, [Next]_vars PROVE InputsInv'
  OBVIOUS
<1>1. ASSUME NEW w \in Workers
      PROVE  /\ Reading(w)' => sync' = "idle" /\ (exp[w].data = data)'
             /\ pc'[w] \in {"evaluate", "publish_verdict"} => seen'[w][1] = data'
  <2>1. CASE pc'[w] \in {"idle", "prepare"}
    BY <2>1 DEF Reading
  <2>2. CASE /\ pc[w] = "prepare" /\ pc'[w] = "claim" /\ sync = "idle"
             /\ exp'[w] = Identity(hyp[w]) /\ UNCHANGED <<data, policy, sync>>
    BY <2>2 DEF Identity
  <2>3. CASE /\ Reading(w) /\ UNCHANGED <<exp[w], data, sync>>
             /\ \/ pc'[w] = "evaluate" /\ seen'[w] = <<data, policy>>
                \/ pc[w] = "evaluate" /\ UNCHANGED seen[w]
                \/ pc'[w] \notin {"evaluate", "publish_verdict"}
    BY <2>3 DEF InputsInv
  <2>4. CASE UNCHANGED <<pc[w], exp[w], seen[w]>> /\ UNCHANGED <<data, policy, sync>>
    BY <2>4 DEF InputsInv, Reading
  <2>5. CASE UNCHANGED <<pc[w], exp[w], seen[w]>> /\ Environment
    BY <2>5 DEF InputsInv, Reading, Environment, SyncBegin, SyncWrite, SyncEnd, EditPolicy,
       SnapshotFree
  <2> QED  BY <2>1, <2>2, <2>3, <2>4, <2>5, InputSteps DEF Reading
<1>2. ASSUME NEW e \in Experiments, file'[e].verdict # None PROVE file'[e].readData = e.data
  <2>1. CASE file'[e].verdict = file[e].verdict /\ file'[e].readData = file[e].readData
    BY <1>2, <2>1 DEF InputsInv
  <2>2. ASSUME NEW w \in Workers, PublishVerdict(w), exp[w] = e, file'[e].readData = seen[w][1]
        PROVE  file'[e].readData = e.data
    BY <2>2 DEF InputsInv, PublishVerdict, At, Reading
  <2> QED  BY <2>1, <2>2, VerdictFileChanges
<1> QED  BY <1>1, <1>2 DEF InputsInv

\* Without a version that returns, what was read before a check that holds and after the
\* identity was derived is what the identity says.
LEMMA PolicyInvStep ==
    ASSUME PolicyReturns = FALSE, Legacy = {}
    PROVE  TypeInv /\ PolicyInv /\ [Next]_vars => PolicyInv'
<1> SUFFICES ASSUME TypeInv, PolicyInv, [Next]_vars PROVE PolicyInv'
  OBVIOUS
<1>0. policy \in Nat /\ policy' \in Nat /\ policy <= policy' /\ Policies \subseteq Nat
  <2>1. policy \in 0..MaxPolicy /\ policy' \in 0..MaxPolicy
    BY TypeInvStep DEF TypeInv, TypeOK, Policies
  <2>2. policy' = policy \/ \E p \in Policies : EditPolicy(p)
    BY DEF Next, Start, Prepare, Claim, Raise, Proceed, Lookup, RecordHypothesis,
       RecordExperiment, RefuseExisting, ReuseExisting, ConfirmReuse, Launch, BuildCandidate,
       StageCandidate, CheckResearch, ReadInputs, Evaluate, PublishVerdict, PublishFeedback,
       StageNautilus, StageScreen, RecordVerdict, Return, PublishError, PublishErrorFeedback,
       StageError, RecordError, Environment, SyncBegin, SyncWrite, SyncEnd, envVars, vars
  <2> QED  BY <2>1, <2>2, LoopAssumption DEF EditPolicy, Policies
<1>1. ASSUME NEW w \in Workers
      PROVE  /\ Reading(w)' => exp'[w].policy <= policy'
             /\ pc'[w] = "evaluate" => exp'[w].policy <= seen'[w][2] /\ seen'[w][2] <= policy'
             /\ pc'[w] = "publish_verdict" => seen'[w][2] = exp'[w].policy
  <2>0. /\ Reading(w) => exp[w].policy \in Nat
        /\ pc[w] = "evaluate" => seen[w][2] \in Nat
        /\ pc[w] # "idle" => IsV2(w)
    BY <1>0, LoopAssumption DEF TypeInv, TypeOK, LocalsOK, Reading, Experiments, IsV2
  <2>1. CASE pc'[w] \in {"idle", "prepare"}
    BY <2>1 DEF Reading
  <2>2. CASE /\ pc[w] = "prepare" /\ pc'[w] = "claim" /\ sync = "idle"
             /\ exp'[w] = Identity(hyp[w]) /\ UNCHANGED <<data, policy, sync>>
    BY <1>0, <2>2 DEF Identity
  <2>3. CASE /\ pc[w] = "read" /\ pc'[w] = "evaluate" /\ seen'[w] = <<data, policy>>
             /\ UNCHANGED <<exp[w], data, policy, sync>>
    BY <1>0, <2>0, <2>3 DEF PolicyInv, Reading
  <2>4. CASE /\ pc[w] = "evaluate" /\ pc'[w] = "publish_verdict" /\ (IsV2(w) => SnapshotHolds(w))
             /\ UNCHANGED <<exp[w], seen[w], data, policy, sync>>
    <3>1. exp[w].policy = policy
      BY <2>0, <2>4 DEF SnapshotHolds, Identity
    <3> QED  BY <1>0, <2>0, <2>4, <3>1 DEF PolicyInv, Reading
  <2>5. CASE /\ Reading(w) /\ pc'[w] \notin {"evaluate", "publish_verdict"}
             /\ UNCHANGED <<exp[w], seen[w], data, policy, sync>>
    BY <2>5 DEF PolicyInv
  <2>6. CASE UNCHANGED <<pc[w], exp[w], seen[w]>>
    BY <1>0, <2>0, <2>6 DEF PolicyInv, Reading
  <2> QED  BY <2>1, <2>2, <2>3, <2>4, <2>5, <2>6, InputSteps
<1>2. ASSUME NEW e \in Experiments, file'[e].verdict # None PROVE file'[e].readPolicy = e.policy
  <2>1. CASE file'[e].verdict = file[e].verdict /\ file'[e].readPolicy = file[e].readPolicy
    BY <1>2, <2>1 DEF PolicyInv
  <2>2. ASSUME NEW w \in Workers, PublishVerdict(w), exp[w] = e, file'[e].readPolicy = seen[w][2]
        PROVE  file'[e].readPolicy = e.policy
    BY <2>2 DEF PolicyInv, PublishVerdict, At
  <2> QED  BY <2>1, <2>2, VerdictFileChanges
<1> QED  BY <1>1, <1>2 DEF PolicyInv

\* The shared data lock of run_strategy_loop outlives every read of the engine: a verdict
\* was evaluated on the data its experiment names.
THEOREM ReadsClaimedData == Spec => []VerdictOnClaimedData
<1>1. Init => TypeInv /\ InputsInv
  BY TypeInvInit DEF Init, InputsInv, Reading, NoFile
<1>2. TypeInv /\ InputsInv /\ [Next]_vars => (TypeInv /\ InputsInv)'
  BY TypeInvStep, InputsInvStep
<1>3. InputsInv => VerdictOnClaimedData
  BY DEF InputsInv, VerdictOnClaimedData
<1> QED  BY <1>1, <1>2, <1>3, PTL DEF Spec

\* Policies are under no lock; the rechecks around the engine are enough as long as every
\* experiment is V2 and no version comes back between two of them.
THEOREM ReadsClaimedPolicy ==
    ASSUME PolicyReturns = FALSE, Legacy = {}
    PROVE  Spec => []VerdictOnClaimedPolicy
<1>1. Init => LoopInv /\ PolicyInv
  BY LoopInvInit DEF Init, PolicyInv, Reading, NoFile
<1>2. LoopInv /\ PolicyInv /\ [Next]_vars => (LoopInv /\ PolicyInv)'
  BY LoopInvStep, PolicyInvStep DEF LoopInv
<1>3. LoopInv /\ PolicyInv => VerdictOnClaimedPolicy
  BY DEF LoopInv, EvidenceInv, SettledOK, Terminal, PolicyInv, VerdictOnClaimedPolicy
<1> QED  BY <1>1, <1>2, <1>3, PTL DEF Spec
===============================================================================
