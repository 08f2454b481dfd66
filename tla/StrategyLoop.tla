----------------------------- MODULE StrategyLoop -----------------------------
(***************************************************************************)
(* The strategy-loop controller of strategy_lab.py: run_strategy_loop,     *)
(* _run_strategy_loop_locked and the StrategyLedger operations they call,  *)
(* run by several processes over one SQLite ledger and one runs/ tree,     *)
(* against canonical data another process may be syncing.                  *)
(*                                                                         *)
(* One step is one effect another process can see: a lock taken, a file    *)
(* published (_atomic_publish), a transaction committed.  Between any two  *)
(* steps the process may be killed or leave by an exception (Raise); flock *)
(* releases its locks, files and rows stay.                                *)
(***************************************************************************)
EXTENDS Naturals

CONSTANTS Workers,      \* processes calling run_strategy_loop
          Hypotheses,   \* hypothesis documents (hypothesis_id = content hash)
          Strategies,   \* strategy_id values
          StrategyOf,   \* hypothesis -> the strategy it states
          Legacy,       \* strategies stated with identity_schema strategy-id-v1
          MaxPolicy,    \* bound: versions of policy files, engine, runtime and commit
          PolicyReturns, \* may an earlier policy version come back (a revert)?
          MaxData,      \* bound: data versions the sync may publish
          None

Decisions    == {"RETAIN_FOR_RESEARCH", "REVISE"}
FailedStages == {"CANDIDATE", "RESEARCH", "NAUTILUS"}
Outcomes     == Decisions \cup FailedStages

ASSUME LoopAssumption ==
    /\ StrategyOf \in [Hypotheses -> Strategies]
    /\ Legacy \subseteq Strategies
    /\ MaxData \in Nat /\ MaxPolicy \in Nat /\ PolicyReturns \in BOOLEAN
    /\ None \notin Hypotheses
    /\ None \notin Outcomes \cup {"PASSED", "ERROR"}

\* The content-addressed experiment identity: strategy, canonical data and policy.
Policies    == 0..MaxPolicy
Experiments == [strategy: Strategies, data: 0..MaxData, policy: Policies]

VARIABLES
    data,        \* version of the canonical catalog and funding tree
    policy,      \* version of the policy files, engine, runtime and commit
    sync,        \* "idle" | "writing": the data-sync writer holding LOCK_EX
    pc,          \* worker -> the step it is about to take
    hyp,         \* worker -> the hypothesis it was called with
    exp,         \* worker -> the experiment it prepared
    fresh,       \* worker -> it found no experiment row before adding its own
    seen,        \* worker -> the <<data, policy>> the engine actually read
    result,      \* worker -> what its run came to
    hypotheses,  \* ledger: rows of table hypotheses
    row,         \* ledger: experiment -> its rows in experiments, stage_results,
                 \*         verdicts and errors
    file,        \* runs/<experiment>/: candidate, verdict and error artifacts
    feedback,    \* runs/<experiment>/feedback-<hypothesis>.json
    launches,    \* history: executions started per experiment
    answer       \* history: worker -> the feedback last returned to its caller

envVars    == <<data, policy, sync>>
localVars  == <<hyp, exp, fresh, seen, result>>
ledgerVars == <<hypotheses, row>>
fileVars   == <<file, feedback>>
vars == <<envVars, pc, localVars, ledgerVars, fileVars, launches, answer>>

Row  == [owner: Hypotheses \cup {None},
         candidate: {None, "PASSED", "ERROR"},
         research:  {None, "PASSED", "ERROR"},
         nautilus:  {None, "PASSED", "ERROR"},
         verdict: Decisions \cup {None},
         error: FailedStages \cup {None}]

File == [candidate: BOOLEAN,
         verdict: Decisions \cup {None},
         readData: (0..MaxData) \cup {None},
         readPolicy: Policies \cup {None},
         error: FailedStages \cup {None}]

NoRow  == [owner |-> None, candidate |-> None, research |-> None,
           nautilus |-> None, verdict |-> None, error |-> None]
NoFile == [candidate |-> FALSE, verdict |-> None, readData |-> None,
           readPolicy |-> None, error |-> None]

-----------------------------------------------------------------------------
(* Locks.  flock conflicts are read off the steps: a run holds the shared   *)
(* data lock from its first step on, and the exclusive lock of its          *)
(* experiment from Claim on.                                                *)

ClaimedSteps == {"lookup", "hypothesis", "experiment", "existing", "confirm",
                 "candidate", "stage_candidate", "research", "read", "evaluate",
                 "publish_verdict", "feedback", "stage_nautilus", "stage_screen",
                 "record_verdict", "publish_error", "error_feedback", "stage_error",
                 "record_error", "return"}
Steps == {"idle", "prepare", "claim"} \cup ClaimedSteps

\* The steps between _claim.launched = True and the returned feedback.
LaunchedSteps == ClaimedSteps \ {"lookup", "hypothesis", "experiment", "existing",
                                 "confirm"}

Claimed(w)  == pc[w] \in ClaimedSteps
Reading(w)  == pc[w] \notin {"idle", "prepare"}

\* Mutant: the experiment lock file is opened but flock is not taken.
ClaimIgnored(w) == TRUE

\* fcntl.flock(experiment_lock, LOCK_EX) can be granted to w.
ClaimFree(w) == \A v \in Workers : Claimed(v) => exp[v] # exp[w]

\* Mutant: the sync takes its lock on a file no reader locks.
SnapshotFreeAlways == TRUE

\* fcntl.flock(..., LOCK_EX | LOCK_NB) of the sync can be granted.
SnapshotFree == \A w \in Workers : ~Reading(w)

-----------------------------------------------------------------------------
(* Identities and evidence                                                  *)

\* _prepare_execution: what the identity would be if it were derived now.
Identity(h) == [strategy |-> StrategyOf[h], data |-> data, policy |-> policy]

\* _require_execution_snapshot
SnapshotHolds(w) == Identity(hyp[w]) = exp[w]

IsV2(w) == StrategyOf[hyp[w]] \notin Legacy

Terminal(e) == row[e].verdict # None \/ row[e].error # None

\* The status _existing_feedback derives from the ledger for a terminal experiment.
Recorded(e) == IF row[e].verdict # None THEN row[e].verdict ELSE row[e].error

\* validated_verdict_document, as far as it depends on the ledger: the verdict's
\* chain of stages is complete and it belongs to the stored hypothesis.
ChainComplete(e) == /\ row[e].candidate = "PASSED" /\ file[e].candidate
                    /\ row[e].research = "PASSED"
                    /\ row[e].nautilus = "PASSED"

VerdictAdmissible(e, h) == ChainComplete(e) /\ row[e].owner = h

\* existing_execution: terminal evidence of a V2 experiment it refuses to read.
EvidenceRefused(e, h) ==
    \/ Terminal(e) /\ row[e].candidate = None
    \/ row[e].research = "ERROR" /\ row[e].error # "RESEARCH"
    \/ row[e].verdict # None /\ (row[e].error # None \/ ~VerdictAdmissible(e, h))

-----------------------------------------------------------------------------
NoRun == [w \in Workers |-> None]

Init ==
    /\ data = 0
    /\ policy = 0
    /\ sync = "idle"
    /\ pc = [w \in Workers |-> "idle"]
    /\ hyp = NoRun
    /\ exp = NoRun
    /\ fresh = [w \in Workers |-> FALSE]
    /\ seen = NoRun
    /\ result = NoRun
    /\ hypotheses = {}
    /\ row = [e \in Experiments |-> NoRow]
    /\ file = [e \in Experiments |-> NoFile]
    /\ feedback = [e \in Experiments |-> [h \in Hypotheses |-> None]]
    /\ launches = [e \in Experiments |-> 0]
    /\ answer = NoRun

At(w, step)   == pc[w] = step
Goto(w, step) == pc' = [pc EXCEPT ![w] = step]

\* The process leaves run_strategy_loop, by return or by exception: its locks go
\* with its file descriptors.
Leave(w) ==
    /\ pc' = [pc EXCEPT ![w] = "idle"]
    /\ hyp' = [hyp EXCEPT ![w] = None]
    /\ exp' = [exp EXCEPT ![w] = None]
    /\ fresh' = [fresh EXCEPT ![w] = FALSE]
    /\ seen' = [seen EXCEPT ![w] = None]
    /\ result' = [result EXCEPT ![w] = None]

Answer(w, o) ==
    answer' = [answer EXCEPT ![w] = [exp |-> exp[w], hyp |-> hyp[w], outcome |-> o]]

-----------------------------------------------------------------------------
(* Claiming the experiment                                                  *)

Start(w, h) ==
    /\ At(w, "idle")
    /\ Goto(w, "prepare")
    /\ hyp' = [hyp EXCEPT ![w] = h]
    /\ answer' = [answer EXCEPT ![w] = None]
    /\ UNCHANGED <<envVars, exp, fresh, seen, result, ledgerVars, fileVars, launches>>

\* _hold_data_snapshot_shared blocks while a writer holds the data lock; then
\* the identity is derived for the first time.
Prepare(w) ==
    /\ At(w, "prepare")
    /\ sync = "idle"
    /\ Goto(w, "claim")
    /\ exp' = [exp EXCEPT ![w] = Identity(hyp[w])]
    /\ UNCHANGED <<envVars, hyp, fresh, seen, result, ledgerVars, fileVars, launches, answer>>

\* The lock of the prepared experiment, then the identity once more: a drift
\* between the two raises "execution identity changed before claim".
Claim(w) ==
    /\ At(w, "claim")
    /\ ClaimFree(w)
    /\ \/ /\ SnapshotHolds(w)
          /\ Goto(w, "lookup")
          /\ UNCHANGED localVars
       \/ /\ ~SnapshotHolds(w)
          /\ Leave(w)
    /\ UNCHANGED <<envVars, ledgerVars, fileVars, launches, answer>>

Lookup(w) ==
    /\ At(w, "lookup")
    /\ fresh' = [fresh EXCEPT ![w] = row[exp[w]].owner = None]
    /\ Goto(w, "hypothesis")
    /\ UNCHANGED <<envVars, hyp, exp, seen, result, ledgerVars, fileVars, launches, answer>>

\* Publishes the content-addressed hypothesis artifact and commits its row.
RecordHypothesis(w) ==
    /\ At(w, "hypothesis")
    /\ hypotheses' = hypotheses \cup {hyp[w]}
    /\ Goto(w, "experiment")
    /\ UNCHANGED <<envVars, localVars, row, fileVars, launches, answer>>

\* Mutant: INSERT OR REPLACE, the last hypothesis owns the experiment.
RecordExperimentReplaces(w) ==
    /\ At(w, "experiment")
    /\ row' = [row EXCEPT ![exp[w]].owner = hyp[w]]
    /\ Goto(w, "existing")
    /\ UNCHANGED <<envVars, localVars, hypotheses, fileVars, launches, answer>>

\* INSERT ... ON CONFLICT DO NOTHING: the first hypothesis owns the experiment.
RecordExperiment(w) ==
    /\ At(w, "experiment")
    /\ row' = [row EXCEPT ![exp[w]].owner = IF @ = None THEN hyp[w] ELSE @]
    /\ Goto(w, "existing")
    /\ UNCHANGED <<envVars, localVars, hypotheses, fileVars, launches, answer>>

-----------------------------------------------------------------------------
(* Reuse of terminal evidence: _existing_feedback                           *)

\* Every reason for which the run raises instead of answering or launching.
ExistingRefused(w) ==
    LET e == exp[w]
    IN  \/ row[e].verdict # None /\ row[e].error # None
        \/ IsV2(w) /\ EvidenceRefused(e, hyp[w])
        \/ Terminal(e) /\ feedback[e][hyp[w]] \notin {None, Recorded(e)}
        \/ ~Terminal(e) /\ ~fresh[w]

RefuseExisting(w) ==
    /\ At(w, "existing")
    /\ ExistingRefused(w)
    /\ Leave(w)
    /\ UNCHANGED <<envVars, ledgerVars, fileVars, launches, answer>>

ReuseExisting(w) ==
    /\ At(w, "existing")
    /\ ~ExistingRefused(w)
    /\ Terminal(exp[w])
    /\ feedback' = [feedback EXCEPT ![exp[w]][hyp[w]] = Recorded(exp[w])]
    /\ result' = [result EXCEPT ![w] = Recorded(exp[w])]
    /\ Goto(w, "confirm")
    /\ UNCHANGED <<envVars, hyp, exp, fresh, seen, ledgerVars, file, launches, answer>>

\* The cached answer is returned only while the snapshot it was prepared under holds.
ConfirmReuse(w) ==
    /\ At(w, "confirm")
    /\ \/ SnapshotHolds(w) /\ Answer(w, result[w])
       \/ ~SnapshotHolds(w) /\ UNCHANGED answer
    /\ Leave(w)
    /\ UNCHANGED <<envVars, ledgerVars, fileVars, launches>>

\* Mutant: the check for an existing non-terminal experiment is dropped.
LaunchStale(w) ==
    /\ At(w, "existing")
    /\ ~Terminal(exp[w])
    /\ launches' = [launches EXCEPT ![exp[w]] = @ + 1]
    /\ Goto(w, "candidate")
    /\ UNCHANGED <<envVars, localVars, ledgerVars, fileVars, answer>>

Launch(w) ==
    /\ At(w, "existing")
    /\ ~ExistingRefused(w)
    /\ ~Terminal(exp[w])
    /\ launches' = [launches EXCEPT ![exp[w]] = @ + 1]
    /\ Goto(w, "candidate")
    /\ UNCHANGED <<envVars, localVars, ledgerVars, fileVars, answer>>

-----------------------------------------------------------------------------
(* One execution                                                            *)

\* The run gives up at a stage: _finish_failure starts.
Fail(w, stage) ==
    /\ result' = [result EXCEPT ![w] = stage]
    /\ Goto(w, "publish_error")

BuildCandidate(w) ==
    /\ At(w, "candidate")
    /\ \/ /\ IsV2(w) => data = exp[w].data
          /\ file' = [file EXCEPT ![exp[w]].candidate = TRUE]
          /\ Goto(w, "stage_candidate")
          /\ UNCHANGED result
       \/ /\ Fail(w, "CANDIDATE")
          /\ UNCHANGED file
    /\ UNCHANGED <<envVars, hyp, exp, fresh, seen, ledgerVars, feedback, launches, answer>>

\* record_stage of a passed stage: the row is inserted if absent and must then agree.
StageCandidate(w) ==
    /\ At(w, "stage_candidate")
    /\ row[exp[w]].candidate \in {None, "PASSED"}
    /\ row' = [row EXCEPT ![exp[w]].candidate = "PASSED"]
    /\ Goto(w, "research")
    /\ UNCHANGED <<envVars, localVars, hypotheses, fileVars, launches, answer>>

\* The candidate against the hypothesis and, for V2, the snapshot.
CheckResearch(w) ==
    /\ At(w, "research")
    /\ \/ /\ IsV2(w) => SnapshotHolds(w)
          /\ Goto(w, "read")
          /\ UNCHANGED result
       \/ Fail(w, "RESEARCH")
    /\ UNCHANGED <<envVars, hyp, exp, fresh, seen, ledgerVars, fileVars, launches, answer>>

\* run_candidate_backtest opens the catalog, the funding tree and the policy
\* file itself; it is not handed what _prepare_execution read.
ReadInputs(w) ==
    /\ At(w, "read")
    /\ seen' = [seen EXCEPT ![w] = <<data, policy>>]
    /\ Goto(w, "evaluate")
    /\ UNCHANGED <<envVars, hyp, exp, fresh, result, ledgerVars, fileVars, launches, answer>>

\* Mutant: the snapshot is not checked again after the engine.
EvaluateUnchecked(w) ==
    /\ At(w, "evaluate")
    /\ \/ /\ \E d \in Decisions : result' = [result EXCEPT ![w] = d]
          /\ Goto(w, "publish_verdict")
       \/ Fail(w, "NAUTILUS")
    /\ UNCHANGED <<envVars, hyp, exp, fresh, seen, ledgerVars, fileVars, launches, answer>>

\* Mutant: a failing engine is run again.
EvaluateAgain(w) ==
    /\ At(w, "evaluate")
    /\ \/ /\ \E d \in Decisions : result' = [result EXCEPT ![w] = d]
          /\ Goto(w, "publish_verdict")
       \/ Goto(w, "read") /\ UNCHANGED result
    /\ UNCHANGED <<envVars, hyp, exp, fresh, seen, ledgerVars, fileVars, launches, answer>>

\* Mutant: a failing engine is reported through the path of a verdict.
EvaluateReportsFailure(w) ==
    /\ At(w, "evaluate")
    /\ \E o \in Decisions \cup {"NAUTILUS"} : result' = [result EXCEPT ![w] = o]
    /\ Goto(w, "publish_verdict")
    /\ UNCHANGED <<envVars, hyp, exp, fresh, seen, ledgerVars, fileVars, launches, answer>>

\* The engine returns a decision and, for V2, the snapshot is checked again; or
\* either of them fails.
Evaluate(w) ==
    /\ At(w, "evaluate")
    /\ \/ /\ IsV2(w) => SnapshotHolds(w)
          /\ \E d \in Decisions : result' = [result EXCEPT ![w] = d]
          /\ Goto(w, "publish_verdict")
       \/ Fail(w, "NAUTILUS")
    /\ UNCHANGED <<envVars, hyp, exp, fresh, seen, ledgerVars, fileVars, launches, answer>>

\* _atomic_publish of an immutable artifact: a different existing one is a conflict.
PublishVerdict(w) ==
    /\ At(w, "publish_verdict")
    /\ file[exp[w]].verdict \in {None, result[w]}
    /\ file' = [file EXCEPT ![exp[w]].verdict = result[w],
                            ![exp[w]].readData = seen[w][1],
                            ![exp[w]].readPolicy = seen[w][2]]
    /\ Goto(w, "feedback")
    /\ UNCHANGED <<envVars, localVars, ledgerVars, feedback, launches, answer>>

\* Mutant: the feedback is left to whoever asks for the experiment next.
FeedbackDeferred(w) ==
    /\ At(w, "feedback")
    /\ Goto(w, "stage_nautilus")
    /\ UNCHANGED <<envVars, localVars, ledgerVars, fileVars, launches, answer>>

PublishFeedback(w) ==
    /\ At(w, "feedback")
    /\ feedback[exp[w]][hyp[w]] \in {None, result[w]}
    /\ feedback' = [feedback EXCEPT ![exp[w]][hyp[w]] = result[w]]
    /\ Goto(w, "stage_nautilus")
    /\ UNCHANGED <<envVars, localVars, ledgerVars, file, launches, answer>>

\* Mutant: the stage of the research screen gets no row.
StageNautilusOnly(w) ==
    /\ At(w, "stage_nautilus")
    /\ row' = [row EXCEPT ![exp[w]].nautilus = "PASSED"]
    /\ Goto(w, "record_verdict")
    /\ UNCHANGED <<envVars, localVars, hypotheses, fileVars, launches, answer>>

StageNautilus(w) ==
    /\ At(w, "stage_nautilus")
    /\ row[exp[w]].nautilus \in {None, "PASSED"}
    /\ row' = [row EXCEPT ![exp[w]].nautilus = "PASSED"]
    /\ Goto(w, "stage_screen")
    /\ UNCHANGED <<envVars, localVars, hypotheses, fileVars, launches, answer>>

StageScreen(w) ==
    /\ At(w, "stage_screen")
    /\ row[exp[w]].research \in {None, "PASSED"}
    /\ row' = [row EXCEPT ![exp[w]].research = "PASSED"]
    /\ Goto(w, "record_verdict")
    /\ UNCHANGED <<envVars, localVars, hypotheses, fileVars, launches, answer>>

\* What record_verdict and the schema require of a new verdict row.
VerdictAccepted(w) ==
    /\ IsV2(w) => VerdictAdmissible(exp[w], hyp[w])
    /\ row[exp[w]].verdict = None      \* UNIQUE(experiment_id)
    /\ row[exp[w]].error = None        \* trigger verdicts_reject_existing_error

RecordVerdict(w) ==
    /\ At(w, "record_verdict")
    /\ VerdictAccepted(w)
    /\ row' = [row EXCEPT ![exp[w]].verdict = result[w]]
    /\ Goto(w, "return")
    /\ UNCHANGED <<envVars, localVars, hypotheses, fileVars, launches, answer>>

\* The run returns the feedback it published.
Return(w) ==
    /\ At(w, "return")
    /\ Answer(w, result[w])
    /\ Leave(w)
    /\ UNCHANGED <<envVars, ledgerVars, fileVars, launches>>

-----------------------------------------------------------------------------
(* _finish_failure: error artifact, feedback, ERROR stage, error row         *)

PublishError(w) ==
    /\ At(w, "publish_error")
    /\ file[exp[w]].error \in {None, result[w]}
    /\ file' = [file EXCEPT ![exp[w]].error = result[w]]
    /\ Goto(w, "error_feedback")
    /\ UNCHANGED <<envVars, localVars, ledgerVars, feedback, launches, answer>>

PublishErrorFeedback(w) ==
    /\ At(w, "error_feedback")
    /\ feedback[exp[w]][hyp[w]] \in {None, result[w]}
    /\ feedback' = [feedback EXCEPT ![exp[w]][hyp[w]] = result[w]]
    /\ Goto(w, "stage_error")
    /\ UNCHANGED <<envVars, localVars, ledgerVars, file, launches, answer>>

\* The stage that failed, by its column.
FailedRow(r, stage) ==
    CASE stage = "CANDIDATE" -> [r EXCEPT !.candidate = "ERROR"]
      [] stage = "RESEARCH"  -> [r EXCEPT !.research = "ERROR"]
      [] stage = "NAUTILUS"  -> [r EXCEPT !.nautilus = "ERROR"]

\* Mutant: the failure is returned before its error row is committed.
StageErrorReturns(w) ==
    /\ At(w, "stage_error")
    /\ row' = [row EXCEPT ![exp[w]] = FailedRow(@, result[w])]
    /\ Goto(w, "return")
    /\ UNCHANGED <<envVars, localVars, hypotheses, fileVars, launches, answer>>

StageError(w) ==
    /\ At(w, "stage_error")
    /\ row' = [row EXCEPT ![exp[w]] = FailedRow(@, result[w])]
    /\ Goto(w, "record_error")
    /\ UNCHANGED <<envVars, localVars, hypotheses, fileVars, launches, answer>>

\* UNIQUE(experiment_id) and trigger errors_reject_existing_verdict.
ErrorAccepted(w) == row[exp[w]].verdict = None /\ row[exp[w]].error \in {None, result[w]}

RecordError(w) ==
    /\ At(w, "record_error")
    /\ ErrorAccepted(w)
    /\ row' = [row EXCEPT ![exp[w]].error = result[w]]
    /\ Goto(w, "return")
    /\ UNCHANGED <<envVars, localVars, hypotheses, fileVars, launches, answer>>

-----------------------------------------------------------------------------
(* Crashes and the world around the loop                                    *)

\* An uncaught exception (a refused insert, an artifact conflict, a failing file
\* system) or a killed process.
Raise(w) ==
    /\ ~At(w, "idle")
    /\ Leave(w)
    /\ UNCHANGED <<envVars, ledgerVars, fileVars, launches, answer>>

\* service.single_writer: granted at once or the command ends with BUSY, which
\* changes nothing.
SyncBegin ==
    /\ sync = "idle"
    /\ SnapshotFree
    /\ sync' = "writing"
    /\ UNCHANGED <<data, policy, pc, localVars, ledgerVars, fileVars, launches, answer>>

SyncWrite ==
    /\ sync = "writing"
    /\ data < MaxData
    /\ data' = data + 1
    /\ UNCHANGED <<policy, sync, pc, localVars, ledgerVars, fileVars, launches, answer>>

\* The sync ends, fails or is killed; what it wrote stays.
SyncEnd ==
    /\ sync = "writing"
    /\ sync' = "idle"
    /\ UNCHANGED <<data, policy, pc, localVars, ledgerVars, fileVars, launches, answer>>

\* Policy files, checkout and packages are changed under no lock at all.
EditPolicy(p) ==
    /\ p # policy
    /\ p < policy => PolicyReturns
    /\ policy' = p
    /\ UNCHANGED <<data, sync, pc, localVars, ledgerVars, fileVars, launches, answer>>

-----------------------------------------------------------------------------
Proceed(w) ==
    \/ Lookup(w) \/ RecordHypothesis(w) \/ RecordExperiment(w)
    \/ RefuseExisting(w) \/ ReuseExisting(w) \/ ConfirmReuse(w)
    \/ Launch(w) \/ BuildCandidate(w) \/ StageCandidate(w) \/ CheckResearch(w)
    \/ ReadInputs(w) \/ Evaluate(w) \/ PublishVerdict(w) \/ PublishFeedback(w)
    \/ StageNautilus(w) \/ StageScreen(w) \/ RecordVerdict(w) \/ Return(w)
    \/ PublishError(w) \/ PublishErrorFeedback(w) \/ StageError(w) \/ RecordError(w)

Environment ==
    \/ SyncBegin \/ SyncWrite \/ SyncEnd
    \/ \E p \in Policies : EditPolicy(p)

Next ==
    \/ \E w \in Workers :
          \/ \E h \in Hypotheses : Start(w, h)
          \/ Prepare(w) \/ Claim(w) \/ Proceed(w) \/ Raise(w)
    \/ Environment

Spec == Init /\ [][Next]_vars

\* A process that is not blocked goes on, a sync ends, and a lock that is free
\* again and again is granted in the end.  Nothing makes a call start, a process
\* crash or a policy change.
Fairness ==
    /\ \A w \in Workers : WF_vars(Proceed(w)) /\ SF_vars(Claim(w)) /\ SF_vars(Prepare(w))
    /\ WF_vars(SyncEnd)

FairSpec == Spec /\ Fairness

-----------------------------------------------------------------------------
(* Properties                                                               *)

RunRecords == [exp: Experiments, hyp: Hypotheses, outcome: Outcomes]

\* The variables have their types.
TypeOK ==
    /\ data \in 0..MaxData
    /\ policy \in Policies
    /\ sync \in {"idle", "writing"}
    /\ pc \in [Workers -> Steps]
    /\ hyp \in [Workers -> Hypotheses \cup {None}]
    /\ exp \in [Workers -> Experiments \cup {None}]
    /\ fresh \in [Workers -> BOOLEAN]
    /\ seen \in [Workers -> ((0..MaxData) \X Policies) \cup {None}]
    /\ result \in [Workers -> Outcomes \cup {None}]
    /\ hypotheses \subseteq Hypotheses
    /\ row \in [Experiments -> Row]
    /\ file \in [Experiments -> File]
    /\ feedback \in [Experiments -> [Hypotheses -> Outcomes \cup {None}]]
    /\ launches \in [Experiments -> Nat]
    /\ answer \in [Workers -> RunRecords \cup {None}]

\* Per-experiment locking is execution authority: however many processes ask for
\* an experiment, crash and ask again, it is launched at most once in its life.
SingleLaunch == \A e \in Experiments : launches[e] <= 1

\* The evidence of a terminal experiment is a verdict or an error, never both, and
\* it is complete: every stage the outcome went through has its row and its
\* artifact, and the hypothesis that owns the experiment has its feedback.
TerminalEvidenceComplete ==
    \A e \in Experiments :
        Terminal(e) =>
            /\ row[e].owner \in hypotheses
            /\ feedback[e][row[e].owner] = Recorded(e)
            /\ \/ /\ row[e].error = None
                  /\ ChainComplete(e)
                  /\ file[e].verdict = row[e].verdict
               \/ /\ row[e].verdict = None
                  /\ file[e].error = row[e].error
                  /\ row[e] = FailedRow(row[e], row[e].error)

\* Whatever hypothesis asks, the cached feedback beside a terminal experiment is
\* the one its row implies: the "cached feedback mismatch" of _existing_feedback
\* is never raised by the loop's own crashes and interleavings.
CachedFeedbackAgrees ==
    \A e \in Experiments, h \in Hypotheses :
        Terminal(e) => feedback[e][h] \in {None, Recorded(e)}

\* A run that reached its last commit is not refused there, by the validation of
\* record_verdict or by the unique keys and triggers of the schema.
CommitAccepted ==
    \A w \in Workers :
        /\ At(w, "record_verdict") => VerdictAccepted(w)
        /\ At(w, "record_error") => ErrorAccepted(w)

\* A feedback handed to a caller is the outcome the ledger holds, then and ever after.
AnswerIsRecorded ==
    \A w \in Workers :
        answer[w] # None =>
            /\ Terminal(answer[w].exp)
            /\ answer[w].outcome = Recorded(answer[w].exp)
            /\ answer[w].exp.strategy = StrategyOf[answer[w].hyp]

\* The engine read the data version its experiment identity names, because the
\* shared data lock outlives every read.
VerdictOnClaimedData ==
    \A e \in Experiments : file[e].verdict # None => file[e].readData = e.data

\* docs/contracts/strategy-loop-v1.md:29 binds an experiment to its policy: the
\* verdict recorded for an experiment was evaluated under that policy.  The engine
\* reads the policy file itself, so this rests on the rechecks around it, and on no
\* version coming back between two of them.
VerdictOnClaimedPolicy ==
    \A e \in Experiments : row[e].verdict # None => file[e].readPolicy = e.policy

\* An execution that lost its process before its evidence was complete: nobody is
\* running it, nobody holds its claim to launch it.
Abandoned(e) ==
    /\ row[e].owner # None /\ ~Terminal(e)
    /\ \A w \in Workers :
          exp[w] = e => ~(pc[w] \in LaunchedSteps \/ fresh[w])

StaysAbandoned(e) ==
    Abandoned(e) => /\ Abandoned(e)'
                    /\ row'[e] = row[e] /\ file'[e] = file[e]
                    /\ launches'[e] = launches[e]

\* "Non-terminal stale evidence is never silently relaunched": a later call that
\* claims an abandoned experiment leaves it as it is, for ever.
NoResurrection == [][\A e \in Experiments : StaysAbandoned(e)]_vars

\* Every call comes to an end: nothing waits for ever on a lock, and no step of a
\* run finds its way barred by evidence left behind.
RunsEnd == \A w \in Workers : ~At(w, "idle") ~> At(w, "idle")

-----------------------------------------------------------------------------
(* The loop implements ExperimentRegistry.                                  *)

Phase(e) == IF Terminal(e) THEN "settled"
            ELSE IF launches[e] > 0 THEN "running"
            ELSE IF row[e].owner # None THEN "registered" ELSE "absent"

Registry == INSTANCE ExperimentRegistry WITH
    Callers <- Workers,
    owner   <- [e \in Experiments |-> row[e].owner],
    phase   <- [e \in Experiments |-> Phase(e)],
    outcome <- [e \in Experiments |-> IF Terminal(e) THEN Recorded(e) ELSE None]

\* With stages, files and locks forgotten, the loop is a write-once registry.
RegistrySpec == Registry!Spec
===============================================================================
