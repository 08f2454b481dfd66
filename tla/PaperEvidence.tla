---------------------------- MODULE PaperEvidence ----------------------------
(***************************************************************************)
(* RuntimeEvidenceStore of paper_runtime.py, with the admission that       *)
(* paper_admission of strategy_lab.py and build_strategy_freeze derive     *)
(* from the robustness record: freezes, runs and runtime verdicts, each    *)
(* an artifact that is published first and a row that is inserted then.    *)
(* The calls are made by operators and agents, side by side with each      *)
(* other and with the robustness runs of RobustnessEvidence, and any of    *)
(* them may die between its artifact and its row.                          *)
(***************************************************************************)
EXTENDS RobustnessEvidence

CONSTANTS Operators, \* processes that call the store
          Policies,  \* paper policies
          Starts,    \* cohort_start_ns
          Tiers,     \* "SHADOW", "PAPER"
          Reports    \* the results a run may be finished with

Technicals == {"PASS", "ERROR"}
Outcomes   == {"PASS", "FAIL", "NOT_APPLICABLE"}

\* finish_run annotates its two words and checks neither: "other" is any other word.
ReportType == [technical: Technicals \cup {"other"}, outcome: Outcomes \cup {"other"},
               clean: BOOLEAN,   \* flat, no open orders, no missing or revised bars
               enough: BOOLEAN]  \* the bars, the time and the restarts of the policy

ASSUME PaperAssumption ==
    /\ Starts \subseteq Nat
    /\ Reports \subseteq ReportType
    /\ None \notin ReportType

Freezes     == [verdict: Verdicts, policy: Policies]
RuntimeRuns == [freeze: Freezes, tier: Tiers, start: Starts]

VARIABLES
    freezeFiles,  \* the freezes whose strategy-freeze-v1.json exists
    freezeRows,   \* table strategy_freezes
    runFiles,     \* the runs whose runtime-run-v1.json exists
    runRows,      \* table runtime_runs
    verdictFile,  \* runs -> what their runtime-verdict-v1.json says, where there is one
    verdictRow,   \* table runtime_verdicts: runs -> their verdict, where there is one
    job,          \* operator -> what it is about to write, or None
    contested     \* history: the runs that two operators were finishing at once

paperRows == <<freezeRows, runRows, verdictRow>>
paperFiles == <<freezeFiles, runFiles, verdictFile>>
paperVars == <<paperRows, paperFiles, job, contested>>
vars == <<robustnessVars, paperVars>>

Jobs ==
    [task: {"insert_freeze"}, freeze: Freezes]
        \cup [task: {"insert_run"}, run: RuntimeRuns]
        \cup [task: {"publish_verdict", "insert_verdict"}, run: RuntimeRuns, report: Reports]

PaperInit ==
    /\ freezeFiles = {} /\ freezeRows = {}
    /\ runFiles = {} /\ runRows = {}
    /\ verdictFile = <<>> /\ verdictRow = <<>>
    /\ job = [o \in Operators |-> None]
    /\ contested = {}

Does(o, task) == job[o] # None /\ job[o].task = task
Put(f, r, report) ==
    [x \in DOMAIN f \cup {r} |-> IF x = r THEN report ELSE f[x]]

Take(o, work) == job' = [job EXCEPT ![o] = work]
Finished(o)   == Take(o, None)

-----------------------------------------------------------------------------
(* Freezes                                                                  *)

\* The verdict reads technical PASS, economic PASS and ADVANCE.
Advances(v) == Action(v) = "ADVANCE"

\* Mutant: a record is enough, whatever its action.
AdmitsAny(v) == record = v /\ v \in documents

\* paper_admission: the one record with this verdict, and its documents readable.
Admits(v) == record = v /\ v \in documents /\ Advances(v)

\* build_strategy_freeze, then record_freeze as far as its artifact.
PublishFreeze(o, f) ==
    /\ job[o] = None
    /\ Admits(f.verdict)
    /\ freezeFiles' = freezeFiles \cup {f}
    /\ Take(o, [task |-> "insert_freeze", freeze |-> f])
    /\ UNCHANGED <<paperRows, runFiles, verdictFile, contested>>

InsertFreeze(o) ==
    /\ Does(o, "insert_freeze")
    /\ freezeRows' = freezeRows \cup {job[o].freeze}
    /\ Finished(o)
    /\ UNCHANGED <<paperFiles, runRows, verdictRow, contested>>

-----------------------------------------------------------------------------
(* Runs                                                                     *)

\* read_freeze
FreezeStored(f) == f \in freezeRows /\ f \in freezeFiles

\* The cohort starts later than the data that was inspected: inspected_data_boundary_ns
\* of the freeze is the data_as_of of the survivor.
Prospective(r) == r.start > DataAsOf

PublishRun(o, r) ==
    /\ job[o] = None
    /\ FreezeStored(r.freeze) /\ Prospective(r)
    /\ runFiles' = runFiles \cup {r}
    /\ Take(o, [task |-> "insert_run", run |-> r])
    /\ UNCHANGED <<paperRows, freezeFiles, verdictFile, contested>>

InsertRun(o) ==
    /\ Does(o, "insert_run")
    /\ runRows' = runRows \cup {job[o].run}
    /\ Finished(o)
    /\ UNCHANGED <<paperFiles, freezeRows, verdictRow, contested>>

-----------------------------------------------------------------------------
(* Runtime verdicts                                                         *)

\* read_run
RunStored(r) == r \in runRows /\ r \in runFiles

\* The conditions of finish_run on what it is told of the run.
Accepts(r, report) ==
    /\ report.technical = "PASS" => report.clean
    /\ r.tier = "PAPER" /\ report.technical = "PASS" /\ report.outcome = "PASS" => report.enough

\* Mutant: the artifact of an earlier attempt is replaced.
LookReplacing(r, report) == "publish_verdict"

\* _atomic_publish looks at the path, which is named by the run: nothing there yet, the
\* same bytes, or else an immutable artifact conflict.
Look(r, report) ==
    IF r \notin DOMAIN verdictFile THEN "publish_verdict"
    ELSE IF verdictFile[r] = report THEN "insert_verdict" ELSE "conflict"

\* p is between the checks of finish_run for r and its row.
Finishing(p, r) ==
    (Does(p, "publish_verdict") \/ Does(p, "insert_verdict")) /\ job[p].run = r

Finish(o, r, report, policy) ==
    /\ job[o] = None
    /\ RunStored(r) /\ FreezeStored(r.freeze)
    /\ policy = r.freeze.policy
    /\ Accepts(r, report)
    /\ Look(r, report) # "conflict"
    /\ Take(o, [task |-> Look(r, report), run |-> r, report |-> report])
    /\ contested' = IF \E p \in Operators : Finishing(p, r) THEN contested \cup {r} ELSE contested
    /\ UNCHANGED <<paperRows, paperFiles>>

\* os.replace, whatever has appeared under that name since.
PublishVerdict(o) ==
    /\ Does(o, "publish_verdict")
    /\ verdictFile' = Put(verdictFile, job[o].run, job[o].report)
    /\ Take(o, [job[o] EXCEPT !.task = "insert_verdict"])
    /\ UNCHANGED <<paperRows, freezeFiles, runFiles, contested>>

\* The CHECKs of the table runtime_verdicts.
Checked(report) == report.technical \in Technicals /\ report.outcome \in Outcomes

\* A plain INSERT: run_id is UNIQUE, so a run that has a verdict raises, even the same,
\* and a CHECK may refuse the row of an artifact that is already published.
InsertVerdict(o) ==
    /\ Does(o, "insert_verdict")
    /\ verdictRow' = IF job[o].run \in DOMAIN verdictRow \/ ~Checked(job[o].report) THEN verdictRow
                     ELSE Put(verdictRow, job[o].run, job[o].report)
    /\ Finished(o)
    /\ UNCHANGED <<paperFiles, freezeRows, runRows, contested>>

OperatorDies(o) ==
    /\ job[o] # None
    /\ Finished(o)
    /\ UNCHANGED <<paperRows, paperFiles, contested>>

-----------------------------------------------------------------------------
Operate(o) ==
    \/ \E f \in Freezes : PublishFreeze(o, f)
    \/ \E r \in RuntimeRuns : PublishRun(o, r)
    \/ \E r \in RuntimeRuns, report \in Reports, policy \in Policies : Finish(o, r, report, policy)
    \/ InsertFreeze(o) \/ InsertRun(o)
    \/ PublishVerdict(o) \/ InsertVerdict(o) \/ OperatorDies(o)

Init == RobustnessInit /\ PaperInit

Next ==
    \/ RobustnessNext /\ UNCHANGED paperVars
    \/ (\E o \in Operators : Operate(o)) /\ UNCHANGED robustnessVars

Spec == Init /\ [][Next]_vars

-----------------------------------------------------------------------------
(* Properties                                                               *)

\* The variables have their types.
PaperTypeOK ==
    /\ freezeFiles \subseteq Freezes /\ freezeRows \subseteq Freezes
    /\ runFiles \subseteq RuntimeRuns /\ runRows \subseteq RuntimeRuns
    /\ \A table \in {verdictFile, verdictRow} :
          /\ DOMAIN table \subseteq RuntimeRuns
          /\ \A r \in DOMAIN table : table[r] \in Reports
    /\ job \in [Operators -> Jobs \cup {None}]
    /\ contested \subseteq RuntimeRuns

TypeOK == RobustnessTypeOK /\ PaperTypeOK

\* Every row of the runtime store reads back whatever its writers died of: read_freeze,
\* read_run and read_verdict find the artifact the row was inserted for.  Only two
\* operators that finish one run at once may leave a verdict that does not.
RowsReadable ==
    /\ freezeRows \subseteq freezeFiles
    /\ runRows \subseteq runFiles
    /\ \A r \in DOMAIN verdictRow \ contested :
          r \in DOMAIN verdictFile /\ verdictFile[r] = verdictRow[r]

\* A report the ledger may hold: finish_run accepts it, and so does the table.
Recorded(r, report) == Accepts(r, report) /\ Checked(report)

\* The two stores, their files, processes and crashes implement the write-once ledger.
Ledger == INSTANCE EvidenceLedger WITH
    Runs <- RuntimeRuns, Accepts <- Recorded,
    decided <- record, frozen <- freezeRows, started <- runRows, reported <- verdictRow

LedgerSpec == Ledger!Spec
===============================================================================
