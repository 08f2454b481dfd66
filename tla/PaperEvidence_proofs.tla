------------------------- MODULE PaperEvidence_proofs -------------------------
(***************************************************************************)
(* Theorems about PaperEvidence: for every number of robustness processes, *)
(* operators and cells and every set of policies, starts and reports, the  *)
(* rows of the runtime store read back, and the two stores together        *)
(* implement the write-once ledger of EvidenceLedger.                      *)
(***************************************************************************)
EXTENDS PaperEvidence, RobustnessEvidence_proofs

\* What an operator is about to write rests on what is there for good.
JobBacked(o) ==
    /\ Does(o, "insert_freeze") =>
          /\ job[o].freeze \in freezeFiles
          /\ record = job[o].freeze.verdict /\ Advances(record)
    /\ Does(o, "insert_run") =>
          /\ job[o].run \in runFiles
          /\ job[o].run.freeze \in freezeRows /\ Prospective(job[o].run)
    /\ Does(o, "publish_verdict") \/ Does(o, "insert_verdict") =>
          job[o].run \in runRows /\ Accepts(job[o].run, job[o].report)

RowsBacked ==
    /\ freezeRows \subseteq freezeFiles /\ runRows \subseteq runFiles
    /\ \A o \in Operators : JobBacked(o)

\* Where two operators finish one run, the history says so.
Contested ==
    \A o, p \in Operators : \A r \in RuntimeRuns :
        Finishing(o, r) /\ Finishing(p, r) /\ o # p => r \in contested

\* A verdict file that is not contested is written once, and then only inserted.
FileOnce ==
    \A o \in Operators :
        /\ Does(o, "publish_verdict") /\ job[o].run \notin contested =>
              job[o].run \notin DOMAIN verdictFile
        /\ Does(o, "insert_verdict") /\ job[o].run \notin contested =>
              job[o].run \in DOMAIN verdictFile /\ verdictFile[job[o].run] = job[o].report

VerdictsReadable ==
    \A r \in DOMAIN verdictRow \ contested :
        r \in DOMAIN verdictFile /\ verdictFile[r] = verdictRow[r]

\* The parts of PaperTypeOK.
TableOK(table) ==
    /\ DOMAIN table \subseteq RuntimeRuns
    /\ \A r \in DOMAIN table : table[r] \in Reports

PaperInv == PaperTypeOK /\ RowsBacked /\ Contested /\ FileOnce /\ VerdictsReadable

LEMMA PaperTypes ==
    PaperTypeOK <=>
        /\ freezeFiles \subseteq Freezes /\ freezeRows \subseteq Freezes
        /\ runFiles \subseteq RuntimeRuns /\ runRows \subseteq RuntimeRuns
        /\ TableOK(verdictFile) /\ TableOK(verdictRow)
        /\ job \in [Operators -> Jobs \cup {None}]
        /\ contested \subseteq RuntimeRuns
BY DEF PaperTypeOK, TableOK

LEMMA PutTable ==
    ASSUME NEW table, TableOK(table), NEW r \in RuntimeRuns, NEW report \in Reports
    PROVE  /\ TableOK(Put(table, r, report))
           /\ DOMAIN Put(table, r, report) = DOMAIN table \cup {r}
           /\ Put(table, r, report)[r] = report
           /\ \A x \in DOMAIN table : x # r => Put(table, r, report)[x] = table[x]
BY DEF TableOK, Put

\* No job is None.
LEMMA JobsAreRecords ==
    ASSUME NEW j \in Jobs PROVE j # None => j.task \in {"insert_freeze", "insert_run",
                                                  "publish_verdict", "insert_verdict"}
BY DEF Jobs

LEMMA PaperInvInit == PaperInit => PaperInv
BY DEF PaperInit, PaperInv, PaperTypeOK, RowsBacked, JobBacked, Contested, FileOnce,
   VerdictsReadable, Does, Finishing

\* An operator changes no job but its own.
LEMMA OtherJobs ==
    ASSUME PaperTypeOK, NEW o \in Operators, NEW work, Take(o, work)
    PROVE  job'[o] = work /\ \A p \in Operators : p # o => job'[p] = job[p]
BY DEF PaperTypeOK, Take

-----------------------------------------------------------------------------
(* The steps of an operator                                                 *)

LEMMA FreezeStep ==
    ASSUME PaperInv, NEW o \in Operators, NEW f \in Freezes, PublishFreeze(o, f)
    PROVE  UNCHANGED record => PaperInv'
<1> SUFFICES ASSUME UNCHANGED record PROVE PaperInv'
  OBVIOUS
<1> DEFINE work == [task |-> "insert_freeze", freeze |-> f]
<1>1. work \in Jobs /\ work.task = "insert_freeze" /\ work.freeze = f
  BY DEF Jobs
<1>2. job'[o] = work /\ (\A p \in Operators : p # o => job'[p] = job[p]) /\ job[o] = None
  BY OtherJobs DEF PublishFreeze, PaperInv
<1>3. /\ freezeFiles' = freezeFiles \cup {f}
      /\ UNCHANGED <<freezeRows, runRows, verdictRow, runFiles, verdictFile, contested>>
      /\ record = f.verdict /\ Advances(record)
      /\ job' = [job EXCEPT ![o] = work]
  BY DEF PublishFreeze, paperRows, Admits, Take
<1> HIDE DEF work
<1>4. PaperTypeOK'
  BY <1>1, <1>3 DEF PaperInv, PaperTypeOK
<1>5. RowsBacked'
  <2>1. Advances(record)'
    BY <1>3 DEF Advances, Action
  <2> QED BY <1>1, <1>2, <1>3, <2>1 DEF PaperInv, RowsBacked, JobBacked, Does, Prospective, Accepts
<1>6. Contested' /\ FileOnce' /\ VerdictsReadable'
  BY <1>1, <1>2, <1>3 DEF PaperInv, Contested, FileOnce, VerdictsReadable, Finishing, Does
<1> QED BY <1>4, <1>5, <1>6 DEF PaperInv

LEMMA RunStep ==
    ASSUME PaperInv, NEW o \in Operators, NEW r \in RuntimeRuns, PublishRun(o, r),
           UNCHANGED record
    PROVE  PaperInv'
<1> DEFINE work == [task |-> "insert_run", run |-> r]
<1>1. work \in Jobs /\ work.task = "insert_run" /\ work.run = r
  BY DEF Jobs
<1>2. job'[o] = work /\ (\A p \in Operators : p # o => job'[p] = job[p]) /\ job[o] = None
  BY OtherJobs DEF PublishRun, PaperInv
<1>3. /\ runFiles' = runFiles \cup {r}
      /\ UNCHANGED <<freezeRows, runRows, verdictRow, freezeFiles, verdictFile, contested>>
      /\ r.freeze \in freezeRows /\ Prospective(r)
      /\ job' = [job EXCEPT ![o] = work]
  BY DEF PublishRun, paperRows, FreezeStored, Take
<1> HIDE DEF work
<1>4. PaperTypeOK'
  BY <1>1, <1>3 DEF PaperInv, PaperTypeOK
<1>5. RowsBacked'
  BY <1>1, <1>2, <1>3
     DEF PaperInv, RowsBacked, JobBacked, Does, Prospective, Accepts, Advances, Action
<1>6. Contested' /\ FileOnce' /\ VerdictsReadable'
  BY <1>1, <1>2, <1>3 DEF PaperInv, Contested, FileOnce, VerdictsReadable, Finishing, Does
<1> QED BY <1>4, <1>5, <1>6 DEF PaperInv

\* The row is inserted, or the operator dies: its job is gone.
LEMMA DoneStep ==
    ASSUME PaperInv, NEW o \in Operators, Finished(o), UNCHANGED <<record, paperFiles, contested>>,
           freezeRows' \subseteq freezeFiles, freezeRows \subseteq freezeRows',
           runRows' \subseteq runFiles, runRows \subseteq runRows',
           TableOK(verdictRow)', VerdictsReadable'
    PROVE  PaperInv'
<1>1. job' = [job EXCEPT ![o] = None]
  BY DEF Finished, Take
<1>2. job'[o] = None /\ \A p \in Operators : p # o => job'[p] = job[p]
  BY OtherJobs DEF Finished, PaperInv
<1>3. UNCHANGED <<freezeFiles, runFiles, verdictFile, contested>>
  BY DEF paperFiles
<1>4. PaperTypeOK'
  <2>1. freezeRows' \subseteq Freezes /\ runRows' \subseteq RuntimeRuns
    BY DEF PaperInv, PaperTypeOK
  <2>2. TableOK(verdictFile)'
    BY <1>3, PaperTypes DEF PaperInv, TableOK
  <2>3. job' \in [Operators -> Jobs \cup {None}]
    BY <1>1 DEF PaperInv, PaperTypeOK
  <2>4. TableOK(verdictRow)'
    OBVIOUS
  <2> QED BY <1>3, <2>1, <2>2, <2>3, <2>4 DEF PaperTypeOK, TableOK, PaperInv
<1>5. RowsBacked'
  BY <1>2, <1>3
     DEF PaperInv, RowsBacked, JobBacked, Does, Prospective, Accepts, Advances, Action
<1>6. Contested' /\ FileOnce'
  BY <1>2, <1>3 DEF PaperInv, Contested, FileOnce, Finishing, Does
<1> QED BY <1>4, <1>5, <1>6 DEF PaperInv

LEMMA InsertStep ==
    ASSUME PaperInv, NEW o \in Operators, UNCHANGED record,
           InsertFreeze(o) \/ InsertRun(o) \/ OperatorDies(o)
    PROVE  PaperInv'
<1>1. Finished(o) /\ UNCHANGED <<paperFiles, contested, verdictRow>>
  BY DEF InsertFreeze, InsertRun, OperatorDies, paperRows
<1>2. TableOK(verdictRow)' /\ VerdictsReadable'
  BY <1>1, PaperTypes DEF PaperInv, VerdictsReadable, TableOK, paperFiles
<1>3. /\ freezeRows' \subseteq freezeFiles /\ freezeRows \subseteq freezeRows'
      /\ runRows' \subseteq runFiles /\ runRows \subseteq runRows'
  BY DEF InsertFreeze, InsertRun, OperatorDies, paperRows, PaperInv, RowsBacked, JobBacked
<1> QED BY <1>1, <1>2, <1>3, DoneStep

LEMMA InsertVerdictStep ==
    ASSUME PaperInv, NEW o \in Operators, UNCHANGED record, InsertVerdict(o)
    PROVE  PaperInv'
<1> DEFINE r == job[o].run
           report == job[o].report
<1>1. Finished(o) /\ UNCHANGED <<paperFiles, contested, freezeRows, runRows>>
  BY DEF InsertVerdict
<1>2. r \in RuntimeRuns /\ report \in Reports
  BY JobsAreRecords DEF InsertVerdict, Does, PaperInv, PaperTypeOK, Jobs
<1>3. UNCHANGED <<freezeFiles, runFiles, verdictFile>>
  BY <1>1 DEF paperFiles
<1>4. TableOK(verdictRow) /\ VerdictsReadable
  BY PaperTypes DEF PaperInv
<1>5. TableOK(verdictRow)' /\ VerdictsReadable'
  <2>1. CASE UNCHANGED verdictRow
    BY <1>1, <1>3, <1>4, <2>1 DEF TableOK, VerdictsReadable
  <2>2. CASE verdictRow' = Put(verdictRow, r, report)
    <3>1. /\ TableOK(Put(verdictRow, r, report))
          /\ DOMAIN verdictRow' = DOMAIN verdictRow \cup {r}
          /\ verdictRow'[r] = report
          /\ \A x \in DOMAIN verdictRow : x # r => verdictRow'[x] = verdictRow[x]
      <4>1. TableOK(verdictRow)
        BY <1>4
      <4> HIDE DEF r, report
      <4>2. /\ TableOK(Put(verdictRow, r, report))
            /\ DOMAIN Put(verdictRow, r, report) = DOMAIN verdictRow \cup {r}
            /\ Put(verdictRow, r, report)[r] = report
            /\ \A x \in DOMAIN verdictRow : x # r => Put(verdictRow, r, report)[x] = verdictRow[x]
        BY <1>2, <4>1, PutTable
      <4> QED BY <2>2, <4>2
    <3>2. r \notin contested => r \in DOMAIN verdictFile /\ verdictFile[r] = report
      BY DEF InsertVerdict, PaperInv, FileOnce
    <3>3. VerdictsReadable'
      BY <1>1, <1>3, <1>4, <3>1, <3>2 DEF VerdictsReadable
    <3>4. TableOK(verdictRow)'
      BY <2>2, <3>1 DEF TableOK
    <3> QED BY <3>3, <3>4
  <2> QED BY <2>1, <2>2 DEF InsertVerdict
<1>6. freezeRows' \subseteq freezeFiles /\ runRows' \subseteq runFiles
  BY <1>1 DEF PaperInv, RowsBacked
<1> QED BY <1>1, <1>5, <1>6, DoneStep

LEMMA FinishStep ==
    ASSUME PaperInv, NEW o \in Operators, NEW r \in RuntimeRuns, NEW report \in Reports,
           NEW policy \in Policies, Finish(o, r, report, policy), UNCHANGED record
    PROVE  PaperInv'
<1> DEFINE work == [task |-> Look(r, report), run |-> r, report |-> report]
<1>1. Look(r, report) \in {"publish_verdict", "insert_verdict"}
  BY DEF Finish, Look
<1>2. work \in Jobs /\ work.task = Look(r, report) /\ work.run = r /\ work.report = report
  BY <1>1 DEF Jobs
<1>3. job'[o] = work /\ (\A p \in Operators : p # o => job'[p] = job[p]) /\ job[o] = None
  BY OtherJobs DEF Finish, PaperInv
<1>4. /\ r \in runRows /\ Accepts(r, report)
      /\ UNCHANGED <<freezeRows, runRows, verdictRow, freezeFiles, runFiles, verdictFile>>
      /\ job' = [job EXCEPT ![o] = work]
  BY DEF Finish, paperRows, paperFiles, RunStored, Take
<1>5. /\ contested \subseteq contested' /\ contested' \subseteq contested \cup {r}
      /\ \A p \in Operators : Finishing(p, r) => r \in contested'
  BY DEF Finish
<1> HIDE DEF work
<1>6. PaperTypeOK'
  <2>1. contested' \subseteq RuntimeRuns
    BY <1>5 DEF PaperInv, PaperTypeOK
  <2> QED BY <1>2, <1>4, <2>1 DEF PaperInv, PaperTypeOK
<1>7. RowsBacked'
  BY <1>1, <1>2, <1>3, <1>4
     DEF PaperInv, RowsBacked, JobBacked, Does, Prospective, Accepts, Advances, Action
<1>8. Contested'
  BY <1>2, <1>3, <1>5 DEF PaperInv, Contested, Finishing, Does
<1>9. FileOnce'
  <2>1. SUFFICES ASSUME NEW p \in Operators
        PROVE  /\ Does(p, "publish_verdict")' /\ job'[p].run \notin contested' =>
                     job'[p].run \notin DOMAIN verdictFile
               /\ Does(p, "insert_verdict")' /\ job'[p].run \notin contested' =>
                     /\ job'[p].run \in DOMAIN verdictFile
                     /\ verdictFile[job'[p].run] = job'[p].report
    BY <1>4 DEF FileOnce
  <2>2. CASE p = o
    BY <1>2, <1>3, <2>2 DEF Look, Does
  <2>3. CASE p # o
    BY <1>3, <1>5, <2>3 DEF PaperInv, FileOnce, Does
  <2> QED BY <2>2, <2>3
<1>10. VerdictsReadable'
  BY <1>4, <1>5 DEF PaperInv, VerdictsReadable
<1> QED BY <1>6, <1>7, <1>8, <1>9, <1>10 DEF PaperInv

LEMMA PublishVerdictStep ==
    ASSUME PaperInv, NEW o \in Operators, PublishVerdict(o), UNCHANGED record
    PROVE  PaperInv'
<1> DEFINE r == job[o].run
           report == job[o].report
           work == [job[o] EXCEPT !.task = "insert_verdict"]
<1>1. /\ r \in RuntimeRuns /\ report \in Reports /\ Does(o, "publish_verdict")
      /\ job[o] \in [task: {"publish_verdict", "insert_verdict"}, run: RuntimeRuns, report: Reports]
  BY JobsAreRecords DEF PublishVerdict, Does, PaperInv, PaperTypeOK, Jobs
<1>2. work \in Jobs /\ work.task = "insert_verdict" /\ work.run = r /\ work.report = report
  BY <1>1 DEF Jobs
<1>3. job'[o] = work /\ (\A p \in Operators : p # o => job'[p] = job[p])
  BY OtherJobs DEF PublishVerdict, PaperInv
<1>4. /\ UNCHANGED <<freezeRows, runRows, verdictRow, freezeFiles, runFiles, contested>>
      /\ job' = [job EXCEPT ![o] = work]
      /\ verdictFile' = Put(verdictFile, r, report)
  BY DEF PublishVerdict, paperRows, Take
<1>5. /\ TableOK(verdictFile')
      /\ DOMAIN verdictFile' = DOMAIN verdictFile \cup {r}
      /\ verdictFile'[r] = report
      /\ \A x \in DOMAIN verdictFile : x # r => verdictFile'[x] = verdictFile[x]
  <2>1. TableOK(verdictFile)
    BY PaperTypes DEF PaperInv
  <2>2. r \in RuntimeRuns /\ report \in Reports
    BY <1>1
  <2> HIDE DEF r, report
  <2>3. /\ TableOK(Put(verdictFile, r, report))
        /\ DOMAIN Put(verdictFile, r, report) = DOMAIN verdictFile \cup {r}
        /\ Put(verdictFile, r, report)[r] = report
        /\ \A x \in DOMAIN verdictFile : x # r => Put(verdictFile, r, report)[x] = verdictFile[x]
    BY <2>1, <2>2, PutTable
  <2> QED BY <1>4, <2>3
<1>6. r \notin contested => r \notin DOMAIN verdictFile
  BY <1>1 DEF PaperInv, FileOnce
<1>7. r \in runRows /\ Accepts(r, report)
  BY <1>1 DEF PaperInv, RowsBacked, JobBacked
<1>8. \A p \in Operators : p # o /\ Finishing(p, r) => r \in contested
  BY <1>1 DEF PaperInv, Contested, Finishing
<1> HIDE DEF work, r, report
<1>9. PaperTypeOK'
  BY <1>2, <1>4, <1>5 DEF PaperInv, PaperTypeOK, TableOK
<1>10. RowsBacked'
  BY <1>2, <1>3, <1>4, <1>7
     DEF PaperInv, RowsBacked, JobBacked, Does, Prospective, Accepts, Advances, Action
<1>11. Contested'
  <2>1. \A p \in Operators, x \in RuntimeRuns : Finishing(p, x)' => Finishing(p, x)
    BY <1>1, <1>2, <1>3 DEF Finishing, Does, r
  <2> QED BY <1>4, <2>1 DEF PaperInv, Contested
<1>12. FileOnce'
  <2>1. SUFFICES ASSUME NEW p \in Operators, job'[p].run \notin contested
        PROVE  /\ Does(p, "publish_verdict")' => job'[p].run \notin DOMAIN verdictFile'
               /\ Does(p, "insert_verdict")' =>
                     /\ job'[p].run \in DOMAIN verdictFile'
                     /\ verdictFile'[job'[p].run] = job'[p].report
    BY <1>4 DEF FileOnce
  <2>2. CASE p = o
    BY <1>2, <1>3, <1>5, <2>2 DEF Does
  <2>3. CASE p # o
    <3>1. Finishing(p, job[p].run) \/ ~(Does(p, "publish_verdict") \/ Does(p, "insert_verdict"))
      BY DEF Finishing
    <3>2. Does(p, "publish_verdict") \/ Does(p, "insert_verdict") => job[p].run # r
      BY <1>3, <1>8, <2>1, <2>3, <3>1
    <3> QED BY <1>3, <1>5, <2>1, <2>3, <3>2 DEF PaperInv, FileOnce, Does
  <2> QED BY <2>2, <2>3
<1>13. VerdictsReadable'
  BY <1>4, <1>5, <1>6 DEF PaperInv, VerdictsReadable
<1> QED BY <1>9, <1>10, <1>11, <1>12, <1>13 DEF PaperInv

LEMMA OperateStep ==
    ASSUME PaperInv, NEW o \in Operators, Operate(o), UNCHANGED record PROVE PaperInv'
BY FreezeStep, RunStep, FinishStep, InsertStep, PublishVerdictStep, InsertVerdictStep DEF Operate

\* A robustness run disturbs nothing here: a record that is there stays.
LEMMA RobustnessKeepsPaper ==
    ASSUME RobustnessInv, PaperInv, RobustnessNext, UNCHANGED paperVars PROVE PaperInv'
<1>1. PICK w \in Workers : Run(w)
  BY DEF RobustnessNext
<1>2. record = record' \/ record = None
  BY <1>1, RecordOnce DEF RobustnessInv
<1>3. UNCHANGED <<freezeRows, runRows, verdictRow, freezeFiles, runFiles, verdictFile, job, contested>>
  BY DEF paperVars, paperRows, paperFiles
<1>4. \A o \in Operators : Does(o, "insert_freeze") => record # None
  <2> SUFFICES ASSUME NEW o \in Operators, Does(o, "insert_freeze") PROVE record # None
    OBVIOUS
  <2>1. job[o].freeze \in Freezes
    BY JobsAreRecords DEF Does, PaperInv, PaperTypeOK, Jobs
  <2> QED BY <2>1, RobustnessAssumption DEF PaperInv, RowsBacked, JobBacked, Freezes
<1>5. RowsBacked'
  BY <1>2, <1>3, <1>4
     DEF PaperInv, RowsBacked, JobBacked, Does, Prospective, Accepts, Advances, Action
<1>6. PaperTypeOK' /\ Contested' /\ FileOnce' /\ VerdictsReadable'
  BY <1>3
     DEF PaperInv, PaperTypeOK, Contested, FileOnce, VerdictsReadable, Finishing, Does
<1> QED BY <1>5, <1>6 DEF PaperInv

-----------------------------------------------------------------------------
(* The two stores together                                                  *)

Inv == RobustnessInv /\ PaperInv

LEMMA InvInit == Init => Inv
BY RobustnessInvInit, PaperInvInit DEF Init, Inv

LEMMA InvStep == Inv /\ [Next]_vars => Inv'
<1> SUFFICES ASSUME Inv, [Next]_vars PROVE Inv'
  OBVIOUS
<1>1. CASE RobustnessNext /\ UNCHANGED paperVars
  BY <1>1, RobustnessInvStep, RobustnessKeepsPaper DEF Inv
<1>2. CASE (\E o \in Operators : Operate(o)) /\ UNCHANGED robustnessVars
  BY <1>2, RobustnessInvStep, OperateStep DEF Inv, robustnessVars
<1>3. CASE UNCHANGED vars
  <2>1. RobustnessInv'
    BY <1>3, RobustnessInvStep DEF Inv, vars
  <2>2. UNCHANGED <<freezeRows, runRows, verdictRow, freezeFiles, runFiles, verdictFile, job,
                    contested, record>>
    BY <1>3 DEF vars, paperVars, paperRows, paperFiles, robustnessVars
  <2>3. PaperInv'
    BY <2>2
       DEF Inv, PaperInv, PaperTypeOK, RowsBacked, JobBacked, Contested, FileOnce,
           VerdictsReadable, Finishing, Does, Prospective, Accepts, Advances, Action
  <2> QED BY <2>1, <2>3 DEF Inv
<1> QED
  BY <1>1, <1>2, <1>3 DEF Next

\* The variables of both stores have their types.
THEOREM PaperTyped == Spec => []TypeOK
<1>1. Inv => TypeOK
  BY DEF Inv, RobustnessInv, TypeInv, PaperInv, TypeOK
<1> QED BY InvInit, InvStep, <1>1, PTL DEF Spec

LEMMA EvidenceInv == Spec => []Inv
BY InvInit, InvStep, PTL DEF Spec

\* What is proved of robustness runs alone holds beside the operators of the runtime
\* store.  First, the record of the survivor can be reused: its verdict's document is
\* there unless two runs overlapped, and its cells unless one also raised late.
THEOREM RecordBacked == Spec => []EvidenceBacked
<1>1. Inv => EvidenceBacked
  BY RobustnessInvMeans DEF Inv
<1> QED BY EvidenceInv, <1>1, PTL

\* A run that fails unlinks what it made and nothing else: once it has cleaned up, the
\* artifacts are those it found, as long as nothing overlapped or raised late.
THEOREM FailedRunClean == Spec => []FailedRunLeavesNothing
<1>1. Inv => FailedRunLeavesNothing
  BY RobustnessInvMeans DEF Inv
<1> QED BY EvidenceInv, <1>1, PTL

\* Every run that gets as far as its readback, alone or beside others, returns the
\* verdict that is in the ledger.
THEOREM AnswerOfLedger == Spec => []AnswersAgree
<1>1. Inv => AnswersAgree
  BY RobustnessInvMeans DEF Inv
<1> QED BY EvidenceInv, <1>1, PTL

\* paper_runtime.py publishes the artifact before it inserts the row, and never replaces
\* either: whoever dies in between, every row that was inserted reads back, verdicts as
\* long as no two operators finish the same run at once.
THEOREM RowsReadableHolds == Spec => []RowsReadable
<1>1. Inv => RowsReadable
  BY DEF Inv, PaperInv, RowsBacked, VerdictsReadable, RowsReadable
<1> QED BY InvInit, InvStep, <1>1, PTL DEF Spec

-----------------------------------------------------------------------------
(* Refinement                                                               *)

LEMMA LedgerInitially == Init => Ledger!Init
BY DEF Init, RobustnessInit, PaperInit, Ledger!Init

ledgerVars == <<record, freezeRows, runRows, verdictRow>>

LEMMA RobustnessIsLedger ==
    ASSUME Inv, RobustnessNext, UNCHANGED paperVars PROVE [Ledger!Next]_ledgerVars
<1>1. PICK w \in Workers : Run(w)
  BY DEF RobustnessNext
<1>2. UNCHANGED <<freezeRows, runRows, verdictRow>>
  BY DEF paperVars, paperRows
<1>3. CASE UNCHANGED record
  BY <1>2, <1>3 DEF ledgerVars
<1>4. CASE record = None /\ record' = Verdict(w) /\ At(w, "record")
  <2>1. Verdict(w) \in Verdicts
    BY <1>4, VerdictType DEF Inv, RobustnessInv, TypeInv, LocalsOK, At, Formed
  <2> QED BY <1>2, <1>4, <2>1 DEF Ledger!Next, Ledger!Decide
<1> QED
  BY <1>1, <1>3, <1>4, RecordOnce DEF Inv, RobustnessInv

LEMMA OperateIsLedger ==
    ASSUME Inv, NEW o \in Operators, Operate(o), UNCHANGED record PROVE [Ledger!Next]_ledgerVars
<1>1. CASE InsertFreeze(o)
  <2>1. job[o].freeze \in Freezes
    BY <1>1, JobsAreRecords DEF InsertFreeze, Does, Inv, PaperInv, PaperTypeOK, Jobs
  <2>2. record = job[o].freeze.verdict /\ Advances(record)
    BY <1>1 DEF InsertFreeze, Inv, PaperInv, RowsBacked, JobBacked
  <2>3. Ledger!Freeze(job[o].freeze)
    BY <1>1, <2>2 DEF InsertFreeze, Ledger!Freeze
  <2> QED BY <2>1, <2>3 DEF Ledger!Next
<1>2. CASE InsertRun(o)
  <2>1. job[o].run \in RuntimeRuns
    BY <1>2, JobsAreRecords DEF InsertRun, Does, Inv, PaperInv, PaperTypeOK, Jobs
  <2>2. Ledger!Start(job[o].run)
    BY <1>2 DEF InsertRun, Ledger!Start, Inv, PaperInv, RowsBacked, JobBacked
  <2> QED BY <2>1, <2>2 DEF Ledger!Next
<1>3. CASE InsertVerdict(o)
  <2> DEFINE r == job[o].run
             report == job[o].report
  <2>1. r \in RuntimeRuns /\ report \in Reports
    BY <1>3, JobsAreRecords DEF InsertVerdict, Does, Inv, PaperInv, PaperTypeOK, Jobs
  <2>2. r \in runRows /\ Accepts(r, report)
    BY <1>3 DEF InsertVerdict, Inv, PaperInv, RowsBacked, JobBacked
  <2>3. CASE r \in DOMAIN verdictRow \/ ~Checked(report)
    BY <1>3, <2>3 DEF InsertVerdict, ledgerVars
  <2>4. CASE r \notin DOMAIN verdictRow /\ Checked(report)
    <3>1. Recorded(r, report)
      BY <2>2, <2>4 DEF Recorded
    <3>2. Ledger!Finish(r, report)
      BY <1>3, <2>2, <2>4, <3>1 DEF InsertVerdict, Ledger!Finish, Ledger!Put, Put
    <3> QED BY <2>1, <3>2 DEF Ledger!Next
  <2> QED BY <2>3, <2>4
<1>4. CASE PublishVerdict(o) \/ OperatorDies(o)
  BY <1>4 DEF PublishVerdict, OperatorDies, paperRows, ledgerVars
<1>5. CASE (\E f \in Freezes : PublishFreeze(o, f)) \/ (\E r \in RuntimeRuns : PublishRun(o, r))
  BY <1>5 DEF PublishFreeze, PublishRun, paperRows, ledgerVars
<1>6. CASE \E r \in RuntimeRuns, report \in Reports, policy \in Policies : Finish(o, r, report, policy)
  BY <1>6 DEF Finish, paperRows, ledgerVars
<1> QED
  BY <1>1, <1>2, <1>3, <1>4, <1>5, <1>6 DEF Operate

\* Robustness and the runtime store, their files, processes, overlaps and crashes
\* implement the ledger of EvidenceLedger: one robustness verdict, a freeze only of a
\* verdict that advances, a run only of a freeze and on bars after its boundary, one
\* report of a run, and no row ever replaced.
THEOREM ImplementsLedger == Spec => LedgerSpec
<1>1. Inv /\ [Next]_vars => [Ledger!Next]_ledgerVars
  <2> SUFFICES ASSUME Inv, [Next]_vars PROVE [Ledger!Next]_ledgerVars
    OBVIOUS
  <2>1. CASE RobustnessNext /\ UNCHANGED paperVars
    BY <2>1, RobustnessIsLedger
  <2>2. CASE (\E o \in Operators : Operate(o)) /\ UNCHANGED robustnessVars
    BY <2>2, OperateIsLedger DEF robustnessVars
  <2>3. CASE UNCHANGED vars
    BY <2>3 DEF vars, robustnessVars, paperVars, paperRows, ledgerVars
  <2> QED BY <2>1, <2>2, <2>3 DEF Next
<1> QED
  BY InvInit, InvStep, LedgerInitially, <1>1, PTL DEF Spec, LedgerSpec, Ledger!Spec, ledgerVars
===============================================================================
