-------------------------- MODULE RobustnessEvidence --------------------------
(***************************************************************************)
(* run_persisted_robustness of strategy_robustness.py with                 *)
(* publish_robustness, record_robustness and existing_robustness of        *)
(* strategy_lab.py, for one survivor of one campaign: the robustness       *)
(* experiment derived from it, its matrix of cells, the artifact of every  *)
(* cell, the documents of the aggregate and the row of robustness_results. *)
(*                                                                         *)
(* No lock is taken: processes run side by side, look whether a path       *)
(* exists before they write it, and on an exception unlink what they count *)
(* as created.  The campaign's census is stored for good before the first  *)
(* run, so trial context and survivor are the same in every run.           *)
(***************************************************************************)
EXTENDS RobustnessMatrix

CONSTANTS Workers,  \* processes that run robustness for the survivor
          Cells,    \* the number of cells of the matrix, which are taken in their order
          Yields,   \* cell -> the results its evaluation can come to
          None

\* RobustnessCellResult: "fail" is an economic failure or a pass that is not claimable,
\* "error" is a technical one: the evaluation or its publication raised, and it
\* refers to no artifact (what run_candidate_backtest returns is always evaluated).
Results == {"pass", "fail", "error"}

\* The aggregate verdict is addressed by its content, the results of all cells.
Verdicts == [1..Cells -> Results]

ASSUME RobustnessAssumption ==
    /\ Cells \in Nat \ {0} /\ Cells = Cardinality(Matrix)
    /\ Yields \in [1..Cells -> SUBSET {"pass", "fail"}]
    /\ None \notin Results \cup Verdicts

VARIABLES
    cellFile,  \* cell -> what its nautilus-verdict-v1.json says, or None
    documents, \* the verdicts whose aggregate directory is complete
    record,    \* table robustness_results: the verdict of the experiment, or None
    step,      \* worker -> the step it is about to take
    results,   \* worker -> the results of the cells it has evaluated, in their order
    drawn,     \* worker -> the result it is about to publish and whether it saw the
               \* path missing, or None
    made,      \* worker -> created_cell_paths
    wrote,     \* worker -> does it count the aggregate documents as created?
    before,    \* history: worker -> the artifacts when its run began
    lapses     \* history: "overlap" when two runs were under way at once, "late" when
               \* one raised after its commit

store == <<cellFile, documents>>
local == <<step, results, drawn, made, wrote, before>>
robustnessVars == <<store, record, local, lapses>>

Steps == {"idle", "evaluate", "publish", "documents", "record", "unwind",
          "remove", "readback", "cleanup"}

-----------------------------------------------------------------------------
At(w, s)   == step[w] = s
Goto(w, s) == step' = [step EXCEPT ![w] = s]

\* The cell w works on, and the verdict its results amount to once they are complete.
Cell(w)    == Len(results[w]) + 1
Verdict(w) == results[w]

\* _cell_derived_verdict_closure: the action of a verdict.
Action(v) ==
    IF ~Complete \/ \E k \in 1..Cells : v[k] = "error" THEN "FIX_TECHNICAL"
    ELSE IF \E k \in 1..Cells : v[k] = "fail" THEN "MUTATE" ELSE "ADVANCE"

\* _verify_formal_cell_artifacts: every artifact a verdict refers to reads back.
CellsRead(v) == \A k \in 1..Cells : v[k] # "error" => cellFile[k] = v[k]

\* existing_robustness and the readback of the cells.
Readable(v) == v \in documents /\ CellsRead(v)

RobustnessInit ==
    /\ cellFile = [k \in 1..Cells |-> None]
    /\ documents = {}
    /\ record = None
    /\ step = [w \in Workers |-> "idle"]
    /\ results = [w \in Workers |-> <<>>]
    /\ drawn = [w \in Workers |-> None]
    /\ made = [w \in Workers |-> {}]
    /\ wrote = [w \in Workers |-> FALSE]
    /\ before = [w \in Workers |-> None]
    /\ lapses = {}

\* The process of w ends.
Leave(w) ==
    /\ Goto(w, "idle")
    /\ results' = [results EXCEPT ![w] = <<>>]
    /\ drawn' = [drawn EXCEPT ![w] = None]
    /\ made' = [made EXCEPT ![w] = {}]
    /\ wrote' = [wrote EXCEPT ![w] = FALSE]
    /\ before' = [before EXCEPT ![w] = None]

\* The exception reaches cleanup_created_cells.
CleanUp(w) ==
    /\ Goto(w, "cleanup")
    /\ results' = [results EXCEPT ![w] = <<>>]
    /\ wrote' = [wrote EXCEPT ![w] = FALSE]

-----------------------------------------------------------------------------
(* One run                                                                  *)

\* A record of the experiment is returned as it is, or the run raises.
Reuse(w) ==
    /\ At(w, "idle")
    /\ record # None /\ Readable(record)
    /\ UNCHANGED <<store, record, local, lapses>>

Begin(w) ==
    /\ At(w, "idle")
    /\ record = None
    /\ Goto(w, "evaluate")
    /\ lapses' = IF \E v \in Workers : ~At(v, "idle") THEN lapses \cup {"overlap"} ELSE lapses
    /\ before' = [v \in Workers |-> IF v = w /\ lapses' = {} THEN store ELSE None]
    /\ UNCHANGED <<store, record, results, drawn, made, wrote>>

\* evaluate_robustness_matrix: the evaluator raises, which is evidence of its own ...
EvaluateFails(w) ==
    /\ At(w, "evaluate") /\ Cell(w) \in 1..Cells
    /\ results' = [results EXCEPT ![w] = Append(@, "error")]
    /\ UNCHANGED <<store, record, step, drawn, made, wrote, before, lapses>>

\* ... or returns, and publish_cell looks whether the path exists.
Evaluate(w) ==
    /\ At(w, "evaluate") /\ Cell(w) \in 1..Cells
    /\ \E result \in Yields[Cell(w)] :
          drawn' = [drawn EXCEPT ![w] =
                       [result |-> result, missing |-> cellFile[Cell(w)] = None]]
    /\ Goto(w, "publish")
    /\ UNCHANGED <<store, record, results, made, wrote, before, lapses>>

\* _atomic_publish: written, found identical, or written over what appeared after it had
\* looked; the fsync or the readback may still raise.  Else an immutable artifact conflict.
CellPublished(w) ==
    \/ /\ drawn[w].missing \/ cellFile[Cell(w)] \in {None, drawn[w].result}
       /\ cellFile' = [cellFile EXCEPT ![Cell(w)] = drawn[w].result]
       /\ \E result \in {drawn[w].result, "error"} :
             results' = [results EXCEPT ![w] = Append(@, result)]
    \/ /\ cellFile[Cell(w)] \notin {None, drawn[w].result}
       /\ results' = [results EXCEPT ![w] = Append(@, "error")]
       /\ UNCHANGED cellFile

\* Mutant: the path is noted as created only when the publication succeeded.
MadeOnSuccess(w) ==
    IF drawn[w].missing /\ results'[w][Cell(w)] # "error" THEN made[w] \cup {Cell(w)} ELSE made[w]

\* The finally clause of publish_cell.
Made(w) == IF drawn[w].missing THEN made[w] \cup {Cell(w)} ELSE made[w]

PublishCell(w) ==
    /\ At(w, "publish")
    /\ CellPublished(w)
    /\ made' = [made EXCEPT ![w] = Made(w)]
    /\ drawn' = [drawn EXCEPT ![w] = None]
    /\ Goto(w, "evaluate")
    /\ UNCHANGED <<documents, record, wrote, before, lapses>>

\* The verdict, its feedback and its action are built and the cells it refers to are read
\* back; then publish_robustness looks which documents exist.
Verify(w) ==
    /\ At(w, "evaluate") /\ Len(results[w]) = Cells
    /\ \/ /\ CellsRead(Verdict(w))
          /\ wrote' = [wrote EXCEPT ![w] = Verdict(w) \notin documents]
          /\ Goto(w, "documents")
          /\ UNCHANGED results
       \/ ~CellsRead(Verdict(w)) /\ CleanUp(w)
    /\ UNCHANGED <<store, record, drawn, made, before, lapses>>

\* The child hypothesis of a mutation, the verdict, the feedback and the action.
PublishDocuments(w) ==
    /\ At(w, "documents")
    /\ documents' = documents \cup {Verdict(w)}
    /\ Goto(w, "record")
    /\ UNCHANGED <<cellFile, record, results, drawn, made, wrote, before, lapses>>

\* Mutant: a row of the same experiment is taken for the row of this run.
RecordTaken(w) == Verdict(w) \in documents

\* record_robustness finds its artifacts and no other row for the experiment.
Recordable(w) == Verdict(w) \in documents /\ record \in {None, Verdict(w)}

Record(w) ==
    /\ At(w, "record")
    /\ \/ /\ Recordable(w)
          /\ record' = IF record = None THEN Verdict(w) ELSE record
          /\ Goto(w, "readback")
       \/ /\ ~Recordable(w)
          /\ Goto(w, "unwind")
          /\ UNCHANGED record
    /\ UNCHANGED <<store, results, drawn, made, wrote, before, lapses>>

\* existing_robustness must return the record just written.
Readback(w) ==
    /\ At(w, "readback")
    /\ Verdict(w) \in documents
    /\ Leave(w)
    /\ UNCHANGED <<store, record, lapses>>

-----------------------------------------------------------------------------
(* Exceptions and crashes                                                   *)

\* An ordinary exception before the commit: a database that stays locked, an I/O error.
Raise(w) ==
    /\ \/ At(w, "documents") /\ CleanUp(w)
       \/ At(w, "record") /\ Goto(w, "unwind") /\ UNCHANGED <<results, wrote>>
    /\ UNCHANGED <<store, record, drawn, made, before, lapses>>

\* After the commit: record_robustness looks at the child hypothesis once more, or the
\* readback raises or finds a document missing.  The row stays.
RaiseLate(w) ==
    /\ \/ /\ At(w, "record") /\ Recordable(w)
          /\ record' = IF record = None THEN Verdict(w) ELSE record
          /\ Goto(w, "unwind")
          /\ UNCHANGED <<results, wrote>>
       \/ At(w, "readback") /\ CleanUp(w) /\ UNCHANGED record
    /\ lapses' = lapses \cup {"late"}
    /\ UNCHANGED <<store, drawn, made, before>>

\* Mutant: the handler does not look whether the row was committed.
RemovableAlways(w) == wrote[w]

\* created_paths of publish_robustness, unless the row is there.
Removable(w) == wrote[w] /\ record # Verdict(w)

\* The handler of publish_robustness selects the row (a SELECT that succeeds) ...
Unwind(w) ==
    /\ At(w, "unwind")
    /\ \/ Removable(w) /\ Goto(w, "remove") /\ UNCHANGED <<results, wrote>>
       \/ ~Removable(w) /\ CleanUp(w)
    /\ UNCHANGED <<store, record, drawn, made, before, lapses>>

\* ... and then unlinks the documents it created.
Remove(w) ==
    /\ At(w, "remove")
    /\ documents' = documents \ {Verdict(w)}
    /\ CleanUp(w)
    /\ UNCHANGED <<cellFile, record, drawn, made, before, lapses>>

\* cleanup_created_cells unlinks in reverse order; then the exception leaves the run.
Unlink(w) ==
    /\ At(w, "cleanup")
    /\ \E k \in made[w] :
          /\ \A j \in made[w] : j <= k
          /\ cellFile' = [cellFile EXCEPT ![k] = None]
          /\ made' = [made EXCEPT ![w] = @ \ {k}]
    /\ UNCHANGED <<documents, record, step, results, drawn, wrote, before, lapses>>

Fail(w) ==
    /\ At(w, "cleanup") /\ made[w] = {}
    /\ Leave(w)
    /\ UNCHANGED <<store, record, lapses>>

\* The process dies and cleans up nothing.
Die(w) ==
    /\ ~At(w, "idle")
    /\ Leave(w)
    /\ UNCHANGED <<store, record, lapses>>

-----------------------------------------------------------------------------
Run(w) ==
    \/ Reuse(w) \/ Begin(w) \/ EvaluateFails(w) \/ Evaluate(w) \/ PublishCell(w)
    \/ Verify(w) \/ PublishDocuments(w) \/ Record(w) \/ Readback(w)
    \/ Raise(w) \/ RaiseLate(w) \/ Unwind(w) \/ Remove(w) \/ Unlink(w) \/ Fail(w) \/ Die(w)

RobustnessNext == \E w \in Workers : Run(w)

RobustnessSpec == RobustnessInit /\ [][RobustnessNext]_robustnessVars

-----------------------------------------------------------------------------
(* Properties                                                               *)

CellFiles == [1..Cells -> {"pass", "fail", None}]
Stores == CellFiles \X SUBSET Verdicts

\* The variables have their types.
RobustnessTypeOK ==
    /\ cellFile \in CellFiles
    /\ documents \subseteq Verdicts
    /\ record \in Verdicts \cup {None}
    /\ step \in [Workers -> Steps]
    /\ results \in [Workers -> Seq(Results)]
    /\ \A w \in Workers : Len(results[w]) <= Cells
    /\ drawn \in [Workers -> [result: {"pass", "fail"}, missing: BOOLEAN] \cup {None}]
    /\ made \in [Workers -> SUBSET (1..Cells)]
    /\ wrote \in [Workers -> BOOLEAN]
    /\ before \in [Workers -> Stores \cup {None}]
    /\ lapses \subseteq {"overlap", "late"}

\* docs/contracts/strategy-robustness-v1.md:30, "Reuse requires canonical hash/readback":
\* whatever a run left behind when it failed or died, the record of the survivor can be
\* reused.  Only runs that overlapped may have unlinked documents the record refers to,
\* and only those, or one that raised after its commit, its cells.
EvidenceBacked ==
    record # None =>
        /\ "overlap" \notin lapses => record \in documents
        /\ lapses = {} => CellsRead(record)

\* docs/contracts/strategy-robustness-v1.md:23, "removes only newly created aggregate and
\* cell artifacts": a run that fails leaves the artifacts as it found them.
FailedRunLeavesNothing ==
    \A w \in Workers :
        At(w, "cleanup") /\ made[w] = {} /\ lapses = {} => before[w] = store

\* Every run for the survivor, alone or beside others, returns the verdict in the ledger.
AnswersAgree == \A w \in Workers : At(w, "readback") => record = Verdict(w)
===============================================================================
