--------------------------- MODULE StrategyCampaign ---------------------------
(***************************************************************************)
(* The campaign runner: run_strategy_campaign of strategy_lab.py with its  *)
(* reuse lookup, executor and reconciliation, and run_campaign of          *)
(* strategy_campaign.py.  Campaigns serialise on campaign.lock; inside it  *)
(* each attempt takes the lock of its experiment, which a standalone       *)
(* strategy loop (the rival) may hold.  Below the experiment the loop is   *)
(* taken as StrategyLoop's abstract phases: absent, open, settled.         *)
(*                                                                         *)
(* "world" stands for all that _campaign_execution_signature compares:     *)
(* data, policies, engine, runtime and commit.  Any of it may change, and  *)
(* change back, between two steps.                                         *)
(***************************************************************************)
EXTENDS Naturals, Sequences

CONSTANTS Campaigns,    \* campaign specifications
          Strategies,   \* strategy_id values
          Plan,         \* campaign -> its expanded attempts, a sequence of strategies
          Invalid,      \* an attempt whose parameters do not normalise
          Worlds,
          Approved,     \* worlds with the screen policy and as-of the specs name
          InitialWorld,
          LoopFaults,   \* may a lookup, an execution or a reconciliation raise?
          Rivals,       \* the worlds in which standalone strategy loops run experiments
          None

Experiments == [strategy: Strategies, world: Worlds]

\* How the preflight of a campaign is recorded when it is not an unapproved world.
Verdicts == {"approved", "unfrozen", "failed"}

ASSUME CampaignAssumption ==
    /\ Plan \in [Campaigns -> Seq(Strategies \cup {Invalid})]
    /\ \A c \in Campaigns : Plan[c] # <<>>
    /\ Invalid \notin Strategies
    /\ Approved \subseteq Worlds /\ InitialWorld \in Worlds
    /\ Worlds \cap Verdicts = {} /\ "rival" \notin Campaigns
    /\ None \notin Worlds \cup Verdicts \cup Campaigns \cup {"rival"} /\ None \notin Experiments
    /\ LoopFaults \in BOOLEAN /\ Rivals \subseteq Worlds

\* The reason a settled experiment ended with: its verdict or an error.  The ledger
\* accepts no other: a REJECTED screen stage is retired, so no trial is SCREEN_REJECTED.
Settled  == {"SCREEN_PASSED", "STAGE_ERROR"}
Statuses == {"SURVIVED", "TECHNICAL_INVALID", "DUPLICATE_SUPPRESSED"}
Reasons  == Settled \cup
               {"DUPLICATE_CONTENT_ID", "INVALID_FAMILY_OR_PARAMETERS", "PREFLIGHT_MISMATCH",
                "CAMPAIGN_PREFLIGHT_DRIFT", "CAMPAIGN_EXISTING_NONTERMINAL",
                "CAMPAIGN_EXECUTION_INVALID", "CAMPAIGN_EXECUTOR_FAILED",
                "CAMPAIGN_IDENTITY_INVALID", "CAMPAIGN_REUSE_FAILED",
                "CAMPAIGN_RECONCILIATION_FAILED"}

\* TrialEvidence: marks are the reason codes REUSED_EXECUTION and DUPLICATE_CONTENT_ID
\* as far as _cohort_technical_evidence keeps them.
Trials == [status: Statuses, started: BOOLEAN, reason: Reasons,
           exp: Experiments \cup {None}, marks: SUBSET {"REUSED", "DUPLICATE"}]

VARIABLES
    world,     \* what _prepare_execution would derive now
    phase,     \* experiment -> "absent" | "open" | the reason it was settled with
    rival,     \* the experiment a standalone loop is executing, or None
    pc,        \* campaign -> the step its process is about to take
    reference, \* campaign -> the world of its reference execution, or None
    prepared,  \* campaign -> the world prepared for the current attempt
    evidence,  \* campaign -> the evidence of its attempts so far, in memory
    preflights, \* table campaigns: campaign -> the preflight recorded with it
    census,    \* table campaign_trials: campaign -> its trials
    launchedBy, \* history: experiment -> the campaign (or "rival") that launched it
    summaries  \* history: campaign -> the <<preflight, census>> its summaries showed

tables == <<preflights, census>>
memory == <<reference, prepared, evidence>>
vars == <<world, phase, rival, pc, memory, tables, launchedBy, summaries>>

Steps == {"idle", "waiting", "attempt", "lookup", "execute", "claim", "running",
          "returned", "reused", "reconcile", "publish", "validate", "restore"}

-----------------------------------------------------------------------------
At(c, step)   == pc[c] = step
Goto(c, step) == pc' = [pc EXCEPT ![c] = step]

\* fcntl.flock(campaign_lock, LOCK_EX)
CampaignLockFree == \A d \in Campaigns : pc[d] \in {"idle", "waiting"}

\* The attempt c is working on, and the experiment it prepared for it.
Ordinal(c) == Len(evidence[c]) + 1
Attempt(c) == Plan[c][Ordinal(c)]
Target(c)  == [strategy |-> Attempt(c), world |-> prepared[c]]

\* Mutant: the reuse lookup keeps the lock its own executor asks for next.
ExperimentLockKept(x) ==
    /\ rival # x
    /\ \A c \in Campaigns : At(c, "claim") => Target(c) # x

\* fcntl.flock(experiment_lock, LOCK_EX): only the rival can hold it, campaigns exclude
\* each other.
ExperimentLockFree(x) == rival # x

HasValidAttempt(c) == \E i \in DOMAIN Plan[c] : Plan[c][i] # Invalid

\* The campaign-wide identities a run froze, as the table campaigns keeps them.
PreflightOf(w) == IF w \in Approved THEN "approved" ELSE w

Trial(status, started, reason, x, marks) ==
    [status |-> status, started |-> started, reason |-> reason, exp |-> x, marks |-> marks]

Technical(started, reason, x) == Trial("TECHNICAL_INVALID", started, reason, x, {})

\* existing_execution: what the ledger says of a settled experiment.  Every settled one
\* has a row for the candidate stage (_finish_failure writes it too), so it has started.
StatusOf(x) == IF phase[x] = "SCREEN_PASSED" THEN "SURVIVED" ELSE "TECHNICAL_INVALID"
Existing(x) == Trial(StatusOf(x), TRUE, phase[x], x, {})

\* Mutant: a reused execution counts as started.
ReusedStarted(x) == Trial(StatusOf(x), TRUE, phase[x], x, {"REUSED"})

Reused(x) == Trial(StatusOf(x), FALSE, phase[x], x, {"REUSED"})

Drifted(t) == t.status = "TECHNICAL_INVALID" /\ t.reason = "CAMPAIGN_PREFLIGHT_DRIFT"

\* _validate_evidence: the executor may not report a survivor it did not start.
Validated(t) ==
    IF t.status = "SURVIVED" /\ ~t.started
    THEN Technical(FALSE, "CAMPAIGN_EXECUTOR_FAILED", None) ELSE t

\* Mutant: only the attempts made so far get a trial.
CohortCut(c, trials, reason) ==
    [i \in DOMAIN trials |->
        Trial("TECHNICAL_INVALID", trials[i].started, reason, trials[i].exp, trials[i].marks)]

\* _cohort_technical_evidence: every trial becomes technical, the links to
\* experiments and what was started stay.
CohortFailed(c, trials, reason) ==
    [i \in DOMAIN Plan[c] |->
        IF i \in DOMAIN trials
        THEN Trial("TECHNICAL_INVALID", trials[i].started, reason, trials[i].exp,
                   trials[i].marks)
        ELSE Technical(FALSE, reason, None)]

\* run_campaign takes the evidence of one attempt; a drift ends its loop.
Conclude(c, t) ==
    LET trials == Append(evidence[c], t)
    IN  /\ evidence' = [evidence EXCEPT ![c] = IF Drifted(t)
                            THEN CohortFailed(c, trials, t.reason) ELSE trials]
        /\ Goto(c, IF Drifted(t) THEN "publish"
                   ELSE IF Len(trials) = Len(Plan[c]) THEN "reconcile" ELSE "attempt")

Leave(c) ==
    /\ Goto(c, "idle")
    /\ reference' = [reference EXCEPT ![c] = None]
    /\ prepared' = [prepared EXCEPT ![c] = None]
    /\ evidence' = [evidence EXCEPT ![c] = <<>>]

-----------------------------------------------------------------------------
Init ==
    /\ world = InitialWorld
    /\ phase = [x \in Experiments |-> "absent"]
    /\ rival = None
    /\ pc = [c \in Campaigns |-> "idle"]
    /\ reference = [c \in Campaigns |-> None]
    /\ prepared = [c \in Campaigns |-> None]
    /\ evidence = [c \in Campaigns |-> <<>>]
    /\ preflights = [c \in Campaigns |-> None]
    /\ census = [c \in Campaigns |-> <<>>]
    /\ launchedBy = [x \in Experiments |-> None]
    /\ summaries = [c \in Campaigns |-> {}]

Start(c) ==
    /\ At(c, "idle")
    /\ Goto(c, "waiting")
    /\ UNCHANGED <<world, phase, rival, memory, tables, launchedBy, summaries>>

\* The locks are taken, the preflight is derived from the first valid attempt (or
\* fails, or there is none), and record_campaign inserts it or finds it recorded.
Freeze(c) ==
    \E frozen \in {world, None} :
        LET valid == HasValidAttempt(c)
            value == IF ~valid THEN "unfrozen"
                     ELSE IF frozen = None THEN "failed" ELSE PreflightOf(frozen)
        IN  /\ At(c, "waiting")
            /\ CampaignLockFree
            /\ ~valid => frozen = None
            /\ \/ /\ preflights[c] \in {None, value}
                  /\ preflights' = [preflights EXCEPT ![c] = value]
                  /\ reference' = [reference EXCEPT ![c] = frozen]
                  /\ UNCHANGED prepared
                  /\ \/ census[c] # <<>> /\ Goto(c, "restore") /\ UNCHANGED evidence
                     \/ /\ census[c] = <<>> /\ value \in {"approved", "unfrozen"}
                        /\ Goto(c, "attempt") /\ UNCHANGED evidence
                     \/ /\ census[c] = <<>> /\ value \notin {"approved", "unfrozen"}
                        /\ evidence' = [evidence EXCEPT ![c] = CohortFailed(c, <<>>,
                               IF value = "failed" THEN "CAMPAIGN_PREFLIGHT_DRIFT"
                               ELSE "PREFLIGHT_MISMATCH")]
                        /\ Goto(c, "publish")
               \/ /\ preflights[c] \notin {None, value}    \* campaign record conflict
                  /\ Leave(c)
                  /\ UNCHANGED preflights
            /\ UNCHANGED <<world, phase, rival, census, launchedBy, summaries>>

-----------------------------------------------------------------------------
(* One attempt                                                              *)

\* seen: what the strategy came to earlier in this campaign.
Seen(c) == {evidence[c][i] : i \in {j \in DOMAIN evidence[c] : Plan[c][j] = Attempt(c)}}

RejectInvalid(c) ==
    /\ At(c, "attempt")
    /\ Attempt(c) = Invalid
    /\ Conclude(c, Technical(FALSE, "INVALID_FAMILY_OR_PARAMETERS", None))
    /\ UNCHANGED <<world, phase, rival, reference, prepared, tables, launchedBy, summaries>>

SuppressDuplicate(c) ==
    /\ At(c, "attempt")
    /\ Attempt(c) # Invalid
    /\ \E prior \in Seen(c) :
          Conclude(c, Trial("DUPLICATE_SUPPRESSED", FALSE, "DUPLICATE_CONTENT_ID",
                            prior.exp, {"DUPLICATE"}))
    /\ UNCHANGED <<world, phase, rival, reference, prepared, tables, launchedBy, summaries>>

\* _campaign_reuse_lookup derives the identity whose lock it will take.
PrepareLookup(c) ==
    /\ At(c, "attempt")
    /\ Attempt(c) # Invalid /\ Seen(c) = {}
    /\ prepared' = [prepared EXCEPT ![c] = world]
    /\ Goto(c, "lookup")
    /\ UNCHANGED <<world, phase, rival, reference, evidence, tables, launchedBy, summaries>>

\* Mutant: the lookup compares with its own preparation, not with the reference.
FrozenOwn(c) == world = prepared[c]

\* The identity held its value since it was prepared, and is the campaign's:
\* _require_campaign_preflight.
Frozen(c) == world = prepared[c] /\ world = reference[c]

Nonterminal(c) == Technical(FALSE, "CAMPAIGN_EXISTING_NONTERMINAL", None)

Lookup(c) ==
    /\ At(c, "lookup")
    /\ ExperimentLockFree(Target(c))
    /\ \/ ~Frozen(c) /\ Conclude(c, Technical(FALSE, "CAMPAIGN_PREFLIGHT_DRIFT", None))
       \/ /\ Frozen(c)
          /\ \/ phase[Target(c)] = "absent" /\ Goto(c, "execute") /\ UNCHANGED evidence
             \/ phase[Target(c)] = "open" /\ Conclude(c, Nonterminal(c))
             \/ phase[Target(c)] \in Settled /\ Conclude(c, Reused(Target(c)))
    /\ UNCHANGED <<world, phase, rival, reference, prepared, tables, launchedBy, summaries>>

\* run_strategy_loop derives the identity again before it takes the lock again.
PrepareExecution(c) ==
    /\ At(c, "execute")
    /\ prepared' = [prepared EXCEPT ![c] = world]
    /\ Goto(c, "claim")
    /\ UNCHANGED <<world, phase, rival, reference, evidence, tables, launchedBy, summaries>>

\* Mutant: an execution another process left open is launched again.
LaunchStale(c) ==
    /\ phase[Target(c)] \in {"absent", "open"}
    /\ phase' = [phase EXCEPT ![Target(c)] = "open"]
    /\ launchedBy' = [launchedBy EXCEPT ![Target(c)] = c]
    /\ Goto(c, "running")
    /\ UNCHANGED evidence

Launch(c) ==
    /\ phase[Target(c)] = "absent"
    /\ phase' = [phase EXCEPT ![Target(c)] = "open"]
    /\ launchedBy' = [launchedBy EXCEPT ![Target(c)] = c]
    /\ Goto(c, "running")
    /\ UNCHANGED evidence

\* What the loop finds once it holds the experiment: an identity that moved before the
\* claim (an ordinary exception), one that is not the campaign's, an experiment another
\* process left open, one it completed, or none.
Claim(c) ==
    /\ At(c, "claim")
    /\ ExperimentLockFree(Target(c))
    /\ \/ Frozen(c) /\ Launch(c)
       \/ /\ \/ /\ world # prepared[c]
                /\ Conclude(c, Technical(FALSE, "CAMPAIGN_EXECUTION_INVALID", None))
             \/ /\ world = prepared[c] /\ ~Frozen(c)
                /\ Conclude(c, Technical(FALSE, "CAMPAIGN_PREFLIGHT_DRIFT", None))
             \/ Frozen(c) /\ phase[Target(c)] = "open" /\ Conclude(c, Nonterminal(c))
             \/ /\ Frozen(c) /\ phase[Target(c)] \in Settled
                /\ Goto(c, "reused") /\ UNCHANGED evidence
          /\ UNCHANGED <<phase, launchedBy>>
    /\ UNCHANGED <<world, rival, reference, prepared, tables, summaries>>

\* The loop records its verdict, rechecked against the world, or its error.
Settle(c, reason) ==
    /\ At(c, "running")
    /\ reason = "SCREEN_PASSED" => world = prepared[c]
    /\ phase' = [phase EXCEPT ![Target(c)] = reason]
    /\ Goto(c, "returned")
    /\ UNCHANGED <<world, rival, memory, tables, launchedBy, summaries>>

\* The executor asks the ledger for what the loop did, then the world again.  A drift
\* takes execution_started from the ledger, even of an execution that was only reused.
\* The loop returns after its claim only, and what a settled row says (AnswerIsRecorded of
\* StrategyLoop), so that CAMPAIGN_EXECUTION_UNRECORDED is the reason of no trial.
Return(c) ==
    /\ \/ /\ At(c, "returned")
          /\ Conclude(c, IF world = prepared[c] THEN Existing(Target(c))
                         ELSE Technical(TRUE, "CAMPAIGN_PREFLIGHT_DRIFT", Target(c)))
       \/ /\ At(c, "reused")
          /\ Conclude(c, IF world = prepared[c] THEN Validated(Reused(Target(c)))
                         ELSE Technical(TRUE, "CAMPAIGN_PREFLIGHT_DRIFT", Target(c)))
    /\ UNCHANGED <<world, phase, rival, reference, prepared, tables, launchedBy, summaries>>

\* An exception of the lookup, or of an execution that has no experiment yet, leaves a
\* trial without one.
UnlinkedFault(c) ==
    \/ /\ At(c, "lookup")
       /\ \E reason \in {"CAMPAIGN_IDENTITY_INVALID", "CAMPAIGN_REUSE_FAILED"} :
             Conclude(c, Technical(FALSE, reason, None))
    \/ /\ pc[c] \in {"execute", "claim"}
       /\ Conclude(c, Technical(FALSE, "CAMPAIGN_EXECUTION_INVALID", None))

\* An exception in run_strategy_loop after the claim, or in _campaign_execute: the trial
\* is linked to the experiment, whose row exists.
LinkedFault(c) ==
    /\ \/ pc[c] \in {"running", "returned", "reused"}
       \/ /\ At(c, "claim")
          /\ ExperimentLockFree(Target(c)) /\ Frozen(c) /\ phase[Target(c)] # "absent"
    /\ \E started \in BOOLEAN :
          /\ At(c, "returned") => started
          /\ pc[c] \in {"claim", "reused"} => ~started
          /\ Conclude(c, Technical(started, "CAMPAIGN_EXECUTION_INVALID", Target(c)))

Fault(c) ==
    /\ LoopFaults
    /\ UnlinkedFault(c) \/ LinkedFault(c)
    /\ UNCHANGED <<world, phase, rival, reference, prepared, tables, launchedBy, summaries>>

-----------------------------------------------------------------------------
(* The census                                                               *)

\* _reconcile_campaign_preflight; a campaign without a valid attempt froze no data
\* source and never agrees with the actual one.
Reconciled(c) == reference[c] # None /\ world = reference[c]

FailCohort(c, reason) ==
    evidence' = [evidence EXCEPT ![c] = CohortFailed(c, evidence[c], reason)]

Reconcile(c) ==
    /\ At(c, "reconcile")
    /\ \/ Reconciled(c) /\ UNCHANGED evidence
       \/ ~Reconciled(c) /\ FailCohort(c, "CAMPAIGN_PREFLIGHT_DRIFT")
       \/ LoopFaults /\ FailCohort(c, "CAMPAIGN_RECONCILIATION_FAILED")
    /\ Goto(c, "publish")
    /\ UNCHANGED <<world, phase, rival, reference, prepared, tables, launchedBy, summaries>>

\* record_campaign_trials: one transaction, refused when a survivor's commit is not the
\* current one any more.
Publish(c) ==
    /\ At(c, "publish")
    /\ \/ /\ census' = [census EXCEPT ![c] = evidence[c]]
          /\ Goto(c, "validate")
          /\ UNCHANGED memory
       \/ /\ world # reference[c]
          /\ \E i \in DOMAIN evidence[c] : evidence[c][i].status = "SURVIVED"
          /\ Leave(c)
          /\ UNCHANGED census
    /\ UNCHANGED <<world, phase, rival, preflights, launchedBy, summaries>>

\* verify_campaign_trial and the validate_trial of run_strategy_campaign.
StartedAgrees(t) == t.started = (t.marks = {})

\* Mutant: nothing is checked of a stored trial.
VerifiedNot(c, t) == TRUE

Verified(c, t) ==
    t.exp # None =>
        /\ phase[t.exp] \in Settled
        /\ \/ t.status = "DUPLICATE_SUPPRESSED"
           \/ Drifted(t) /\ StartedAgrees(t)
           \/ t.status = StatusOf(t.exp) /\ t.reason = phase[t.exp] /\ StartedAgrees(t)
        /\ Drifted(t) \/ (world = reference[c] /\ t.exp.world = world)

AllVerified(c) == \A i \in DOMAIN census[c] : Verified(c, census[c][i])

\* robustness_trial_context, the first step of every robustness run and of every Paper
\* admission of a campaign: one survivor that was not started refuses the whole census.
TrialContextAdmits(trials) ==
    \A i \in DOMAIN trials :
        trials[i].status = "SURVIVED" => trials[i].started /\ trials[i].exp # None

Summarise(c) ==
    summaries' = [summaries EXCEPT ![c] = @ \cup {<<preflights[c], census[c]>>}]

\* The census just published is read back and validated; then the summary is returned.
Validate(c) ==
    /\ At(c, "validate")
    /\ \/ AllVerified(c) /\ Summarise(c)
       \/ ~AllVerified(c) /\ UNCHANGED summaries
    /\ Leave(c)
    /\ UNCHANGED <<world, phase, rival, tables, launchedBy>>

\* A census found on entry is validated and reconciled before its summary is returned.
Restore(c) ==
    /\ At(c, "restore")
    /\ \/ AllVerified(c) /\ Reconciled(c) /\ Summarise(c)
       \/ ~(AllVerified(c) /\ Reconciled(c)) /\ UNCHANGED summaries
    /\ Leave(c)
    /\ UNCHANGED <<world, phase, rival, tables, launchedBy>>

-----------------------------------------------------------------------------
(* Crashes, standalone loops, drift                                         *)

Die(c) ==
    /\ ~At(c, "idle")
    /\ Leave(c)
    /\ UNCHANGED <<world, phase, rival, tables, launchedBy, summaries>>

\* A standalone run_strategy_loop with the hypothesis of strategy s.
RivalLaunch(s) ==
    LET x == [strategy |-> s, world |-> world]
    IN  /\ rival = None /\ world \in Rivals
        /\ phase[x] = "absent"
        /\ \A c \in Campaigns : pc[c] = "running" => Target(c) # x
        /\ rival' = x
        /\ phase' = [phase EXCEPT ![x] = "open"]
        /\ launchedBy' = [launchedBy EXCEPT ![x] = "rival"]
        /\ UNCHANGED <<world, pc, memory, tables, summaries>>

RivalSettle(reason) ==
    /\ rival # None
    /\ reason = "SCREEN_PASSED" => world = rival.world
    /\ phase' = [phase EXCEPT ![rival] = reason]
    /\ rival' = None
    /\ UNCHANGED <<world, pc, memory, tables, launchedBy, summaries>>

RivalDie ==
    /\ rival # None
    /\ rival' = None
    /\ UNCHANGED <<world, phase, pc, memory, tables, launchedBy, summaries>>

Drift(w) ==
    /\ w # world
    /\ world' = w
    /\ UNCHANGED <<phase, rival, pc, memory, tables, launchedBy, summaries>>

-----------------------------------------------------------------------------
Proceed(c) ==
    \/ Freeze(c) \/ RejectInvalid(c) \/ SuppressDuplicate(c)
    \/ PrepareLookup(c) \/ Lookup(c) \/ PrepareExecution(c) \/ Claim(c)
    \/ (\E reason \in Settled : Settle(c, reason))
    \/ Return(c) \/ Reconcile(c) \/ Publish(c) \/ Validate(c) \/ Restore(c)

Next ==
    \/ \E c \in Campaigns : Start(c) \/ Proceed(c) \/ Fault(c) \/ Die(c)
    \/ \E s \in Strategies : RivalLaunch(s)
    \/ \E reason \in Settled : RivalSettle(reason)
    \/ RivalDie
    \/ \E w \in Worlds : Drift(w)

Spec == Init /\ [][Next]_vars

\* Processes that are not blocked go on; a free lock is granted in the end; a rival
\* ends.  Nothing makes a campaign start, a process die or the world change.
Fairness ==
    /\ \A c \in Campaigns : SF_vars(Proceed(c))
    /\ WF_vars(\E reason \in Settled : RivalSettle(reason))

FairSpec == Spec /\ Fairness

-----------------------------------------------------------------------------
(* Properties                                                               *)

\* The variables have their types.
TypeOK ==
    /\ world \in Worlds
    /\ phase \in [Experiments -> {"absent", "open"} \cup Settled]
    /\ rival \in Experiments \cup {None}
    /\ pc \in [Campaigns -> Steps]
    /\ reference \in [Campaigns -> Worlds \cup {None}]
    /\ prepared \in [Campaigns -> Worlds \cup {None}]
    /\ evidence \in [Campaigns -> Seq(Trials)]
    /\ preflights \in [Campaigns -> Worlds \cup Verdicts \cup {None}]
    /\ census \in [Campaigns -> Seq(Trials)]
    /\ launchedBy \in [Experiments -> Campaigns \cup {"rival", None}]
    /\ summaries \in
          [Campaigns -> SUBSET ((Worlds \cup Verdicts \cup {None}) \X Seq(Trials))]
    /\ \A c \in Campaigns :
          Len(evidence[c]) <= Len(Plan[c]) /\ Len(census[c]) \in {0, Len(Plan[c])}

\* A census never counts a survivor that is not one: its experiment was settled so,
\* for the strategy of that attempt, and all survivors of one census were evaluated in
\* one and the same approved world.
SurvivorsBacked ==
    \A c \in Campaigns : \A i \in DOMAIN census[c] :
        LET t == census[c][i]
        IN  t.status = "SURVIVED" =>
                /\ phase[t.exp] = "SCREEN_PASSED"
                /\ t.exp.strategy = Plan[c][i]
                /\ t.exp.world \in Approved
                /\ \A j \in DOMAIN census[c] :
                      census[c][j].status = "SURVIVED" => census[c][j].exp.world = t.exp.world

\* However campaigns share strategies, die and are started again, an execution is
\* counted as started by one trial of one campaign at most (executed_count).
CountedOnce ==
    \A c, d \in Campaigns : \A i \in DOMAIN census[c], j \in DOMAIN census[d] :
        census[c][i].started /\ census[d][j].started /\ census[c][i].exp = census[d][j].exp
            => c = d /\ i = j

\* A trial that says it started an execution launched it.  Only a drift noticed after a
\* reuse takes execution_started from the ledger, and then a rival had launched it: no
\* campaign ever claims the start of another one.
StartedMeansLaunched ==
    \A c \in Campaigns : \A i \in DOMAIN census[c] :
        LET t == census[c][i]
        IN  t.started /\ t.exp # None =>
                \/ launchedBy[t.exp] = c
                \/ launchedBy[t.exp] = "rival" /\ Drifted(t)

\* docs/contracts/strategy-campaign-v1.md:27 and tests/test_strategy_campaign.py:2236,
\* "campaign waiter records competing completion as reuse": an executor that finds the
\* experiment completed by another process does not report itself failed.
CompetingCompletionReused ==
    \A c \in Campaigns : \A i \in DOMAIN census[c] :
        census[c][i].reason # "CAMPAIGN_EXECUTOR_FAILED"

\* docs/contracts/strategy-campaign-v1.md:48, "`execution_started` is tracked
\* independently", and :27, a reused strategy keeps its "already-validated experiment":
\* the robustness tier takes the survivors of every stored census.
SurvivorsAdmitted == \A c \in Campaigns : TrialContextAdmits(census[c])

\* Every summary ever returned for a campaign is the summary of the one census and the
\* one preflight in the ledger, and rests on settled experiments only.
SummariesAgree ==
    \A c \in Campaigns : \A shown \in summaries[c] :
        /\ shown = <<preflights[c], census[c]>>
        /\ \A i \in DOMAIN shown[2] :
              shown[2][i].exp # None => phase[shown[2][i].exp] \in Settled

\* An experiment is launched by one process in its life; neither a campaign nor a
\* standalone loop launches again what another one left open.
LaunchedOnce ==
    [][\A x \in Experiments : launchedBy[x] # None => launchedBy'[x] = launchedBy[x]]_vars

\* Every run of a campaign ends, whatever holds the locks it needs.
RunsEnd == \A c \in Campaigns : ~At(c, "idle") ~> At(c, "idle")
===============================================================================
