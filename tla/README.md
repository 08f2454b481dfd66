# A verification project for nautilus-quant-system

This directory holds TLA+ models of the control logic of `src/nautilus_quant`,
the TLC configurations that check them on small instances, and theorems that
TLAPS checks for every instance.  Paths below are relative to the repository;
line numbers are those of the commit beside this directory.

## 1. The system

`nautilus-quant-system` is a single-host research pipeline around
NautilusTrader.  Short-lived processes (CLI commands, two launchd jobs, agents
calling the strategy loop) share one machine, one file system and one SQLite
ledger.  There is no server and no network protocol of its own: the processes
meet only in files, in `flock` locks and in the ledger, and each of them can be
killed between any two effects.

| Component | State it keeps | Operations | Meets |
|---|---|---|---|
| Strategy-loop controller (`strategy_lab.py`) | `experiment-locks/*.lock`, `runs/<experiment>/`, ledger rows | `run_strategy_loop` and the ledger operations under it | data lock, ledger, candidate backtest, campaigns |
| Strategy ledger (`strategy_lab.py`) | SQLite tables with unique keys and append-only triggers | `record_*`, `existing_execution`, `verify_*`, robustness, paper admission, migrations | every research process |
| Campaign runner (`strategy_campaign.py`, `_campaign_*`) | trial census `campaigns/<id>/`, `campaign_trials` rows | `run_campaign`, `run_strategy_campaign`, reuse lookup, executor | strategy loop, ledger |
| Robustness (`strategy_robustness.py`) | `robustness_results` rows, one artifact per cell, aggregate documents; no lock | windows, matrix, gates, `run_persisted_robustness`, `publish_robustness`, `record_robustness`, `existing_robustness` | ledger, campaigns, Paper runtime |
| Candidate and its replay (`strategy_candidate.py`, `candidate_backtest.py`, `strategy_families.py`, `backtest.py`) | none (pure) | build candidate, replay signals, account for PnL, screen gates | catalog, funding store, policy file |
| Funding observation store (`funding_observation.py`) | generation directories, pointer `current.json` | `migrate`, `sync_funding_generation`, `read` | data sync (writer), loop (readers without lock) |
| Data sync (`service.py`, `sync.py`, `binance_public.py`, `nautilus_io.py`, `timebound.py`) | Parquet catalog, instruments, reports | `run_sync`, `sync_bar_stream`, `write_report` | Binance, data lock |
| Status and CLI (`cli.py`) | pointer and report files | `status`, `sync`, `candidate-sync`, `migrate` | data sync, funding store |
| Live strategy (`live_strategy.py`) | position, pending order, circuit breaker, closed bars | `on_bar`, `on_closed_bar`, `on_stop`, `snapshot`, `restore` | NautilusTrader |
| Paper runtime (`paper_runtime.py`) | tables of freezes, runs and verdicts, each row with an artifact | `paper_admission`, `record_freeze`, `start_run`, `finish_run`, reads, smokes | robustness, ledger, live strategy |
| Configuration, attestation, scripts, launchd | none | load and hash | all |

The funding store and the catalog are the meeting point of the two halves: the
data jobs write them under `var/locks/data-sync.lock` (exclusive, never
waiting), research reads them under the same lock held shared (waiting), and
`status` reads them under no lock at all.  The ledger is the meeting point of
research processes: standalone loops and campaigns exclude each other per
experiment by `experiment-locks/<id>.lock`, campaigns exclude each other by
`campaign.lock`, and SQLite's unique keys, `ON CONFLICT DO NOTHING` and
triggers make every row write-once.  A live strategy shares only code with
research: the families.

### What is hard, and what makes each part correct

* **Strategy loop.**  Any process may die between the artifact, the feedback
  file, two stage rows and the verdict row; policies, engine and checkout change
  under no lock while a run is in progress.  Correct means: an experiment is
  launched once in its life, its terminal evidence is complete and exclusive,
  an interrupted execution stays what it is, every answer is what the ledger
  holds for ever, and a verdict was evaluated under the identity it is filed
  under.
* **Campaigns.**  A campaign gives up the experiment lock between its reuse
  lookup and its execution, and runs for hours in a world that drifts.  Correct
  means: executions are counted once over all campaigns, survivors are real and
  comparable, every summary is that of the one stored census, and every run
  ends although it waits while holding a lock.
* **Robustness.**  Runs for one survivor take no lock: they may overlap, each
  looks whether a file exists before it writes it, and each cleans up what it
  believes to have created, after a failure before or after its commit.  Correct
  means: there is one record, whoever answers answers with it, it can be read
  back, and a run that fails leaves nothing behind.
* **Paper runtime.**  Every operation publishes an artifact and then inserts a
  row, with operators that die in between and others that do the same at the
  same time.  Correct means: what is recorded rests on what was recorded before
  it (verdict, freeze, run, report), is written once, and reads back.
* **Data sync.**  Chunks are written before they are read back, and jobs die in
  between.  Correct means: a PASS is about a history without a hole, nothing a
  research process reads moves under it, jobs end and readers are served.
* **Funding store.**  Generations are renamed into place and a pointer replaced,
  with readers that take no lock, writers that die and machines that lose power.
  Correct means: it behaves as one register that a sync only extends, and the
  pointer always has its generation.
* **Families, live strategy and replay.**  The same decisions are computed three
  ways: in batch, bar by bar, and bar by bar after a restore.  Correct means:
  they agree, no signal is used before it exists, orders follow the intents, and
  both a replay and a live run end flat.

## 2. Modules

| Module | Models | Against |
|---|---|---|
| `StrategyLoop` | the controller, its ledger rows, files and locks, the data sync as seen from it | `strategy_lab.py` |
| `ExperimentRegistry` | abstract: a write-once registry of experiments | refined by `StrategyLoop` |
| `StrategyCampaign` | the campaign runner over abstract executions, with a standalone loop as rival | `strategy_campaign.py`, `strategy_lab.py` |
| `RobustnessMatrix` | the walk-forward windows and the matrix of cells (pure) | `strategy_robustness.py` |
| `RobustnessEvidence` | the robustness runs of one survivor: cells, documents, record, clean-up | `strategy_robustness.py`, `strategy_lab.py` |
| `PaperEvidence` | admission and the runtime store, composed with `RobustnessEvidence` | `paper_runtime.py`, `strategy_lab.py` |
| `EvidenceLedger` | abstract: verdict, freezes, runs and reports, each written once | refined by `PaperEvidence` |
| `DataSync` | the three data commands, the bar streams, the lock, the reports, the readers | `service.py`, `sync.py`, `cli.py`, `timebound.py` |
| `FundingStore` | generations, pointer, fsyncs, writers and readers | `funding_observation.py` |
| `FundingRegister` | abstract: one register, one operation at a time | refined by `FundingStore` |
| `FamilyKernel` | the seven families, batch and incremental (pure) | `strategy_families.py` |
| `FamilyStrategy` | the live strategy, its venue, snapshots and kills | `live_strategy.py` |
| `CandidateReplay` | how a backtest replays signals (pure) | `candidate_backtest.py` |
| `ResearchParity` | composes the two: every live history is replayed | `live_strategy.py`, `candidate_backtest.py` |
| `MCStrategyLoop`, `MCStrategyCampaign`, `MCPaperEvidence`, `MCDataSync`, `MCFundingStore`, `MCFamilyStrategy` | small instances for TLC | |
| `StrategyLoop_proofs`, `StrategyCampaign_proofs`, `RobustnessEvidence_proofs`, `PaperEvidence_proofs`, `DataSync_proofs`, `FundingStore_proofs`, `FamilyStrategy_proofs`, `ResearchParity_proofs` | theorems | |

How state and actions correspond to the code:

* **`StrategyLoop`.**  `pc[w]` is the place of a process in
  `_run_strategy_loop_locked`; a step is one effect that another process can
  see, so that a crash (`Raise`) falls between any two of them.  `row[e]` is the
  row of an experiment in five tables, `file[e]` and `feedback[e]` its directory
  under `runs/`.  An experiment is its identity: strategy, data version, policy
  version; "policy" stands for everything that is hashed and not covered by the
  data lock (policy files, engine, runtime, commit).  Locks are read off `pc`,
  as `flock` is held exactly between two places of the code.  Three failure
  stages stand for the error paths; their texts are left out.
* **`StrategyCampaign`.**  `world` is all that `_campaign_execution_signature`
  compares.  `evidence` is the list `run_campaign` builds in memory, `census`
  and `preflights` are its tables.  The execution of one experiment is reduced
  to absent, open, settled, which is what `ExperimentRegistry` promises.  The
  rival runs the same thesis as the campaign, in one of the worlds of `Rivals`; a
  campaign itself never launches an experiment of a world that was not approved.
  An exception is a disjunct of the step it is raised in (`UnlinkedFault`,
  `LinkedFault`, `FailCohort`), with the reason the code records for it.  No
  trial is `SCREEN_REJECTED`: the ledger refuses a rejected screen stage.
* **`RobustnessMatrix`, `RobustnessEvidence`.**  A window is two pairs of bars,
  as `generate_robustness_windows` cuts them and `_validated_cell_document`
  reads them back; the matrix is the
  windows times the scenarios, and `Cells` of `RobustnessEvidence` is its size.
  `cellFile` and `documents` are the artifacts on disk, `record` the row of
  `robustness_results`; `step`, `results`, `drawn`, `made` and `wrote` are the
  locals of `run_persisted_robustness`, with `drawn` holding what `publish_cell`
  saw before it wrote.  A cell comes to pass, fail or error; an error refers to
  no artifact.  A verdict is addressed by its content, as in the code, so that
  two verdicts never share a path.  `before` and `lapses` are history variables:
  the artifacts when a run began alone, and whether runs have overlapped or one
  has raised after its commit.  The survivor's census is stored for good before
  the first run, and the data source stays.
* **`PaperEvidence`.**  `freezeFiles` and `freezeRows`, `runFiles` and `runRows`,
  `verdictFile` and `verdictRow` are the artifacts and the tables; `job[o]` is
  what an operator has published and not yet inserted, so that a death falls
  between the two.  `contested` is a history variable, the runs that two
  operators were finishing at once.  `finish_run` does not check its two words, the
  table does (`Checked`): the row may be refused after its artifact is published.
* **`DataSync`.**  Time is counted in bars.  `job[j]` holds the locals of
  `run_sync` and `sync_bar_stream`; everything that raises there (API, catalog
  scope, instruments, gap, tail) is `FetchFails`.  `Drops` lets the catalog lose
  bars, which is what the readback is for; `passed` is a history variable, the
  boundaries of the PASS reports.
* **`FundingStore`.**  Time is counted in funding slots.  A generation is its
  content, as its name is the hash of it.  `safeDisk` and `safePointer` are what
  survives a power loss; a publication first makes the directory of the ready
  pointer durable (`funding_observation.py:372`), and with it the pointer it holds.
  A page of the API is any set of rows, official or
  modeled, so omission and revision are inputs.
* **`FamilyKernel`, `FamilyStrategy`.**  A bar is a timestamp and a close, time
  is counted in bars, a threshold is a whole percent, and every comparison of
  quotients is one of products: the rounding of the code to twelve decimals
  (`strategy_families.py:225`, `:255`) is not modelled, and the high and the low of
  a day (`:462`) are those of its closes.  `deployment` is the strategy `__init__` was given.  `heard`,
  `decided` and `incidents` are history variables.  The venue fills or rejects
  orders in their order and never opens a position on a reduce-only order.
  A loop over bars is a recursive function of how many of them are done:
  `Pushes` holds the incremental evaluator after each bar, `BatchWindows` the two
  close windows of the regime fast path.  `EvaluateBatch` is the sequence of
  the decisions of each full window, cut after the first that raises, which is
  what the loop of `evaluate_batch` has appended when it ends.
* **`CandidateReplay`.**  `ReplayStates` holds the replay after each bar of the
  window, `OnBar` being one call of `on_bar`; the engine fills
  a market order before the next bar.  The loop that reads signals up to a bar is
  given by the indices it reads (`Known`) and the last of them that changes what
  is desired (`ReadSignals`).  The list of delayed signals is a function from the
  bars a signal still has to wait to the signal: a bar adds at most one, with
  `delay_bars`, and moves all of them on, so that no two wait equally long
  (`Waiting`, `Due`).  Funding of time T settles half a bar before
  T, the nanosecond the code takes off, because the engine has no order between a
  bar and a funding event of one instant (`EnginePositions`); the code's own count
  of the position from the fills (`NetQuantity`) must agree with it.

Operators marked "Mutant" are faulty variants of the definition after them.  No
specification uses them; they show that the checked properties can fail.

## 3. Runs

Eight runs must pass and four must find what they are for.

| Run | Asks | Bounds | Distinct states |
|---|---|---|---|
| `loop_legacy` | `TypeOK`, `SingleLaunch`, `TerminalEvidenceComplete`, `AnswerIsRecorded`, `CachedFeedbackAgrees`, `VerdictOnClaimedData`, `NoResurrection`, `RegistrySpec`: two hypotheses share one experiment, with crashes, while the data sync comes and goes.  The experiment is launched at most once, its terminal evidence is complete and exclusive, cached feedback agrees with the terminal row, an abandoned execution is never touched again, the data read are the data named, and the loop implements the write-once registry. | 2 processes, 2 V1 hypotheses of 1 strategy, 1 data version more, crash at every step | 446,596 (symmetry) |
| `loop_drift` | `VerdictOnClaimedPolicy`, `CommitAccepted`, `RunsEnd`: a V2 experiment whose policy is replaced at any moment never gets a verdict evaluated under another policy than its own, a verdict that is ready is not refused by its own ledger, and every call ends under the fairness of the scheduler and of flock. | 2 processes, 1 hypothesis, 1 policy change, fair | 122,888 |
| `campaign_shared` | `TypeOK`, `CountedOnce`, `SummariesAgree`, `SurvivorsBacked`, `StartedMeansLaunched`, `LaunchedOnce`, `RunsEnd`: two campaigns share a strategy that a standalone loop may run too; runs, lookups and reconciliations raise, processes die, and the frozen world drifts away and back.  Executions are counted once and launched once, survivors of a census are real and share one approved world, started trials were launched by their campaign, every summary is that of the one stored census, and every run ends although it waits, holding `campaign.lock`, for the locks of its experiments. | 2 campaigns, of 2 attempts (the second a duplicate) and of 2 (the first invalid), 1 strategy, a rival in the approved world, 2 worlds, fair | 178,256 |
| `campaign_rival` | `CompetingCompletionReused`: a standalone loop completes the experiment between the campaign's reuse lookup and its claim. | 1 campaign, 1 attempt, a rival | stops at the violation |
| `campaign_handoff` | `SurvivorsAdmitted`: a campaign dies after its experiment survived and is restarted. | 1 campaign, 1 attempt, nothing else | stops at the violation |
| `evidence` | `EvidenceBacked`, `FailedRunLeavesNothing`, `AnswersAgree`, `RowsReadable`, `LedgerSpec`: two robustness runs overlap, raise, clean up and die anywhere; two operators freeze, start and finish Paper runs on their result.  A record can be reused, a failed run leaves nothing behind, whoever answers answers with the ledger, every row of the runtime store reads back, and together they implement the write-once ledger. | 2 robustness runs, a matrix of 1 cell, 2 operators, 1 policy, cohort starts before and after the data boundary, 4 reports (a pass, one that falls short, an error, one the table refuses) | 1,522,191 (symmetry) |
| `data_sync` | `TypeOK`, `PassMeansComplete`, `SnapshotStable`, `JobsEnd`, `SnapshotGiven`: two jobs of all three commands that die anywhere, a catalog that loses bars, bounded and unbounded runs, a research reader.  A PASS report is never about a history with a hole, a research snapshot does not move, every job ends and every reader is served. | 2 jobs, 2 streams, 3 bars in chunks of 2, limits none or 1, 1 reader, fair | 138,163 |
| `funding_sync` | `RegisterSpec`: two writers that sync, migrate, die and retry over an API that omits and revises rows, and a reader without a lock.  The store is one register that a sync only extends, and no reader finds a generation missing. | 2 writers, 1 reader, 2 slots, 3 generations, deaths | 1,572,113 |
| `funding_power` | `PointerBacked`, `ReadyIsWhole`: with two funding slots in eight hours and a machine that stops at any step, as long as no writer died alone before.  The fsyncs keep the ready pointer backed, and the ready history, pieced together by syncs, has no wider hole and no modeled row after an official one. | 2 writers, 1 reader, 3 slots, gap 2, 2 generations, power losses | 687,542 |
| `funding_retry` | `PointerBacked`: a writer is killed between the rename of a generation and its fsync, another retries, the machine stops. | 2 writers, 1 slot, deaths and a power loss | stops at the violation |
| `family_paper` | `LiveMatchesBatch`, `FastPathExact`, `NoBarMissed`, `IntentsAlternate`, `WithinMaximum`, `FlattenOnStop`, `ReplayFollowsSignals`, `ReplayEndsFlat`, `FundingFollowsPosition`: all seven families in Shadow and Paper, with and without a gap check, with every subset of bars, breaker trips, fills and rejections, one kill and a restore.  Live decisions are the batch's, no bar is missed, intents alternate, the position stays within the maximum and is flat after a stop.  The same histories, replayed over every window, follow their signals without look-ahead, pay Funding for the position held before it and end flat. | 9 deployments of 7 families, 4 to 7 bars, 2 prices, delays 0 to 2, 1 kill | 505,095 |
| `family_breaker` | `FlattenOnExit`: a Paper strategy is long when its circuit breaker trips. | 1 Paper momentum strategy, 4 bars | stops at the violation |

Why the bounds are enough.  *Two processes* contend for one lock, one row or one
pointer; a third meets the same state as the second, since locks are exclusive
and rows write-once.  *Two hypotheses of one strategy* are the least that share
an experiment.  *One policy or data change* separates identity from use; more
changes give other values, not other orders, except for a change back, which has
a constant of its own (`PolicyReturns`; worlds of a campaign may always come
back).  *Two attempts* give one campaign a duplicate and the other an
invalid attempt, and both a shared one.  *One cell* per robustness run is enough
for the races of two runs over one path; the order in which several cells are
published and unlinked was run once for itself, without the Paper store (two
cells, 377,912 states), and is covered by the proofs for every number of cells.
*Three reports* are one that is accepted, one that falls short of the policy and
one of a technical error; the starts 2 and 3 lie on and after the boundary of the
data.  *Three bar boundaries with chunks of two* give a full chunk, a
short chunk and a hole inside one; two streams let the first be complete and the
second not.  *Three funding slots with a gap of two* let a sync join two
histories with a row missing.  *Horizons of four to seven bars* are each
family's warm-up and at least one decision more, *two prices* let it rise, fall
and stay; all subsets of bars occur.  *One kill* restores a strategy; a restored
one differs from its source only by its execution identity.  The parameters are
the smallest that keep windows of different lengths apart (momentum shorter
than trend, and longer).

`CHECK_DEADLOCK FALSE` is set where the system may stop: a stopped strategy, a
store at its bound of generations, a survivor whose evidence conflicts.

### Fairness

Only liveness uses it (`FairSpec`).  Weak fairness of a process step: a process
that can go on does so, as it has no internal waiting (`urlopen` has a timeout,
retries are bounded, SQLite waits are bounded).  Strong fairness of taking a
blocking `flock`: the kernel queues waiters, so a lock that is free again and
again is granted in the end; weak fairness would let the sync slip in for ever.
A sync and a rival end for the same reason as any process.  Nothing makes a call
start, a process die, a policy change, or time pass.

### What the violations show

* `campaign_rival`: an executor that finds its experiment completed by another
  process returns the reused survivor, which `_validate_evidence` refuses; the
  survivor becomes `TECHNICAL_INVALID / CAMPAIGN_EXECUTOR_FAILED`
  (`strategy_campaign.py:676`).
* `campaign_handoff`: a campaign that died after its experiment survived finds it
  again as a reused execution when it is restarted, and stores a survivor with
  `execution_started` 0.  `robustness_trial_context` refuses a whole census that
  has one (`strategy_lab.py:2109`), and the census is immutable, so none of its
  survivors can ever be tested for robustness; the same holds of a survivor
  reused from another campaign, which the campaign contract allows
  (`docs/contracts/strategy-campaign-v1.md:27`).
* `funding_retry`: a writer killed between the rename and the fsync leaves a
  directory that the retry takes for safe; the pointer may survive a power loss
  that the generation does not (`funding_observation.py:375`).
* `family_breaker`: a breaker that trips while the strategy is long records FLAT
  without submitting it, and `on_stop` then submits nothing: the run ends with
  the position open (`live_strategy.py:311`).

## 4. Proofs

TLAPS checks 46 theorems, each for every value of the constants: any number of
processes, campaigns, operators, hypotheses, cells, rows and bars.  An assumption
in the second column is a hypothesis of the theorem; the assumptions on constants
(`SyncAssumption`, `CampaignAssumption`, `MatrixAssumption` and so on) are named
in the modules that declare the constants and say what the code enforces.

| Module | Theorems |
|---|---|
| `StrategyLoop_proofs` | `TypeCorrect` (`TypeOK`), `LaunchedOnce` (`SingleLaunch`), `NeverRelaunched` (`NoResurrection`), `EvidenceComplete` (`TerminalEvidenceComplete`), `FeedbackAgrees` (`CachedFeedbackAgrees`), `CommitNeverRefused` (`CommitAccepted`), `AnswersRecorded` (`AnswerIsRecorded`), `ImplementsRegistry` (`RegistrySpec`), `ReadsClaimedData` (`VerdictOnClaimedData`), `ReadsClaimedPolicy` (`VerdictOnClaimedPolicy`, for V2 experiments and policies that do not come back) |
| `StrategyCampaign_proofs` | `TypeCorrect` (`TypeOK`), `StartsCountedOnce` (`CountedOnce`), `SurvivorsHold` (`SurvivorsBacked`), `StartersLaunched` (`StartedMeansLaunched`), `SummariesHold` (`SummariesAgree`), `NoRelaunch` (`LaunchedOnce`) |
| `RobustnessEvidence_proofs` | `GeneratedAccepted`, `LoopStops`, `TestsDisjoint`, `CompleteWhenLongEnough` (the windows), `RobustnessHolds` (`EvidenceBacked`, `FailedRunLeavesNothing`, `AnswersAgree` of `RobustnessSpec`) |
| `PaperEvidence_proofs` | `PaperTyped` (`TypeOK`), `RecordBacked` (`EvidenceBacked`), `FailedRunClean` (`FailedRunLeavesNothing`), `AnswerOfLedger` (`AnswersAgree`), all of the composition, `RowsReadableHolds` (`RowsReadable`), `ImplementsLedger` (`LedgerSpec`) |
| `DataSync_proofs` | `TypeCorrect` (`TypeOK`), `PassIsComplete` (`PassMeansComplete`), `SnapshotsHold` (`SnapshotStable`) |
| `FundingStore_proofs` | `TypeCorrect` (`TypeOK`), `ReadyHasNoHole` (`ReadyIsWhole`), `ReadyIsBacked` (`PointerBacked`, without a power loss), `PowerIsSurvived` (`PointerBacked`, when no writer dies alone), `StoreIsRegister` (`RegisterSpec`, without a power loss) |
| `FamilyStrategy_proofs` | `NoIntentRepeated` (`IntentsAlternate`), `PositionBounded` (`WithinMaximum`), `StopFlattens` (`FlattenOnStop`), `HistoryComplete` (`NoBarMissed`), `ParityOfPaths` (`LiveMatchesBatch`), `FastPathIsExact` (`FastPathExact`), `TypesHold` (`TypeOK`) |
| `ResearchParity_proofs` | `SignalsOfLive` (a candidate is replayed on what a live strategy answers), `SignalsFollowed` (`ReplayFollowsSignals`), `EndsFlat` (`ReplayEndsFlat`), `FundingFollows` (`FundingFollowsPosition`) |

**The loop.**  `SingleLaunch` is not inductive: a process about to launch must
know that nobody did.  `ClaimInv` says why it does: a claim is exclusive
(`Exclusive`); a process that found no row (`fresh`) works on an experiment that
has none until it adds the row itself, and that nobody has launched then
(`FreshOK`); from that row on a claimed experiment has an owner (`OwnedOK`); and
an experiment without an owner was never launched, one with an owner at most once
(`LaunchOK`).  It rests on
`TypeInv`, which adds to `TypeOK` what the locals of a process hold at each of
its steps.  `NoResurrection` is an action property from the same two invariants:
a step on an abandoned experiment would need a claim that is fresh or launched,
and both exclude it.

**The evidence of the loop.**  `EvidenceInv` strengthens the four evidence
properties at once: an experiment nobody launched has no evidence (`BlankOK`), a
terminal one has all of it (`SettledOK`), a process on its way to the last commit
has published exactly what the steps behind it publish (`ProgressOK`), and an
answer that is being returned is in the ledger (`AnswerOK`).  From it the commit
is never refused, and every step of the loop is a step of the registry or leaves
it alone.  `InputsInv` says that while a process reads, the sync is out and the data are
those its experiment names; `PolicyInv` that policies only move forward, so that
an engine which read a later one is noticed by the recheck.  The latter needs both
hypotheses of `ReadsClaimedPolicy`: a V1 experiment rechecks nothing, and a policy
that comes back is not noticed.

**The campaign.**  `CampaignInv` follows the campaign's *book*, the evidence it
holds in memory until its census is stored and the census from then on.
`TypeInv` says that one campaign works at a time (`Alone`).  `LaunchInv` relates
who launched an experiment to its phase.  `BookInv` says that every trial of a
book is true of the ledger (`TrialsOK`), that no experiment is counted as started
twice, nor counted at all while the campaign still is between its lookup and the
end of its execution (`CountInv`, `Uncounted`), and that survivors share the
reference world (`WorldsOK`).  `ShownInv` adds to `SummariesAgree` that a
campaign with a summary has a census.

**Robustness and Paper.**  `LedgerInv` says that runs which did not overlap were
alone (`Alone`), that a run still under way when there is a record wrote it
(`Settled`), and that the cells a run has verified stay until it ends
(`Verified`).  `Pristine` says that the artifacts are those the run found, plus
what it counts as created, which is what the clean-up removes.  `PaperInv` says
that what an operator is about to insert rests on artifacts and rows that are
there for good (`RowsBacked`, `JobBacked`), and that a verdict file which is not
contested is written once (`FileOnce`), so that its row agrees with it
(`VerdictsReadable`).  Both modules' invariants together give the refinement of
`EvidenceLedger`.

**Data sync.**  `WholeInv` carries completeness along a job: as long as no stream
was cut short by a limit, the streams before the job's own are whole
(`BehindWhole`), its own is whole up to the cursor, since the cursor only follows
what was read back (`CursorWhole`), and all are when it comes to the funding
(`FundingWhole`) and to its report (`ReportWhole`).  `LockInv` says that who works
holds the lock and nobody reads then, which gives `SnapshotStable`.

**The funding store.**  `Inv` says that exactly the holder of the lock is at
work, that the base of a sync still is the ready generation (no one else could
publish), and that what is staged is valid, on disk before the pointer names it,
and an extension of the ready history if a sync staged it.  The step that needs
more than first-order shuffling is the merge: `MergedGeneration` proves that an
accepted page merged into a generation is a generation that keeps every row.
`Inv` survives a power loss, so that `TypeOK` holds with one, and so does
`ReadyIsWhole`: a ready generation is valid, and between the next and the
previous row around a slot without one, which exist because every set of slots
has a least and a greatest member, validity bounds the gap.  `PointerBacked` does
not: without a power loss it is inductive beside `Inv` (`ReadyIsBacked`); with
power losses, but no writer that dies alone, it needs `SafeInv`, that pointers
name fsynced generations and that only what one writer has just renamed is not
(`PowerIsSurvived`).  With both it is false, which is what `funding_retry` shows.

**The live strategy.**  `IntentsAlternate` is strengthened to `IntentInv`: the
same alternation holds of the saved snapshot, or a restore would break it; that
decisions are one of four words needs the parameter check of every family
(`DecisionType`).  `WithinMaximum` and `FlattenOnStop` need `Follows`: until the
breaker trips or an exit is rejected the open orders alternate and lead from the
position to the current intent, so that filling or losing the first of them
leaves the rest consistent (`OrderTail`), and submitting a new intent extends
them (`OrderAppend`).  The assumptions are those `load_risk_execution_policy`
and `__init__` enforce (`StrategyAssumption`).

**Batch, live and restored.**  `Holds` says in closed form what an evaluator that
has heard a history holds: the last warm-up window of bars, the last timestamp
and, in the regime family, the last closes of two lengths.  `PushHolds` shows that
a push leads from the one history to the next, which needs that trimming after
each append is trimming once at the end (`LastNAppend`, `ClosesLastN`).
`KernelInv` is then inductive: the evaluator holds what the history makes it
hold, each answer is the decision of that prefix of the history, the bars are in
order and, with a gap check, at their interval, and all of this is true of the
snapshot too.  A restore keeps it because replaying a window of bars rebuilds
closes that are no longer than the window (`RestoreHolds`; this is where
`Warmup` must be the greater of the two regime windows).  A batch decides what the
evaluator decides after the same bars (`BatchIsLive`), which is `LiveMatchesBatch`;
`FastPath` says that two trimmed close windows are the trimmed window's closes.

**The replay.**  `DecisionsOfFamily` gives the signals of a history in closed
form, so that they come in the order of their times and, by `KernelInv`, are a
live strategy's answers.  `ReplayHeld` is the invariant of a replay after its k-th
bar: it has read the signals before that bar and desires the intent of the last
one (`Reading`: however many fall between two bars, the last change among them
leads there, and without a change nothing is lost); a signal that waits r bars is
what the bar brought that came `delay_bars - 1 - r` bars ago, and where none waits
that bar changed nothing (`QueueHeld`, `QueueMoves`); the position is what was
wished `delay_bars` bars earlier; and the fills alternate up to the position, each
after its signal (`FillsHeld`).  `ReplayInv` is the induction, and
`ReplayFollowsSignals` one conjunct of it.  At the boundary the last fill closes
the position (`ReplayEnds`).  For funding, the fills of the first k bars are the
first fills of the whole replay and all others come at later bars (`FillsGrow`),
so that the sum of those before a time is the parity of their number
(`NetOfFills`) and therefore the engine's position (`FundingAt`).  The theorems
assume of `None` that it is neither a number nor a signal.

Induction over bars is done without the library's induction theorems: `UpTo`, by
the least counterexample (`LeastNumber`), shows that a set of positions which
holds 0 and, with each, the next one holds all; that a recursive function is what
its equation says is shown from a closed form that satisfies the equation, or
from one that is built position by position (`ReplayTakesBars`).

Only model-checked: liveness (`RunsEnd`, `JobsEnd`, `SnapshotGiven`), as fairness
and `ENABLED` are out of the prover's reach.  What a single family computes from
its window (`Sum` and the day of the IBS family are folds) is taken by the proofs
as it is; they show which window it is computed from.

## 5. Not modelled, and observations without a run

* Float rounding in the families, fees, funding amounts, returns, drawdowns,
  stress costs, regime labels and the gates of screen and robustness: arithmetic,
  not control.  A cell's result is chosen freely instead.
* A rival that owns the experiment under another thesis; the SCREEN_REJECTED
  status, which nothing can produce any more; the rollback manifest of the
  legacy funding files; one-minute reconstruction; the `status` command, which
  reads only; formats, hashes and messages.
* The lineage table, the funnel views and the schema migrations of the ledger;
  node composition, the bounded smokes and the reconciliation of bars in the
  Paper runtime.
* `PaperEvidence` and `RobustnessEvidence` assume one survivor and one campaign,
  data that stay while robustness runs, a directory of documents that appears at
  once, and a ledger that answers the SELECT of the unwind.  The code publishes
  the child hypothesis, the verdict, the feedback and the action one by one
  (`strategy_lab.py:2358-2399`); its unwind removes whichever of them this run
  created, and no row refers to a part of them, so that a prefix is as good as
  nothing to every reader.
* Reasons of a trial that nothing the models contain can produce:
  CAMPAIGN_EXECUTION_UNRECORDED (`strategy_lab.py:3893-3909`) wants an answer of
  the loop that its ledger does not have, which `AnswerIsRecorded` of
  `loop_legacy` excludes, and STRATEGY_ID_MISMATCH a strategy that is not its own.
* The Binance client and the Nautilus I/O (sequential, nothing shared; the models
  take whole chunks and pages, or a failure), the legacy backtest, configuration
  and attestation, scripts, hooks and launchd jobs.

Met while modelling, without a document that says otherwise:

* a V1 experiment rechecks nothing after the engine (`candidate_backtest.py:1039`);
  a V2 policy that is replaced and put back between the rechecks at
  `strategy_lab.py:4189` and `:4242` is not noticed (`PolicyReturns`);
* a reused execution claims to have been started when a drift is noticed after
  the reuse (`strategy_lab.py:3916`); then a rival had launched it, which is the
  exception `StartedMeansLaunched` makes;
* `cleanup_created_cells` (`strategy_robustness.py:2113`) takes no lock and does
  not look at the ledger: a run that fails beside another one, or that raises
  after its own commit, unlinks cells a record refers to.  The contract
  (`docs/contracts/strategy-robustness-v1.md:20-24`, `:30-32`) promises clean-up
  and reuse, and speaks of neither case; `lapses` excepts them, and `EvidenceBacked`
  and `FailedRunLeavesNothing` say nothing of them;
* a technical failure of one cell, of whatever cause, is recorded as
  FIX_TECHNICAL and is final (`strategy_robustness.py:839`);
* one unreadable robustness record blocks the Paper admission of every candidate
  (`strategy_lab.py:2931`);
* `finish_run` publishes an artifact named by the run before a plain INSERT
  (`paper_runtime.py:397`): after a crash in between, the run can only be finished
  with the same report, and after a status or an outcome that only the table
  refuses, not at all;
* a campaign of invalid attempts only can be stored but never read back
  (`strategy_lab.py:3988`);
* overlapping readers keep every sync out, each ending with BUSY and status 0
  (`service.py:47`);
* the report is written outside the lock (`cli.py:267`), so a candidate sync in
  between makes `status` fail (`cli.py:197`) until the next full sync;
* a funding row the API revises after it was stored stops every later sync
  (`funding_observation.py:486`);
* `on_bar` does not look at `technical_status`: after the breaker the next LONG
  is bought on top of the open position (`live_strategy.py:279`).

## 6. Plan

Done: the loop and the registry it implements, campaigns, robustness runs, the
Paper store and the ledger they implement together, the data jobs, the funding
store and its register, the families, the live strategy and the replay, with the
proofs above: every safety property that a run checks is a theorem.

What is left, in the order of its worth:

1. Several campaigns and survivors in `RobustnessEvidence`, with data that move:
   the trial context of `strategy_robustness.py:2055` is then read from a census
   that is fixed and a data source that is not.
2. `status` in `DataSync`: reports that carry their funding generation, and the
   window between `cli.py:267` and `cli.py:197`.
3. The gates of the screen and of a robustness cell as pure modules.
4. The reconciliation of bars of the bounded smokes (`paper_runtime.py`), over
   `FamilyStrategy`.
