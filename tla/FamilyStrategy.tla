---------------------------- MODULE FamilyStrategy ----------------------------
(***************************************************************************)
(* FamilyStrategy of live_strategy.py: the strategy that follows a family  *)
(* of FamilyKernel bar by bar, in Shadow (no orders) or in Paper (orders   *)
(* to a sandbox venue inside the process).  A process may stop cleanly or  *)
(* be killed, and a snapshot taken before lets another process go on.      *)
(*                                                                         *)
(* The venue is external: it fills or rejects the orders it is sent, in    *)
(* their order, and a reduce-only order never opens a position.            *)
(***************************************************************************)
EXTENDS FamilyKernel
LOCAL INSTANCE SequencesExt

CONSTANTS
  Deployments,    \* the strategies that are run (see ValidDeployment)
  Prices,         \* the closes of bars
  Policy,         \* the risk policy (see ValidPolicy)
  MaxRestarts     \* bound on kills

(* load_risk_execution_policy: what a policy must be to be accepted; time   *)
(* is counted in bars.                                                     *)
ValidPolicy(p) ==
  /\ ~p.allow_live_execution
  /\ p.position_intents = <<"FLAT", "LONG">>
  /\ p.order_mapping = "MARKET" /\ p.reduce_only_exit
  /\ p.kill_switch /\ p.flatten_on_exit
  /\ {p.stale_data_after, p.maximum_quantity, p.maximum_notional, p.maximum_loss,
      p.gross_exposure_limit, p.net_exposure_limit, p.per_symbol_exposure_limit}
        \subseteq Nat \ {0}
  /\ \A limit \in {p.gross_exposure_limit, p.net_exposure_limit, p.per_symbol_exposure_limit} :
        p.maximum_notional <= limit

\* What __init__ accepts.
ValidDeployment(d) ==
  /\ ValidRule(d)
  /\ d.mode \in {"SHADOW", "PAPER"}
  /\ d.expected_interval \in (Nat \ {0}) \cup {None}
  /\ d.quantity \in (1 .. Policy.maximum_quantity) \cup {None}
  /\ d.horizon \in Nat        \* bound on the timestamps of its bars

ASSUME StrategyAssumption ==
  /\ ValidPolicy(Policy)
  /\ \A d \in Deployments : ValidDeployment(d)
  /\ Prices \subseteq Nat \ {0}
  /\ MaxRestarts \in Nat
  /\ None \notin Nat

VARIABLES
  deployment,   \* the strategy that is run
  phase,        \* "running", "stopped" or "down" (killed)
  bound,        \* this instance has a trader, an instrument and a quantity
  evaluator,    \* its IncrementalFamilyEvaluator
  intent,       \* _current_intent
  intents,      \* the intents of _order_intents
  status,       \* technical_status
  saved,        \* the last snapshot, or None
  pending,      \* orders submitted and not yet answered
  position,     \* the position at the venue, in units of quantity
  restarts,     \* kills so far
  heard,        \* history: the bars the evaluator took, across restarts
  decided,      \* history: its answers to them
  incidents     \* history: what has detached the position from the intent

engine == <<evaluator, intent, intents, status>>
history == <<heard, decided>>
vars == <<deployment, phase, bound, engine, saved, pending, position, restarts,
          history, incidents>>

Paper == deployment.mode = "PAPER"

Init ==
  /\ deployment \in Deployments
  /\ phase = "running"
  /\ bound = (deployment.quantity # None)
  /\ evaluator = NewEvaluator
  /\ intent = "FLAT"
  /\ intents = <<>>
  /\ status = "PASS"
  /\ heard = <<>>
  /\ decided = <<>>
  /\ saved = None
  /\ pending = <<>>
  /\ position = 0
  /\ restarts = 0
  /\ incidents = {}

-----------------------------------------------------------------------------
(* Bars. *)

\* Mutant: only a bar that comes too early is noticed.
EarlyOnly(b) ==
  /\ deployment.expected_interval # None
  /\ evaluator.last # 0
  /\ b.ts - evaluator.last < deployment.expected_interval

\* The gap check reads the evaluator; the push checks the order of bars.
Gap(b) ==
  /\ deployment.expected_interval # None
  /\ evaluator.last # 0
  /\ b.ts - evaluator.last # deployment.expected_interval

Bars == [ts : 1 .. deployment.horizon, close : Prices]

RefuseBar(b) ==
  /\ phase = "running"
  /\ Gap(b) \/ ~ValidBar(evaluator, b)
  /\ status' = "ERROR"
  /\ UNCHANGED <<deployment, phase, bound, evaluator, intent, intents, saved, pending,
                 position, restarts, history, incidents>>

\* _submit_intent: a MARKET order, reduce-only when it is an exit.
Order(i) == IF i = "LONG" THEN "BUY" ELSE "SELL"

\* Mutant: every decision is recorded and submitted.
FollowAlways(decision) ==
  /\ intent' = decision
  /\ intents' = IF Paper THEN Append(intents, decision) ELSE intents
  /\ pending' = IF Paper /\ bound THEN Append(pending, Order(decision)) ELSE pending

(* A decision that changes the intent of a Paper strategy is recorded and  *)
(* submitted; without an execution identity the submission raises after    *)
(* the intent is recorded.                                                 *)
Follow(decision) ==
  LET changed == Paper /\ decision # intent
  IN  /\ intent' = decision
      /\ intents' = IF changed THEN Append(intents, decision) ELSE intents
      /\ pending' = IF changed /\ bound THEN Append(pending, Order(decision)) ELSE pending

TakeBar(b) ==
  /\ phase = "running"
  /\ ~Gap(b)
  /\ ValidBar(evaluator, b)
  /\ evaluator' = Push(deployment, evaluator, b)
  /\ heard' = Append(heard, b)
  /\ LET decision == Decision(deployment, evaluator')
     IN  /\ decided' = Append(decided, decision)
         /\ status' = IF decision = "RAISED" THEN "ERROR" ELSE status
         /\ IF decision \in {"NONE", "RAISED"}
            THEN UNCHANGED <<intent, intents, pending>>
            ELSE Follow(decision)
  /\ UNCHANGED <<deployment, phase, bound, saved, position, restarts, incidents>>

-----------------------------------------------------------------------------
(* The circuit breaker and the end of the run. *)

\* Mutant: the intent is recorded whatever the current one is.
FlattenAlways ==
  /\ intents' = IF Paper THEN Append(intents, "FLAT") ELSE intents
  /\ intent' = IF Paper THEN "FLAT" ELSE intent

\* The FLAT intent that the breaker and the shutdown record.
Flatten ==
  /\ intents' = IF Paper /\ intent = "LONG" THEN Append(intents, "FLAT") ELSE intents
  /\ intent' = IF Paper THEN "FLAT" ELSE intent

TripCircuitBreaker ==
  /\ phase = "running"
  /\ status' = "ERROR"
  /\ Flatten
  /\ incidents' = IF Paper /\ intent = "LONG" THEN incidents \cup {"trip"} ELSE incidents
  /\ UNCHANGED <<deployment, phase, bound, evaluator, saved, pending, position, restarts,
                 history>>

ObserveAccountLoss ==
  \E loss \in 0 .. Policy.maximum_loss : loss >= Policy.maximum_loss /\ TripCircuitBreaker

CheckStale ==
  \E now \in 0 .. deployment.horizon + Policy.stale_data_after + 1 :
    /\ evaluator.last = 0 \/ now - evaluator.last > Policy.stale_data_after
    /\ TripCircuitBreaker

\* Mutant: the intent is read after shutdown_flatten has changed it.
LateExit == pending' = IF Paper /\ intent' = "LONG" /\ bound THEN Append(pending, "SELL") ELSE pending

Exit == pending' = IF Paper /\ intent = "LONG" /\ bound THEN Append(pending, "SELL") ELSE pending

\* on_stop submits what shutdown_flatten recorded.
OnStop ==
  /\ phase = "running"
  /\ phase' = "stopped"
  /\ Flatten
  /\ Exit
  /\ UNCHANGED <<deployment, bound, evaluator, status, saved, position, restarts, history,
                 incidents>>

-----------------------------------------------------------------------------
(* The venue. *)

Filled(order) ==
  CASE order = "BUY" -> position + 1
    [] order = "SELL" /\ position > 0 -> position - 1
    [] OTHER -> position

Fill ==
  /\ phase # "down"
  /\ pending # <<>>
  /\ pending' = Tail(pending)
  /\ position' = Filled(Head(pending))
  /\ UNCHANGED <<deployment, phase, bound, engine, saved, restarts, history, incidents>>

Reject ==
  /\ phase # "down"
  /\ pending # <<>>
  /\ pending' = Tail(pending)
  /\ incidents' = IF Head(pending) = "SELL" THEN incidents \cup {"reject"} ELSE incidents
  /\ UNCHANGED <<deployment, phase, bound, engine, saved, position, restarts, history>>

-----------------------------------------------------------------------------
(* Snapshots, kills and restarts. *)

Snapshot ==
  /\ phase # "down"
  /\ restarts < MaxRestarts   \* bound: no kill would follow
  /\ saved' = [kernel |-> KernelSnapshot(evaluator), intent |-> intent,
               intents |-> intents, status |-> status,
               heard |-> heard, decided |-> decided]
  /\ saved' # saved
  /\ UNCHANGED <<deployment, phase, bound, engine, pending, position, restarts, history,
                 incidents>>

\* The sandbox venue lives in the process: its orders and position go too.
Kill ==
  /\ phase # "down"
  /\ restarts < MaxRestarts
  /\ phase' = "down"
  /\ restarts' = restarts + 1
  /\ pending' = <<>>
  /\ position' = 0
  /\ incidents' = {}
  /\ bound' = FALSE
  /\ evaluator' = NewEvaluator
  /\ intent' = "FLAT"
  /\ intents' = <<>>
  /\ status' = "PASS"
  /\ heard' = <<>>
  /\ decided' = <<>>
  /\ UNCHANGED <<deployment, saved>>

(* A snapshot holds no execution identity: whoever restores it gives the   *)
(* new instance one, or does not.                                          *)
Restore ==
  /\ phase = "down"
  /\ saved # None
  /\ RestoreSucceeds(deployment, saved.kernel)
  /\ phase' = "running"
  /\ bound' \in {FALSE, deployment.quantity # None}
  /\ evaluator' = RestoreIncremental(deployment, saved.kernel)
  /\ intent' = saved.intent
  /\ intents' = saved.intents
  /\ status' = saved.status
  /\ heard' = saved.heard
  /\ decided' = saved.decided
  /\ UNCHANGED <<deployment, saved, pending, position, restarts, incidents>>

\* A new strategy, the snapshot abandoned: all of it is as Kill left it.
StartAfresh ==
  /\ phase = "down"
  /\ phase' = "running"
  /\ bound' = (deployment.quantity # None)
  /\ saved' = None
  /\ UNCHANGED <<deployment, engine, history, pending, position, restarts, incidents>>

Next ==
  \/ \E b \in Bars : RefuseBar(b) \/ TakeBar(b)
  \/ TripCircuitBreaker \/ ObserveAccountLoss \/ CheckStale
  \/ OnStop
  \/ Fill \/ Reject
  \/ Snapshot \/ Kill \/ Restore \/ StartAfresh

Spec == Init /\ [][Next]_vars

-----------------------------------------------------------------------------
(* Properties *)

Decisions == {"NONE", "LONG", "FLAT", "RAISED"}
Rows == [ts : Nat \ {0}, close : Prices]

\* The variables have their types.
TypeOK ==
  /\ deployment \in Deployments
  /\ phase \in {"running", "stopped", "down"}
  /\ bound \in BOOLEAN
  /\ evaluator.window \in Seq(Rows) /\ evaluator.last \in Nat
  /\ intent \in {"LONG", "FLAT"}
  /\ intents \in Seq({"LONG", "FLAT"})
  /\ status \in {"PASS", "ERROR"}
  /\ pending \in Seq({"BUY", "SELL"})
  /\ position \in Nat
  /\ restarts \in 0 .. MaxRestarts
  /\ heard \in Seq(Rows)
  /\ decided \in Seq(Decisions)
  /\ incidents \subseteq {"trip", "reject"}

(* What a live strategy decides, bar by bar and across kills and restores, *)
(* is what evaluate_batch makes of the same bars, up to the bar at which   *)
(* the batch raises (test_live_strategy.py, parity of the two paths).      *)
LiveMatchesBatch ==
  LET warm == Warmup(deployment)
      answers == SubSeq(decided, warm, Len(decided))
      batch == EvaluateBatch(deployment, heard)
  IN  /\ Len(decided) = Len(heard)
      /\ \A i \in DOMAIN decided : decided[i] = "NONE" <=> i < warm
      /\ IsPrefix(batch, answers)
      /\ (\E k \in DOMAIN batch : batch[k] = "RAISED") \/ batch = answers

(* The two-window fast path of the regime family decides what the family's *)
(* registered evaluation decides from the last warm-up window of bars.     *)
FastPathExact ==
  deployment.family = "regime" =>
    \A i \in Warmup(deployment) .. Len(heard) :
      EvaluateBatch(deployment, heard)[i - Warmup(deployment) + 1] =
        Evaluate(deployment, LastN(SubSeq(heard, 1, i), Warmup(deployment)))

(* With an expected interval no bar is missed, across kills and restores.  *)
NoBarMissed ==
  deployment.expected_interval # None =>
    \A i \in 1 .. Len(heard) - 1 :
      heard[i + 1].ts = heard[i].ts + deployment.expected_interval

(* The recorded intents alternate, start with LONG and end with the        *)
(* current intent, so that no restart repeats or loses one; a Shadow       *)
(* strategy records none.                                                  *)
IntentsAlternate ==
  /\ \A i \in DOMAIN intents : intents[i] = IF i % 2 = 1 THEN "LONG" ELSE "FLAT"
  /\ IF Paper
     THEN intent = IF Len(intents) % 2 = 1 THEN "LONG" ELSE "FLAT"
     ELSE intents = <<>> /\ pending = <<>> /\ position = 0

(* Until the breaker trips or the venue rejects an exit, the position is   *)
(* never above the quantity that maximum_quantity allowed.                 *)
WithinMaximum ==
  incidents = {} /\ position > 0 => position * deployment.quantity <= Policy.maximum_quantity

(* Until the breaker trips or the venue rejects an exit, a stopped strategy *)
(* whose orders are answered is flat.                                      *)
FlattenOnStop ==
  phase = "stopped" /\ pending = <<>> /\ incidents = {} => position = 0

(* "risk policy requires kill switch and flatten-on-exit": a stopped       *)
(* strategy whose exits were not rejected is flat.                         *)
FlattenOnExit ==
  phase = "stopped" /\ pending = <<>> /\ "reject" \notin incidents => position = 0
=============================================================================
