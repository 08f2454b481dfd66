--------------------------- MODULE CandidateReplay ---------------------------
(***************************************************************************)
(* How run_candidate_backtest replays a candidate: the decisions of its    *)
(* family over all source bars become a plan, and                          *)
(* _CandidateReplayStrategy acts on the plan over the bars of the          *)
(* evaluation window, with a delay and a flat end.                         *)
(*                                                                         *)
(* The engine is external: a market order is filled before the next bar.   *)
(* A fill is [intent, source, action]: what it did, the signal it came     *)
(* from (None at a forced end) and the bar at which it was ordered.        *)
(* Funding settles between the bars, on the position they left.            *)
(***************************************************************************)
EXTENDS FamilyKernel
LOCAL INSTANCE SequencesExt

\* The decisions over the source bars, from one incremental evaluator.
FamilyDecisions(r, bars) ==
  LET evaluator == Pushes(r, bars)
      decisions[i \in 0 .. Len(bars)] ==
        IF i = 0
        THEN <<>>
        ELSE LET decision == Decision(r, evaluator[i])
             IN  IF decision = "NONE"
                 THEN decisions[i - 1]
                 ELSE Append(decisions[i - 1], [intent |-> decision, ts |-> bars[i].ts])
  IN  decisions[Len(bars)]

\* The plan of a replay over the bars of a window, the last of them its boundary.
Plan(signals, window, delay) ==
  [signals |-> signals, boundary |-> Last(window).ts, delay_bars |-> delay]

(* pending holds at most one signal for each number of bars left to wait,  *)
(* for a bar adds at most one and each bar moves all of them on.           *)
NewReplay ==
  [cursor |-> 0, desired |-> "FLAT", pending |-> <<>>, deduped |-> 0,
   flattened |-> FALSE, long |-> FALSE, fills |-> <<>>]

\* Mutant: the signal of the bar itself is known at the bar.
LookAhead(plan, s, b) ==
  {i \in s.cursor + 1 .. Len(plan.signals) :
     \A j \in s.cursor + 1 .. i : plan.signals[j].ts <= b.ts}

\* The signals that a bar makes known: those before it, never its own.
Known(plan, s, b) ==
  {i \in s.cursor + 1 .. Len(plan.signals) :
     \A j \in s.cursor + 1 .. i : plan.signals[j].ts < b.ts}

\* The intent that is desired when the i-th signal comes.
DesiredBefore(plan, s, i) ==
  IF i = s.cursor + 1 THEN s.desired ELSE plan.signals[i - 1].intent

\* Each known signal changes the desired intent or is a duplicate; the last
\* change is kept.
ReadSignals(plan, s, b) ==
  LET known == Known(plan, s, b)
      changes == {i \in known : plan.signals[i].intent # DesiredBefore(plan, s, i)}
      cursor == IF known = {} THEN s.cursor ELSE Max(known)
  IN  [cursor |-> cursor,
       desired |-> DesiredBefore(plan, s, cursor + 1),
       deduped |-> s.deduped + Cardinality(known \ changes),
       changed |-> IF changes = {} THEN None ELSE plan.signals[Max(changes)]]

FillFor(intent, source, b) == [intent |-> intent, source |-> source, action |-> b.ts]

\* A signal is ordered unless the position is already there.
Act(s, x, b) ==
  IF x = None \/ s.long = (x.intent = "LONG")
  THEN s
  ELSE [s EXCEPT !.long = ~@, !.fills = Append(@, FillFor(x.intent, x.ts, b))]

\* Delayed signals wait in bars; the one with none left is due.
Due(s) == IF 0 \in DOMAIN s.pending THEN s.pending[0] ELSE None

Waiting(plan, s, changed) ==
  LET delays == changed # None /\ plan.delay_bars > 0
      left == {n - 1 : n \in DOMAIN s.pending \ {0}}
                \cup (IF delays THEN {plan.delay_bars - 1} ELSE {})
  IN  [n \in left |-> IF delays /\ n = plan.delay_bars - 1 THEN changed ELSE s.pending[n + 1]]

\* The signal that explains an exit at the boundary, if there is one.
ExitSource(due, changed) ==
  CASE due # None /\ due.intent = "FLAT" -> due.ts
    [] (due = None \/ due.intent # "FLAT") /\ changed # None /\ changed.intent = "FLAT" ->
         changed.ts
    [] OTHER -> None

\* Mutant: the boundary is an ordinary bar.
NoBoundary(plan, b) == FALSE

AtBoundary(plan, b) == b.ts = plan.boundary

OnBar(plan, s, b) ==
  LET t == ReadSignals(plan, s, b)
      due == Due(s)
      read == [s EXCEPT !.cursor = t.cursor, !.desired = t.desired, !.deduped = t.deduped]
      source == ExitSource(due, t.changed)
  IN  IF AtBoundary(plan, b)
      THEN IF s.long
           THEN [read EXCEPT !.pending = <<>>, !.flattened = (source = None), !.long = FALSE,
                             !.fills = Append(@, FillFor("FLAT", source, b))]
           ELSE [read EXCEPT !.pending = <<>>]
      ELSE Act([read EXCEPT !.pending = Waiting(plan, s, t.changed)],
               IF plan.delay_bars = 0 THEN t.changed ELSE due, b)

\* The replay after each bar of a window.
ReplayStates(plan, window) ==
  LET after[i \in 0 .. Len(window)] ==
        IF i = 0 THEN NewReplay ELSE OnBar(plan, after[i - 1], window[i])
  IN  after

Replay(plan, window) == ReplayStates(plan, window)[Len(window)]

\* What run_candidate_backtest and the verdict's loader demand of a replay.
VerdictAccepted(s) ==
  /\ ~s.long
  /\ \A i \in DOMAIN s.fills :
       /\ s.fills[i].intent \in {"LONG", "FLAT"}
       /\ s.fills[i].source # None => s.fills[i].source < s.fills[i].action

-----------------------------------------------------------------------------
(* Funding: a position that is open at the time of a funding observation    *)
(* pays or receives.  An observation is its time, and instants are counted  *)
(* in half bars: a nanosecond less is the half bar before.                  *)

Instant(ts) == 2 * ts

\* The observations of a window: after its first bar, up to its last.
EvaluatedFunding(window) == Head(window).ts + 1 .. Last(window).ts

\* Mutant: Funding settles at its own time, where a bar may be too.
OnTime(t) == Instant(t)

\* T-1ns: no bar of the same time is in yet.
SettledAt(t) == Instant(t) - 1

\* The fallback of an observation without a mark: the last bar strictly before it, or
\* None, and the evaluation raises.
FallbackMark(window, t) ==
  LET prior == {i \in DOMAIN window : window[i].ts < t}
  IN  IF prior = {} THEN None ELSE window[Max(prior)]

\* The engine settles on the position of the bars it has processed; it has no order
\* between a bar and a funding event of one instant.
EnginePositions(plan, window, t) ==
  LET before == {i \in DOMAIN window : Instant(window[i].ts) < SettledAt(t)}
      upto == {i \in DOMAIN window : Instant(window[i].ts) <= SettledAt(t)}
  IN  {ReplayStates(plan, window)[Cardinality(bars)].long : bars \in {before, upto}}

\* The net quantity of the fills before a settlement, in lots of the policy's quantity.
NetQuantity(fills, t) ==
  LET net[i \in 0 .. Len(fills)] ==
        IF i = 0
        THEN 0
        ELSE LET counts == Instant(fills[i].action) < SettledAt(t)
             IN  CASE ~counts -> net[i - 1]
                   [] counts /\ fills[i].intent = "LONG" -> net[i - 1] + 1
                   [] OTHER -> net[i - 1] - 1
  IN  net[Len(fills)]

\* The evaluation raises when the account settled while flat, or did not while it was not.
SettlementAccepted(plan, window, t) ==
  LET net == NetQuantity(Replay(plan, window).fills, t)
  IN  \A long \in EnginePositions(plan, window, t) : long <=> net # 0

\* The observations that become events of the verdict.
FundingEvents(plan, window) ==
  {t \in EvaluatedFunding(window) : NetQuantity(Replay(plan, window).fills, t) # 0}

-----------------------------------------------------------------------------
\* Every stretch of a history: the windows a request may ask for.
Windows(bars) == {SubSeq(bars, i, j) : i \in DOMAIN bars, j \in DOMAIN bars} \ {<<>>}
=============================================================================
