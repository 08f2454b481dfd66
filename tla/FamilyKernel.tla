---------------------------- MODULE FamilyKernel ----------------------------
(***************************************************************************)
(* The strategy families of strategy_families.py: their parameters, what   *)
(* each of them decides from a window of completed bars, the batch         *)
(* evaluation that historical replays use, and the incremental evaluator   *)
(* that a live strategy feeds one bar at a time.                           *)
(*                                                                         *)
(* A bar is [ts, close].  Time is counted in bars (DayBars of them make a  *)
(* UTC day), high and low are those of the closes, and a threshold is a    *)
(* whole number of percent, so that every comparison of two quotients is   *)
(* an exact one of two products.                                           *)
(***************************************************************************)
EXTENDS Integers, Sequences
LOCAL INSTANCE SequencesExt

CONSTANTS
  DayBars,  \* completed bars in a UTC day: 24
  None      \* nothing: no snapshot, no expected interval, no signal

ASSUME DayBarsAssumption == DayBars \in Nat \ {0}

MaxBars == 8760
Percent == Nat

(* The parameters each family's validator accepts. *)
MomentumParameters == [lookback_bars : 1 .. MaxBars, entry_threshold : Percent]
TrendParameters == [window_bars : 2 .. MaxBars]
DualParameters ==
  {p \in [fast_window_bars : 2 .. MaxBars, slow_window_bars : 2 .. MaxBars] :
     p.fast_window_bars < p.slow_window_bars}
RegimeParameters ==
  [momentum_lookback_bars : 1 .. MaxBars, trend_window_bars : 2 .. MaxBars,
   entry_threshold : Percent]
SkipParameters ==
  {p \in [formation_lookback_bars : 2 .. MaxBars, skip_recent_bars : 1 .. MaxBars] :
     p.skip_recent_bars < p.formation_lookback_bars}
IbsParameters == [entry_ibs_threshold : 1 .. 99]
ReversionParameters == [window_bars : 2 .. MaxBars, discount_threshold : Percent]

\* A strategy's rule: a family of the registry with parameters it accepts.
ValidRule(r) ==
  \/ r.family = "momentum" /\ r.parameters \in MomentumParameters
  \/ r.family = "trend" /\ r.parameters \in TrendParameters
  \/ r.family = "dual" /\ r.parameters \in DualParameters
  \/ r.family = "regime" /\ r.parameters \in RegimeParameters
  \/ r.family = "skip" /\ r.parameters \in SkipParameters
  \/ r.family = "ibs" /\ r.parameters \in IbsParameters
  \/ r.family = "reversion" /\ r.parameters \in ReversionParameters

(* How many bars a family needs before its first decision. *)
Warmup(r) ==
  LET p == r.parameters
  IN  CASE r.family = "momentum" -> p.lookback_bars
        [] r.family \in {"trend", "reversion"} -> p.window_bars
        [] r.family = "dual" -> p.slow_window_bars
        [] r.family = "regime" ->
             IF p.momentum_lookback_bars > p.trend_window_bars
             THEN p.momentum_lookback_bars ELSE p.trend_window_bars
        [] r.family = "skip" -> p.formation_lookback_bars + 1
        [] r.family = "ibs" -> 3 * DayBars

(* The last n elements of a sequence: bars[-n:], and what a deque that is  *)
(* trimmed from the left after each append holds.                          *)
LastN(s, n) == IF Len(s) <= n THEN s ELSE SubSeq(s, Len(s) - n + 1, Len(s))

Closes(bars) == [i \in DOMAIN bars |-> bars[i].close]
Sum(s) == FoldLeft(LAMBDA total, x : total + x, 0, s)
Intent(long) == IF long THEN "LONG" ELSE "FLAT"

\* last / first - 1 > threshold
Rose(first, last, threshold) == 100 * last > (100 + threshold) * first

\* The mean of s is above the mean of t.
MeanAbove(s, t) == Sum(s) * Len(t) > Sum(t) * Len(s)

MomentumEvaluation(c, p) ==
  Intent(Rose(c[Len(c) - p.lookback_bars + 1], Last(c), p.entry_threshold))

TrendEvaluation(c) == Intent(MeanAbove(<<Last(c)>>, c))

DualEvaluation(c, p) == Intent(MeanAbove(LastN(c, p.fast_window_bars), c))

RegimeDecision(momentum, trend, p) ==
  Intent(/\ Rose(Head(momentum), Last(momentum), p.entry_threshold)
         /\ MeanAbove(<<Last(momentum)>>, trend))

RegimeEvaluation(c, p) ==
  RegimeDecision(LastN(c, p.momentum_lookback_bars), LastN(c, p.trend_window_bars), p)

SkipEvaluation(c, p) == Intent(Rose(c[1], c[Len(c) - p.skip_recent_bars], 0))

ReversionEvaluation(c, p) ==
  Intent(100 * Last(c) * Len(c) < (100 - p.discount_threshold) * Sum(c))

(* The internal bar strength of the last day completed at the last bar; no *)
(* decision can be made when that day is not whole or did not move.        *)
IbsEvaluation(bars, p) ==
  LET end == (Last(bars).ts \div DayBars) * DayBars
      day == SelectSeq(bars, LAMBDA b : end - DayBars < b.ts /\ b.ts <= end)
      closes == {day[i].close : i \in DOMAIN day}
      high == CHOOSE x \in closes : \A y \in closes : y <= x
      low == CHOOSE x \in closes : \A y \in closes : x <= y
  IN  IF Len(day) # DayBars \/ high = low
      THEN "RAISED"
      ELSE Intent(100 * (Last(day).close - low) < p.entry_ibs_threshold * (high - low))

(* The registered evaluation of a rule over a full window. *)
Evaluate(r, bars) ==
  LET c == Closes(bars)
      p == r.parameters
  IN  CASE r.family = "momentum" -> MomentumEvaluation(c, p)
        [] r.family = "trend" -> TrendEvaluation(c)
        [] r.family = "dual" -> DualEvaluation(c, p)
        [] r.family = "regime" -> RegimeEvaluation(c, p)
        [] r.family = "skip" -> SkipEvaluation(c, p)
        [] r.family = "ibs" -> IbsEvaluation(bars, p)
        [] r.family = "reversion" -> ReversionEvaluation(c, p)

-----------------------------------------------------------------------------
(* The batch evaluation: the decisions over a history, which ends where a  *)
(* decision raises.  The regime family keeps two close windows instead of  *)
(* one window of bars.                                                     *)
\* Mutant: the trend window is trimmed one bar late.
LateTrim(r, bars) ==
  [trend |-> LastN(Closes(bars), r.parameters.trend_window_bars + 1),
   momentum |-> LastN(Closes(bars), r.parameters.momentum_lookback_bars)]

BatchWindows(r, bars) ==
  LET after[i \in 0 .. Len(bars)] ==
        IF i = 0
        THEN [trend |-> <<>>, momentum |-> <<>>]
        ELSE LET w == after[i - 1]
             IN  [trend |-> LastN(Append(w.trend, bars[i].close), r.parameters.trend_window_bars),
                  momentum |-> LastN(Append(w.momentum, bars[i].close),
                                     r.parameters.momentum_lookback_bars)]
  IN  after[Len(bars)]

BatchDecision(r, bars) ==
  IF r.family = "regime"
  THEN LET w == BatchWindows(r, bars) IN RegimeDecision(w.momentum, w.trend, r.parameters)
  ELSE Evaluate(r, LastN(bars, Warmup(r)))

EvaluateBatch(r, bars) ==
  LET decisions == [k \in 1 .. Len(bars) - Warmup(r) + 1 |->
                      BatchDecision(r, SubSeq(bars, 1, Warmup(r) + k - 1))]
      raised == {k \in DOMAIN decisions : decisions[k] = "RAISED"}
  IN  IF raised = {} THEN decisions ELSE SubSeq(decisions, 1, Min(raised))

-----------------------------------------------------------------------------
(* The incremental evaluator. *)
NewEvaluator == [window |-> <<>>, last |-> 0, trend |-> <<>>, momentum |-> <<>>]

\* Mutant: the closes of the warm-up are not tracked.
TrackWarm(r, e, close) ==
  IF r.family # "regime" \/ Len(e.window) < Warmup(r)
  THEN e
  ELSE [e EXCEPT
         !.trend = LastN(Append(@, close), r.parameters.trend_window_bars),
         !.momentum = LastN(Append(@, close), r.parameters.momentum_lookback_bars)]

Track(r, e, close) ==
  IF r.family # "regime"
  THEN e
  ELSE [e EXCEPT
         !.trend = LastN(Append(@, close), r.parameters.trend_window_bars),
         !.momentum = LastN(Append(@, close), r.parameters.momentum_lookback_bars)]

\* A bar is valid when it is later than every bar before it.
ValidBar(e, b) == b.ts > e.last

Push(r, e, b) ==
  Track(r, [e EXCEPT !.window = LastN(Append(@, b), Warmup(r)), !.last = b.ts], b.close)

\* The evaluator after each of the bars that a new one is fed.
Pushes(r, bars) ==
  LET after[i \in 0 .. Len(bars)] ==
        IF i = 0 THEN NewEvaluator ELSE Push(r, after[i - 1], bars[i])
  IN  after

\* The answer of the push that left the evaluator e; "NONE" while warming up.
Decision(r, e) ==
  IF Len(e.window) < Warmup(r)
  THEN "NONE"
  ELSE IF r.family = "regime"
       THEN RegimeDecision(e.momentum, e.trend, r.parameters)
       ELSE Evaluate(r, e.window)

(* A snapshot holds the window and the last timestamp; restoring it pushes *)
(* the bars of the window again, and fails when one of the pushes raises.  *)
KernelSnapshot(e) == [window |-> e.window, last |-> e.last]

RestoreIncremental(r, s) == Pushes(r, s.window)[Len(s.window)]

RestoreSucceeds(r, s) ==
  /\ \A i \in DOMAIN s.window : Decision(r, Pushes(r, s.window)[i]) # "RAISED"
  /\ RestoreIncremental(r, s).last = s.last
=============================================================================
