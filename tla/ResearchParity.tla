---------------------------- MODULE ResearchParity ----------------------------
(***************************************************************************)
(* Research beside live trading: the bars a live FamilyStrategy has heard, *)
(* replayed by CandidateReplay over every window of them and with every    *)
(* delay.                                                                  *)
(***************************************************************************)
EXTENDS FamilyStrategy, CandidateReplay
LOCAL INSTANCE SequencesExt

CONSTANT Delays  \* delay_bars of the cost policies

ASSUME ReplayAssumption ==
  /\ Delays \subseteq Nat
  /\ None \notin [intent : {"LONG", "FLAT"}, ts : Nat]   \* no signal is None

\* A replay raises when a decision does.  Every history occurs before the first
\* snapshot and kill, so it is looked at there alone.
Replayable ==
  /\ heard # <<>>
  /\ saved = None /\ restarts = 0 /\ phase = "running"
  /\ \A i \in DOMAIN decided : decided[i] # "RAISED"

\* The intent of the last signal before a time: what a replay should hold.
IntentBefore(signals, ts) ==
  LET known == {i \in DOMAIN signals : signals[i].ts < ts}
  IN  IF known = {} THEN "FLAT" ELSE signals[Max(known)].intent

(* "bar-close; effective no earlier than next event", and a delay moves    *)
(* each change by that many bars: after every bar but the boundary a       *)
(* replay is long exactly when the last signal before the bar delay_bars   *)
(* earlier says so, however many signals or duplicates fell between bars.  *)
ReplayFollowsSignals ==
  Replayable =>
    LET signals == FamilyDecisions(deployment, heard)
    IN  \A window \in Windows(heard), delay \in Delays :
          \A k \in 1 .. Len(window) - 1 :
            LET plan == Plan(signals, window, delay)
                held == ReplayStates(plan, window)[k].long
            IN  held = (k > delay /\ IntentBefore(signals, window[k - delay].ts) = "LONG")

(* Every replay ends flat with a verdict its loader accepts, its fills     *)
(* alternate, and a fill without a signal is the forced exit at the        *)
(* boundary, marked as such.                                               *)
ReplayEndsFlat ==
  Replayable =>
    LET signals == FamilyDecisions(deployment, heard)
    IN  \A window \in Windows(heard), delay \in Delays :
          LET s == Replay(Plan(signals, window, delay), window)
          IN  /\ VerdictAccepted(s)
              /\ \A i \in DOMAIN s.fills :
                   /\ s.fills[i].intent = IF i % 2 = 1 THEN "LONG" ELSE "FLAT"
                   /\ s.fills[i].source = None
                        <=> (s.flattened /\ i = Len(s.fills))

(* tests/test_candidate_backtest.py:548 and :598, for every history and    *)
(* time: Funding at T is charged on what the signals said before T, at a   *)
(* price from before T, never on a fill of the bar at T or a flat account, *)
(* and the account agrees with the fills, or the evaluation would raise.   *)
FundingFollowsPosition ==
  Replayable =>
    LET signals == FamilyDecisions(deployment, heard)
    IN  \A window \in Windows(heard), delay \in Delays :
          LET plan == Plan(signals, window, delay)
              charged == FundingEvents(plan, window)
          IN  \A t \in EvaluatedFunding(window) :
                LET k == Cardinality({i \in DOMAIN window : window[i].ts < t})
                IN  /\ SettlementAccepted(plan, window, t)
                    /\ FallbackMark(window, t) = window[k]
                    /\ t \in charged
                         <=> (k > delay
                              /\ IntentBefore(signals, window[k - delay].ts) = "LONG")
===============================================================================
