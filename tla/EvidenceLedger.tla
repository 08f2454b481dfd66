---------------------------- MODULE EvidenceLedger ----------------------------
(***************************************************************************)
(* What robustness and Paper evidence promise together: rows of four kinds *)
(* that are written once and only in their order.  A survivor's robustness *)
(* verdict is decided, a verdict that advances is frozen, a frozen         *)
(* strategy is run on bars nobody has looked at, and a run gets one        *)
(* acceptable report.  Artifacts, processes and failures are not visible   *)
(* here; PaperEvidence implements this specification.                      *)
(***************************************************************************)
CONSTANTS Verdicts,        \* robustness verdicts
          Freezes,         \* strategy freezes, each with the verdict it rests on
          Runs,            \* runtime runs, each with its freeze
          Reports,         \* what a run can come to
          Advances(_),     \* Advances(v): v lets its candidate on to Paper
          Prospective(_),  \* Prospective(r): r starts after the data behind its freeze
          Accepts(_, _),   \* Accepts(r, report): report may be the verdict of r
          None

VARIABLES decided,  \* the robustness verdict of the survivor, or None
          frozen,   \* the freezes recorded
          started,  \* the runs recorded
          reported  \* the runs that have a report -> their report

Init ==
    /\ decided = None
    /\ frozen = {} /\ started = {}
    /\ reported = <<>>

Put(f, r, report) ==
    [x \in DOMAIN f \cup {r} |-> IF x = r THEN report ELSE f[x]]

Decide(v) ==
    /\ decided = None
    /\ decided' = v
    /\ UNCHANGED <<frozen, started, reported>>

Freeze(f) ==
    /\ decided = f.verdict /\ Advances(decided)
    /\ frozen' = frozen \cup {f}
    /\ UNCHANGED <<decided, started, reported>>

Start(r) ==
    /\ r.freeze \in frozen /\ Prospective(r)
    /\ started' = started \cup {r}
    /\ UNCHANGED <<decided, frozen, reported>>

Finish(r, report) ==
    /\ r \in started \ DOMAIN reported
    /\ Accepts(r, report)
    /\ reported' = Put(reported, r, report)
    /\ UNCHANGED <<decided, frozen, started>>

Next ==
    \/ \E v \in Verdicts : Decide(v)
    \/ \E f \in Freezes : Freeze(f)
    \/ \E r \in Runs : Start(r) \/ \E report \in Reports : Finish(r, report)

Spec == Init /\ [][Next]_<<decided, frozen, started, reported>>
===============================================================================
