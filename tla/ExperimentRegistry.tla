-------------------------- MODULE ExperimentRegistry --------------------------
(***************************************************************************)
(* What the strategy loop promises its callers, with no lock, file, stage  *)
(* or database in sight.  An experiment is registered once, launched at    *)
(* most once, and settled at most once; what a caller is told about an     *)
(* experiment is what the experiment was settled with.  An experiment      *)
(* whose execution was interrupted stays "running" for ever: it is never   *)
(* launched again (docs/contracts/strategy-campaign-v1.md:56).             *)
(***************************************************************************)
CONSTANTS Callers, Experiments, Hypotheses, Outcomes, None

VARIABLES owner,     \* experiment -> the hypothesis it was registered under
          phase,     \* experiment -> "absent" | "registered" | "running" | "settled"
          outcome,   \* experiment -> what it was settled with
          answer     \* caller -> the reply it holds

registryVars == <<owner, phase, outcome, answer>>

Replies == [exp: Experiments, hyp: Hypotheses, outcome: Outcomes]

Init ==
    /\ owner = [e \in Experiments |-> None]
    /\ phase = [e \in Experiments |-> "absent"]
    /\ outcome = [e \in Experiments |-> None]
    /\ answer = [c \in Callers |-> None]

Register(e, h) ==
    /\ phase[e] = "absent"
    /\ phase' = [phase EXCEPT ![e] = "registered"]
    /\ owner' = [owner EXCEPT ![e] = h]
    /\ UNCHANGED <<outcome, answer>>

Launch(e) ==
    /\ phase[e] = "registered"
    /\ phase' = [phase EXCEPT ![e] = "running"]
    /\ UNCHANGED <<owner, outcome, answer>>

Settle(e, o) ==
    /\ phase[e] = "running"
    /\ phase' = [phase EXCEPT ![e] = "settled"]
    /\ outcome' = [outcome EXCEPT ![e] = o]
    /\ UNCHANGED <<owner, answer>>

\* A caller is told the outcome of a settled experiment, never anything else.
Reply(c, e, h) ==
    /\ phase[e] = "settled"
    /\ answer' = [answer EXCEPT ![c] = [exp |-> e, hyp |-> h, outcome |-> outcome[e]]]
    /\ UNCHANGED <<owner, phase, outcome>>

Forget(c) ==
    /\ answer' = [answer EXCEPT ![c] = None]
    /\ UNCHANGED <<owner, phase, outcome>>

Next ==
    \/ \E e \in Experiments, h \in Hypotheses : Register(e, h)
    \/ \E e \in Experiments : Launch(e)
    \/ \E e \in Experiments, o \in Outcomes : Settle(e, o)
    \/ \E c \in Callers, e \in Experiments, h \in Hypotheses : Reply(c, e, h)
    \/ \E c \in Callers : Forget(c)

Spec == Init /\ [][Next]_registryVars
===============================================================================
