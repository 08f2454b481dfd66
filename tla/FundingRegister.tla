---------------------------- MODULE FundingRegister ----------------------------
(***************************************************************************)
(* What the funding store of funding_observation.py promises: one register *)
(* that holds a funding history, and one operation on it at a time.  The   *)
(* daily sync may only extend the history, a migration may replace it, an  *)
(* operation may come to nothing, and a reader gets a history the register *)
(* held.  Neither generations, pointers nor staging directories are        *)
(* visible here; FundingStore implements this specification.               *)
(***************************************************************************)
CONSTANTS Histories,       \* the funding histories that are valid as a whole
          Extends(_, _),   \* Extends(g, h): h is longer and keeps every row of g
          Readers,
          None

VARIABLES current,   \* the history of the register, or None
          operation, \* "none", "sync" or "migrate"
          held       \* reader -> the history it is working with, or None

Init ==
    /\ current = None
    /\ operation = "none"
    /\ held = [r \in Readers |-> None]

Begin ==
    /\ operation = "none"
    /\ operation' \in {"sync", "migrate"}
    /\ UNCHANGED <<current, held>>

Extend ==
    /\ operation = "sync" /\ current # None
    /\ \E h \in Histories : Extends(current, h) /\ current' = h
    /\ UNCHANGED <<operation, held>>

Replace ==
    /\ operation = "migrate"
    /\ current' \in Histories
    /\ UNCHANGED <<operation, held>>

End ==
    /\ operation # "none" /\ operation' = "none"
    /\ UNCHANGED <<current, held>>

Read(r) ==
    /\ current # None
    /\ held' = [held EXCEPT ![r] = current]
    /\ UNCHANGED <<current, operation>>

Done(r) ==
    /\ held' = [held EXCEPT ![r] = None]
    /\ UNCHANGED <<current, operation>>

Next == Begin \/ Extend \/ Replace \/ End \/ \E r \in Readers : Read(r) \/ Done(r)

Spec == Init /\ [][Next]_<<current, operation, held>>
===============================================================================
