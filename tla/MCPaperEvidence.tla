--------------------------- MODULE MCPaperEvidence ---------------------------
EXTENDS PaperEvidence, TLC

CONSTANTS w1, w2, o1, o2, p1

\* Two bars make one window of one scenario: one cell.
TwoBars == <<1, 2>>
OneBar == "rolling" :> 1
MatrixCells == Cardinality(Matrix)

OneCell == 1 :> {"pass", "fail"}

Report(technical, outcome, clean, enough) ==
    [technical |-> technical, outcome |-> outcome, clean |-> clean, enough |-> enough]

\* A pass, a pass that falls short of its policy, a technical error, and a word that the
\* table does not know.
SomeReports == {Report("PASS", "PASS", TRUE, TRUE), Report("PASS", "PASS", TRUE, FALSE),
                Report("ERROR", "NOT_APPLICABLE", FALSE, FALSE), Report("PASS", "other", TRUE, TRUE)}

Alike == Permutations(Workers) \cup Permutations(Operators)
===============================================================================
