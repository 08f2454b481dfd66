\* Two robustness runs and two operators of the runtime store, who may all die.
SPECIFICATION Spec
CONSTANTS
    None = None
    w1 = w1
    w2 = w2
    o1 = o1
    o2 = o2
    p1 = p1
    Workers = {w1, w2}
    Operators = {o1, o2}
    Policies = {p1}
    Tiers = {"PAPER"}
    Starts = {2, 3}
    Bars <- TwoBars
    EvaluationStart = 1
    EvaluationEnd = 2
    DataAsOf = 2
    Schemes = {"rolling"}
    TrainBars <- OneBar
    TestBars = 1
    StepBars = 1
    MaxWindows = 1
    Scenarios = {"baseline"}
    Cells <- MatrixCells
    Yields <- OneCell
    Reports <- SomeReports
SYMMETRY Alike
INVARIANTS EvidenceBacked FailedRunLeavesNothing AnswersAgree RowsReadable
PROPERTY LedgerSpec
\* A survivor whose evidence conflicts stays where it is.
CHECK_DEADLOCK FALSE
