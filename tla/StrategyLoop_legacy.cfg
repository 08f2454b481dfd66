\* Two V1 hypotheses of one strategy share its experiment, crashes at every step, the
\* data sync comes and goes.
SPECIFICATION Spec
CONSTANTS
    w1 = w1  w2 = w2  h1 = h1  h2 = h2  s1 = s1  s2 = s2
    None = None
    Workers <- TwoWorkers
    Hypotheses = {h1, h2}
    Strategies = {s1}
    StrategyOf <- SameStrategy
    Legacy = {s1}
    MaxPolicy = 0
    PolicyReturns = FALSE
    MaxData = 1
SYMMETRY Symmetric
INVARIANTS TypeOK SingleLaunch TerminalEvidenceComplete AnswerIsRecorded
    CachedFeedbackAgrees VerdictOnClaimedData
PROPERTIES NoResurrection RegistrySpec
