\* The policy is replaced while two processes run one V2 hypothesis and crash.
SPECIFICATION FairSpec
CONSTANTS
    w1 = w1  w2 = w2  h1 = h1  h2 = h2  s1 = s1  s2 = s2
    None = None
    Workers <- TwoWorkers
    Hypotheses = {h1}
    Strategies = {s1}
    StrategyOf <- OneHypothesis
    Legacy = {}
    MaxPolicy = 1
    PolicyReturns = FALSE
    MaxData = 0
INVARIANTS VerdictOnClaimedPolicy CommitAccepted
PROPERTY RunsEnd
