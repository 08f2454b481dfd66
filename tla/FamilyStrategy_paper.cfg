\* Every family, Shadow and Paper, with and without a gap check, one kill.
SPECIFICATION Spec
CONSTANTS
    Delays = {0, 1, 2}
    None = None
    DayBars = 2
    Deployments <- AllFamilies
    Prices = {1, 2}
    Policy <- RiskPolicy
    MaxRestarts = 1
INVARIANTS LiveMatchesBatch FastPathExact NoBarMissed IntentsAlternate
    WithinMaximum FlattenOnStop ReplayFollowsSignals ReplayEndsFlat FundingFollowsPosition
\* A stopped strategy may stay stopped.
CHECK_DEADLOCK FALSE
