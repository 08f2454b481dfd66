\* A Paper strategy whose breaker trips while it is long.
SPECIFICATION Spec
CONSTANTS
    Delays = {0}
    None = None
    DayBars = 2
    Deployments <- OneMomentum
    Prices = {1, 2}
    Policy <- RiskPolicy
    MaxRestarts = 1
INVARIANT FlattenOnExit
CHECK_DEADLOCK FALSE
