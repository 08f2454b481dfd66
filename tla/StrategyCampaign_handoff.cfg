\* One campaign that may die and start again; nobody else, nothing drifts.
SPECIFICATION Spec
CONSTANTS
    c1 = c1  c2 = c2  s1 = s1  g1 = g1  g2 = g2
    None = None  Invalid = Invalid
    Campaigns = {c1}
    Strategies = {s1}
    Plan <- PlanOfOne
    Worlds = {g1}
    Approved = {g1}
    InitialWorld = g1
    LoopFaults = FALSE
    Rivals = {}
INVARIANT SurvivorsAdmitted
