\* Two campaigns share a strategy, one of them twice, a rival runs it too, runs raise and die, the world drifts.
SPECIFICATION FairSpec
CONSTANTS
    c1 = c1  c2 = c2  s1 = s1  g1 = g1  g2 = g2
    None = None  Invalid = Invalid
    Campaigns = {c1, c2}
    Strategies = {s1}
    Plan <- SharedPlan
    Worlds = {g1, g2}
    Approved = {g1}
    InitialWorld = g1
    LoopFaults = TRUE
    Rivals = {g1}
INVARIANTS TypeOK CountedOnce SummariesAgree SurvivorsBacked StartedMeansLaunched
PROPERTIES LaunchedOnce RunsEnd
