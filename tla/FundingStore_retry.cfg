\* A writer dies after the rename, another retries, the machine stops.
SPECIFICATION Spec
CONSTANTS
    None = None
    Writers = {w1, w2}
    Readers = {}
    Rows = {o1, o2, m}
    Official = {o1, o2}
    MaxEnd = 1
    MaxGap = 1
    MaxGenerations = 1
    Kills = TRUE
    PowerLoss = TRUE
INVARIANT PointerBacked
CHECK_DEADLOCK FALSE
