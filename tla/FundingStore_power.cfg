\* The machine stops, no writer dies alone; two funding slots in eight hours.
SPECIFICATION Spec
CONSTANTS
    None = None
    Writers = {w1, w2}
    Readers = {r1}
    Rows = {o1, o2, m}
    Official = {o1, o2}
    MaxEnd = 3
    MaxGap = 2
    MaxGenerations = 2
    Kills = FALSE
    PowerLoss = TRUE
INVARIANTS PointerBacked ReadyIsWhole
CHECK_DEADLOCK FALSE
