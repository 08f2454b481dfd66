\* Two writers, a reader, deaths: the ready history.
SPECIFICATION Spec
CONSTANTS
    None = None
    Writers = {w1, w2}
    Readers = {r1}
    Rows = {o1, o2, m}
    Official = {o1, o2}
    MaxEnd = 2
    MaxGap = 1
    MaxGenerations = 3
    Kills = TRUE
    PowerLoss = FALSE
PROPERTY RegisterSpec
CHECK_DEADLOCK FALSE
