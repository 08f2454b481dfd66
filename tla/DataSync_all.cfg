\* Two jobs of all commands, two streams, dropped bars, deaths, bounded runs, a reader.
SPECIFICATION FairSpec
CONSTANTS
    None = None
    Unlimited = Unlimited
    h1 = h1  m5 = m5
    Jobs = {j1, j2}
    Commands = {"sync", "candidate", "migrate"}
    Readers = {r1}
    Streams <- TwoStreams
    Chunk = 2
    Limits = {Unlimited, 1}
    MaxEnd = 3
    Drops = TRUE
    Kills = TRUE
INVARIANTS TypeOK PassMeansComplete
PROPERTIES SnapshotStable JobsEnd SnapshotGiven
