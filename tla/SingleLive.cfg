CONSTANTS
    m1 = m1
    m2 = m2
    p1 = p1
    p2 = p2
    Members = {m1, m2}
    Partitions = {p1, p2}
    LogLen = 1
    AutoCommitEvery = 0
    MaxFaults = 1
    Nobody = Nobody
    Mode = "single"
    BatchSize = 1
    Strategy = "skip"
SPECIFICATION FairSpec
PROPERTY
    EveryMessageResolved
