CONSTANTS
    m1 = m1
    m2 = m2
    p1 = p1
    p2 = p2
    Members = {m1}
    Partitions = {p1}
    LogLen = 2
    AutoCommitEvery = 500
    MaxFaults = 0
    Nobody = Nobody
    Mode = "batch"
    BatchSize = 2
    Strategy = "skip"
SPECIFICATION FairSpec
PROPERTY StoredIsPublished
