CONSTANTS
    m1 = m1
    m2 = m2
    p1 = p1
    p2 = p2
    Members = {m1, m2}
    Partitions = {p1, p2}
    LogLen = 2
    AutoCommitEvery = 5000000
    MaxFaults = 1
    Nobody = Nobody
    Mode = "batch"
    BatchSize = 2
    Strategy = "retry"
SPECIFICATION Spec
SYMMETRY Symmetry
INVARIANTS
    BufferCoversTheGap
    NoReplayWithoutFault
PROPERTY ImplementsAtLeastOnce
