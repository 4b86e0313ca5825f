CONSTANTS
    m1 = m1
    m2 = m2
    p1 = p1
    p2 = p2
    Members = {m1, m2}
    Partitions = {p1, p2}
    LogLen = 2
    AutoCommitEvery = 0
    MaxFaults = 2
    Nobody = Nobody
    Mode = "single"
    BatchSize = 1
    Strategy = "retry"
SPECIFICATION Spec
SYMMETRY Symmetry
INVARIANTS
    TypeOK
    CommittedIsResolved
    NothingLeftUncommitted
PROPERTY ImplementsAtLeastOnce
