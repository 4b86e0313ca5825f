SPECIFICATION Spec
CONSTANTS
    Records = {r1}
    Closers = {c1}
    QueueLimit = 1
    MaxDuplicates = 0
    CanFail = FALSE
INVARIANT
    ErrNotDeliveredMeansPurged
