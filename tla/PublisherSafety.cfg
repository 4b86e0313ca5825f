SPECIFICATION Spec
CONSTANTS
    Records = {r1, r2}
    Closers = {c1}
    QueueLimit = 1
    MaxDuplicates = 1
    CanFail = TRUE
SYMMETRY Symmetry
INVARIANTS
    TypeOK
    WaitTellsTheTruth
    NilMeansNothingPurged
PROPERTIES
    ImplementsContract
    FatalStopsSending
