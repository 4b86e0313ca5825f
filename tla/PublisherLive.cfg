SPECIFICATION FairSpec
CONSTANTS
    Records = {r1}
    Closers = {c1, c2, c3}
    QueueLimit = 1
    MaxDuplicates = 0
    CanFail = TRUE
INVARIANTS
    NothingAcceptedIsLost
    ClosesAgree
PROPERTIES
    EveryCloseReturns
    EveryDeliveryResolves
