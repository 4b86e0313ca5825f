CONSTANTS
    s1 = s1
    s2 = s2
    s3 = s3
    A = A
    B = B
    r = r
    Nobody = Nobody
    Calls = {s1, s2, s3}
    Subscribers = {A, B}
    Strategies = {r}
    SubscriberOf <- TwoOnOne
    StrategyOf <- Shared
    MaxMsgs = 2
    MaxFailures = 2
    MaxFaults = 2
SPECIFICATION FairSpec
INVARIANTS
    OwnPublisher
    NothingLeftOpen
    NobodyElseStopsTheLoop
PROPERTIES
    ImplementsLease
    CancelledStartsReturn
