CONSTANTS
    Source <- Together
    Verdicts <- ScriptVerdicts
    MaxAttempts = 3
    BatchSize = 2
    OneProcess = TRUE
    InitialDelay = 1
    MaxDelay = 6
    Multiplier <- Double
    CustomBackoff <- NoBackoff
    TicksPerSecond = 1
    MaxDuration = 7
    MaxStep = 3
    MaxTime = 0
    MaxFaults = 1
SPECIFICATION FairSpec
INVARIANTS
    OwnVerdict
    NothingVanishes
PROPERTIES
    EveryRecordSettles
    CancelledConsumersStop
