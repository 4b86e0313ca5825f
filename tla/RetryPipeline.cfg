CONSTANTS
    Source <- OneReplayed
    Verdicts <- AllVerdicts
    MaxAttempts = 3
    BatchSize = 2
    OneProcess = FALSE
    InitialDelay = 1
    MaxDelay = 4
    Multiplier <- Steep
    CustomBackoff <- NoBackoff
    TicksPerSecond = 2
    MaxDuration = 7
    MaxStep = 3
    MaxTime = 1
    MaxFaults = 1
SPECIFICATION Spec
INVARIANTS
    OriginNamesTheSource
    ResumePointKept
    DeadLetteredWhenSpent
    ContentSurvives
    BackoffWithinBounds
PROPERTIES
    NotProcessedEarly
    SourceIsAtLeastOnce
