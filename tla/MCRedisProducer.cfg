SPECIFICATION Spec
CONSTANTS
    s1 = s1
    s2 = s2
    Sends <- MCSends
SYMMETRY Interchangeable
INVARIANTS
    TypeOK
    FlagIsAccurate
    SentWasAppended
    DelayedIsScheduled
    ScheduledWasAppended
    HealthySendsDoNotConnect
    OnlyTtlLosesMessages
PROPERTY
    PromiseKept
