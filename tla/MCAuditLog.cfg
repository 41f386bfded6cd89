SPECIFICATION FairSpec
CONSTANTS
    MaxEvents = 2
    MaxCrashes = 2
    MaxResets = 1
    auditRotateFiles = 2
    QueueCap = 1
    BatchMax = 2
    RebuildMax = 1
    QueryMax = 1
INVARIANTS
    TypeOK
    PendingCounts
    FreshIndexedAnswer
    OnlyRacedTwice
    NewestFirst
PROPERTIES
    PendingDrains
