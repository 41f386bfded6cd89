SPECIFICATION Spec
CONSTANTS
    MaxEvents = 2
    MaxCrashes = 1
    MaxResets = 0
    auditRotateFiles = 1
    QueueCap = 1
    BatchMax = 2
    RebuildMax = 1
    QueryMax = 1
INVARIANTS
    UsableIndexComplete
