SPECIFICATION FairSpec
CONSTANTS
    MaxStarts = 4
    JobKinds = {"apt.upgrade"}
    maxBackgroundJobs = 2
    MaxRestarts = 1
INVARIANTS
    TypeOK
    RunningJobTracked
PROPERTIES
    TableBound
    ImplementsLedger
    EveryJobFinishes
CHECK_DEADLOCK FALSE
