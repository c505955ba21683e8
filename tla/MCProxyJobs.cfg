SPECIFICATION FairSpec
CONSTANTS
    j1 = j1
    j2 = j2
    Jobs = {j1, j2}
    LegacyJobs = {}
    NoJob = NoJob
    MaxStarts = 2
    Faults = {"store", "disk", "panic", "crash"}
CONSTRAINT Bystander
INVARIANTS
    ReadyMeansPublished
    CancelFlagReachesWorker
    MediaFollowsJob
PROPERTIES
    EarlyCancelWins
    ImplementsDurableJob
    AcceptedJobEnds
CHECK_DEADLOCK FALSE
