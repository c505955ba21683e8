SPECIFICATION FairSpec
CONSTANTS
    r1 = r1
    s1 = s1
    i1 = i1
    i2 = i2
    Routes = {r1}
    Sources = {s1}
    Instances = {i1, i2}
    MatchRequests <- Asked
    None = None
    Faults = {"store", "corridor", "panic", "crash"}
CONSTRAINT TwoBusy
INVARIANTS
    ClaimedOnce
    RowsAgree
    MatchedProjectionIsCurrent
PROPERTIES
    StartedJobEnds
    ImplementsDurableJob
CHECK_DEADLOCK FALSE
