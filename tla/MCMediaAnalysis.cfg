SPECIFICATION FairSpec
CONSTANTS
    s1 = s1
    r1 = r1
    Scans = {s1}
    Renders = {r1}
    ScanRequests <- ScanAsked
    RenderRequests <- RenderAsked
    SidecarAnswers <- Answers
    None = None
    Faults = {"store", "inputs", "files", "process", "panic", "crash"}
INVARIANTS
    FindingsMatchScan
    OverlayMatchesRender
    OverlayIsNamed
PROPERTIES
    StartedJobEnds
CHECK_DEADLOCK FALSE
