SPECIFICATION FairSpec
CONSTANTS
    p1 = p1
    p2 = p2
    j1 = j1
    j2 = j2
    t0 = t0
    t1 = t1
    Projects = {p1, p2}
    Known = {p1}
    Earlier = {j1}
    Jobs = {j1}
    Texts = {t0}
    Blank = t0
    Draft = Draft
    None = None
    Refused = Refused
    Saved = {t0}
    Outdated = {"queued", "running"}
    MaxCalls = 1
    Uses = {"edit", "save", "export", "clear", "create", "snapshot", "cancel"}
    Failing = {"load", "poll", "record", "panic"}
INVARIANTS
    ExportIsCurrent
    ProjectIdentity
PROPERTIES
    MonitorEnds
CHECK_DEADLOCK FALSE
