SPECIFICATION FairSpec
CONSTANTS
    p1 = p1
    p2 = p2
    j1 = j1
    j2 = j2
    t0 = t0
    t1 = t1
    Projects = {p1}
    Known = {p1}
    Earlier = {}
    Jobs = {j1, j2}
    Texts = {t0}
    Blank = t0
    Draft = Draft
    None = None
    Refused = Refused
    Saved = {t0}
    Outdated = {}
    MaxCalls = 1
    Uses = {}
    Failing = {}
PROPERTIES
    ShownRunningEnds
CHECK_DEADLOCK FALSE
