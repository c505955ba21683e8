SPECIFICATION FairSpec
CONSTANTS
    base = base
    wheel = wheel
    stray = stray
    j1 = j1
    j2 = j2
    Components = {base, wheel, stray}
    Dependencies <- CatalogDependencies
    Jobs = {j1, j2}
    Requests <- CatalogRequests
    Installed = {base}
    Foreign = {stray}
    Faults = {"network", "silence", "process", "payload", "disk", "crash"}
INVARIANTS
    OwnedPayloadSurvives
PROPERTIES
    ForeignUntouched
    CancelStopsInstall
    JobSettles
CHECK_DEADLOCK FALSE
