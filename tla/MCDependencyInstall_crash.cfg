SPECIFICATION Spec
CONSTANTS
    base = base
    wheel = wheel
    stray = stray
    j1 = j1
    j2 = j2
    Components = {base, wheel, stray}
    Dependencies <- CatalogDependencies
    Jobs = {j1}
    Requests <- CatalogRequests
    Installed = {base}
    Foreign = {stray}
    Faults = {"crash"}
INVARIANT ExistingComponentIntact
CHECK_DEADLOCK FALSE
