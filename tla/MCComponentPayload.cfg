SPECIFICATION FairSpec
CONSTANTS
    NoValue = NoValue
    Catalogs <- SmallCatalogs
    Earlier <- Launches
    Requests <- Asked
    Published <- Archives
    Faults = {"network", "silence", "disk"}
    ProcessFaults = {"spawn", "monitor", "thread", "exit", "child"}
    OutputLimit = 1
    MaxOutput = 2
INVARIANTS
    CatalogIsSound
    BodyIsOneVersion
    SealedIsVerified
    OutputIsWhole
PROPERTIES
    InstallEnds
CHECK_DEADLOCK FALSE
