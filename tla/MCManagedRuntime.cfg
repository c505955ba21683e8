SPECIFICATION Spec
CONSTANTS
    Directories <- MCDirectories
    PresentSources <- MCSources
    WorkingTools <- MCTools
    Faults = {"probe", "sync", "pinned", "disk", "panic", "crash"}
    MaxPreparations = 2
INVARIANTS
    PreviousSurvives
    FailureKeepsPrevious
    ReadyWorksInPlace
