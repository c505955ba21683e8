SPECIFICATION Spec
CONSTANTS
    Directories <- MCDirectories
    PresentSources <- MCSources
    WorkingTools <- MCTools
    Faults = {}
    MaxPreparations = 1
INVARIANT
    PreflightIsExact
