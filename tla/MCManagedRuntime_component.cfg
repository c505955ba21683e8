SPECIFICATION Spec
CONSTANTS
    Directories <- MCDirectories
    PresentSources <- MCSources
    WorkingTools <- MCTools
    Faults = {"probe"}
    MaxPreparations = 1
INVARIANT
    ComponentIsReused
