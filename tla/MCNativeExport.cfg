SPECIFICATION Spec
CONSTANTS
    e1 = e1
    e2 = e2
    i1 = i1
    i2 = i2
    here = here
    there = there
    Exports = {e1, e2}
    Instances = {i1, i2}
    Artifacts = 1
    Places = {here, there}
    NoExport = NoExport
    Faults = {"store", "disk", "crash", "power"}
SYMMETRY Symmetry
CONSTRAINT OneMishap
INVARIANTS
    CompleteIsPublished
    FailureLeavesNothing
    LoadClosesAbandoned
PROPERTIES
    ClosedRowsAreFinal
CHECK_DEADLOCK FALSE
