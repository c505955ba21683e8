SPECIFICATION Spec
CONSTANTS
    e1 = e1
    e2 = e2
    i1 = i1
    i2 = i2
    here = here
    there = there
    Exports = {e1}
    Instances = {i1, i2}
    Artifacts = 1
    Places = {here}
    NoExport = NoExport
    Faults = {}
INVARIANT CompleteIsAlwaysPublished
CHECK_DEADLOCK FALSE
