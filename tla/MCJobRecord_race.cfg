SPECIFICATION RecordSpec
CONSTANT RecordFaults = {}
INVARIANT JobStatePersisted
CHECK_DEADLOCK FALSE
