SPECIFICATION RecordSpec
CONSTANT RecordFaults = {"disk", "crash"}
INVARIANTS
    UnfinishedJobHasWorker
    OutcomeIsTrue
    OneCopySurvives
CHECK_DEADLOCK FALSE
