SPECIFICATION FairSpec
CONSTANTS
    Flushers = {f1, f2}
    MaxRecords = 5
    MaxCrashes = 2
    MaxFailures = 2
    Hazards = {"old"}
CHECK_DEADLOCK FALSE
INVARIANTS
    FlushedSurvives
    JournalFollowsState
PROPERTIES
    QueueDrains
