SPECIFICATION Spec
CONSTANTS
    Flushers = {f1}
    MaxRecords = 3
    MaxCrashes = 2
    MaxFailures = 0
    Hazards = {"fragment"}
CHECK_DEADLOCK FALSE
INVARIANTS
    Resumable
