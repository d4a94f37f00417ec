SPECIFICATION FairSpec
CONSTANTS
    None = None
    c1 = c1
    Callers = {c1}
    Features = {"prompt", "compaction", "navigation", "deferred", "tool"}
    MaxAttempts = 2
    MaxOps = 2
    MaxResponses = 2
    MaxRounds = 2
    MaxItems = 0
    MaxAborts = 1
    MaxCrashes = 1
CHECK_DEADLOCK FALSE
INVARIANTS
PROPERTIES
    OneOperationAtATime
    EveryOperationFinishes
