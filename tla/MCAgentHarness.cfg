SPECIFICATION Spec
CONSTANTS
    None = None
    c1 = c1
    Callers = {c1}
    Features = {"prompt", "tool", "safeTool", "steer", "followUp", "nextRun", "deferWrite"}
    MaxAttempts = 1
    MaxOps = 1
    MaxResponses = 2
    MaxRounds = 1
    MaxItems = 1
    MaxAborts = 1
    MaxCrashes = 3
CHECK_DEADLOCK FALSE
INVARIANTS
    ResponsesRecorded
    LiveMatchesJournal
    EntriesUnique
    SideEffectsAtMostOnce
    ReplayedOncePerCrash
    TranscriptPaired
    ReturnedNotConsumed
    NextRunSurvives
