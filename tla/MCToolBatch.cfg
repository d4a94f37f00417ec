SPECIFICATION FairSpec
CONSTANTS
    Fold <- MCFold
    NoPath = NoPath
    Files <- MCFiles
    NumCalls = 3
    AccessChoices <- MCAccessChoices
CHECK_DEADLOCK FALSE
INVARIANTS
    TypeOK
    ConflictingCallsSerial
    ResultsAnswerCalls
    NoDetachedTask
    ConflictIsInterference
PROPERTIES
    NothingStartsAfterAbort
    AbortEndsBatch
    BatchEnds
