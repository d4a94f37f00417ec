SPECIFICATION FairSpec
CONSTANTS
    None = None
    Features = {"steer", "cancel", "tool", "fail"}
    ClientWaits = FALSE
    MaxTurns = 2
    MaxSteps = 2
    MaxSteers = 1
    MaxCompactions = 1
    MaxAuto = 1
CHECK_DEADLOCK FALSE
INVARIANTS
    OneLiveTurn
PROPERTIES
    TurnEnds
    DeferredFlushed
