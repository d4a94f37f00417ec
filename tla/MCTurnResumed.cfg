SPECIFICATION FairSpec
CONSTANTS
    None = None
    Features = {"userPrompt", "tool", "crash"}
    ClientWaits = FALSE
    MaxTurns = 2
    MaxSteps = 1
    MaxSteers = 0
    MaxCompactions = 0
    MaxAuto = 0
CHECK_DEADLOCK FALSE
PROPERTIES
    DeferredFlushed
