SPECIFICATION Spec
CONSTANTS
    None = None
    Features = {"userPrompt", "manual", "tool", "clear", "mask", "promptHook", "overflow", "stopHook", "crash"}
    ClientWaits = FALSE
    MaxTurns = 2
    MaxSteps = 1
    MaxSteers = 1
    MaxCompactions = 2
    MaxAuto = 1
CHECK_DEADLOCK FALSE
PROPERTIES
    
    OnlyCurrentApplies
