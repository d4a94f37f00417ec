SPECIFICATION FairSpec
CONSTANTS
    Tasks = {"bash", "agent"}
    Agents = {"agent"}
    Callers = {c1, c2}
    MaxRunning = 1
    MaxWrites = 1
    MaxCrashes = 1
    DiskFails = FALSE
CHECK_DEADLOCK FALSE
INVARIANTS
    OneVerdict
    ReturnsDurable
PROPERTIES
    StopEnds
