SPECIFICATION FairSpec
CONSTANTS
    None = None
    h1 = h1
    h2 = h2
    h3 = h3
    p1 = p1
    p2 = p2
    p3 = p3
    Handles = {h1, h2, h3}
    Pid <- OwnProcesses
    Hazards = {}
    MaxFiles = 4
CHECK_DEADLOCK FALSE

    
PROPERTIES
    RefusedByHolder
    AcquireEnds
