SPECIFICATION FairSpec
CONSTANTS
    Servers = {s1, s2}
    None = None
    Auth = Auth
    MaxAttempts = 3
CHECK_DEADLOCK FALSE
INVARIANTS
    NoTransportLeaks
    ToolsMatchServer
PROPERTIES
    PendingEnds
