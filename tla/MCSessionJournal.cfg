SPECIFICATION Spec
CONSTANTS
    None = None
    main = main
    Main = main
    i1 = i1
    i2 = i2
    side = side
    Ids = {i1, i2}
    Lanes = {main, side}
    Hazards = {}
    MaxLines = 4
    MaxPending = 2
    MaxCrashes = 2
    MaxFailures = 2
    MaxReplaced = 1
CHECK_DEADLOCK FALSE
INVARIANTS
    NoConfirmedLost
    
    
    EntryWrittenOnce
PROPERTIES
    ConfirmedIsALog
