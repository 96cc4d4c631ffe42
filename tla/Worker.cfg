SPECIFICATION FairWorkSpec
CONSTANTS
    Users = {u1, u2}
    u1 = u1
    u2 = u2
    MaxItems = 2
    MaxDelay = 2
    MaxTime = 3
    MaxStarts = 2
    MaxFired = 2
INVARIANTS
    ItemsAccounted
PROPERTIES
    ItemsHandled
    ShutdownClean
CHECK_DEADLOCK FALSE
