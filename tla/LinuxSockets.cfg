SPECIFICATION FairSpec
CONSTANTS
    Users = {u1}
    u1 = u1
    MaxSockets = 3
    Fds = {1, 2}
INVARIANTS
    DescriptorsOwned
PROPERTIES
    ConnectAnsweredOnce
    ShutdownFinal
CHECK_DEADLOCK FALSE
