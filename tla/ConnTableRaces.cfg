CONSTANTS
    Pollers = {p1}
    Backs = {b1}
    Apps = {a1}
    Timers = {}
    DefaultSize = 1
    MaxSize = 2
    Timeout = 1
    CheckInterval = 1
    MaxHandles = 2
    MaxTime = 0
    NULL = NULL
SPECIFICATION Spec
INVARIANTS
    TypeOK
    FreeListExact
    IndexInRange
    WithinMaxSize
    ShutdownClosesAll
