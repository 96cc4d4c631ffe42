CONSTANTS
    Pollers = {p1}
    Backs = {}
    Apps = {a1}
    Timers = {}
    DefaultSize = 1
    MaxSize = 2
    Timeout = 1
    CheckInterval = 1
    MaxHandles = 2
    MaxTime = 2
    NULL = NULL
SPECIFICATION Spec
INVARIANTS
    RecordsExact
PROPERTIES
    TimeoutOnlyWhenSilent
    NoSilentLoss
