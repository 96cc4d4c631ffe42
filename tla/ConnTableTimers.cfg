CONSTANTS
    Pollers = {p1}
    Backs = {}
    Apps = {a1}
    Timers = {t1}
    DefaultSize = 1
    MaxSize = 1
    Timeout = 1
    CheckInterval = 1
    MaxHandles = 2
    MaxTime = 0
    NULL = NULL
SPECIFICATION FairSpec
INVARIANTS
    HeartbeatChain
PROPERTIES
    DeadTimersEnd
    HangupFreesSlot
