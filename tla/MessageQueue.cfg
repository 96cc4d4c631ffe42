CONSTANTS
    Producers = {p1, p2}
    Consumers = {c1, c2}
    MaxMsgs = 3
    NULL = NULL
SPECIFICATION FairSpec
INVARIANTS
    CountsAgree
    HandledInOrder
PROPERTIES
    AwakeDelivers
    ShutdownCompletes
