CONSTANTS
    Producers = {p1}
    Consumers = {c1}
    MaxMsgs = 2
    NULL = NULL
SPECIFICATION FairSpec
PROPERTY EveryMessageHandled
