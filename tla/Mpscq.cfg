CONSTANTS
    Producers = {p1, p2}
    Nodes = {n1, n2, n3}
    Stub = Stub
    NULL = NULL
SPECIFICATION FairSpec
INVARIANTS
    NodesSafe
PROPERTIES
    IsFifo
    EmptyIsHonest
    EveryNodePopped
