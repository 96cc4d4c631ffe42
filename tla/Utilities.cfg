SPECIFICATION Spec
CONSTANTS
    MaxBytes = 4
    MaxSlice = 3
    Threads = {t1, t2}
    Handles = {h1, h2, h3}
    Blocks = {b1, b2}
    NULL = NULL
    t1 = t1
    t2 = t2
    h1 = h1
    h2 = h2
    h3 = h3
    b1 = b1
    b2 = b2
    Items = {i1, i2, i3}
    i1 = i1
    i2 = i2
    i3 = i3
    ListHead = ListHead
    MaxHost = 4
    Ports = {0, 80}
    Scopes = {0, 3}
INVARIANTS
    BufferIsBytes
    ReferencesExact
    ListIsSequence
    AddressesFaithful
    SocketsAsConfigured
CHECK_DEADLOCK FALSE
