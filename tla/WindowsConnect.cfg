SPECIFICATION Spec
CONSTANTS
    Workers = {w1, w2}
    Callers = {c1}
    MaxConnects = 1
    ListenThreads = 1
    MaxHandles = 3
    Threads = {t1, t2}
    Apps = {a1}
    SendLengths = {1, 4}
    MaxTraffic = 3
    MaxPackage = 3
    MaxBufs = 2
    RecvSize = 2
    HeaderSize = 2
    HeadBytes = 2
    PacketLengths = {3, Bad}
    MaxPackets = 1
    Bad = Bad
    w1 = w1
    w2 = w2
    c1 = c1
    t1 = t1
    t2 = t2
    a1 = a1
INVARIANTS
    ConnectMeansEstablished
CHECK_DEADLOCK FALSE
