SPECIFICATION FairSpec
CONSTANTS
    Apps = {a1, a2}
    Backs = {b1}
    MsgLengths = {1, 3}
    MaxMsgs = 3
    Room = 2
    Pollers = {t1, t2}
    RecvSize = 3
    HeaderSize = 2
    HeadBytes = 2
    PacketLengths = {2, 3, Bad}
    MaxPackets = 2
    Bad = Bad
    NULL = NULL
INVARIANTS WireExact StreamIntact
PROPERTIES AcceptedIsSent SentIsDelivered
CHECK_DEADLOCK FALSE
