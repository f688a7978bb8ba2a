\* Two threads push at once, which the class allows and the server's one io
\* thread does not do; two kinds of packets tell orders apart.
SPECIFICATION FairQueueSpec
CONSTANTS
    Pushers = {io1, io2}
    Packets = {a, b}
    NoPacket = none
    MaxQueue = 3
INVARIANTS
    QueueTypeOK
    NoLostWakeup
PROPERTIES
    ImplementsFifo
    StopReturns
CHECK_DEADLOCK FALSE
