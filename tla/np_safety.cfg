SPECIFICATION Spec
CONSTANTS
    ch1 = ch1
    ch2 = ch2
    Channels = {ch1, ch2}
    NoQueue = NoQueue
    Ports <- TwoPorts
    EphBegin = 2
    EphLimit = 4
    InboxLen = 1
    AppQueueLen = 1
    MaxGen = 2
SYMMETRY Symmetry
INVARIANTS
    TypeOK
    PortsLive
    DeliveredToOwner
PROPERTIES
    PortKept
    EphemeralFound
CHECK_DEADLOCK FALSE
