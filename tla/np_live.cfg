SPECIFICATION FairSpec
CONSTANTS
    ch1 = ch1
    ch2 = ch2
    Channels = {ch1}
    NoQueue = NoQueue
    Ports <- TwoPorts
    EphBegin = 2
    EphLimit = 3
    InboxLen = 2
    AppQueueLen = 1
    MaxGen = 2
PROPERTIES
    PortsReleased
    ChannelsDeleted
    InboxServed
CHECK_DEADLOCK FALSE
