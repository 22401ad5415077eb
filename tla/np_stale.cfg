SPECIFICATION Spec
CONSTANTS
    ch1 = ch1
    ch2 = ch2
    Channels = {ch1, ch2}
    NoQueue = NoQueue
    Ports <- TwoPorts
    EphBegin = 2
    EphLimit = 3
    InboxLen = 1
    AppQueueLen = 1
    MaxGen = 1
INVARIANTS
    PushedOnlyIfRegistered
CHECK_DEADLOCK FALSE
