SPECIFICATION FairSpec
CONSTANTS
    Repetitions = 3
    Ignored <- ThirdAndFourth
    MaxCalls = 5
INVARIANTS
    TypeOK
    SeqWindow
    AtMostOnce
    ReplyMatches
PROPERTIES
    ImplementsRemoteCall
    SendReturns
CHECK_DEADLOCK FALSE
