SPECIFICATION FairSpec
CONSTANTS
    Nodes <- OneLinkNodes
    Interfaces <- OneLink
    Terminals <- OneTerminal
    NodeOf <- OneLinkOf
    Addr <- OneLinkAddr
    Remote <- OneLinkRemote
    Default = "default"
    Destinations <- AllKinds
    OutLen = 1
    InboxLen = 1
    Backlog = 2
    Breaks <- OnlyReset
    MaxCapsules = 2
    MaxBreaks = 1
    MaxRestarts = 1
INVARIANTS
    TypeOK
    HealthyLineKeeps
    OneHop
    NoExtraCopies
PROPERTIES
    ImplementsLossyLine
    LinesComeBack
CHECK_DEADLOCK FALSE
