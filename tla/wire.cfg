SPECIFICATION Spec
CONSTANTS
    AddressSize = 2
    HashSize = 1
    MinUser = 1
    MaxUser = 4
    MinA = 1
    MaxA = 2
    MinB = 1
    MaxB = 2
    MinSalt = 1
    MaxSalt = 3
    MinM1 = 1
    MaxM1 = 1
    MinM2 = 1
    MaxM2 = 1
    N = 46337
    g = 2
    Hash <- ToyHash
    HashLen = 1
    Cipher <- ToyCipher
    KeyLen = 2
    IVLen = 1
    HashBlock = 4
    DigestLen = 1
    MaxPacket = 20
    MinSessionKey = 2
    Users <- TheUsers
    File <- TheFile
    Accounts <- TheAccounts
    SecretsA <- Long
    SecretsB <- OneB
    Commands <- TheCommands
    MaxCommands = 1
    MaxTries = 2
    MaxLost = 2
    Chunks <- ThePieces
    MaxSingleRead = 16
    ReadBufferSize = 12
    NodeAddresses <- TwoAddresses
    FreePort = 300
    ServerText <- ServerDigits
    ServerPort = 2201
    Junk <- SomeJunk
    Hostname <- HostnameWord
    Version <- VersionWord
    ShellVersion <- Extra
    UnknownCommand <- Unknown
    Parameter <- TheParameter
INVARIANTS
    TypeOK
    StreamInStep
    OwnAnswer
    Delivered
    RightPassword
PROPERTIES
    CallReturns
CHECK_DEADLOCK FALSE
