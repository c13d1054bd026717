SPECIFICATION FairSpec
CONSTANTS
    Protocols = {"verify_simple", "auth_simple", "auth_sha1", "auth_sha1_v2", "auth_sha1_v4", "auth_aes128"}
    SendSizes <- MCSendSizes
    ReadSizes <- MCReadSizes
    NameLengths <- MCNameLengths
    CharSigned = TRUE
    Paddings <- MCPaddings
    GarbageLengths <- MCGarbageLengths
    IdMask = 1
    IdLimit = 2
    MaxWrites = 2
    MaxConns = 3
INVARIANTS OutFits CapacitySuffices OnlyGarbageRefused DataIntact IdsFresh
PROPERTY AllArrives
CHECK_DEADLOCK FALSE
