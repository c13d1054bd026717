\* One connection, every kind of request, with and without chunk hashes.
SPECIFICATION TimedSpec
CONSTANTS
    Conns = {c1}
    Requests <- AllRequests
    FastOpen = FALSE
    IvLen = 1
    HdrLen = 3
    BufSize = 6
    MaxUp = 9
    MaxDown = 3
    Spurious = FALSE
INVARIANTS
    TypeOK
    Conserved
    OneWatcherPerDirection
    WritersHaveData
    NoOrphans
    SlowTargetNotBlamed
PROPERTIES
    EveryConnectionEnds
    ImplementsPipe
