\* Fast open behind the resolver, peers that accept data, and timers that never
\* fire on their own.
SPECIFICATION FlowSpec
CONSTANTS
    Conns = {c1}
    Requests <- PlainNameRequests
    FastOpen = TRUE
    IvLen = 1
    HdrLen = 3
    BufSize = 6
    MaxUp = 9
    MaxDown = 3
    Spurious = FALSE
INVARIANTS
    UpInOrder
PROPERTIES
    Delivered
    ReadingResumes
