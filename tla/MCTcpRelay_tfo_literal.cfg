\* Fast open to a literal address.
SPECIFICATION Spec
CONSTANTS
    Conns = {c1}
    Requests <- LiteralRequests
    FastOpen = TRUE
    IvLen = 1
    HdrLen = 3
    BufSize = 6
    MaxUp = 9
    MaxDown = 3
    Spurious = TRUE
INVARIANTS
    UpInOrder
