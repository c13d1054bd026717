\* A well-formed header in two reads.
SPECIFICATION Spec
CONSTANTS
    Conns = {c1}
    Requests <- ValidRequests
    FastOpen = FALSE
    IvLen = 1
    HdrLen = 3
    BufSize = 6
    MaxUp = 9
    MaxDown = 3
    Spurious = TRUE
INVARIANTS
    SplitHeaderAccepted
