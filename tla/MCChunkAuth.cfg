SPECIFICATION Spec
CONSTANTS
    ClenBytes = 2
    AuthBytes = 3
    BufSize = 6
    Plans <- SmallPlans
INVARIANTS TypeOK WithinCapacity ReleasedExactly RefusedForCause
