SPECIFICATION LocalsSpec
CONSTANTS
    r1 = r1
    r2 = r2
    r3 = r3
    Idle = Idle
    Futures <- MCRequests
    ModeOf <- MCModes
    Pages = {2}
    Limits = {2}
    DefaultLimit = 1
    Words = 4
    OverflowChecks = TRUE
INVARIANT ReadsAreOwn
