SPECIFICATION SSpec

CONSTANTS
    c1 = c1
    c2 = c2
    c3 = c3
    c4 = c4
    ka = ka
    kb = kb
    kc = kc
    Absent = Absent
    Tasks <- MCTasks
    Keys <- MCKeys
    KeyOf <- MCKeyOf
    MaxEntries = 2
    Ttl = 1
    MaxTime = 1
    StoreFails = TRUE

SYMMETRY MCSymmetry

INVARIANT TypeOK
INVARIANT SizeIsBounded
INVARIANT EveryEntryIsEvictable
INVARIANT DeletedComesBackOnlyInFlight
PROPERTY HitsAreWholeAndFresh
PROPERTY ReplacedOnlyByOverlap
