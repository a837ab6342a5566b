SPECIFICATION Spec
CONSTANTS
    a1 = a1
    a2 = a2
    a3 = a3
    p1 = p1
    ka = ka
    NoKey = NoKey
    Nobody = Nobody
    Requests <- MCRequests
    Keys <- MCKeys
    KeyOf <- MCKeyOf
    StoreFails = TRUE
    MaxExpiries = 2
INVARIANT ExclusiveUnlessExpired
PROPERTY RunsOnceUnlessDisturbed
INVARIANT ReplaysARun
PROPERTY CompletedIsKept
INVARIANT OrphanedOnlyByLoss
PROPERTY ImplementsOncePerKey
