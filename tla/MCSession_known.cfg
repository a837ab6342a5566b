SPECIFICATION Spec
CONSTANTS
    s1 = s1
    s2 = s2
    s3 = s3
    i0 = i0
    i1 = i1
    i2 = i2
    NoId = NoId
    Requests <- MCRequests
    Ids <- MCIds
    Stored <- MCStored
    ModeOf <- MCModes
    StoreFails = FALSE
INVARIANT IssuedSessionIsKnown
