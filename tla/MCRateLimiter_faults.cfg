SPECIFICATION Spec
CONSTANTS
    q1 = q1
    q2 = q2
    q3 = q3
    q4 = q4
    id = id
    NoId = NoId
    Requests <- MCRequests
    Ids <- MCIds
    IdOf <- MCIdOf
    MaxRequests = 2
    Window = 1
    StoreFails = TRUE
    MaxTime = 3
SYMMETRY MCSymmetry
INVARIANT TypeOK
INVARIANT OverrunNeedsOverlap
PROPERTY RejectionIsDue
PROPERTY QuietIdentityIsAdmitted
