SPECIFICATION FairSpec
CONSTANTS
    a1 = a1
    a2 = a2
    a3 = a3
    ka = ka
    w1 = w1
    w2 = w2
    NoFlight = NoFlight
    NoKey = NoKey
    Nobody = Nobody
    Requests <- MCRequests
    Keys <- MCKeys
    Workers <- MCWorkers
    KeyOf <- MCKeyOf
    WorkerOf <- MCWorkerOf
    StoreFails = TRUE
    MaxExpiries = 1
INVARIANT ExclusiveAlways
INVARIANT ConflictNeedsLoss
PROPERTY EveryAttemptSettles
