SPECIFICATION Spec
CONSTANTS
    r1 = r1
    r2 = r2
    r3 = r3
    r4 = r4
    k1 = k1
    k2 = k2
    w1 = w1
    w2 = w2
    NoFlight = NoFlight
    Requests <- MCRequests
    Keys <- MCKeys
    Workers <- MCWorkers
    KeyOf <- MCKeyOf
    WorkerOf <- MCTwoWorkers
INVARIANT OneExecutionPerKey
INVARIANT MapHoldsOpenFlight
INVARIANT LostWakeupOnlyAcrossWorkers
INVARIANT FollowersShareOutcome
PROPERTY OnlyOwnerRemoves
PROPERTY ImplementsSharedExecution
