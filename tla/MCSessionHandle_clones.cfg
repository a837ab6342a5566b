SPECIFICATION FairSpec
CONSTANTS
    h = h
    t1 = t1
    t2 = t2
    Middleware = Middleware
    Tasks <- MCTasks
    Handler = h
    StoreFails = TRUE
INVARIANT EarlyWritesAreSaved
INVARIANT SavedIsWhole
PROPERTY NobodyHangs
