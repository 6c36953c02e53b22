SPECIFICATION FairSpec
CONSTANTS
    Threads = {t1, t2}
    NoThread = NoThread
    Paths = {p1, p2}
    NoPath = NoPath
    HandleInHand = FALSE
    MaxObjects = 1
INVARIANTS ReferencesExact UnreferencedIsEmpty
PROPERTY PoolResponds
