SPECIFICATION FairSpec
CONSTANTS
    Threads = {t1, t2}
    NoThread = NoThread
    Paths = {p1, p2}
    NoPath = NoPath
    HandleInHand = TRUE
    MaxObjects = 1
PROPERTY FlowBackReturns
CHECK_DEADLOCK FALSE
