SPECIFICATION FairSpec
CONSTANTS
    Threads = {t1, t2, t3}
    MaxHandles = 2
    MaxWriters = 1
    SignalFront = FALSE
    Spurious = TRUE
INVARIANTS WithinLimits SleeperHasWaker
PROPERTIES ImplementsHandleBudget WaitersServed
