SPECIFICATION FairSpec
CONSTANTS
    Threads = {t1, t2, t3}
    NoThread = NoThread
    SignalFront = TRUE
    MaxNest = 2
INVARIANTS Exclusion NoLostWakeup HolderNeverWaits
PROPERTIES ImplementsRWLock WriterProgress ReaderProgress
