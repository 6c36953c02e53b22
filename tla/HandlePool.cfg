SPECIFICATION FairSpec
CONSTANTS
    Threads = {t1, t2}
    NoThread = NoThread
    Handles = {h1, h2}
    NoHandle = NoHandle
    MaxHandles = 2
    MaxWriters = 1
    TaskTypes = {"Backup"}
    Callbacks = {"none", "Vacuum"}
    MaxReference = 2
INVARIANTS InUseIsAlive HandlesAreExclusive CounterIsExact SharesAreOwed ClosedInCallback BackupsAreSuspended
PROPERTIES DrainCompletes ComesToRest
