SPECIFICATION FairSpec
CONSTANTS
    Paths = {p1}
    RetryTypes = {"Migrate"}
    PlainTypes = {"Checkpoint"}
    Interval <- IntervalValues
    RetryInterval = 2
    TolerableFailures = 2
    PurgeInterval = 0
    MaxFiles = 2
    MaxNotices = 1
    MaxQueued = 2
INVARIANTS NeverOversleeps QueuedIsRegistered NotifiedOnce
PROPERTIES WorkGetsDone OwedIsDelivered QueueStops
CHECK_DEADLOCK FALSE
