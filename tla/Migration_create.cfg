SPECIFICATION Spec
CONSTANTS
    h1 = h1
    h2 = h2
    Handles <- MCHandles
    Worker = Worker
    Nobody = Nobody
    Readers <- MCReaders
    MaxRow = 2
    MaxEvents = 0
    CrossDatabase = FALSE
    CreatesFirst = FALSE
INVARIANT ReadsSeeEverything
