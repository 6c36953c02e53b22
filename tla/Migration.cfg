SPECIFICATION Spec
CONSTANTS
    h1 = h1
    h2 = h2
    Handles <- MCHandles
    Worker = Worker
    Nobody = Nobody
    Readers <- MCReaders
    MaxRow = 2
    MaxEvents = 1
    CrossDatabase = TRUE
    CreatesFirst = TRUE
INVARIANTS ReferencesExact ReadsSeeEverything StatementsWork
PROPERTIES ImplementsLogicalTable
