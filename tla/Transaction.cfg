SPECIFICATION Spec
CONSTANTS
    Writes = {1, 2}
    MaxLevel = 4
    MaxFrames = 6
INVARIANTS NoTransactionLeft
PROPERTIES ImplementsNestedTransaction
