SPECIFICATION Spec
CONSTANTS
    Entry = {e1, e2}
    Worker = {w1, w2}
    MaxRetries = 2
    MaxDeliveries = 2
    Pages = 2
    MaxFaults = 3
SYMMETRY Symmetry
INVARIANTS
    TypeOK
    AppliedOnce
    NothingLost
    EmittedOnce
PROPERTY ImplementsEntryLife
CHECK_DEADLOCK FALSE
