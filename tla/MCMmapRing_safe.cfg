SPECIFICATION Spec
CONSTANTS
    MmapSize = 32
    Sizes <- MCSizes
    MaxWrites = 5
    ALWAYS_WRAP = FALSE
INVARIANTS
    SafeIntact
    WithinArea
    AllFreed
CHECK_DEADLOCK FALSE
