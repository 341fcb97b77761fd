SPECIFICATION Spec
CONSTANTS
    MmapSize = 32
    Sizes <- MCSizes
    MaxWrites = 4
    ALWAYS_WRAP = FALSE
INVARIANT InOrderIntact
CHECK_DEADLOCK FALSE
