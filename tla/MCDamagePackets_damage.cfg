SPECIFICATION DamageSpec
CONSTANTS
    MaxWork = 3
    MaxAtEnd = 1
    StartMayFail = TRUE
    Windows = {w1}
    Codings = {"mmap", "rgb"}
    MaxEpoch = 2
INVARIANTS
    DamageTypeOK
    TypeOK
    CallOrder
    NothingLeft
    ChunksReachTheClient
    NotCleanedInUse
    BacklogIsReal
    OwnersAreLive
PROPERTY
    NeverStale
CHECK_DEADLOCK FALSE
