SPECIFICATION FairSpec
CONSTANTS
    a = a
    b = b
    Nobody = Nobody
    Files = {a, b}
    Sizes <- MCSizes
    MaxConcurrent = 1
    Ask = {b}
    BadDigest = {}
    DiskErrors = {"write"}
    Cancellable = {a}
INVARIANTS
    TypeOK
    WholeUnlessCrossed
    DoneIsWritten
    
    
    OneInFlight
    Watched
PROPERTY
    AllSettle
CHECK_DEADLOCK FALSE
