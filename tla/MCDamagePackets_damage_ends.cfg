SPECIFICATION DamageFairSpec
CONSTANTS
    MaxWork = 2
    MaxAtEnd = 1
    StartMayFail = TRUE
    Windows = {w1}
    Codings = {"mmap", "rgb"}
    MaxEpoch = 1
PROPERTIES
    AllCalled
    SourcesGo
    
CHECK_DEADLOCK FALSE
