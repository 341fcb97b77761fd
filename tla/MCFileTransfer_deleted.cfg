SPECIFICATION Spec
CONSTANTS
    a = a
    b = b
    Nobody = Nobody
    Files = {a, b}
    Sizes <- MCSizes
    MaxConcurrent = 2
    Ask = {}
    BadDigest = {}
    DiskErrors = {}
    Cancellable = {a}
PROPERTY
    CleanupKeepsDownloads
CHECK_DEADLOCK FALSE
