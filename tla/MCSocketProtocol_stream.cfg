SPECIFICATION Spec
CONSTANTS
    MaxSend = 2
    MoreFlags = {FALSE}
    MaxRejected = 1
    WriteErrors = {}
    ParseEnds = {"eof", "invalid"}
    Closers = {}
    Flushers = {}
    Stealers = {}
    FlushTicks = 1
    Producers = {"ordinary", "pixels"}
INVARIANTS
    TypeOK
    WireOrder
CHECK_DEADLOCK FALSE
