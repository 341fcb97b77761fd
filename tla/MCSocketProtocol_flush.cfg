SPECIFICATION FairSpec
CONSTANTS
    MaxSend = 1
    MoreFlags = {FALSE}
    MaxRejected = 0
    WriteErrors = {"closed", "os"}
    ParseEnds = {"eof", "invalid"}
    Closers = {}
    Flushers = {"main"}
    Stealers = {}
    FlushTicks = 1
    Producers = {"ordinary"}
INVARIANTS
    LastPacketIsLast
    SentIsWritten
    PutsUnderLock

    
CHECK_DEADLOCK FALSE
