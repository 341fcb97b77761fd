SPECIFICATION FairSpec
CONSTANTS
    MaxSend = 2
    MoreFlags = {FALSE}
    MaxRejected = 0
    WriteErrors = {"closed", "os"}
    ParseEnds = {"eof", "invalid"}
    Closers = {"main", "parse"}
    Flushers = {}
    Stealers = {"main", "parse"}
    FlushTicks = 1
    Producers = {"ordinary"}
INVARIANT
    LostOnce

    
    
    
CHECK_DEADLOCK FALSE
