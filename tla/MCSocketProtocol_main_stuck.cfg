SPECIFICATION FairSpec
CONSTANTS
    MaxSend = 1
    MoreFlags = {FALSE}
    MaxRejected = 0
    WriteErrors = {"closed"}
    ParseEnds = {"eof", "invalid"}
    Closers = {}
    Flushers = {"main"}
    Stealers = {}
    FlushTicks = 1
    Producers = {"ordinary"}
PROPERTY
    FlushCompletes
CHECK_DEADLOCK FALSE
