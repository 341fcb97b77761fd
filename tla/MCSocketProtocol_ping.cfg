SPECIFICATION FairPeerSpec
CONSTANTS
    MaxSend = 2
    MoreFlags = {FALSE}
    MaxRejected = 0
    WriteErrors = {}
    ParseEnds = {}
    Closers = {}
    Flushers = {}
    Stealers = {}
    FlushTicks = 1
    Producers = {"ordinary", "ping"}
PROPERTY
    PacketsLeave
CHECK_DEADLOCK FALSE
