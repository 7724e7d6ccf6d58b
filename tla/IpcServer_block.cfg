SPECIFICATION FairSpec
CONSTANTS
    a = a
    b = b
    d = d
    NoConn = NoConn
    CountingEvent = TRUE
    Conns = {a}
    Dummy = d
    Backlog = 1
    MaxMsgs <- OneEach
    MaxReplies = 1
    MaxFaults = 0
PROPERTY
    PollReturns
CHECK_DEADLOCK FALSE
