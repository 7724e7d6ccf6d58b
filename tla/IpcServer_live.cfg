SPECIFICATION FairSpec
CONSTANTS
    a = a
    b = b
    d = d
    NoConn = NoConn
    CountingEvent = TRUE
    Conns = {a, b}
    Dummy = d
    Backlog = 1
    MaxMsgs <- OneEach
    MaxReplies = 1
    MaxFaults = 0
PROPERTIES
    ShutdownEnds
    SentIsHandled
CHECK_DEADLOCK FALSE
