SPECIFICATION Spec
CONSTANTS
    a = a
    b = b
    d = d
    NoConn = NoConn
    CountingEvent = TRUE
    Conns = {a, b}
    Dummy = d
    Backlog = 1
    MaxMsgs <- TwoForA
    MaxReplies = 2
    MaxFaults = 1
INVARIANTS
    TypeOK
    RepliesReachSender
    OneOwnerEach
PROPERTIES
    ImplementsChannel
CHECK_DEADLOCK FALSE
