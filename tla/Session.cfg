SPECIFICATION Spec
CONSTANTS
    a = a
    b = b
    p = p
    None = None
    Sessions = {p}
    Clients = {a, b}
    Hasty = {b}
    MaxClients = 2
    MaxConns <- TwiceForA
    MaxUserActions = 4
INVARIANTS
    TypeOK
    SidesAgree
    JoinedIsCounted
    AttrsConverge
    StartAgreed
CHECK_DEADLOCK FALSE
