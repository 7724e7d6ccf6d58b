\* Handlers that come, go and send while messages are being delivered.
CONSTANTS
    p1 = p1
    p2 = p2
    p3 = p3
    d1 = d1
    Leaf = {p1, p2, p3}
    Deaf = {p1}
    Dispatchers = {d1}
    Server = Server
    None = None
    Holds <- ManagerAndEntity
    MaxMsgs = 2
    MaxDepth = 4
SYMMETRY Symmetry
SPECIFICATION Spec
INVARIANTS
    TypeOK
    LoopsInBounds
    DeliveredOnce
    SlotsBounded
    HandledInOrder
