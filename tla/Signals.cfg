\* Bindings that come and go while signals are emitted and posted.
CONSTANTS
    o1 = o1
    o2 = o2
    b1 = b1
    b2 = b2
    b3 = b3
    Object = {o1, o2}
    Binding = {b1, b2, b3}
    Emitter <- FromFirst
    Receiver <- ToEither
    Priority <- Priorities
    Native = {}
    None = None
    Dangling = Dangling
    PoolSize = 2
    Delays = {0, 1}
    MaxTime = 1
    MaxPosts = 2
    MaxDepth = 5
SPECIFICATION Spec
INVARIANTS
    TypeOK
    CallsInOrder
    StayedAreCalled
    PostedInOrderOnce
