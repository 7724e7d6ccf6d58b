\* Every entry point, POSIX events: the safety of the loader.
CONSTANTS
    r1 = r1
    r2 = r2
    r3 = r3
    Resource = {r1, r2, r3}
    NoRes = NoRes
    Ops <- AllOps
    Outcomes <- AllOutcomes
    CountingEvent = TRUE
    JoinTimeout = FALSE
    MaxSignals = 2
SPECIFICATION Spec
\* The loader and a destructor can block each other for good.
CHECK_DEADLOCK FALSE
INVARIANTS
    TypeOK
    LoadedIsAlive
    PendingExists
    DtorFindsUnloaded
    RenameExcludesLoad
    NoLostWakeup
    CleanShutdown
PROPERTY
    ImplementsQueue
