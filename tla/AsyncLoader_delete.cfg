\* The loader takes a job whose destructor is running: each waits for the other.
CONSTANTS
    r1 = r1
    r2 = r2
    Resource = {r1, r2}
    NoRes = NoRes
    Ops = {"Load", "Release"}
    Outcomes = {"valid"}
    CountingEvent = TRUE
    JoinTimeout = FALSE
    MaxSignals = 2
SPECIFICATION Spec
\* The loader and a destructor can block each other for good.
CHECK_DEADLOCK FALSE
INVARIANT
    TakenIsNotDeleted
