\* POSIX events, nothing is deleted: jobs are served, calls return, the loader ends; no deadlock.
CONSTANTS
    r1 = r1
    r2 = r2
    Resource = {r1, r2}
    NoRes = NoRes
    Ops <- NoReleaseOps
    Outcomes <- AllOutcomes
    CountingEvent = TRUE
    JoinTimeout = FALSE
    MaxSignals = 2
SPECIFICATION FairSpec
PROPERTIES
    JobsServed
    CallsReturn
