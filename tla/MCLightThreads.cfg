SPECIFICATION FairSpec
CONSTANTS
    Entry = Entry
    u1 = u1
    u2 = u2
    Uthreads <- MCUthreads
    Coros = {c1}
    MaxArgs = 2
    None = None
INVARIANTS
    TypeOK
    UthreadsCounted
    ChainsSound
    WakeupPending
    RequestEnds

PROPERTIES
    PostedRuns
CHECK_DEADLOCK FALSE
