SPECIFICATION Spec
CONSTANTS
    Entry = Entry
    u1 = u1
    u2 = u2
    Uthreads <- MCUthreads
    Coros = {c1}
    MaxArgs = 2
    None = None
PROPERTIES
    ZombieUnlessWaitedFor
CHECK_DEADLOCK FALSE
