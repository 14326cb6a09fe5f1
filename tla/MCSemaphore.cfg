SPECIFICATION FairSpec
CONSTANTS
    t1 = t1
    t2 = t2
    t3 = t3
    r1 = r1
    r2 = r2
    None = None
    MaxPost = 2
    MaxResources = 3
    Threads <- MCThreads
    Requests <- MCRequests
    ReqOf <- MCReqOf
    Parent <- MCParent
INVARIANTS
    TypeOK
    WaitersAccounted
    NoLostWakeup
PROPERTIES
    NoBarging
    WaitEnds
    ImplementsClassic
