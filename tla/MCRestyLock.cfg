SPECIFICATION FairSpec
CONSTANTS
    o1 = o1
    o2 = o2
    w1 = w1
    w2 = w2
    k1 = k1
    k2 = k2
    Keys = {k1, k2}
    Objects = {o1, o2}
    Workers = {w1, w2}
    WorkerOf <- MCWorkerOf
    Dict = Dict
    Options <- MCOptions
    Nil = Nil
    ExpireTimes = {1}
    Capacity = 1
    DefaultTimeout = 2
    DefaultExptime = 2
    DefaultStep = 1
    Ratio = 2
    MaxStep = 2
INVARIANTS
    TypeOK
    Exclusive
    MemoConsistent
    WaitWithinTimeout
PROPERTIES
    LockReturns
    OrphanFreed
