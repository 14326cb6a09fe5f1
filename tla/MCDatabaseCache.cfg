SPECIFICATION Spec
CONSTANTS
    k1 = k1
    k2 = k2
    w1 = w1
    w2 = w2
    t1 = t1
    t2 = t2
    Keys = {k1, k2}
    NoKey = NoKey
    AllKeys = AllKeys
    NoValue = NoValue
    Nobody = Nobody
    LruSize = 1
    Workers = {w1, w2}
    Threads = {t1, t2}
    WorkerOf <- MCWorkerOf
    Admins = {a1}
    MaxChanges = 3
    MaxFaults = 1
CONSTRAINT OneAccountable
SYMMETRY Symmetry
INVARIANTS
    TypeOK
    LocalConsistent
    
    NoSilentStaleness
