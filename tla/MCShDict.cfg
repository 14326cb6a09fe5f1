SPECIFICATION Spec
CONSTANTS
    k1 = k1
    k2 = k2
    k3 = k3
    k4 = k4
    k5 = k5
    k6 = k6
    Keys <- MCKeys
    Scalars <- MCScalars
    Elements <- MCElements
    Capacity = 9
    ExpTimes = {0, 1}
    Skew = 1
    MaxTime = 4
    MaxNumber = 2
    MaxLength = 8
    Increments <- MCOne
VIEW ZoneView
SYMMETRY Symmetry
INVARIANTS
    TypeOK
    ZoneConsistent
    NoEmptyList
PROPERTIES
    EvictsOldestOnly
    
