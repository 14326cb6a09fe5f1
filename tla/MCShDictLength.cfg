SPECIFICATION Spec
CONSTANTS
    k1 = k1
    k2 = k2
    k3 = k3
    k4 = k4
    k5 = k5
    k6 = k6
    Keys <- MCSixKeys
    Scalars <- MCSmall
    Elements <- MCSmall
    Capacity = 14
    ExpTimes = {0}
    Skew = 0
    MaxTime = 2
    MaxNumber = 1
    MaxLength = 2
    Increments <- MCNone
VIEW ZoneView
SYMMETRY Symmetry
PROPERTIES
    LengthIsCount
