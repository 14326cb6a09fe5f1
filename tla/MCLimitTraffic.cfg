SPECIFICATION Spec
CONSTANTS
    r1 = r1
    r2 = r2
    r3 = r3
    Requests = {r1, r2, r3}
    N = 3
    Max <- MCMax
    Burst <- MCBurst
    DictOf <- MCOneDict
    KeyOf <- MCKeys
    NotFound = NotFound
    MaxCrashes = 1
SYMMETRY MCSymmetry
INVARIANTS
    TypeOK
    WithinLimit
    UndelayedWithinMax
    OnlyLastLeaks
