SPECIFICATION Spec
CONSTANTS
    r1 = r1
    r2 = r2
    r3 = r3
    Requests = {r1, r2}
    N = 2
    Max <- MCMaxTwo
    Burst <- MCBurstTwo
    DictOf <- MCTwoDicts
    KeyOf <- MCKeysTwo
    NotFound = NotFound
    MaxCrashes = 0
SYMMETRY MCSymmetry
INVARIANTS
    NothingLeaks
