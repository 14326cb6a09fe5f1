SPECIFICATION Spec
CONSTANTS
    Sockets = {s1, s2}
    Keys = {k1, k2}
    Conns = {c1, c2, c3}
    PoolIds = {p1, p2}
    Sizes = {1, 2}
    None = None
SYMMETRY Symmetry
CONSTRAINT BeforeMisfiling
INVARIANTS
    TypeOK
    OneOwner
    PoolsCounted
PROPERTIES
    ClosedForCause
