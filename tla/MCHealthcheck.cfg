SPECIFICATION FairSpec
CONSTANTS
    Workers = {w1, w2}
    Peers = {p1, p2}
    Nobody = Nobody
    None = None
    Fall = 2
    Rise = 2
    MaxFlips = 3
    MaxFaults = 1
INVARIANTS
    TypeOK
    NoSilentDivergence
PROPERTIES
    VerdictEarned
    ViewsSettle
