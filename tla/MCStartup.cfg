SPECIFICATION FairSpec
CONSTANTS
    Threads = {t1, t2, t3}
    Paths = {p1, p2}
    DefaultPath = p1
    None = None
INVARIANTS
    TypeOK
    ServesCompleteStore
    OneBuilder
PROPERTIES
    ConstructionEnds
