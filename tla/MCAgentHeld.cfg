SPECIFICATION Spec
CONSTANTS
    TaskIds = {k1, k2}
    Configs = {c1}
    Threads = {t1, t2}
    Addresses = {a1, a2}
    NoTask = NoTask
    NoConfig = NoConfig
    NoThread = NoThread
    NoAddress = NoAddress
    Free = Free
SYMMETRY Symmetry
INVARIANT
    HeldTaskIsRequested
