SPECIFICATION Spec
CONSTANTS
    TaskIds = {k1, k2}
    Configs = {c1, c2}
    Threads = {t1, t2, t3}
    Addresses = {a1, a2, a3}
    NoTask = NoTask
    NoConfig = NoConfig
    NoThread = NoThread
    NoAddress = NoAddress
    Free = Free
SYMMETRY Symmetry
INVARIANTS
    TypeOK
    TaskListSound
    IteratorsValid
    ResponseOmitsConfirmed
    ResponseAnswersRequest
PROPERTY
    ImplementsAgentSpec
