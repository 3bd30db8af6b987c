SPECIFICATION FairSpec
CONSTANTS
    TaskIds = {k1, k2}
    Configs = {c1, c2}
    AgentIds = {a1}
    AgentId = a1
    NoTask = NoTask
    NoRow = NoRow
    NoConfig = NoConfig
    Fallible = {k2}
    Resends = FALSE
INVARIANTS
    TypeOK
    ActiveMeansCollecting
PROPERTIES
    ChangeAwaitsAgent
    PendingResolves
    CancelledTaskStops
    ComesIntoStep
    ImplementsTaskLife
