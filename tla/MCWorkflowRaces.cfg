SPECIFICATION RacedSpec
CONSTANTS
    Threads = {t1, t2}
    TaskIds = {k1, k2}
    AgentIds = {a1}
    Machines = {m1}
    NoMachine = NoMachine
    Configs = {c1, c2}
    NoTask = NoTask
    NoRow = NoRow
    NoAgent = NoAgent
    NoConfig = NoConfig
    Allowed <- Anything
    Faults = {"crash", "db"}
    Disciplined = TRUE
SYMMETRY Symmetry
INVARIANTS
    ListMatchesStore
    CancelIsStored
PROPERTIES
    HandlersFollowTaskLife
