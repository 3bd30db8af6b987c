SPECIFICATION Spec
CONSTANTS
    SpecialThread = t1
    Threads = {t1, t2, t3}
    TaskIds = {k1}
    AgentIds = {a1, a2}
    Configs = {c1}
    Machines = {m1, m2}
    NoMachine = NoMachine
    NoTask = NoTask
    NoRow = NoRow
    NoAgent = NoAgent
    NoConfig = NoConfig
    Allowed <- OneForAgents
    Faults = {"crash", "db"}
    Disciplined = FALSE
SYMMETRY Symmetry
INVARIANTS
    TypeOK
    NoForeignTasks
    HeldAgentIsCurrent
PROPERTIES
    ShadowAgentsInert
    RowNeverReturns
    DeletedTasksStayGone
