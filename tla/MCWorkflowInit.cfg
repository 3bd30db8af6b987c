SPECIFICATION Spec
CONSTANTS
    Threads = {t1}
    SpecialThread = t1
    TaskIds = {k1}
    AgentIds = {a1}
    Configs = {c1}
    Machines = {m1}
    NoMachine = NoMachine
    NoTask = NoTask
    NoRow = NoRow
    NoAgent = NoAgent
    NoConfig = NoConfig
    Allowed <- NoToggles
    Faults = {}
    Disciplined = TRUE
PROPERTY
    InitListsAssigned
