SPECIFICATION Spec
CONSTANTS
    TaskIds = {k1}
    Configs = {c1, c2}
    AgentIds = {a1}
    AgentId = a1
    NoTask = NoTask
    NoRow = NoRow
    NoConfig = NoConfig
    Fallible = {}
    Resends = TRUE
PROPERTY
    ChangeAwaitsAgent
