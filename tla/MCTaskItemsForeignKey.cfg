SPECIFICATION Spec
CONSTANTS
    TaskIds = {k1}
    Times = {1}
    MaxItems = 1
    Threads = {t1, t2, t3}
    Allowed <- Roles
    Saver = t1
    Remover = t2
    Editor = t3
    None = None
INVARIANT
    ItemsHaveTask
