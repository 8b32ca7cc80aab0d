SPECIFICATION Spec
CONSTANTS
    Thread = {t1}
    Finalizer = gc
    Db = {d1}
    Iterator = {}
    ColumnFamily = {}
    Checkpoint = {p1}
    ReadOptions = {}
    NonObject = {}
    NULL = null
    MaxCalls = 3
INVARIANT
    DependentsKeepDbOpen
CHECK_DEADLOCK FALSE
