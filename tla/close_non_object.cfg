SPECIFICATION Spec
CONSTANTS
    Thread = {t1}
    Finalizer = gc
    Db = {d1}
    Iterator = {}
    ColumnFamily = {}
    Checkpoint = {}
    ReadOptions = {}
    NonObject = {x1}
    NULL = null
    MaxCalls = 2
INVARIANT
    MutexHolderIsInside
CHECK_DEADLOCK FALSE
