SPECIFICATION Spec
CONSTANTS
    Thread = {t1}
    Finalizer = gc
    Db = {d1}
    Iterator = {i1}
    ColumnFamily = {}
    Checkpoint = {}
    ReadOptions = {}
    NonObject = {}
    NULL = null
    MaxCalls = 4
INVARIANT
    NoUseAfterDestruction
CHECK_DEADLOCK FALSE
