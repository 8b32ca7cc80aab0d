SPECIFICATION Spec
CONSTANTS
    Thread = {t1}
    Finalizer = gc
    Db = {d1}
    Iterator = {i1}
    ColumnFamily = {c1}
    Checkpoint = {p1}
    ReadOptions = {o1}
    NonObject = {x1}
    NULL = null
    MaxCalls = 6
INVARIANTS
    TypeOK NoDoubleDestroy IteratorDestroyedBeforeDb OptionsOutliveReaders
     IteratorKeepsDbOpen CheckedUseIsSafe FinalizedIsDestroyed
PROPERTY
    ImplementsLifetime
CHECK_DEADLOCK FALSE
