SPECIFICATION FairSpec
CONSTANTS
    Thread = {t1, t2}
    Finalizer = gc
    Db = {d1}
    Iterator = {i1}
    ColumnFamily = {}
    Checkpoint = {}
    ReadOptions = {o1}
    NonObject = {}
    NULL = null
    MaxCalls = 3
INVARIANTS
    NoDoubleDestroy IteratorDestroyedBeforeDb OptionsOutliveReaders
    SlotTellsTruth MutexHolderIsInside UsesLoseToCloseOnly
PROPERTIES
    GarbageIsFinalized CloseReturns
CHECK_DEADLOCK FALSE
