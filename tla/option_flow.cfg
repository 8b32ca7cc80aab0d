SPECIFICATION Spec
CONSTANTS
    Opt = {o1, o2}
    Db = {d1}
    Name = {n1}
    Create = create
    DbKey = {}
    CfKey = {buffer, levels}
    Mutable = {buffer}
    Pair <- Pairs
    create = create
    buffer = buffer
    levels = levels
    NULL = null
    MaxPairs = 2
SYMMETRY OptSymmetry
INVARIANTS
    TypeOK SettingsAreTheirOwn NothingFreedIsUsed
PROPERTY
    SetOptionsIsWhole
CHECK_DEADLOCK FALSE
