SPECIFICATION FairSpec
CONSTANTS
    Dir = {r1}
    Db = {d1, d2}
    Cf = {c1}
    Name = {n1}
    Default = default
    MaxKey = 2
    Value = {v1}
    NULL = null
    MaxWrites = 3
INVARIANTS
    TypeOK AnswersLastWrite ClosedIsUnlocked
PROPERTIES
    ImplementsDurableStore LostIsUnlocked
CHECK_DEADLOCK FALSE
