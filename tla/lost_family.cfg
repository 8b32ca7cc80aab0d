SPECIFICATION Spec
CONSTANTS
    Dir = {r1}
    Db = {d1}
    Cf = {c1, c2}
    Name = {n1}
    Default = default
    MaxKey = 1
    Value = {v1}
    NULL = null
    MaxWrites = 1
SYMMETRY CfSymmetry
INVARIANT
    WritesLandWhereAsked
CHECK_DEADLOCK FALSE
