SPECIFICATION Spec
CONSTANTS
    MaxKey = 2
    Value = {v1}
    Absent = absent
    MaxWrites = 0
INVARIANT
    SeekToLastIsLast
