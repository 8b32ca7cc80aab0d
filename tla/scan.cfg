SPECIFICATION Spec
CONSTANTS
    MaxKey = 4
    Value = {v1}
    Absent = absent
    MaxWrites = 1
INVARIANTS
    TypeOK ForwardScanIsComplete BackwardScanIsComplete OnlyValueUnsafeMisuses
PROPERTY
    TurningBackRevisits ImplementsOrderedScan
CONSTRAINT
    ShortPath
