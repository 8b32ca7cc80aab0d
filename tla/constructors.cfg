SPECIFICATION Spec
CONSTANTS
    IntHalf = 4
    SizeModulus = 32
    Number <- Numbers
    MaxGiven = 2
INVARIANTS
    TypeOK SettingsArrive RaisesForCause AlistRoundTrip
CHECK_DEADLOCK FALSE
