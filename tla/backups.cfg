SPECIFICATION Spec
CONSTANTS
    IntHalf = 4
    SizeModulus = 32
    Number <- Numbers
    NULL = null
    MaxWrites = 2
    MaxBackups = 3
INVARIANTS
    TypeOK NewestSurvives VerifiesWhatInfoNamed
PROPERTY
    RestoreNeverGoesBack
