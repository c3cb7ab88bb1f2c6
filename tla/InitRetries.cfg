CONSTANTS
    MaxRetries = 2
    ListFiles <- MCOneLine
    Explicits <- MCExplicits
    Pages <- MCPages
    MaxPages = 1
SPECIFICATION Spec
INVARIANTS
    InitStepsRetried
CHECK_DEADLOCK FALSE
