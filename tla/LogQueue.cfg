CONSTANTS
    Loggers = {main, proxy}
    MAX_LOG_QLEN = 2
    MaxLines = 3
    main = main
    proxy = proxy
SPECIFICATION Spec
INVARIANTS
    NothingGarbledOrDropped
PROPERTIES
    CloseReturns
\* The process exits.
CHECK_DEADLOCK FALSE
