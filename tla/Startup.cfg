\* Every path through run(), with two attempts at most, lists of two lines, and
\* sites of two pages or without an end.
CONSTANTS
    MaxRetries = 2
    ListFiles <- MCListFiles
    Explicits <- MCExplicits
    Pages <- MCPages
    MaxPages = 2
SPECIFICATION Spec
INVARIANTS
    ServesPrepared
    ExitHonest
    CandidatesSound
PROPERTIES
    StartupEnds
\* The program exits.
CHECK_DEADLOCK FALSE
