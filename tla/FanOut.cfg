\* LookupNetIP and fastest-server selection: three upstreams.
SPECIFICATION RaceSpec
CONSTANTS
    Attempts = {a1, a2, a3}
INVARIANTS
    ErrorAccountsForAll
PROPERTIES
    RaceImplementsFirstSuccess
    NoGoroutineLeak
\* The function returns: the final state has no successor.
CHECK_DEADLOCK FALSE
