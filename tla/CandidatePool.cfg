\* selectAPIProxyCandidate: two workers, four candidates, all steps of a test; its
\* discover step reads a file, so that it may succeed behind the cancellation.
SPECIFICATION Spec
CONSTANTS
    N = 4
    ApiProxyParallel = 2
    NeedCountries = TRUE
    NeedDiscover = TRUE
    DiscoverCSV = TRUE
INVARIANTS
    TypeOK
    EachCandidateOnce
    SendNeverBlocks
    PreferenceBound
PROPERTIES
    ImplementsFirstSuccess
    Quiesces
\* The routine returns: the final state has no successor.
CHECK_DEADLOCK FALSE
