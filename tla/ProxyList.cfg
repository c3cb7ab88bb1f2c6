\* Four endpoints, three probes at a time, answers before, at and past the timeout.
CONSTANTS
    Entries <- MCEntries
    Slots = 3
    Timeout = 2
    Slowest = 3
SPECIFICATION Spec
INVARIANTS
    OwnResult
    EndsInTime
    ListingFaithful
\* The program exits.
CHECK_DEADLOCK FALSE
