CONSTANTS
    Records <- MCRecords
    FakeNames = {1, 11, 30, 90}
SPECIFICATION SniSpec
INVARIANTS
    RewriteSound
\* A record is rewritten once.
CHECK_DEADLOCK FALSE
