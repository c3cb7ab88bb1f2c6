\* The refresh from timer to timer: two attempts per initialisation step, one dial
\* at a time, three calls that go wrong, a clock that is set forward and back.
SPECIFICATION Spec
CONSTANTS
    Dials = {d1}
    InitRetries = 2
    MaxFaults = 3
    Interval = 3
    RetryInterval = 1
    MaxDrift = 4
INVARIANTS
    WakesAfterSleep
    StaleOnlyBriefly
    CallsAllowed
    NoStaleRead
PROPERTIES
    PasswordHeals
    DialsGetCredentials
    RefreshesSettle
\* The process may exit during initialisation.
CHECK_DEADLOCK FALSE
