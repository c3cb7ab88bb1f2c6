\* Two runs to switch between, and three effects.
SPECIFICATION ViewSpec
CONSTANTS
    Runs = {r1, r2}
    MaxTails = 3
INVARIANTS
    SessionsAccountedFor
PROPERTIES
    TailShows
\* The user may have nothing more to do and the bound on effects be reached.
CHECK_DEADLOCK FALSE
