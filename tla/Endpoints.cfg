CONSTANTS
    Countries = {1, 2}
    Answers <- MCAnswers
    CsvFiles <- MCCsvFiles
    Blacklists <- MCBlacklists
    DiscoverRepeat = 2
SPECIFICATION Spec
INVARIANTS
    NoBlacklisted
    SortedOnce
    NothingLost
\* A list that is not empty ends the step.
CHECK_DEADLOCK FALSE
