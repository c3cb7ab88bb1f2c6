\* Up to two addresses, and everything an upstream may send in five bytes.
SPECIFICATION DialSpec
CONSTANTS
    MaxAddresses = 2
    MaxBytes = 5
INVARIANTS
    CleanHandover
    FirstThatWorks
PROPERTIES
    OnlySilenceHangs
\* The dial is over.
CHECK_DEADLOCK FALSE
