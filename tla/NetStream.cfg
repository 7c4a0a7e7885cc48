SPECIFICATION LiveSpec
CONSTANTS
    Sector = 2
    FastRam = 2
    MaxChars = 2
    BuffSize = 3
    Lengths = {1, 3, 4}
    Lines = {3}
    MaxSent = 5
    MaxFaults = 1
INVARIANTS
    NoneTwice
    InStep
    EofIsEnd
PROPERTY
    EofIsTold
CHECK_DEADLOCK FALSE
