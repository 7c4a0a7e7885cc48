SPECIFICATION Spec
CONSTANTS
    Sector = 2
    BlockSizes = {6, 8}
    ReadCounts = {1, 3, 7, 15}
    WriteCounts = {1, 5}
    Offsets = {0, 1, 3}
    Lengths = {0, 11}
    MaxLen = 14
    MaxCalls = 5
    MaxFaults = 1
INVARIANTS
    InStep
PROPERTIES
    ActsAsAFile
CHECK_DEADLOCK FALSE
