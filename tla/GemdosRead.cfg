SPECIFICATION Spec
CONSTANTS
    Sector = 2
    BlockSizes = {6, 8}
    ReadCounts = {1, 5}
    WriteCounts = {}
    Offsets = {}
    Lengths = {7}
    MaxLen = 12
    MaxCalls = 4
    MaxFaults = 0
PROPERTIES
    ReadsTheFile
CHECK_DEADLOCK FALSE
