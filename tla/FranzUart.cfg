SPECIFICATION LiveSpec
CONSTANTS
    BufSize = 2
    StBytes = {"AA", "c"}
    KeyBytes = {"k", "BB"}
    ReadSizes = {1, 3}
    MaxBytes = 4
    MaxPackets = 1
    MaxFlips = 2
INVARIANTS CommandsInOrder KeysInOrder BackInStep PacketsWhole
PROPERTY AllArrives
CHECK_DEADLOCK FALSE
