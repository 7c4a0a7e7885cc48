SPECIFICATION FairSpec
CONSTANTS
    Reads = {ra, rb}
    Writes = {wa, wb}
    NoCmd = NoCmd
    MaxRetries = 2
    MaxCalls = 2
    Patient = TRUE
INVARIANTS
    ReadRunsOnce
    NoForeignData
    GoodWriteApplied
    SlotConsistent
    WriteDataMatches
PROPERTIES
    CallSpec
    CallEnds
    NobodyStuck
CHECK_DEADLOCK FALSE
