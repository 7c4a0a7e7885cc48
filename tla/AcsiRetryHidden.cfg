SPECIFICATION Spec
CONSTANTS
    Reads = {ra}
    Writes = {wa}
    NoCmd = NoCmd
    MaxRetries = 1
    MaxCalls = 3
    Patient = TRUE
INVARIANTS
    RetryHidden
CHECK_DEADLOCK FALSE
