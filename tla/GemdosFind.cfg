SPECIFICATION Spec
CONSTANTS
    Dtas = {d1, d2, d3}
    NoDta = NoDta
    Dirs = {0, 1, 3}
    PerBlock = 2
    MaxStorages = 2
    MaxCalls = 7
    MaxFaults = 1
INVARIANTS
    InOrder
    EndsAtEnd
    Released
CHECK_DEADLOCK FALSE
