SPECIFICATION IkbdSpec
CONSTANTS
    KeysOf <- MCKeysOf
    MaxHeld = 4
    MaxBatch = 2
    MaxChanges = 1
INVARIANTS CountsAreKeys NothingStuck WaitsForRelease
