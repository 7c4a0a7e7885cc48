SPECIFICATION LiveSpec
CONSTANTS
    Slots = 2
    MaxHandle = 1
    Cons = 3
    MaxFaults = 1
INVARIANTS
    HandleIsOwn
    OpenIsHeld
    ClosedIsTrue
PROPERTY
    EndIsTold
CHECK_DEADLOCK FALSE
