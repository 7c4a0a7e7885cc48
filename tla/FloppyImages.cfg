SPECIFICATION FairSpec
CONSTANTS
    NSlots = 2
    Images = {a}
    Special = Special
    EmptyImage = EmptyImage
    None = None
    BusIds = {x, NoIds}
    NoIds = NoIds
    MaxEvents = 2
INVARIANTS
    LedIsEnabled
    ChangeAnnounced
PROPERTIES
    ConfigArrives
    LedIsStreamed
    SlotIsEncoded
