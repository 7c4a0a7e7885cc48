SPECIFICATION FairSpec
CONSTANTS
    Tracks = {t0, t1}
    Start = t0
    Images = {i0}
    Configs = {c0}
    Nothing = Nothing
    FwPulses = 1
    AtariWrites = TRUE
    MayLose = TRUE
    MayTear = TRUE
    MaxEvents = 2
INVARIANTS
    NoStreamWhileReceiving
PROPERTIES
    StreamsTheHeadsTrack
    StreamResumes
    TrackCatchesUp
    DiskChangeReleased
    AsksForTheHead
