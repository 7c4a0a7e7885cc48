SPECIFICATION FairSpec
CONSTANTS
    Tracks = {t0, t1}
    Start = t0
    Images = {i0, i1}
    Configs = {c0}
    Nothing = Nothing
    FwPulses = 2
    AtariWrites = FALSE
    MayLose = FALSE
    MayTear = FALSE
    MaxEvents = 1
PROPERTIES
    ImageCatchesUp
