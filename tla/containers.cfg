SPECIFICATION Spec
CONSTANTS
    Worker = {w1, w2}
    None = None
    Bundles <- Apks
    HalModes <- HalAlways
    Images <- WithoutHal
    Lost <- AllButImage
    MaxFaults = 1
    MaxFailures = 1
    MaxOpens = 2
INVARIANTS
    ImageClean
    SlotsEquipped
    
PROPERTIES
    DataKept
    EveryOpenEnds
CHECK_DEADLOCK FALSE
