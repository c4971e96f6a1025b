CONSTANTS
    A = A
    B = B
    C = C
    Orig = Orig
    None = None
    Profile <- Profiles
    NoMemory <- WithoutMemory
    NativeGpu = A
    HasConfigs <- BothDevices
    Lost <- Questions
    MaxSessions = 3
SPECIFICATION Spec
INVARIANTS
    BackupPristine
    GpuUnlessLeftover
    MemoryProfiledOrNative
    ChromeIsFresh
    NoDataCarriedOver
PROPERTIES
    EverySetupEnds
    ImplementsDeviceUse
