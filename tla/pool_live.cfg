SPECIFICATION Spec
CONSTANTS
    Session = {a, b}
    Nobody = nobody
    NumSlots = 1
    Mode = "mumu"
    MaxFailures = 1
    MaxRetries = 1
    HealthOn = TRUE
    HasApk = FALSE
    HasTimeout = TRUE
    Cancellable = TRUE
    CleanupFails = TRUE
PROPERTIES
    WatchdogKillsOwn
    EverySessionEnds
