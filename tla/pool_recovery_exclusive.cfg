SPECIFICATION Spec
CONSTANTS
    Session = {a, b, c}
    Nobody = nobody
    NumSlots = 2
    Mode = "auto"
    MaxFailures = 1
    MaxRetries = 0
    HealthOn = TRUE
    HasApk = FALSE
    HasTimeout = FALSE
    Cancellable = FALSE
    CleanupFails = FALSE
INVARIANTS
    RecoveryExclusive
