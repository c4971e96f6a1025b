SPECIFICATION Spec
CONSTANTS
    Session = {a, b, c}
    Nobody = nobody
    NumSlots = 2
    Mode = "auto"
    MaxFailures = 1
    MaxRetries = 1
    HealthOn = TRUE
    HasApk = TRUE
    HasTimeout = FALSE
    Cancellable = TRUE
    CleanupFails = FALSE
SYMMETRY Sessions
INVARIANTS
    SlotsExclusive
    NoStrandedWaiter
PROPERTIES
    DeadUntilRecovered
    ImplementsAllocator
