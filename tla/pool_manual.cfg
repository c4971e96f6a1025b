SPECIFICATION Spec
CONSTANTS
    Session = {a, b, c}
    Nobody = nobody
    NumSlots = 2
    Mode = "manual"
    MaxFailures = 1
    MaxRetries = 1
    HealthOn = TRUE
    HasApk = FALSE
    HasTimeout = FALSE
    Cancellable = FALSE
    CleanupFails = FALSE
SYMMETRY Sessions
INVARIANTS
    UserKeepsBrowser
    NoIdleWhileWaiting
