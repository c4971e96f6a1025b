SPECIFICATION Spec
CONSTANTS
    Session = {a, b}
    Nobody = nobody
    NumSlots = 1
    Mode = "mumu"
    MaxFailures = 2
    MaxRetries = 1
    HealthOn = TRUE
    HasApk = FALSE
    HasTimeout = TRUE
    CleanupFails = TRUE
    EnterMayTimeOut = TRUE
    SwapMayTimeOut = TRUE
    ExitMayTimeOut = TRUE
INVARIANTS
    SlotsExclusive
    NoStrandedWaiter
    OnlyGivingUpLosesSlots
PROPERTIES
    TimeoutKillsOwn
    EveryCallReturns
    ImplementsAllocator
