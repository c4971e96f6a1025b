SPECIFICATION PagesSpec
CONSTANTS
    Page = {main, popup}
    Main = main
    BindFirst <- CoresAndWorkers
    BindLast <- TouchOnly
    Once <- AppliedOnce
    Direct <- SentByWrapper
    CoresDiffer = TRUE
    MayFail <- CoresOnly
    MayLose <- BothHandlers
    MaxNavs = 1
INVARIANTS
    PagesComplete
    WorkersMasked
PROPERTIES
    EveryWorkerRuns
