SPECIFICATION FairSpec

CONSTANTS
    MaxJobs = 1
    Upstream = 1
    MaxFaults = 2
    MaxRetries = 1
    MaxCancels = 1

INVARIANTS
    CrashLosesNothing
    CompletedHasSlides
    CancelStopsWithinOneAgent
    CleanCheckpoints
    RestsTerminal

PROPERTIES
    ImplementsRuns
    CompletedExecutionsStay
    EnqueuedJobsFinish
