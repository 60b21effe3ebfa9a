SPECIFICATION FairSpec
CONSTANTS
    w1 = w1
    w2 = w2
    NoWorker = NoWorker
    NoSubmission = NoSubmission
    Submissions = {1}
    Workers = {w1, w2}
    Scopes = {"scope"}
    ScopeOf <- OneScope
    NeedsGpu <- NeedsGpuFirst
    HasGpu <- GpuOnW1
    Scores = {1}
    MaxJobs = 2
    MaxAttempts = 2
    MaxActiveOfficial = 2
    CleanupRaces = TRUE
PROPERTIES EveryJobFinishes ImplementsJobClaims
CHECK_DEADLOCK FALSE
