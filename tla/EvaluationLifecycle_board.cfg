SPECIFICATION Spec
CONSTANTS
    w1 = w1
    w2 = w2
    NoWorker = NoWorker
    NoSubmission = NoSubmission
    Submissions = {1, 2}
    Workers = {w1, w2}
    Scopes = {"scope"}
    ScopeOf <- OneScope
    NeedsGpu <- NoGpu
    HasGpu <- NoWorkerGpu
    Scores = {1, 2}
    MaxJobs = 3
    MaxAttempts = 1
    MaxActiveOfficial = 1
    CleanupRaces = FALSE
INVARIANTS LeaderboardIsBest FirstJobHasArtifact OfficialCapacity
SYMMETRY WorkerSymmetry
CHECK_DEADLOCK FALSE
