SPECIFICATION Spec
CONSTANTS
    w1 = w1
    w2 = w2
    NoWorker = NoWorker
    NoSubmission = NoSubmission
    Submissions = {1}
    Workers = {w1, w2}
    Scopes = {"scope"}
    ScopeOf <- OneScope
    NeedsGpu <- NoGpu
    HasGpu <- NoWorkerGpu
    Scores = {1, 2}
    MaxJobs = 3
    MaxAttempts = 2
    MaxActiveOfficial = 2
    CleanupRaces = TRUE
INVARIANTS OneActiveJobPerSubmission ClaimOwnsEvaluation VisibleIffOfficialResult StatusFollowsJob
SYMMETRY WorkerSymmetry
CHECK_DEADLOCK FALSE
