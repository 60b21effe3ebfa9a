SPECIFICATION MCSpec
CONSTANTS
    Callers = {c1, c2, c3}
    Trees <- MCTrees
    MaxTarEntries = 2
    MaxTarDepth = 2
    MaxArchiveBytes = 10240
    MaxEdits = 1
    PhaseSeq <- MCPhaseSeq
    Layouts <- MCLayouts
    ProjectBase = 10
    MaxCommands = 2
    EnvFiles <- MCEnvFiles
    ProcessEnvs <- MCProcessEnvs
    Backup <- MCBackup
    MaxOps = 1
    Baselines <- MCBaselines
    Deferred = {"b2"}
    NoSolution = {"b3"}
    MaxRuns = 2
    MaxCreated = 2
INVARIANTS AcknowledgedWriteStays StoredBundleUnpacks HostedStackIsHardened PreparedIsUsable OneSubmissionPerBaseline LeftoversAreReported
PROPERTIES PurgeSparesProduction
SYMMETRY CallerSymmetry
CHECK_DEADLOCK FALSE
