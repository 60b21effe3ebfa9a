SPECIFICATION MCSpec
CONSTANTS
    Proposals <- MCProposals
    Updates <- MCUpdates
    Results <- MCResults
    PinsRequired = TRUE
    MaxRuns = 2
    MaxAssetFiles = 4
    MaxAssetBytes = 1
    MaxSeedings = 2
    MaxKept = 3
    MaxTime = 1
    ByteLimit = 1
    MaxWrites = 2
    StderrCap = 1
    MaxSessionRuns = 2
    LogPerRun = 3
    NoticeSize = 2
    MaxFiles = 5
    MaxDirs = 5
    MaxDepth = 2
    DiskLimit = 1
    OutputTrees <- MCTrees
    LogSizes = {0, 4}
INVARIANTS
    AdmittedEvaluationRuns
    PublicBundleHidesOverlays
    RankingIsConsistent
    AcceptedSession
    OutputsAreContained
PROPERTIES
    SessionEnds
CHECK_DEADLOCK FALSE
