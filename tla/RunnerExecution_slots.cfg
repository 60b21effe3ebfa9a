SPECIFICATION MCSpec
CONSTANTS
    w1 = w1
    w2 = w2
    NoWorker = NoWorker
    NoBox = NoBox
    NoJob = NoJob
    NoAttempt = NoAttempt
    Workers = {w1, w2}
    Jobs = {1, 2}
    MaxAttempts = 2
    Topology <- JobTopology
    Phases <- FirstJobBuilds
    RunCount <- OneRun
    Redacted = {}
    SlotsOf <- OneSlotEach
    MaxBoxes = 4
    MaxFaults = 1
    MaxCrashes = 1
SYMMETRY WorkerSymmetry
INVARIANTS ExclusiveWriter SlotsAreReturned
PROPERTIES PromptAttemptKeepsContainers
