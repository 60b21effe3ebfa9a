SPECIFICATION FairSpec
CONSTANTS
    w1 = w1
    w2 = w2
    NoWorker = NoWorker
    NoBox = NoBox
    NoJob = NoJob
    NoAttempt = NoAttempt
    Workers = {w1, w2}
    Jobs = {1}
    MaxAttempts = 1
    Topology <- JobTopology
    Phases <- NoPhases
    RunCount <- OneRun
    Redacted = {}
    SlotsOf <- OneSlotEach
    MaxBoxes = 4
    MaxFaults = 1
    MaxCrashes = 1
PROPERTIES OrphansGo
