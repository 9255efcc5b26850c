SPECIFICATION FairSyncSpec
CONSTANTS
    NoJob = NoJob
    Jobs = {j1, j2}
    SyncWorkers = {w1, w2}
    Outcomes = {"done", "retry", "fatal"}
    MaxSyncFaults = 2
INVARIANTS StrandedJobCostsAFault RepeatedSyncIsExplained
PROPERTY JobEnds
CHECK_DEADLOCK FALSE
