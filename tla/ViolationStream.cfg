SPECIFICATION FairStreamSpec
CONSTANTS
    Runs = {"r1", "r2"}
    Found <- FoundByTwo
    Invalid = {"d"}
    SendBatch = 2
    MaxPoll = 2
    BatchSize = 2
    MaxFaults = 1
    MaxSignals = 1
INVARIANTS RepetitionCostsAFault CountedLossCostsAFault
PROPERTY MessageIsStored
CHECK_DEADLOCK FALSE
