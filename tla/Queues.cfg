CONSTANTS
    Entries = 4
    StagedMax = 3
    TokenMax = 2
    CmdRoom = 3
    RingModes = {FALSE, TRUE}
    BatchMax = 5
    Size = 3
    Launches = {1, 2}
    Values = {0, 1}
    ChainMax = 2
    Aggregate = 1
    Unwritten = Unwritten
    Rewinds = TRUE
    WorkMax = 3
SPECIFICATION MCSpec
INVARIANTS NoLostDoorbell LastDeliveredHonest
PROPERTIES DoesTheWorkInOrder EveryCallReturns EngineReadsWhatWasBuilt
