CONSTANTS
    Slots = 4
    Units = 2
    Calls <- MCCalls
    Replies = {1, 3}
    MaxBehind = 0
    Clients = {"a", "b"}
    Handles = {"client", "device"}
    Parent <- MCParent
    None = "none"
    MaxCalls = 3
    MaxEvents = 1
    VramSize = 3145728
    ImageSizes = {15513, 16384, 16385}
    BootBinSizes = {49, 256}
    Attempts = 2
    MaxProcs = 2
    MaxFaults = 2
    Publishers = {"p", "q"}
    SeqStart = 4
    Tries = 2
    MaxUpdates = 3
SPECIFICATION MCSpec
PROPERTY AnswersAreItsOwn
CHECK_DEADLOCK FALSE
