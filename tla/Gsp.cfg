CONSTANTS
    Slots = 3
    Units = 2
    Calls <- MCCalls
    Replies = {1, 2, 3}
    MaxBehind = 1
    Clients = {"a", "b"}
    Handles = {"client", "device"}
    Parent <- MCParent
    None = "none"
    MaxCalls = 4
    MaxEvents = 1
    VramSize = 3145728
    ImageSizes = {15513, 16384, 16385}
    BootBinSizes = {49, 256}
    Attempts = 2
    MaxProcs = 2
    MaxFaults = 2
    Publishers = {"p", "q"}
    SeqStart = 4
    Tries = 2
    MaxUpdates = 3
SPECIFICATION MCSpec
INVARIANTS RecordComplete SweepLeavesNothing NamedWhatIsThere OnlyAFaultCostsABoot PublishedIsWhole
PROPERTIES MessagesArrive CallsEnd ReleasedOutOfReach ColdBeforeBoot
CHECK_DEADLOCK FALSE
