CONSTANTS
    Covers <- MCCovers
    HugeLevels = 3
    VaPages = 8
    DataFrames = {0, 1, 2, 3, 4}
    PoolFrames = {9}
    HostFrames = {7}
    TablePages = 4
    Sizes = {1, 3, 4}
    MaxHeld = 3
    Guests = {"g", "h"}
    GuestObjects <- MCObjects
    MapLengths = {0, 2, 4}
    MaxMaps = 2
    MaxPieces = 2
    GuestTables = 4
    Size = 17
    Requests = {1, 9}
    Aligns = {1, 4}
    LV2_COUNT = 4
    LV2_BITS = 3
    MinBlock = 2
    SlabPages = 4
    MinSlabPages = 2
    MaxSlabs = 2
    PoolRequests = {1, 2, 5}
    SegmentCaps = {1, 2, 5}
SPECIFICATION MCSpec
INVARIANTS MapsWhatItSays ReachesOnlyItsOwn FreshRangesLookFree GuestReachesWhatIsRecorded
INVARIANTS HeapSound RefusedOnlyWhenFull PoolSound
PROPERTY KeepsAllocatorsPromises
CHECK_DEADLOCK FALSE
