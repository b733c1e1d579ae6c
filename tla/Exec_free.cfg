CONSTANTS
    N = 2
    Values = {0, 1}
    ChainMax = 2
    HeldMax = 1
    ValueMax = 3
SPECIFICATION FreeSpec
PROPERTIES NothingWritesFreed
CHECK_DEADLOCK FALSE
