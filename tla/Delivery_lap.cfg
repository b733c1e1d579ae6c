CONSTANTS
    Size = 4
    Launches = {1, 2}
    Values = {0, 1}
    ChainMax = 2
    Aggregate = 1
    Unwritten = Unwritten
    Rewinds = TRUE
    WorkMax = 3
SPECIFICATION DeliverySpec
INVARIANT TrustedPastTheFirstLap
