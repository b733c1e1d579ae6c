CONSTANTS
    SEGMENTS = 2
    DescSize = 5
    CmdSize = 2
    DescAlign = 2
    DescRequests = {1, 2}
    CmdRequests = {1}
    Size <- MCSize
    Align <- MCAlign
    Requests <- MCRequests
    ChainMax = 2
    RebaseAt = 3
    Ceiling = 5
SPECIFICATION LiveSpec
INVARIANTS TypeOK LiveSpansDisjoint ReachedMeansDone RecordsCoverLive RecordsBehindTimeline RefusedOnlyAfterAbandon
PROPERTIES HandsOutFreeBytes SlotsNeverGoBack EveryWaitEnds
