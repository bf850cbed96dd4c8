\* One block, which may be replaced: three events for room for one.
SPECIFICATION ReachableSpec
CONSTANTS
    MaxBlock = 1
    Backfill = 1
    ChunkSize = 1
    Capacity = 1
    BaseRetry = 1
PROPERTIES
    BackfillStops
    WsStopsUnlessSilent
    SubscribesAgain
\* a dropped source ends
CHECK_DEADLOCK FALSE
