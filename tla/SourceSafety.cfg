\* Blocks 0..2 are replayed in chunks of two while blocks are mined, replaced and
\* followed over a connection that breaks, with room for one event.
SPECIFICATION Spec
CONSTANTS
    MaxBlock = 2
    Backfill = 2
    ChunkSize = 2
    Capacity = 1
    BaseRetry = 1
INVARIANTS
    TypeOK
    LiveIsRelayed
    BackfillCoversRange
\* a dropped source ends
CHECK_DEADLOCK FALSE
