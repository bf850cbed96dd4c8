\* Three transactions, in the same block or in successive ones, on a V2 or a V3
\* pool, with failing calls and saves and a request that comes at any time.
SPECIFICATION Spec
CONSTANTS
    MaxTx = 3
    Deltas <- MCDeltas
    MaxReserve = 6
    FirstReserve = 2
    SyncFirst = FALSE
    StoreMayFail = TRUE
    Requests = {r1, r2}
    NoState = NoState
INVARIANTS
    TypeOK
    LocalTracksChain
    PoolStateComesFromChain
    StoreKeepsUp
SYMMETRY RequestSymmetry
\* every transaction handled
CHECK_DEADLOCK FALSE
