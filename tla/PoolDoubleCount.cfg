\* The order of a pair's own logs: Sync before the Swap, Mint or Burn.
SPECIFICATION Spec
CONSTANTS
    MaxTx = 2
    Deltas <- MCDeltas
    MaxReserve = 6
    FirstReserve = 2
    SyncFirst = TRUE
    StoreMayFail = FALSE
    Requests = {}
    NoState = NoState
INVARIANT LocalTracksChain
CHECK_DEADLOCK FALSE
