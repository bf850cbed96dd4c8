\* A new pool and pools that are older than the listener, with positions above,
\* around and below the price, and four transactions of every kind.
SPECIFICATION Spec
CONSTANTS
    Ticks <- MCTicks
    MaxLiquidity = 2
    MaxBalance = 6
    MaxReserve = 6
    MaxEvents = 4
    NoTick = NoTick
INVARIANTS
    TypeOK
    GrossFollowsChain
    NetNeverTooLow
    LiquidityGapIsOffRange
    ReserveGapIsBurns
    NothingRefusedWithoutBurn
\* no more transactions
CHECK_DEADLOCK FALSE
