------------------------------- MODULE V3Pool -------------------------------
(***************************************************************************)
(* The state PancakeV3PoolState keeps of one concentrated-liquidity pool,  *)
(* next to the pool contract it follows.                                   *)
(*                                                                         *)
(* The contract is outside the repository.  What is kept of it is what its *)
(* events and the calls of onchain.rs show: positions over tick ranges, the*)
(* active liquidity, the tick, the liquidity by tick, the token balances   *)
(* and what it owes to positions.  Its geometry is the simplest one that   *)
(* has ranges above, around and below the price: a unit of liquidity is    *)
(* worth one token0 for each tick above the price and one token1 for each  *)
(* tick below.  A Burn moves no token, it only adds to what is owed; the   *)
(* Collect pays out.                                                       *)
(*                                                                         *)
(* Each event reaches the handler once and in order (module PoolSync), so  *)
(* a step here is a transaction together with handle_event for its event.  *)
(* sqrt_price_x96 and tick are set together everywhere: tick is both.      *)
(***************************************************************************)
EXTENDS Integers, Functions, FiniteSetsExt

CONSTANTS
    Ticks,         \* ticks a position can start or end at, and the price be at
    MaxLiquidity,  \* bound: the liquidity of a tick
    MaxBalance,    \* bound: tokens in the pool
    MaxReserve,    \* the largest u128
    MaxEvents,     \* bound: transactions
    NoTick         \* the pool is not initialised: no tick, a price of zero

ASSUME V3Assumption ==
    /\ Ticks \subseteq Int
    /\ MaxLiquidity \in Nat
    /\ MaxBalance \in Nat
    /\ MaxReserve \in Nat
    /\ MaxBalance <= MaxReserve
    /\ MaxEvents \in Nat
    /\ NoTick \notin Ticks

Ranges    == {r \in Ticks \X Ticks : r[1] < r[2]}
Liquidity == 0..MaxLiquidity
Nets      == -MaxLiquidity..MaxLiquidity
Balances  == 0..MaxBalance
Reserves  == 0..MaxReserve
Amounts   == [a0 : Balances, a1 : Balances]

VARIABLES
    cTick,       \* contract: slot0
    cLiquidity,  \* contract: liquidity active at the price
    cGross,      \* contract: liquidity that starts or ends at each tick
    cNet,        \* contract: what crossing each tick upwards adds
    positions,   \* contract: liquidity of each range
    owed,        \* contract: what each range can collect
    balance,     \* contract: its token balances
    state,       \* the pool's snapshot in the repository
    fromStart,   \* history: followed since before its first Mint
    events,      \* history: how many events there were
    burnSeen,    \* history: there was a Burn
    burnt,       \* history: the amounts of the Burns that were applied
    offRange,    \* history: liquidity minted less liquidity burned away from
                 \* the price, since the last Swap that was applied
    dropped,     \* history: an event was refused
    swallowed    \* history: a Collect failed and said nothing

contract == <<cTick, cLiquidity, cGross, cNet, positions, owed, balance>>
history  == <<fromStart, events, burnSeen, burnt, offRange, dropped, swallowed>>
vars     == <<contract, state, history>>

TickInfo == [gross : Nat, net : Nat]

(* ticks: the HashMap has an entry for the ticks it has seen in a Mint *)
PoolState ==
    [tick : Ticks \cup {NoTick}, liquidity : Nat, reserve0 : Reserves, reserve1 : Reserves,
     seen : SUBSET Ticks, ticks : [Ticks -> TickInfo], fees0 : Nat, fees1 : Nat]

TypeOK ==
    /\ cTick \in Ticks \cup {NoTick}
    /\ cLiquidity \in Liquidity
    /\ cGross \in [Ticks -> Liquidity] /\ cNet \in [Ticks -> Nets]
    /\ positions \in [Ranges -> Liquidity]
    /\ owed \in [Ranges -> Amounts]
    /\ balance \in Amounts
    /\ state \in PoolState
    /\ fromStart \in BOOLEAN /\ events \in Nat /\ burnSeen \in BOOLEAN
    /\ burnt \in [a0 : Nat, a1 : Nat]
    /\ offRange \in Int /\ dropped \in BOOLEAN /\ swallowed \in BOOLEAN

-----------------------------------------------------------------------------
(* Amounts, and what a position is worth *)

Plus(a, b)  == [a0 |-> a.a0 + b.a0, a1 |-> a.a1 + b.a1]
Minus(a, b) == [a0 |-> a.a0 - b.a0, a1 |-> a.a1 - b.a1]

Clamp(x, r) == IF x < r[1] THEN r[1] ELSE IF x > r[2] THEN r[2] ELSE x

Worth(r, liquidity, tick) ==
    [a0 |-> liquidity * (r[2] - Clamp(tick, r)), a1 |-> liquidity * (Clamp(tick, r) - r[1])]

InRange(tick, r) == r[1] <= tick /\ tick < r[2]

AllWorth(ps, tick) ==
    [a0 |-> MapThenSumSet(LAMBDA r : Worth(r, ps[r], tick).a0, Ranges),
     a1 |-> MapThenSumSet(LAMBDA r : Worth(r, ps[r], tick).a1, Ranges)]

ActiveAt(ps, tick) ==
    MapThenSumSet(LAMBDA r : ps[r], {r \in Ranges : InRange(tick, r)})

GrossAt(ps, t) == MapThenSumSet(LAMBDA r : ps[r], {r \in Ranges : t \in {r[1], r[2]}})

NetAt(ps, t) ==
    MapThenSumSet(LAMBDA r : ps[r], {r \in Ranges : t = r[1]})
    - MapThenSumSet(LAMBDA r : ps[r], {r \in Ranges : t = r[2]})

-----------------------------------------------------------------------------
(* The snapshot to begin with *)

None == [a0 |-> 0, a1 |-> 0]
One  == [a0 |-> 1, a1 |-> 1]

NothingOwed == [r \in Ranges |-> None]

(* at most one of the positions has something to collect *)
OwedOnce ==
    {o \in [Ranges -> {None, One} \cap Amounts] :
        \A q, r \in Ranges : o[q] = One /\ o[r] = One => q = r}

AllOwed ==
    [a0 |-> MapThenSumSet(LAMBDA r : owed[r].a0, Ranges),
     a1 |-> MapThenSumSet(LAMBDA r : owed[r].a1, Ranges)]

Untouched == [t \in Ticks |-> [gross |-> 0, net |-> 0]]

(* PancakeV3PoolState::new *)
NewState ==
    [tick |-> NoTick, liquidity |-> 0, reserve0 |-> 0, reserve1 |-> 0,
     seen |-> {}, ticks |-> Untouched, fees0 |-> 0, fees1 |-> 0]

(* fetch_v3_snapshot_at: slot0, liquidity and balances, and no ticks *)
FetchedState ==
    [NewState EXCEPT !.tick = cTick, !.liquidity = cLiquidity,
                     !.reserve0 = balance.a0, !.reserve1 = balance.a1]

InitNewPool ==
    /\ cTick = NoTick /\ cLiquidity = 0
    /\ cGross = [t \in Ticks |-> 0] /\ cNet = [t \in Ticks |-> 0]
    /\ positions = [r \in Ranges |-> 0]
    /\ owed = NothingOwed
    /\ balance = None
    /\ fromStart = TRUE
    /\ state = NewState

InitOldPool ==
    /\ cTick \in Ticks
    /\ positions \in [Ranges -> Liquidity]
    /\ cLiquidity = ActiveAt(positions, cTick) /\ cLiquidity \in Liquidity
    /\ cGross = [t \in Ticks |-> GrossAt(positions, t)] /\ cGross \in [Ticks -> Liquidity]
    /\ cNet = [t \in Ticks |-> NetAt(positions, t)] /\ cNet \in [Ticks -> Nets]
    /\ owed \in OwedOnce
    /\ balance = Plus(AllWorth(positions, cTick), AllOwed) /\ balance \in Amounts
    /\ fromStart = FALSE
    /\ state = FetchedState

Init ==
    /\ InitNewPool \/ InitOldPool
    /\ events = 0 /\ burnSeen = FALSE /\ burnt = None /\ offRange = 0
    /\ dropped = FALSE /\ swallowed = FALSE

-----------------------------------------------------------------------------
(* update_from_event: the set of states an event can lead to, empty when it *)
(* is refused; the handler keeps nothing of a refused event                 *)

SaturatingSub(x, y) == IF x < y THEN 0 ELSE x - y
SaturatingAdd(x, y) == IF x + y > MaxReserve THEN MaxReserve ELSE x + y

UpdateTickGrossOnly(s, tick, liquidity, side) ==          \* faulty
    [s EXCEPT !.seen = @ \cup {tick}, !.ticks[tick].gross = @ + liquidity]

UpdateTick(s, tick, liquidity, side) ==
    LET info == s.ticks[tick]
        new  == [gross |-> info.gross + liquidity,
                 net   |-> IF side = "lower" THEN info.net + liquidity
                           ELSE SaturatingSub(info.net, liquidity)]
    IN [s EXCEPT !.seen = @ \cup {tick}, !.ticks = [@ EXCEPT ![tick] = new]]

UpdateTickBurnMirrored(s, tick, liquidity, side) ==       \* faulty
    IF tick \notin s.seen THEN s ELSE
    LET info == s.ticks[tick]
        new  == [gross |-> info.gross + liquidity,
                 net   |-> SaturatingSub(info.net, liquidity)]
    IN [s EXCEPT !.ticks = [@ EXCEPT ![tick] = new]]

(* a tick the HashMap has no entry for is left alone *)
UpdateTickBurn(s, tick, liquidity, side) ==
    IF tick \notin s.seen THEN s ELSE
    LET info == s.ticks[tick]
        new  == [gross |-> SaturatingSub(info.gross, liquidity),
                 net   |-> IF side = "lower" THEN SaturatingSub(info.net, liquidity)
                           ELSE info.net + liquidity]
    IN [s EXCEPT !.ticks = [@ EXCEPT ![tick] = new]]

FitsU128(a) == a.a0 \in Reserves /\ a.a1 \in Reserves

AddReserve(s, a) ==
    [s EXCEPT !.reserve0 = SaturatingAdd(@, a.a0), !.reserve1 = SaturatingAdd(@, a.a1)]

Covers(s, a) == a.a0 <= s.reserve0 /\ a.a1 <= s.reserve1

SubReserve(s, a) == [s EXCEPT !.reserve0 = @ - a.a0, !.reserve1 = @ - a.a1]

(* what sub_reserve leaves behind when it fails: token0 comes first *)
SubReserveFailed(s, a) ==
    IF FitsU128(a) /\ a.a0 <= s.reserve0 THEN [s EXCEPT !.reserve0 = @ - a.a0] ELSE s

OnInitialize(s, tick) == {[s EXCEPT !.tick = tick]}

OnMint(s, r, liquidity, a) ==
    LET ticked == UpdateTick(UpdateTick([s EXCEPT !.liquidity = @ + liquidity],
                                        r[1], liquidity, "lower"), r[2], liquidity, "upper")
    IN IF FitsU128(a) THEN {AddReserve(ticked, a)} ELSE {}

OnBurn(s, r, liquidity, a) ==
    LET ticked == UpdateTickBurn(UpdateTickBurn([s EXCEPT !.liquidity = @ - liquidity],
                                                r[1], liquidity, "lower"), r[2], liquidity, "upper")
    IN IF liquidity <= s.liquidity /\ FitsU128(a) /\ Covers(s, a)
       THEN {SubReserve(ticked, a)} ELSE {}

(* adjust_reserve_signed *)
Adjustable(reserve, amount) ==
    IF amount < 0 THEN reserve + amount \in Reserves ELSE amount \in Reserves

AdjustedInverted(reserve, amount) == reserve - amount        \* faulty

Adjusted(reserve, amount) ==
    IF amount < 0 THEN reserve + amount ELSE SaturatingAdd(reserve, amount)

AdjustReserve(s, a) ==
    [s EXCEPT !.reserve0 = Adjusted(@, a.a0), !.reserve1 = Adjusted(@, a.a1)]

OnSwapTickOnly(s, a, tick, liquidity) ==                     \* faulty
    IF Adjustable(s.reserve0, a.a0) /\ Adjustable(s.reserve1, a.a1)
    THEN {[AdjustReserve(s, a) EXCEPT !.tick = tick]} ELSE {}

OnSwap(s, a, tick, liquidity) ==
    IF Adjustable(s.reserve0, a.a0) /\ Adjustable(s.reserve1, a.a1)
    THEN {[AdjustReserve(s, a) EXCEPT !.tick = tick, !.liquidity = liquidity]} ELSE {}

CollectCovered(s, a) == FitsU128(a) /\ Covers(s, a)

(* never refused: when sub_reserve fails there is only a warning *)
OnCollect(s, a) ==
    {IF CollectCovered(s, a)
     THEN [SubReserve(s, a) EXCEPT !.fees0 = @ + a.a0, !.fees1 = @ + a.a1]
     ELSE SubReserveFailed(s, a)}

-----------------------------------------------------------------------------
(* Transactions, and the handling of their events *)

Emit == events < MaxEvents /\ events' = events + 1 /\ UNCHANGED fromStart

Refused(updates) == updates = {}

Handle(updates) ==
    /\ IF Refused(updates) THEN UNCHANGED state ELSE state' \in updates
    /\ dropped' = (dropped \/ Refused(updates))

Initialize(tick) ==
    /\ cTick = NoTick
    /\ cTick' = tick
    /\ Emit /\ Handle(OnInitialize(state, tick))
    /\ UNCHANGED <<cLiquidity, cGross, cNet, positions, owed, balance>>
    /\ UNCHANGED <<burnSeen, burnt, offRange, swallowed>>

(* the contract's part of a Mint (sign = 1) and of a Burn (sign = -1) *)
ModifyPosition(r, change) ==
    /\ cTick # NoTick
    /\ positions' = [positions EXCEPT ![r] = @ + change]
    /\ cGross' = [cGross EXCEPT ![r[1]] = @ + change, ![r[2]] = @ + change]
    /\ cNet' = [cNet EXCEPT ![r[1]] = @ + change, ![r[2]] = @ - change]
    /\ cLiquidity' = (IF InRange(cTick, r) THEN cLiquidity + change ELSE cLiquidity)
    /\ positions'[r] \in Liquidity /\ cLiquidity' \in Liquidity
    /\ \A t \in {r[1], r[2]} : cGross'[t] \in Liquidity /\ cNet'[t] \in Nets
    /\ UNCHANGED cTick

Strayed(r, change) == IF InRange(cTick, r) THEN offRange ELSE offRange + change

Mint(r, liquidity) ==
    LET a == Worth(r, liquidity, cTick)
        updates == OnMint(state, r, liquidity, a)
    IN /\ ModifyPosition(r, liquidity)
       /\ a \in Amounts
       /\ balance' = Plus(balance, a) /\ balance' \in Amounts
       /\ UNCHANGED owed
       /\ Emit /\ Handle(updates)
       /\ offRange' = (IF Refused(updates) THEN offRange ELSE Strayed(r, liquidity))
       /\ UNCHANGED <<burnSeen, burnt, swallowed>>

Burn(r, liquidity) ==
    LET a == Worth(r, liquidity, cTick)
        updates == OnBurn(state, r, liquidity, a)
    IN /\ ModifyPosition(r, -liquidity)
       /\ a \in Amounts
       /\ owed' = [owed EXCEPT ![r] = Plus(@, a)] /\ owed'[r] \in Amounts
       /\ UNCHANGED balance
       /\ Emit /\ Handle(updates)
       /\ offRange' = (IF Refused(updates) THEN offRange ELSE Strayed(r, -liquidity))
       /\ burnt' = (IF Refused(updates) THEN burnt ELSE Plus(burnt, a))
       /\ burnSeen' = TRUE
       /\ UNCHANGED swallowed

(* to the price at another tick, for a fee in the token that comes in *)
Swap(tick, fee) ==
    LET moved == Minus(AllWorth(positions, tick), AllWorth(positions, cTick))
        paid  == IF tick < cTick THEN [a0 |-> fee, a1 |-> 0] ELSE [a0 |-> 0, a1 |-> fee]
        a     == Plus(moved, paid)
        updates == OnSwap(state, a, tick, ActiveAt(positions, tick))
    IN /\ cTick # NoTick /\ tick # cTick
       /\ cTick' = tick
       /\ cLiquidity' = ActiveAt(positions, tick) /\ cLiquidity' \in Liquidity
       /\ a.a0 \in -MaxBalance..MaxBalance /\ a.a1 \in -MaxBalance..MaxBalance
       /\ balance' = Plus(balance, a) /\ balance' \in Amounts
       /\ \E r \in Ranges :
             /\ InRange(cTick, r)
             /\ owed' = [owed EXCEPT ![r] = Plus(@, paid)] /\ owed'[r] \in Amounts
       /\ UNCHANGED <<cGross, cNet, positions>>
       /\ Emit /\ Handle(updates)
       /\ offRange' = (IF Refused(updates) THEN offRange ELSE 0)
       /\ UNCHANGED <<burnSeen, burnt, swallowed>>

Collect(r) ==
    LET a == owed[r] IN
    /\ owed' = [owed EXCEPT ![r] = None]
    /\ balance' = Minus(balance, a) /\ balance' \in Amounts
    /\ UNCHANGED <<cTick, cLiquidity, cGross, cNet, positions>>
    /\ Emit /\ Handle(OnCollect(state, a))
    /\ swallowed' = (swallowed \/ ~CollectCovered(state, a))
    /\ UNCHANGED <<burnSeen, burnt, offRange>>

Next ==
    \/ \E tick \in Ticks : Initialize(tick)
    \/ \E r \in Ranges, liquidity \in Liquidity \ {0} : Mint(r, liquidity)
    \/ \E r \in Ranges, liquidity \in Liquidity \ {0} : Burn(r, liquidity)
    \/ \E tick \in Ticks, fee \in {0, 1} : Swap(tick, fee)
    \/ \E r \in Ranges : Collect(r)

Spec == Init /\ [][Next]_vars

-----------------------------------------------------------------------------
(* Properties *)

(* The gross liquidity of each tick of a pool followed from its first Mint  *)
(* is the contract's (update_tick, update_tick_burn); of a pool that began  *)
(* with a fetched snapshot, which has no ticks, it is never more.  An event *)
(* that is refused leaves no trace in the ticks.                            *)
GrossFollowsChain ==
    ~dropped => \A t \in Ticks :
        /\ state.ticks[t].gross <= cGross[t]
        /\ fromStart => state.ticks[t].gross = cGross[t]

(* The net liquidity of a tick saturates at zero where the contract's is    *)
(* negative, so it is right or too high: it never hides liquidity that      *)
(* enters at a tick (update_tick, update_tick_burn).                        *)
NetNeverTooLow ==
    (fromStart /\ ~dropped) => \A t \in Ticks : state.ticks[t].net >= cNet[t]

(* The active liquidity is the contract's plus what was minted less what    *)
(* was burned away from the price since the last Swap, and nothing else:    *)
(* each Swap makes it good (Mint, Burn and Swap in update_from_event).      *)
LiquidityGapIsOffRange == ~dropped => state.liquidity = cLiquidity + offRange

(* The reserves are the contract's balances less what Burns have taken from *)
(* them: a Burn moves no token, and its Collect takes the amounts again.    *)
ReserveGapIsBurns ==
    (~dropped /\ ~swallowed) =>
        /\ state.reserve0 + burnt.a0 = balance.a0
        /\ state.reserve1 + burnt.a1 = balance.a1

(* Without a Burn no event is refused or swallowed: whatever the Mints,     *)
(* Swaps and Collects, the reserves cover what goes out and the price is    *)
(* the contract's (sub_reserve, adjust_reserve_signed).                     *)
NothingRefusedWithoutBurn ==
    ~burnSeen => ~dropped /\ ~swallowed /\ state.tick = cTick
=============================================================================
