---------------------------- MODULE V3PoolProofs ----------------------------
(***************************************************************************)
(* Proofs about V3Pool, for any ticks, bounds and number of transactions.  *)
(* The five invariants are inductive together once two facts are added: a  *)
(* tick without an entry has no liquidity, and without a Burn none of the  *)
(* amounts is one of a Burn.                                               *)
(***************************************************************************)
EXTENDS V3Pool, TLAPS

UnseenIsEmpty == \A t \in Ticks : t \notin state.seen => state.ticks[t].gross = 0

NoBurnNoAmount == ~burnSeen => burnt = None

IInv ==
    /\ TypeOK
    /\ UnseenIsEmpty
    /\ NoBurnNoAmount
    /\ GrossFollowsChain
    /\ NetNeverTooLow
    /\ LiquidityGapIsOffRange
    /\ ReserveGapIsBurns
    /\ NothingRefusedWithoutBurn

-----------------------------------------------------------------------------
(* What update_from_event does to a state, field by field *)

LEMMA RangeTicks ==
    ASSUME NEW r \in Ranges
    PROVE  r[1] \in Ticks /\ r[2] \in Ticks /\ r[1] # r[2] /\ r[1] \in Int /\ r[2] \in Int
<1>1. r \in Ticks \X Ticks /\ r[1] < r[2]
  BY DEF Ranges
<1>2. r[1] \in Ticks /\ r[2] \in Ticks
  BY <1>1
<1>3. r[1] \in Int /\ r[2] \in Int
  BY <1>2, V3Assumption
<1> QED
  BY <1>1, <1>2, <1>3

(* n is s with another entry for tick t, which has one from now on.         *)
EntrySet(s, n, t, gross, net) ==
    /\ n \in PoolState
    /\ n.tick = s.tick /\ n.liquidity = s.liquidity
    /\ n.reserve0 = s.reserve0 /\ n.reserve1 = s.reserve1
    /\ n.seen = s.seen \cup {t}
    /\ \A u \in Ticks \ {t} : n.ticks[u] = s.ticks[u]
    /\ n.ticks[t].gross = gross /\ n.ticks[t].net = net

LEMMA SetEntry ==
    ASSUME NEW s \in PoolState, NEW t \in Ticks, NEW info \in TickInfo
    PROVE  EntrySet(s, [s EXCEPT !.seen = @ \cup {t}, !.ticks = [@ EXCEPT ![t] = info]],
                    t, info.gross, info.net)
<1> DEFINE ts == [s.ticks EXCEPT ![t] = info]
           n  == [s EXCEPT !.seen = @ \cup {t}, !.ticks = ts]
<1>1. ts \in [Ticks -> TickInfo] /\ ts[t] = info /\ \A u \in Ticks \ {t} : ts[u] = s.ticks[u]
  BY DEF PoolState
<1> HIDE DEF ts
<1>2. /\ n \in PoolState
      /\ n.tick = s.tick /\ n.liquidity = s.liquidity
      /\ n.reserve0 = s.reserve0 /\ n.reserve1 = s.reserve1
      /\ n.seen = s.seen \cup {t} /\ n.ticks = ts
  BY <1>1 DEF PoolState
<1>3. EntrySet(s, n, t, info.gross, info.net)
  BY <1>1, <1>2 DEF EntrySet
<1> QED
  BY <1>3 DEF ts

LEMMA InfoType ==
    ASSUME NEW s \in PoolState, NEW t \in Ticks
    PROVE  s.ticks[t] \in TickInfo /\ s.ticks[t].gross \in Nat /\ s.ticks[t].net \in Nat
BY DEF PoolState, TickInfo

(* update_tick changes the entry of its tick only, and makes it if need be. *)
LEMMA UpdateTickLower ==
    ASSUME NEW s \in PoolState, NEW t \in Ticks, NEW l \in Nat
    PROVE  EntrySet(s, UpdateTick(s, t, l, "lower"), t,
                    s.ticks[t].gross + l, s.ticks[t].net + l)
<1> DEFINE info == [gross |-> s.ticks[t].gross + l, net |-> s.ticks[t].net + l]
<1>1. info \in TickInfo
  BY InfoType DEF TickInfo
<1>2. UpdateTick(s, t, l, "lower")
        = [s EXCEPT !.seen = @ \cup {t}, !.ticks = [@ EXCEPT ![t] = info]]
  BY DEF UpdateTick
<1>3. info.gross = s.ticks[t].gross + l /\ info.net = s.ticks[t].net + l
  OBVIOUS
<1> HIDE DEF info
<1>4. EntrySet(s, UpdateTick(s, t, l, "lower"), t, info.gross, info.net)
  BY <1>1, <1>2, SetEntry
<1> QED
  BY <1>3, <1>4

LEMMA UpdateTickUpper ==
    ASSUME NEW s \in PoolState, NEW t \in Ticks, NEW l \in Nat
    PROVE  EntrySet(s, UpdateTick(s, t, l, "upper"), t,
                    s.ticks[t].gross + l, SaturatingSub(s.ticks[t].net, l))
<1> DEFINE info == [gross |-> s.ticks[t].gross + l, net |-> SaturatingSub(s.ticks[t].net, l)]
<1>1. info \in TickInfo
  BY InfoType DEF TickInfo, SaturatingSub
<1>2. UpdateTick(s, t, l, "upper")
        = [s EXCEPT !.seen = @ \cup {t}, !.ticks = [@ EXCEPT ![t] = info]]
  BY DEF UpdateTick
<1>3. info.gross = s.ticks[t].gross + l /\ info.net = SaturatingSub(s.ticks[t].net, l)
  OBVIOUS
<1> HIDE DEF info
<1>4. EntrySet(s, UpdateTick(s, t, l, "upper"), t, info.gross, info.net)
  BY <1>1, <1>2, SetEntry
<1> QED
  BY <1>3, <1>4

(* update_tick_burn changes the entry of its tick only, if there is one.    *)
EntryIfAny(s, n, t, gross, net) ==
    IF t \in s.seen THEN EntrySet(s, n, t, gross, net) ELSE n = s

LEMMA UpdateTickBurnLower ==
    ASSUME NEW s \in PoolState, NEW t \in Ticks, NEW l \in Nat
    PROVE  EntryIfAny(s, UpdateTickBurn(s, t, l, "lower"), t,
                      SaturatingSub(s.ticks[t].gross, l), SaturatingSub(s.ticks[t].net, l))
<1>1. CASE t \notin s.seen
  BY <1>1 DEF UpdateTickBurn, EntryIfAny
<1>2. CASE t \in s.seen
  <2> DEFINE info == [gross |-> SaturatingSub(s.ticks[t].gross, l),
                      net   |-> SaturatingSub(s.ticks[t].net, l)]
  <2>1. info \in TickInfo
    BY InfoType DEF TickInfo, SaturatingSub
  <2>2. UpdateTickBurn(s, t, l, "lower") = [s EXCEPT !.ticks = [@ EXCEPT ![t] = info]]
    BY <1>2 DEF UpdateTickBurn
  <2>3. /\ info.gross = SaturatingSub(s.ticks[t].gross, l)
        /\ info.net = SaturatingSub(s.ticks[t].net, l)
    OBVIOUS
  <2> HIDE DEF info
  <2>4. s.seen \cup {t} = s.seen
    BY <1>2
  <2>5. [s EXCEPT !.seen = @ \cup {t}, !.ticks = [@ EXCEPT ![t] = info]]
          = [s EXCEPT !.ticks = [@ EXCEPT ![t] = info]]
    BY <2>4 DEF PoolState
  <2>6. EntrySet(s, [s EXCEPT !.seen = @ \cup {t}, !.ticks = [@ EXCEPT ![t] = info]],
                 t, info.gross, info.net)
    BY <2>1, SetEntry
  <2>7. EntrySet(s, UpdateTickBurn(s, t, l, "lower"), t, info.gross, info.net)
    BY <2>2, <2>5, <2>6
  <2> QED
    BY <1>2, <2>3, <2>7 DEF EntryIfAny
<1> QED
  BY <1>1, <1>2

LEMMA UpdateTickBurnUpper ==
    ASSUME NEW s \in PoolState, NEW t \in Ticks, NEW l \in Nat
    PROVE  EntryIfAny(s, UpdateTickBurn(s, t, l, "upper"), t,
                      SaturatingSub(s.ticks[t].gross, l), s.ticks[t].net + l)
<1>1. CASE t \notin s.seen
  BY <1>1 DEF UpdateTickBurn, EntryIfAny
<1>2. CASE t \in s.seen
  <2> DEFINE info == [gross |-> SaturatingSub(s.ticks[t].gross, l),
                      net   |-> s.ticks[t].net + l]
  <2>1. info \in TickInfo
    BY InfoType DEF TickInfo, SaturatingSub
  <2>2. UpdateTickBurn(s, t, l, "upper") = [s EXCEPT !.ticks = [@ EXCEPT ![t] = info]]
    BY <1>2 DEF UpdateTickBurn
  <2>3. /\ info.gross = SaturatingSub(s.ticks[t].gross, l)
        /\ info.net = s.ticks[t].net + l
    OBVIOUS
  <2> HIDE DEF info
  <2>4. s.seen \cup {t} = s.seen
    BY <1>2
  <2>5. [s EXCEPT !.seen = @ \cup {t}, !.ticks = [@ EXCEPT ![t] = info]]
          = [s EXCEPT !.ticks = [@ EXCEPT ![t] = info]]
    BY <2>4 DEF PoolState
  <2>6. EntrySet(s, [s EXCEPT !.seen = @ \cup {t}, !.ticks = [@ EXCEPT ![t] = info]],
                 t, info.gross, info.net)
    BY <2>1, SetEntry
  <2>7. EntrySet(s, UpdateTickBurn(s, t, l, "upper"), t, info.gross, info.net)
    BY <2>2, <2>5, <2>6
  <2> QED
    BY <1>2, <2>3, <2>7 DEF EntryIfAny
<1> QED
  BY <1>1, <1>2

(* A Mint whose amounts fit is applied whole.                               *)
MintedFrom(s, n, lo, hi, l, a) ==
    /\ n \in PoolState
    /\ n.tick = s.tick /\ n.liquidity = s.liquidity + l
    /\ n.reserve0 = SaturatingAdd(s.reserve0, a.a0)
    /\ n.reserve1 = SaturatingAdd(s.reserve1, a.a1)
    /\ n.seen = s.seen \cup {lo, hi}
    /\ \A u \in Ticks \ {lo, hi} : n.ticks[u] = s.ticks[u]
    /\ \A u \in {lo, hi} : n.ticks[u].gross = s.ticks[u].gross + l
    /\ n.ticks[lo].net = s.ticks[lo].net + l
    /\ n.ticks[hi].net = SaturatingSub(s.ticks[hi].net, l)

LEMMA OnMintFields ==
    ASSUME NEW s \in PoolState, NEW r \in Ranges, NEW l \in Nat, NEW a \in Amounts
    PROVE  /\ ~Refused(OnMint(s, r, l, a))
           /\ \A n \in OnMint(s, r, l, a) : MintedFrom(s, n, r[1], r[2], l, a)
<1> DEFINE m  == [s EXCEPT !.liquidity = @ + l]
           u1 == UpdateTick(m, r[1], l, "lower")
           u2 == UpdateTick(u1, r[2], l, "upper")
<1>1. r[1] \in Ticks /\ r[2] \in Ticks /\ r[1] # r[2]
  BY RangeTicks
<1>2. /\ m.tick = s.tick /\ m.liquidity = s.liquidity + l
      /\ m.reserve0 = s.reserve0 /\ m.reserve1 = s.reserve1
      /\ m.seen = s.seen /\ m.ticks = s.ticks
  BY DEF PoolState
<1>3. m \in PoolState
  BY DEF PoolState
<1>4. OnMint(s, r, l, a) = {AddReserve(u2, a)}
  <2>1. FitsU128(a)
    BY V3Assumption DEF FitsU128, Amounts, Balances, Reserves
  <2> QED
    BY <2>1 DEF OnMint
<1> HIDE DEF m
<1>5. EntrySet(m, u1, r[1], m.ticks[r[1]].gross + l, m.ticks[r[1]].net + l)
  BY <1>1, <1>3, UpdateTickLower
<1> HIDE DEF u1
<1>6. u1 \in PoolState
  BY <1>5 DEF EntrySet
<1>7. EntrySet(u1, u2, r[2], u1.ticks[r[2]].gross + l, SaturatingSub(u1.ticks[r[2]].net, l))
  BY <1>1, <1>6, UpdateTickUpper
<1> HIDE DEF u2
<1>8. /\ a.a0 \in Nat /\ a.a1 \in Nat
      /\ SaturatingAdd(u2.reserve0, a.a0) \in Reserves
      /\ SaturatingAdd(u2.reserve1, a.a1) \in Reserves
  <2>1. u2.reserve0 \in Reserves /\ u2.reserve1 \in Reserves
    BY <1>7 DEF PoolState, EntrySet
  <2> QED
    BY <2>1, V3Assumption DEF Amounts, Balances, Reserves, SaturatingAdd
<1>9. u2 \in PoolState
  BY <1>7 DEF EntrySet
<1>10. /\ AddReserve(u2, a) \in PoolState
       /\ AddReserve(u2, a).tick = u2.tick /\ AddReserve(u2, a).liquidity = u2.liquidity
       /\ AddReserve(u2, a).reserve0 = SaturatingAdd(u2.reserve0, a.a0)
       /\ AddReserve(u2, a).reserve1 = SaturatingAdd(u2.reserve1, a.a1)
       /\ AddReserve(u2, a).seen = u2.seen /\ AddReserve(u2, a).ticks = u2.ticks
  BY <1>8, <1>9 DEF AddReserve, PoolState
<1>11. MintedFrom(s, AddReserve(u2, a), r[1], r[2], l, a)
  BY <1>1, <1>2, <1>5, <1>7, <1>10 DEF EntrySet, MintedFrom
<1> QED
  BY <1>4, <1>11 DEF Refused

(* A Burn that is not refused takes its amounts from liquidity and reserves *)
(* and touches no tick but its own.                                         *)
BurnedFrom(s, n, lo, hi, l, a) ==
    /\ n \in PoolState
    /\ n.tick = s.tick /\ n.liquidity = s.liquidity - l
    /\ n.reserve0 = s.reserve0 - a.a0 /\ n.reserve1 = s.reserve1 - a.a1
    /\ n.seen = s.seen
    /\ \A u \in Ticks \ {lo, hi} : n.ticks[u] = s.ticks[u]
    /\ \A u \in {lo, hi} : u \notin s.seen => n.ticks[u] = s.ticks[u]
    /\ \A u \in {lo, hi} : u \in s.seen =>
          n.ticks[u].gross = SaturatingSub(s.ticks[u].gross, l)
    /\ lo \in s.seen => n.ticks[lo].net = SaturatingSub(s.ticks[lo].net, l)
    /\ hi \in s.seen => n.ticks[hi].net = s.ticks[hi].net + l

LEMMA OnBurnFields ==
    ASSUME NEW s \in PoolState, NEW r \in Ranges, NEW l \in Nat, NEW a \in Amounts,
           NEW n \in OnBurn(s, r, l, a)
    PROVE  BurnedFrom(s, n, r[1], r[2], l, a)
<1> DEFINE m  == [s EXCEPT !.liquidity = @ - l]
           u1 == UpdateTickBurn(m, r[1], l, "lower")
           u2 == UpdateTickBurn(u1, r[2], l, "upper")
<1>1. r[1] \in Ticks /\ r[2] \in Ticks /\ r[1] # r[2]
  BY RangeTicks
<1>2. l <= s.liquidity /\ Covers(s, a) /\ n = SubReserve(u2, a)
  BY DEF OnBurn
<1>3. /\ m.tick = s.tick /\ m.liquidity = s.liquidity - l
      /\ m.reserve0 = s.reserve0 /\ m.reserve1 = s.reserve1
      /\ m.seen = s.seen /\ m.ticks = s.ticks
  BY DEF PoolState
<1>4. m \in PoolState
  <2>1. s.liquidity - l \in Nat
    BY <1>2 DEF PoolState
  <2> QED
    BY <2>1 DEF PoolState
<1> HIDE DEF m
<1>5. EntryIfAny(m, u1, r[1], SaturatingSub(m.ticks[r[1]].gross, l),
                 SaturatingSub(m.ticks[r[1]].net, l))
  BY <1>1, <1>4, UpdateTickBurnLower
<1> HIDE DEF u1
<1>6. /\ u1 \in PoolState /\ u1.tick = m.tick /\ u1.liquidity = m.liquidity
      /\ u1.reserve0 = m.reserve0 /\ u1.reserve1 = m.reserve1 /\ u1.seen = m.seen
      /\ \A u \in Ticks \ {r[1]} : u1.ticks[u] = m.ticks[u]
      /\ r[1] \notin m.seen => u1.ticks = m.ticks
      /\ r[1] \in m.seen =>
            /\ u1.ticks[r[1]].gross = SaturatingSub(m.ticks[r[1]].gross, l)
            /\ u1.ticks[r[1]].net = SaturatingSub(m.ticks[r[1]].net, l)
  BY <1>4, <1>5 DEF EntryIfAny, EntrySet
<1>7. u1 \in PoolState
  BY <1>6
<1>8. EntryIfAny(u1, u2, r[2], SaturatingSub(u1.ticks[r[2]].gross, l), u1.ticks[r[2]].net + l)
  BY <1>1, <1>7, UpdateTickBurnUpper
<1> HIDE DEF u2
<1>9. /\ u2 \in PoolState /\ u2.tick = u1.tick /\ u2.liquidity = u1.liquidity
      /\ u2.reserve0 = u1.reserve0 /\ u2.reserve1 = u1.reserve1 /\ u2.seen = u1.seen
      /\ \A u \in Ticks \ {r[2]} : u2.ticks[u] = u1.ticks[u]
      /\ r[2] \notin u1.seen => u2.ticks = u1.ticks
      /\ r[2] \in u1.seen =>
            /\ u2.ticks[r[2]].gross = SaturatingSub(u1.ticks[r[2]].gross, l)
            /\ u2.ticks[r[2]].net = u1.ticks[r[2]].net + l
  BY <1>7, <1>8 DEF EntryIfAny, EntrySet
<1>10. u2 \in PoolState
  BY <1>9
<1>11. /\ u2.reserve0 - a.a0 \in Reserves /\ u2.reserve1 - a.a1 \in Reserves
  <2>1. /\ u2.reserve0 = s.reserve0 /\ u2.reserve1 = s.reserve1
        /\ s.reserve0 \in Reserves /\ s.reserve1 \in Reserves
    BY <1>3, <1>6, <1>9 DEF PoolState
  <2> QED
    BY <1>2, <2>1, V3Assumption DEF Amounts, Balances, Reserves, Covers
<1>12. /\ n \in PoolState /\ n.tick = u2.tick /\ n.liquidity = u2.liquidity
       /\ n.reserve0 = u2.reserve0 - a.a0 /\ n.reserve1 = u2.reserve1 - a.a1
       /\ n.seen = u2.seen /\ n.ticks = u2.ticks
  BY <1>2, <1>10, <1>11 DEF SubReserve, PoolState
<1> QED
  BY <1>1, <1>3, <1>6, <1>9, <1>12 DEF BurnedFrom

(* A Collect is never refused; it takes both amounts or, swallowed, at most *)
(* the first.                                                               *)
LEMMA OnCollectFields ==
    ASSUME NEW s \in PoolState, NEW a \in Amounts
    PROVE  /\ ~Refused(OnCollect(s, a))
           /\ \A n \in OnCollect(s, a) :
                /\ n \in PoolState
                /\ n.tick = s.tick /\ n.liquidity = s.liquidity
                /\ n.seen = s.seen /\ n.ticks = s.ticks
                /\ CollectCovered(s, a) =>
                      n.reserve0 = s.reserve0 - a.a0 /\ n.reserve1 = s.reserve1 - a.a1
<1>1. CASE CollectCovered(s, a)
  <2> DEFINE m == SubReserve(s, a)
             n == [m EXCEPT !.fees0 = @ + a.a0, !.fees1 = @ + a.a1]
  <2>1. /\ s.reserve0 - a.a0 \in Reserves /\ s.reserve1 - a.a1 \in Reserves
        /\ a.a0 \in Nat /\ a.a1 \in Nat
    BY <1>1, V3Assumption DEF CollectCovered, Covers, PoolState, Amounts, Balances, Reserves
  <2>2. OnCollect(s, a) = {n}
    BY <1>1 DEF OnCollect
  <2>3. /\ m \in PoolState /\ m.tick = s.tick /\ m.liquidity = s.liquidity
        /\ m.seen = s.seen /\ m.ticks = s.ticks
        /\ m.reserve0 = s.reserve0 - a.a0 /\ m.reserve1 = s.reserve1 - a.a1
    BY <2>1 DEF SubReserve, PoolState
  <2> HIDE DEF m
  <2>4. m.fees0 + a.a0 \in Nat /\ m.fees1 + a.a1 \in Nat /\ m \in PoolState
    BY <2>1, <2>3 DEF PoolState
  <2>5. /\ n \in PoolState /\ n.tick = m.tick /\ n.liquidity = m.liquidity
        /\ n.seen = m.seen /\ n.ticks = m.ticks
        /\ n.reserve0 = m.reserve0 /\ n.reserve1 = m.reserve1
    BY <2>4 DEF PoolState
  <2> QED
    BY <2>2, <2>3, <2>5 DEF Refused
<1>2. CASE ~CollectCovered(s, a)
  <2> DEFINE n == SubReserveFailed(s, a)
  <2>1. OnCollect(s, a) = {n}
    BY <1>2 DEF OnCollect
  <2>2. /\ n \in PoolState /\ n.tick = s.tick /\ n.liquidity = s.liquidity
        /\ n.seen = s.seen /\ n.ticks = s.ticks
    <3>1. CASE FitsU128(a) /\ a.a0 <= s.reserve0
      <4>1. s.reserve0 - a.a0 \in Reserves
        BY <3>1, V3Assumption DEF PoolState, Amounts, Balances, Reserves
      <4> QED
        BY <3>1, <4>1 DEF SubReserveFailed, PoolState
    <3>2. CASE ~(FitsU128(a) /\ a.a0 <= s.reserve0)
      BY <3>2 DEF SubReserveFailed
    <3> QED
      BY <3>1, <3>2
  <2> QED
    BY <1>2, <2>1, <2>2 DEF Refused
<1> QED
  BY <1>1, <1>2

(* A Swap that is not refused sets tick and liquidity; reserves that the    *)
(* amounts keep within a u128 are adjusted by them and never refuse it.     *)
SwappedFrom(s, n, t, l, a) ==
    /\ n \in PoolState
    /\ n.tick = t /\ n.liquidity = l /\ n.seen = s.seen /\ n.ticks = s.ticks
    /\ s.reserve0 + a.a0 <= MaxReserve => n.reserve0 = s.reserve0 + a.a0
    /\ s.reserve1 + a.a1 <= MaxReserve => n.reserve1 = s.reserve1 + a.a1

LEMMA OnSwapFields ==
    ASSUME NEW s \in PoolState, NEW t \in Ticks, NEW l \in Nat,
           NEW a, a.a0 \in -MaxBalance..MaxBalance, a.a1 \in -MaxBalance..MaxBalance
    PROVE  /\ \A n \in OnSwap(s, a, t, l) : SwappedFrom(s, n, t, l, a)
           /\ s.reserve0 + a.a0 \in Reserves /\ s.reserve1 + a.a1 \in Reserves
                => ~Refused(OnSwap(s, a, t, l))
<1> DEFINE m == AdjustReserve(s, a)
           n == [m EXCEPT !.tick = t, !.liquidity = l]
<1>1. s.reserve0 \in Reserves /\ s.reserve1 \in Reserves
  BY DEF PoolState
<1>2. ASSUME NEW x \in Reserves, NEW d \in -MaxBalance..MaxBalance
      PROVE  /\ Adjustable(x, d) => Adjusted(x, d) \in Reserves
             /\ x + d <= MaxReserve => Adjusted(x, d) = x + d
             /\ x + d \in Reserves => Adjustable(x, d)
  BY V3Assumption DEF Adjustable, Adjusted, SaturatingAdd, Reserves
<1>3. ASSUME Adjustable(s.reserve0, a.a0), Adjustable(s.reserve1, a.a1)
      PROVE  SwappedFrom(s, n, t, l, a)
  <2>1. /\ Adjusted(s.reserve0, a.a0) \in Reserves /\ Adjusted(s.reserve1, a.a1) \in Reserves
        /\ s.reserve0 + a.a0 <= MaxReserve => Adjusted(s.reserve0, a.a0) = s.reserve0 + a.a0
        /\ s.reserve1 + a.a1 <= MaxReserve => Adjusted(s.reserve1, a.a1) = s.reserve1 + a.a1
    BY <1>1, <1>2, <1>3
  <2>2. /\ m \in PoolState /\ m.seen = s.seen /\ m.ticks = s.ticks
        /\ m.reserve0 = Adjusted(s.reserve0, a.a0) /\ m.reserve1 = Adjusted(s.reserve1, a.a1)
    BY <2>1 DEF AdjustReserve, PoolState
  <2> HIDE DEF m
  <2>3. m \in PoolState
    BY <2>2
  <2>4. /\ n \in PoolState
        /\ n.tick = t /\ n.liquidity = l /\ n.seen = m.seen /\ n.ticks = m.ticks
        /\ n.reserve0 = m.reserve0 /\ n.reserve1 = m.reserve1
    BY <2>3 DEF PoolState
  <2> QED
    BY <2>1, <2>2, <2>4 DEF SwappedFrom
<1>4. \A o \in OnSwap(s, a, t, l) :
        Adjustable(s.reserve0, a.a0) /\ Adjustable(s.reserve1, a.a1) /\ o = n
  BY DEF OnSwap
<1>5. ASSUME s.reserve0 + a.a0 \in Reserves, s.reserve1 + a.a1 \in Reserves
      PROVE  ~Refused(OnSwap(s, a, t, l))
  <2>1. Adjustable(s.reserve0, a.a0) /\ Adjustable(s.reserve1, a.a1)
    BY <1>1, <1>2, <1>5
  <2> QED
    BY <2>1 DEF OnSwap, Refused
<1> HIDE DEF n
<1> QED
  BY <1>3, <1>4, <1>5

-----------------------------------------------------------------------------
(* The invariant, action by action *)

(* What the contract stores after a position has changed.                   *)
LEMMA PositionModified ==
    ASSUME TypeOK, NEW r \in Ranges, NEW change \in Int, ModifyPosition(r, change)
    PROVE  /\ cTick' = cTick /\ cTick' \in Ticks \cup {NoTick}
           /\ cLiquidity' \in Liquidity
           /\ cLiquidity' = IF InRange(cTick, r) THEN cLiquidity + change ELSE cLiquidity
           /\ positions' \in [Ranges -> Liquidity]
           /\ cGross' \in [Ticks -> Liquidity] /\ cNet' \in [Ticks -> Nets]
           /\ \A t \in Ticks \ {r[1], r[2]} : cGross'[t] = cGross[t] /\ cNet'[t] = cNet[t]
           /\ \A t \in {r[1], r[2]} : cGross'[t] = cGross[t] + change
           /\ cNet'[r[1]] = cNet[r[1]] + change /\ cNet'[r[2]] = cNet[r[2]] - change
<1>1. r[1] \in Ticks /\ r[2] \in Ticks /\ r[1] # r[2]
  BY RangeTicks
<1>2. positions' \in [Ranges -> Liquidity]
  BY DEF TypeOK, ModifyPosition
<1>3. /\ \A t \in Ticks \ {r[1], r[2]} : cGross'[t] = cGross[t]
      /\ \A t \in {r[1], r[2]} : cGross'[t] = cGross[t] + change
      /\ cGross' \in [Ticks -> Liquidity]
  <2>1. /\ \A t \in Ticks \ {r[1], r[2]} : cGross'[t] = cGross[t]
        /\ \A t \in {r[1], r[2]} : cGross'[t] = cGross[t] + change
        /\ DOMAIN cGross' = Ticks /\ cGross' = [t \in Ticks |-> cGross'[t]]
    BY <1>1 DEF TypeOK, ModifyPosition
  <2>2. \A t \in Ticks : cGross'[t] \in Liquidity
    BY <2>1 DEF TypeOK, ModifyPosition
  <2> QED
    BY <2>1, <2>2
<1>4. /\ \A t \in Ticks \ {r[1], r[2]} : cNet'[t] = cNet[t]
      /\ cNet'[r[1]] = cNet[r[1]] + change /\ cNet'[r[2]] = cNet[r[2]] - change
      /\ cNet' \in [Ticks -> Nets]
  <2>1. /\ \A t \in Ticks \ {r[1], r[2]} : cNet'[t] = cNet[t]
        /\ cNet'[r[1]] = cNet[r[1]] + change /\ cNet'[r[2]] = cNet[r[2]] - change
        /\ DOMAIN cNet' = Ticks /\ cNet' = [t \in Ticks |-> cNet'[t]]
    BY <1>1 DEF TypeOK, ModifyPosition
  <2>2. \A t \in Ticks : cNet'[t] \in Nets
    BY <2>1 DEF TypeOK, ModifyPosition
  <2> QED
    BY <2>1, <2>2
<1>5. /\ cTick' = cTick /\ cTick' \in Ticks \cup {NoTick}
      /\ cLiquidity' \in Liquidity
      /\ cLiquidity' = IF InRange(cTick, r) THEN cLiquidity + change ELSE cLiquidity
  BY DEF TypeOK, ModifyPosition
<1> QED
  BY <1>2, <1>3, <1>4, <1>5

LEMMA InitInvariant == Init => IInv
<1> SUFFICES ASSUME Init PROVE IInv
  OBVIOUS
<1>1. None \in [a0 : Nat, a1 : Nat] /\ None.a0 = 0 /\ None.a1 = 0
  BY DEF None
<1>2. None \in Amounts /\ One = [a0 |-> 1, a1 |-> 1]
  BY V3Assumption DEF None, Amounts, Balances, One
<1>3. NewState \in PoolState /\ \A t \in Ticks : NewState.ticks[t].gross = 0 /\ NewState.ticks[t].net = 0
  BY V3Assumption DEF NewState, PoolState, Untouched, TickInfo, Reserves
<1>4. CASE InitNewPool
  <2>1. TypeOK
    <3>1. /\ fromStart \in BOOLEAN /\ burnSeen \in BOOLEAN
          /\ dropped \in BOOLEAN /\ swallowed \in BOOLEAN
      BY <1>4 DEF Init, InitNewPool
    <3>2. burnt \in [a0 : Nat, a1 : Nat] /\ offRange \in Int /\ events \in Nat
      BY <1>1 DEF Init
    <3>3. state \in PoolState /\ balance \in Amounts /\ cTick = NoTick
      BY <1>2, <1>3, <1>4 DEF InitNewPool
    <3>4. owed \in [Ranges -> Amounts]
      BY <1>2, <1>4 DEF InitNewPool, NothingOwed
    <3>5. 0 \in Liquidity /\ 0 \in Nets
      BY V3Assumption DEF Liquidity, Nets
    <3>6. /\ cLiquidity \in Liquidity /\ positions \in [Ranges -> Liquidity]
          /\ cGross \in [Ticks -> Liquidity] /\ cNet \in [Ticks -> Nets]
      BY <1>4, <3>5 DEF InitNewPool
    <3> QED
      BY <3>1, <3>2, <3>3, <3>4, <3>6 DEF TypeOK
  <2>2. /\ state = NewState /\ cTick = NoTick /\ cLiquidity = 0 /\ offRange = 0
        /\ balance = None /\ burnt = None /\ dropped = FALSE /\ swallowed = FALSE
        /\ \A t \in Ticks : cGross[t] = 0 /\ cNet[t] = 0
    BY <1>4 DEF Init, InitNewPool
  <2>3. /\ NewState.tick = NoTick /\ NewState.liquidity = 0
        /\ NewState.reserve0 = 0 /\ NewState.reserve1 = 0
    BY DEF NewState
  <2> QED
    BY <1>1, <1>3, <2>1, <2>2, <2>3
    DEF IInv, UnseenIsEmpty, NoBurnNoAmount, GrossFollowsChain, NetNeverTooLow,
        LiquidityGapIsOffRange, ReserveGapIsBurns, NothingRefusedWithoutBurn
<1>5. CASE InitOldPool
  <2>1. /\ cTick \in Ticks /\ cLiquidity \in Liquidity /\ balance \in Amounts
        /\ positions \in [Ranges -> Liquidity]
        /\ cGross \in [Ticks -> Liquidity] /\ cNet \in [Ticks -> Nets]
        /\ state = FetchedState /\ fromStart = FALSE
    BY <1>5 DEF InitOldPool
  <2>2. /\ FetchedState \in PoolState /\ FetchedState.tick = cTick
        /\ FetchedState.liquidity = cLiquidity /\ FetchedState.ticks = NewState.ticks
        /\ FetchedState.reserve0 = balance.a0 /\ FetchedState.reserve1 = balance.a1
    <3>1. cLiquidity \in Nat /\ balance.a0 \in Reserves /\ balance.a1 \in Reserves
      BY <2>1, V3Assumption DEF Liquidity, Amounts, Balances, Reserves
    <3> HIDE DEF NewState
    <3> QED
      BY <1>3, <2>1, <3>1 DEF FetchedState, PoolState
  <2>3. owed \in [Ranges -> Amounts]
    BY <1>2, <1>5 DEF InitOldPool, OwedOnce
  <2>4. /\ events = 0 /\ burnSeen = FALSE /\ burnt = None /\ offRange = 0
        /\ dropped = FALSE /\ swallowed = FALSE
    BY DEF Init
  <2>5. TypeOK
    <3>1. /\ fromStart \in BOOLEAN /\ burnSeen \in BOOLEAN
          /\ dropped \in BOOLEAN /\ swallowed \in BOOLEAN
      BY <2>1, <2>4
    <3>2. burnt \in [a0 : Nat, a1 : Nat] /\ offRange \in Int /\ events \in Nat
      BY <1>1, <2>4
    <3>3. state \in PoolState
      BY <2>1, <2>2
    <3> QED
      BY <2>1, <2>3, <3>1, <3>2, <3>3 DEF TypeOK
  <2>6. /\ \A t \in Ticks : state.ticks[t].gross = 0 /\ cGross[t] \in Nat
        /\ state.tick = cTick /\ state.liquidity = cLiquidity /\ cLiquidity \in Nat
        /\ state.reserve0 = balance.a0 /\ state.reserve1 = balance.a1
        /\ balance.a0 \in Nat /\ balance.a1 \in Nat
    BY <1>3, <2>1, <2>2, V3Assumption DEF Liquidity, Amounts, Balances
  <2> QED
    BY <1>1, <2>1, <2>4, <2>5, <2>6
    DEF IInv, UnseenIsEmpty, NoBurnNoAmount, GrossFollowsChain, NetNeverTooLow,
        LiquidityGapIsOffRange, ReserveGapIsBurns, NothingRefusedWithoutBurn
<1> QED
  BY <1>4, <1>5 DEF Init

LEMMA InitializeInvariant ==
    ASSUME IInv, NEW tick \in Ticks, Initialize(tick) PROVE IInv'
<1> DEFINE n == [state EXCEPT !.tick = tick]
<1>1. /\ state \in PoolState /\ cTick' = tick
      /\ UNCHANGED <<cLiquidity, cGross, cNet, positions, owed, balance>>
      /\ UNCHANGED <<fromStart, burnSeen, burnt, offRange, swallowed>>
      /\ events' \in Nat
  BY DEF IInv, TypeOK, Initialize, Emit
<1>2. state' = n /\ (dropped' <=> dropped)
  BY DEF Initialize, Handle, Refused, OnInitialize
<1>3. /\ n \in PoolState /\ n.tick = tick /\ n.liquidity = state.liquidity
      /\ n.reserve0 = state.reserve0 /\ n.reserve1 = state.reserve1
      /\ n.seen = state.seen /\ n.ticks = state.ticks
  BY <1>1 DEF PoolState
<1>4. TypeOK'
  BY <1>1, <1>2, <1>3 DEF IInv, TypeOK, Initialize, Handle
<1> HIDE DEF n
<1> QED
  BY <1>1, <1>2, <1>3, <1>4
  DEF IInv, UnseenIsEmpty, NoBurnNoAmount, GrossFollowsChain, NetNeverTooLow,
      LiquidityGapIsOffRange, ReserveGapIsBurns, NothingRefusedWithoutBurn

LEMMA MintInvariant ==
    ASSUME IInv, NEW r \in Ranges, NEW l \in Liquidity \ {0}, Mint(r, l) PROVE IInv'
<1> DEFINE a == Worth(r, l, cTick)
<1>1. TypeOK /\ state \in PoolState /\ l \in Nat /\ l \in Int
  BY V3Assumption DEF IInv, TypeOK, Liquidity
<1>2. ModifyPosition(r, l)
  BY DEF Mint
<1>3. /\ a \in Amounts /\ balance' = Plus(balance, a) /\ balance' \in Amounts
      /\ UNCHANGED <<owed, fromStart, burnSeen, burnt, swallowed>> /\ events' \in Nat
      /\ Handle(OnMint(state, r, l, a))
      /\ offRange' = IF Refused(OnMint(state, r, l, a)) THEN offRange ELSE Strayed(r, l)
  BY DEF Mint, Emit, IInv, TypeOK
<1> HIDE DEF a
<1>4. MintedFrom(state, state', r[1], r[2], l, a) /\ (dropped' <=> dropped) /\ offRange' = Strayed(r, l)
  BY <1>1, <1>3, OnMintFields DEF Handle
<1>5. /\ cTick' = cTick /\ cTick' \in Ticks \cup {NoTick}
      /\ cLiquidity' \in Liquidity
      /\ cLiquidity' = IF InRange(cTick, r) THEN cLiquidity + l ELSE cLiquidity
      /\ positions' \in [Ranges -> Liquidity]
      /\ cGross' \in [Ticks -> Liquidity] /\ cNet' \in [Ticks -> Nets]
      /\ \A t \in Ticks \ {r[1], r[2]} : cGross'[t] = cGross[t] /\ cNet'[t] = cNet[t]
      /\ \A t \in {r[1], r[2]} : cGross'[t] = cGross[t] + l
      /\ cNet'[r[1]] = cNet[r[1]] + l /\ cNet'[r[2]] = cNet[r[2]] - l
  BY <1>1, <1>2, PositionModified
<1>6. dropped' \in BOOLEAN /\ dropped' = dropped
  BY <1>4, <1>3 DEF Handle, IInv, TypeOK
<1>7. r[1] \in Ticks /\ r[2] \in Ticks /\ r[1] # r[2]
  BY RangeTicks
<1>8. TypeOK'
  <2>1. offRange' \in Int
    BY <1>1, <1>4 DEF Strayed, TypeOK
  <2>2. state' \in PoolState
    BY <1>4 DEF MintedFrom
  <2> QED
    BY <1>1, <1>3, <1>5, <1>6, <2>1, <2>2 DEF TypeOK
<1>9. /\ UnseenIsEmpty' /\ NoBurnNoAmount'
  BY <1>3, <1>4, <1>7 DEF IInv, MintedFrom, UnseenIsEmpty, NoBurnNoAmount
<1>10. GrossFollowsChain' /\ NetNeverTooLow'
  <2>1. \A t \in Ticks : /\ state.ticks[t].gross \in Nat /\ state.ticks[t].net \in Nat
                         /\ cGross[t] \in Int /\ cNet[t] \in Int
    BY <1>1, InfoType, V3Assumption DEF TypeOK, Liquidity, Nets
  <2>2. ASSUME ~dropped', NEW t \in Ticks
        PROVE  /\ state'.ticks[t].gross <= cGross'[t]
               /\ fromStart' => state'.ticks[t].gross = cGross'[t]
               /\ fromStart' => state'.ticks[t].net >= cNet'[t]
    <3>1. /\ state.ticks[t].gross <= cGross[t]
          /\ fromStart => state.ticks[t].gross = cGross[t]
          /\ fromStart => state.ticks[t].net >= cNet[t]
      BY <1>6, <2>2 DEF IInv, GrossFollowsChain, NetNeverTooLow
    <3>2. CASE t \notin {r[1], r[2]}
      BY <1>3, <1>4, <1>5, <3>1, <3>2 DEF MintedFrom
    <3>3. CASE t = r[1]
      BY <1>1, <1>3, <1>4, <1>5, <2>1, <3>1, <3>3 DEF MintedFrom
    <3>4. CASE t = r[2]
      BY <1>1, <1>3, <1>4, <1>5, <2>1, <3>1, <3>4 DEF MintedFrom, SaturatingSub
    <3> QED
      BY <3>2, <3>3, <3>4
  <2> QED
    BY <2>2 DEF GrossFollowsChain, NetNeverTooLow
<1>11. LiquidityGapIsOffRange'
  BY <1>1, <1>4, <1>5, <1>6, V3Assumption
  DEF IInv, TypeOK, Liquidity, LiquidityGapIsOffRange, MintedFrom, Strayed
<1>12. ReserveGapIsBurns'
  <2>1. /\ balance'.a0 = balance.a0 + a.a0 /\ balance'.a1 = balance.a1 + a.a1
        /\ a.a0 \in Nat /\ a.a1 \in Nat /\ balance'.a0 \in Reserves /\ balance'.a1 \in Reserves
        /\ balance.a0 \in Nat /\ balance.a1 \in Nat
    BY <1>1, <1>3, V3Assumption DEF TypeOK, Plus, Amounts, Balances, Reserves
  <2>2. /\ state.reserve0 \in Nat /\ state.reserve1 \in Nat
        /\ burnt.a0 \in Nat /\ burnt.a1 \in Nat
    BY <1>1, V3Assumption DEF TypeOK, PoolState, Reserves
  <2> QED
    BY <1>3, <1>4, <1>6, <2>1, <2>2, V3Assumption
    DEF IInv, ReserveGapIsBurns, MintedFrom, SaturatingAdd, Reserves
<1>13. NothingRefusedWithoutBurn'
  BY <1>3, <1>4, <1>5, <1>6 DEF IInv, NothingRefusedWithoutBurn, MintedFrom
<1> QED
  BY <1>8, <1>9, <1>10, <1>11, <1>12, <1>13 DEF IInv

LEMMA BurnInvariant ==
    ASSUME IInv, NEW r \in Ranges, NEW l \in Liquidity \ {0}, Burn(r, l) PROVE IInv'
<1> DEFINE a == Worth(r, l, cTick)
           updates == OnBurn(state, r, l, a)
<1>1. TypeOK /\ state \in PoolState /\ l \in Nat \ {0} /\ -l \in Int
  BY V3Assumption DEF IInv, TypeOK, Liquidity
<1>2. ModifyPosition(r, -l)
  BY DEF Burn
<1>3. /\ a \in Amounts
      /\ owed' = [owed EXCEPT ![r] = Plus(@, a)] /\ owed'[r] \in Amounts
      /\ UNCHANGED <<balance, fromStart, swallowed>> /\ events' \in Nat
      /\ Handle(updates)
      /\ offRange' = (IF Refused(updates) THEN offRange ELSE Strayed(r, -l))
      /\ burnt' = (IF Refused(updates) THEN burnt ELSE Plus(burnt, a))
      /\ burnSeen' = TRUE
  BY DEF Burn, Emit, IInv, TypeOK
<1> HIDE DEF a, updates
<1>4. /\ cTick' = cTick /\ cTick' \in Ticks \cup {NoTick}
      /\ cLiquidity' \in Liquidity
      /\ cLiquidity' = IF InRange(cTick, r) THEN cLiquidity + -l ELSE cLiquidity
      /\ positions' \in [Ranges -> Liquidity]
      /\ cGross' \in [Ticks -> Liquidity] /\ cNet' \in [Ticks -> Nets]
      /\ \A t \in Ticks \ {r[1], r[2]} : cGross'[t] = cGross[t] /\ cNet'[t] = cNet[t]
      /\ \A t \in {r[1], r[2]} : cGross'[t] = cGross[t] + -l
      /\ cNet'[r[1]] = cNet[r[1]] + -l /\ cNet'[r[2]] = cNet[r[2]] - (-l)
  BY <1>1, <1>2, PositionModified
<1>5. owed' \in [Ranges -> Amounts]
  BY <1>1, <1>3 DEF TypeOK
<1>6. /\ offRange' \in Int /\ burnt' \in [a0 : Nat, a1 : Nat]
  <2>1. a.a0 \in Nat /\ a.a1 \in Nat
    BY <1>3, V3Assumption DEF Amounts, Balances
  <2> QED
    BY <1>1, <1>3, <2>1 DEF Strayed, TypeOK, Plus
<1>7. NoBurnNoAmount' /\ NothingRefusedWithoutBurn'
  BY <1>3 DEF NoBurnNoAmount, NothingRefusedWithoutBurn
<1>8. CASE Refused(updates)
  <2>1. state' = state /\ dropped' = TRUE
    BY <1>3, <1>8 DEF Handle
  <2>2. TypeOK'
    BY <1>1, <1>3, <1>4, <1>5, <1>6, <2>1 DEF TypeOK
  <2>3. UnseenIsEmpty'
    BY <2>1 DEF IInv, UnseenIsEmpty
  <2> QED
    BY <1>7, <2>1, <2>2, <2>3
    DEF IInv, GrossFollowsChain, NetNeverTooLow, LiquidityGapIsOffRange, ReserveGapIsBurns
<1>9. CASE ~Refused(updates)
  <2>1. state' \in updates /\ dropped' = dropped
    BY <1>1, <1>3, <1>9 DEF Handle, TypeOK
  <2>2. BurnedFrom(state, state', r[1], r[2], l, a)
    BY <1>1, <1>3, <2>1, OnBurnFields DEF updates
  <2>3. /\ offRange' = Strayed(r, -l) /\ burnt' = Plus(burnt, a)
    BY <1>3, <1>9
  <2>4. r[1] \in Ticks /\ r[2] \in Ticks /\ r[1] # r[2]
    BY RangeTicks
  <2>5. TypeOK'
    <3>1. state' \in PoolState
      BY <2>2 DEF BurnedFrom
    <3> QED
      BY <1>1, <1>3, <1>4, <1>5, <1>6, <2>1, <3>1 DEF TypeOK
  <2>6. \A t \in Ticks : /\ state.ticks[t].gross \in Nat /\ state.ticks[t].net \in Nat
                         /\ cGross[t] \in Nat /\ cGross'[t] \in Nat /\ cNet[t] \in Int
    <3>1. ASSUME NEW t \in Ticks PROVE state.ticks[t].gross \in Nat /\ state.ticks[t].net \in Nat
      BY <1>1, InfoType
    <3>2. ASSUME NEW t \in Ticks
          PROVE  cGross[t] \in Liquidity /\ cGross'[t] \in Liquidity /\ cNet[t] \in Nets
      BY <1>1, <1>4 DEF TypeOK
    <3>3. ASSUME NEW t \in Ticks
          PROVE  cGross[t] \in Nat /\ cGross'[t] \in Nat /\ cNet[t] \in Int
      BY <3>2, V3Assumption DEF Liquidity, Nets
    <3> QED
      BY <3>1, <3>3
  <2>7. UnseenIsEmpty'
    <3>1. ASSUME NEW t \in Ticks, t \notin state'.seen PROVE state'.ticks[t] = state.ticks[t]
      BY <2>2, <3>1 DEF BurnedFrom
    <3>2. state'.seen = state.seen
      BY <2>2 DEF BurnedFrom
    <3> QED
      BY <3>1, <3>2 DEF IInv, UnseenIsEmpty
  <2>8. GrossFollowsChain' /\ NetNeverTooLow'
    <3>1. ASSUME ~dropped', NEW t \in Ticks
          PROVE  /\ state'.ticks[t].gross <= cGross'[t]
                 /\ fromStart' => state'.ticks[t].gross = cGross'[t]
                 /\ fromStart' => state'.ticks[t].net >= cNet'[t]
      <4>1. /\ state.ticks[t].gross <= cGross[t]
            /\ fromStart => state.ticks[t].gross = cGross[t]
            /\ fromStart => state.ticks[t].net >= cNet[t]
            /\ t \notin state.seen => state.ticks[t].gross = 0
        BY <2>1, <3>1 DEF IInv, GrossFollowsChain, NetNeverTooLow, UnseenIsEmpty
      <4>2. CASE t \notin {r[1], r[2]}
        BY <1>3, <1>4, <2>2, <4>1, <4>2 DEF BurnedFrom
      <4>3. CASE t \in {r[1], r[2]} /\ t \notin state.seen
        <5>1. state'.ticks[t] = state.ticks[t] /\ cGross'[t] = cGross[t] + -l
          BY <1>4, <2>2, <4>3 DEF BurnedFrom
        <5> QED
          BY <1>1, <1>3, <2>6, <4>1, <4>3, <5>1
      <4>4. CASE t = r[1] /\ t \in state.seen
        <5>1. /\ state'.ticks[t].gross = SaturatingSub(state.ticks[t].gross, l)
              /\ state'.ticks[t].net = SaturatingSub(state.ticks[t].net, l)
              /\ cGross'[t] = cGross[t] + -l /\ cNet'[t] = cNet[t] + -l
          BY <1>4, <2>2, <4>4 DEF BurnedFrom
        <5> QED
          BY <1>1, <1>3, <2>6, <4>1, <5>1 DEF SaturatingSub
      <4>5. CASE t = r[2] /\ t \in state.seen
        <5>1. /\ state'.ticks[t].gross = SaturatingSub(state.ticks[t].gross, l)
              /\ state'.ticks[t].net = state.ticks[t].net + l
              /\ cGross'[t] = cGross[t] + -l /\ cNet'[t] = cNet[t] - (-l)
          BY <1>4, <2>2, <4>5 DEF BurnedFrom
        <5> QED
          BY <1>1, <1>3, <2>6, <4>1, <5>1 DEF SaturatingSub
      <4> QED
        BY <4>2, <4>3, <4>4, <4>5
    <3> QED
      BY <3>1 DEF GrossFollowsChain, NetNeverTooLow
  <2>9. LiquidityGapIsOffRange'
    BY <1>1, <1>4, <2>1, <2>2, <2>3, V3Assumption
    DEF IInv, TypeOK, Liquidity, LiquidityGapIsOffRange, BurnedFrom, Strayed
  <2>10. ReserveGapIsBurns'
    <3>1. /\ state.reserve0 \in Nat /\ state.reserve1 \in Nat
          /\ burnt.a0 \in Nat /\ burnt.a1 \in Nat /\ a.a0 \in Nat /\ a.a1 \in Nat
          /\ burnt'.a0 = burnt.a0 + a.a0 /\ burnt'.a1 = burnt.a1 + a.a1
      BY <1>1, <1>3, <2>3, V3Assumption DEF TypeOK, PoolState, Reserves, Amounts, Balances, Plus
    <3>2. /\ state'.reserve0 = state.reserve0 - a.a0 /\ state'.reserve1 = state.reserve1 - a.a1
      BY <2>2 DEF BurnedFrom
    <3> QED
      BY <1>3, <2>1, <3>1, <3>2 DEF IInv, ReserveGapIsBurns
  <2> QED
    BY <1>7, <2>5, <2>7, <2>8, <2>9, <2>10 DEF IInv
<1> QED
  BY <1>8, <1>9

LEMMA SwapInvariant ==
    ASSUME IInv, NEW tick \in Ticks, NEW fee \in {0, 1}, Swap(tick, fee) PROVE IInv'
<1> DEFINE moved == Minus(AllWorth(positions, tick), AllWorth(positions, cTick))
           paid  == IF tick < cTick THEN [a0 |-> fee, a1 |-> 0] ELSE [a0 |-> 0, a1 |-> fee]
           a     == Plus(moved, paid)
           l     == ActiveAt(positions, tick)
           updates == OnSwap(state, a, tick, l)
<1>1. /\ cTick' = tick /\ cLiquidity' = l /\ l \in Liquidity
      /\ a.a0 \in -MaxBalance..MaxBalance /\ a.a1 \in -MaxBalance..MaxBalance
      /\ balance' = Plus(balance, a) /\ balance' \in Amounts
      /\ \E r \in Ranges : owed' = [owed EXCEPT ![r] = Plus(@, paid)] /\ owed'[r] \in Amounts
      /\ UNCHANGED <<cGross, cNet, positions, fromStart, burnSeen, burnt, swallowed>>
      /\ events' = events + 1 /\ Handle(updates)
      /\ offRange' = (IF Refused(updates) THEN offRange ELSE 0)
  BY DEF Swap, Emit
<1>2. TypeOK /\ state \in PoolState /\ l \in Nat
  BY <1>1, V3Assumption DEF IInv, TypeOK, Liquidity
<1>3. owed' \in [Ranges -> Amounts]
  <2> HIDE DEF paid
  <2> QED
    BY <1>1, <1>2 DEF TypeOK
<1> HIDE DEF a, l, updates
<1>4. /\ \A n \in updates : SwappedFrom(state, n, tick, l, a)
      /\ state.reserve0 + a.a0 \in Reserves /\ state.reserve1 + a.a1 \in Reserves => ~Refused(updates)
  BY <1>1, <1>2, OnSwapFields DEF updates
<1>5. /\ balance'.a0 = balance.a0 + a.a0 /\ balance'.a1 = balance.a1 + a.a1
      /\ a.a0 \in Int /\ a.a1 \in Int
      /\ balance'.a0 \in Reserves /\ balance'.a1 \in Reserves
      /\ balance.a0 \in Nat /\ balance.a1 \in Nat
      /\ burnt.a0 \in Nat /\ burnt.a1 \in Nat
      /\ state.reserve0 \in Nat /\ state.reserve1 \in Nat
  <2>1. balance'.a0 \in Reserves /\ balance'.a1 \in Reserves
    BY <1>1, V3Assumption DEF Amounts, Balances, Reserves
  <2>2. /\ balance.a0 \in Nat /\ balance.a1 \in Nat /\ burnt.a0 \in Nat /\ burnt.a1 \in Nat
        /\ state.reserve0 \in Nat /\ state.reserve1 \in Nat
    BY <1>2, V3Assumption DEF TypeOK, PoolState, Reserves, Amounts, Balances
  <2>3. a.a0 \in Int /\ a.a1 \in Int
    BY <1>1, V3Assumption
  <2>4. balance'.a0 = balance.a0 + a.a0 /\ balance'.a1 = balance.a1 + a.a1
    BY <1>1 DEF Plus
  <2> QED
    BY <2>1, <2>2, <2>3, <2>4
<1>6. NoBurnNoAmount'
  BY <1>1 DEF IInv, NoBurnNoAmount
<1>7. CASE Refused(updates)
  <2>1. state' = state /\ dropped' = TRUE /\ offRange' = offRange
    BY <1>1, <1>7 DEF Handle
  <2>2. TypeOK'
    BY <1>1, <1>2, <1>3, <2>1 DEF TypeOK
  <2>3. burnSeen
    <3>1. SUFFICES ASSUME ~burnSeen PROVE FALSE
      OBVIOUS
    <3>2. burnt = None /\ ~dropped /\ ~swallowed
      BY <3>1 DEF IInv, NoBurnNoAmount, NothingRefusedWithoutBurn
    <3>3. state.reserve0 = balance.a0 /\ state.reserve1 = balance.a1
      BY <1>5, <3>2 DEF IInv, ReserveGapIsBurns, None
    <3> QED
      BY <1>4, <1>5, <1>7, <3>3
  <2> QED
    BY <1>1, <1>6, <2>1, <2>2, <2>3
    DEF IInv, UnseenIsEmpty, GrossFollowsChain, NetNeverTooLow, LiquidityGapIsOffRange,
        ReserveGapIsBurns, NothingRefusedWithoutBurn
<1>8. CASE ~Refused(updates)
  <2>1. state' \in updates /\ dropped' = dropped /\ offRange' = 0
    BY <1>1, <1>2, <1>8 DEF Handle, TypeOK
  <2>2. SwappedFrom(state, state', tick, l, a)
    BY <1>4, <2>1
  <2>3. TypeOK'
    <3>1. state' \in PoolState /\ tick \in Ticks \cup {NoTick}
      BY <2>2 DEF SwappedFrom
    <3> QED
      BY <1>1, <1>2, <1>3, <2>1, <3>1 DEF TypeOK
  <2>4. UnseenIsEmpty' /\ GrossFollowsChain' /\ NetNeverTooLow' /\ NothingRefusedWithoutBurn'
    BY <1>1, <2>1, <2>2
    DEF IInv, SwappedFrom, UnseenIsEmpty, GrossFollowsChain, NetNeverTooLow,
        NothingRefusedWithoutBurn
  <2>5. LiquidityGapIsOffRange'
    BY <1>1, <1>2, <2>1, <2>2 DEF SwappedFrom, LiquidityGapIsOffRange
  <2>6. ReserveGapIsBurns'
    <3>1. ASSUME ~dropped', ~swallowed'
          PROVE  /\ state'.reserve0 + burnt'.a0 = balance'.a0
                 /\ state'.reserve1 + burnt'.a1 = balance'.a1
      <4>1. /\ state.reserve0 + burnt.a0 = balance.a0
            /\ state.reserve1 + burnt.a1 = balance.a1
        BY <1>1, <2>1, <3>1 DEF IInv, ReserveGapIsBurns
      <4>2. state.reserve0 + a.a0 <= MaxReserve /\ state.reserve1 + a.a1 <= MaxReserve
        BY <1>5, <4>1, V3Assumption DEF Reserves
      <4>3. state'.reserve0 = state.reserve0 + a.a0 /\ state'.reserve1 = state.reserve1 + a.a1
        BY <2>2, <4>2 DEF SwappedFrom
      <4> QED
        BY <1>1, <1>5, <4>1, <4>3
    <3> QED
      BY <3>1 DEF ReserveGapIsBurns
  <2> QED
    BY <1>6, <2>3, <2>4, <2>5, <2>6 DEF IInv
<1> QED
  BY <1>7, <1>8

LEMMA CollectInvariant ==
    ASSUME IInv, NEW r \in Ranges, Collect(r) PROVE IInv'
<1> DEFINE a == owed[r]
<1>1. TypeOK /\ state \in PoolState /\ a \in Amounts
  BY DEF IInv, TypeOK
<1>2. /\ owed' = [owed EXCEPT ![r] = None]
      /\ balance' = Minus(balance, a) /\ balance' \in Amounts
      /\ UNCHANGED <<cTick, cLiquidity, cGross, cNet, positions, fromStart>>
      /\ UNCHANGED <<burnSeen, burnt, offRange>>
      /\ events' = events + 1 /\ Handle(OnCollect(state, a))
      /\ swallowed' = (swallowed \/ ~CollectCovered(state, a))
  BY DEF Collect, Emit
<1> HIDE DEF a
<1>3. /\ ~Refused(OnCollect(state, a)) /\ state' \in OnCollect(state, a)
      /\ dropped' = dropped
  BY <1>1, <1>2, OnCollectFields DEF Handle, TypeOK
<1>4. /\ state' \in PoolState
      /\ state'.tick = state.tick /\ state'.liquidity = state.liquidity
      /\ state'.seen = state.seen /\ state'.ticks = state.ticks
      /\ CollectCovered(state, a) => /\ state'.reserve0 = state.reserve0 - a.a0
                                    /\ state'.reserve1 = state.reserve1 - a.a1
  BY <1>1, <1>3, OnCollectFields
<1>5. TypeOK'
  <2>1. None \in Amounts
    BY V3Assumption DEF None, Amounts, Balances
  <2>2. swallowed' \in BOOLEAN
    BY <1>2
  <2>3. owed' \in [Ranges -> Amounts]
    BY <1>1, <1>2, <2>1 DEF TypeOK
  <2> QED
    BY <1>1, <1>2, <1>3, <1>4, <2>2, <2>3 DEF TypeOK
<1>6. /\ UnseenIsEmpty' /\ NoBurnNoAmount' /\ GrossFollowsChain' /\ NetNeverTooLow'
      /\ LiquidityGapIsOffRange'
  BY <1>2, <1>3, <1>4
  DEF IInv, UnseenIsEmpty, NoBurnNoAmount, GrossFollowsChain, NetNeverTooLow,
      LiquidityGapIsOffRange
<1>7. /\ balance'.a0 = balance.a0 - a.a0 /\ balance'.a1 = balance.a1 - a.a1
      /\ balance'.a0 \in Nat /\ balance'.a1 \in Nat /\ a.a0 \in Reserves /\ a.a1 \in Reserves
      /\ balance.a0 \in Nat /\ balance.a1 \in Nat
      /\ burnt.a0 \in Nat /\ burnt.a1 \in Nat
      /\ state.reserve0 \in Nat /\ state.reserve1 \in Nat
  <2>1. balance'.a0 \in Nat /\ balance'.a1 \in Nat /\ a.a0 \in Reserves /\ a.a1 \in Reserves
    BY <1>1, <1>2, V3Assumption DEF Amounts, Balances, Reserves
  <2>2. /\ balance.a0 \in Nat /\ balance.a1 \in Nat /\ burnt.a0 \in Nat /\ burnt.a1 \in Nat
        /\ state.reserve0 \in Nat /\ state.reserve1 \in Nat
    BY <1>1, V3Assumption DEF TypeOK, PoolState, Reserves, Amounts, Balances
  <2>3. balance'.a0 = balance.a0 - a.a0 /\ balance'.a1 = balance.a1 - a.a1
    BY <1>2 DEF Minus
  <2> QED
    BY <2>1, <2>2, <2>3
<1>8. ReserveGapIsBurns'
  <2>1. ASSUME ~dropped', ~swallowed'
        PROVE  /\ state'.reserve0 + burnt'.a0 = balance'.a0
               /\ state'.reserve1 + burnt'.a1 = balance'.a1
    <3>1. /\ state.reserve0 + burnt.a0 = balance.a0
          /\ state.reserve1 + burnt.a1 = balance.a1
          /\ CollectCovered(state, a)
      BY <1>2, <1>3, <2>1 DEF IInv, ReserveGapIsBurns
    <3> QED
      BY <1>2, <1>4, <1>7, <3>1, V3Assumption DEF Reserves
  <2> QED
    BY <2>1 DEF ReserveGapIsBurns
<1>9. NothingRefusedWithoutBurn'
  <2>1. ASSUME ~burnSeen' PROVE ~dropped' /\ ~swallowed' /\ state'.tick = cTick'
    <3>1. burnt = None /\ ~dropped /\ ~swallowed /\ state.tick = cTick
      BY <1>2, <2>1 DEF IInv, NoBurnNoAmount, NothingRefusedWithoutBurn
    <3>2. state.reserve0 = balance.a0 /\ state.reserve1 = balance.a1
      BY <1>7, <3>1 DEF IInv, ReserveGapIsBurns, None
    <3>3. CollectCovered(state, a)
      BY <1>7, <3>2, V3Assumption DEF CollectCovered, FitsU128, Covers, Reserves
    <3> QED
      BY <1>2, <1>3, <1>4, <3>1, <3>3
  <2> QED
    BY <2>1 DEF NothingRefusedWithoutBurn
<1> QED
  BY <1>5, <1>6, <1>8, <1>9 DEF IInv

LEMMA StutterInvariant == IInv /\ UNCHANGED vars => IInv'
BY DEF IInv, vars, contract, history, TypeOK, UnseenIsEmpty, NoBurnNoAmount, GrossFollowsChain,
       NetNeverTooLow, LiquidityGapIsOffRange, ReserveGapIsBurns, NothingRefusedWithoutBurn

-----------------------------------------------------------------------------
(* Every invariant the runs check of V3Pool, for any ticks and bounds.      *)
THEOREM Invariance == Spec => []IInv
<1>1. Init => IInv
  BY InitInvariant
<1>2. IInv /\ [Next]_vars => IInv'
  <2> SUFFICES ASSUME IInv, [Next]_vars PROVE IInv'
    OBVIOUS
  <2>1. ASSUME NEW tick \in Ticks, Initialize(tick) PROVE IInv'
    BY <2>1, InitializeInvariant
  <2>2. ASSUME NEW r \in Ranges, NEW l \in Liquidity \ {0}, Mint(r, l) PROVE IInv'
    BY <2>2, MintInvariant
  <2>3. ASSUME NEW r \in Ranges, NEW l \in Liquidity \ {0}, Burn(r, l) PROVE IInv'
    BY <2>3, BurnInvariant
  <2>4. ASSUME NEW tick \in Ticks, NEW fee \in {0, 1}, Swap(tick, fee) PROVE IInv'
    BY <2>4, SwapInvariant
  <2>5. ASSUME NEW r \in Ranges, Collect(r) PROVE IInv'
    BY <2>5, CollectInvariant
  <2>6. CASE UNCHANGED vars
    BY <2>6, StutterInvariant
  <2> QED
    BY <2>1, <2>2, <2>3, <2>4, <2>5, <2>6 DEF Next
<1> QED
  BY <1>1, <1>2, PTL DEF Spec

(* The snapshot of a V3 pool is always one the code could have written.     *)
THEOREM Typed == Spec => []TypeOK
BY Invariance, PTL DEF IInv

(* update_tick and update_tick_burn keep the gross liquidity of a pool      *)
(* followed from its first Mint equal to the contract's.                    *)
THEOREM GrossIsFollowed == Spec => []GrossFollowsChain
BY Invariance, PTL DEF IInv

(* Saturation never makes the net liquidity of a tick too low.              *)
THEOREM NetIsNeverTooLow == Spec => []NetNeverTooLow
BY Invariance, PTL DEF IInv

(* The active liquidity is off by what was minted and burned away from the  *)
(* price since the last Swap.                                               *)
THEOREM LiquidityGapExplained == Spec => []LiquidityGapIsOffRange
BY Invariance, PTL DEF IInv

(* The reserves are off by what Burns have taken from them.                 *)
THEOREM ReserveGapExplained == Spec => []ReserveGapIsBurns
BY Invariance, PTL DEF IInv

(* Without a Burn nothing is refused and the price is the contract's.       *)
THEOREM OnlyBurnsLeadToRefusal == Spec => []NothingRefusedWithoutBurn
BY Invariance, PTL DEF IInv
=============================================================================
