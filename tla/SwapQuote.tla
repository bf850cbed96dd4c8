------------------------------ MODULE SwapQuote ------------------------------
(***************************************************************************)
(* What a swap is quoted at: quote_swap of a constant-product pool,        *)
(* quote_v3_swap at the current price, and the slippage of a leg.          *)
(*                                                                         *)
(* A quote is "ok" with its numbers, "refused" with an error, or "panics": *)
(* U256's own operators and as_u128() panic where a value does not fit.    *)
(***************************************************************************)
EXTENDS Integers

CONSTANTS
    MaxU128,     \* the largest u128
    MaxU256,     \* the largest U256
    FeeDenom,    \* 10_000: a fee of FeeDenom is the whole amount
    Q,           \* 2^96, the unit of a square root of a price
    OverflowChecks  \* a debug build panics where u128 arithmetic overflows,
                    \* a release build goes on with the remainder

ASSUME QuoteAssumption ==
    /\ MaxU128 \in Nat /\ MaxU256 \in Nat /\ MaxU128 <= MaxU256
    /\ FeeDenom \in Nat \ {0}
    /\ Q \in Nat \ {0}
    /\ OverflowChecks \in BOOLEAN

U128 == 0..MaxU128
U256 == 0..MaxU256

Refused == [kind |-> "refused"]
Panics  == [kind |-> "panics"]

Smaller(x, y) == IF x <= y THEN x ELSE y

-----------------------------------------------------------------------------
(* PancakeV2PoolState::quote_swap; in and out are the pool's reserves of    *)
(* the token that comes in and of the one that goes out                     *)

WithFee(amount, fee) == amount * (FeeDenom - fee)

Numerator(out, amount, fee)  == WithFee(amount, fee) * out
Denominator(in, amount, fee) == in * FeeDenom + WithFee(amount, fee)

AmountOutRoundedUp(in, out, amount, fee) ==                 \* faulty
    Numerator(out, amount, fee) \div Denominator(in, amount, fee) + 1

AmountOut(in, out, amount, fee) ==
    Numerator(out, amount, fee) \div Denominator(in, amount, fee)

FeePaid(amount, fee) == Smaller(amount * fee, MaxU128) \div FeeDenom

QuoteV2(in, out, amount, fee) ==
    IF amount = 0 \/ fee > FeeDenom \/ in = 0 \/ out = 0 THEN Refused
    ELSE IF Numerator(out, amount, fee) > MaxU256 THEN Panics
    ELSE LET got == AmountOut(in, out, amount, fee) IN
         IF got = 0 \/ got > MaxU128 \/ in + amount > MaxU128 \/ got > out THEN Refused
         ELSE [kind |-> "ok", out |-> got, fee |-> FeePaid(amount, fee),
               nextIn |-> in + amount, nextOut |-> out - got]

(* the calculator's measure of a leg, against the price before it *)
Expected(in, out, amount) == (amount * out) \div in

Shortfall(in, out, amount, got) ==
    LET expected == Expected(in, out, amount) IN
    IF expected > got THEN (expected - got) * FeeDenom ELSE 0

Slippage(in, out, amount, got) ==
    IF Expected(in, out, amount) > got
    THEN Shortfall(in, out, amount, got) \div Expected(in, out, amount) ELSE 0

-----------------------------------------------------------------------------
(* quote_v3_swap, with the square root of the price in units of Q; fee is   *)
(* at most FeeDenom, every caller's is 100                                  *)

Square(x) == x * x

FeeV3(amount, fee) == ((amount * fee) % (MaxU128 + 1)) \div FeeDenom

AfterNoFee(amount, fee) == amount                           \* faulty

AfterFee(amount, fee) == amount - FeeV3(amount, fee)

(* what the amount is multiplied by, and what it is then divided by *)
V3Scaled(sqrtPrice, zeroForOne) == IF zeroForOne THEN Square(sqrtPrice) ELSE Square(Q)
V3Unit(sqrtPrice, zeroForOne)   == IF zeroForOne THEN Square(Q) ELSE Square(sqrtPrice)

QuoteV3(sqrtPrice, amount, fee, zeroForOne) ==
    LET scaled == AfterFee(amount, fee) * V3Scaled(sqrtPrice, zeroForOne) IN
    IF Square(sqrtPrice) > MaxU256 \/ (OverflowChecks /\ amount * fee > MaxU128) THEN Panics
    ELSE IF \/ ~zeroForOne /\ Square(sqrtPrice) \div Square(Q) = 0
            \/ scaled > MaxU256 THEN Refused
    ELSE LET got == scaled \div V3Unit(sqrtPrice, zeroForOne) IN
         IF got > MaxU128 THEN Panics
         ELSE [kind |-> "ok", out |-> got, fee |-> FeeV3(amount, fee)]
=============================================================================
