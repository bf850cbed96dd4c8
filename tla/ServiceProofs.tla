--------------------------- MODULE ServiceProofs ---------------------------
(***************************************************************************)
(* What holds of simulations and of the service around them, for any       *)
(* number of requests, pools and states: what the path search finds, what  *)
(* a request knows of the repository while others change it, and what the  *)
(* answers are worth.                                                      *)
(***************************************************************************)
EXTENDS Service, SequenceLemmas, FiniteSetTheorems

-----------------------------------------------------------------------------
(* Quotes, for every reserve, amount and fee *)

(* Integer division rounds down. *)
LEMMA Division ==
    ASSUME NEW a \in Nat, NEW b \in Nat \ {0}
    PROVE  /\ a \div b \in Nat
           /\ b * (a \div b) <= a
           /\ a < b * (a \div b) + b
  OBVIOUS

(* Multiplication keeps an order, and its cancellation too. *)
LEMMA Multiply ==
    ASSUME NEW a \in Nat, NEW b \in Nat, NEW c \in Nat, a <= b
    PROVE  a * c <= b * c
  OBVIOUS

LEMMA Cancel ==
    ASSUME NEW a \in Int, NEW b \in Int, NEW c \in Nat \ {0}, a * c <= b * c
    PROVE  a <= b
  OBVIOUS

LEMMA Positive ==
    ASSUME NEW a \in Nat \ {0}, NEW b \in Nat \ {0}
    PROVE  a * b \in Nat \ {0}
  OBVIOUS

LEMMA Natural ==
    ASSUME NEW a \in Nat, NEW b \in Nat
    PROVE  a * b \in Nat
  OBVIOUS

-----------------------------------------------------------------------------
(* The constant-product quote, before its checks *)

(* Types of its parts; the denominator is positive. *)
LEMMA PartsTyped ==
    ASSUME NEW in \in U128 \ {0}, NEW out \in U128 \ {0},
           NEW amount \in U128 \ {0}, NEW fee \in 0..FeeDenom
    PROVE  /\ WithFee(amount, fee) \in Nat
           /\ Numerator(out, amount, fee) \in Nat
           /\ Denominator(in, amount, fee) \in Nat \ {0}
           /\ AmountOut(in, out, amount, fee) \in Nat
<1> USE QuoteAssumption DEF U128
<1>1. FeeDenom - fee \in Nat /\ in \in Nat \ {0} /\ out \in Nat /\ amount \in Nat
  OBVIOUS
<1>2. WithFee(amount, fee) \in Nat
  BY <1>1, Natural DEF WithFee
<1>3. Numerator(out, amount, fee) \in Nat
  BY <1>1, <1>2, Natural DEF Numerator
<1>4. in * FeeDenom \in Nat \ {0}
  BY <1>1, Positive
<1>5. Denominator(in, amount, fee) \in Nat \ {0}
  BY <1>2, <1>4 DEF Denominator
<1>6. AmountOut(in, out, amount, fee) \in Nat
  BY <1>3, <1>5, Division DEF AmountOut
<1> QED
  BY <1>2, <1>3, <1>5, <1>6

(* The pool keeps some of what goes out, and what comes in, less the fee,   *)
(* pays for all of it at the price after the swap.                          *)
LEMMA Paid ==
    ASSUME NEW in \in U128 \ {0}, NEW out \in U128 \ {0},
           NEW amount \in U128 \ {0}, NEW fee \in 0..FeeDenom
    PROVE  LET got == AmountOut(in, out, amount, fee) IN
           /\ got < out
           /\ got * in <= amount * (out - got)
<1> DEFINE w   == WithFee(amount, fee)
           got == AmountOut(in, out, amount, fee)
           d   == Denominator(in, amount, fee)
<1> USE QuoteAssumption DEF U128
<1>1. w \in Nat /\ got \in Nat /\ d \in Nat \ {0} /\ w * out \in Nat
  BY PartsTyped DEF Numerator
<1>2. d * got <= w * out
  BY <1>1, Division DEF AmountOut, Numerator
<1>3. d = in * FeeDenom + w
  BY DEF Denominator
<1>4. in \in Nat \ {0} /\ out \in Nat \ {0} /\ amount \in Nat \ {0} /\ FeeDenom \in Nat \ {0}
  OBVIOUS
<1> HIDE DEF w, got, d
<1>5. got < out
  <2>1. SUFFICES ASSUME out <= got PROVE FALSE
    BY <1>1, <1>4
  <2>2. out * d <= got * d
    BY <1>1, <1>4, <2>1, Multiply
  <2>3. in * FeeDenom \in Nat \ {0}
    BY <1>4, Positive
  <2>4. out * (in * FeeDenom) \in Nat \ {0}
    BY <1>4, <2>3, Positive
  <2>5. out * d = out * (in * FeeDenom) + w * out
    BY <1>1, <1>3, <1>4, <2>3
  <2> QED
    BY <1>1, <1>2, <1>4, <2>2, <2>4, <2>5
<1>6. w <= amount * FeeDenom
  <2>1. w = amount * FeeDenom - amount * fee /\ amount * fee \in Nat
    BY <1>4, Natural DEF w, WithFee
  <2> QED
    BY <1>4, <2>1
<1>7. out - got \in Nat
  BY <1>1, <1>4, <1>5
<1>8. w * (out - got) <= (amount * FeeDenom) * (out - got)
  BY <1>1, <1>4, <1>6, <1>7, Multiply, Natural
<1>9. (got * in) * FeeDenom <= (amount * (out - got)) * FeeDenom
  <2>1. d * got = (got * in) * FeeDenom + w * got
    BY <1>1, <1>3, <1>4
  <2>2. w * (out - got) = w * out - w * got
    BY <1>1, <1>4
  <2>3. (got * in) * FeeDenom <= w * (out - got)
    BY <1>1, <1>2, <1>4, <2>1, <2>2
  <2>4. (amount * FeeDenom) * (out - got) = (amount * (out - got)) * FeeDenom
    BY <1>4, <1>7
  <2> QED
    BY <1>1, <1>4, <1>7, <1>8, <2>3, <2>4
<1>10. got * in \in Int /\ amount * (out - got) \in Int
  BY <1>1, <1>4, <1>7
<1>11. got * in <= amount * (out - got)
  BY <1>4, <1>9, <1>10, Cancel
<1> QED
  BY <1>5, <1>11 DEF got

-----------------------------------------------------------------------------
(* Reserves, amount and fee that quote_swap can be called with *)
V2Arguments(in, out, amount, fee) ==
    in \in U128 /\ out \in U128 /\ amount \in U128 /\ fee \in Nat

(* A quote is given only where there is something to divide by and to give. *)
LEMMA QuoteV2Given ==
    ASSUME NEW in, NEW out, NEW amount, NEW fee, V2Arguments(in, out, amount, fee),
           QuoteV2(in, out, amount, fee).kind = "ok"
    PROVE  LET got == AmountOut(in, out, amount, fee) IN
           /\ in # 0 /\ out # 0 /\ amount # 0 /\ fee \in 0..FeeDenom
           /\ got # 0 /\ in + amount <= MaxU128
           /\ QuoteV2(in, out, amount, fee)
                 = [kind |-> "ok", out |-> got, fee |-> FeePaid(amount, fee),
                    nextIn |-> in + amount, nextOut |-> out - got]
<1>1. amount # 0 /\ ~(fee > FeeDenom) /\ in # 0 /\ out # 0
  BY DEF QuoteV2, Refused
<1>2. ~(Numerator(out, amount, fee) > MaxU256)
  BY <1>1 DEF QuoteV2, Panics
<1>3. fee \in 0..FeeDenom
  BY <1>1, QuoteAssumption DEF V2Arguments
<1>4. AmountOut(in, out, amount, fee) \in Nat
  BY <1>1, <1>3, PartsTyped, QuoteAssumption DEF V2Arguments, U128
<1> DEFINE got == AmountOut(in, out, amount, fee)
<1> HIDE DEF got
<1>5. ~(got = 0 \/ got > MaxU128 \/ in + amount > MaxU128 \/ got > out)
  BY <1>1, <1>2 DEF QuoteV2, Refused, got
<1>6. QuoteV2(in, out, amount, fee)
        = [kind |-> "ok", out |-> got, fee |-> FeePaid(amount, fee),
           nextIn |-> in + amount, nextOut |-> out - got]
  BY <1>1, <1>2, <1>5 DEF QuoteV2, got
<1>7. got # 0 /\ in + amount <= MaxU128
  BY <1>5, QuoteAssumption DEF V2Arguments, U128
<1> QED
  BY <1>1, <1>3, <1>6, <1>7 DEF got

(* The fee is a part of what comes in. *)
LEMMA FeeIsPart ==
    ASSUME NEW amount \in U128, NEW fee \in 0..FeeDenom
    PROVE  FeePaid(amount, fee) \in Nat /\ FeePaid(amount, fee) <= amount
<1> DEFINE base == Smaller(amount * fee, MaxU128)
<1> USE QuoteAssumption DEF U128
<1>1. amount \in Nat /\ fee \in Nat /\ fee <= FeeDenom /\ FeeDenom \in Nat \ {0}
  OBVIOUS
<1>2. amount * fee \in Nat /\ amount * fee <= amount * FeeDenom
  <2>1. fee * amount <= FeeDenom * amount
    BY <1>1, Multiply
  <2> QED
    BY <1>1, <2>1, Natural
<1>3. base \in Nat /\ base <= amount * FeeDenom
  BY <1>1, <1>2 DEF Smaller
<1> HIDE DEF base
<1>4. base \div FeeDenom \in Nat /\ FeeDenom * (base \div FeeDenom) <= base
  BY <1>1, <1>3, Division
<1>5. (base \div FeeDenom) * FeeDenom <= amount * FeeDenom
  BY <1>1, <1>3, <1>4
<1>6. base \div FeeDenom <= amount
  BY <1>1, <1>4, <1>5, Cancel
<1> QED
  BY <1>4, <1>6 DEF FeePaid, base

(* quote_swap: what goes out is less than the pool has, so both reserves of *)
(* the next state are positive and fit u128; the fee is a part of what came *)
(* in.                                                                      *)
THEOREM QuoteV2Fits ==
    ASSUME NEW in, NEW out, NEW amount, NEW fee, V2Arguments(in, out, amount, fee),
           QuoteV2(in, out, amount, fee).kind = "ok"
    PROVE  LET quote == QuoteV2(in, out, amount, fee) IN
           /\ quote.out \in U128 \ {0} /\ quote.out < out
           /\ quote.fee \in U128 /\ quote.fee <= amount
           /\ quote.nextIn \in U128 \ {0} /\ quote.nextOut \in U128 \ {0}
<1> DEFINE got == AmountOut(in, out, amount, fee)
<1> USE QuoteAssumption DEF U128, V2Arguments
<1>1. /\ in \in U128 \ {0} /\ out \in U128 \ {0} /\ amount \in U128 \ {0}
      /\ fee \in 0..FeeDenom
      /\ got # 0 /\ in + amount <= MaxU128
      /\ QuoteV2(in, out, amount, fee)
            = [kind |-> "ok", out |-> got, fee |-> FeePaid(amount, fee),
               nextIn |-> in + amount, nextOut |-> out - got]
  BY QuoteV2Given
<1>2. got \in Nat /\ got < out
  BY <1>1, PartsTyped, Paid
<1>3. FeePaid(amount, fee) \in Nat /\ FeePaid(amount, fee) <= amount
  BY <1>1, FeeIsPart
<1> HIDE DEF got
<1> QED
  BY <1>1, <1>2, <1>3

(* quote_swap: the product of the reserves does not fall, whatever the fee  *)
(* and the rounding: property LegsKeepProduct, for every leg.               *)
THEOREM ProductKept ==
    ASSUME NEW in, NEW out, NEW amount, NEW fee, V2Arguments(in, out, amount, fee),
           QuoteV2(in, out, amount, fee).kind = "ok"
    PROVE  LET quote == QuoteV2(in, out, amount, fee) IN
           quote.nextIn * quote.nextOut >= in * out
<1> DEFINE got == AmountOut(in, out, amount, fee)
<1> USE QuoteAssumption DEF U128, V2Arguments
<1>1. /\ in \in U128 \ {0} /\ out \in U128 \ {0} /\ amount \in U128 \ {0}
      /\ fee \in 0..FeeDenom
      /\ QuoteV2(in, out, amount, fee).nextIn = in + amount
      /\ QuoteV2(in, out, amount, fee).nextOut = out - got
  BY QuoteV2Given
<1>2. got \in Nat /\ got * in <= amount * (out - got)
  BY <1>1, PartsTyped, Paid
<1> HIDE DEF got
<1>3. (in + amount) * (out - got) = in * out + amount * (out - got) - got * in
  BY <1>1, <1>2
<1>4. in * out \in Int /\ amount * (out - got) \in Int /\ got * in \in Int
  BY <1>1, <1>2
<1> QED
  BY <1>1, <1>2, <1>3, <1>4

(* quote_swap there and back: swapping what came out back in the state after*)
(* the swap returns no more than was put in.                                *)
THEOREM RoundTripV2 ==
    ASSUME NEW in, NEW out, NEW amount, NEW fee, V2Arguments(in, out, amount, fee),
           QuoteV2(in, out, amount, fee).kind = "ok",
           NEW fee2 \in Nat,
           LET quote == QuoteV2(in, out, amount, fee)
           IN QuoteV2(quote.nextOut, quote.nextIn, quote.out, fee2).kind = "ok"
    PROVE  LET quote == QuoteV2(in, out, amount, fee)
           IN QuoteV2(quote.nextOut, quote.nextIn, quote.out, fee2).out <= amount
<1> DEFINE there == QuoteV2(in, out, amount, fee)
           back  == QuoteV2(there.nextOut, there.nextIn, there.out, fee2)
<1>1. /\ there.out \in U128 \ {0}
      /\ there.nextIn \in U128 \ {0} /\ there.nextOut \in U128 \ {0}
  BY QuoteV2Fits
<1>2. /\ in \in U128 \ {0} /\ out \in U128 \ {0} /\ amount \in U128 \ {0}
      /\ there.nextIn = in + amount /\ there.nextOut + there.out = out
  <2>1. AmountOut(in, out, amount, fee) \in Nat
    BY QuoteV2Given, PartsTyped DEF V2Arguments
  <2> QED
    BY <2>1, QuoteV2Given, QuoteAssumption DEF V2Arguments, U128
<1>3. there.nextIn * there.nextOut >= in * out
  BY ProductKept
<1>4. V2Arguments(there.nextOut, there.nextIn, there.out, fee2)
  BY <1>1 DEF V2Arguments
<1> HIDE DEF there
<1>5. /\ back.nextIn = there.nextOut + there.out /\ back.nextOut = there.nextIn - back.out
      /\ back.out \in Nat
  BY <1>4, QuoteV2Given, QuoteV2Fits DEF U128, there
<1>6. back.nextIn * back.nextOut >= there.nextOut * there.nextIn
  BY <1>4, ProductKept DEF there
<1> HIDE DEF back
<1>7. in \in Nat \ {0} /\ out \in Nat \ {0} /\ amount \in Nat
  BY <1>2, QuoteAssumption DEF U128
<1>8. there.nextIn * there.nextOut \in Int /\ there.nextIn * there.nextOut = there.nextOut * there.nextIn
  BY <1>1, QuoteAssumption DEF U128
<1>9. in * out <= (in + amount - back.out) * out
  BY <1>2, <1>3, <1>5, <1>6, <1>7, <1>8
<1>10. in <= in + amount - back.out
  BY <1>5, <1>7, <1>9, Cancel
<1>11. back.out <= amount
  BY <1>5, <1>7, <1>10
<1> QED
  BY <1>11 DEF there, back

-----------------------------------------------------------------------------
(* The quote at a concentrated pool's price *)

V3Arguments(sqrtPrice, amount, fee) ==
    sqrtPrice \in U256 /\ amount \in U128 /\ fee \in 0..FeeDenom

(* What is left after the fee, also where the fee's product overflowed.     *)
LEMMA AfterFeeTyped ==
    ASSUME NEW amount \in U128, NEW fee \in 0..FeeDenom
    PROVE  /\ FeeV3(amount, fee) \in U128 /\ AfterFee(amount, fee) \in U128
           /\ AfterFee(amount, fee) + FeeV3(amount, fee) = amount
<1> DEFINE base == (amount * fee) % (MaxU128 + 1)
<1> USE QuoteAssumption DEF U128
<1>1. amount \in Nat /\ fee \in Nat /\ fee <= FeeDenom /\ FeeDenom \in Nat \ {0}
  OBVIOUS
<1>2. amount * fee \in Nat /\ amount * fee <= amount * FeeDenom
  <2>1. fee * amount <= FeeDenom * amount
    BY <1>1, Multiply
  <2> QED
    BY <1>1, <2>1, Natural
<1>3. base \in Nat /\ base <= amount * fee
  BY <1>2
<1> HIDE DEF base
<1>4. base \div FeeDenom \in Nat /\ FeeDenom * (base \div FeeDenom) <= base
  BY <1>1, <1>3, Division
<1>5. (base \div FeeDenom) * FeeDenom <= amount * FeeDenom
  BY <1>1, <1>2, <1>3, <1>4
<1>6. base \div FeeDenom <= amount
  BY <1>1, <1>4, <1>5, Cancel
<1> QED
  BY <1>1, <1>4, <1>6 DEF FeeV3, AfterFee, base

(* A quote is what is left after the fee at the price, rounded down.        *)
LEMMA QuoteV3Given ==
    ASSUME NEW sqrtPrice, NEW amount, NEW fee, NEW zeroForOne \in BOOLEAN,
           V3Arguments(sqrtPrice, amount, fee),
           QuoteV3(sqrtPrice, amount, fee, zeroForOne).kind = "ok"
    PROVE  LET quote  == QuoteV3(sqrtPrice, amount, fee, zeroForOne)
               scaled == V3Scaled(sqrtPrice, zeroForOne)
               unit   == V3Unit(sqrtPrice, zeroForOne)
           IN /\ scaled \in Nat /\ unit \in Nat
              /\ quote.fee = FeeV3(amount, fee)
              /\ quote.out = (AfterFee(amount, fee) * scaled) \div unit
              /\ quote.out <= MaxU128
              /\ ~zeroForOne => unit # 0
<1> DEFINE scaled == V3Scaled(sqrtPrice, zeroForOne)
           unit   == V3Unit(sqrtPrice, zeroForOne)
<1>1. sqrtPrice \in Nat /\ Q \in Nat \ {0} /\ MaxU128 \in Nat
  BY QuoteAssumption DEF V3Arguments, U256
<1>2. Square(sqrtPrice) \in Nat /\ Square(Q) \in Nat \ {0}
  BY <1>1, Natural, Positive DEF Square
<1>3. scaled \in Nat /\ unit \in Nat
  BY <1>2 DEF V3Scaled, V3Unit
<1>4. ~(Square(sqrtPrice) > MaxU256 \/ (OverflowChecks /\ amount * fee > MaxU128))
  BY DEF QuoteV3, Panics
<1>5. ~(\/ ~zeroForOne /\ Square(sqrtPrice) \div Square(Q) = 0
        \/ AfterFee(amount, fee) * scaled > MaxU256)
  BY <1>4 DEF QuoteV3, Refused
<1>6. ~zeroForOne => unit # 0
  <2>1. SUFFICES ASSUME ~zeroForOne, Square(sqrtPrice) = 0 PROVE FALSE
    BY DEF V3Unit
  <2>2. Square(sqrtPrice) \div Square(Q) = 0
    BY <1>2, <2>1, Division
  <2> QED
    BY <1>5, <2>1, <2>2
<1>7. ~((AfterFee(amount, fee) * scaled) \div unit > MaxU128)
  BY <1>4, <1>5 DEF QuoteV3, Panics
<1>8. QuoteV3(sqrtPrice, amount, fee, zeroForOne)
        = [kind |-> "ok", out |-> (AfterFee(amount, fee) * scaled) \div unit,
           fee |-> FeeV3(amount, fee)]
  BY <1>4, <1>5, <1>7 DEF QuoteV3
<1>9. AfterFee(amount, fee) * scaled \in Nat /\ unit \in Nat \ {0}
  <2>1. unit # 0
    BY <1>2, <1>6 DEF V3Unit
  <2> QED
    BY <1>3, <2>1, AfterFeeTyped, Natural, QuoteAssumption DEF V3Arguments, U128
<1>10. (AfterFee(amount, fee) * scaled) \div unit \in Nat
  BY <1>9, Division
<1> QED
  BY <1>1, <1>3, <1>6, <1>7, <1>8, <1>10

(* quote_v3_swap: the output is worth no more, at the pool's price, than    *)
(* what came in less the fee; at a price of one it is no more than that, in *)
(* either direction (property V3QuoteAtPar).                                *)
THEOREM QuoteV3Fair ==
    ASSUME NEW sqrtPrice, NEW amount, NEW fee, NEW zeroForOne \in BOOLEAN,
           V3Arguments(sqrtPrice, amount, fee),
           QuoteV3(sqrtPrice, amount, fee, zeroForOne).kind = "ok"
    PROVE  LET quote == QuoteV3(sqrtPrice, amount, fee, zeroForOne) IN
           /\ quote.out \in U128 /\ quote.fee \in U128 /\ quote.fee <= amount
           /\ V3Unit(sqrtPrice, zeroForOne) * quote.out
                 <= (amount - quote.fee) * V3Scaled(sqrtPrice, zeroForOne)
           /\ sqrtPrice = Q => quote.out + quote.fee <= amount
<1> DEFINE quote  == QuoteV3(sqrtPrice, amount, fee, zeroForOne)
           scaled == V3Scaled(sqrtPrice, zeroForOne)
           unit   == V3Unit(sqrtPrice, zeroForOne)
           left   == AfterFee(amount, fee)
<1>1. /\ scaled \in Nat /\ unit \in Nat
      /\ quote.fee = FeeV3(amount, fee)
      /\ quote.out = (left * scaled) \div unit
      /\ quote.out <= MaxU128
      /\ ~zeroForOne => unit # 0
  BY QuoteV3Given
<1>2. left \in Nat /\ quote.fee \in U128 /\ left = amount - quote.fee /\ amount \in Nat
      /\ quote.fee <= amount
  BY <1>1, AfterFeeTyped, QuoteAssumption DEF V3Arguments, U128
<1>3. unit \in Nat \ {0}
  BY <1>1, QuoteAssumption, Positive DEF V3Unit, Square
<1>4. left * scaled \in Nat
  BY <1>1, <1>2, Natural
<1> HIDE DEF quote, scaled, unit, left
<1>5. quote.out \in Nat /\ unit * quote.out <= left * scaled
  BY <1>1, <1>3, <1>4, Division
<1>6. ASSUME sqrtPrice = Q PROVE quote.out <= left
  <2>1. scaled = unit
    BY <1>6 DEF scaled, unit, V3Scaled, V3Unit
  <2>2. quote.out * unit <= left * unit
    BY <1>2, <1>3, <1>5, <2>1
  <2> QED
    BY <1>2, <1>3, <1>5, <2>2, Cancel
<1>7. quote.out \in U128
  BY <1>1, <1>5, QuoteAssumption DEF U128
<1> QED
  BY <1>2, <1>5, <1>6, <1>7, QuoteAssumption DEF U128, quote, scaled, unit

(* quote_v3_swap there and back at one price: no more comes back than went  *)
(* in, whatever the price, the fees and the rounding.                       *)
THEOREM RoundTripV3 ==
    ASSUME NEW sqrtPrice, NEW amount, NEW fee, NEW zeroForOne \in BOOLEAN,
           V3Arguments(sqrtPrice, amount, fee),
           QuoteV3(sqrtPrice, amount, fee, zeroForOne).kind = "ok",
           NEW fee2 \in 0..FeeDenom,
           QuoteV3(sqrtPrice, QuoteV3(sqrtPrice, amount, fee, zeroForOne).out,
                   fee2, ~zeroForOne).kind = "ok"
    PROVE  QuoteV3(sqrtPrice, QuoteV3(sqrtPrice, amount, fee, zeroForOne).out,
                   fee2, ~zeroForOne).out <= amount
<1> DEFINE reverse == ~zeroForOne
           there == QuoteV3(sqrtPrice, amount, fee, zeroForOne)
           back  == QuoteV3(sqrtPrice, there.out, fee2, reverse)
           unit  == V3Unit(sqrtPrice, zeroForOne)
           other == V3Scaled(sqrtPrice, zeroForOne)
<1>1. /\ there.out \in U128 /\ there.fee \in U128
      /\ unit * there.out <= (amount - there.fee) * other /\ there.fee <= amount
  BY QuoteV3Fair
<1>2. V3Arguments(sqrtPrice, there.out, fee2)
  BY <1>1 DEF V3Arguments
<1>3. /\ reverse \in BOOLEAN /\ (zeroForOne <=> ~reverse) /\ back.kind = "ok"
      /\ V3Unit(sqrtPrice, reverse) = other /\ V3Scaled(sqrtPrice, reverse) = unit
  <2>1. reverse \in BOOLEAN /\ (zeroForOne <=> ~reverse)
    OBVIOUS
  <2>2. back.kind = "ok"
    OBVIOUS
  <2>3. V3Unit(sqrtPrice, reverse) = other /\ V3Scaled(sqrtPrice, reverse) = unit
    BY DEF V3Unit, V3Scaled
  <2> QED
    BY <2>1, <2>2, <2>3
<1>5. unit \in Nat /\ other \in Nat /\ (~zeroForOne => unit # 0)
  BY QuoteV3Given
<1> HIDE DEF reverse, there, unit, other
<1>4. /\ back.out \in U128 /\ back.fee \in U128 /\ back.fee <= there.out
      /\ V3Unit(sqrtPrice, reverse) * back.out
            <= (there.out - back.fee) * V3Scaled(sqrtPrice, reverse)
  BY <1>2, <1>3, QuoteV3Fair
<1>6. ~reverse => V3Unit(sqrtPrice, reverse) # 0
  BY <1>2, <1>3, QuoteV3Given
<1>7. other # 0
  <2>1. ~reverse => other # 0
    BY <1>3, <1>6
  <2>2. reverse => other # 0
    BY <1>3, QuoteAssumption, Positive DEF other, V3Scaled, Square
  <2> QED
    BY <1>3, <2>1, <2>2
<1> HIDE DEF back
<1>8. amount \in Nat /\ there.out \in Nat /\ back.out \in Nat /\ back.fee \in Nat /\ there.fee \in Nat
  BY <1>1, <1>4, QuoteAssumption DEF V3Arguments, U128
<1>9. (there.out - back.fee) * unit <= there.out * unit
  BY <1>4, <1>5, <1>8, Multiply
<1>10. (amount - there.fee) * other <= amount * other
  BY <1>1, <1>5, <1>8, Multiply
<1>11. back.out * other <= amount * other
  <2>1. other * back.out <= there.out * unit
    <3>1. other * back.out <= (there.out - back.fee) * unit
      BY <1>3, <1>4
    <3>2. /\ other * back.out \in Int /\ (there.out - back.fee) * unit \in Int
          /\ there.out * unit \in Int
      BY <1>5, <1>8
    <3> QED
      BY <1>9, <3>1, <3>2
  <2>2. there.out * unit <= amount * other
    <3>1. /\ unit * there.out = there.out * unit /\ there.out * unit \in Int
          /\ (amount - there.fee) * other \in Int /\ amount * other \in Int
      BY <1>5, <1>8
    <3> QED
      BY <1>1, <1>10, <3>1
  <2>3. /\ other * back.out = back.out * other /\ back.out * other \in Int
        /\ there.out * unit \in Int /\ amount * other \in Int
    BY <1>5, <1>8
  <2> QED
    BY <2>1, <2>2, <2>3
<1>12. back.out <= amount
  BY <1>5, <1>7, <1>8, <1>11, Cancel
<1> QED
  BY <1>12 DEF back, there, reverse

-----------------------------------------------------------------------------
(* The graph of the listed pools, and the first path through it *)

Ends(p) == <<TokensOf[p][1], TokensOf[p][2]>>

(* the edge from the pool's first token to its second *)
Across(p) == [token |-> TokensOf[p][2], pool |-> p]

(* g has the edges of the pools and no others *)
IsGraph(g, pools) ==
    /\ g \in [adjacency : [Tokens -> Seq(Edge)], pools : SUBSET Pools,
              assets : [Pools -> Seq(Tokens)]]
    /\ \A t \in Tokens : \A e \in ToSet(g.adjacency[t]) :
          e.pool \in pools /\ PairOf(e.pool) = {t, e.token}
    /\ \A p \in pools :
          g.assets[p] = Ends(p) /\ Across(p) \in ToSet(g.adjacency[TokensOf[p][1]])

(* the two ends of a pool are tokens, and different ones *)
LEMMA TokensTyped ==
    ASSUME NEW p \in Pools
    PROVE  /\ TokensOf[p][1] \in Tokens /\ TokensOf[p][2] \in Tokens
           /\ TokensOf[p][1] # TokensOf[p][2]
           /\ Ends(p) \in Seq(Tokens) /\ Len(Ends(p)) = 2
           /\ ToSet(Ends(p)) = PairOf(p) /\ Across(p) \in Edge
<1>1. TokensOf[p] \in Tokens \X Tokens /\ TokensOf[p][1] # TokensOf[p][2]
  BY SimulationAssumption, PairAssumption
<1>2. TokensOf[p][1] \in Tokens /\ TokensOf[p][2] \in Tokens
  BY <1>1
<1> DEFINE x == TokensOf[p][1]
           y == TokensOf[p][2]
<1> HIDE DEF x, y
<1>3. <<x, y>> \in Seq({x, y}) /\ Len(<<x, y>>) = 2 /\ ToSet(<<x, y>>) = {x, y}
  BY DEF ToSet
<1>4. <<x, y>> \in Seq(Tokens)
  BY <1>2 DEF x, y
<1> QED BY <1>1, <1>2, <1>3, <1>4 DEF x, y, Ends, PairOf, Across, Edge

(* what add_pool gives each of the two tokens *)
LEMMA EdgesOfEnds ==
    ASSUME NEW p \in Pools, NEW t \in PairOf(p)
    PROVE  \E e \in Edge : /\ EdgesFrom(t, p, Ends(p)) = <<e>>
                           /\ e.pool = p /\ PairOf(p) = {t, e.token}
                           /\ t = TokensOf[p][1] => e = Across(p)
<1> DEFINE x == TokensOf[p][1]
           y == TokensOf[p][2]
           others == Tokens \ {t}
<1>1. x \in Tokens /\ y \in Tokens /\ x # y
  BY TokensTyped
<1>2. t = x \/ t = y
  BY DEF PairOf
<1> DEFINE o == IF t = x THEN y ELSE x
<1>3. Select(Ends(p), others) = <<o>>
  <2>1. Ends(p) = Append(<<x>>, y) /\ <<x>> \in Seq(Tokens)
    BY <1>1 DEF Ends
  <2>2. Select(<<x>>, others) = IF x \in others THEN <<x>> ELSE <<>>
    <3> HIDE DEF x, others
    <3> QED BY SelectOne
  <2>3. Select(Append(<<x>>, y), others)
           = IF y \in others THEN Append(Select(<<x>>, others), y) ELSE Select(<<x>>, others)
    <3> HIDE DEF x, y, others
    <3> QED BY <1>1, <2>1, SelectAppend
  <2>4. x \in others <=> t # x
    BY <1>1
  <2>5. y \in others <=> t # y
    BY <1>1
  <2>6. Append(<<>>, y) = <<y>>
    OBVIOUS
  <2> HIDE DEF others, x, y
  <2> QED BY <1>1, <1>2, <2>1, <2>2, <2>3, <2>4, <2>5, <2>6
<1> DEFINE e == [token |-> o, pool |-> p]
<1>4. EdgesFrom(t, p, Ends(p)) = <<e>>
  <2>1. EdgesFrom(t, p, Ends(p)) = [i \in DOMAIN <<o>> |-> [token |-> <<o>>[i], pool |-> p]]
    BY <1>3 DEF EdgesFrom
  <2> HIDE DEF o
  <2> QED BY <2>1
<1>5. e \in Edge /\ e.pool = p /\ PairOf(p) = {t, e.token} /\ (t = x => e = Across(p))
  BY <1>1, <1>2 DEF Edge, PairOf, Across
<1> QED BY <1>4, <1>5

(* add_pool adds the edges of the pool and of no other *)
LEMMA AddedPool ==
    ASSUME NEW g, NEW pools \in SUBSET Pools, IsGraph(g, pools), NEW p \in Pools
    PROVE  IsGraph(AddPool(g, p, Ends(p)), pools \cup {p})
<1> DEFINE h == AddPool(g, p, Ends(p))
<1>1. /\ h.adjacency = [t \in Tokens |-> IF t \in PairOf(p)
                            THEN g.adjacency[t] \o EdgesFrom(t, p, Ends(p))
                            ELSE g.adjacency[t]]
      /\ h.pools = g.pools \cup {p}
      /\ h.assets = [g.assets EXCEPT ![p] = Ends(p)]
      /\ h = [adjacency |-> h.adjacency, pools |-> h.pools, assets |-> h.assets]
  <2>1. Len(Ends(p)) = 2 /\ ToSet(Ends(p)) = PairOf(p) /\ ~ (2 < 2)
    BY TokensTyped
  <2>2. AddPool(g, p, Ends(p)) =
            [adjacency |-> [t \in Tokens |-> IF t \in PairOf(p)
                                THEN g.adjacency[t] \o EdgesFrom(t, p, Ends(p))
                                ELSE g.adjacency[t]],
             pools     |-> g.pools \cup {p},
             assets    |-> [g.assets EXCEPT ![p] = Ends(p)]]
    BY <2>1 DEF AddPool
  <2> QED BY <2>2
<1> HIDE DEF h
<1>2. ASSUME NEW t \in Tokens
      PROVE  /\ h.adjacency[t] \in Seq(Edge)
             /\ t \notin PairOf(p) => h.adjacency[t] = g.adjacency[t]
             /\ t \in PairOf(p) =>
                  \E e \in Edge : /\ ToSet(h.adjacency[t]) = ToSet(g.adjacency[t]) \cup {e}
                                  /\ e.pool = p /\ PairOf(p) = {t, e.token}
                                  /\ t = TokensOf[p][1] => e = Across(p)
  <2>1. g.adjacency[t] \in Seq(Edge)
    BY DEF IsGraph
  <2>2. CASE t \notin PairOf(p)
    BY <1>1, <2>1, <2>2
  <2>3. CASE t \in PairOf(p)
    <3>1. PICK e \in Edge : /\ EdgesFrom(t, p, Ends(p)) = <<e>>
                            /\ e.pool = p /\ PairOf(p) = {t, e.token}
                            /\ t = TokensOf[p][1] => e = Across(p)
      BY <2>3, EdgesOfEnds
    <3> DEFINE s == g.adjacency[t]
    <3>2. h.adjacency[t] = s \o <<e>>
      BY <1>1, <2>3, <3>1
    <3>3. s \in Seq(Edge)
      BY <2>1
    <3> HIDE DEF s
    <3>4. s \o <<e>> = Append(s, e) /\ Append(s, e) \in Seq(Edge)
      BY <3>3
    <3>5. ToSet(Append(s, e)) = ToSet(s) \cup {e}
      BY <3>3, ToSetAppend
    <3> QED BY <2>3, <3>1, <3>2, <3>4, <3>5 DEF s
  <2> QED BY <2>2, <2>3
<1>3. h \in [adjacency : [Tokens -> Seq(Edge)], pools : SUBSET Pools, assets : [Pools -> Seq(Tokens)]]
  <2>1. h.adjacency \in [Tokens -> Seq(Edge)]
    BY <1>1, <1>2
  <2>2. h.pools \in SUBSET Pools /\ h.assets \in [Pools -> Seq(Tokens)]
    <3>1. g.pools \in SUBSET Pools /\ g.assets \in [Pools -> Seq(Tokens)]
      BY DEF IsGraph
    <3> QED BY <1>1, <3>1, TokensTyped
  <2> QED BY <1>1, <2>1, <2>2
<1>4. ASSUME NEW t \in Tokens, NEW e \in ToSet(h.adjacency[t])
      PROVE  e.pool \in pools \cup {p} /\ PairOf(e.pool) = {t, e.token}
  <2>1. CASE e \in ToSet(g.adjacency[t])
    BY <2>1 DEF IsGraph
  <2>2. CASE e \notin ToSet(g.adjacency[t])
    BY <1>2, <1>4, <2>2
  <2> QED BY <2>1, <2>2
<1>5. ASSUME NEW q \in pools \cup {p}
      PROVE  h.assets[q] = Ends(q) /\ Across(q) \in ToSet(h.adjacency[TokensOf[q][1]])
  <2>1. q \in Pools /\ TokensOf[q][1] \in Tokens /\ TokensOf[q][1] \in PairOf(q)
    BY TokensTyped DEF PairOf
  <2>2. h.assets[q] = Ends(q)
    <3>1. g.assets \in [Pools -> Seq(Tokens)] /\ (q # p => g.assets[q] = Ends(q))
      BY DEF IsGraph
    <3> QED BY <1>1, <2>1, <3>1
  <2>3. CASE q = p
    BY <1>2, <2>1, <2>2, <2>3
  <2>4. CASE q # p
    <3>1. Across(q) \in ToSet(g.adjacency[TokensOf[q][1]])
      BY <2>4 DEF IsGraph
    <3> QED BY <1>2, <2>1, <2>2, <3>1
  <2> QED BY <2>3, <2>4
<1>6. IsGraph(h, pools \cup {p})
  BY <1>3, <1>4, <1>5 DEF IsGraph
<1> QED BY <1>6 DEF h

(* the empty graph has the edges of no pool *)
LEMMA NoGraph == IsGraph(EmptyGraph, {})
<1>1. <<>> \in Seq(Edge) /\ <<>> \in Seq(Tokens) /\ ToSet(<<>>) = {}
  BY DEF ToSet
<1> QED BY <1>1 DEF IsGraph, EmptyGraph

(* the graph build_graph_path makes has the edges of the pools listed *)
LEMMA GraphOfListed ==
    ASSUME NEW pools \in SUBSET Pools, NEW order \in Seq(pools)
    PROVE  IsGraph(GraphOf(order), ToSet(order))
<1> DEFINE m == Len(order)
           X == {g \in [adjacency : [Tokens -> Seq(Edge)], pools : SUBSET Pools,
                        assets : [Pools -> Seq(Tokens)]] :
                   \E S \in SUBSET Pools : IsGraph(g, S)}
           Next1(n, g) == AddPool(g, order[n], Ends(order[n]))
           Is(f) == f = [n \in 0..m |-> IF n = 0 THEN EmptyGraph ELSE Next1(n, f[n - 1])]
           k == [n \in 1..m |-> [x \in X |-> Next1(n, x)]]
<1>1. m \in Nat /\ \A n \in 1..m : order[n] \in Pools
  OBVIOUS
<1>2. \A n \in 1..m : n \in 0..m /\ n - 1 \in 0..m /\ n # 0
  BY <1>1
<1>3. 0 \in 0..m /\ \A n \in 0..m : n = 0 \/ n \in 1..m
  BY <1>1
<1>4. EmptyGraph \in X
  BY NoGraph DEF IsGraph
<1>5. \A n \in 1..m : \A x \in X : Next1(n, x) \in X
  <2> SUFFICES ASSUME NEW n \in 1..m, NEW x \in X PROVE Next1(n, x) \in X
    OBVIOUS
  <2>1. PICK S \in SUBSET Pools : IsGraph(x, S)
    OBVIOUS
  <2>2. IsGraph(Next1(n, x), S \cup {order[n]})
    BY <1>1, <2>1, AddedPool
  <2> DEFINE y == Next1(n, x)
  <2> HIDE DEF y
  <2>3. IsGraph(y, S \cup {order[n]}) /\ S \cup {order[n]} \in SUBSET Pools
    BY <1>1, <2>2 DEF y
  <2>4. y \in X
    BY <2>3 DEF IsGraph
  <2> QED BY <2>4 DEF y
<1>6. PICK f \in [0..m -> X] : f[0] = EmptyGraph /\ \A n \in 1..m : f[n] = k[n][f[n - 1]]
  <2>1. k \in [1..m -> [X -> X]]
    <3> HIDE DEF X, m, Next1
    <3> QED BY <1>5
  <2>2. IsRecursion(X, EmptyGraph, m, k)
    BY <1>1, <1>4, <2>1 DEF IsRecursion
  <2> HIDE DEF k, X, m
  <2>3. HasValue(X, EmptyGraph, m, k)
    BY <2>2, Recursion
  <2> QED BY <2>3 DEF HasValue
<1>7. \A n \in 1..m : f[n] = Next1(n, f[n - 1])
  <2> HIDE DEF X, m, Next1
  <2> QED BY <1>2, <1>6
<1>8. Is(f)
  <2> HIDE DEF X, m, k, Next1
  <2> QED BY <1>3, <1>6, <1>7
<1>9. Is(CHOOSE e : Is(e))
  <2> HIDE DEF Is
  <2> QED BY <1>8
<1> DEFINE h == CHOOSE e : Is(e)
<1>10. GraphOf(order) = h[m]
  BY DEF GraphOf, Ends
<1> HIDE DEF h
<1>11. h[0] = EmptyGraph /\ \A n \in 1..m : h[n] = Next1(n, h[n - 1])
  <2>1. Is(h)
    BY <1>9 DEF h
  <2> HIDE DEF m, Next1
  <2> QED BY <1>2, <1>3, <2>1
<1> DEFINE Among(n) == {order[i] : i \in 1..n}
           P == {n \in 0..m : IsGraph(h[n], Among(n))}
<1>12. 0 \in P
  <2>1. Among(0) = {}
    OBVIOUS
  <2> HIDE DEF Among
  <2> QED BY <1>3, <1>11, <2>1, NoGraph
<1>13. ASSUME NEW n \in 1..m, n - 1 \in P PROVE n \in P
  <2>1. Among(n) = Among(n - 1) \cup {order[n]}
    <3>1. 1..n = 1..(n - 1) \cup {n}
      OBVIOUS
    <3> QED BY <3>1
  <2>2. Among(n - 1) \in SUBSET Pools
    BY <1>1
  <2> HIDE DEF Among
  <2>3. IsGraph(h[n - 1], Among(n - 1))
    BY <1>13
  <2>4. IsGraph(Next1(n, h[n - 1]), Among(n - 1) \cup {order[n]})
    BY <1>1, <2>2, <2>3, AddedPool
  <2> HIDE DEF Next1
  <2>5. h[n] = Next1(n, h[n - 1])
    BY <1>11
  <2> QED BY <1>2, <2>1, <2>4, <2>5
<1>14. m \in P
  <2> HIDE DEF P, m
  <2>1. 0..m \subseteq P
    BY <1>1, <1>12, <1>13, BoundedInduction
  <2> QED BY <1>1, <2>1
<1>15. Among(m) = ToSet(order)
  BY DEF ToSet
<1> HIDE DEF Among
<1> QED BY <1>10, <1>14, <1>15

(* the search makes paths from paths *)
LEMMA ExtensionsTyped ==
    ASSUME NEW g, NEW pools, IsGraph(g, pools), NEW path \in Path
    PROVE  Extensions(g, path) \in Seq(Path)
<1> DEFINE W == {e \in Edge : e.token \notin path.visited /\ Buildable(g, path.at, e)}
           edges == Select(g.adjacency[path.at], W)
<1>1. g.adjacency[path.at] \in Seq(Edge)
  BY DEF IsGraph, Path
<1>2. edges \in Seq(Edge \cap W)
  <2> HIDE DEF W
  <2> QED BY <1>1, SelectType
<1>3. \A e \in Edge : Extend(path, e) \in Path
  <2> SUFFICES ASSUME NEW e \in Edge PROVE Extend(path, e) \in Path
    OBVIOUS
  <2>1. e.token \in Tokens /\ path.visited \cup {e.token} \in SUBSET Tokens
    BY DEF Edge, Path
  <2>2. BuildStep(path.at, e) \in Step
    BY DEF BuildStep, Step, Edge, Path
  <2>3. path.steps \in Seq(Step)
    BY DEF Path
  <2> DEFINE st == path.steps
             bs == BuildStep(path.at, e)
  <2>4. Append(st, bs) \in Seq(Step)
    <3> HIDE DEF st, bs
    <3>1. st \in Seq(Step) /\ bs \in Step
      BY <2>2, <2>3 DEF st, bs
    <3> QED BY <3>1
  <2> QED BY <2>1, <2>4 DEF Extend, Path
<1>4. Extensions(g, path) = [i \in DOMAIN edges |-> Extend(path, edges[i])]
  BY DEF Extensions
<1> HIDE DEF edges, W
<1>5. [i \in DOMAIN edges |-> Extend(path, edges[i])] \in Seq(Path)
  <2>1. DOMAIN edges = 1..Len(edges) /\ Len(edges) \in Nat /\ \A i \in DOMAIN edges : edges[i] \in Edge
    BY <1>2
  <2> DEFINE x == [i \in 1..Len(edges) |-> Extend(path, edges[i])]
  <2>2. x \in [1..Len(edges) -> Path]
    BY <1>3, <2>1
  <2> QED BY <2>1, <2>2
<1> QED BY <1>4, <1>5

(* one level of the search makes paths from paths *)
LEMMA ExtendAllTyped ==
    ASSUME NEW g, NEW pools, IsGraph(g, pools), NEW paths \in Seq(Path)
    PROVE  ExtendAll(g, paths) \in Seq(Path)
<1> DEFINE n == Len(paths)
           all == [i \in DOMAIN paths |-> Extensions(g, paths[i])]
<1>1. n \in Nat /\ DOMAIN paths = 1..n /\ \A i \in 1..n : paths[i] \in Path
  OBVIOUS
<1>2. all \in [1..n -> Seq(Path)]
  <2> HIDE DEF n
  <2> QED BY <1>1, ExtensionsTyped
<1>3. all \in Seq(Seq(Path))
  <2> HIDE DEF all, n
  <2> QED BY <1>1, <1>2
<1> HIDE DEF all
<1>4. FlattenSeq(all) \in Seq(Path)
  BY <1>3, FlattenType
<1> QED BY <1>4 DEF ExtendAll, all

FirstLevel(start) == <<[at |-> start, steps |-> <<>>, visited |-> {start}]>>

(* the levels of the search, as a function with a type *)
Levels(level, g, start, target, m) ==
    /\ level \in [0..m -> Seq(Path)]
    /\ level[0] = FirstLevel(start)
    /\ \A n \in 1..m : level[n] = ExtendAll(g, Select(level[n - 1], Path \ Ending(target)))

(* every level of the search is a sequence of paths *)
LEMMA LevelsOfPaths ==
    ASSUME NEW g, NEW pools, IsGraph(g, pools), NEW start \in Tokens, NEW target \in Tokens,
           NEW m \in Nat
    PROVE  Levels(PathsByLength(g, start, target, m), g, start, target, m)
<1> DEFINE X == Seq(Path)
           T == Path \ Ending(target)
           Longer(x) == ExtendAll(g, Select(x, T))
           c == FirstLevel(start)
           Is(f) == f = [n \in 0..m |-> IF n = 0 THEN c ELSE Longer(f[n - 1])]
           k == [n \in 1..m |-> [x \in X |-> Longer(x)]]
<1>1. \A n \in 1..m : n \in 0..m /\ n - 1 \in 0..m /\ n # 0
  OBVIOUS
<1>2. 0 \in 0..m /\ \A n \in 0..m : n = 0 \/ n \in 1..m
  OBVIOUS
<1>3. c \in X
  <2> DEFINE e == [at |-> start, steps |-> <<>>, visited |-> {start}]
  <2>1. e \in Path
    <3>1. <<>> \in Seq(Step) /\ {start} \in SUBSET Tokens
      OBVIOUS
    <3> QED BY <3>1 DEF Path
  <2> HIDE DEF e
  <2>2. <<e>> \in Seq(Path)
    BY <2>1
  <2> QED BY <2>2 DEF e, FirstLevel
<1>4. \A x \in X : Longer(x) \in X
  <2> SUFFICES ASSUME NEW x \in X PROVE Longer(x) \in X
    OBVIOUS
  <2>1. Select(x, T) \in Seq(Path \cap T)
    <3> HIDE DEF T
    <3> QED BY SelectType
  <2> DEFINE y == Select(x, T)
  <2> HIDE DEF y, T
  <2>2. y \in Seq(Path \cap T)
    BY <2>1 DEF y
  <2>3. y \in Seq(Path)
    <3>1. \A i \in 1..Len(y) : y[i] \in Path
      BY <2>2
    <3>2. Len(y) \in Nat /\ y = [i \in 1..Len(y) |-> y[i]]
      BY <2>2
    <3> DEFINE z == [i \in 1..Len(y) |-> y[i]]
    <3>3. z \in [1..Len(y) -> Path]
      BY <3>1
    <3> HIDE DEF z
    <3>4. z \in Seq(Path)
      BY <3>2, <3>3
    <3> QED BY <3>2, <3>4 DEF z
  <2>4. ExtendAll(g, y) \in Seq(Path)
    BY <2>3, ExtendAllTyped
  <2> QED BY <2>4 DEF y
<1>5. PICK f \in [0..m -> X] : f[0] = c /\ \A n \in 1..m : f[n] = k[n][f[n - 1]]
  <2>1. k \in [1..m -> [X -> X]]
    <3> HIDE DEF X, Longer
    <3> QED BY <1>4
  <2>2. IsRecursion(X, c, m, k)
    BY <1>3, <2>1 DEF IsRecursion
  <2> HIDE DEF k, X, c
  <2>3. HasValue(X, c, m, k)
    BY <2>2, Recursion
  <2> QED BY <2>3 DEF HasValue
<1>6. \A n \in 1..m : f[n] = Longer(f[n - 1])
  <2> HIDE DEF X, Longer
  <2> QED BY <1>1, <1>5
<1>7. Is(f)
  <2> HIDE DEF X, k, c, Longer
  <2> QED BY <1>2, <1>5, <1>6
<1>8. Is(CHOOSE e : Is(e))
  <2> HIDE DEF Is
  <2> QED BY <1>7
<1> DEFINE h == CHOOSE e : Is(e)
<1>9. PathsByLength(g, start, target, m) = h
  BY DEF PathsByLength, FirstLevel
<1> HIDE DEF h
<1>10. h[0] = c /\ \A n \in 1..m : h[n] = Longer(h[n - 1])
  <2>1. Is(h)
    BY <1>8 DEF h
  <2> HIDE DEF c, Longer
  <2> QED BY <1>1, <1>2, <2>1
<1>11. h \in [0..m -> X]
  <2> HIDE DEF X, c, Longer
  <2> DEFINE P == {n \in 0..m : h[n] \in X}
  <2>1. 0 \in P
    BY <1>2, <1>3, <1>10
  <2>2. ASSUME NEW n \in 1..m, n - 1 \in P PROVE n \in P
    BY <1>1, <1>4, <1>10, <2>2
  <2>3. 0..m \subseteq P
    <3> HIDE DEF P
    <3> QED BY <2>1, <2>2, BoundedInduction
  <2>4. h = [n \in 0..m |-> h[n]]
    <3>1. Is(h)
      BY <1>8 DEF h
    <3> QED BY <3>1
  <2> QED BY <2>3, <2>4
<1> QED BY <1>9, <1>10, <1>11 DEF Levels

(* the path of one step over the edge e from start *)
Single(start, e) == [pool |-> e.pool, input |-> start, output |-> e.token]

(* the first of these paths is a step over a pool of the pair *)
BeginsOver(ends, start, target, pools) ==
    \E e \in Edge : /\ e.pool \in pools /\ PairOf(e.pool) = {start, target}
                    /\ e.token = target /\ Head(ends).steps = <<Single(start, e)>>

(* The extensions of the search's first path that end at the target are     *)
(* single steps, and the edge across the pool itself is one.                *)
LEMMA FirstExtensions ==
    ASSUME NEW g, NEW pools \in SUBSET Pools, IsGraph(g, pools), NEW pool \in pools
    PROVE  LET start  == TokensOf[pool][1]
               target == TokensOf[pool][2]
               ends   == Select(Extensions(g, Head(FirstLevel(start))), Ending(target))
           IN ends \in Seq(Path) /\ ends # <<>> /\ BeginsOver(ends, start, target, pools)
<1> DEFINE start  == TokensOf[pool][1]
           target == TokensOf[pool][2]
           first  == Head(FirstLevel(start))
           W      == {e \in Edge : e.token \notin first.visited /\ Buildable(g, first.at, e)}
           adj    == g.adjacency[start]
           edges  == Select(adj, W)
           longer == Extensions(g, first)
           ends   == Select(longer, Ending(target))
<1>1. /\ pool \in Pools /\ start \in Tokens /\ target \in Tokens /\ start # target
      /\ Across(pool) \in Edge /\ Across(pool).token = target
  BY TokensTyped DEF Across
<1>2. first = [at |-> start, steps |-> <<>>, visited |-> {start}]
  BY DEF FirstLevel
<1>3. first \in Path
  <2>1. <<>> \in Seq(Step) /\ {start} \in SUBSET Tokens
    BY <1>1
  <2> HIDE DEF first, start
  <2> QED BY <1>1, <1>2, <2>1 DEF Path
<1>4. adj \in Seq(Edge)
  BY <1>1 DEF IsGraph
<1>5. Across(pool) \in ToSet(adj) \cap W
  <2>1. Across(pool) \in ToSet(adj) /\ g.assets[pool] = Ends(pool) /\ Across(pool).pool = pool
    BY DEF IsGraph, Across
  <2>2. Buildable(g, start, Across(pool))
    BY <1>1, <2>1, TokensTyped DEF Buildable, PairOf
  <2> QED BY <1>1, <1>2, <2>1, <2>2
<1>6. edges \in Seq(Edge \cap W) /\ ToSet(edges) = ToSet(adj) \cap W
  <2> HIDE DEF adj, W
  <2> QED BY <1>4, SelectType, SelectMembers
<1>7. longer = [i \in DOMAIN edges |-> Extend(first, edges[i])]
  BY <1>2 DEF Extensions
<1>8. longer \in Seq(Path)
  <2> HIDE DEF first
  <2> QED BY <1>3, ExtensionsTyped
<1> HIDE DEF first, W, edges, longer
<1>9. ends \in Seq(Path \cap Ending(target)) /\ ToSet(ends) = ToSet(longer) \cap Ending(target)
  BY <1>8, SelectType, SelectMembers
<1>10. Extend(first, Across(pool)) \in ToSet(ends)
  <2>1. PICK i \in DOMAIN edges : edges[i] = Across(pool)
    BY <1>5, <1>6 DEF ToSet
  <2>2. longer[i] = Extend(first, Across(pool)) /\ i \in DOMAIN longer
    BY <1>7, <2>1
  <2>3. longer[i] \in Path
    BY <1>8, <2>2
  <2>4. Extend(first, Across(pool)).at = target
    BY <1>1 DEF Extend
  <2>5. longer[i] \in ToSet(longer)
    BY <2>2 DEF ToSet
  <2> QED BY <1>9, <2>2, <2>3, <2>4, <2>5 DEF Ending
<1> HIDE DEF ends
<1>11. ends # <<>> /\ Head(ends) = ends[1] /\ 1 \in DOMAIN ends
  <2>1. ends # <<>>
    BY <1>10 DEF ToSet
  <2> QED BY <1>9, <2>1
<1>12. ends \in Seq(Path)
  <2> DEFINE E == Path \cap Ending(target)
  <2>1. E \subseteq Path /\ ends \in Seq(E)
    BY <1>9
  <2> HIDE DEF E
  <2> QED BY <2>1
<1>13. PICK i \in DOMAIN edges : Head(ends) = Extend(first, edges[i])
  <2>1. Head(ends) \in ToSet(longer)
    BY <1>9, <1>11 DEF ToSet
  <2> QED BY <1>7, <2>1 DEF ToSet
<1> DEFINE e == edges[i]
<1>14. e \in Edge /\ e \in ToSet(adj)
  BY <1>6, <1>13 DEF ToSet
<1>15. e.pool \in pools /\ PairOf(e.pool) = {start, e.token}
  <2> HIDE DEF e
  <2> QED BY <1>1, <1>14 DEF IsGraph
<1>16. e.token = target
  <2>1. Head(ends) \in Ending(target)
    BY <1>9, <1>11
  <2>2. Head(ends).at = e.token
    BY <1>13 DEF Extend
  <2> QED BY <2>1, <2>2 DEF Ending
<1>17. Head(ends).steps = <<Single(start, e)>>
  <2> HIDE DEF e
  <2>1. Extend(first, e).steps = Append(<<>>, BuildStep(start, e))
    BY <1>2 DEF Extend
  <2>2. BuildStep(start, e) = Single(start, e)
    BY DEF BuildStep, Single
  <2> DEFINE b == Single(start, e)
  <2>3. Append(<<>>, b) = <<b>>
    <3> HIDE DEF b
    <3> QED OBVIOUS
  <2> QED BY <1>13, <2>1, <2>2, <2>3 DEF e
<1> HIDE DEF e
<1>18. BeginsOver(ends, start, target, pools)
  BY <1>14, <1>15, <1>16, <1>17 DEF BeginsOver
<1> QED BY <1>11, <1>12, <1>18 DEF ends, longer, first

(* path goes over one pool, of the pair asked for and in its direction *)
Direct(path, pool, listed) ==
    \E step \in Step : /\ path = <<step>> /\ step.pool \in listed
                      /\ PairOf(step.pool) = PairOf(pool) /\ step.input = TokensOf[pool][1]

(* The search from one token of a listed pool to its other finds a direct   *)
(* path first, in whatever order the pools are listed (build_graph_path,    *)
(* find_paths).                                                             *)
LEMMA FirstPathIsDirect ==
    ASSUME NEW pools \in SUBSET Pools, NEW order \in Orders(pools), NEW pool \in pools
    PROVE  Direct(FirstPath(order, pool), pool, pools)
<1> DEFINE g      == GraphOf(order)
           start  == TokensOf[pool][1]
           target == TokensOf[pool][2]
           level  == PathsByLength(g, start, target, MaxHops)
           f1     == FirstLevel(start)
           ends   == Select(Extensions(g, Head(f1)), Ending(target))
           by     == [n \in 1..MaxHops |-> Select(level[n], Ending(target))]
           paths  == FlattenSeq(by)
<1>1. pool \in Pools /\ start \in Tokens /\ target \in Tokens /\ start # target /\ MaxHops \in Nat \ {0}
  BY TokensTyped, SimulationAssumption
<1>2. IsGraph(g, pools)
  <2>1. Cardinality(pools) \in Nat
    BY SimulationAssumption, FS_Subset, FS_CardinalityType
  <2>2. order \in Seq(pools) /\ ToSet(order) = pools
    BY <2>1 DEF Orders
  <2> QED BY <2>2, GraphOfListed
<1> HIDE DEF g
<1>3. Levels(level, g, start, target, MaxHops)
  <2> HIDE DEF start, target
  <2> QED BY <1>1, <1>2, LevelsOfPaths
<1>4. ends \in Seq(Path) /\ ends # <<>>
  BY <1>2, FirstExtensions
<1>5. PICK e \in Edge : /\ e.pool \in pools /\ PairOf(e.pool) = {start, target}
                       /\ e.token = target /\ Head(ends).steps = <<Single(start, e)>>
  <2>1. BeginsOver(ends, start, target, pools)
    BY <1>2, FirstExtensions
  <2> HIDE DEF ends, start, target
  <2> QED BY <2>1 DEF BeginsOver
<1> HIDE DEF level
<1>6. level[1] = Extensions(g, Head(f1))
  <2>1. level[1] = ExtendAll(g, Select(level[0], Path \ Ending(target))) /\ level[0] = f1
    <3>1. 1 \in 1..MaxHops /\ 1 - 1 = 0
      BY <1>1
    <3> HIDE DEF start, target, f1
    <3> QED BY <1>3, <3>1 DEF Levels, f1
  <2> DEFINE p == [at |-> start, steps |-> <<>>, visited |-> {start}]
  <2>2. f1 = <<p>> /\ Head(f1) = p
    BY DEF FirstLevel
  <2>3. p \in Path \ Ending(target)
    <3>1. <<>> \in Seq(Step) /\ {start} \in SUBSET Tokens
      BY <1>1
    <3>2. p \in Path
      BY <1>1, <3>1 DEF Path
    <3> QED BY <1>1, <3>2 DEF Ending
  <2> HIDE DEF p, f1
  <2>4. Select(<<p>>, Path \ Ending(target)) = <<p>>
    BY <2>3, SelectOne
  <2> DEFINE x == Extensions(g, p)
  <2>5. x \in Seq(Path)
    BY <1>2, <2>3, ExtensionsTyped
  <2>6. ExtendAll(g, <<p>>) = FlattenSeq(<<x>>)
    <3>1. DOMAIN <<p>> = {1} /\ <<p>>[1] = p
      OBVIOUS
    <3>2. [i \in DOMAIN <<p>> |-> Extensions(g, <<p>>[i])] = <<x>>
      <4> DEFINE l == [i \in {1} |-> Extensions(g, <<p>>[i])]
      <4>1. l[1] = x
        BY <3>1
      <4>2. l = [i \in 1..1 |-> x]
        BY <3>1
      <4> HIDE DEF x
      <4>3. [i \in 1..1 |-> x] = <<x>>
        OBVIOUS
      <4> QED BY <3>1, <4>2, <4>3
    <3> QED BY <3>2 DEF ExtendAll
  <2> HIDE DEF x
  <2>7. FlattenSeq(<<x>>) = x
    BY <2>5, FlattenOne
  <2> QED BY <2>1, <2>2, <2>4, <2>6, <2>7 DEF x
<1> HIDE DEF f1
<1>7. by \in Seq(Seq(Path)) /\ by # <<>> /\ by[1] = ends
  <2>1. \A n \in 1..MaxHops : level[n] \in Seq(Path)
    BY <1>3 DEF Levels
  <2>2. \A n \in 1..MaxHops : Select(level[n], Ending(target)) \in Seq(Path)
    <3> SUFFICES ASSUME NEW n \in 1..MaxHops PROVE Select(level[n], Ending(target)) \in Seq(Path)
      OBVIOUS
    <3> DEFINE E == Path \cap Ending(target)
    <3>1. Select(level[n], Ending(target)) \in Seq(E) /\ E \subseteq Path
      BY <2>1, SelectType
    <3> HIDE DEF E
    <3> QED BY <3>1
  <2>3. 1 \in 1..MaxHops
    BY <1>1
  <2> HIDE DEF ends, target
  <2>4. by \in [1..MaxHops -> Seq(Path)] /\ by[1] = Select(level[1], Ending(target))
    BY <2>2, <2>3
  <2>5. by[1] = ends
    BY <1>6, <2>4 DEF ends
  <2> HIDE DEF by
  <2>6. Len(by) = MaxHops /\ by \in Seq(Seq(Path))
    BY <1>1, <2>4
  <2> QED BY <1>1, <2>5, <2>6
<1> HIDE DEF by, ends
<1>8. paths # <<>> /\ Head(paths) = Head(ends) /\ paths \in Seq(Path)
  BY <1>4, <1>7, FlattenHead, FlattenType
<1>9. FindPaths(g, start, target, MaxHops) = [i \in DOMAIN paths |-> paths[i].steps]
  BY <1>1 DEF FindPaths, paths, by, level
<1> HIDE DEF paths
<1>10. /\ [i \in DOMAIN paths |-> paths[i].steps] # <<>>
       /\ Head([i \in DOMAIN paths |-> paths[i].steps]) = Head(paths).steps
  <2>1. Len(paths) \in Nat \ {0} /\ DOMAIN paths = 1..Len(paths) /\ Head(paths) = paths[1]
    BY <1>8
  <2> DEFINE q == [i \in 1..Len(paths) |-> paths[i].steps]
  <2>2. q[1] = paths[1].steps /\ DOMAIN q = 1..Len(paths) /\ 1 \in DOMAIN q
    BY <2>1
  <2>3. q # <<>>
    BY <2>2
  <2> QED BY <2>1, <2>2, <2>3
<1>11. FirstPath(order, pool) = Head(ends).steps
  BY <1>8, <1>9, <1>10 DEF FirstPath, g
<1> DEFINE step == Single(start, e)
<1>12. step \in Step /\ step.pool = e.pool /\ step.input = start
  <2>1. e.pool \in Pools /\ e.token \in Tokens
    BY DEF Edge
  <2> QED BY <1>1, <2>1 DEF Single, Step
<1>13. PairOf(pool) = {start, target}
  BY DEF PairOf
<1> HIDE DEF step, start, target
<1>14. FirstPath(order, pool) = <<step>>
  BY <1>5, <1>11 DEF step
<1> QED BY <1>5, <1>12, <1>13, <1>14 DEF Direct, start

-----------------------------------------------------------------------------
(* The invariant *)

Looking == {"idle", "get", "load", "upsert"}

(* A request: a path, once found, is direct, so its only leg is the first   *)
RequestInv(q) ==
    /\ q \in Request
    /\ q.pc = "done" <=> q.answer # Absent
    /\ q.pc \in {"getV3", "upsertV3", "legV3"} => q.kind = "v3"
    /\ q.pc \in {"get", "load", "upsert", "list", "leg"} => q.kind # "v3"
    /\ q.known => q.pc \in {"list", "leg", "done"}
    /\ q.pc = "leg" => q.path # <<>> /\ q.leg = 1 /\ q.fees = 0 /\ q.holding = q.amount
    /\ q.path # <<>> => /\ q.pc \in {"leg", "done"} /\ q.pool \in Pools
                        /\ Direct(q.path, q.pool, Pools)

(* the reserves after each leg, against those it read *)
LegsInv(q) ==
    /\ Len(q.read) = Len(q.snapshots)
    /\ \A i \in DOMAIN q.snapshots :
          LET s == q.read[i]  n == q.snapshots[i] IN
          n.r0 > 0 /\ n.r1 > 0 /\ n.r0 * n.r1 >= s.r0 * s.r1

AnswerInv(q) ==
    q.answer # Absent /\ q.answer.kind = "ok" =>
        /\ q.kind = "v2" => q.path # <<>>
        /\ q.kind = "v3" /\ V3SqrtPrice = Q => q.answer.out + q.answer.fees = q.amount

Sound(q) == RequestInv(q) /\ LegsInv(q) /\ AnswerInv(q)

Present(p) == repository[p] # Absent

(* how a pool that a request did not find can have come by a state *)
Came(r) ==
    \/ req[r].known \/ req[r].pool \in moved[r] \cup {Sample}
    \/ mode = "cli" /\ Saved(req[r].pool)

(* the states a pool can have *)
Past(p, s) ==
    s \in {FirstState, SampleState} \cup (IF updates > 0 /\ p \in Followed THEN NewStates ELSE {})

(* A request and what it found in the repository and the store *)
SeenInv(r) ==
    LET q == req[r] IN
    /\ q.pc \in {"load", "upsert", "list"} /\ q.pool \in Pools /\ Present(q.pool) => Came(r)
    /\ q.path # <<>> => Came(r) /\ Present(q.path[1].pool)
    /\ q.pc = "upsert" => q.target = Sample \/ (q.target = q.pool /\ Saved(q.pool))
    /\ q.pc = "upsert" /\ q.target \in Pools => Past(q.target, q.loaded)
    /\ q.known /\ q.pool \in Pools => Present(q.pool)
    /\ RefusedThoughKnown(r) /\ v3Known = {} => CanBeRefused(q)

(* The repository and the store: what is saved has been put *)
StatesInv ==
    /\ \A p \in Pools : Present(p) => Past(p, repository[p])
    /\ \A p \in Pools : store[p] # Absent => Past(p, store[p])
    /\ unsaved # Absent /\ unsaved.pool \in Pools =>
          Past(unsaved.pool, unsaved.state) /\ Present(unsaved.pool)
    /\ mode = "service" => \A p \in Pools : store[p] # Absent => Present(p)

(* The command line: one request, over an empty repository until it upserts *)
CommandInv ==
    mode = "cli" =>
        /\ listener = "off" /\ http = "off"
        /\ \A r, t \in Requests : ~At(r, "idle") /\ ~At(t, "idle") => r = t
        /\ (\A r \in Requests : req[r].pc \in Looking) => \A p \in Pools : ~Present(p)

(* The service: requests only while the server is there for them *)
ServerInv ==
    mode = "service" =>
        /\ http \in {"off", "binding", "stopped"} => InFlight = {}
        /\ serve = "ended" => http \in {"off", "stopped"}

IInv ==
    /\ TypeOK
    /\ \A r \in Requests : Sound(req[r]) /\ SeenInv(r)
    /\ StatesInv /\ CommandInv /\ ServerInv

-----------------------------------------------------------------------------
(* What a request keeps, whatever the repository and the store hold *)

(* every answer the code gives is one, and none is taken for no answer *)
LEMMA AnswersTyped ==
    /\ Refused \in Answers /\ Panics \in Answers /\ BadRequest \in Answers
    /\ [kind |-> "ok"] \in Answers
    /\ \A out, fees \in U128, slippage \in Nat :
          [kind |-> "ok", out |-> out, fees |-> fees, slippage |-> slippage] \in Answers
    /\ Absent \notin Answers /\ Absent \notin PoolState /\ Absent \notin Upserted
BY AbsentAssumption DEF Answers

(* a request that moves on without a path or an answer stays sound *)
LEMMA SoundMove ==
    ASSUME NEW q, Sound(q), q.pc \notin {"leg", "done"},
           NEW n \in Request, n.pc \notin {"leg", "done"},
           n.answer = q.answer, n.path = q.path, n.read = q.read, n.snapshots = q.snapshots,
           n.pc \in {"getV3", "upsertV3", "legV3"} => n.kind = "v3",
           n.pc \in {"get", "load", "upsert", "list"} => n.kind # "v3",
           n.known => n.pc = "list"
    PROVE  Sound(n)
<1>1. q.answer = Absent /\ q.path = <<>>
  BY DEF Sound, RequestInv, Request, Points
<1>2. RequestInv(n)
  BY <1>1 DEF RequestInv
<1>3. LegsInv(n)
  BY DEF Sound, LegsInv
<1>4. AnswerInv(n)
  BY <1>1 DEF AnswerInv
<1> QED BY <1>2, <1>3, <1>4 DEF Sound

(* so does one that is answered without a quote *)
LEMMA SoundAnswered ==
    ASSUME NEW q, Sound(q), NEW a \in Answers,
           a.kind = "ok" => /\ q.kind = "v2" => q.path # <<>>
                            /\ q.kind = "v3" /\ V3SqrtPrice = Q => a.out + a.fees = q.amount
    PROVE  Sound(Answered(q, a))
<1> DEFINE n == Answered(q, a)
<1>1. /\ n \in Request /\ n.pc = "done" /\ n.answer = a /\ n.path = q.path /\ n.pool = q.pool
      /\ n.read = q.read /\ n.snapshots = q.snapshots /\ n.kind = q.kind /\ n.amount = q.amount
  BY DEF Sound, RequestInv, Request, Points, Answered
<1>2. a # Absent
  BY AnswersTyped
<1> HIDE DEF n
<1>3. RequestInv(n)
  BY <1>1, <1>2 DEF Sound, RequestInv, Looking
<1>4. LegsInv(n)
  BY <1>1 DEF Sound, LegsInv
<1>5. AnswerInv(n)
  BY <1>1 DEF AnswerInv
<1> QED BY <1>3, <1>4, <1>5 DEF Sound, n

(* so does one that starts on a direct path *)
LEMMA SoundStarted ==
    ASSUME NEW q \in Request, q.kind # "v3", q.answer = Absent, q.pool \in Pools, q.path # <<>>,
           Direct(q.path, q.pool, Pools)
    PROVE  Sound(Started(q))
<1> DEFINE n == Started(q)
<1>1. /\ n \in Request /\ n.pc = "leg" /\ n.answer = Absent /\ n.path = q.path /\ n.pool = q.pool
      /\ n.read = <<>> /\ n.snapshots = <<>> /\ n.kind = q.kind /\ n.amount = q.amount
      /\ n.leg = 1 /\ n.fees = 0 /\ n.holding = q.amount
  <2>1. 0 \in U128 /\ 0 \in Nat /\ 1 \in Nat /\ <<>> \in Seq(PoolState)
    BY QuoteAssumption DEF U128
  <2>2. n \in Request
    BY <2>1 DEF Request, Points, Started
  <2> QED BY <2>2 DEF Request, Started
<1> HIDE DEF n
<1>2. RequestInv(n)
  BY <1>1 DEF RequestInv, Looking
<1>3. LegsInv(n)
  BY <1>1 DEF LegsInv
<1>4. AnswerInv(n)
  BY <1>1 DEF AnswerInv
<1> QED BY <1>2, <1>3, <1>4 DEF Sound, n

(* The end of one simulation, for all of the request but where the          *)
(* simulation has come to.                                                  *)
LEMMA SoundFinished ==
    ASSUME NEW q \in Request, q.pc = "leg", q.kind # "v3", q.answer = Absent, q.pool \in Pools,
           q.path # <<>>, Direct(q.path, q.pool, Pools), LegsInv(q),
           NEW result \in Answers, result.kind = "ok" => result.out \in U128
    PROVE  Sound(Finished(q, result))
<1> DEFINE outs == IF result.kind = "ok" THEN Append(q.outs, result.out) ELSE q.outs
           n0 == Answered(q, result)
           n1 == [q EXCEPT !.outs = outs, !.runs = @ - 1]
           n2 == Answered([q EXCEPT !.outs = outs, !.runs = 0], [kind |-> "ok"])
<1>1. outs \in Seq(U128)
  BY DEF Request
<1> HIDE DEF outs
<1>2. result # Absent /\ [kind |-> "ok"] \in Answers /\ [kind |-> "ok"] # Absent
  BY AnswersTyped
<1>3. Sound(n0)
  <2>1. /\ n0 \in Request /\ n0.pc = "done" /\ n0.answer = result /\ n0.path = q.path
        /\ n0.pool = q.pool /\ n0.read = q.read /\ n0.snapshots = q.snapshots /\ n0.kind = q.kind
    BY DEF Request, Points, Answered
  <2> HIDE DEF n0
  <2>2. RequestInv(n0)
    BY <1>2, <2>1 DEF RequestInv, Looking
  <2> QED BY <2>1, <2>2 DEF Sound, LegsInv, AnswerInv
<1>4. ASSUME q.runs > 1 PROVE Sound(Started(n1))
  <2>1. /\ n1 \in Request /\ n1.kind = q.kind /\ n1.answer = q.answer /\ n1.pool = q.pool
        /\ n1.path = q.path
    <3>1. q.runs - 1 \in Nat
      BY <1>4 DEF Request
    <3> QED BY <1>1, <3>1 DEF Request
  <2> HIDE DEF n1
  <2> QED BY <2>1, SoundStarted
<1>5. ASSUME q.kind = "bench" PROVE Sound(n2)
  <2>1. /\ n2 \in Request /\ n2.pc = "done" /\ n2.answer = [kind |-> "ok"] /\ n2.path = q.path
        /\ n2.pool = q.pool /\ n2.read = q.read /\ n2.snapshots = q.snapshots /\ n2.kind = "bench"
    BY <1>1, <1>2, <1>5 DEF Request, Points, Answered
  <2> HIDE DEF n2
  <2>2. RequestInv(n2)
    BY <1>2, <2>1 DEF RequestInv, Looking
  <2> QED BY <2>1, <2>2 DEF Sound, LegsInv, AnswerInv
<1>6. Finished(q, result) =
         IF q.kind # "bench" \/ result.kind = "panics" THEN n0
         ELSE IF q.runs > 1 THEN Started(n1) ELSE n2
  BY DEF Finished, outs
<1> QED BY <1>3, <1>4, <1>5, <1>6

(* quote_swap refuses, panics or gives a quote that fits u128 *)
LEMMA QuoteKinds ==
    ASSUME NEW in, NEW out, NEW amount, NEW fee, QuoteV2(in, out, amount, fee).kind # "ok"
    PROVE  QuoteV2(in, out, amount, fee) \in {Refused, Panics}
<1> DEFINE quote == QuoteV2(in, out, amount, fee)
           a == amount = 0 \/ fee > FeeDenom \/ in = 0 \/ out = 0
           b == Numerator(out, amount, fee) > MaxU256
           got == AmountOut(in, out, amount, fee)
           c == got = 0 \/ got > MaxU128 \/ in + amount > MaxU128 \/ got > out
           ok == [kind |-> "ok", out |-> got, fee |-> FeePaid(amount, fee),
                  nextIn |-> in + amount, nextOut |-> out - got]
<1>1. quote = IF a THEN Refused ELSE IF b THEN Panics ELSE IF c THEN Refused ELSE ok
  BY DEF QuoteV2
<1>2. ok.kind = "ok"
  OBVIOUS
<1> HIDE DEF a, b, c, ok, quote
<1>3. quote.kind = "ok" \/ quote \in {Refused, Panics}
  BY <1>1, <1>2
<1> QED BY <1>3 DEF quote

(* What a leg that goes well was quoted at. *)
LEMMA LegQuote ==
    ASSUME NEW q, NEW s \in PoolState \cup {Absent}
    PROVE  LET quote == QuoteLeg(q, s)
               v2    == QuoteV2(ReserveIn(q, s), ReserveOut(q, s), q.holding, V2Fee)
           IN \/ quote = Panics
              \/ quote = Refused /\ (s = Absent \/ v2.kind # "ok" \/ q.fees + v2.fee > MaxU128)
              \/ s \in PoolState /\ quote = v2 /\ v2.kind = "ok" /\ ~ (q.fees + v2.fee > MaxU128)
<1> DEFINE quote == QuoteLeg(q, s)
           v2    == QuoteV2(ReserveIn(q, s), ReserveOut(q, s), q.holding, V2Fee)
           over  == Shortfall(ReserveIn(q, s), ReserveOut(q, s), q.holding, v2.out) > MaxU256
<1>1. quote = IF s = Absent THEN Refused ELSE IF v2.kind # "ok" THEN v2
              ELSE IF q.fees + v2.fee > MaxU128 THEN Refused
              ELSE IF over THEN Panics ELSE v2
  BY DEF QuoteLeg
<1>2. v2.kind # "ok" => v2 \in {Refused, Panics}
  BY QuoteKinds
<1> HIDE DEF quote, v2, over
<1>3. \/ quote = Panics
      \/ quote = Refused /\ (s = Absent \/ v2.kind # "ok" \/ q.fees + v2.fee > MaxU128)
      \/ s \in PoolState /\ quote = v2 /\ v2.kind = "ok" /\ ~ (q.fees + v2.fee > MaxU128)
  BY <1>1, <1>2
<1> QED BY <1>3 DEF quote, v2

(* the slippage of a leg is a natural number *)
LEMMA SlippageTyped ==
    ASSUME NEW in \in Nat \ {0}, NEW out \in Nat, NEW amount \in Nat, NEW got \in Nat
    PROVE  Slippage(in, out, amount, got) \in Nat
<1> DEFINE e == Expected(in, out, amount)
<1>1. e \in Nat
  <2>1. amount * out \in Nat
    BY Natural
  <2> QED BY <2>1, Division DEF Expected
<1> HIDE DEF e
<1>2. CASE e > got
  <2>1. e - got \in Nat /\ e \in Nat \ {0} /\ FeeDenom \in Nat
    BY <1>1, <1>2, QuoteAssumption
  <2>2. Shortfall(in, out, amount, got) = (e - got) * FeeDenom
    BY <1>2 DEF Shortfall, e
  <2> DEFINE d == e - got
             f == (e - got) * FeeDenom
  <2>3. f \in Nat
    <3> HIDE DEF d
    <3>1. d * FeeDenom \in Nat
      BY <2>1, Natural DEF d
    <3> QED BY <3>1 DEF d
  <2> HIDE DEF f
  <2>4. f \div e \in Nat
    BY <2>1, <2>3, Division
  <2> QED BY <1>2, <2>2, <2>4 DEF Slippage, e, f
<1>3. CASE ~ (e > got)
  BY <1>3 DEF Slippage, e
<1> QED BY <1>2, <1>3

(* The state a leg leaves, for the answer. *)
LEMMA LegState ==
    ASSUME NEW q \in Request, NEW step, step = q.path[q.leg], NEW s \in PoolState,
           QuoteV2(ReserveIn(q, s), ReserveOut(q, s), q.holding, V2Fee).kind = "ok"
    PROVE  LET quote == QuoteV2(ReserveIn(q, s), ReserveOut(q, s), q.holding, V2Fee)
               n     == NextState(step, quote)
           IN /\ n \in PoolState /\ n.r0 > 0 /\ n.r1 > 0 /\ n.r0 * n.r1 >= s.r0 * s.r1
              /\ quote.out \in U128 /\ quote.fee \in U128
              /\ Slippage(ReserveIn(q, s), ReserveOut(q, s), q.holding, quote.out) \in Nat
<1> DEFINE in    == ReserveIn(q, s)
           out   == ReserveOut(q, s)
           quote == QuoteV2(in, out, q.holding, V2Fee)
           n     == NextState(step, quote)
<1>1. /\ s.r0 \in U128 /\ s.r1 \in U128 /\ q.holding \in U128 /\ V2Fee \in Nat
      /\ MaxU128 \in Nat
  BY SimulationAssumption, QuoteAssumption DEF PoolState, Request
<1>2. in \in U128 /\ out \in U128 /\ in * out = s.r0 * s.r1
  <2>1. in = (IF Forward(step) THEN s.r0 ELSE s.r1) /\ out = (IF Forward(step) THEN s.r1 ELSE s.r0)
    BY DEF ReserveIn, ReserveOut
  <2>2. s.r0 * s.r1 = s.r1 * s.r0
    BY <1>1 DEF U128
  <2> QED BY <1>1, <2>1, <2>2
<1> HIDE DEF in, out
<1>3. V2Arguments(in, out, q.holding, V2Fee) /\ quote.kind = "ok"
  BY <1>1, <1>2 DEF V2Arguments, in, out
<1>4. /\ quote.out \in U128 /\ quote.fee \in U128
      /\ quote.nextIn \in U128 \ {0} /\ quote.nextOut \in U128 \ {0}
      /\ quote.nextIn * quote.nextOut >= in * out /\ in # 0
  <2> HIDE DEF quote
  <2>1. /\ quote.out \in U128 /\ quote.fee \in U128
        /\ quote.nextIn \in U128 \ {0} /\ quote.nextOut \in U128 \ {0}
    BY <1>3, QuoteV2Fits DEF quote
  <2>2. quote.nextIn * quote.nextOut >= in * out
    BY <1>3, ProductKept DEF quote
  <2>3. in # 0
    BY <1>3, QuoteV2Given DEF quote
  <2> QED BY <2>1, <2>2, <2>3
<1> HIDE DEF quote
<1>5. /\ n.r0 = (IF Forward(step) THEN quote.nextIn ELSE quote.nextOut)
      /\ n.r1 = (IF Forward(step) THEN quote.nextOut ELSE quote.nextIn)
      /\ n \in PoolState
  BY <1>4 DEF NextState, PoolState
<1>6. n.r0 * n.r1 = quote.nextIn * quote.nextOut
  <2>1. quote.nextIn * quote.nextOut = quote.nextOut * quote.nextIn
    BY <1>1, <1>4 DEF U128
  <2> QED BY <1>5, <2>1
<1>7. n.r0 > 0 /\ n.r1 > 0
  BY <1>1, <1>4, <1>5 DEF U128
<1>8. n.r0 * n.r1 >= s.r0 * s.r1
  BY <1>2, <1>4, <1>6
<1>9. Slippage(in, out, q.holding, quote.out) \in Nat
  <2>1. in \in Nat \ {0} /\ out \in Nat /\ q.holding \in Nat /\ quote.out \in Nat
    BY <1>1, <1>2, <1>4 DEF U128
  <2> QED BY <2>1, SlippageTyped
<1> HIDE DEF n
<1>10. /\ n \in PoolState /\ n.r0 > 0 /\ n.r1 > 0 /\ n.r0 * n.r1 >= s.r0 * s.r1
       /\ quote.out \in U128 /\ quote.fee \in U128
       /\ Slippage(in, out, q.holding, quote.out) \in Nat
  BY <1>4, <1>5, <1>7, <1>8, <1>9
<1> QED BY <1>10 DEF in, out, quote, n

(* a direct path is one step over a pool of the pair *)
LEMMA DirectLength ==
    ASSUME NEW path, NEW pool, NEW listed, Direct(path, pool, listed)
    PROVE  /\ Len(path) = 1 /\ path[1] \in Step /\ path[1].pool \in listed
           /\ PairOf(path[1].pool) = PairOf(pool) /\ path[1].input = TokensOf[pool][1]
<1>1. PICK step \in Step : /\ path = <<step>> /\ step.pool \in listed
                          /\ PairOf(step.pool) = PairOf(pool) /\ step.input = TokensOf[pool][1]
  BY DEF Direct
<1>2. Len(<<step>>) = 1 /\ <<step>>[1] = step
  OBVIOUS
<1> QED BY <1>1, <1>2

(* a leg that keeps the product can be added to those that did *)
LEMMA LegsAppend ==
    ASSUME NEW q \in Request, LegsInv(q), NEW n \in Request, NEW s \in PoolState, NEW t \in PoolState,
           t.r0 > 0, t.r1 > 0, t.r0 * t.r1 >= s.r0 * s.r1,
           n.read = Append(q.read, s), n.snapshots = Append(q.snapshots, t)
    PROVE  LegsInv(n)
<1> DEFINE a == q.read
           b == q.snapshots
           Kept(u, v) == v.r0 > 0 /\ v.r1 > 0 /\ v.r0 * v.r1 >= u.r0 * u.r1
<1>1. /\ a \in Seq(PoolState) /\ b \in Seq(PoolState) /\ Len(a) = Len(b) /\ Kept(s, t)
      /\ \A i \in DOMAIN b : Kept(a[i], b[i])
  BY DEF Request, LegsInv
<1> HIDE DEF a, b, Kept
<1>2. /\ Len(Append(a, s)) = Len(Append(b, t)) /\ DOMAIN Append(b, t) = 1..(Len(b) + 1)
      /\ Append(a, s)[Len(b) + 1] = s /\ Append(b, t)[Len(b) + 1] = t
      /\ \A i \in 1..Len(b) : /\ Append(a, s)[i] = a[i] /\ Append(b, t)[i] = b[i]
                              /\ i \in DOMAIN b
      /\ Len(b) \in Nat
  BY <1>1
<1>3. \A i \in DOMAIN Append(b, t) : Kept(Append(a, s)[i], Append(b, t)[i])
  <2> SUFFICES ASSUME NEW i \in 1..(Len(b) + 1) PROVE Kept(Append(a, s)[i], Append(b, t)[i])
    BY <1>2
  <2>1. i = Len(b) + 1 \/ i \in 1..Len(b)
    BY <1>2
  <2> QED BY <1>1, <1>2, <2>1
<1>4. Len(n.read) = Len(n.snapshots) /\ \A i \in DOMAIN n.snapshots : Kept(n.read[i], n.snapshots[i])
  BY <1>2, <1>3 DEF a, b
<1> QED BY <1>4 DEF LegsInv, Kept

(* A leg, and what comes of it. *)
LEMMA SoundLeg ==
    ASSUME NEW q, Sound(q), q.pc = "leg", NEW s \in PoolState \cup {Absent}
    PROVE  Sound(AfterLeg(q, s, QuoteLeg(q, s)))
<1> DEFINE quote == QuoteLeg(q, s)
           v2    == QuoteV2(ReserveIn(q, s), ReserveOut(q, s), q.holding, V2Fee)
           slip  == Slippage(ReserveIn(q, s), ReserveOut(q, s), q.holding, quote.out)
           t     == NextState(q.path[q.leg], quote)
           next  == [q EXCEPT !.leg = @ + 1, !.holding = quote.out, !.fees = @ + quote.fee,
                              !.slippage = @ + slip, !.read = Append(@, s),
                              !.snapshots = Append(@, t)]
           answer == [kind |-> "ok", out |-> next.holding, fees |-> next.fees,
                      slippage |-> next.slippage]
<1>1. /\ q \in Request /\ q.path # <<>> /\ q.leg = 1 /\ q.fees = 0 /\ q.holding = q.amount
      /\ q.kind # "v3" /\ q.answer = Absent /\ q.pool \in Pools /\ Direct(q.path, q.pool, Pools)
      /\ LegsInv(q)
  BY DEF Sound, RequestInv
<1>2. ~ (q.leg < Len(q.path))
  <2>1. Len(q.path) = 1
    BY <1>1, DirectLength
  <2> QED BY <1>1, <2>1
<1>3. CASE quote.kind # "ok"
  <2>1. quote \in {Refused, Panics}
    BY <1>3, LegQuote
  <2>2. quote \in Answers /\ (quote.kind = "ok" => quote.out \in U128)
    BY <1>3, <2>1, AnswersTyped
  <2> HIDE DEF quote
  <2>3. Sound(Finished(q, quote))
    BY <1>1, <2>2, SoundFinished
  <2> QED BY <1>3, <2>3 DEF AfterLeg, quote
<1>4. CASE quote.kind = "ok"
  <2>1. s \in PoolState /\ quote = v2 /\ v2.kind = "ok" /\ ~ (q.fees + v2.fee > MaxU128)
    BY <1>4, LegQuote DEF Refused, Panics
  <2>2. /\ t \in PoolState /\ t.r0 > 0 /\ t.r1 > 0 /\ t.r0 * t.r1 >= s.r0 * s.r1
        /\ quote.out \in U128 /\ quote.fee \in U128 /\ slip \in Nat
    BY <1>1, <2>1, LegState
  <2>3. AfterLeg(q, s, quote) = Finished(next, answer)
    BY <1>2, <1>4 DEF AfterLeg
  <2> HIDE DEF quote, slip, t
  <2>4. /\ next \in Request /\ next.holding \in U128 /\ next.fees \in U128 /\ next.slippage \in Nat
        /\ next.pc = q.pc /\ next.kind = q.kind /\ next.answer = q.answer /\ next.pool = q.pool
        /\ next.path = q.path /\ next.read = Append(q.read, s)
        /\ next.snapshots = Append(q.snapshots, t)
    <3>1. q.leg + 1 \in Nat /\ q.fees + quote.fee \in U128 /\ q.slippage + slip \in Nat
      BY <1>1, <2>1, <2>2, QuoteAssumption DEF Request, U128
    <3>2. Append(q.read, s) \in Seq(PoolState) /\ Append(q.snapshots, t) \in Seq(PoolState)
      BY <1>1, <2>1, <2>2 DEF Request
    <3> QED BY <1>1, <2>2, <3>1, <3>2 DEF Request
  <2> HIDE DEF next
  <2>5. LegsInv(next)
    BY <1>1, <2>1, <2>2, <2>4, LegsAppend
  <2>6. answer \in Answers /\ answer.out \in U128
    BY <2>4, AnswersTyped
  <2> HIDE DEF answer
  <2>7. Sound(Finished(next, answer))
    BY <1>1, <2>4, <2>5, <2>6, SoundFinished
  <2> QED BY <2>3, <2>7 DEF quote
<1> QED BY <1>3, <1>4

(* a price of one gives back what goes in *)
LEMMA DivideBack ==
    ASSUME NEW a \in Nat, NEW u \in Nat \ {0}
    PROVE  (a * u) \div u = a
<1> DEFINE p == a * u
           b == p \div u
<1>1. p \in Nat
  BY Natural
<1> HIDE DEF p
<1>2. b \in Nat /\ u * b <= p /\ p < u * b + u
  BY <1>1, Division
<1> HIDE DEF b
<1>3. b * u <= a * u /\ a * u < b * u + u
  <2>1. u * b = b * u
    BY <1>2
  <2> QED BY <1>2, <2>1 DEF p
<1>4. b <= a
  BY <1>2, <1>3, Cancel
<1>5. a <= b
  <2>1. CASE b + 1 <= a
    <3>1. (b + 1) * u <= a * u
      BY <1>2, <2>1, Multiply
    <3>2. (b + 1) * u = b * u + u
      BY <1>2
    <3>3. a * u \in Nat /\ b * u \in Nat
      BY <1>2, Natural
    <3> DEFINE x == a * u
               y == b * u
               z == (b + 1) * u
    <3>4. z <= x /\ z = y + u /\ x < y + u /\ x \in Nat /\ y \in Nat
      BY <1>3, <3>1, <3>2, <3>3
    <3> HIDE DEF x, y, z
    <3> QED BY <3>4
  <2> QED BY <1>2, <2>1
<1> QED BY <1>2, <1>4, <1>5 DEF b, p

(* quote_v3_swap panics, refuses or gives a quote that fits u128 *)
LEMMA QuoteV3Kinds ==
    ASSUME NEW sqrtPrice, NEW amount, NEW fee, NEW zeroForOne \in BOOLEAN,
           QuoteV3(sqrtPrice, amount, fee, zeroForOne).kind # "ok"
    PROVE  QuoteV3(sqrtPrice, amount, fee, zeroForOne) \in {Refused, Panics}
<1> DEFINE quote  == QuoteV3(sqrtPrice, amount, fee, zeroForOne)
           scaled == AfterFee(amount, fee) * V3Scaled(sqrtPrice, zeroForOne)
           a == Square(sqrtPrice) > MaxU256 \/ (OverflowChecks /\ amount * fee > MaxU128)
           b == \/ ~zeroForOne /\ Square(sqrtPrice) \div Square(Q) = 0
                \/ scaled > MaxU256
           got == scaled \div V3Unit(sqrtPrice, zeroForOne)
           c == got > MaxU128
           ok == [kind |-> "ok", out |-> got, fee |-> FeeV3(amount, fee)]
<1>1. quote = IF a THEN Panics ELSE IF b THEN Refused ELSE IF c THEN Panics ELSE ok
  BY DEF QuoteV3
<1>2. ok.kind = "ok"
  OBVIOUS
<1> HIDE DEF a, b, c, ok, quote
<1>3. quote.kind = "ok" \/ quote \in {Refused, Panics}
  BY <1>1, <1>2
<1> QED BY <1>3 DEF quote

(* The V3 answer, exact where the price is one. *)
LEMMA SoundV3 ==
    ASSUME NEW q, Sound(q), q.pc = "legV3"
    PROVE  Sound(Answered(q, AnswerV3(q)))
<1> DEFINE zero  == ~q.reverse
           quote == QuoteV3(V3SqrtPrice, q.amount, V3Fee, zero)
           left  == AfterFee(q.amount, V3Fee)
<1>1. q.kind = "v3" /\ zero \in BOOLEAN /\ V3Arguments(V3SqrtPrice, q.amount, V3Fee)
  BY SimulationAssumption DEF Sound, RequestInv, Request, V3Arguments
<1>2. CASE quote.kind # "ok"
  <2>1. quote \in {Refused, Panics}
    BY <1>1, <1>2, QuoteV3Kinds
  <2>2. AnswerV3(q) = quote
    BY <1>2 DEF AnswerV3
  <2> HIDE DEF quote
  <2>3. quote \in Answers /\ quote.kind # "ok"
    BY <1>2, <2>1, AnswersTyped
  <2> QED BY <2>2, <2>3, SoundAnswered
<1>3. CASE quote.kind = "ok"
  <2> DEFINE a == [kind |-> "ok", out |-> quote.out, fees |-> quote.fee, slippage |-> 0]
  <2>1. AnswerV3(q) = a
    BY <1>3 DEF AnswerV3
  <2>2. quote.out \in U128 /\ quote.fee \in U128
    BY <1>1, <1>3, QuoteV3Fair
  <2>3. V3SqrtPrice = Q => quote.out + quote.fee = q.amount
    <3>1. SUFFICES ASSUME V3SqrtPrice = Q PROVE quote.out + quote.fee = q.amount
      OBVIOUS
    <3> DEFINE u == Square(Q)
    <3>2. V3Scaled(V3SqrtPrice, zero) = u /\ V3Unit(V3SqrtPrice, zero) = u
      BY <3>1 DEF V3Scaled, V3Unit
    <3>3. quote.fee = FeeV3(q.amount, V3Fee) /\ quote.out = (left * u) \div u
      <4>1. /\ quote.fee = FeeV3(q.amount, V3Fee)
            /\ quote.out = (left * V3Scaled(V3SqrtPrice, zero)) \div V3Unit(V3SqrtPrice, zero)
        <5> HIDE DEF zero
        <5> QED BY <1>1, <1>3, QuoteV3Given
      <4> QED BY <3>2, <4>1
    <3>4. u \in Nat \ {0} /\ left \in Nat /\ left + FeeV3(q.amount, V3Fee) = q.amount
      <4>1. u \in Nat \ {0}
        BY QuoteAssumption, Positive DEF Square
      <4>2. left \in U128 /\ left + FeeV3(q.amount, V3Fee) = q.amount
        BY <1>1, AfterFeeTyped DEF V3Arguments
      <4> QED BY <4>1, <4>2 DEF U128
    <3> HIDE DEF u, left, quote
    <3>5. (left * u) \div u = left
      BY <3>4, DivideBack
    <3> QED BY <3>3, <3>4, <3>5
  <2> HIDE DEF quote
  <2>4. a \in Answers
    BY <2>2, AnswersTyped
  <2>5. a.kind = "ok" /\ a.out = quote.out /\ a.fees = quote.fee
    OBVIOUS
  <2> HIDE DEF a
  <2> QED BY <1>1, <2>1, <2>3, <2>4, <2>5, SoundAnswered
<1> QED BY <1>2, <1>3

-----------------------------------------------------------------------------
(* What a request keeps of the repository and the store *)

(* A request that does not move keeps what it has seen, where pools are     *)
(* only added, and added as moved.                                          *)
LEMMA SeenKept ==
    ASSUME NEW r \in Requests, SeenInv(r), req'[r] = req[r], mode' = mode,
           moved[r] \subseteq moved'[r], updates \in Nat, updates' \in Nat, updates <= updates',
           \A p : Saved(p) => Saved(p)',
           \A p \in Pools : Present(p) => Present(p)',
           v3Known' = {} => v3Known = {},
           \A p \in Pools : Present(p)' /\ ~Present(p) /\ req[r].pc \in {"load", "upsert", "list"}
                              => p \in moved'[r] \cup {Sample},
           req[r] \in Request, req[r].path # <<>> => Direct(req[r].path, req[r].pool, Pools)
    PROVE  SeenInv(r)'
<1> DEFINE q == req[r]
<1>1. Came(r) => Came(r)'
  BY DEF Came
<1>2. \A p, s : Past(p, s) => Past(p, s)'
  BY DEF Past
<1>3. CanBeRefused(q) => CanBeRefused(q)'
  <2>1. PastStates(q.pool) \subseteq PastStates(q.pool)'
    BY DEF PastStates
  <2> QED BY <2>1 DEF CanBeRefused
<1>4. RefusedThoughKnown(r)' => RefusedThoughKnown(r)
  BY DEF RefusedThoughKnown
<1>5. q.path # <<>> => q.path[1].pool \in Pools
  BY DirectLength
<1>6. q.pc \in {"load", "upsert", "list"} /\ q.pool \in Pools /\ Present(q.pool)' => Came(r)'
  BY <1>1 DEF SeenInv, Came
<1> QED BY <1>1, <1>2, <1>3, <1>4, <1>5, <1>6 DEF SeenInv

(* A request that has found nothing has seen nothing. *)
LEMMA SeenNothing ==
    ASSUME NEW r \in Requests, NEW n, req'[r] = n, n.pc \notin {"load", "upsert", "list"},
           n.path = <<>>, ~n.known
    PROVE  SeenInv(r)'
BY DEF SeenInv, RefusedThoughKnown

(* the updates are counted by natural numbers *)
LEMMA UpdatesTyped == TypeOK => updates \in Nat /\ updates <= updates
<1> SUFFICES ASSUME TypeOK PROVE updates \in Nat /\ updates <= updates
  OBVIOUS
<1>1. updates \in 0..MaxUpdates /\ MaxUpdates \in Nat
  BY SimulationAssumption DEF TypeOK, SimTypeOK
<1> QED BY <1>1

(* A step of a request that leaves the repository and the store alone *)
LEMMA RequestStep ==
    ASSUME IInv, NEW r \in Requests, NEW n, Sound(n), req' = [req EXCEPT ![r] = n],
           req[r].pc # "done", n.pc # "idle", n.pc \in Looking => req[r].pc \in Looking,
           req[r].pc = "idle" => Accepts,
           UNCHANGED <<mode, unsaved, updates, lifecycle>>, KeepState,
           moved' \in {moved, [moved EXCEPT ![r] = {}]},
           SeenInv(r)'
    PROVE  IInv'
<1> USE DEF IInv
<1>1. req \in [Requests -> Request] /\ moved \in [Requests -> SUBSET (Pools \cup V3Pools)]
  BY DEF TypeOK, SimTypeOK
<1>2. n \in Request /\ (n.pc = "done" <=> n.answer # Absent)
  BY DEF Sound, RequestInv
<1>3. /\ req' \in [Requests -> Request] /\ req'[r] = n
      /\ \A t \in Requests : t # r => req'[t] = req[t] /\ moved'[t] = moved[t]
      /\ moved' \in [Requests -> SUBSET (Pools \cup V3Pools)]
  BY <1>1, <1>2
<1>4. TypeOK'
  <2>1. \A t \in Requests : req'[t].pc = "done" <=> req'[t].answer # Absent
    BY <1>2, <1>3 DEF TypeOK, SimTypeOK
  <2> QED BY <1>3, <2>1 DEF TypeOK, SimTypeOK, KeepState, lifecycle
<1>5. \A t \in Requests : Sound(req'[t]) /\ SeenInv(t)'
  <2> SUFFICES ASSUME NEW t \in Requests, t # r PROVE Sound(req'[t]) /\ SeenInv(t)'
    BY <1>3
  <2>1. req'[t] = req[t] /\ moved'[t] = moved[t] /\ Sound(req[t]) /\ SeenInv(t)
    BY <1>3
  <2>2. updates \in Nat /\ updates <= updates
    BY UpdatesTyped
  <2>3. req[t] \in Request /\ (req[t].path # <<>> => Direct(req[t].path, req[t].pool, Pools))
    BY <2>1 DEF Sound, RequestInv
  <2>4. \A p : (Saved(p)' <=> Saved(p)) /\ (Present(p)' <=> Present(p))
    BY DEF KeepState, Saved, Present
  <2>5. SeenInv(t)'
    BY <2>1, <2>2, <2>3, <2>4, SeenKept DEF KeepState
  <2> QED BY <2>1, <2>5
<1>6. StatesInv'
  BY DEF StatesInv, KeepState, Present, Past
<1>7. CommandInv'
  <2> SUFFICES ASSUME mode = "cli"
               PROVE  /\ listener' = "off" /\ http' = "off"
                      /\ \A s, t \in Requests : ~At(s, "idle")' /\ ~At(t, "idle")' => s = t
                      /\ (\A t \in Requests : req'[t].pc \in Looking)
                              => \A p \in Pools : ~Present(p)'
    BY DEF CommandInv
  <2>1. /\ listener = "off" /\ http = "off"
        /\ \A s, t \in Requests : ~At(s, "idle") /\ ~At(t, "idle") => s = t
        /\ (\A t \in Requests : req[t].pc \in Looking) => \A p \in Pools : ~Present(p)
    BY DEF CommandInv
  <2>2. \A s, t \in Requests : ~At(s, "idle")' /\ ~At(t, "idle")' => s = t
    <3>1. CASE req[r].pc = "idle"
      <4>1. \A t \in Requests : At(t, "idle")
        BY <2>1, <3>1 DEF Accepts
      <4> QED BY <1>3, <4>1 DEF At
    <3>2. CASE req[r].pc # "idle"
      BY <1>3, <2>1, <3>2 DEF At
    <3> QED BY <3>1, <3>2
  <2>3. (\A t \in Requests : req'[t].pc \in Looking) => \A t \in Requests : req[t].pc \in Looking
    BY <1>3
  <2>4. \A p \in Pools : Present(p)' <=> Present(p)
    BY DEF KeepState, Present
  <2> QED BY <2>1, <2>2, <2>3, <2>4 DEF lifecycle
<1>8. ServerInv'
  <2> SUFFICES ASSUME mode = "service"
               PROVE  /\ http' \in {"off", "binding", "stopped"} => InFlight' = {}
                      /\ serve' = "ended" => http' \in {"off", "stopped"}
    BY DEF ServerInv
  <2>1. ~ (http \in {"off", "binding", "stopped"})
    <3> SUFFICES ASSUME http \in {"off", "binding", "stopped"} PROVE FALSE
      OBVIOUS
    <3>1. req[r].pc \in {"idle", "done"}
      BY DEF ServerInv, InFlight
    <3> QED BY <3>1 DEF Accepts
  <2> QED BY <2>1 DEF ServerInv, lifecycle
<1> QED BY <1>4, <1>5, <1>6, <1>7, <1>8

(* A request that comes in *)
LEMMA StepAsk ==
    ASSUME IInv, NEW r \in Requests, Ask(r)
    PROVE  IInv'
<1> DEFINE q == req[r]
<1>1. /\ Sound(q) /\ q.pc = "idle" /\ Accepts /\ UNCHANGED lifecycle
      /\ q \in Request /\ ~q.known /\ q.path = <<>>
  <2>1. Sound(q) /\ q.pc = "idle" /\ Accepts /\ UNCHANGED lifecycle
    BY DEF IInv, Ask, AskV2, AskBench, AskV3, AskNonsense, At
  <2> QED BY <2>1 DEF Sound, RequestInv
<1>2. ASSUME NEW n, Become(r, n), KeepState, KeepOthers, Sound(n), n.pc \in {"get", "getV3", "done"},
             n.path = q.path, n.known = q.known
      PROVE  IInv'
  <2>1. req' = [req EXCEPT ![r] = n] /\ req'[r] = n
    BY <1>2 DEF Become, IInv, TypeOK, SimTypeOK
  <2>2. SeenInv(r)'
    BY <1>1, <1>2, <2>1, SeenNothing
  <2> QED BY <1>1, <1>2, <2>1, <2>2, RequestStep DEF KeepOthers, Looking
<1> HIDE DEF q
<1>3. ASSUME NEW a \in {Refused, BadRequest}, Answer(r, a), KeepState, KeepOthers
      PROVE  IInv'
  <2> DEFINE n == Answered(q, a)
  <2>1. a \in Answers /\ a.kind # "ok"
    <3>1. a = Refused \/ a = BadRequest
      OBVIOUS
    <3>2. Refused.kind # "ok" /\ BadRequest.kind # "ok"
      BY DEF Refused, BadRequest
    <3> QED BY <3>1, <3>2, AnswersTyped
  <2>2. Sound(n)
    BY <1>1, <2>1, SoundAnswered
  <2>3. n.pc = "done" /\ n.path = q.path /\ n.known = q.known /\ Become(r, n)
    BY <1>1, <1>3 DEF Answer, Answered, Request, q
  <2> HIDE DEF n
  <2> QED BY <1>2, <1>3, <2>2, <2>3
<1>4. ASSUME NEW pool \in Asked, NEW amount \in Amounts, AskV2(r, pool, amount) PROVE IInv'
  <2> DEFINE n == [q EXCEPT !.pc = "get", !.kind = "v2", !.pool = pool, !.amount = amount]
  <2>1. /\ n \in Request /\ n.pc = "get" /\ n.kind = "v2" /\ n.path = q.path /\ n.known = q.known
        /\ n.answer = q.answer /\ n.read = q.read /\ n.snapshots = q.snapshots
    BY <1>1, SimulationAssumption DEF Request, Points
  <2>2. Become(r, n) /\ KeepState /\ KeepOthers
    BY <1>4 DEF AskV2, q
  <2> HIDE DEF n
  <2>3. Sound(n)
    BY <1>1, <2>1, SoundMove
  <2> QED BY <1>2, <2>1, <2>2, <2>3
<1>5. ASSUME NEW pool \in Asked, NEW amount \in Amounts, NEW k \in 0..Iterations,
             AskBench(r, pool, amount, k)
      PROVE  IInv'
  <2> DEFINE n == [q EXCEPT !.pc = "get", !.kind = "bench", !.pool = pool, !.amount = amount,
                            !.runs = k]
  <2>1. k \in Nat
    <3>1. Iterations \in Nat
      BY SimulationAssumption
    <3> QED BY <3>1
  <2>2. /\ n \in Request /\ n.pc = "get" /\ n.kind = "bench" /\ n.path = q.path /\ n.known = q.known
        /\ n.answer = q.answer /\ n.read = q.read /\ n.snapshots = q.snapshots
    BY <1>1, <2>1, SimulationAssumption DEF Request, Points
  <2>3. KeepState /\ KeepOthers /\ (Become(r, n) \/ Answer(r, Refused))
    BY <1>5 DEF AskBench, q
  <2> HIDE DEF n
  <2>4. Sound(n)
    BY <1>1, <2>2, SoundMove
  <2> QED BY <1>2, <1>3, <2>2, <2>3, <2>4
<1>6. ASSUME NEW amount \in V3Amounts, NEW reverse \in BOOLEAN, AskV3(r, amount, reverse) PROVE IInv'
  <2> DEFINE n == [q EXCEPT !.pc = "getV3", !.kind = "v3", !.reverse = reverse, !.amount = amount]
  <2>1. /\ n \in Request /\ n.pc = "getV3" /\ n.kind = "v3" /\ n.path = q.path /\ n.known = q.known
        /\ n.answer = q.answer /\ n.read = q.read /\ n.snapshots = q.snapshots
    BY <1>1, SimulationAssumption DEF Request, Points
  <2>2. Become(r, n) /\ KeepState /\ KeepOthers
    BY <1>6 DEF AskV3, q
  <2> HIDE DEF n
  <2>3. Sound(n)
    BY <1>1, <2>1, SoundMove DEF Looking
  <2> QED BY <1>2, <2>1, <2>2, <2>3
<1>7. CASE AskNonsense(r)
  BY <1>3, <1>7 DEF AskNonsense
<1> QED BY <1>4, <1>5, <1>6, <1>7 DEF Ask

(* what the invariant says of one request *)
LEMMA RequestFacts ==
    ASSUME IInv, NEW r \in Requests
    PROVE  /\ Sound(req[r]) /\ req[r] \in Request /\ SeenInv(r)
           /\ req[r].path # <<>> => Direct(req[r].path, req[r].pool, Pools)
           /\ \A n : Become(r, n) => req' = [req EXCEPT ![r] = n] /\ req'[r] = n
<1>1. Sound(req[r]) /\ SeenInv(r) /\ req \in [Requests -> Request]
  BY DEF IInv, TypeOK, SimTypeOK
<1>2. req[r] \in Request /\ (req[r].path # <<>> => Direct(req[r].path, req[r].pool, Pools))
  BY <1>1 DEF Sound, RequestInv
<1>3. \A n : Become(r, n) => req' = [req EXCEPT ![r] = n] /\ req'[r] = n
  BY <1>1 DEF Become
<1> QED BY <1>1, <1>2, <1>3

(* a step of an accepted request that leaves the repository and the store *)
LEMMA AcceptedStep ==
    ASSUME IInv, NEW r \in Requests, NEW n, Sound(n), Become(r, n),
           req[r].pc \notin {"idle", "done"}, n.pc # "idle", n.pc \in Looking => req[r].pc \in Looking,
           UNCHANGED <<mode, unsaved, updates, lifecycle>>, KeepState,
           moved' \in {moved, [moved EXCEPT ![r] = {}]},
           SeenInv(r)'
    PROVE  IInv'
BY RequestFacts, RequestStep

(* prepare_simulation looks for the pool *)
LEMMA StepLook ==
    ASSUME IInv, NEW r \in Requests, Look(r), UNCHANGED lifecycle
    PROVE  IInv'
<1> DEFINE q == req[r]
           n == [q EXCEPT !.pc = IF Listed(q.pool) THEN "list" ELSE "load",
                          !.known = Listed(q.pool)]
<1>1. Become(r, n) /\ q.pc = "get" /\ Sound(q) /\ q \in Request
  BY RequestFacts DEF Look, At
<1>2. q.path = <<>> /\ q.answer = Absent /\ q.kind # "v3"
  BY <1>1 DEF Sound, RequestInv
<1> HIDE DEF q
<1>3. Listed(q.pool) \in BOOLEAN /\ (q.pool \in Pools => (Listed(q.pool) <=> Present(q.pool)))
  <2>1. CASE q.pool \in Pools
    <3>1. Listed(q.pool) <=> Present(q.pool)
      BY <2>1 DEF Listed, Present
    <3>2. Listed(q.pool) = (repository[q.pool] # Absent)
      BY <2>1 DEF Listed
    <3> QED BY <3>1, <3>2
  <2>2. CASE q.pool \notin Pools
    <3>1. Listed(q.pool) = (q.pool \in v3Known)
      BY <2>2 DEF Listed
    <3> QED BY <2>2, <3>1
  <2> QED BY <2>1, <2>2
<1>4. /\ n \in Request /\ n.pc = (IF Listed(q.pool) THEN "list" ELSE "load")
      /\ n.known = Listed(q.pool) /\ n.kind = q.kind /\ n.path = q.path /\ n.pool = q.pool
      /\ n.answer = q.answer /\ n.read = q.read /\ n.snapshots = q.snapshots
  BY <1>1, <1>3 DEF Request, Points
<1>5. n.pc \in {"list", "load"} /\ (n.known => n.pc = "list")
  BY <1>4
<1> HIDE DEF n
<1>6. Sound(n)
  BY <1>1, <1>2, <1>4, <1>5, SoundMove
<1>7. KeepState /\ UNCHANGED <<mode, unsaved, updates>> /\ moved' = [moved EXCEPT ![r] = {}]
  BY DEF Look
<1>8. SeenInv(r)'
  <2>1. req'[r] = n
    BY <1>1, RequestFacts
  <2>2. \A p : Present(p)' <=> Present(p)
    BY <1>7 DEF KeepState, Present
  <2>3. q.pool \in Pools /\ Present(q.pool) => Came(r)'
    BY <1>3, <1>4, <2>1 DEF Came
  <2> QED BY <1>2, <1>3, <1>4, <1>5, <2>1, <2>2, <2>3 DEF SeenInv, RefusedThoughKnown
<1> QED BY <1>1, <1>5, <1>6, <1>7, <1>8, AcceptedStep DEF Looking, q

(* A request that is answered before it has a path *)
LEMMA StepAnswerNothing ==
    ASSUME IInv, NEW r \in Requests, NEW a \in Answers, Answer(r, a), KeepState, KeepOthers,
           UNCHANGED lifecycle, Sound(Answered(req[r], a)),
           req[r].pc \notin {"idle", "done"}, req[r].path = <<>>, ~req[r].known
    PROVE  IInv'
<1> DEFINE q == req[r]
           n == Answered(q, a)
<1>1. n.pc = "done" /\ n.path = q.path /\ n.known = q.known /\ Become(r, n)
  BY RequestFacts DEF Answer, Answered, Request
<1> HIDE DEF n
<1>2. SeenInv(r)'
  <2>1. req'[r] = n
    BY <1>1, RequestFacts
  <2> QED BY <1>1, <2>1, SeenNothing
<1> QED BY <1>1, <1>2, AcceptedStep DEF n, KeepOthers, Looking

(* The snapshot file cannot be read *)
LEMMA StepLoadFails ==
    ASSUME IInv, NEW r \in Requests, LoadFails(r), UNCHANGED lifecycle
    PROVE  IInv'
<1>1. /\ req[r].pc = "load" /\ Sound(req[r]) /\ Answer(r, Refused) /\ KeepState /\ KeepOthers
      /\ Refused \in Answers /\ Refused.kind # "ok"
  BY RequestFacts, AnswersTyped DEF LoadFails, At, Refused
<1>2. Sound(Answered(req[r], Refused))
  BY <1>1, SoundAnswered
<1>3. req[r].path = <<>> /\ ~req[r].known
  BY <1>1 DEF Sound, RequestInv
<1> QED BY <1>1, <1>2, <1>3, StepAnswerNothing

(* A snapshot, or the made-up pool, is in hand *)
LEMMA StepLoadOrSample ==
    ASSUME IInv, NEW r \in Requests, LoadOrSample(r), UNCHANGED lifecycle
    PROVE  IInv'
<1> DEFINE q == req[r]
           target == IF Saved(q.pool) THEN q.pool ELSE Sample
           loaded == IF ~Saved(q.pool) THEN SampleState
                     ELSE IF q.pool \in Pools THEN store[q.pool] ELSE Absent
           n == [q EXCEPT !.pc = "upsert", !.target = target, !.loaded = loaded]
<1>1. q.pc = "load" /\ Sound(q) /\ q \in Request /\ SeenInv(r) /\ KeepState /\ KeepOthers
  BY RequestFacts DEF LoadOrSample, At
<1>2. Become(r, n)
  BY DEF LoadOrSample
<1>3. q.path = <<>> /\ q.answer = Absent /\ q.kind # "v3" /\ ~q.known
  BY <1>1 DEF Sound, RequestInv
<1>4. target \in Pools \cup V3Pools /\ loaded \in PoolState \cup {Absent}
  BY <1>1, SimulationAssumption DEF Request, IInv, TypeOK, SimTypeOK
<1>5. target \in Pools => Past(target, loaded)
  <2>1. CASE Saved(q.pool)
    <3>1. q.pool \in Pools => Past(q.pool, store[q.pool])
      BY <2>1 DEF Saved, IInv, StatesInv
    <3> QED BY <2>1, <3>1
  <2>2. CASE ~Saved(q.pool)
    BY <2>2 DEF Past
  <2> QED BY <2>1, <2>2
<1>6. target = Sample \/ (target = q.pool /\ Saved(q.pool))
  OBVIOUS
<1> HIDE DEF q, target, loaded
<1>7. /\ n \in Request /\ n.pc = "upsert" /\ n.target = target /\ n.loaded = loaded
      /\ n.known = q.known /\ n.kind = q.kind /\ n.path = q.path /\ n.pool = q.pool
      /\ n.answer = q.answer /\ n.read = q.read /\ n.snapshots = q.snapshots
  BY <1>1, <1>4 DEF Request, Points
<1> HIDE DEF n
<1>8. Sound(n)
  BY <1>1, <1>3, <1>7, SoundMove
<1>9. SeenInv(r)'
  <2>1. req'[r] = n
    BY <1>2, RequestFacts
  <2>2. \A p : (Present(p)' <=> Present(p)) /\ (Saved(p)' <=> Saved(p))
    BY <1>1 DEF KeepState, Present, Saved
  <2>3. q.pool \in Pools /\ Present(q.pool) => Came(r)'
    <3>1. q.pool \in Pools /\ Present(q.pool) => Came(r)
      BY <1>1 DEF SeenInv, q
    <3> QED BY <1>1, <1>7, <2>1, <2>2, <3>1 DEF Came, q, KeepOthers
  <2>4. \A p, s : Past(p, s) => Past(p, s)'
    BY <1>1 DEF Past, KeepOthers
  <2> QED BY <1>3, <1>5, <1>6, <1>7, <2>1, <2>2, <2>3, <2>4 DEF SeenInv, RefusedThoughKnown
<1> QED BY <1>1, <1>2, <1>7, <1>8, <1>9, AcceptedStep DEF Looking, q, KeepOthers

(* build_v3_components looks for the made-up pool *)
LEMMA StepLookV3 ==
    ASSUME IInv, NEW r \in Requests, LookV3(r), UNCHANGED lifecycle
    PROVE  IInv'
<1> DEFINE q == req[r]
           pc == IF V3Sample \in v3Known THEN "legV3" ELSE "upsertV3"
           n  == [q EXCEPT !.pc = pc]
<1>1. q.pc = "getV3" /\ Sound(q) /\ q \in Request /\ KeepState /\ KeepOthers /\ Become(r, n)
  BY RequestFacts DEF LookV3, At
<1>2. pc \in {"legV3", "upsertV3"}
  OBVIOUS
<1>3. q.path = <<>> /\ q.answer = Absent /\ q.kind = "v3" /\ ~q.known
  BY <1>1 DEF Sound, RequestInv
<1> HIDE DEF q, pc
<1>4. /\ n \in Request /\ n.pc = pc /\ n.known = q.known /\ n.kind = q.kind /\ n.path = q.path
      /\ n.answer = q.answer /\ n.read = q.read /\ n.snapshots = q.snapshots
  BY <1>1, <1>2 DEF Request, Points
<1> HIDE DEF n
<1>5. Sound(n)
  BY <1>1, <1>2, <1>3, <1>4, SoundMove
<1>6. SeenInv(r)'
  <2>1. req'[r] = n
    BY <1>1, RequestFacts
  <2> QED BY <1>2, <1>3, <1>4, <2>1, SeenNothing
<1> QED BY <1>1, <1>2, <1>4, <1>5, <1>6, AcceptedStep DEF Looking, q, KeepOthers

(* The V3 quote is the answer *)
LEMMA StepLegV3 ==
    ASSUME IInv, NEW r \in Requests, LegV3(r), UNCHANGED lifecycle
    PROVE  IInv'
<1> DEFINE q == req[r]
           a == AnswerV3(q)
           n == Answered(q, a)
<1>1. q.pc = "legV3" /\ Sound(q) /\ q \in Request /\ KeepState /\ KeepOthers /\ Become(r, n)
  BY RequestFacts DEF LegV3, At, Answer
<1>2. Sound(n)
  BY <1>1, SoundV3
<1>3. q.path = <<>> /\ ~q.known
  BY <1>1 DEF Sound, RequestInv
<1> HIDE DEF q, a
<1>4. n.pc = "done" /\ n.path = q.path /\ n.known = q.known
  BY <1>1 DEF Answered, Request
<1> HIDE DEF n
<1>5. SeenInv(r)'
  <2>1. req'[r] = n
    BY <1>1, RequestFacts
  <2> QED BY <1>3, <1>4, <2>1, SeenNothing
<1> QED BY <1>1, <1>2, <1>4, <1>5, AcceptedStep DEF Looking, q, KeepOthers

(* what the search finds of the pools of the repository *)
LEMMA FoundIsDirect ==
    ASSUME NEW pool \in Pools, NEW found \in FirstPaths, found.listed = KnownPools,
           found.pool = pool
    PROVE  Direct(found.path, pool, KnownPools)
<1>1. PICK known \in SUBSET Pools : \E p \in known, order \in Orders(known) :
          found = [listed |-> known, pool |-> p, path |-> FirstPath(order, p)]
  BY DEF FirstPaths
<1>2. PICK p \in known, order \in Orders(known) :
          found = [listed |-> known, pool |-> p, path |-> FirstPath(order, p)]
  BY <1>1
<1>3. known = KnownPools /\ p = pool /\ found.path = FirstPath(order, pool)
  BY <1>2
<1>4. Direct(FirstPath(order, p), p, known)
  BY <1>1, <1>2, FirstPathIsDirect
<1> QED BY <1>3, <1>4

(* a direct path over some pools is one over more *)
LEMMA DirectWidens ==
    ASSUME NEW path, NEW pool, NEW listed, NEW more, listed \subseteq more, Direct(path, pool, listed)
    PROVE  Direct(path, pool, more) /\ path # <<>> /\ path \in Seq(Step)
<1>1. PICK step \in Step : /\ path = <<step>> /\ step.pool \in listed
                          /\ PairOf(step.pool) = PairOf(pool) /\ step.input = TokensOf[pool][1]
  BY DEF Direct
<1>2. <<step>> \in Seq(Step) /\ <<step>> # <<>>
  OBVIOUS
<1> QED BY <1>1, <1>2 DEF Direct

(* The path is found, or the request refused: where the first path is direct *)
LEMMA StepFindPath ==
    ASSUME IInv, NEW r \in Requests, FindPath(r), UNCHANGED lifecycle
    PROVE  IInv'
<1> DEFINE q == req[r]
<1>1. q.pc = "list" /\ Sound(q) /\ q \in Request /\ SeenInv(r) /\ KeepState /\ KeepOthers
  BY RequestFacts DEF FindPath, At
<1>2. q.path = <<>> /\ q.answer = Absent /\ q.kind # "v3"
  BY <1>1 DEF Sound, RequestInv
<1>3. CASE ReadsAsV2(r)
  <2>1. v3Known = {} /\ q.pool \in KnownPools /\ q.pool \in Pools /\ Present(q.pool)
    BY <1>3 DEF ReadsAsV2, KnownPools, Present
  <2>2. PICK found \in {f \in FirstPaths : f.listed = KnownPools /\ f.pool = q.pool} :
            IF found.path = <<>> THEN Answer(r, Refused)
            ELSE Become(r, Started([q EXCEPT !.path = found.path]))
    BY <1>3 DEF FindPath
  <2> DEFINE path == found.path
             n0 == [q EXCEPT !.path = path]
             n  == Started(n0)
  <2>3. Direct(path, q.pool, KnownPools) /\ KnownPools \subseteq Pools
    BY <2>1, FoundIsDirect DEF KnownPools
  <2> HIDE DEF path
  <2>4. Direct(path, q.pool, Pools) /\ path # <<>> /\ path \in Seq(Step)
    BY <2>3, DirectWidens
  <2>5. Become(r, n)
    BY <2>2, <2>4 DEF path
  <2>6. path[1].pool \in KnownPools
    BY <2>3, DirectLength
  <2> HIDE DEF q
  <2>7. /\ n0 \in Request /\ n0.kind = q.kind /\ n0.answer = q.answer /\ n0.pool = q.pool
        /\ n0.path = path /\ n0.known = q.known
    BY <1>1, <2>4 DEF Request
  <2> HIDE DEF n0
  <2>8. Sound(n)
    BY <1>2, <2>1, <2>4, <2>7, SoundStarted
  <2>9. /\ n.pc = "leg" /\ n.path = path /\ n.known = q.known /\ n.pool = q.pool
        /\ n.answer = Absent
    BY <1>2, <2>7 DEF Started, Request
  <2> HIDE DEF n
  <2>10. SeenInv(r)'
    <3>1. req'[r] = n
      BY <2>5, RequestFacts
    <3>2. \A p : (Present(p)' <=> Present(p)) /\ (Saved(p)' <=> Saved(p))
      BY <1>1 DEF KeepState, Present, Saved
    <3>3. Came(r)'
      <4>1. Came(r)
        BY <1>1, <2>1 DEF SeenInv, q
      <4> QED BY <1>1, <2>9, <3>1, <3>2, <4>1 DEF Came, q, KeepOthers
    <3>4. Present(path[1].pool)
      BY <2>6 DEF KnownPools, Present
    <3> QED BY <2>1, <2>9, <3>1, <3>2, <3>3, <3>4 DEF SeenInv, RefusedThoughKnown
  <2> QED BY <1>1, <2>5, <2>8, <2>9, <2>10, AcceptedStep DEF Looking, q, KeepOthers
<1>4. CASE ~ReadsAsV2(r)
  <2> DEFINE n == Answered(q, Refused)
  <2>1. Become(r, n) /\ Refused \in Answers /\ Refused.kind # "ok"
    BY <1>4, AnswersTyped DEF FindPath, Answer, Refused
  <2>2. Sound(n)
    BY <1>1, <2>1, SoundAnswered
  <2>3. v3Known # {} \/ ~ (q.pool \in Pools /\ Present(q.pool))
    BY <1>4 DEF ReadsAsV2, KnownPools, Present
  <2> HIDE DEF q
  <2>4. n.pc = "done" /\ n.path = q.path /\ n.known = q.known /\ n.pool = q.pool
    BY <1>1 DEF Answered, Request
  <2> HIDE DEF n
  <2>5. SeenInv(r)'
    <3>1. req'[r] = n
      BY <2>1, RequestFacts
    <3>2. \A p : Present(p)' <=> Present(p)
      BY <1>1 DEF KeepState, Present
    <3>3. q.known /\ q.pool \in Pools => Present(q.pool)
      BY <1>1 DEF SeenInv, q
    <3>4. v3Known' = v3Known
      BY <1>1 DEF KeepState
    <3> QED BY <1>2, <2>3, <2>4, <3>1, <3>2, <3>3, <3>4 DEF SeenInv, RefusedThoughKnown
  <2> QED BY <1>1, <2>1, <2>2, <2>4, <2>5, AcceptedStep DEF Looking, q, KeepOthers
<1> QED BY <1>3, <1>4

(* the request that a leg leaves is the same request *)
Same(n, q) ==
    n.path = q.path /\ n.pool = q.pool /\ n.known = q.known /\ n.kind = q.kind /\ n.amount = q.amount

(* the end of a simulation leaves what was asked and the path alone *)
LEMMA FinishedKeeps ==
    ASSUME NEW q, NEW p \in Request, DOMAIN q = DOMAIN p, NEW result
    PROVE  LET n == Finished(q, result) IN
           /\ n.pc \in {"leg", "done"} /\ Same(n, q)
           /\ q.kind = "v2" => n.answer = result
<1> DEFINE outs == IF result.kind = "ok" THEN Append(q.outs, result.out) ELSE q.outs
           n0 == Answered(q, result)
           n1 == Started([q EXCEPT !.outs = outs, !.runs = @ - 1])
           n2 == Answered([q EXCEPT !.outs = outs, !.runs = 0], [kind |-> "ok"])
           n  == Finished(q, result)
<1>1. n = IF q.kind # "bench" \/ result.kind = "panics" THEN n0
          ELSE IF q.runs > 1 THEN n1 ELSE n2
  BY DEF Finished
<1> HIDE DEF outs
<1>2. n0.pc = "done" /\ Same(n0, q) /\ n0.answer = result
  BY DEF Answered, Request, Same
<1>3. n1.pc = "leg" /\ Same(n1, q)
  BY DEF Started, Request, Same
<1>4. n2.pc = "done" /\ Same(n2, q)
  BY DEF Answered, Request, Same
<1> HIDE DEF n0, n1, n2, n
<1>5. n.pc \in {"leg", "done"} /\ Same(n, q) /\ (q.kind = "v2" => n.answer = result)
  BY <1>1, <1>2, <1>3, <1>4
<1> QED BY <1>5 DEF n

(* so does a leg, and a V2 request is answered what the leg gave *)
LEMMA LegKeeps ==
    ASSUME NEW q, Sound(q), q.pc = "leg", NEW s, NEW quote
    PROVE  LET n == AfterLeg(q, s, quote) IN
           /\ n.pc \in {"leg", "done"} /\ Same(n, q)
           /\ q.kind = "v2" /\ n.answer.kind # "ok" => n.answer = quote
<1> DEFINE slip == Slippage(ReserveIn(q, s), ReserveOut(q, s), q.holding, quote.out)
           t    == NextState(q.path[q.leg], quote)
           next == [q EXCEPT !.leg = @ + 1, !.holding = quote.out, !.fees = @ + quote.fee,
                             !.slippage = @ + slip, !.read = Append(@, s),
                             !.snapshots = Append(@, t)]
           answer == [kind |-> "ok", out |-> next.holding, fees |-> next.fees,
                      slippage |-> next.slippage]
           n == AfterLeg(q, s, quote)
<1>1. q \in Request /\ ~ (q.leg < Len(q.path))
  <2>1. q \in Request /\ q.leg = 1 /\ Direct(q.path, q.pool, Pools)
    BY DEF Sound, RequestInv
  <2>2. Len(q.path) = 1
    BY <2>1, DirectLength
  <2> QED BY <2>1, <2>2
<1>2. n = IF quote.kind # "ok" THEN Finished(q, quote) ELSE Finished(next, answer)
  BY <1>1 DEF AfterLeg
<1> HIDE DEF slip, t
<1>3. next.pc = "leg" /\ Same(next, q)
  BY <1>1 DEF Request, Same
<1>4. /\ Finished(q, quote).pc \in {"leg", "done"} /\ Same(Finished(q, quote), q)
      /\ q.kind = "v2" => Finished(q, quote).answer = quote
  BY <1>1, FinishedKeeps
<1>5. /\ Finished(next, answer).pc \in {"leg", "done"} /\ Same(Finished(next, answer), next)
      /\ q.kind = "v2" => Finished(next, answer).answer.kind = "ok"
  <2>1. DOMAIN next = DOMAIN q /\ answer.kind = "ok" /\ next.kind = q.kind
    BY <1>3 DEF Same
  <2> HIDE DEF next, answer
  <2> QED BY <1>1, <2>1, FinishedKeeps
<1> HIDE DEF next, answer, n
<1>6. /\ n.pc \in {"leg", "done"} /\ Same(n, q)
      /\ q.kind = "v2" /\ n.answer.kind # "ok" => n.answer = quote
  BY <1>2, <1>3, <1>4, <1>5 DEF Same
<1> QED BY <1>6 DEF n

(* two pools of one pair have their tokens in the same order *)
LEMMA SamePair ==
    ASSUME NEW p \in Pools, NEW q \in Pools, PairOf(p) = PairOf(q)
    PROVE  TokensOf[p][1] = TokensOf[q][1]
<1>1. \A u \in Pools : TokensOf[u] = Ends(u)
  <2> SUFFICES ASSUME NEW u \in Pools PROVE TokensOf[u] = Ends(u)
    OBVIOUS
  <2>1. TokensOf[u] \in Tokens \X Tokens
    BY SimulationAssumption
  <2> QED BY <2>1 DEF Ends
<1>2. ToSet(TokensOf[p]) = PairOf(p) /\ ToSet(TokensOf[q]) = PairOf(q)
  BY <1>1, TokensTyped
<1> QED BY <1>2, PairAssumption

(* A leg over a pool that is present is refused only where a state of a     *)
(* pool of the pair does not quote the amount.                              *)
LEMMA RefusedLeg ==
    ASSUME IInv, NEW q, Sound(q), q.pc = "leg", NEW p, p = q.path[1].pool, Present(p),
           QuoteLeg(q, repository[p]) = Refused
    PROVE  CanBeRefused(q)
<1> DEFINE s  == repository[p]
           v2 == QuoteV2(ReserveIn(q, s), ReserveOut(q, s), q.holding, V2Fee)
<1>1. /\ q \in Request /\ q.leg = 1 /\ q.fees = 0 /\ q.holding = q.amount /\ q.pool \in Pools
      /\ Direct(q.path, q.pool, Pools)
  BY DEF Sound, RequestInv
<1>2. p \in Pools /\ PairOf(p) = PairOf(q.pool) /\ q.path[1].input = TokensOf[q.pool][1]
  BY <1>1, DirectLength
<1>3. s \in PoolState /\ Past(p, s)
  BY <1>2 DEF IInv, TypeOK, SimTypeOK, StatesInv, Present
<1>4. s # Absent
  BY <1>3, AnswersTyped
<1>5. Forward(q.path[1])
  BY <1>2, SamePair, <1>1 DEF Forward
<1>6. v2 = QuoteV2(s.r0, s.r1, q.amount, V2Fee)
  BY <1>1, <1>5 DEF ReserveIn, ReserveOut
<1>7. v2.kind # "ok" \/ q.fees + v2.fee > MaxU128
  <2>1. \/ Refused = Panics
        \/ s = Absent \/ v2.kind # "ok" \/ q.fees + v2.fee > MaxU128
        \/ v2 = Refused /\ v2.kind = "ok"
    BY <1>3, LegQuote
  <2>2. Refused # Panics /\ Refused.kind # "ok"
    <3>1. Refused.kind = "refused" /\ Panics.kind = "panics"
      BY DEF Refused, Panics
    <3> QED BY <3>1
  <2> HIDE DEF v2
  <2> QED BY <1>4, <2>1, <2>2
<1>8. v2.kind # "ok"
  <2> SUFFICES ASSUME v2.kind = "ok" PROVE FALSE
    OBVIOUS
  <2>1. /\ s.r0 \in U128 /\ s.r1 \in U128 /\ q.amount \in U128 /\ V2Fee \in Nat
    BY <1>1, <1>3, SimulationAssumption, QuoteAssumption DEF PoolState, Request
  <2>2. V2Arguments(s.r0, s.r1, q.amount, V2Fee)
    BY <2>1 DEF V2Arguments
  <2>3. v2.fee \in U128
    BY <1>6, <2>2, QuoteV2Fits
  <2> HIDE DEF v2
  <2> QED BY <1>1, <1>7, <2>3, QuoteAssumption DEF U128
<1>9. s \in PastStates(q.pool)
  BY <1>2, <1>3 DEF Past, PastStates
<1> QED BY <1>6, <1>8, <1>9 DEF CanBeRefused

(* A leg is quoted: it is the only one, and reads what the repository has now *)
LEMMA StepLegV2 ==
    ASSUME IInv, NEW r \in Requests, LegV2(r), UNCHANGED lifecycle
    PROVE  IInv'
<1> DEFINE q == req[r]
           p == q.path[1].pool
           s == repository[p]
           quote == QuoteLeg(q, s)
           n == AfterLeg(q, s, quote)
<1>1. /\ q.pc = "leg" /\ Sound(q) /\ q \in Request /\ SeenInv(r) /\ KeepState /\ KeepOthers
      /\ q.path # <<>> /\ q.leg = 1 /\ q.pool \in Pools /\ Direct(q.path, q.pool, Pools)
      /\ q.answer = Absent
  <2>1. q.pc = "leg" /\ Sound(q) /\ SeenInv(r) /\ KeepState /\ KeepOthers
    BY RequestFacts DEF LegV2, At
  <2> QED BY <2>1 DEF Sound, RequestInv
<1>2. Become(r, n)
  <2>1. req' = [req EXCEPT ![r] = AfterLeg(@, s, quote)]
    BY <1>1 DEF LegV2
  <2> QED BY <2>1 DEF Become
<1>3. p \in Pools /\ Present(p)
  <2>1. p \in Pools
    BY <1>1, DirectLength
  <2> QED BY <1>1, <2>1 DEF SeenInv
<1>4. s \in PoolState \cup {Absent}
  BY <1>3 DEF IInv, TypeOK, SimTypeOK
<1>5. Sound(n)
  <2> HIDE DEF q, s
  <2> QED BY <1>1, <1>4, SoundLeg
<1>6. /\ n.pc \in {"leg", "done"} /\ Same(n, q)
      /\ q.kind = "v2" /\ n.answer.kind # "ok" => n.answer = quote
  <2> HIDE DEF q, s, quote
  <2> QED BY <1>1, LegKeeps
<1>7. quote = Refused => CanBeRefused(q)
  BY <1>1, <1>3, RefusedLeg
<1> HIDE DEF n, quote
<1>8. SeenInv(r)'
  <2>1. req'[r] = n
    BY <1>2, RequestFacts
  <2>2. \A u : (Present(u)' <=> Present(u)) /\ (Saved(u)' <=> Saved(u))
    BY <1>1 DEF KeepState, Present, Saved
  <2>3. Came(r)'
    <3>1. Came(r)
      BY <1>1 DEF SeenInv
    <3> QED BY <1>1, <1>6, <2>1, <2>2, <3>1 DEF Came, KeepOthers, Same
  <2>4. q.known => Present(q.pool)
    BY <1>1 DEF SeenInv
  <2>5. RefusedThoughKnown(r)' => CanBeRefused(req[r])'
    <3> SUFFICES ASSUME RefusedThoughKnown(r)' PROVE CanBeRefused(req[r])'
      OBVIOUS
    <3>1. n.kind = "v2" /\ n.answer.kind = "refused"
      BY <2>1 DEF RefusedThoughKnown
    <3>2. quote = n.answer
      BY <1>6, <3>1 DEF Same
    <3>3. quote \in {Refused, Panics}
      <4>1. quote = Panics \/ quote = Refused \/ quote.kind = "ok"
        BY <1>4, LegQuote DEF quote
      <4> QED BY <3>1, <3>2, <4>1
    <3>4. quote = Refused
      BY <3>1, <3>2, <3>3 DEF Panics
    <3>5. CanBeRefused(q)
      BY <1>7, <3>4
    <3>6. CanBeRefused(n)
      BY <1>6, <3>5 DEF CanBeRefused, Same
    <3>7. updates' = updates
      BY <1>1 DEF KeepOthers
    <3> QED BY <2>1, <3>6, <3>7 DEF CanBeRefused, PastStates
  <2> QED BY <1>1, <1>3, <1>6, <2>1, <2>2, <2>3, <2>4, <2>5 DEF SeenInv, Same
<1> QED BY <1>1, <1>2, <1>5, <1>6, <1>8, AcceptedStep DEF Looking, KeepOthers

(* A step of a request that puts a pool into the repository *)
LEMMA PutStep ==
    ASSUME IInv, NEW r \in Requests, NEW n, Sound(n), Become(r, n),
           req[r].pc \notin {"idle", "done"}, n.pc \notin Looking,
           UNCHANGED <<store, v3Saved, lifecycle>>, KeepOthers,
           repository' \in [Pools -> PoolState \cup {Absent}],
           v3Known' \subseteq V3Pools, v3Known \subseteq v3Known',
           \A p \in Pools : Present(p) => Present(p)',
           \A p \in Pools : Present(p)' => Past(p, repository'[p]),
           \A p \in Pools : Present(p)' /\ ~Present(p) => p = Sample \/ mode = "cli",
           SeenInv(r)'
    PROVE  IInv'
<1> USE DEF IInv
<1>1. req \in [Requests -> Request]
  BY DEF TypeOK, SimTypeOK
<1>2. n \in Request /\ (n.pc = "done" <=> n.answer # Absent) /\ n.pc # "idle"
  BY DEF Sound, RequestInv, Looking
<1>3. /\ req' \in [Requests -> Request] /\ req'[r] = n
      /\ \A t \in Requests : t # r => req'[t] = req[t]
  BY <1>1, <1>2 DEF Become
<1>4. TypeOK'
  <2>1. \A t \in Requests : req'[t].pc = "done" <=> req'[t].answer # Absent
    BY <1>2, <1>3 DEF TypeOK, SimTypeOK
  <2> QED BY <1>3, <2>1 DEF TypeOK, SimTypeOK, KeepOthers, lifecycle
<1>5. \A t \in Requests : Sound(req'[t]) /\ SeenInv(t)'
  <2> SUFFICES ASSUME NEW t \in Requests, t # r PROVE Sound(req'[t]) /\ SeenInv(t)'
    BY <1>3
  <2>1. req'[t] = req[t] /\ moved' = moved /\ Sound(req[t]) /\ SeenInv(t)
    BY <1>3 DEF KeepOthers
  <2>2. updates \in Nat /\ updates <= updates
    BY UpdatesTyped
  <2>3. req[t] \in Request /\ (req[t].path # <<>> => Direct(req[t].path, req[t].pool, Pools))
    BY <2>1 DEF Sound, RequestInv
  <2>4. \A p : Saved(p)' <=> Saved(p)
    BY DEF Saved
  <2>5. \A p \in Pools : Present(p)' /\ ~Present(p) /\ req[t].pc \in {"load", "upsert", "list"}
                             => p \in moved'[t] \cup {Sample}
    <3> SUFFICES ASSUME mode = "cli" PROVE req[t].pc \notin {"load", "upsert", "list"}
      OBVIOUS
    <3>1. At(t, "idle")
      BY DEF CommandInv, At
    <3> QED BY <3>1 DEF At
  <2>6. SeenInv(t)'
    BY <2>1, <2>2, <2>3, <2>4, <2>5, SeenKept DEF KeepOthers
  <2> QED BY <2>1, <2>6
<1>6. StatesInv'
  <2>1. \A p, s : Past(p, s) => Past(p, s)'
    BY DEF Past, KeepOthers
  <2>2. mode' = mode /\ store' = store /\ unsaved' = unsaved
    BY DEF KeepOthers
  <2>3. \A p \in Pools : Present(p)' => Past(p, repository[p])'
    BY DEF Past, KeepOthers
  <2>4. \A p \in Pools : store[p] # Absent => Past(p, store[p])'
    BY <2>1 DEF StatesInv
  <2>5. \A p \in Pools : unsaved # Absent /\ unsaved.pool = p =>
          Past(p, unsaved.state) /\ Present(p)'
    BY DEF StatesInv
  <2>6. mode = "service" => \A p \in Pools : store[p] # Absent => Present(p)'
    BY DEF StatesInv
  <2> QED BY <2>1, <2>2, <2>3, <2>4, <2>5, <2>6 DEF StatesInv, Past, KeepOthers
<1>7. CommandInv'
  <2>1. mode' = mode /\ listener' = listener /\ http' = http
    BY DEF KeepOthers, lifecycle
  <2>2. \A t \in Requests : ~At(t, "idle")' <=> ~At(t, "idle")
    BY <1>2, <1>3 DEF At
  <2> QED BY <1>3, <2>1, <2>2 DEF CommandInv
<1>8. ServerInv'
  <2>1. mode' = mode /\ serve' = serve /\ http' = http /\ r \in InFlight
    BY DEF KeepOthers, lifecycle, InFlight
  <2> QED BY <2>1 DEF ServerInv
<1> QED BY <1>4, <1>5, <1>6, <1>7, <1>8

(* prepare_simulation puts its state into the repository: a saved one of the pool
   asked for, which the service has by now, or the made-up one *)
LEMMA StepUpsert ==
    ASSUME IInv, NEW r \in Requests, Upsert(r), UNCHANGED lifecycle
    PROVE  IInv'
<1> DEFINE q == req[r]
           target == q.target
           loaded == q.loaded
           n == [q EXCEPT !.pc = "list", !.target = Sample, !.loaded = Absent]
<1>1. /\ q.pc = "upsert" /\ Sound(q) /\ q \in Request /\ SeenInv(r) /\ Become(r, n)
      /\ UNCHANGED <<store, v3Saved>> /\ KeepOthers
  BY RequestFacts DEF Upsert, At
<1>2. q.path = <<>> /\ q.answer = Absent /\ q.kind # "v3" /\ ~q.known
  BY <1>1 DEF Sound, RequestInv
<1>3. /\ target \in Pools => repository' = [repository EXCEPT ![target] = loaded] /\ v3Known' = v3Known
      /\ target \notin Pools => v3Known' = v3Known \cup {target} /\ repository' = repository
  BY DEF Upsert
<1>4. /\ target = Sample \/ (target = q.pool /\ Saved(q.pool))
      /\ target \in Pools => Past(target, loaded)
      /\ q.pool \in Pools /\ Present(q.pool) => Came(r)
  BY <1>1 DEF SeenInv
<1>5. /\ repository \in [Pools -> PoolState \cup {Absent}] /\ v3Known \subseteq V3Pools
      /\ target \in Pools \cup V3Pools
      /\ FirstState \in PoolState /\ SampleState \in PoolState /\ NewStates \subseteq PoolState
      /\ Absent \notin PoolState
      /\ \A p \in Pools : Present(p) => Past(p, repository[p])
      /\ mode = "service" => \A p \in Pools : store[p] # Absent => Present(p)
      /\ mode \in {"service", "cli"}
  BY <1>1, SimulationAssumption, AnswersTyped DEF IInv, TypeOK, SimTypeOK, Request, StatesInv
<1> HIDE DEF q, target, loaded
<1>6. /\ n \in Request /\ n.pc = "list" /\ n.known = q.known /\ n.kind = q.kind /\ n.path = q.path
      /\ n.pool = q.pool /\ n.answer = q.answer /\ n.read = q.read /\ n.snapshots = q.snapshots
  BY <1>1, SimulationAssumption DEF Request, Points
<1> HIDE DEF n
<1>7. Sound(n)
  BY <1>1, <1>2, <1>6, SoundMove
<1>8. target \in Pools => loaded \in PoolState /\ loaded # Absent
  BY <1>4, <1>5 DEF Past
<1>9. /\ repository' \in [Pools -> PoolState \cup {Absent}]
      /\ v3Known' \subseteq V3Pools /\ v3Known \subseteq v3Known'
      /\ \A p \in Pools : repository'[p] = IF p = target THEN loaded ELSE repository[p]
  BY <1>3, <1>5, <1>8
<1>10. \A p \in Pools : /\ Present(p) => Present(p)'
                        /\ Present(p)' => Past(p, repository'[p])
                        /\ Present(p)' /\ ~Present(p) => p = target
  BY <1>4, <1>5, <1>8, <1>9 DEF Present
<1>11. \A p \in Pools : Present(p)' /\ ~Present(p)
          => p = Sample \/ (mode = "cli" /\ p = q.pool /\ Saved(q.pool))
  <2> SUFFICES ASSUME NEW p \in Pools, Present(p)', ~Present(p), p # Sample
               PROVE  mode = "cli" /\ p = q.pool /\ Saved(q.pool)
    OBVIOUS
  <2>1. p = target /\ p = q.pool /\ Saved(q.pool)
    BY <1>4, <1>10
  <2>2. store[p] # Absent
    BY <2>1 DEF Saved
  <2> QED BY <1>5, <2>1, <2>2
<1>12. SeenInv(r)'
  <2>1. req'[r] = n /\ mode' = mode /\ moved' = moved
    BY <1>1, RequestFacts DEF KeepOthers
  <2>2. \A u : Saved(u)' <=> Saved(u)
    BY <1>1 DEF Saved
  <2>3. ASSUME NEW p \in Pools, p = q.pool, Present(p)' PROVE Came(r)'
    <3>1. CASE Present(p)
      <4>1. Came(r)
        BY <1>4, <2>3, <3>1
      <4> QED BY <1>6, <2>1, <2>2, <4>1 DEF Came, q
    <3>2. CASE ~Present(p)
      BY <1>6, <1>11, <2>1, <2>2, <2>3, <3>2 DEF Came
    <3> QED BY <3>1, <3>2
  <2> QED BY <1>2, <1>6, <2>1, <2>3 DEF SeenInv, RefusedThoughKnown
<1> QED BY <1>1, <1>6, <1>7, <1>9, <1>10, <1>11, <1>12, PutStep DEF Looking, q

(* build_v3_components puts the made-up pool into the repository *)
LEMMA StepUpsertV3 ==
    ASSUME IInv, NEW r \in Requests, UpsertV3(r), UNCHANGED lifecycle
    PROVE  IInv'
<1> DEFINE q == req[r]
           n == [q EXCEPT !.pc = "legV3"]
<1>1. /\ q.pc = "upsertV3" /\ Sound(q) /\ q \in Request /\ Become(r, n)
      /\ UNCHANGED <<repository, store, v3Saved>> /\ KeepOthers
      /\ v3Known' = v3Known \cup {V3Sample}
  BY RequestFacts DEF UpsertV3, At
<1>2. q.path = <<>> /\ q.answer = Absent /\ q.kind = "v3" /\ ~q.known
  BY <1>1 DEF Sound, RequestInv
<1> HIDE DEF q
<1>3. /\ n \in Request /\ n.pc = "legV3" /\ n.known = q.known /\ n.kind = q.kind /\ n.path = q.path
      /\ n.answer = q.answer /\ n.read = q.read /\ n.snapshots = q.snapshots
  BY <1>1 DEF Request, Points
<1> HIDE DEF n
<1>4. Sound(n)
  BY <1>1, <1>2, <1>3, SoundMove
<1>5. SeenInv(r)'
  <2>1. req'[r] = n
    BY <1>1, RequestFacts
  <2> QED BY <1>2, <1>3, <2>1, SeenNothing
<1>6. /\ repository' \in [Pools -> PoolState \cup {Absent}]
      /\ v3Known' \subseteq V3Pools /\ v3Known \subseteq v3Known'
      /\ \A p \in Pools : Present(p)' <=> Present(p)
      /\ \A p \in Pools : Present(p)' => Past(p, repository'[p])
  BY <1>1, SimulationAssumption DEF IInv, TypeOK, SimTypeOK, Present, StatesInv
<1> QED BY <1>1, <1>3, <1>4, <1>5, <1>6, PutStep DEF Looking, q

-----------------------------------------------------------------------------
(* The listener *)

(* a step of the listener, as the requests see it *)
LEMMA ListenerStep ==
    ASSUME IInv, mode = "service", UNCHANGED <<mode, req, lifecycle>>,
           updates' \in 0..MaxUpdates, updates <= updates',
           repository' \in [Pools -> PoolState \cup {Absent}],
           store' \in [Pools -> PoolState \cup {Absent}],
           v3Known \subseteq v3Known', v3Known' \subseteq V3Pools, v3Saved' \subseteq V3Pools,
           unsaved' \in Upserted \cup {Absent},
           moved' \in [Requests -> SUBSET (Pools \cup V3Pools)],
           \A t \in Requests : moved[t] \subseteq moved'[t],
           \A p : Saved(p) => Saved(p)',
           \A p \in Pools : Present(p) => Present(p)',
           \A p \in Pools, t \in Requests :
               Present(p)' /\ ~Present(p) /\ req[t].pc \in {"load", "upsert", "list"} => p \in moved'[t],
           StatesInv'
    PROVE  IInv'
<1> USE DEF IInv
<1>1. TypeOK'
  <2>1. \A r \in Requests : req'[r].pc = "done" <=> req'[r].answer # Absent
    BY DEF TypeOK, SimTypeOK
  <2> QED BY <2>1 DEF TypeOK, SimTypeOK, lifecycle
<1>2. \A t \in Requests : Sound(req'[t]) /\ SeenInv(t)'
  <2> SUFFICES ASSUME NEW t \in Requests PROVE Sound(req'[t]) /\ SeenInv(t)'
    OBVIOUS
  <2>1. req'[t] = req[t] /\ Sound(req[t]) /\ SeenInv(t) /\ updates \in Nat
    BY UpdatesTyped
  <2>2. updates' \in Nat
    <3>1. MaxUpdates \in Nat
      BY SimulationAssumption
    <3> QED BY <3>1
  <2>3. req[t] \in Request /\ (req[t].path # <<>> => Direct(req[t].path, req[t].pool, Pools))
    BY <2>1 DEF Sound, RequestInv
  <2>4. v3Known' = {} => v3Known = {}
    OBVIOUS
  <2>5. SeenInv(t)'
    BY <2>1, <2>2, <2>3, <2>4, SeenKept
  <2> QED BY <2>1, <2>5
<1>3. CommandInv' /\ ServerInv'
  BY DEF CommandInv, ServerInv, InFlight, lifecycle
<1> QED BY <1>1, <1>2, <1>3

(* a state that a pool can have stays one *)
LEMMA PastGrows ==
    ASSUME updates \in Nat, updates' \in Nat, updates <= updates'
    PROVE  \A p, s : Past(p, s) => Past(p, s)'
BY DEF Past

(* what the listener puts is marked for every request that has looked *)
LEMMA MarkedMoved ==
    ASSUME IInv, NEW pool \in Pools \cup V3Pools, MarkMoved(pool)
    PROVE  /\ moved' \in [Requests -> SUBSET (Pools \cup V3Pools)]
           /\ \A t \in Requests :
                 /\ moved[t] \subseteq moved'[t]
                 /\ req[t].pc \in {"load", "upsert", "list"} => pool \in moved'[t]
BY DEF MarkMoved, IInv, TypeOK, SimTypeOK

(* The listener puts a V2 state *)
LEMMA StepListenerUpsert ==
    ASSUME IInv, listener = "running", UNCHANGED lifecycle,
           NEW pool \in Followed, NEW s \in NewStates, ListenerUpsert(pool, s)
    PROVE  IInv'
<1>1. /\ mode = "service" /\ pool \in Pools /\ s \in PoolState /\ s # Absent
      /\ updates \in Nat /\ MaxUpdates \in Nat
      /\ repository \in [Pools -> PoolState \cup {Absent}]
  <2>1. mode \in {"service", "cli"} /\ (mode = "cli" => listener = "off")
    BY DEF IInv, TypeOK, SimTypeOK, CommandInv
  <2>2. repository \in [Pools -> PoolState \cup {Absent}] /\ updates \in Nat
    BY UpdatesTyped DEF IInv, TypeOK, SimTypeOK
  <2> QED BY <2>1, <2>2, SimulationAssumption, AnswersTyped
<1>2. /\ updates < MaxUpdates /\ repository' = [repository EXCEPT ![pool] = s]
      /\ unsaved' = [pool |-> pool, state |-> s] /\ updates' = updates + 1 /\ MarkMoved(pool)
      /\ UNCHANGED <<mode, v3Known, store, v3Saved, req>>
  BY DEF ListenerUpsert
<1>3. updates' \in 0..MaxUpdates /\ updates <= updates' /\ updates' > 0 /\ updates' \in Nat
  BY <1>1, <1>2
<1>4. /\ repository' \in [Pools -> PoolState \cup {Absent}]
      /\ \A p \in Pools : repository'[p] = IF p = pool THEN s ELSE repository[p]
  BY <1>1, <1>2
<1>5. \A p \in Pools : /\ Present(p) => Present(p)'
                       /\ Present(p)' /\ ~Present(p) => p = pool
  BY <1>1, <1>4 DEF Present
<1>6. unsaved' \in Upserted \cup {Absent}
  BY <1>1, <1>2 DEF Upserted
<1>7. StatesInv'
  <2>1. \A p, u : Past(p, u) => Past(p, u)'
    BY <1>1, <1>3, PastGrows
  <2>2. Past(pool, s)'
    BY <1>3 DEF Past
  <2>3. \A p \in Pools : Present(p)' => Past(p, repository[p])'
    <3> SUFFICES ASSUME NEW p \in Pools, Present(p)' PROVE Past(p, repository[p])'
      OBVIOUS
    <3>1. CASE p = pool
      BY <1>4, <2>2, <3>1 DEF Past
    <3>2. CASE p # pool
      <4>1. Past(p, repository[p])
        BY <1>5, <3>2 DEF IInv, StatesInv
      <4> QED BY <1>3, <1>4, <3>2, <4>1, <1>1 DEF Past
    <3> QED BY <3>1, <3>2
  <2>4. \A p \in Pools : store'[p] # Absent => Past(p, store[p])'
    <3> SUFFICES ASSUME NEW p \in Pools, store'[p] # Absent PROVE Past(p, store[p])'
      OBVIOUS
    <3>1. Past(p, store[p]) /\ store' = store
      BY <1>2 DEF IInv, StatesInv
    <3> QED BY <1>1, <1>3, <3>1 DEF Past
  <2>5. unsaved' # Absent /\ unsaved'.pool \in Pools =>
          Past(unsaved.pool, unsaved.state)' /\ Present(unsaved.pool)'
    <3>1. unsaved'.pool = pool /\ unsaved'.state = s
      BY <1>2
    <3> QED BY <1>1, <1>3, <1>4, <3>1 DEF Past, Present
  <2>6. \A p \in Pools : store'[p] # Absent => Present(p)'
    BY <1>1, <1>2, <1>5 DEF IInv, StatesInv
  <2> QED BY <2>3, <2>4, <2>5, <2>6 DEF StatesInv
<1>8. \A p : Saved(p) => Saved(p)'
  BY <1>2 DEF Saved
<1>9. v3Known' \subseteq V3Pools /\ v3Saved' \subseteq V3Pools /\ store' \in [Pools -> PoolState \cup {Absent}]
  BY <1>2 DEF IInv, TypeOK, SimTypeOK
<1>10. /\ moved' \in [Requests -> SUBSET (Pools \cup V3Pools)]
       /\ \A t \in Requests : /\ moved[t] \subseteq moved'[t]
                              /\ req[t].pc \in {"load", "upsert", "list"} => pool \in moved'[t]
  BY <1>1, <1>2, MarkedMoved
<1> QED BY <1>1, <1>2, <1>3, <1>4, <1>5, <1>6, <1>7, <1>8, <1>9, <1>10, ListenerStep

(* The listener puts a V3 pool *)
LEMMA StepListenerUpsertV3 ==
    ASSUME IInv, listener = "running", UNCHANGED lifecycle, NEW pool \in V3Pools, ListenerUpsertV3(pool)
    PROVE  IInv'
<1>1. mode = "service" /\ updates \in Nat /\ MaxUpdates \in Nat /\ pool \notin Pools
  <2>1. mode \in {"service", "cli"} /\ (mode = "cli" => listener = "off") /\ updates \in Nat
    BY UpdatesTyped DEF IInv, TypeOK, SimTypeOK, CommandInv
  <2> QED BY <2>1, SimulationAssumption
<1>2. /\ updates < MaxUpdates /\ v3Known' = v3Known \cup {pool}
      /\ unsaved' = [pool |-> pool, state |-> Absent] /\ updates' = updates + 1 /\ MarkMoved(pool)
      /\ UNCHANGED <<mode, repository, store, v3Saved, req>>
  BY DEF ListenerUpsertV3
<1>3. updates' \in 0..MaxUpdates /\ updates <= updates' /\ updates' \in Nat
  BY <1>1, <1>2
<1>4. unsaved' \in Upserted \cup {Absent}
  BY <1>2 DEF Upserted
<1>5. StatesInv'
  <2>1. unsaved'.pool = pool
    BY <1>2
  <2> QED BY <1>1, <1>2, <1>3, <2>1 DEF IInv, StatesInv, Past, Present
<1>6. (\A p : Saved(p) => Saved(p)') /\ \A p \in Pools : Present(p)' <=> Present(p)
  BY <1>2 DEF Saved, Present
<1>7. /\ v3Known' \subseteq V3Pools /\ v3Saved' \subseteq V3Pools
      /\ store' \in [Pools -> PoolState \cup {Absent}] /\ repository' \in [Pools -> PoolState \cup {Absent}]
  BY <1>2 DEF IInv, TypeOK, SimTypeOK
<1>8. /\ moved' \in [Requests -> SUBSET (Pools \cup V3Pools)]
      /\ \A t \in Requests : moved[t] \subseteq moved'[t]
  BY <1>2, MarkedMoved
<1>9. v3Known \subseteq v3Known'
  BY <1>2
<1> QED BY <1>1, <1>2, <1>3, <1>4, <1>5, <1>6, <1>7, <1>8, <1>9, ListenerStep

(* The listener saves what it has put *)
LEMMA StepListenerSave ==
    ASSUME IInv, listener = "running", UNCHANGED lifecycle, ListenerSave
    PROVE  IInv'
<1> DEFINE pool == unsaved.pool
           s    == unsaved.state
<1>1. /\ mode = "service" /\ updates \in Nat /\ unsaved \in Upserted
      /\ pool \in Pools => Past(pool, s) /\ Present(pool)
      /\ unsaved # Absent
  <2>1. mode \in {"service", "cli"} /\ (mode = "cli" => listener = "off") /\ updates \in Nat
    BY UpdatesTyped DEF IInv, TypeOK, SimTypeOK, CommandInv
  <2> QED BY <2>1 DEF ListenerSave, IInv, StatesInv, TypeOK, SimTypeOK
<1>2. /\ pool \in Pools => store' = [store EXCEPT ![pool] = s] /\ v3Saved' = v3Saved
      /\ pool \notin Pools => v3Saved' = v3Saved \cup {pool} /\ store' = store
      /\ unsaved' = Absent /\ UNCHANGED <<mode, repository, v3Known, updates, req, moved>>
  BY DEF ListenerSave
<1>3. pool \in Pools \cup V3Pools /\ (pool \in Pools => s \in PoolState /\ s # Absent)
  <2>1. pool \in Pools \cup V3Pools
    BY <1>1 DEF Upserted
  <2> QED BY <1>1, <2>1, SimulationAssumption, AnswersTyped DEF Past
<1>4. /\ store \in [Pools -> PoolState \cup {Absent}] /\ v3Saved \subseteq V3Pools
      /\ v3Known \subseteq V3Pools /\ repository \in [Pools -> PoolState \cup {Absent}]
      /\ moved \in [Requests -> SUBSET (Pools \cup V3Pools)] /\ updates \in 0..MaxUpdates
  BY DEF IInv, TypeOK, SimTypeOK
<1> HIDE DEF pool, s
<1>5. /\ store' \in [Pools -> PoolState \cup {Absent}] /\ v3Saved' \subseteq V3Pools
      /\ v3Saved \subseteq v3Saved'
      /\ \A p \in Pools : store'[p] = IF p = pool THEN s ELSE store[p]
  BY <1>2, <1>3, <1>4
<1>6. \A p : Saved(p) => Saved(p)'
  BY <1>3, <1>5 DEF Saved
<1>7. \A p \in Pools : Present(p)' <=> Present(p)
  BY <1>2 DEF Present
<1>8. StatesInv'
  <2>1. \A p, u : Past(p, u) <=> Past(p, u)'
    BY <1>2 DEF Past
  <2>2. /\ \A p \in Pools : Present(p) => Past(p, repository[p])
        /\ \A p \in Pools : store[p] # Absent => Past(p, store[p])
        /\ \A p \in Pools : store[p] # Absent => Present(p)
    BY <1>1 DEF IInv, StatesInv
  <2>3. \A p \in Pools : store'[p] # Absent => Past(p, store'[p]) /\ Present(p)
    BY <1>1, <1>5, <2>2
  <2> QED BY <1>2, <1>7, <2>2, <2>3 DEF StatesInv, Past
<1>9. updates <= updates'
  BY <1>1, <1>2
<1> QED BY <1>1, <1>2, <1>4, <1>5, <1>6, <1>7, <1>8, <1>9, ListenerStep

-----------------------------------------------------------------------------
(* The tasks and the inductive invariant *)

(* a step of serve, of the HTTP server or of the listener's task that       *)
(* leaves the requests and what they share                                  *)
LEMMA TaskStep ==
    ASSUME IInv, UNCHANGED simVars,
           serve' \in {"waiting", "join listener", "join http", "ended"},
           listener' \in {"off", "starting", "running", "stopped"},
           http' \in {"off", "binding", "serving", "draining", "stopped"},
           shutdown' \in BOOLEAN,
           listener = "off" => listener' = "off", http = "off" => http' = "off",
           http' \in {"off", "binding", "stopped"} /\ http # http' => InFlight = {},
           serve' = "ended" => serve = "ended" \/ http' \in {"off", "stopped"},
           http \in {"off", "stopped"} => http' = http
    PROVE  IInv'
<1> USE DEF IInv
<1>1. /\ mode' = mode /\ req' = req /\ repository' = repository /\ store' = store
      /\ v3Known' = v3Known /\ v3Saved' = v3Saved /\ unsaved' = unsaved
      /\ updates' = updates /\ moved' = moved
  BY DEF simVars
<1>2. TypeOK'
  BY <1>1 DEF TypeOK, SimTypeOK
<1>3. \A r \in Requests : Sound(req'[r]) /\ SeenInv(r)'
  BY <1>1 DEF SeenInv, Present, Came, Saved, Past, RefusedThoughKnown, CanBeRefused, PastStates
<1>4. StatesInv'
  BY <1>1 DEF StatesInv, Present, Past
<1>5. CommandInv'
  BY <1>1 DEF CommandInv, At, Present
<1>6. ServerInv'
  <2>1. InFlight' = InFlight
    BY <1>1 DEF InFlight
  <2> QED BY <1>1, <2>1 DEF ServerInv, TypeOK
<1> QED BY <1>1, <1>2, <1>3, <1>4, <1>5, <1>6

(* The invariant holds at the start *)
LEMMA InvInit == Init => IInv
<1> SUFFICES ASSUME Init PROVE IInv
  OBVIOUS
<1>1. /\ Sample \in Pools /\ V3Sample \in V3Pools /\ FirstState \in PoolState
      /\ FirstKnown \subseteq SUBSET Pools /\ MaxUpdates \in Nat /\ Absent \notin PoolState
  BY SimulationAssumption, AnswersTyped
<1>2. /\ mode \in {"service", "cli"} /\ unsaved = Absent /\ updates = 0
      /\ v3Known = {} /\ v3Saved = {}
      /\ repository = (IF mode = "service" THEN store ELSE [p \in Pools |-> Absent])
      /\ req = [r \in Requests |-> Idle] /\ moved = [r \in Requests |-> {}]
  BY DEF Init, SimInit
<1>3. PICK known \in FirstKnown : store = [p \in Pools |-> IF p \in known THEN FirstState ELSE Absent]
  BY DEF Init, SimInit
<1>4. /\ store \in [Pools -> PoolState \cup {Absent}]
      /\ repository \in [Pools -> PoolState \cup {Absent}]
      /\ \A p \in Pools : store[p] \in {FirstState, Absent} /\ repository[p] \in {FirstState, Absent}
  BY <1>1, <1>2, <1>3
<1>5. /\ Idle \in Request /\ Idle.pc = "idle" /\ Idle.answer = Absent /\ Idle.path = <<>>
      /\ ~Idle.known /\ Idle.read = <<>> /\ Idle.snapshots = <<>>
  <2>1. 0 \in U128
    BY QuoteAssumption DEF U128
  <2> QED BY <1>1, <2>1 DEF Idle, Request, Points
<1>6. \A r \in Requests : req[r] = Idle
  BY <1>2
<1>7. TypeOK
  <2>1. updates \in 0..MaxUpdates
    BY <1>1, <1>2
  <2>2. req \in [Requests -> Request] /\ moved \in [Requests -> SUBSET (Pools \cup V3Pools)]
    BY <1>2, <1>5
  <2>3. \A r \in Requests : req[r].pc = "done" <=> req[r].answer # Absent
    BY <1>5, <1>6
  <2>4. SimTypeOK
    BY <1>2, <1>4, <2>1, <2>2, <2>3 DEF SimTypeOK
  <2> QED BY <2>4 DEF Init, TypeOK
<1>8. Sound(Idle)
  BY <1>5 DEF Sound, RequestInv, LegsInv, AnswerInv
<1>9. \A r \in Requests : SeenInv(r)
  BY <1>5, <1>6 DEF SeenInv, RefusedThoughKnown
<1>10. StatesInv
  BY <1>2, <1>4 DEF StatesInv, Present, Past
<1>11. CommandInv
  BY <1>2, <1>5, <1>6 DEF Init, CommandInv, At, Present
<1>12. ServerInv
  <2>1. InFlight = {}
    BY <1>5, <1>6 DEF InFlight
  <2>2. mode = "service" /\ serve = "ended" => http = "off"
    BY DEF Init
  <2> QED BY <2>1, <2>2 DEF ServerInv
<1> QED BY <1>6, <1>7, <1>8, <1>9, <1>10, <1>11, <1>12 DEF IInv

(* and every step keeps it *)
LEMMA InvStep == IInv /\ [Next]_vars => IInv'
<1> SUFFICES ASSUME IInv, [Next]_vars PROVE IInv'
  OBVIOUS
<1>1. /\ serve \in {"waiting", "join listener", "join http", "ended"}
      /\ listener \in {"off", "starting", "running", "stopped"}
      /\ http \in {"off", "binding", "serving", "draining", "stopped"}
      /\ shutdown \in BOOLEAN
  BY DEF IInv, TypeOK
<1>2. CASE ListenerStarts \/ ListenerStops
  BY <1>1, <1>2, TaskStep DEF ListenerStarts, ListenerStops
<1>3. CASE ListenerMoves
  BY <1>3, StepListenerUpsert, StepListenerUpsertV3, StepListenerSave DEF ListenerMoves
<1>4. CASE HttpBinds
  <2>1. InFlight = {}
    <3>1. mode \in {"service", "cli"} /\ (mode = "cli" => http = "off")
      BY DEF IInv, TypeOK, SimTypeOK, CommandInv
    <3> QED BY <1>4, <3>1 DEF HttpBinds, IInv, ServerInv
  <2> QED BY <1>1, <1>4, <2>1, TaskStep DEF HttpBinds
<1>5. CASE HttpDrains \/ HttpEnds
  BY <1>1, <1>5, TaskStep DEF HttpDrains, HttpEnds
<1>6. ASSUME NEW r \in Requests, Ask(r) PROVE IInv'
  BY <1>6, StepAsk
<1>7. ASSUME NEW r \in Requests, Proceed(r) PROVE IInv'
  BY <1>7, StepLook, StepLoadFails, StepLoadOrSample, StepUpsert, StepFindPath, StepLegV2,
     StepLookV3, StepUpsertV3, StepLegV3 DEF Proceed
<1>8. CASE CtrlC \/ JoinListener \/ JoinHttp
  BY <1>1, <1>8, TaskStep DEF CtrlC, JoinListener, JoinHttp
<1>9. CASE UNCHANGED vars
  BY <1>1, <1>9, TaskStep DEF vars, lifecycle
<1> QED BY <1>2, <1>3, <1>4, <1>5, <1>6, <1>7, <1>8, <1>9 DEF Next

(***************************************************************************)
(* The inductive invariant of the service and of the command line, with    *)
(* any number of requests, pools and updates by the listener.              *)
(***************************************************************************)
THEOREM ServiceInvariant == Spec => []IInv
BY InvInit, InvStep, PTL DEF Spec

-----------------------------------------------------------------------------
(* The properties *)

(***************************************************************************)
(* The requests, the repository, the snapshot stores and the tasks keep    *)
(* their types; a request is done exactly when it has an answer.           *)
(***************************************************************************)
THEOREM ServiceTyped == Spec => []TypeOK
<1>1. IInv => TypeOK
  BY DEF IInv
<1> QED BY <1>1, ServiceInvariant, PTL

(***************************************************************************)
(* A V2 answer is a quote by one pool of the very pair that was asked for, *)
(* and never by the made-up pool for one that nobody knows, whatever order *)
(* the HashMap lists the pools in and whoever puts pools meanwhile.        *)
(***************************************************************************)
THEOREM PairAnswered == Spec => []AnswersAreForThePair
<1>1. ASSUME IInv PROVE AnswersAreForThePair
  <2> SUFFICES ASSUME NEW r \in Requests, Quoted(r), req[r].kind = "v2"
               PROVE  /\ Len(req[r].path) = 1
                      /\ PairOf(req[r].path[1].pool) = PairOf(req[r].pool)
                      /\ req[r].path[1].input = TokensOf[req[r].pool][1]
                      /\ Came(r)
    BY DEF AnswersAreForThePair, Came
  <2>1. Sound(req[r]) /\ SeenInv(r)
    BY <1>1, RequestFacts
  <2>2. req[r].path # <<>>
    BY <2>1 DEF Sound, AnswerInv, Quoted
  <2>3. Direct(req[r].path, req[r].pool, Pools)
    BY <1>1, <2>2, RequestFacts
  <2>4. Came(r)
    BY <2>1, <2>2 DEF SeenInv
  <2> QED BY <2>3, <2>4, DirectLength
<1> QED BY <1>1, ServiceInvariant, PTL

(***************************************************************************)
(* No leg lowers the product of the reserves it read, with the fee, the    *)
(* rounding and the u128 arithmetic of quote_swap, for every amount and    *)
(* every state of a pool.                                                  *)
(***************************************************************************)
THEOREM ProductSafety == Spec => []LegsKeepProduct
<1>1. IInv => LegsKeepProduct
  BY DEF IInv, Sound, LegsInv, LegsKeepProduct
<1> QED BY <1>1, ServiceInvariant, PTL

(***************************************************************************)
(* When the made-up V3 pool is at par (2^96, as build_v3_components makes  *)
(* it), a quote gives back what came in less the fee, in either direction  *)
(* and for every amount.                                                   *)
(***************************************************************************)
THEOREM ParSafety == V3SqrtPrice = Q => (Spec => []V3QuoteAtPar)
<1> SUFFICES ASSUME V3SqrtPrice = Q PROVE Spec => []V3QuoteAtPar
  OBVIOUS
<1>1. IInv => V3QuoteAtPar
  BY DEF IInv, Sound, AnswerInv, V3QuoteAtPar, Quoted
<1> QED BY <1>1, ServiceInvariant, PTL

(***************************************************************************)
(* While there are V2 pools alone, a pool that was there when the request  *)
(* looked is refused only for an amount that some state the pools of the   *)
(* pair have been in cannot quote.                                         *)
(***************************************************************************)
THEOREM KnownQuoted == Spec => []KnownPoolIsQuoted
<1>1. IInv => KnownPoolIsQuoted
  BY DEF IInv, SeenInv, KnownPoolIsQuoted
<1> QED BY <1>1, ServiceInvariant, PTL

(***************************************************************************)
(* When serve has ended no request that was accepted is without an answer. *)
(***************************************************************************)
THEOREM EndsQuiet == Spec => []EndsWithNothingInFlight
<1>1. IInv => EndsWithNothingInFlight
  BY DEF IInv, ServerInv, EndsWithNothingInFlight
<1> QED BY <1>1, ServiceInvariant, PTL

(* only the upsert of a request changes both the request and the repository *)
LEMMA OnlyUpsertPuts ==
    ASSUME IInv, [Next]_vars, NEW r \in Requests, req'[r] # req[r], repository' # repository
    PROVE  Upsert(r)
<1>1. req \in [Requests -> Request]
  BY DEF IInv, TypeOK, SimTypeOK
<1>2. PICK t \in Requests : Ask(t) \/ Proceed(t)
  BY DEF Next, vars, simVars, ListenerStarts, ListenerStops, ListenerMoves, ListenerUpsert,
     ListenerUpsertV3, ListenerSave, HttpBinds, HttpDrains, HttpEnds, CtrlC, JoinListener, JoinHttp
<1>3. ~Ask(t)
  BY DEF Ask, AskV2, AskBench, AskV3, AskNonsense, KeepState
<1>4. Upsert(t)
  BY <1>2, <1>3 DEF Proceed, Look, LoadFails, LoadOrSample, FindPath, LegV2, LookV3, UpsertV3,
     LegV3, KeepState
<1>5. t = r
  BY <1>1, <1>4 DEF Upsert, Become
<1> QED BY <1>4, <1>5

(***************************************************************************)
(* A request changes a pool the repository has only if the listener put    *)
(* that pool there after the request looked, or it is the made-up one.     *)
(***************************************************************************)
THEOREM OverwriteSafety == Spec => OnlyRacesOverwrite
<1>1. ASSUME IInv, [Next]_vars, NEW r \in Requests, NEW p \in Pools,
             req'[r] # req[r], repository[p] # Absent, repository'[p] # repository[p]
      PROVE  p \in moved[r] \cup {Sample}
  <2> DEFINE q == req[r]
  <2>1. Upsert(r) /\ SeenInv(r) /\ Sound(q) /\ q.pc = "upsert"
    <3>1. Upsert(r)
      BY <1>1, OnlyUpsertPuts
    <3> QED BY <1>1, <3>1, RequestFacts DEF Upsert, At
  <2>2. q.target = p
    BY <1>1, <2>1 DEF Upsert, IInv, TypeOK, SimTypeOK
  <2>3. CASE q.target = q.pool
    <3>1. Came(r)
      BY <1>1, <2>1, <2>2, <2>3 DEF SeenInv, Present
    <3>2. ~q.known
      BY <2>1 DEF Sound, RequestInv
    <3>3. mode # "cli"
      <4> SUFFICES ASSUME mode = "cli" PROVE FALSE
        OBVIOUS
      <4>1. \A t \in Requests : req[t].pc \in Looking
        BY <1>1, <2>1 DEF IInv, CommandInv, At, Looking
      <4> QED BY <1>1, <4>1 DEF IInv, CommandInv, Present
    <3> QED BY <2>2, <2>3, <3>1, <3>2, <3>3 DEF Came
  <2> QED BY <2>1, <2>2, <2>3 DEF SeenInv
<1>2. IInv /\ [Next]_vars =>
        [\A r \in Requests, p \in Pools :
            req'[r] # req[r] /\ repository[p] # Absent /\ repository'[p] # repository[p]
                => p \in moved[r] \cup {Sample}]_vars
  BY <1>1
<1> QED BY <1>2, ServiceInvariant, PTL DEF Spec, OnlyRacesOverwrite
=============================================================================
