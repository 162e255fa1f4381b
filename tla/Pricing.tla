------------------------------- MODULE Pricing -------------------------------
(***************************************************************************)
(* The money arithmetic of the domain crate: the share-of-volume pricing   *)
(* of a market's outcomes (domain/src/services/pricing.rs), the price      *)
(* value object, and the payout of a winning bet.                          *)
(*                                                                         *)
(* A market's outcomes are indexed 1..n in their `seq' order; a vector of  *)
(* volumes or prices is a function on 1..n.  Volumes are i64 and the build *)
(* has no overflow checks in release, so products and sums wrap; the width *)
(* is a constant because TLC's integers are narrower than 64 bits.         *)
(***************************************************************************)
EXTENDS Integers, FiniteSets, Functions

CONSTANTS SCALE,   \* units that make up a price of 1.0000 (10_000 in the code)
          I64MAX   \* the largest i64

ASSUME PricingAssumption ==
  /\ SCALE \in Nat \ {0}
  /\ I64MAX \in Nat
  /\ SCALE <= I64MAX

MinTick == 1
Price   == 0 .. SCALE
I64     == -I64MAX - 1 .. I64MAX

\* Two's-complement wrap-around of a release build's `*' and `+'.
WrapI64(x) ==
  IF x \in I64 THEN x
  ELSE ((x + I64MAX + 1) % (2 * (I64MAX + 1))) - (I64MAX + 1)

\* i64::saturating_add and saturating_mul.
SaturateI64(x) == IF x > I64MAX THEN I64MAX ELSE IF x < -I64MAX - 1 THEN -I64MAX - 1 ELSE x

\* Rust's `/' rounds towards zero; the divisors below are positive.
TruncDiv(a, b) == IF a < 0 THEN -((-a) \div b) ELSE a \div b

\* Outcome::add_volume on one outcome of a vector.
AddVolume(vols, i, amount) == [vols EXCEPT ![i] = SaturateI64(@ + amount)]

-----------------------------------------------------------------------------

\* Every outcome's share of the total, floored; the even split when nothing
\* is staked.
Shares(volumes) ==
  LET n     == DOMAIN volumes
      total == WrapI64(SumFunction(volumes))
  IN  IF total <= 0
      THEN [i \in n |-> SCALE \div Cardinality(n)]
      ELSE [i \in n |-> TruncDiv(WrapI64(volumes[i] * SCALE), total)]

\* What flooring left over.
Remainder(volumes) == SCALE - SumFunction(Shares(volumes))

\* The leftover units go one each to the first outcomes.
SharesWithRemainder(volumes) ==
  [i \in DOMAIN volumes |->
     Shares(volumes)[i] + (IF i <= Remainder(volumes) THEN 1 ELSE 0)]

\* Mutant: the flooring remainder is dropped.
SharesWithoutRemainder(volumes, old) ==
  [i \in DOMAIN volumes |->
     IF Shares(volumes)[i] \in Price THEN Shares(volumes)[i] ELSE old[i]]

\* A share outside the price range leaves the outcome's old price standing.
RecalculatePrices(volumes, old) ==
  [i \in DOMAIN volumes |->
     IF SharesWithRemainder(volumes)[i] \in Price
     THEN SharesWithRemainder(volumes)[i]
     ELSE old[i]]

-----------------------------------------------------------------------------

\* The price a bet buys at: the board's, never below one tick.
BuyPrice(price) == IF price < MinTick THEN MinTick ELSE price

\* What a winning bet pays: amount / price, floored.
Payout(amount, price) == SaturateI64(amount * SCALE) \div price

\* The stake-weighted mean price of a non-empty family of positions, floored:
\* the figure reported after a placement.
AveragePrice(amounts, prices) ==
  SumFunction([k \in DOMAIN amounts |-> amounts[k] * prices[k]]) \div SumFunction(amounts)
=============================================================================
