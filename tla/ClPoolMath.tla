----------------------------- MODULE ClPoolMath -----------------------------
(***************************************************************************)
(* The arithmetic of packages/contract/contracts/cl-pool: prices are       *)
(* unsigned fixed-point numbers with unit Q96, related to ticks by the     *)
(* code's linear model.  Division rounds down, as u128 division does.  No  *)
(* product here comes near 2^128 for the liquidity the contract's tests    *)
(* call safe, so its saturating multiplications are plain ones.            *)
(***************************************************************************)
EXTENDS Integers, FiniteSets, FiniteSetsExt

CONSTANTS
    Q96,            \* the unit of fixed-point prices
    TickScale,      \* ticks per unit of price: 20000 in the code
    FeeTier, FeeDenominator

ASSUME ClPoolMathAssumption ==
    /\ Q96 \in Nat \ {0} /\ TickScale \in Nat \ {0}
    /\ FeeTier \in Nat /\ FeeDenominator \in Nat \ {0}
    /\ FeeTier < FeeDenominator

LOCAL Low(a, b)  == IF a < b THEN a ELSE b
LOCAL High(a, b) == IF a < b THEN b ELSE a
LOCAL CeilDiv(n, d) == (n + d - 1) \div d

TickToSqrtPrice(t) ==
    IF t >= 0 THEN Q96 + (t * Q96) \div TickScale
              ELSE High(0, Q96 - ((-t) * Q96) \div TickScale)

(* Truncates towards zero on both sides of tick 0; a zero price is tick 0. *)
SqrtPriceToTick(p) ==
    IF p = 0 THEN 0
    ELSE IF p >= Q96 THEN ((p - Q96) * TickScale) \div Q96
    ELSE -(((Q96 - p) * TickScale) \div Q96)

FeeOf(amount) == (amount * FeeTier) \div FeeDenominator

(* amounts_for_liquidity; the division traps at a lower price of zero. *)
Priceable(lower) == TickToSqrtPrice(lower) > 0
AmountsForLiquidity(liq, lower, upper, price) ==
    LET a == TickToSqrtPrice(lower)
        b == TickToSqrtPrice(upper)
        p == Low(b, High(a, price))
    IN  [i \in 0 .. 1 |-> IF i = 0 THEN (liq * Q96) \div a - (liq * Q96) \div b
                                   ELSE (liq * (p - a)) \div Q96]

GetAmount0Delta(p, q, liq, roundUp) ==
    LET lower == Low(p, q)
        upper == High(p, q)
        num   == liq * (upper - lower)
        den   == High(1, upper \div Q96) * lower
    IN  IF p = q \/ liq = 0 THEN 0
        ELSE IF lower = 0 THEN (liq * Q96) \div upper
        ELSE IF roundUp THEN CeilDiv(num, den) ELSE num \div den

GetAmount1Delta(p, q, liq, roundUp) ==
    LET num == liq * (High(p, q) - Low(p, q))
    IN  IF roundUp THEN CeilDiv(num, Q96) ELSE num \div Q96

(* In and out amounts of a price move, for either direction. *)
AmountIn(p, q, liq, zeroForOne) ==
    IF zeroForOne THEN GetAmount0Delta(p, q, liq, TRUE)
                  ELSE GetAmount1Delta(p, q, liq, TRUE)
AmountOut(p, q, liq, zeroForOne) ==
    IF zeroForOne THEN GetAmount1Delta(p, q, liq, FALSE)
                  ELSE GetAmount0Delta(p, q, liq, FALSE)

NextSqrtPriceFromInput(p, liq, amount, zeroForOne) ==
    IF liq = 0 THEN p
    ELSE IF zeroForOne THEN (liq * p) \div (liq + (amount * p) \div Q96)
    ELSE p + (amount * Q96) \div liq
=============================================================================
