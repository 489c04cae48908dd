----------------------------- MODULE LegacyPool -----------------------------
(***************************************************************************)
(* The older pool contract (packages/contract/contracts/pool), which the     *)
(* builders of the SDK still address by default.  A position is a number of  *)
(* units under an id that the caller chooses; its range is not stored, and   *)
(* mint and burn take whatever range they are called with.  A swap moves the *)
(* price without crossing ticks; cross_tick, set_price and flip_tick are     *)
(* entry points of their own.  An action is one completed call; a call that  *)
(* panics is not enabled.                                                    *)
(*                                                                         *)
(* flip_tick and next_initialized_tick are called with the pool's spacing.   *)
(*                                                                         *)
(* Left out: fee growth, collect, which pays nobody, and events.             *)
(***************************************************************************)
EXTENDS TickBitmap, ClPoolMath, OracleAdapter

CONSTANTS
    SqrtPriceOf,     \* tick -> tick_to_sqrt_price, increasing
    PoolIds,         \* position ids that callers choose
    PoolAmounts,     \* units of liquidity a call adds or removes
    PoolOffers, PoolLimits,  \* amount_in and sqrt_price_limit_x96 of a swap
    PoolPrices,      \* sqrt_price_x96 of initialize and set_price
    PoolFeePart,     \* 1000: the part of an offer that is taken as fee
    MaxPoolCalls, MaxPoolTime  \* bounds of the model

ASSUME LegacyAssumption ==
    /\ IsFiniteSet(PoolIds)  \* they are u64
    /\ PoolAmounts \subseteq Nat \ {0} /\ PoolFeePart \in Nat \ {0}
    /\ PoolOffers \cup PoolLimits \cup PoolPrices \subseteq Nat
    /\ \A s, t \in MinTick .. MaxTick : s < t => SqrtPriceOf[s] < SqrtPriceOf[t]

VARIABLES
    poolState,       \* PoolState: price, tick, active liquidity
    poolTicks,       \* tick -> liquidity_gross and liquidity_net; entries are never removed
    poolBitmap,
    poolPositions,   \* id -> liquidity, the positions stored
    poolBalance,     \* the contract's balance of token 0 and token 1
    poolOracle,      \* an oracle has been wired
    poolNow,         \* ledger timestamp
    poolCalls,       \* calls made so far, for the bound
    handFlipped      \* history: ticks whose bit callers of flip_tick toggled an odd number of times

tickVars   == <<poolTicks, poolBitmap, handFlipped>>
wiringVars == <<poolOracle, poolNow>>
legacyVars == <<poolState, tickVars, poolPositions, poolBalance, wiringVars, poolCalls, oracleVars>>

PoolTicks == {t \in MinTick .. MaxTick : ValidTick(t)}

----------------------------------------------------------------------------
(* Prices *)

(* The greatest tick whose price is not above p; MIN_TICK when there is none. *)
TickOf(p) == Max({MinTick} \cup {t \in MinTick .. MaxTick : SqrtPriceOf[t] <= p})

(* What a range of that many units is worth, each term rounded down by itself. *)
UnitsWorth(n, lower, upper) ==
    LET a == SqrtPriceOf[lower]
        b == SqrtPriceOf[upper]
        p == Min({b, Max({a, poolState.price})})
    IN  <<(n * Q96) \div p - (n * Q96) \div b, (n * (p - a)) \div Q96>>

(* The price after a swap: along the curve of the active liquidity, and to the limit when it  *)
(* went past it.                                                                              *)
PoolPriceAfter(zeroForOne, amount, limit) ==
    LET p == NextSqrtPriceFromInput(poolState.price, poolState.liquidity, amount, zeroForOne)
    IN  IF zeroForOne THEN Max({p, limit}) ELSE Min({p, limit})

AfterFee(amount) == amount - amount \div PoolFeePart

----------------------------------------------------------------------------
(* Ticks *)

InfoOf(t) == IF t \in DOMAIN poolTicks THEN poolTicks[t] ELSE [gross |-> 0, net |-> 0]

(* update_tick at both ends of a range. *)
RangeMoved(lower, upper, delta) ==
    [t \in DOMAIN poolTicks \cup {lower, upper} |->
        IF t \notin {lower, upper} THEN poolTicks[t]
        ELSE [gross |-> InfoOf(t).gross + delta,
              net   |-> InfoOf(t).net + (IF t = upper THEN -delta ELSE delta)]]

(* Variant: only a tick that becomes initialized is flipped. *)
FlipsOnEntry(t, delta) == InfoOf(t).gross = 0

(* Whether the update initializes the tick or empties it. *)
FlipsAt(t, delta) == (InfoOf(t).gross + delta = 0) # (InfoOf(t).gross = 0)

BitsMoved(lower, upper, delta) ==
    LET one == IF FlipsAt(lower, delta) THEN Flip(poolBitmap, lower) ELSE poolBitmap
    IN  IF FlipsAt(upper, delta) THEN Flip(one, upper) ELSE one

(* next_initialized_tick divides by the spacing before it looks for the word, and Rust rounds  *)
(* towards zero.                                                                              *)
NextPoolTick(t, lte) ==
    LET c == IF t >= 0 THEN t \div Spacing ELSE -((-t) \div Spacing)
    IN  NextInitializedTick(poolBitmap, c * Spacing, lte)

----------------------------------------------------------------------------
(* Calls *)

PoolCall == poolCalls < MaxPoolCalls /\ poolCalls' = poolCalls + 1

TickInside(lower, upper) == lower <= poolState.tick /\ poolState.tick < upper

(* What mint and burn have in common: ticks, bits and active liquidity. *)
MovesRange(lower, upper, delta) ==
    /\ ValidTick(lower) /\ ValidTick(upper) /\ lower < upper
    /\ poolTicks' = RangeMoved(lower, upper, delta)
    /\ poolBitmap' = BitsMoved(lower, upper, delta)
    /\ poolState' = IF TickInside(lower, upper)
                    THEN [poolState EXCEPT !.liquidity = @ + delta] ELSE poolState
    /\ UNCHANGED <<handFlipped, wiringVars, oracleVars>>

UnitsOf(id) == IF id \in DOMAIN poolPositions THEN poolPositions[id] ELSE 0

MintUnits(id, lower, upper, n) ==
    LET due == UnitsWorth(n, lower, upper)
    IN  /\ PoolCall
        /\ MovesRange(lower, upper, n)
        /\ poolPositions' = [i \in DOMAIN poolPositions \cup {id} |->
                                IF i = id THEN UnitsOf(id) + n ELSE poolPositions[i]]
        /\ poolBalance' = <<poolBalance[1] + due[1], poolBalance[2] + due[2]>>

(* The counters are checked: a range with less than that at one of its ends is refused, and so *)
(* is one in range while less is active.                                                      *)
CountersHold(lower, upper, n) ==
    /\ InfoOf(lower).gross >= n /\ InfoOf(upper).gross >= n
    /\ TickInside(lower, upper) => poolState.liquidity >= n

BurnUnits(id, lower, upper, n) ==
    LET due  == UnitsWorth(n, lower, upper)
        left == UnitsOf(id) - n
    IN  /\ PoolCall
        /\ MovesRange(lower, upper, -n)
        /\ CountersHold(lower, upper, n)
        /\ id \in DOMAIN poolPositions /\ left >= 0
        /\ due[1] <= poolBalance[1] /\ due[2] <= poolBalance[2]
        /\ poolPositions' = IF left = 0 THEN [i \in DOMAIN poolPositions \ {id} |-> poolPositions[i]]
                            ELSE [poolPositions EXCEPT ![id] = left]
        /\ poolBalance' = <<poolBalance[1] - due[1], poolBalance[2] - due[2]>>

(* A swap moves the price, no tokens, and crosses no tick. *)
SwapUnits(zeroForOne, amount, limit) ==
    LET p == PoolPriceAfter(zeroForOne, AfterFee(amount), limit)
    IN  /\ PoolCall
        /\ poolState' = [poolState EXCEPT !.price = p, !.tick = TickOf(p)]
        /\ IF poolOracle THEN WriteObservation(poolNow, p) ELSE UNCHANGED oracleVars
        /\ UNCHANGED <<tickVars, poolPositions, poolBalance, wiringVars>>

(* cross_tick adds the net of the tick in either direction, and stops at zero. *)
CrossTick(t) ==
    /\ PoolCall
    /\ poolState' = [poolState EXCEPT !.liquidity = Max({0, @ + InfoOf(t).net})]
    /\ UNCHANGED <<tickVars, poolPositions, poolBalance, wiringVars, oracleVars>>

SetPrice(p) ==
    /\ PoolCall
    /\ poolState' = [poolState EXCEPT !.price = p, !.tick = TickOf(p)]
    /\ UNCHANGED <<tickVars, poolPositions, poolBalance, wiringVars, oracleVars>>

FlipTick(t) ==
    /\ PoolCall
    /\ ValidTick(t)
    /\ poolBitmap' = Flip(poolBitmap, t)
    /\ handFlipped' = IF t \in handFlipped THEN handFlipped \ {t} ELSE handFlipped \cup {t}
    /\ UNCHANGED <<poolState, poolTicks, poolPositions, poolBalance, wiringVars, oracleVars>>

(* set_oracle: once. *)
SetPoolOracle ==
    /\ ~poolOracle
    /\ poolOracle' = TRUE
    /\ UNCHANGED <<poolState, tickVars, poolPositions, poolBalance, poolNow, poolCalls, oracleVars>>

PoolTick ==
    /\ poolNow < MaxPoolTime
    /\ poolNow' = poolNow + 1
    /\ UNCHANGED <<poolState, tickVars, poolPositions, poolBalance, poolOracle, poolCalls, oracleVars>>

(* initialize *)
LegacyInit ==
    /\ \E p \in PoolPrices : poolState = [price |-> p, tick |-> TickOf(p), liquidity |-> 0]
    /\ poolTicks = [t \in {} |-> 0] /\ poolBitmap = EmptyBitmap
    /\ poolPositions = [i \in {} |-> 0] /\ poolBalance = <<0, 0>>
    /\ poolOracle = FALSE /\ poolNow = 0 /\ poolCalls = 0 /\ handFlipped = {}
    /\ InitOracle

LegacyNext ==
    \/ \E id \in PoolIds, lower, upper \in PoolTicks, n \in PoolAmounts :
          MintUnits(id, lower, upper, n) \/ BurnUnits(id, lower, upper, n)
    \/ \E down \in BOOLEAN, n \in PoolOffers, limit \in PoolLimits : SwapUnits(down, n, limit)
    \/ \E t \in PoolTicks : CrossTick(t) \/ FlipTick(t)
    \/ \E p \in PoolPrices : SetPrice(p)
    \/ SetPoolOracle \/ PoolTick

----------------------------------------------------------------------------
(* Properties *)

Gross(t) == InfoOf(t).gross
Initialized == {t \in PoolTicks : Gross(t) > 0}

(* The ticks hold what the positions hold, once at each end, whatever ranges the burns named:  *)
(* no counter goes below zero, and the nets of all ticks cancel (update_tick, lib.rs:759).      *)
UnitsAtTicks ==
    /\ \A t \in PoolTicks : Gross(t) >= 0
    /\ MapThenSumSet(Gross, PoolTicks) = 2 * MapThenSumSet(UnitsOf, PoolIds)
    /\ MapThenSumSet(LAMBDA t : InfoOf(t).net, PoolTicks) = 0

(* The bits are those of the initialized ticks, but for the ones that were flipped by hand; as  *)
(* long as there are none, the search finds them from every tick but a negative one between two *)
(* usable ticks (next_initialized_tick, lib.rs:239).                                                                 *)
BitsAtTicks ==
    /\ \A t \in PoolTicks : BitSet(poolBitmap, t) <=> (t \in Initialized) # (t \in handFlipped)
    /\ handFlipped = {} =>
          \A t \in MinTick .. MaxTick, lte \in BOOLEAN :
              t >= 0 \/ ValidTick(t) => NextPoolTick(t, lte) = NextOf(Initialized, t, lte)

(* The older pool keeps its books, over any sequence of its calls.                             *)
LegacyInv == UnitsAtTicks /\ BitsAtTicks
=============================================================================
