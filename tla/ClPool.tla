------------------------------- MODULE ClPool -------------------------------
(***************************************************************************)
(* The concentrated-liquidity pool contract (packages/contract/contracts/  *)
(* cl-pool) with the two contracts it calls: position-nft, which mints and *)
(* burns a token per position, and oracle-adapter, which records a price   *)
(* after every swap.  A contract call is one transaction: it runs alone    *)
(* and either completes, or panics and changes nothing.  An action is one  *)
(* completed call; a call that panics is not enabled.                      *)
(*                                                                         *)
(* Left out, because nothing else reads them: the fee_growth_outside       *)
(* counters of a tick, tokens_owed (only ever 0) and events.               *)
(***************************************************************************)
EXTENDS TickBitmap, ClPoolMath, OracleAdapter

CONSTANTS
    Users,
    Liquidities,       \* amounts of liquidity a call adds or removes
    AmountsIn,         \* amounts a swap offers
    PriceLimits,       \* sqrt_price_limit_x96 of a swap
    InitPrices,        \* sqrt_price_x96 of initialize
    MaxSwapIterations, \* MAX_SWAP_ITERATIONS
    WithOracle,        \* the deployment wires an oracle
    MaxPositions, MaxSwaps, MaxTransfers, MaxTime  \* bounds of the model

(* A liquidity of 1 is excluded: see Collectable. *)
ASSUME ClPoolAssumption ==
    /\ Liquidities \subseteq Nat \ {0, 1} /\ AmountsIn \subseteq Nat
    /\ PriceLimits \subseteq Nat /\ InitPrices \subseteq Nat
    /\ MaxSwapIterations \in Nat /\ MaxPositions \in Nat
    /\ WithOracle \in BOOLEAN

VARIABLES
    sqrtPrice, currentTick,
    liquidity,          \* active liquidity
    feeGrowth,          \* FeeGrowthGlobal0/1
    positions,          \* position id -> Position, the positions stored
    nextPositionId,
    ticks,              \* tick -> liquidity_gross and liquidity_net, the entries stored
    bitmap,
    balance,            \* the pool's balance of token 0 and token 1
    tokens,             \* position-nft: token id -> PositionMetadata, the tokens alive
    nextTokenId,
    oracle,             \* the oracle adapter has been wired
    now,                \* ledger timestamp
    swaps, transfers,   \* calls made so far, for the bounds
    held                \* history: the integral of the price over time, now and at
                        \* each observation

poolVars  == <<sqrtPrice, currentTick, liquidity, feeGrowth>>
bookVars  == <<positions, nextPositionId, ticks, bitmap>>
nftVars   == <<tokens, nextTokenId>>
boundVars == <<swaps, transfers, held>>
vars == <<poolVars, bookVars, balance, nftVars, oracle, now, boundVars, oracleVars>>

TickRange == {t \in MinTick .. MaxTick : ValidTick(t)}
Sides == 0 .. 1

Put(f, k, v) == [x \in DOMAIN f \cup {k} |-> IF x = k THEN v ELSE f[x]]
Drop(f, k) == [x \in DOMAIN f \ {k} |-> f[x]]
Empty == [x \in {} |-> x]

----------------------------------------------------------------------------
(* Ticks *)

InRange(t, lower, upper) == lower <= t /\ t < upper

ReadTick(tk, t) == IF t \in DOMAIN tk THEN tk[t] ELSE [gross |-> 0, net |-> 0]
Moved(tk, t, delta, upper) ==
    [gross |-> ReadTick(tk, t).gross + delta,
     net   |-> ReadTick(tk, t).net + (IF upper THEN -delta ELSE delta)]

(* Variant: net grows at both ends of a range. *)
UpdateTickUnsigned(tk, t, delta, upper) ==
    LET info == Moved(tk, t, delta, FALSE)
    IN  IF info.gross = 0 THEN Drop(tk, t) ELSE Put(tk, t, info)

UpdateTick(tk, t, delta, upper) ==
    LET info == Moved(tk, t, delta, upper)
    IN  IF info.gross = 0 THEN Drop(tk, t) ELSE Put(tk, t, info)

(* Whether the update initialized or emptied the tick. *)
Flipped(tk, t, delta) ==
    (ReadTick(tk, t).gross + delta = 0) # (ReadTick(tk, t).gross = 0)
FlipIf(bm, t, flipped) == IF flipped THEN Flip(bm, t) ELSE bm

MoveRange(tk, lower, upper, delta) ==
    UpdateTick(UpdateTick(tk, lower, delta, FALSE), upper, delta, TRUE)
FlipRange(bm, tk, lower, upper, delta) ==
    FlipIf(FlipIf(bm, lower, Flipped(tk, lower, delta)), upper, Flipped(tk, upper, delta))

----------------------------------------------------------------------------
(* Fees *)

(* fee_growth_inside: all of the global growth in range, none out of it. *)
FeeGrowthInside(lower, upper) ==
    [i \in Sides |-> IF InRange(currentTick, lower, upper) THEN feeGrowth[i] ELSE 0]

----------------------------------------------------------------------------
(* Liquidity *)

(* PositionMetadata, of a position or of another token. *)
Metadata(owner, p) ==
    [owner |-> owner, lower |-> p.lower, upper |-> p.upper, liquidity |-> p.liquidity]

(* position-nft mint, for a position. *)
Minted(p) == Put(tokens, nextTokenId, Metadata(p.owner, p))

NewPosition(u, lower, upper, liq) ==
    [owner |-> u, lower |-> lower, upper |-> upper, liquidity |-> liq,
     inside |-> FeeGrowthInside(lower, upper), nft |-> nextTokenId]

(* A position stored again with another liquidity or other fee snapshots. *)
Rewritten(p, liq, inside) ==
    [owner |-> p.owner, lower |-> p.lower, upper |-> p.upper, liquidity |-> liq,
     inside |-> inside, nft |-> p.nft]

AddLiquidity(u, lower, upper, liq) ==
    LET amounts == AmountsForLiquidity(liq, lower, upper, sqrtPrice)
        p       == NewPosition(u, lower, upper, liq)
    IN  /\ lower < upper
        /\ ValidTick(lower) /\ ValidTick(upper)
        /\ liq # 0
        /\ Priceable(lower)
        /\ nextPositionId < MaxPositions
        /\ balance' = [i \in Sides |-> balance[i] + amounts[i]]
        /\ ticks' = MoveRange(ticks, lower, upper, liq)
        /\ bitmap' = FlipRange(bitmap, ticks, lower, upper, liq)
        /\ liquidity' = IF InRange(currentTick, lower, upper)
                        THEN liquidity + liq ELSE liquidity
        /\ tokens' = Minted(p)
        /\ nextTokenId' = nextTokenId + 1
        /\ positions' = Put(positions, nextPositionId, p)
        /\ nextPositionId' = nextPositionId + 1
        /\ UNCHANGED <<sqrtPrice, currentTick, feeGrowth, oracle, now, boundVars, oracleVars>>

(* What both kinds of removal do before the position itself is settled. *)
TakeOut(u, id, liq) ==
    LET p == positions[id]
        amounts == AmountsForLiquidity(liq, p.lower, p.upper, sqrtPrice)
    IN  /\ p.owner = u
        /\ liq # 0 /\ liq <= p.liquidity
        /\ \A i \in Sides : amounts[i] <= balance[i]
        /\ balance' = [i \in Sides |-> balance[i] - amounts[i]]
        /\ ticks' = MoveRange(ticks, p.lower, p.upper, -liq)
        /\ bitmap' = FlipRange(bitmap, ticks, p.lower, p.upper, -liq)
        /\ liquidity' = IF InRange(currentTick, p.lower, p.upper)
                        THEN Max({0, liquidity - liq}) ELSE liquidity
        /\ UNCHANGED <<sqrtPrice, currentTick, feeGrowth, nextPositionId,
                       oracle, now, boundVars, oracleVars>>

(* remove_liquidity of a whole position: its token is burnt. *)
RemoveAll(u, id) ==
    LET p == positions[id]
    IN  /\ TakeOut(u, id, p.liquidity)
        /\ p.nft \in DOMAIN tokens
        /\ tokens' = Drop(tokens, p.nft)
        /\ positions' = Drop(positions, id)
        /\ UNCHANGED nextTokenId

(* Variant: the token of the position is replaced, its id is not. *)
TokenReplaced(left) == Drop(Minted(left), left.nft)

TokensAfterPart(left) == Minted(left)

(* remove_liquidity of a part: a token is minted for what is left, and the *)
(* position keeps the id of its first token.                               *)
RemovePart(u, id, liq) ==
    LET p == positions[id]
        left == Rewritten(p, p.liquidity - liq, p.inside)
    IN  /\ liq < p.liquidity
        /\ TakeOut(u, id, liq)
        /\ positions' = Put(positions, id, left)
        /\ tokens' = TokensAfterPart(left)
        /\ nextTokenId' = nextTokenId + 1

(* collect.  A fee growth that is smaller inside the range than at the last  *)
(* collect wraps to a number above 2^127, and its product with any liquidity *)
(* above 1 overflows: the call panics.                                       *)
Collectable(p) ==
    \A i \in Sides : p.inside[i] <= FeeGrowthInside(p.lower, p.upper)[i]
Owed(p) ==
    [i \in Sides |->
        ((FeeGrowthInside(p.lower, p.upper)[i] - p.inside[i]) * p.liquidity) \div Q96]

Settled(p) == Rewritten(p, p.liquidity, FeeGrowthInside(p.lower, p.upper))

Collect(u, id) ==
    LET p == positions[id]
    IN  /\ p.owner = u
        /\ Collectable(p)
        /\ \A i \in Sides : Owed(p)[i] <= balance[i]
        /\ positions' = Put(positions, id, Settled(p))
        /\ balance' = [i \in Sides |-> balance[i] - Owed(p)[i]]
        /\ UNCHANGED <<poolVars, nextPositionId, ticks, bitmap, nftVars, oracle, now,
                       boundVars, oracleVars>>

(* position-nft transfer: the pool is not told. *)
TransferToken(from, to, t) ==
    /\ transfers < MaxTransfers
    /\ tokens[t].owner = from
    /\ tokens' = [tokens EXCEPT ![t] = Metadata(to, @)]
    /\ transfers' = transfers + 1
    /\ UNCHANGED <<poolVars, bookVars, balance, nextTokenId, oracle, now, swaps, held,
                   oracleVars>>

----------------------------------------------------------------------------
(* Swap *)

Abs(x) == IF x < 0 THEN -x ELSE x

SearchFrom(tick, zeroForOne) == IF zeroForOne THEN tick - 1 ELSE tick

(* The end of the segment: the next initialized tick or the end of the price *)
(* range, or the caller's limit when that comes first.                       *)
Clipped(boundary, limit, zeroForOne) ==
    IF zeroForOne THEN Max({boundary, limit}) ELSE Min({boundary, limit})

SegmentEnd(next, limit, zeroForOne) ==
    Clipped(TickToSqrtPrice(IF next.initialized THEN next.tick
                            ELSE IF zeroForOne THEN MinTick ELSE MaxTick),
            limit, zeroForOne)

(* Active liquidity across a tick: the size of the tick's net is taken off   *)
(* downwards and added upwards, whatever its sign.                           *)
Crossed(liq, t, zeroForOne) ==
    LET net == Abs(ReadTick(ticks, t).net)
    IN  IF zeroForOne THEN Max({0, liq - net}) ELSE liq + net

SegmentGrowth(amount, liq) ==
    IF liq = 0 THEN 0 ELSE (FeeOf(amount) * Q96) \div liq

(* One turn of the loop.  A partial step trades at the segment's curve but   *)
(* leaves the price where the segment began.                                 *)
Segment(s, zeroForOne, limit) ==
    LET next   == NextInitializedTick(bitmap, SearchFrom(s.tick, zeroForOne), zeroForOne)
        target == SegmentEnd(next, limit, zeroForOne)
        needed == AmountIn(s.price, target, s.liq, zeroForOne)
        full   == [s EXCEPT !.left = @ - needed, !.price = target,
                            !.out = @ + AmountOut(s.price, target, s.liq, zeroForOne),
                            !.growth = @ + SegmentGrowth(needed, s.liq)]
        atLimit == IF zeroForOne THEN target <= limit ELSE target >= limit
        liq    == Crossed(s.liq, next.tick, zeroForOne)
    IN  IF s.crossed >= MaxSwapIterations THEN [s EXCEPT !.status = "panic"]
        ELSE IF s.left < needed
        THEN [s EXCEPT !.left = 0, !.status = "done",
                       !.out = @ + AmountOut(s.price,
                                     NextSqrtPriceFromInput(s.price, s.liq, s.left, zeroForOne),
                                     s.liq, zeroForOne),
                       !.growth = @ + SegmentGrowth(s.left, s.liq)]
        ELSE IF full.left = 0 \/ atLimit \/ ~next.initialized
        THEN [full EXCEPT !.status = "done"]
        ELSE [full EXCEPT !.liq = liq, !.tick = next.tick, !.crossed = @ + 1,
                          !.status = IF liq = 0 THEN "done" ELSE "go"]

(* The swap loop; the iteration limit ends it. *)
Traded(zeroForOne, amountIn, limit) ==
    LET start == [left |-> amountIn - FeeOf(amountIn), price |-> sqrtPrice,
                  tick |-> currentTick, liq |-> liquidity, out |-> 0, growth |-> 0,
                  crossed |-> 0, status |-> "go"]
        turn[n \in 0 .. MaxSwapIterations + 1] ==
            IF n = 0 THEN start
            ELSE IF turn[n - 1].status = "go" THEN Segment(turn[n - 1], zeroForOne, limit)
            ELSE turn[n - 1]
    IN  turn[MaxSwapIterations + 1]

(* Variant: the whole offer is charged, the part left over included. *)
ChargedAll(amountIn, left) == amountIn + FeeOf(left)

(* What the sender pays: the part traded and its fee. *)
Charged(amountIn, left) ==
    LET base == amountIn - FeeOf(amountIn) - left IN base + FeeOf(base)

(* write_observation, when an oracle is wired.  The code names the price     *)
(* `new_sqrt_price`, which nothing declares; what its contract asks for is   *)
(* the price after the swap.                                                 *)
Observed(price) ==
    IF oracle
    THEN /\ WriteObservation(now, price)
         /\ held' = [held EXCEPT !.at = Put(@, writeIndex, held.sum)]
    ELSE UNCHANGED <<oracleVars, held>>

Swap(zeroForOne, amountIn, limit) ==
    LET r     == Traded(zeroForOne, amountIn, limit)
        paidIn  == IF zeroForOne THEN 0 ELSE 1
    IN  /\ swaps < MaxSwaps
        /\ liquidity > 0
        /\ amountIn - FeeOf(amountIn) > 0
        /\ r.status = "done"
        /\ r.out <= balance[1 - paidIn]
        /\ balance' = [balance EXCEPT ![paidIn] = @ + Charged(amountIn, r.left),
                                     ![1 - paidIn] = @ - r.out]
        /\ feeGrowth' = [feeGrowth EXCEPT ![paidIn] = @ + r.growth]
        /\ sqrtPrice' = r.price
        /\ currentTick' = SqrtPriceToTick(r.price)
        /\ liquidity' = r.liq
        /\ Observed(r.price)
        /\ swaps' = swaps + 1
        /\ UNCHANGED <<bookVars, nftVars, oracle, now, transfers>>

----------------------------------------------------------------------------

(* set_oracle: once. *)
SetOracle ==
    /\ WithOracle
    /\ ~oracle
    /\ oracle' = TRUE
    /\ UNCHANGED <<poolVars, bookVars, balance, nftVars, now, boundVars, oracleVars>>

(* The ledger closes, a second later. *)
CloseLedger ==
    /\ now < MaxTime
    /\ now' = now + 1
    /\ held' = [held EXCEPT !.sum = @ + sqrtPrice]
    /\ UNCHANGED <<poolVars, bookVars, balance, nftVars, oracle, swaps, transfers, oracleVars>>

(* initialize has run, in the deploy script. *)
Init ==
    /\ sqrtPrice \in InitPrices
    /\ currentTick = SqrtPriceToTick(sqrtPrice)
    /\ liquidity = 0
    /\ feeGrowth = [i \in Sides |-> 0]
    /\ positions = Empty /\ nextPositionId = 0
    /\ ticks = Empty /\ bitmap = EmptyBitmap
    /\ balance = [i \in Sides |-> 0]
    /\ tokens = Empty /\ nextTokenId = 0
    /\ oracle = FALSE /\ now = 0
    /\ swaps = 0 /\ transfers = 0
    /\ held = [sum |-> 0, at |-> Empty]
    /\ InitOracle

AddStep    == \E u \in Users, lower, upper \in TickRange, liq \in Liquidities :
                 AddLiquidity(u, lower, upper, liq)
RemoveStep == \E u \in Users, id \in DOMAIN positions :
                 RemoveAll(u, id) \/ \E liq \in Liquidities : RemovePart(u, id, liq)
CollectStep == \E u \in Users, id \in DOMAIN positions : Collect(u, id)
SwapStep   == \E zeroForOne \in BOOLEAN, amountIn \in AmountsIn, limit \in PriceLimits :
                 Swap(zeroForOne, amountIn, limit)
TransferStep == \E from, to \in Users, t \in DOMAIN tokens : TransferToken(from, to, t)

Next == AddStep \/ RemoveStep \/ CollectStep \/ SwapStep \/ TransferStep
        \/ SetOracle \/ CloseLedger

Spec == Init /\ [][Next]_vars

----------------------------------------------------------------------------
(* Properties *)

PositionIds == 0 .. MaxPositions - 1

(* The types of the pool's storage, of the token contract's and of the oracle's. *)
TypeOK ==
    /\ sqrtPrice \in Nat /\ currentTick \in Int
    /\ liquidity \in Nat
    /\ feeGrowth \in [Sides -> Nat] /\ balance \in [Sides -> Nat]
    /\ nextPositionId \in Nat /\ nextTokenId \in Nat
    /\ DOMAIN positions \subseteq PositionIds
    /\ \A id \in DOMAIN positions :
          positions[id] \in [owner : Users, lower : TickRange, upper : TickRange,
                            liquidity : Nat \ {0}, inside : [Sides -> Nat], nft : Nat]
    /\ DOMAIN ticks \subseteq TickRange
    /\ \A t \in DOMAIN ticks : ticks[t] \in [gross : Nat, net : Int]
    /\ bitmap \in [Words -> SUBSET (0 .. WordBits - 1)]
    /\ \A t \in DOMAIN tokens :
          tokens[t] \in [owner : Users, lower : TickRange, upper : TickRange, liquidity : Nat]
    /\ DOMAIN observations \subseteq Slots
    /\ writeIndex \in Slots /\ observationCount \in 0 .. BufferSize

Boundaries == UNION {{positions[id].lower, positions[id].upper} : id \in DOMAIN positions}
LiquidityOf(ids) == MapThenSumSet(LAMBDA id : positions[id].liquidity, ids)
StartingAt(t) == {id \in DOMAIN positions : positions[id].lower = t}
EndingAt(t)   == {id \in DOMAIN positions : positions[id].upper = t}

(* The tick entries are the sums over the positions stored, through any      *)
(* sequence of additions and whole or partial removals: a tick has an entry  *)
(* exactly while a position begins or ends there, liquidity_gross is the     *)
(* liquidity of those positions, and liquidity_net that of the ones that     *)
(* begin less that of the ones that end.                                     *)
TicksAreSums ==
    /\ DOMAIN ticks = Boundaries
    /\ \A t \in DOMAIN ticks :
          /\ ticks[t].gross = LiquidityOf(StartingAt(t)) + LiquidityOf(EndingAt(t))
          /\ ticks[t].net = LiquidityOf(StartingAt(t)) - LiquidityOf(EndingAt(t))

(* The bitmap marks exactly the ticks that have an entry, and an entry never *)
(* outlives its liquidity, however the flips of ranges with common ends      *)
(* follow one another.                                                       *)
BitmapMarksTicks ==
    /\ \A t \in TickRange : BitSet(bitmap, t) <=> t \in DOMAIN ticks
    /\ \A t \in DOMAIN ticks : ticks[t].gross # 0

(* The bitmap search a swap relies on, from any tick and across words,       *)
(* negative ones too, answers the nearest boundary of a stored position, and *)
(* the end of the range when there is none.                                  *)
SearchFindsBoundary ==
    \A t \in MinTick .. MaxTick, lte \in BOOLEAN :
        NextInitializedTick(bitmap, t, lte) = NextOf(Boundaries, t, lte)

(* A stored position owns a token that is alive and carries its range, and   *)
(* no two positions share one, so that a whole removal can burn it and burns *)
(* no other position's.                                                      *)
PositionsOwnTokens ==
    /\ \A id \in DOMAIN positions :
          LET p == positions[id]
          IN  /\ p.nft \in DOMAIN tokens
              /\ tokens[p.nft].lower = p.lower /\ tokens[p.nft].upper = p.upper
    /\ \A a, b \in DOMAIN positions : positions[a].nft = positions[b].nft => a = b

(* "zero_for_one = true means token0 -> token1 (price decreases)", for the    *)
(* limit the SDK sends with every swap, 0 for "no limit": a swap never moves *)
(* the price against its direction.                                          *)
SwapFollowsDirection ==
    [][\A zeroForOne \in BOOLEAN, amountIn \in AmountsIn :
          Swap(zeroForOne, amountIn, 0) =>
              IF zeroForOne THEN sqrtPrice' <= sqrtPrice ELSE sqrtPrice <= sqrtPrice']_vars

(* A swap costs its sender at most what was offered, also when it stops      *)
(* early and the rest is refunded, and gives nothing away for free: a swap   *)
(* that charges nothing pays out nothing.  Price zero is excepted: there the *)
(* token 0 that goes in is rounded down (lib.rs:1138), and a few units of    *)
(* liquidity can be bought for nothing.                                      *)
SwapChargesOffer ==
    [][\A zeroForOne \in BOOLEAN, amountIn \in AmountsIn, limit \in PriceLimits :
          Swap(zeroForOne, amountIn, limit) =>
              LET in   == IF zeroForOne THEN 0 ELSE 1
                  cost == balance'[in] - balance[in]
              IN  /\ 0 <= cost /\ cost <= amountIn
                  /\ cost = 0 /\ sqrtPrice # 0 /\ sqrtPrice' # 0
                        => balance'[1 - in] = balance[1 - in]]_vars

Windows == 1 .. MaxTime
TimeAt(s) == observations[s].timestamp

(* The search get_twap relies on, over a buffer that may have wrapped and    *)
(* hold several observations of one second: wherever it answers, the average *)
(* starts at the newest observation made at the start of the window or       *)
(* before it.                                                                *)
TwapStartsWindow ==
    \A w \in Windows : TwapDefined(w) =>
        LET from == StartSlot(Target(w))
        IN  /\ from \in DOMAIN observations
            /\ TimeAt(from) <= Target(w)
            /\ \A s \in DOMAIN observations : TimeAt(s) <= Target(w) =>
                  observations[s].cumulative <= observations[from].cumulative

(* "get_twap(window_secs) serves time-weighted average prices": the answer   *)
(* is the price weighted by the time it was in force.                        *)
TwapIsTimeWeighted ==
    \A w \in Windows : TwapDefined(w) =>
        LET from == StartSlot(Target(w))
        IN  Twap(w) = (held.at[Latest] - held.at[from]) \div (TimeAt(Latest) - TimeAt(from))

(* "A position contributes `liquidity` at tick_lower and removes it at       *)
(* tick_upper, so crossing a tick adjusts active liquidity by                *)
(* `liquidity_net`": active liquidity is that of the positions in range.     *)
ActiveIsInRange ==
    liquidity = LiquidityOf({id \in DOMAIN positions :
                    InRange(currentTick, positions[id].lower, positions[id].upper)})

(* The book of ticks is what the positions make it, and a swap that searches *)
(* it stops where they begin and end.                                       *)
BooksAgree == TypeOK /\ TicksAreSums /\ SearchFindsBoundary
=============================================================================
