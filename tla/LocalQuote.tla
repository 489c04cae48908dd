----------------------------- MODULE LocalQuote -----------------------------
(***************************************************************************)
(* Quotes computed off chain: packages/sdk/src/quote.ts walks the ticks of a *)
(* pool, and POST /swaps/quote (swaps.service.ts) gives it the pool's row in *)
(* the database.  The chain moves on meanwhile; the row follows swaps only,  *)
(* in the order their jobs are handled (indexer.worker.ts), and nothing in   *)
(* the repository writes a row of the Tick table, which the endpoint reads.  *)
(* Prices are square roots in units of 1/Q, Q standing for 2^96; the tick    *)
(* map is given by its values.                                              *)
(***************************************************************************)
EXTENDS Integers, Sequences, SequencesExt, FiniteSets, FiniteSetsExt

CONSTANTS Q, Ratio,          \* 2^96; sqrtRatioAtTick, increasing, on 0..n for MIN_TICK..MAX_TICK
          QuoteRanges,       \* positions the pool may hold: [lower, upper, liquidity]
          QuotePrices,       \* square root prices the pool moves between
          FeePpm, Million,   \* the pool's feeTier, and its unit
          Reserve,           \* both reserves of the estimates that know no pool
          AmountsIn, Slippages,
          MaxBookMoves

MinTick == 0
MaxTick == Cardinality(DOMAIN Ratio) - 1

ASSUME TickMapAssumption ==
  /\ MaxTick \in Nat /\ Ratio \in [0..MaxTick -> Nat \ {0}]
  /\ \A t \in 1..MaxTick : Ratio[t - 1] < Ratio[t]

ASSUME QuoteAssumption ==
  /\ Q \in Nat \ {0} /\ Million \in Nat \ {0} /\ FeePpm \in 0..(Million - 1) /\ Reserve \in Nat \ {0}
  /\ QuotePrices \subseteq Ratio[0]..Ratio[MaxTick]
  /\ QuoteRanges \subseteq [lower : DOMAIN Ratio, upper : DOMAIN Ratio, liquidity : Nat \ {0}]
  /\ \A r \in QuoteRanges : r.lower < r.upper
  /\ AmountsIn \subseteq Nat /\ Slippages \subseteq 0..10000

VARIABLES book,       \* the positions on chain, and
          sqrtPrice,  \* the price there
          swapJobs,   \* swap events not projected yet: [no, price, liquidity]
          quotedRow,    \* the pool's row: the event last projected
          swapNo, misordered,   \* swaps so far; whether one was projected after a later one
          quote       \* the answer last given

ladderVars == <<book, sqrtPrice, swapJobs, quotedRow, swapNo, misordered, quote>>

NoQuote == [kind |-> "none"]
TickOf(p) == CHOOSE t \in DOMAIN Ratio : Ratio[t] <= p /\ (t = MaxTick \/ p < Ratio[t + 1])

Sum(S, f(_)) == MapThenSumSet(f, S)
LiquidityOf(S) == Sum(S, LAMBDA r : r.liquidity)
LiquidityAt(tick) == LiquidityOf({r \in book : r.lower <= tick /\ tick < r.upper})
Initialised == {r.lower : r \in book} \cup {r.upper : r \in book}
Net(tick) == LiquidityOf({r \in book : r.lower = tick}) - LiquidityOf({r \in book : r.upper = tick})

(* A pool is projected with no liquidity; its price is that of pool.created. *)
LadderInit ==
  /\ book = {} /\ sqrtPrice \in QuotePrices
  /\ swapJobs = {} /\ quotedRow = [no |-> 0, price |-> sqrtPrice, liquidity |-> 0]
  /\ swapNo = 0 /\ misordered = FALSE /\ quote = NoQuote

(***************************************************************************)
(* The walk                                                                *)
(***************************************************************************)

DivUp(n, d) == IF n = 0 THEN 0 ELSE (n - 1) \div d + 1

(* getAmount0Delta and getAmount1Delta, of what is paid in (up) or out. *)
Amount0Delta(a, b, liquidity, up) ==
  LET hi == IF a < b THEN b ELSE a  lo == IF a < b THEN a ELSE b
      n == liquidity * (hi - lo) * Q  d == hi * lo
  IN  IF up THEN DivUp(n, d) ELSE n \div d

Amount1Delta(a, b, liquidity, up) ==
  LET n == liquidity * (IF a < b THEN b - a ELSE a - b)
  IN  IF up THEN DivUp(n, Q) ELSE n \div Q

(* Where the price stops when the input does not reach the target. *)
PriceAfterIn(down, price, liquidity, in) ==
  IF down THEN DivUp(liquidity * price * Q, liquidity * Q + in * price)
          ELSE price + (in * Q) \div liquidity

AmountToReach(down, goal, price, liquidity) ==
  IF down THEN Amount0Delta(goal, price, liquidity, TRUE) ELSE Amount1Delta(price, goal, liquidity, TRUE)
AmountPaid(down, goal, price, liquidity) ==
  IF down THEN Amount1Delta(goal, price, liquidity, FALSE) ELSE Amount0Delta(price, goal, liquidity, FALSE)

CrossedUp(down, liquidity, net) == liquidity + net
Crossed(down, liquidity, net) == IF down THEN liquidity - net ELSE liquidity + net

(* One turn of the loop: up to the next tick, or to where the input ends.  Beyond the last      *)
(* tick the target is the end of the scale, and reaching it is an error.                       *)
Turn(down, s, t) ==
  LET goal    == Ratio[t.tick]
      need    == AmountToReach(down, goal, s.price, s.liquidity)
      reached == s.left >= need
      stop    == IF reached THEN goal ELSE PriceAfterIn(down, s.price, s.liquidity, s.left)
  IN  [left  |-> IF reached THEN s.left - need ELSE 0,
       out   |-> s.out + AmountPaid(down, stop, s.price, s.liquidity),
       price |-> stop,
       liquidity |-> IF reached THEN Crossed(down, s.liquidity, t.net) ELSE s.liquidity,
       refused   |-> reached /\ t.last]

Walk(down, s, t) ==
  IF s.left = 0 \/ s.refused THEN s
  ELSE IF s.liquidity <= 0 THEN [s EXCEPT !.refused = TRUE]
  ELSE Turn(down, s, t)

(* sortedTicks, nearest first, then the end of the scale. *)
Ahead(down, ticks, from) == {t \in ticks : IF down THEN t.tick < from ELSE t.tick > from}
Nearer(down, a, b) == IF down THEN a.tick > b.tick ELSE a.tick < b.tick
SortedTicks(down, S) == CHOOSE q \in SetToSeqs(S) : \A i, j \in DOMAIN q : i < j => Nearer(down, q[i], q[j])
EndOfScale(down) == [tick |-> IF down THEN MinTick ELSE MaxTick, net |-> 0, last |-> TRUE]
Targets(down, ticks, from) == Append(SortedTicks(down, Ahead(down, ticks, from)), EndOfScale(down))

(* getSwapQuote: the fee is rounded up and taken first. *)
FeeOf(in) == DivUp(in * FeePpm, Million)
Refused == [refused |-> TRUE]
WalkOver(down, start, targets) == FoldLeft(LAMBDA s, t : Walk(down, s, t), start, targets)
SwapQuote(down, pool, ticks, in, slippage) ==
  LET fee == FeeOf(in)
      end == WalkOver(down, [left |-> in - fee, out |-> 0, price |-> pool.price,
                             liquidity |-> pool.liquidity, refused |-> FALSE],
                      Targets(down, ticks, TickOf(pool.price)))
  IN  IF in <= 0 \/ pool.liquidity <= 0 \/ in <= fee \/ end.refused \/ end.left > 0 THEN Refused
      ELSE [refused |-> FALSE, out |-> end.out, stop |-> end.price, fee |-> fee,
            minimum |-> (end.out * (10000 - slippage)) \div 10000]

(* calculateSwapQuote and calculateExactOutputQuote: a constant product of two equal reserves,  *)
(* and its inverse; both results are rounded to the nearest unit.                              *)
Nearest(n, d) == (2 * n + d) \div (2 * d)
Kept == Million - FeePpm
EstimateOut(in)  == Nearest(Reserve * in * Kept, Reserve * Million + in * Kept)
EstimateIn(out)  == Nearest(Reserve * out * Million, (Reserve - out) * Kept)

(***************************************************************************)
(* The chain and the row                                                   *)
(***************************************************************************)

Moved == swapNo + Cardinality(book)
Quiet == quote' = NoQuote

Deposit(r) ==
  /\ r \notin book /\ Cardinality(book) < MaxBookMoves /\ Quiet
  /\ book' = book \cup {r}
  /\ UNCHANGED <<sqrtPrice, swapJobs, quotedRow, swapNo, misordered>>

Withdraw(r) ==
  /\ r \in book /\ book' = book \ {r} /\ Quiet
  /\ UNCHANGED <<sqrtPrice, swapJobs, quotedRow, swapNo, misordered>>

(* A swap moves the price through liquidity only, and its event says where it ended. *)
SwapOnChain(p) ==
  /\ p # sqrtPrice /\ swapNo < MaxBookMoves
  /\ \A t \in TickOf(IF p < sqrtPrice THEN p ELSE sqrtPrice)..TickOf(IF p < sqrtPrice THEN sqrtPrice ELSE p) :
       LiquidityAt(t) > 0
  /\ sqrtPrice' = p /\ swapNo' = swapNo + 1
  /\ swapJobs' = swapJobs \cup {[no |-> swapNo + 1, price |-> p, liquidity |-> LiquidityAt(TickOf(p))]}
  /\ Quiet /\ UNCHANGED <<book, quotedRow, misordered>>

(* projectSwap: the row takes what the event says, whichever job runs. *)
ProjectSwap(e) ==
  /\ e \in swapJobs /\ swapJobs' = swapJobs \ {e}
  /\ quotedRow' = e
  /\ misordered' = (misordered \/ e.no < quotedRow.no)
  /\ Quiet /\ UNCHANGED <<book, sqrtPrice, swapNo>>

(***************************************************************************)
(* The answers                                                             *)
(***************************************************************************)

BookTicks == {[tick |-> t, net |-> Net(t), last |-> FALSE] : t \in Initialised}
OnChain == [price |-> sqrtPrice, liquidity |-> LiquidityAt(TickOf(sqrtPrice))]

(* findPoolById, uncached, and getPoolTicks over the rows of a table nobody fills. *)
FindPoolById == quotedRow
TickRows == {}
GetPoolTicks == TickRows

GiveQuote(kind, down, pool, ticks, in, slippage) ==
  /\ quote = NoQuote
  /\ quote' = [kind |-> kind, down |-> down, in |-> in, slippage |-> slippage,
               from |-> pool, result |-> SwapQuote(down, pool, ticks, in, slippage)]
  /\ UNCHANGED <<book, sqrtPrice, swapJobs, quotedRow, swapNo, misordered>>

(* A caller of the SDK that has read the pool and its ticks. *)
QuoteOfBook(down, in, slippage) == GiveQuote("sdk", down, OnChain, BookTicks, in, slippage)

(* SwapsService.getQuote: the amount is cut to the token's decimals (here tenths are cut). *)
ToBaseUnits(tenths) == tenths \div 10
GetQuote(down, tenths, slippage) ==
  /\ FindPoolById.price > 0
  /\ GiveQuote("api", down, FindPoolById, GetPoolTicks, ToBaseUnits(tenths), slippage)

LadderNext ==
  \/ \E r \in QuoteRanges : Deposit(r) \/ Withdraw(r)
  \/ \E p \in QuotePrices : SwapOnChain(p)
  \/ \E e \in swapJobs : ProjectSwap(e)
  \/ \E down \in BOOLEAN, n \in AmountsIn, s \in Slippages :
       QuoteOfBook(down, n, s) \/ \E part \in {0, 9} : GetQuote(down, 10 * n + part, s)

(***************************************************************************)
(* Properties                                                              *)
(***************************************************************************)

(* What the positions hold, in the token paid out, between two prices. *)
HeldBetween(down, lo, hi, up) ==
  Sum(book, LAMBDA r :
        LET a == IF Ratio[r.lower] > lo THEN Ratio[r.lower] ELSE lo
            b == IF Ratio[r.upper] < hi THEN Ratio[r.upper] ELSE hi
        IN  IF a >= b THEN 0
            ELSE IF down THEN Amount1Delta(a, b, r.liquidity, up) ELSE Amount0Delta(a, b, r.liquidity, up))

(* The tick search of a downward quote leaves out a tick the price stands on. *)
OnTick(p) == \E t \in Initialised : t = TickOf(p)

(* A quote over the ticks of the pool promises no more than the positions hold between its two   *)
(* prices, unless it starts downwards in a tick that begins or ends a range.                    *)
PromisesWhatIsHeld ==
  quote.kind = "sdk" /\ ~quote.result.refused =>
    \/ quote.down /\ OnTick(quote.from.price)
    \/ LET lo == IF quote.down THEN quote.result.stop ELSE quote.from.price
           hi == IF quote.down THEN quote.from.price ELSE quote.result.stop
       IN  quote.result.out <= HeldBetween(quote.down, lo, hi, TRUE)

Between(a, b) == IF a < b THEN a..b ELSE b..a

(* The endpoint, which knows no ticks, promises what the walk over them would as long as the     *)
(* row is what is on chain and the quote reaches no initialised tick.                           *)
EndpointAgrees ==
  /\ quote.kind = "api" /\ ~quote.result.refused
  /\ quotedRow.price = sqrtPrice /\ quotedRow.liquidity = OnChain.liquidity
  => \/ \E t \in Initialised : Ratio[t] \in Between(quote.result.stop, quote.from.price)
     \/ SwapQuote(quote.down, OnChain, BookTicks, quote.in, quote.slippage) = quote.result

(* Once every swap is projected the row is where the chain is, unless two jobs of the pool       *)
(* finished in the other order.                                                                *)
RowSettles == swapJobs = {} => quotedRow.price = sqrtPrice \/ misordered

(* What is asked for an amount out brackets what that amount was promised for.                  *)
EstimatesInvert ==
  \A in \in AmountsIn : LET out == EstimateOut(in)
                        IN  /\ out > 0 => EstimateIn(out - 1) <= in
                            /\ out + 1 < Reserve => in <= EstimateIn(out + 1)

(* The promises and what they are computed from.                                               *)
QuoteInv == EstimatesInvert /\ PromisesWhatIsHeld /\ EndpointAgrees /\ RowSettles

-----------------------------------------------------------------------------
(* packages/sdk/src/position-math.ts: what a position holds at a price, how much liquidity        *)
(* amounts buy, and its own map between ticks and prices, which is linear where that of quote.ts   *)
(* is exponential.                                                                               *)

CONSTANT TicksPerQ    \* 20000: the ticks in which the price doubles or goes to zero

ASSUME HoldingsAssumption == TicksPerQ \in Nat \ {0} /\ TicksPerQ <= Q

(* getAmountsForLiquidity: the amount of token 0 in range is counted from the lower price.      *)
AmountsForLiquidity(price, lower, upper, liquidity) ==
  [amount0 |-> CASE price <= lower -> (liquidity * Q) \div lower - (liquidity * Q) \div upper
                 [] price >= upper -> 0
                 [] OTHER          -> (liquidity * Q) \div lower - (liquidity * Q) \div price,
   amount1 |-> CASE price <= lower -> 0
                 [] price >= upper -> (liquidity * (upper - lower)) \div Q
                 [] OTHER          -> (liquidity * (price - lower)) \div Q]

(* getAmountsDelta is the same of what is burned. *)
AmountsDelta(price, lower, upper, burned) == AmountsForLiquidity(price, lower, upper, burned)

(* getLiquidityForAmounts: the lesser of what either token buys. *)
BoughtBy0(a, from, upper) == (a * from * upper) \div (Q * (upper - from))
BoughtBy1(a, lower, to)   == (a * Q) \div (to - lower)
GreaterOf(a, b) == IF a > b THEN a ELSE b
LesserOf(a, b)  == IF a < b THEN a ELSE b
LiquidityForAmounts(price, lower, upper, a0, a1) ==
  CASE price <= lower -> BoughtBy0(a0, lower, upper)
    [] price >= upper -> BoughtBy1(a1, lower, upper)
    [] OTHER          -> LesserOf(BoughtBy0(a0, price, upper), BoughtBy1(a1, lower, price))

(* tickToSqrtPriceX96, down to a price of 1, and sqrtPriceX96ToTick, both cut towards zero.      *)
TickToSqrtPrice(tick) ==
  IF tick >= 0 THEN Q + (tick * Q) \div TicksPerQ
  ELSE LET sub == (-tick * Q) \div TicksPerQ IN IF sub >= Q THEN 1 ELSE Q - sub
SqrtPriceToTick(price) ==
  IF price >= Q THEN ((price - Q) * TicksPerQ) \div Q ELSE -(((Q - price) * TicksPerQ) \div Q)

-----------------------------------------------------------------------------
Held1(price) ==
  Sum(book, LAMBDA r : AmountsForLiquidity(price, Ratio[r.lower], Ratio[r.upper], r.liquidity).amount1)

(* A downward quote of quote.ts pays what the positions lose by position-math.ts, up to a unit    *)
(* of rounding for every position; unless it starts in a tick that begins or ends a range.        *)
HoldingsTellTheMove ==
  quote.kind = "sdk" /\ quote.down /\ ~quote.result.refused /\ ~OnTick(quote.from.price) =>
    quote.result.out \in 0..(Held1(quote.from.price) - Held1(quote.result.stop) + Cardinality(book))

(* What a position holds buys no more liquidity than it has, once the price has entered its       *)
(* range; and burning it in two parts gives no more than at once.                                *)
NothingGained ==
  \A r \in book : \A part \in 0..r.liquidity :
    LET lo == Ratio[r.lower]  hi == Ratio[r.upper]
        all == AmountsForLiquidity(sqrtPrice, lo, hi, r.liquidity)
        one == AmountsDelta(sqrtPrice, lo, hi, part)
        two == AmountsDelta(sqrtPrice, lo, hi, r.liquidity - part)
    IN  /\ sqrtPrice > lo => LiquidityForAmounts(sqrtPrice, lo, hi, all.amount0, all.amount1) <= r.liquidity
        /\ one.amount1 + two.amount1 <= all.amount1
        /\ one.amount0 + two.amount0 <= all.amount0 + 1

(* A tick is found again from its price, or the one next to it on the side of zero; below         *)
(* -TicksPerQ all ticks share one price, and no price is that of a tick further out than it.      *)
TicksComeBack ==
  \A t \in -(TicksPerQ + 2)..(2 * TicksPerQ) :
    LET back == SqrtPriceToTick(TickToSqrtPrice(t))
    IN  IF t >= 0 THEN back \in {t, t - 1} /\ back >= 0
        ELSE IF t > -TicksPerQ THEN back \in {t, t + 1} /\ back <= 0
        ELSE back = 1 - TicksPerQ

(* The quotes, the holdings and the ticks of the SDK agree with each other.                     *)
QuotesAgree == QuoteInv /\ HoldingsTellTheMove /\ NothingGained /\ TicksComeBack
=============================================================================
