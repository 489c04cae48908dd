----------------------------- MODULE AddLiquidity -----------------------------
(***************************************************************************)
(* The screen of AddLiquidity/index.tsx: useAddLiquidity.ts holds the pool, *)
(* the range, the amounts and the transaction; usePoolTicks.ts feeds its    *)
(* depth chart.  A tick is counted in usable ticks around the pool's, at 0, *)
(* and an amount is 0 when it is blank, and 1 when it is positive.  The API *)
(* names a fee tier by its number, which feeToTickSpacing does not know:    *)
(* every pool gets the spacing that RangeSelector supposes.                 *)
(***************************************************************************)
EXTENDS Integers, FiniteSets

CONSTANTS DepositPools,  \* what GET /pools returns
          Margin,        \* the initial range is Margin usable ticks to each side, 10
          FullTick,      \* MAX_TICK; MIN_TICK is its opposite
          MaxInputs      \* bound on the user's inputs

ASSUME RangeAssumption == Margin \in Nat \ {0} /\ FullTick \in Nat /\ Margin < FullTick

VARIABLES poolList,      \* usePools: "loading", "error" or "ready"
          deposit,       \* state of useAddLiquidity; tx is txStatus
          submitted,     \* transactions under way: [range, step]
          chart,         \* usePoolTicks: pool whose ticks are shown, or NoChart
          chartError,
          chartCall,     \* requests for ticks in flight: [pool, cancelled]
          inputs

depositVars == <<poolList, deposit, submitted, chart, chartError, chartCall, inputs>>

NoPoolYet == "no pool"
NoChart   == "no ticks"

defaultState == [pool |-> NoPoolYet, lower |-> -Margin, upper |-> Margin, amount0 |-> 0, amount1 |-> 0,
                 anchor |-> "none", tx |-> "idle"]

DepositInit ==
  /\ poolList = "loading" /\ deposit = defaultState /\ submitted = {}
  /\ chart = NoChart /\ chartError = FALSE /\ chartCall = {} /\ inputs = 0

PoolsListed ==
  /\ poolList = "loading" /\ poolList' \in {"error", "ready"}
  /\ UNCHANGED <<deposit, submitted, chart, chartError, chartCall, inputs>>

-----------------------------------------------------------------------------
(* usePoolTicks *)

(* A request for the pool's ticks; those shown stay until it is answered. *)
AskTicks(p) ==
  /\ chartCall' = {[c EXCEPT !.cancelled = TRUE] : c \in chartCall}
                    \cup (IF p = NoPoolYet THEN {} ELSE {[pool |-> p, cancelled |-> FALSE]})
  /\ IF p = NoPoolYet THEN chart' = NoChart /\ chartError' = FALSE ELSE UNCHANGED <<chart, chartError>>

Heeds(c) == ~c.cancelled

TicksAnswer ==
  \E c \in chartCall :
    /\ chartCall' = chartCall \ {c}
    /\ \/ ~Heeds(c) /\ UNCHANGED <<chart, chartError>>
       \/ Heeds(c) /\ chart' = c.pool /\ chartError' = FALSE
       \/ Heeds(c) /\ chart' = NoChart /\ chartError' = TRUE
    /\ UNCHANGED <<poolList, deposit, submitted, inputs>>

Acts == inputs < MaxInputs /\ inputs' = inputs + 1

RetryTicks ==
  /\ Acts /\ chartError
  /\ AskTicks(deposit.pool)
  /\ UNCHANGED <<poolList, deposit, submitted>>

-----------------------------------------------------------------------------
(* useAddLiquidity: the range and the amounts *)

Needs0(lower, upper) == 0 < upper      \* the price is below the upper end
Needs1(lower, upper) == lower < 0

(* calcAmounts of one amount: the other one, and none when the price is out of range. *)
Other(lower, upper) == IF Needs0(lower, upper) /\ Needs1(lower, upper) THEN 1 ELSE 0

(* syncAmountsForRange: the amount last edited is kept, the other one follows the new range. *)
Synced(d) ==
  IF d.anchor = "amount0" /\ d.amount0 > 0 THEN [d EXCEPT !.amount1 = Other(d.lower, d.upper)]
  ELSE IF d.anchor = "amount1" /\ d.amount1 > 0 THEN [d EXCEPT !.amount0 = Other(d.lower, d.upper)]
  ELSE d

(* A new pool keeps the anchor and the transaction. *)
Picked(d, p) == [d EXCEPT !.pool = p, !.lower = -Margin, !.upper = Margin, !.amount0 = 0, !.amount1 = 0]
SetPool(d, p) == Picked(d, p)

Edits(d) == Acts /\ deposit' = d /\ UNCHANGED <<poolList, submitted, chart, chartError, chartCall>>

SelectPool(p) ==
  /\ Acts /\ poolList = "ready"
  /\ deposit' = SetPool(deposit, p)
  /\ IF p = deposit.pool THEN UNCHANGED <<chart, chartError, chartCall>> ELSE AskTicks(p)
  /\ UNCHANGED <<poolList, submitted>>

Usable == -FullTick .. FullTick
HasPool == deposit.pool # NoPoolYet

(* The guards of RangeSelector, on a drag and on a typed price. *)
Below(t, d) == t < d.upper
Above(t, d) == t > d.lower

SetLower(t) == HasPool /\ Below(t, deposit) /\ Edits(Synced([deposit EXCEPT !.lower = t]))
SetUpper(t) == HasPool /\ Above(t, deposit) /\ Edits(Synced([deposit EXCEPT !.upper = t]))

(* Variant: the amounts are left as they are. *)
FullRangeUnsynced(d) == [d EXCEPT !.lower = -FullTick, !.upper = FullTick]
FullRange(d) == Synced([d EXCEPT !.lower = -FullTick, !.upper = FullTick])
SetFullRange == HasPool /\ Edits(FullRange(deposit))

(* An amount the range does not need is read only.  The comparison is strict: the field is *)
(* open when the price is at the end of the range.                                         *)
Open0(d) == ~(0 > d.upper)
Open1(d) == ~(0 < d.lower)

SetAmount0(n) ==
  /\ HasPool /\ Open0(deposit)
  /\ Edits([deposit EXCEPT !.amount0 = n, !.anchor = "amount0",
              !.amount1 = IF n > 0 THEN Other(deposit.lower, deposit.upper) ELSE 0])

SetAmount1(n) ==
  /\ HasPool /\ Open1(deposit)
  /\ Edits([deposit EXCEPT !.amount1 = n, !.anchor = "amount1",
              !.amount0 = IF n > 0 THEN Other(deposit.lower, deposit.upper) ELSE 0])

-----------------------------------------------------------------------------
(* useAddLiquidity: the transaction *)

hasAmounts == deposit.amount0 > 0 \/ deposit.amount1 > 0
depositBusy == deposit.tx \in {"signing", "submitting"}

(* The price is in the range, its ends included. *)
inRange == HasPool /\ deposit.lower <= 0 /\ 0 <= deposit.upper

(* What PositionPreview.tsx warns of, says of the transaction, and offers. *)
PreviewView ==
  [warns  |-> ~inRange /\ hasAmounts,
   says   |-> CASE deposit.tx = "success" -> "created" [] deposit.tx = "error" -> "failed" [] OTHER -> "nothing",
   submit |-> deposit.tx # "success" /\ ~depositBusy /\ hasAmounts,
   waits  |-> depositBusy]

(* Refused before the wallet: an amount too small for one unit of liquidity, or an empty       *)
(* range, in buildAddLiquidityTx.  Up to the wallet all runs in one go.                       *)
Submit ==
  /\ HasPool /\ PreviewView.submit
  /\ Acts
  /\ \/ /\ deposit.lower < deposit.upper
        /\ deposit' = [deposit EXCEPT !.tx = "submitting"]
        /\ submitted' = submitted \cup {[pool |-> deposit.pool, step |-> "wallet", nth |-> inputs]}
     \/ deposit' = [deposit EXCEPT !.tx = "error"] /\ UNCHANGED submitted
  /\ UNCHANGED <<poolList, chart, chartError, chartCall>>

Refused(d) == [d EXCEPT !.tx = "error"]

(* Freighter signs, or hands nothing back, or throws. *)
WalletAnswers(s) ==
  /\ s.step = "wallet"
  /\ \/ submitted' = (submitted \ {s}) \cup {[s EXCEPT !.step = "posting"]} /\ UNCHANGED deposit
     \/ submitted' = submitted \ {s} /\ deposit' = Refused(deposit)
  /\ UNCHANGED <<poolList, chart, chartError, chartCall, inputs>>

(* POST /transactions answers with the hash, or fails. *)
PostAnswers(s) ==
  /\ s.step = "posting" /\ submitted' = submitted \ {s}
  /\ \E result \in {"success", "error"} : deposit' = [deposit EXCEPT !.tx = result]
  /\ UNCHANGED <<poolList, chart, chartError, chartCall, inputs>>

(* "Dismiss" and "Add another". *)
Reset ==
  /\ Acts /\ PreviewView.says # "nothing"
  /\ deposit' = defaultState
  /\ IF HasPool THEN AskTicks(NoPoolYet) ELSE UNCHANGED <<chart, chartError, chartCall>>
  /\ UNCHANGED <<poolList, submitted>>

DepositInput ==
  \/ RetryTicks \/ SetFullRange \/ Submit \/ Reset
  \/ \E p \in DepositPools : SelectPool(p)
  \/ \E t \in Usable : SetLower(t) \/ SetUpper(t)
  \/ \E n \in {0, 1} : SetAmount0(n) \/ SetAmount1(n)

DepositStep == PoolsListed \/ TicksAnswer \/ \E s \in submitted : WalletAnswers(s) \/ PostAnswers(s)

DepositNext == DepositInput \/ DepositStep

DepositSpec == DepositInit /\ [][DepositNext]_depositVars

-----------------------------------------------------------------------------
(* However the range was dragged, typed or replaced, its ends stay in order: the transaction  *)
(* that is built mints a position of some width.                                              *)
RangeStaysOrdered == deposit.lower < deposit.upper

(* The amount that was not edited last is there exactly when the range needs both: it follows *)
(* every change of the range, also out of range and back.                                     *)
AmountsFollowRange ==
  LET both == Other(deposit.lower, deposit.upper)
  IN /\ deposit.anchor = "amount0" /\ deposit.amount0 > 0 => deposit.amount1 = both
     /\ deposit.anchor = "amount1" /\ deposit.amount1 > 0 => deposit.amount0 = both

(* The button never leads to a second deposit while the first one is signed or posted, also   *)
(* when another pool was picked meanwhile.                                                    *)
OneDepositAtATime == Cardinality(submitted) <= 1

(* The preview waits exactly while a deposit is signed or posted, over changes of the pool, the *)
(* range and the amounts meanwhile.                                                           *)
WaitsForDeposit == PreviewView.waits <=> submitted # {}

(* A deposit the preview warns of, out of range, is of one token only, however the range came  *)
(* to be there.                                                                               *)
WarnedIsOneSided == PreviewView.warns => ~(deposit.amount0 > 0 /\ deposit.amount1 > 0)

(* Ticks on the chart that nothing is going to replace are those of the selected pool.        *)
ChartIsOfPool ==
  chart # NoChart /\ (\A c \in chartCall : c.cancelled) => chart = deposit.pool

(* What is deposited, and shown, is what the range and the pool on the form ask for.          *)
DepositInv ==
  /\ RangeStaysOrdered /\ AmountsFollowRange /\ WarnedIsOneSided
  /\ OneDepositAtATime /\ WaitsForDeposit /\ ChartIsOfPool
=============================================================================
