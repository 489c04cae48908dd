---------------------------- MODULE Screens_proofs ----------------------------
(***************************************************************************)
(* What holds of the screens of apps/web for any number of mounts, attempts *)
(* and inputs, and every set of pools, shares and ticks.                    *)
(***************************************************************************)
EXTENDS MCWeb, Sums, SequenceTheorems, FiniteSetTheorems, TLAPS

-----------------------------------------------------------------------------
(* The panels of a position.  The amounts that are shown fit the percentage because a call that   *)
(* nobody cancelled is about the percentage that is picked; a position is not moved twice        *)
(* because whatever is under way on the rerange page keeps its status busy.                      *)

(* The estimates that are still wanted. *)
WantedFitsShare ==
  /\ estimateCalls \subseteq [of : Shares, cancelled : BOOLEAN]
  /\ \A c \in estimateCalls : ~c.cancelled => c.of = pct

(* On the rerange page at most one transaction, and the status says so. *)
MoveIsBusy == kind = "rerange" => flights = {} \/ (isBusy /\ \E f : flights = {f})

PanelIInv == EstimateFitsShare /\ TimerFitsStatus /\ SpinnerHasTransaction /\ WantedFitsShare /\ MoveIsBusy

LEMMA PanelIImplies == PanelIInv => PanelInv
<1> SUFFICES ASSUME PanelIInv PROVE OneRerangeAtATime
  BY DEF PanelIInv, PanelInv
<1> SUFFICES ASSUME kind = "rerange" PROVE Cardinality(flights) <= 1
  BY DEF OneRerangeAtATime
<1>1. CASE flights = {}
  BY <1>1, FS_EmptySet
<1>2. CASE \E f : flights = {f}
  <2>1. PICK f : flights = {f}
    BY <1>2
  <2>2. Cardinality({f}) = 1
    BY FS_Singleton
  <2> QED BY <2>1, <2>2
<1> QED BY <1>1, <1>2 DEF PanelIInv, MoveIsBusy

LEMMA PanelStarts == PanelInit => PanelIInv
BY ShareAssumption DEF PanelInit, PanelIInv, EstimateFitsShare, AmountsShown, Estimated, TimerFitsStatus, RemoveSays,
       SpinnerHasTransaction, isBusy, WantedFitsShare, MoveIsBusy

(* Steps that change neither the status, the percentage nor a transaction. *)
LEMMA StatusKept ==
  ASSUME PanelIInv, UNCHANGED <<kind, pct, status, flights, leaving>>
  PROVE  (position' = position \/ position = "loading") =>
           TimerFitsStatus' /\ SpinnerHasTransaction' /\ MoveIsBusy'
BY DEF PanelIInv, TimerFitsStatus, RemoveSays, SpinnerHasTransaction, isBusy, MoveIsBusy

LEMMA AmountsKept ==
  ASSUME PanelIInv, UNCHANGED <<pct, estimateVars>>
  PROVE  EstimateFitsShare' /\ WantedFitsShare'
BY DEF PanelIInv, EstimateFitsShare, AmountsShown, Estimated, WantedFitsShare, estimateVars

(* What Becomes does to the timer and to what the panel says. *)
LEMMA TimerFollows ==
  ASSUME PanelIInv, NEW s, Becomes(s), UNCHANGED <<kind, pct, position>>
  PROVE  TimerFitsStatus'
BY DEF PanelIInv, TimerFitsStatus, RemoveSays, Becomes, Timer

LEMMA AnswersKeep ==
  ASSUME PanelIInv, PositionAnswers \/ EstimateAnswers
  PROVE  PanelIInv'
<1>1. CASE PositionAnswers
  BY <1>1, StatusKept, AmountsKept DEF PositionAnswers, PanelIInv
<1>2. CASE EstimateAnswers
  <2>1. TimerFitsStatus' /\ SpinnerHasTransaction' /\ MoveIsBusy'
    BY <1>2, StatusKept DEF EstimateAnswers
  <2>2. EstimateFitsShare' /\ WantedFitsShare'
    BY <1>2 DEF EstimateAnswers, PanelIInv, EstimateFitsShare, AmountsShown, Estimated, WantedFitsShare, StillWanted
  <2> QED BY <2>1, <2>2 DEF PanelIInv
<1> QED BY <1>1, <1>2

LEMMA PickShareKeeps ==
  ASSUME PanelIInv, NEW p \in Shares, PickShare(p)
  PROVE  PanelIInv'
<1> DEFINE old == {[c EXCEPT !.cancelled = TRUE] : c \in estimateCalls}
<1>1. EstimateFitsShare' /\ WantedFitsShare'
  <2>1. CASE p = pct
    BY <2>1, AmountsKept DEF PickShare, Share
  <2>2. CASE p # pct
    <3>1. estimating' /\ pct' = p /\ estimateCalls' = old \cup {[of |-> p, cancelled |-> FALSE]}
      BY <2>2 DEF PickShare, Share
    <3>2. \A c \in old : c \in [of : Shares, cancelled : BOOLEAN] /\ c.cancelled
      BY DEF PanelIInv, WantedFitsShare
    <3>3. WantedFitsShare'
      <4> SUFFICES ASSUME NEW c \in estimateCalls'
                   PROVE  c \in [of : Shares, cancelled : BOOLEAN] /\ (~c.cancelled => c.of = p)
        BY <3>1 DEF WantedFitsShare
      <4>1. CASE c \in old
        BY <4>1, <3>2
      <4>2. CASE c = [of |-> p, cancelled |-> FALSE]
        BY <4>2
      <4> QED BY <3>1, <4>1, <4>2
    <3> QED BY <3>1, <3>3 DEF EstimateFitsShare, AmountsShown
  <2> QED BY <2>1, <2>2
<1>2. TimerFitsStatus'
  BY DEF PickShare, Share, PanelIInv, TimerFitsStatus, RemoveSays, Timer
<1>3. SpinnerHasTransaction' /\ MoveIsBusy'
  BY DEF PickShare, PanelIInv, SpinnerHasTransaction, MoveIsBusy, isBusy
<1> QED BY <1>1, <1>2, <1>3 DEF PanelIInv

LEMMA FormKeeps ==
  ASSUME PanelIInv, OpenSummary \/ CancelSummary \/ (\E r : TypeRange(r))
  PROVE  PanelIInv'
BY StatusKept, AmountsKept DEF OpenSummary, CancelSummary, Asks, TypeRange, PanelIInv, estimateVars

(* A transaction starts: on the rerange page only when none is under way. *)
LEMMA StartKeeps ==
  ASSUME PanelIInv, NEW does, Start(does), kind = "rerange" => ~isBusy
  PROVE  PanelIInv'
<1>1. EstimateFitsShare' /\ WantedFitsShare'
  BY AmountsKept DEF Start
<1>2. TimerFitsStatus'
  BY TimerFollows DEF Start
<1>3. CASE status' = "signing" /\ \E f : flights' = flights \cup {f}
  <2>1. isBusy' /\ flights' # {}
    BY <1>3 DEF isBusy
  <2>2. MoveIsBusy'
    BY <1>3, <2>1 DEF PanelIInv, MoveIsBusy, Start
  <2> QED BY <1>1, <1>2, <2>1, <2>2 DEF PanelIInv, SpinnerHasTransaction
<1>4. CASE status' = "error" /\ flights' = flights
  <2>1. ~isBusy'
    BY <1>4 DEF isBusy
  <2>2. MoveIsBusy'
    BY <1>4 DEF PanelIInv, MoveIsBusy, Start
  <2> QED BY <1>1, <1>2, <2>1, <2>2 DEF PanelIInv, SpinnerHasTransaction
<1> QED BY <1>3, <1>4 DEF Start, Becomes

LEMMA ClicksKeep ==
  ASSUME PanelIInv, ConfirmRemove \/ CollectFees \/ Rerange
  PROVE  PanelIInv'
<1>1. CASE ConfirmRemove
  BY <1>1, StartKeeps DEF ConfirmRemove, Ready
<1>2. CASE CollectFees
  BY <1>2, StartKeeps DEF CollectFees, Ready
<1>3. CASE Rerange
  BY <1>3, StartKeeps DEF Rerange, RerangeView
<1> QED BY <1>1, <1>2, <1>3

LEMMA DismissKeeps ==
  ASSUME PanelIInv, DismissError
  PROVE  PanelIInv'
<1>1. Becomes("idle") /\ UNCHANGED <<kind, position, pct, estimateVars, flights>>
  BY DEF DismissError
<1>2. status = "error" /\ ~isBusy /\ ~isBusy'
  BY <1>1 DEF DismissError, RemoveSays, RerangeView, Becomes, isBusy
<1>3. EstimateFitsShare' /\ WantedFitsShare' /\ TimerFitsStatus'
  BY <1>1, AmountsKept, TimerFollows
<1>4. SpinnerHasTransaction' /\ MoveIsBusy'
  BY <1>1, <1>2 DEF PanelIInv, SpinnerHasTransaction, MoveIsBusy
<1> QED BY <1>3, <1>4 DEF PanelIInv

LEMMA FlightKeeps ==
  ASSUME PanelIInv, NEW f \in flights, WalletReturns(f) \/ PostReturns(f)
  PROVE  PanelIInv'
<1> DEFINE signed == (flights \ {f}) \cup {[f EXCEPT !.step = "posting"]}
<1>1. UNCHANGED <<kind, position, pct, estimateVars>>
  BY DEF WalletReturns, PostReturns, Rest
<1>2. \/ Becomes("submitting") /\ flights' = signed
      \/ (Becomes("error") \/ Becomes("success")) /\ flights' = flights \ {f}
  BY DEF WalletReturns, PostReturns, TurnedDown
<1>3. EstimateFitsShare' /\ WantedFitsShare' /\ TimerFitsStatus'
  BY <1>1, <1>2, AmountsKept, TimerFollows
<1>4. SpinnerHasTransaction'
  BY <1>2 DEF SpinnerHasTransaction, isBusy, Becomes
<1>5. MoveIsBusy'
  <2> SUFFICES ASSUME kind' = "rerange" PROVE flights' = {} \/ (isBusy' /\ \E g : flights' = {g})
    BY DEF MoveIsBusy
  <2>1. flights = {f}
    BY <1>1 DEF PanelIInv, MoveIsBusy
  <2>2. CASE Becomes("submitting") /\ flights' = signed
    BY <2>1, <2>2 DEF Becomes, isBusy
  <2>3. CASE flights' = flights \ {f}
    BY <2>1, <2>3
  <2> QED BY <1>2, <2>2, <2>3
<1> QED BY <1>3, <1>4, <1>5 DEF PanelIInv

LEMMA PanelStutters == PanelIInv /\ UNCHANGED panelVars => PanelIInv'
BY DEF PanelIInv, panelVars, estimateVars, EstimateFitsShare, AmountsShown, Estimated, TimerFitsStatus, RemoveSays,
       SpinnerHasTransaction, isBusy, WantedFitsShare, MoveIsBusy

(* The panels show the amounts of the percentage that a confirmation sends, leave for the      *)
(* portfolio exactly when they say so, wait only for a transaction that is under way, and move *)
(* a position once at a time (RemoveLiquidityPanel.tsx, useRemoveLiquidity.ts,                *)
(* useRerangeLiquidity.ts).                                                                    *)
THEOREM PanelSound == PanelSpec => []PanelInv
<1>1. PanelIInv /\ [PanelNext]_panelVars => PanelIInv'
  <2> SUFFICES ASSUME PanelIInv, PanelNext PROVE PanelIInv'
    BY PanelStutters
  <2>1. CASE PanelStep
    BY <2>1, AnswersKeep, FlightKeeps DEF PanelStep
  <2>2. CASE OpenSummary \/ CancelSummary \/ \E l, u \in NewTicks : TypeRange([lower |-> l, upper |-> u])
    BY <2>2, FormKeeps
  <2>3. CASE ConfirmRemove \/ CollectFees \/ Rerange
    BY <2>3, ClicksKeep
  <2>4. CASE DismissError
    BY <2>4, DismissKeeps
  <2>5. CASE \E p \in Shares : PickShare(p)
    BY <2>5, PickShareKeeps
  <2> QED BY <2>1, <2>2, <2>3, <2>4, <2>5 DEF PanelNext
<1> QED BY PanelStarts, PanelIImplies, <1>1, PTL DEF PanelSpec

-----------------------------------------------------------------------------
(* The deposit screen.  The chart needs that a request that nobody cancelled is for the selected  *)
(* pool; a warned deposit is one-sided because two amounts are only there when one of them        *)
(* follows the range.                                                                           *)

USE RangeAssumption

Deposits == [pool : DepositPools \cup {NoPoolYet}, lower : Int, upper : Int, amount0 : {0, 1}, amount1 : {0, 1},
             anchor : {"none", "amount0", "amount1"}, tx : {"idle", "signing", "submitting", "success", "error"}]

Calls == [pool : DepositPools \cup {NoPoolYet}, cancelled : BOOLEAN]

(* Amounts are only there with a pool, and two of them only when the user set one. *)
AmountsHaveCause(d) ==
  /\ d.amount0 > 0 \/ d.amount1 > 0 => d.pool # NoPoolYet
  /\ d.amount0 > 0 /\ d.amount1 > 0 => d.anchor # "none"

Ordered(d) == d.lower < d.upper

Follows(d) ==
  /\ d.anchor = "amount0" /\ d.amount0 > 0 => d.amount1 = Other(d.lower, d.upper)
  /\ d.anchor = "amount1" /\ d.amount1 > 0 => d.amount0 = Other(d.lower, d.upper)

FormOk(d) == d \in Deposits /\ AmountsHaveCause(d) /\ Ordered(d) /\ Follows(d)

(* At most one deposit, and the status says so. *)
OneAndBusy == (submitted = {} /\ ~depositBusy) \/ (depositBusy /\ \E s : submitted = {s})

WantedTicks ==
  /\ chartCall \subseteq Calls
  /\ \A c \in chartCall : ~c.cancelled => c.pool = deposit.pool

DepositIInv == FormOk(deposit) /\ OneAndBusy /\ WantedTicks /\ ChartIsOfPool

LEMMA DepositIImplies == DepositIInv => DepositInv
<1> SUFFICES ASSUME DepositIInv PROVE DepositInv
  OBVIOUS
<1> USE DEF DepositIInv, FormOk
<1>1. RangeStaysOrdered /\ AmountsFollowRange
  BY DEF Ordered, Follows, RangeStaysOrdered, AmountsFollowRange
<1>2. WarnedIsOneSided
  <2> SUFFICES ASSUME deposit.amount0 > 0, deposit.amount1 > 0 PROVE inRange
    BY DEF WarnedIsOneSided, PreviewView
  <2>1. Other(deposit.lower, deposit.upper) = 1
    BY DEF AmountsHaveCause, Follows, Deposits
  <2>2. deposit.pool # NoPoolYet /\ deposit.lower \in Int /\ deposit.upper \in Int
    BY DEF AmountsHaveCause, Deposits
  <2> QED BY <2>1, <2>2 DEF Other, Needs0, Needs1, inRange, HasPool
<1>3. OneDepositAtATime
  <2>1. CASE submitted = {}
    BY <2>1, FS_EmptySet DEF OneDepositAtATime
  <2>2. CASE \E s : submitted = {s}
    <3>1. PICK s : submitted = {s}
      BY <2>2
    <3>2. Cardinality({s}) = 1
      BY FS_Singleton
    <3> QED BY <3>1, <3>2 DEF OneDepositAtATime
  <2> QED BY <2>1, <2>2 DEF OneAndBusy
<1>4. WaitsForDeposit
  BY DEF WaitsForDeposit, PreviewView, OneAndBusy
<1> QED BY <1>1, <1>2, <1>3, <1>4 DEF DepositInv

LEMMA DefaultOk == FormOk(defaultState)
BY DEF FormOk, Deposits, AmountsHaveCause, Ordered, Follows, defaultState

LEMMA DepositStarts == DepositInit => DepositIInv
BY DefaultOk DEF DepositInit, DepositIInv, OneAndBusy, depositBusy, defaultState, WantedTicks, ChartIsOfPool, Calls

LEMMA OtherType == \A l, u : Other(l, u) \in {0, 1}
BY DEF Other

-----------------------------------------------------------------------------
(* The form: a new range, with the amounts synced or not, and new amounts. *)

LEMMA SyncedOk ==
  ASSUME NEW d \in Deposits, AmountsHaveCause(d), Ordered(d)
  PROVE  FormOk(Synced(d)) /\ Synced(d).pool = d.pool /\ Synced(d).tx = d.tx
<1>1. CASE d.anchor = "amount0" /\ d.amount0 > 0
  <2> DEFINE o == Other(d.lower, d.upper)
  <2>1. Synced(d) = [d EXCEPT !.amount1 = o]
    BY <1>1 DEF Synced
  <2>2. o \in {0, 1}
    BY OtherType
  <2> HIDE DEF o
  <2>3. [d EXCEPT !.amount1 = o] \in Deposits
    BY <2>2 DEF Deposits
  <2> QED BY <1>1, <2>1, <2>2, <2>3 DEF o, FormOk, Deposits, AmountsHaveCause, Ordered, Follows
<1>2. CASE ~(d.anchor = "amount0" /\ d.amount0 > 0) /\ d.anchor = "amount1" /\ d.amount1 > 0
  <2> DEFINE o == Other(d.lower, d.upper)
  <2>1. Synced(d) = [d EXCEPT !.amount0 = o]
    BY <1>2 DEF Synced
  <2>2. o \in {0, 1}
    BY OtherType
  <2> HIDE DEF o
  <2>3. [d EXCEPT !.amount0 = o] \in Deposits
    BY <2>2 DEF Deposits
  <2> QED BY <1>2, <2>1, <2>2, <2>3 DEF o, FormOk, Deposits, AmountsHaveCause, Ordered, Follows
<1>3. CASE ~(d.anchor = "amount0" /\ d.amount0 > 0) /\ ~(d.anchor = "amount1" /\ d.amount1 > 0)
  BY <1>3 DEF Synced, FormOk, Follows
<1> QED BY <1>1, <1>2, <1>3

(* An edit that leaves the pool and the transaction alone. *)
LEMMA EditKeeps ==
  ASSUME DepositIInv, NEW d, FormOk(d), d.pool = deposit.pool, d.tx = deposit.tx, Edits(d)
  PROVE  DepositIInv'
BY DEF DepositIInv, Edits, OneAndBusy, depositBusy, WantedTicks, ChartIsOfPool

LEMMA RangeKeeps ==
  ASSUME DepositIInv, SetFullRange \/ \E t \in Usable : SetLower(t) \/ SetUpper(t)
  PROVE  DepositIInv'
<1> USE DEF DepositIInv, FormOk
<1>1. ASSUME NEW t \in Usable, SetLower(t) PROVE DepositIInv'
  <2> DEFINE d == [deposit EXCEPT !.lower = t]
  <2>1. d \in Deposits /\ AmountsHaveCause(d) /\ Ordered(d) /\ d.pool = deposit.pool /\ d.tx = deposit.tx
    BY <1>1 DEF SetLower, Below, Deposits, AmountsHaveCause, Ordered, Usable
  <2>2. Edits(Synced(d))
    BY <1>1 DEF SetLower
  <2> HIDE DEF d
  <2> QED BY <2>1, <2>2, SyncedOk, EditKeeps
<1>2. ASSUME NEW t \in Usable, SetUpper(t) PROVE DepositIInv'
  <2> DEFINE d == [deposit EXCEPT !.upper = t]
  <2>1. d \in Deposits /\ AmountsHaveCause(d) /\ Ordered(d) /\ d.pool = deposit.pool /\ d.tx = deposit.tx
    BY <1>2 DEF SetUpper, Above, Deposits, AmountsHaveCause, Ordered, Usable
  <2>2. Edits(Synced(d))
    BY <1>2 DEF SetUpper
  <2> HIDE DEF d
  <2> QED BY <2>1, <2>2, SyncedOk, EditKeeps
<1>3. ASSUME SetFullRange PROVE DepositIInv'
  <2> DEFINE lo == -FullTick
             d == [deposit EXCEPT !.lower = lo, !.upper = FullTick]
  <2>0. lo \in Int /\ FullTick \in Int /\ lo < FullTick
    OBVIOUS
  <2> HIDE DEF lo
  <2>1. d \in Deposits /\ AmountsHaveCause(d) /\ Ordered(d) /\ d.pool = deposit.pool /\ d.tx = deposit.tx
    BY <2>0 DEF Deposits, AmountsHaveCause, Ordered
  <2>2. Edits(Synced(d))
    BY <1>3 DEF SetFullRange, FullRange, lo
  <2> HIDE DEF d
  <2> QED BY <2>1, <2>2, SyncedOk, EditKeeps
<1> QED BY <1>1, <1>2, <1>3

LEMMA AmountsKeep ==
  ASSUME DepositIInv, NEW n \in {0, 1}, SetAmount0(n) \/ SetAmount1(n)
  PROVE  DepositIInv'
<1> USE DEF DepositIInv, FormOk
<1> DEFINE o == IF n > 0 THEN Other(deposit.lower, deposit.upper) ELSE 0
<1>1. o \in {0, 1} /\ (n > 0 => o = Other(deposit.lower, deposit.upper))
  BY OtherType
<1>2. CASE SetAmount0(n)
  <2> DEFINE d == [deposit EXCEPT !.amount0 = n, !.anchor = "amount0", !.amount1 = o]
  <2>1. Edits(d) /\ deposit.pool # NoPoolYet
    BY <1>2 DEF SetAmount0, HasPool
  <2> HIDE DEF o
  <2>2. FormOk(d) /\ d.pool = deposit.pool /\ d.tx = deposit.tx
    BY <1>1, <2>1 DEF Deposits, AmountsHaveCause, Ordered, Follows
  <2> HIDE DEF d
  <2> QED BY <2>1, <2>2, EditKeeps
<1>3. CASE SetAmount1(n)
  <2> DEFINE d == [deposit EXCEPT !.amount1 = n, !.anchor = "amount1", !.amount0 = o]
  <2>1. Edits(d) /\ deposit.pool # NoPoolYet
    BY <1>3 DEF SetAmount1, HasPool
  <2> HIDE DEF o
  <2>2. FormOk(d) /\ d.pool = deposit.pool /\ d.tx = deposit.tx
    BY <1>1, <2>1 DEF Deposits, AmountsHaveCause, Ordered, Follows
  <2> HIDE DEF d
  <2> QED BY <2>1, <2>2, EditKeeps
<1> QED BY <1>2, <1>3

-----------------------------------------------------------------------------
(* The chart *)

(* A request for the ticks of the pool that is selected by the step. *)
LEMMA AskKeeps ==
  ASSUME DepositIInv, NEW p \in DepositPools \cup {NoPoolYet}, AskTicks(p), deposit'.pool = p
  PROVE  WantedTicks' /\ ChartIsOfPool'
<1> DEFINE old == {[c EXCEPT !.cancelled = TRUE] : c \in chartCall}
           new == IF p = NoPoolYet THEN {} ELSE {[pool |-> p, cancelled |-> FALSE]}
<1>1. chartCall' = old \cup new
  BY DEF AskTicks
<1>2. \A c \in old : c \in Calls /\ c.cancelled
  BY DEF DepositIInv, WantedTicks, Calls
<1>3. \A c \in new : c \in Calls /\ c.pool = p /\ ~c.cancelled
  <2>1. [pool |-> p, cancelled |-> FALSE] \in Calls
    BY DEF Calls
  <2>2. new \subseteq {[pool |-> p, cancelled |-> FALSE]}
    OBVIOUS
  <2>3. \A c \in new : c = [pool |-> p, cancelled |-> FALSE]
    BY <2>2
  <2>4. ASSUME NEW c \in new PROVE c \in Calls /\ c.pool = p /\ ~c.cancelled
    <3>1. c = [pool |-> p, cancelled |-> FALSE]
      BY <2>3
    <3>2. c.pool = p /\ ~c.cancelled
      BY <3>1
    <3> QED BY <2>1, <3>1, <3>2
  <2> QED BY <2>4
<1>4. p # NoPoolYet => new # {}
  OBVIOUS
<1>5. p = NoPoolYet => chart' = NoChart
  BY DEF AskTicks
<1> HIDE DEF old, new
<1>6. WantedTicks'
  BY <1>1, <1>2, <1>3 DEF WantedTicks
<1>7. ChartIsOfPool'
  BY <1>1, <1>3, <1>4, <1>5 DEF ChartIsOfPool
<1> QED BY <1>6, <1>7

LEMMA SelectKeeps ==
  ASSUME DepositIInv, NEW p \in DepositPools, SelectPool(p)
  PROVE  DepositIInv'
<1> DEFINE lo == -Margin
           d == [deposit EXCEPT !.pool = p, !.lower = lo, !.upper = Margin, !.amount0 = 0, !.amount1 = 0]
<1>0. lo \in Int /\ Margin \in Int /\ lo < Margin
  OBVIOUS
<1>1. deposit' = d /\ UNCHANGED submitted
  BY DEF SelectPool, SetPool, Picked
<1> HIDE DEF lo
<1>2. FormOk(d) /\ d.pool = p /\ d.tx = deposit.tx
  <2>1. deposit \in Deposits
    BY DEF DepositIInv, FormOk
  <2>2. d \in Deposits /\ d.pool = p /\ d.tx = deposit.tx /\ d.anchor = deposit.anchor
    BY <1>0, <2>1 DEF Deposits
  <2>3. d.lower = lo /\ d.upper = Margin /\ d.amount0 = 0 /\ d.amount1 = 0
    BY <2>1 DEF Deposits
  <2> HIDE DEF d
  <2> QED BY <1>0, <2>2, <2>3 DEF FormOk, AmountsHaveCause, Ordered, Follows
<1> HIDE DEF d
<1>3. WantedTicks' /\ ChartIsOfPool'
  <2>1. CASE p = deposit.pool
    BY <1>1, <1>2, <2>1 DEF SelectPool, DepositIInv, WantedTicks, ChartIsOfPool
  <2>2. CASE p # deposit.pool
    BY <1>1, <1>2, <2>2, AskKeeps DEF SelectPool
  <2> QED BY <2>1, <2>2
<1> QED BY <1>1, <1>2, <1>3 DEF DepositIInv, OneAndBusy, depositBusy

LEMMA TicksKeep ==
  ASSUME DepositIInv, TicksAnswer
  PROVE  DepositIInv'
<1> PICK c \in chartCall : /\ chartCall' = chartCall \ {c}
                           /\ \/ ~Heeds(c) /\ UNCHANGED <<chart, chartError>>
                              \/ Heeds(c) /\ chart' = c.pool /\ chartError' = FALSE
                              \/ Heeds(c) /\ chart' = NoChart /\ chartError' = TRUE
                           /\ UNCHANGED <<poolList, deposit, submitted, inputs>>
  BY DEF TicksAnswer
<1>1. WantedTicks'
  BY DEF DepositIInv, WantedTicks
<1>2. ChartIsOfPool'
  <2>1. CASE ~Heeds(c) /\ UNCHANGED chart
    BY <2>1 DEF DepositIInv, ChartIsOfPool, Heeds
  <2>2. CASE Heeds(c) /\ chart' \in {c.pool, NoChart}
    BY <2>2 DEF DepositIInv, ChartIsOfPool, WantedTicks, Heeds
  <2> QED BY <2>1, <2>2
<1> QED BY <1>1, <1>2 DEF DepositIInv, OneAndBusy, depositBusy

LEMMA RetryKeeps ==
  ASSUME DepositIInv, RetryTicks
  PROVE  DepositIInv'
<1>1. UNCHANGED <<deposit, submitted>> /\ AskTicks(deposit.pool)
  BY DEF RetryTicks
<1>2. deposit.pool \in DepositPools \cup {NoPoolYet}
  BY DEF DepositIInv, FormOk, Deposits
<1> QED BY <1>1, <1>2, AskKeeps DEF DepositIInv, OneAndBusy, depositBusy

-----------------------------------------------------------------------------
(* The transaction *)

(* A step that changes the status only. *)
LEMMA StatusOk ==
  ASSUME DepositIInv, NEW s \in {"submitting", "success", "error"}, deposit' = [deposit EXCEPT !.tx = s],
         UNCHANGED <<chart, chartCall>>
  PROVE  FormOk(deposit)' /\ WantedTicks' /\ ChartIsOfPool' /\ deposit'.tx = s
<1>1. deposit \in Deposits
  BY DEF DepositIInv, FormOk
<1>2. /\ deposit' \in Deposits /\ deposit'.tx = s
      /\ deposit'.pool = deposit.pool /\ deposit'.lower = deposit.lower /\ deposit'.upper = deposit.upper
      /\ deposit'.amount0 = deposit.amount0 /\ deposit'.amount1 = deposit.amount1 /\ deposit'.anchor = deposit.anchor
  BY <1>1 DEF Deposits
<1>3. FormOk(deposit)'
  BY <1>2 DEF DepositIInv, FormOk, AmountsHaveCause, Ordered, Follows
<1> QED BY <1>2, <1>3 DEF DepositIInv, WantedTicks, ChartIsOfPool

LEMMA SubmitKeeps ==
  ASSUME DepositIInv, Submit
  PROVE  DepositIInv'
<1>1. submitted = {} /\ UNCHANGED <<chart, chartCall>>
  BY DEF DepositIInv, OneAndBusy, Submit, PreviewView
<1>2. CASE deposit' = [deposit EXCEPT !.tx = "submitting"] /\ \E s : submitted' = {s}
  BY <1>1, <1>2, StatusOk DEF DepositIInv, OneAndBusy, depositBusy
<1>3. CASE deposit' = [deposit EXCEPT !.tx = "error"] /\ submitted' = {}
  BY <1>1, <1>3, StatusOk DEF DepositIInv, OneAndBusy, depositBusy
<1> QED BY <1>1, <1>2, <1>3 DEF Submit

LEMMA AnswerKeeps ==
  ASSUME DepositIInv, NEW s \in submitted, WalletAnswers(s) \/ PostAnswers(s)
  PROVE  DepositIInv'
<1>1. submitted = {s} /\ depositBusy
  BY DEF DepositIInv, OneAndBusy
<1>2. CASE submitted' = (submitted \ {s}) \cup {[s EXCEPT !.step = "posting"]} /\ UNCHANGED <<deposit, chart, chartCall>>
  <2>1. \E t : submitted' = {t}
    BY <1>1, <1>2
  <2> QED BY <1>1, <1>2, <2>1 DEF DepositIInv, OneAndBusy, depositBusy, WantedTicks, ChartIsOfPool
<1>3. ASSUME NEW r \in {"success", "error"}, submitted' = submitted \ {s},
             deposit' = [deposit EXCEPT !.tx = r], UNCHANGED <<chart, chartCall>>
      PROVE DepositIInv'
  BY <1>1, <1>3, StatusOk DEF DepositIInv, OneAndBusy, depositBusy
<1> QED BY <1>2, <1>3 DEF WalletAnswers, PostAnswers, Refused

LEMMA ResetKeeps ==
  ASSUME DepositIInv, Reset
  PROVE  DepositIInv'
<1>1. submitted' = {}
  BY DEF Reset, PreviewView, DepositIInv, OneAndBusy, depositBusy
<1>2. deposit' = defaultState /\ defaultState.pool = NoPoolYet /\ ~depositBusy'
  BY DEF Reset, defaultState, depositBusy
<1>3. WantedTicks' /\ ChartIsOfPool'
  <2>1. CASE HasPool
    BY <1>2, <2>1, AskKeeps DEF Reset
  <2>2. CASE ~HasPool
    BY <1>2, <2>2 DEF Reset, HasPool, DepositIInv, WantedTicks, ChartIsOfPool
  <2> QED BY <2>1, <2>2
<1> QED BY <1>1, <1>2, <1>3, DefaultOk DEF DepositIInv, OneAndBusy

LEMMA DepositStutters ==
  DepositIInv /\ (UNCHANGED depositVars \/ PoolsListed) => DepositIInv'
BY DEF DepositIInv, depositVars, PoolsListed, OneAndBusy, depositBusy, WantedTicks, ChartIsOfPool

(* The range stays ordered, the amounts follow it, a deposit that is warned of is one-sided,    *)
(* one deposit at a time is under way and the preview says so, and the chart is of the selected *)
(* pool (useAddLiquidity.ts, usePoolTicks.ts, PositionPreview.tsx).                             *)
THEOREM DepositSound == DepositSpec => []DepositInv
<1>1. DepositIInv /\ [DepositNext]_depositVars => DepositIInv'
  <2> SUFFICES ASSUME DepositIInv, DepositNext PROVE DepositIInv'
    BY DepositStutters
  <2>1. CASE DepositStep
    BY <2>1, DepositStutters, TicksKeep, AnswerKeeps DEF DepositStep
  <2>2. CASE DepositInput
    BY <2>2, RetryKeeps, RangeKeeps, SubmitKeeps, ResetKeeps, SelectKeeps, AmountsKeep DEF DepositInput
  <2> QED BY <2>1, <2>2 DEF DepositNext
<1> QED BY DepositStarts, DepositIImplies, <1>1, PTL DEF DepositSpec

HIDE RangeAssumption

-----------------------------------------------------------------------------
(* The confirmation modal and its pill.  An attempt at work belongs to the modal on the screen   *)
(* or to a mount noted as loose; of two attempts of one mount the mount is loose; and the only    *)
(* attempt of a mount that is not loose is exactly where the modal says it is.                  *)

USE ModalAssumption

Statuses == {"idle", "signing", "submitting", "error"}
ModalStates == [inst : Nat, status : Statuses, error : {"none", "network", "slippage"}, mismatch : BOOLEAN, mev : BOOLEAN]
Attempt == [at : {"none", "checking", "signing", "submitting", "done"}, inst : Nat, mev : BOOLEAN,
            via : {"none", "api", "mev-rpc", "refused"}]

TypeOK == modal \in ModalStates /\ attempt \in [Attempts -> Attempt] /\ mounts \in Nat /\ mevPref \in BOOLEAN

OnScreen ==
  /\ Mounted <=> showModal /\ quoted
  /\ ~Mounted => modal.status = "idle"
  /\ modal.inst <= mounts

Working(a) == attempt[a].at \in Busy \cup {"checking"}

Owned ==
  \A a \in Attempts : Working(a) => attempt[a].inst \in 1..mounts /\ attempt[a].inst \in loose \cup {modal.inst}

Alone ==
  \A a, b \in Attempts :
    a # b /\ Working(a) /\ Working(b) /\ attempt[a].inst = modal.inst /\ attempt[b].inst = modal.inst
      => modal.inst \in loose

InStep ==
  \A a \in Attempts :
    Working(a) /\ attempt[a].inst = modal.inst /\ modal.inst \notin loose
      => modal.status = IF attempt[a].at = "checking" THEN "idle" ELSE attempt[a].at

PrefKept ==
  /\ Mounted /\ ~modal.mev => modal.inst \in public
  /\ \A a \in Attempts : attempt[a].at # "none" /\ ~attempt[a].mev => attempt[a].inst \in public

ExecutionIInv ==
  /\ TypeOK /\ OnScreen /\ Owned /\ Alone /\ InStep /\ PrefKept
  /\ WaitsForOwnAttempt /\ PillBacked /\ StorageMirrorsPill /\ PrivateStaysPrivate

LEMMA ExecutionIImplies == ExecutionIInv => ExecutionInv
<1> SUFFICES ASSUME ExecutionIInv PROVE OneSwapAtATime
  BY DEF ExecutionIInv, ExecutionInv
<1> SUFFICES ASSUME NEW a \in Attempts, NEW b \in Attempts, a # b, Live(a), Live(b)
             PROVE  attempt[a].inst \in loose \/ attempt[b].inst \in loose
  BY DEF OneSwapAtATime
<1>1. Working(a) /\ Working(b)
  BY DEF Live, Working
<1> QED BY <1>1 DEF ExecutionIInv, Owned, Alone

LEMMA ExecutionStarts == ExecutionInit => ExecutionIInv
<1> SUFFICES ASSUME ExecutionInit PROVE ExecutionIInv
  OBVIOUS
<1> USE DEF ExecutionInit, NoModal, Unmade, NoPill, Busy
<1>1. TypeOK
  BY DEF TypeOK, ModalStates, Attempt, Statuses
<1>2. \A a \in Attempts : attempt[a].at = "none" /\ attempt[a].via = "none"
  OBVIOUS
<1>3. Owned /\ Alone /\ InStep /\ PrivateStaysPrivate
  BY <1>2 DEF Owned, Alone, InStep, Working, PrivateStaysPrivate
<1>4. OnScreen
  BY DEF OnScreen, Mounted
<1>5. PrefKept
  BY <1>2 DEF PrefKept, Mounted
<1>6. WaitsForOwnAttempt
  BY DEF WaitsForOwnAttempt, ModalView
<1>7. PillBacked /\ StorageMirrorsPill
  BY DEF PillBacked, StorageMirrorsPill
<1> QED BY <1>1, <1>3, <1>4, <1>5, <1>6, <1>7 DEF ExecutionIInv

-----------------------------------------------------------------------------
(* The modal comes and goes *)

LEMMA MountKeeps ==
  ASSUME ExecutionIInv, ~Mounted, Mount, UNCHANGED <<attempt, mevPref, loose>>, quoted', showModal'
  PROVE  ExecutionIInv'
<1> USE DEF ExecutionIInv
<1>1. /\ modal' = [inst |-> mounts + 1, status |-> "idle", error |-> "none", mismatch |-> FALSE, mev |-> mevPref]
      /\ mounts' = mounts + 1 /\ pill' = NoPill /\ stored' = NoPill
      /\ public' = public \cup (IF mevPref THEN {} ELSE {mounts + 1})
  BY DEF Mount, NoModal, ReportTx
<1>2. mounts \in Nat /\ modal.inst = 0
  BY DEF TypeOK, Mounted
<1>3. TypeOK' /\ OnScreen'
  BY <1>1, <1>2 DEF TypeOK, ModalStates, Statuses, OnScreen, Mounted
<1>4. \A a \in Attempts : Working(a) => attempt[a].inst \in 1..mounts /\ attempt[a].inst \in loose
  BY <1>2 DEF Owned
<1>5. Owned' /\ Alone' /\ InStep'
  BY <1>1, <1>2, <1>4 DEF Owned, Alone, InStep, Working
<1>6. PrefKept' /\ PrivateStaysPrivate'
  BY <1>1, <1>2 DEF PrefKept, PrivateStaysPrivate, TypeOK
<1>7. WaitsForOwnAttempt' /\ PillBacked' /\ StorageMirrorsPill'
  BY <1>1 DEF WaitsForOwnAttempt, ModalView, PillBacked, StorageMirrorsPill, NoPill, Busy
<1> QED BY <1>3, <1>5, <1>6, <1>7

(* The modal is taken away; what it was at goes on. *)
LEMMA UnmountKeeps ==
  ASSUME ExecutionIInv, Unmount({}), UNCHANGED <<attempt, pill, stored, mounts, mevPref, public>>,
         ~(showModal' /\ quoted')
  PROVE  ExecutionIInv'
<1> USE DEF ExecutionIInv
<1>1. /\ modal' = NoModal
      /\ loose' = loose \cup (IF \E a \in Attempts : AtWork(a) THEN {modal.inst} ELSE {})
  BY DEF Unmount
<1>2. TypeOK' /\ OnScreen'
  BY <1>1 DEF TypeOK, ModalStates, Statuses, OnScreen, Mounted, NoModal
<1>3. \A a \in Attempts : Working(a) => attempt[a].inst \in 1..mounts /\ attempt[a].inst \in loose'
  BY <1>1 DEF Owned, Working, AtWork
<1>4. Owned' /\ Alone' /\ InStep'
  BY <1>1, <1>3 DEF Owned, Alone, InStep, Working, NoModal, TypeOK
<1>5. PrefKept' /\ PrivateStaysPrivate' /\ StorageMirrorsPill'
  BY <1>1 DEF PrefKept, PrivateStaysPrivate, StorageMirrorsPill, Mounted, NoModal
<1>6. WaitsForOwnAttempt'
  BY <1>1 DEF WaitsForOwnAttempt, ModalView, Mounted, NoModal
<1>7. PillBacked'
  <2> SUFFICES ASSUME pill.status \in Busy PROVE pill.by \in loose'
    BY DEF PillBacked
  <2>1. CASE pill.by \in loose
    BY <1>1, <2>1
  <2>2. CASE pill.by = modal.inst /\ pill.status = modal.status
    <3>1. ModalView.waits
      BY <2>2 DEF ModalView, OnScreen, Busy
    <3>2. \E a \in Attempts : AtWork(a)
      BY <2>2, <3>1 DEF WaitsForOwnAttempt, AtWork
    <3> QED BY <1>1, <2>2, <3>2
  <2> QED BY <2>1, <2>2 DEF PillBacked
<1> QED BY <1>2, <1>4, <1>5, <1>6, <1>7

(* A step that leaves the modal, but for its warning, the attempts and the pill alone. *)
LEMMA FrameKeeps ==
  ASSUME ExecutionIInv, UNCHANGED <<attempt, pill, stored, mounts, loose, public>>, mevPref' \in BOOLEAN,
         modal' = modal \/ \E m \in BOOLEAN : modal' = [modal EXCEPT !.mismatch = m],
         Mounted <=> showModal' /\ quoted'
  PROVE  ExecutionIInv'
<1> USE DEF ExecutionIInv
<1>1. TypeOK' /\ modal'.inst = modal.inst /\ modal'.status = modal.status /\ modal'.mev = modal.mev
  BY DEF TypeOK, ModalStates
<1>2. OnScreen' /\ PrefKept' /\ WaitsForOwnAttempt'
  BY <1>1 DEF OnScreen, PrefKept, WaitsForOwnAttempt, ModalView, Mounted
<1>3. Owned' /\ Alone' /\ InStep'
  BY <1>1 DEF Owned, Alone, InStep, Working
<1>4. PillBacked' /\ StorageMirrorsPill' /\ PrivateStaysPrivate'
  BY <1>1 DEF PillBacked, StorageMirrorsPill, PrivateStaysPrivate
<1> QED BY <1>1, <1>2, <1>3, <1>4

LEMMA ScreenKeeps ==
  ASSUME ExecutionIInv, OpenModal \/ LoseQuote \/ RegainQuote \/ CloseModal \/ ProbeNetwork \/ SwitchNetwork \/ ToggleMev
  PROVE  ExecutionIInv'
<1> USE DEF ExecutionIInv
<1>0. mevPref \in BOOLEAN /\ (Mounted <=> showModal /\ quoted)
  BY DEF TypeOK, OnScreen
<1>1. CASE OpenModal
  BY <1>0, <1>1, MountKeeps DEF OpenModal
<1>2. CASE LoseQuote
  BY <1>0, <1>2, UnmountKeeps, FrameKeeps DEF LoseQuote
<1>3. CASE RegainQuote
  BY <1>0, <1>3, MountKeeps, FrameKeeps DEF RegainQuote
<1>4. CASE CloseModal
  BY <1>0, <1>4, UnmountKeeps DEF CloseModal
<1>5. CASE ProbeNetwork
  <2>1. \E m \in BOOLEAN : modal' = [modal EXCEPT !.mismatch = m]
    BY <1>5 DEF ProbeNetwork
  <2> QED BY <1>0, <1>5, <2>1, FrameKeeps DEF ProbeNetwork
<1>6. CASE SwitchNetwork
  BY <1>0, <1>6, FrameKeeps DEF SwitchNetwork
<1>7. CASE ToggleMev
  BY <1>0, <1>7, FrameKeeps DEF ToggleMev
<1> QED BY <1>1, <1>2, <1>3, <1>4, <1>5, <1>6, <1>7

LEMMA PillKeeps ==
  ASSUME ExecutionIInv, Dismiss
  PROVE  ExecutionIInv'
<1> USE DEF ExecutionIInv
<1>1. pill' = NoPill /\ stored' = NoPill /\ UNCHANGED <<quoted, showModal, modal, mounts, attempt, mevPref, loose, public>>
  BY DEF Dismiss, ReportTx
<1>2. TypeOK' /\ OnScreen' /\ PrefKept' /\ WaitsForOwnAttempt' /\ PrivateStaysPrivate'
  BY <1>1 DEF TypeOK, OnScreen, PrefKept, WaitsForOwnAttempt, PrivateStaysPrivate, ModalView, Mounted
<1>3. Owned' /\ Alone' /\ InStep'
  BY <1>1 DEF Owned, Alone, InStep, Working
<1>4. PillBacked' /\ StorageMirrorsPill'
  BY <1>1 DEF PillBacked, StorageMirrorsPill, NoPill, Busy
<1> QED BY <1>2, <1>3, <1>4

LEMMA ReloadKeeps ==
  ASSUME ExecutionIInv, Reload
  PROVE  ExecutionIInv'
<1> USE DEF ExecutionIInv
<1>1. \A a \in Attempts : /\ attempt'[a] \in Attempt /\ attempt'[a].inst = attempt[a].inst
                          /\ attempt'[a].mev = attempt[a].mev /\ attempt'[a].via = attempt[a].via
                          /\ attempt'[a].at \in {"none", "done"} /\ (attempt'[a].at = "none" <=> attempt[a].at = "none")
  <2> TAKE a \in Attempts
  <2>1. attempt[a] \in Attempt
    BY DEF TypeOK
  <2>2. attempt'[a] = IF attempt[a].at = "none" THEN attempt[a] ELSE Moved(a, "done", attempt[a].via)
    BY DEF Reload
  <2>3. CASE attempt[a].at = "none"
    BY <2>1, <2>2, <2>3
  <2>4. CASE attempt[a].at # "none"
    <3>1. attempt'[a] = [at |-> "done", inst |-> attempt[a].inst, mev |-> attempt[a].mev, via |-> attempt[a].via]
      BY <2>2, <2>4 DEF Moved
    <3> QED BY <2>1, <2>4, <3>1 DEF Attempt
  <2> QED BY <2>3, <2>4
<1>2. DOMAIN attempt' = Attempts /\ attempt' = [a \in Attempts |-> attempt'[a]]
  BY DEF Reload
<1>3. TypeOK' /\ OnScreen'
  BY <1>1, <1>2 DEF Reload, TypeOK, OnScreen, Mounted, NoModal, ModalStates, Statuses
<1>4. Owned' /\ Alone' /\ InStep' /\ WaitsForOwnAttempt'
  BY <1>1 DEF Reload, Owned, Alone, InStep, Working, Busy, WaitsForOwnAttempt, ModalView, Mounted, NoModal
<1>5. PrefKept' /\ PrivateStaysPrivate'
  BY <1>1 DEF Reload, PrefKept, PrivateStaysPrivate, Mounted, NoModal
<1>6. PillBacked' /\ StorageMirrorsPill'
  BY DEF Reload, ReportTx, Hydrated, NoPill, PillBacked, StorageMirrorsPill, Final, Busy
<1> QED BY <1>3, <1>4, <1>5, <1>6

-----------------------------------------------------------------------------
(* The attempts *)

LEMMA ConfirmKeeps ==
  ASSUME ExecutionIInv, NEW a \in Attempts, Confirm(a)
  PROVE  ExecutionIInv'
<1> USE DEF ExecutionIInv
<1> DEFINE new == [at |-> "checking", inst |-> modal.inst, mev |-> modal.mev, via |-> "none"]
<1>0. Mounted /\ modal.status = "idle" /\ attempt[a].at = "none"
  <2>1. ModalView.confirm /\ attempt[a] = [at |-> "none", inst |-> 0, mev |-> FALSE, via |-> "none"]
    BY DEF Confirm, Unmade
  <2>2. ModalView.confirm = (Mounted /\ modal.status = "idle" /\ ~modal.mismatch)
    BY DEF ModalView
  <2>3. attempt[a].at = "none"
    BY <2>1
  <2> QED BY <2>1, <2>2, <2>3
<1>1. /\ Mounted /\ modal.status = "idle" /\ attempt[a].at = "none"
      /\ attempt' = [attempt EXCEPT ![a] = new]
      /\ loose' = IF \E b \in Attempts : attempt[b].inst = modal.inst /\ attempt[b].at = "checking"
                  THEN loose \cup {modal.inst} ELSE loose
      /\ UNCHANGED <<quoted, showModal, modal, mounts, pill, stored, mevPref, public>>
  BY <1>0 DEF Confirm
<1>2. new \in Attempt /\ modal.inst \in 1..mounts
  BY <1>1 DEF TypeOK, ModalStates, Attempt, OnScreen, Mounted
<1>3. attempt'[a] = new /\ \A b \in Attempts : b # a => attempt'[b] = attempt[b]
  BY <1>1 DEF TypeOK
<1>4. TypeOK' /\ OnScreen'
  BY <1>1, <1>2 DEF TypeOK, OnScreen, Mounted
<1>5. \A b \in Attempts : b # a => (Working(b)' <=> Working(b))
  BY <1>3 DEF Working
<1>6. Owned'
  BY <1>1, <1>2, <1>3, <1>5 DEF Owned
<1>7. \A b \in Attempts : b # a /\ Working(b) /\ attempt[b].inst = modal.inst => modal.inst \in loose'
  BY <1>1 DEF InStep, Working, Busy
<1>8. Alone'
  BY <1>1, <1>3, <1>5, <1>7 DEF Alone
<1>9. InStep'
  <2> SUFFICES ASSUME NEW b \in Attempts, Working(b)', attempt'[b].inst = modal.inst, modal.inst \notin loose'
               PROVE  modal.status = IF attempt'[b].at = "checking" THEN "idle" ELSE attempt'[b].at
    BY <1>1 DEF InStep
  <2>1. CASE b = a
    BY <1>1, <1>3, <2>1
  <2>2. CASE b # a
    BY <1>3, <1>5, <1>7, <2>2
  <2> QED BY <2>1, <2>2
<1>10. PrefKept' /\ PrivateStaysPrivate'
  BY <1>1, <1>3 DEF PrefKept, PrivateStaysPrivate, Mounted
<1>11. WaitsForOwnAttempt' /\ PillBacked' /\ StorageMirrorsPill'
  BY <1>1 DEF WaitsForOwnAttempt, ModalView, PillBacked, StorageMirrorsPill, Busy
<1> QED BY <1>4, <1>6, <1>8, <1>9, <1>10, <1>11

(* An attempt that takes a step reports it to its own modal, if that is still there.  One that  *)
(* is new has no other beside it, unless the mount is loose.                                   *)
Reports(a, new, said, error, hash) ==
  /\ new \in Attempt /\ said \in Statuses \cup {"success"} /\ error \in {"none", "network", "slippage"}
  /\ attempt' = [attempt EXCEPT ![a] = new]
  /\ SetResult(new.inst, said, error, hash)
  /\ UNCHANGED <<mounts, mevPref, public>>
  /\ new.at = IF said \in Busy THEN said ELSE "done"
  /\ said = "success" => hash = a
  /\ new.inst \in 1..mounts /\ new.inst \in loose \cup {modal.inst}
  /\ attempt[a].at \notin Busy \/ new.inst = attempt[a].inst
  /\ ~new.mev => new.inst \in public
  /\ new.via = "api" => new.inst \in public
  /\ new.inst = modal.inst =>
       \A b \in Attempts : b # a /\ Working(b) /\ attempt[b].inst = modal.inst => modal.inst \in loose

LEMMA ReportKeeps ==
  ASSUME ExecutionIInv, NEW a \in Attempts, NEW new, NEW said, NEW error, NEW hash,
         Reports(a, new, said, error, hash)
  PROVE  ExecutionIInv'
<1>0. /\ new \in Attempt /\ said \in Statuses \cup {"success"} /\ error \in {"none", "network", "slippage"}
      /\ attempt' = [attempt EXCEPT ![a] = new]
      /\ SetResult(new.inst, said, error, hash)
      /\ UNCHANGED <<mounts, mevPref, public>>
      /\ new.at = IF said \in Busy THEN said ELSE "done"
      /\ said = "success" => hash = a
      /\ new.inst \in 1..mounts /\ new.inst \in loose \cup {modal.inst}
      /\ attempt[a].at \notin Busy \/ new.inst = attempt[a].inst
      /\ ~new.mev => new.inst \in public
      /\ new.via = "api" => new.inst \in public
      /\ new.inst = modal.inst =>
           \A b \in Attempts : b # a /\ Working(b) /\ attempt[b].inst = modal.inst => modal.inst \in loose
  BY DEF Reports
<1> USE <1>0
<1> USE DEF ExecutionIInv
<1>1. attempt'[a] = new /\ \A b \in Attempts : b # a => attempt'[b] = attempt[b]
  BY DEF TypeOK
<1>2. \A b \in Attempts : b # a => (Working(b)' <=> Working(b))
  BY <1>1 DEF Working
<1>3. attempt' \in [Attempts -> Attempt]
  BY DEF TypeOK
<1>4. PrivateStaysPrivate' /\ \A b \in Attempts : attempt'[b].at # "none" /\ ~attempt'[b].mev => attempt'[b].inst \in public
  BY <1>1 DEF PrivateStaysPrivate, PrefKept
<1>5. CASE new.inst # modal.inst \/ <<said, error>> = <<modal.status, modal.error>>
  <2>1. UNCHANGED <<quoted, showModal, modal, pill, stored, loose>>
    BY <1>5 DEF SetResult
  <2>2. TypeOK' /\ OnScreen' /\ PrefKept' /\ PillBacked' /\ StorageMirrorsPill'
    BY <1>3, <1>4, <2>1 DEF TypeOK, OnScreen, PrefKept, PillBacked, StorageMirrorsPill, Mounted
  <2>3. Owned'
    BY <1>1, <1>2, <2>1 DEF Owned
  <2>4. Alone'
    BY <1>1, <1>2, <2>1 DEF Alone
  <2>5. InStep'
    <3> SUFFICES ASSUME NEW b \in Attempts, Working(b)', attempt'[b].inst = modal.inst, modal.inst \notin loose
                 PROVE  modal.status = IF attempt'[b].at = "checking" THEN "idle" ELSE attempt'[b].at
      BY <2>1 DEF InStep
    <3>1. CASE b = a
      BY <1>1, <1>5, <3>1 DEF Working, Busy
    <3>2. CASE b # a
      BY <1>1, <1>2, <3>2 DEF InStep
    <3> QED BY <3>1, <3>2
  <2>6. WaitsForOwnAttempt'
    <3> SUFFICES ASSUME ModalView.waits
                 PROVE  \E b \in Attempts : attempt'[b].inst = modal.inst /\ attempt'[b].at = modal.status
      BY <2>1 DEF WaitsForOwnAttempt, ModalView, Mounted
    <3>1. modal.status \in Busy
      BY DEF ModalView
    <3>2. PICK b \in Attempts : attempt[b].inst = modal.inst /\ attempt[b].at = modal.status
      BY DEF WaitsForOwnAttempt
    <3>3. CASE b # a
      BY <1>1, <3>2, <3>3
    <3>4. CASE b = a
      BY <1>1, <1>5, <3>1, <3>2, <3>4
    <3> QED BY <3>3, <3>4
  <2> QED BY <1>4, <2>2, <2>3, <2>4, <2>5, <2>6
<1>6. CASE new.inst = modal.inst /\ <<said, error>> # <<modal.status, modal.error>>
  <2>1. /\ pill' = Reported(said, hash) /\ stored' = pill'
        /\ said = "success" => showModal' = FALSE /\ quoted' = FALSE /\ Unmount({a})
        /\ said # "success" => /\ modal' = [modal EXCEPT !.status = said, !.error = error]
                                 /\ UNCHANGED <<quoted, showModal, loose>>
    BY <1>6 DEF SetResult, ReportTx
  <2>2. Mounted /\ modal \in ModalStates
    BY <1>6 DEF Mounted, TypeOK
  <2>3. StorageMirrorsPill'
    BY <2>1 DEF StorageMirrorsPill
  <2>4. CASE said = "success"
    <3>1. /\ modal' = NoModal
          /\ loose' = loose \cup (IF \E b \in Attempts \ {a} : AtWork(b) THEN {modal.inst} ELSE {})
      BY <2>1, <2>4 DEF Unmount
    <3>2. TypeOK' /\ OnScreen' /\ PrefKept' /\ WaitsForOwnAttempt'
      <4>1. TypeOK'
        BY <1>3, <3>1 DEF TypeOK, NoModal, ModalStates, Statuses
      <4>2. OnScreen'
        BY <2>1, <2>4, <3>1 DEF TypeOK, OnScreen, Mounted, NoModal
      <4>3. PrefKept'
        BY <1>4, <3>1 DEF PrefKept, Mounted, NoModal
      <4>4. WaitsForOwnAttempt'
        BY <3>1 DEF WaitsForOwnAttempt, ModalView, Mounted, NoModal
      <4> QED BY <4>1, <4>2, <4>3, <4>4
    <3>3. ~Working(a)'
      BY <1>1, <2>4 DEF Working, Busy
    <3>4. \A b \in Attempts : Working(b)' => attempt'[b].inst \in 1..mounts /\ attempt'[b].inst \in loose'
      BY <1>1, <1>2, <3>1, <3>3 DEF Owned, AtWork, Working
    <3>5. Owned' /\ Alone' /\ InStep'
      BY <3>1, <3>4 DEF Owned, Alone, InStep, NoModal, TypeOK
    <3>6. PillBacked'
      BY <2>1, <2>4 DEF PillBacked, Reported, Busy
    <3> QED BY <1>4, <2>3, <3>2, <3>5, <3>6
  <2>5. CASE said # "success"
    <3>1. /\ modal' \in ModalStates /\ modal'.inst = modal.inst /\ modal'.status = said /\ modal'.mev = modal.mev
          /\ UNCHANGED <<quoted, showModal, loose>>
      BY <2>1, <2>2, <2>5 DEF ModalStates
    <3>2. TypeOK' /\ OnScreen' /\ PrefKept'
      BY <1>3, <1>4, <2>2, <3>1 DEF TypeOK, OnScreen, PrefKept, Mounted
    <3>3. Owned'
      BY <1>1, <1>2, <3>1 DEF Owned
    <3>4. Alone'
      BY <1>1, <1>2, <3>1 DEF Alone
    <3>5. InStep'
      <4> SUFFICES ASSUME NEW b \in Attempts, Working(b)', attempt'[b].inst = modal.inst, modal.inst \notin loose
                   PROVE  said = IF attempt'[b].at = "checking" THEN "idle" ELSE attempt'[b].at
        BY <3>1 DEF InStep
      <4>1. CASE b = a
        BY <1>1, <4>1 DEF Working, Busy
      <4>2. CASE b # a
        BY <1>1, <1>2, <1>6, <4>2
      <4> QED BY <4>1, <4>2
    <3>6. WaitsForOwnAttempt'
      <4> SUFFICES ASSUME said \in Busy
                   PROVE  attempt'[a].inst = modal.inst /\ attempt'[a].at = said
        BY <3>1 DEF WaitsForOwnAttempt, ModalView
      <4> QED BY <1>1, <1>6
    <3>7. PillBacked'
      BY <2>1, <3>1 DEF PillBacked, Reported, NoPill, Busy
    <3> QED BY <1>4, <2>3, <3>2, <3>3, <3>4, <3>5, <3>6, <3>7
  <2> QED BY <2>4, <2>5
<1> QED BY <1>5, <1>6

(* The same of an attempt that was at work before. *)
Steps(a, at, via, said, error, hash) ==
  /\ Working(a) /\ Takes(a, at, via) /\ SetResult(attempt[a].inst, said, error, hash) /\ Unrelated
  /\ via \in {"none", "api", "mev-rpc", "refused"} /\ (via = "api" => attempt[a].inst \in public)
  /\ said \in Statuses \cup {"success"} /\ error \in {"none", "network", "slippage"}
  /\ at = IF said \in Busy THEN said ELSE "done"
  /\ said = "success" => hash = a

LEMMA StepKeeps ==
  ASSUME ExecutionIInv, NEW a \in Attempts, NEW at, NEW via, NEW said, NEW error, NEW hash,
         Steps(a, at, via, said, error, hash)
  PROVE  ExecutionIInv'
<1> USE DEF Steps
<1> DEFINE new == Moved(a, at, via)
<1>1. attempt[a] \in Attempt
  BY DEF ExecutionIInv, TypeOK
<1>2. new \in Attempt /\ new.inst = attempt[a].inst /\ new.at = at /\ new.mev = attempt[a].mev /\ new.via = via
  BY <1>1 DEF Attempt, Moved, Busy
<1>3. attempt[a].inst \in 1..mounts /\ attempt[a].inst \in loose \cup {modal.inst}
  BY DEF ExecutionIInv, Owned
<1>4. ~attempt[a].mev => attempt[a].inst \in public
  BY DEF ExecutionIInv, PrefKept, Working, Busy
<1>5. attempt[a].inst = modal.inst =>
        \A b \in Attempts : b # a /\ Working(b) /\ attempt[b].inst = modal.inst => modal.inst \in loose
  BY DEF ExecutionIInv, Alone
<1>6. attempt' = [attempt EXCEPT ![a] = new] /\ SetResult(new.inst, said, error, hash)
      /\ UNCHANGED <<mounts, mevPref, public>>
  BY <1>2 DEF Unrelated, Takes
<1>7. /\ new.at = IF said \in Busy THEN said ELSE "done"
      /\ new.inst \in 1..mounts /\ new.inst \in loose \cup {modal.inst}
      /\ attempt[a].at \notin Busy \/ new.inst = attempt[a].inst
      /\ ~new.mev => new.inst \in public
      /\ new.via = "api" => new.inst \in public
  BY <1>2, <1>3, <1>4
<1>8. new.inst = modal.inst =>
        \A b \in Attempts : b # a /\ Working(b) /\ attempt[b].inst = modal.inst => modal.inst \in loose
  BY <1>2, <1>5
<1>9. Reports(a, new, said, error, hash)
  <2> HIDE DEF new
  <2> QED BY <1>2, <1>6, <1>7, <1>8 DEF Reports
<1> HIDE DEF new
<1> QED BY <1>9, ReportKeeps

(* What an attempt went through is one of the four ways. *)
LEMMA ViaKept ==
  ASSUME ExecutionIInv, NEW a \in Attempts
  PROVE  /\ attempt[a].via \in {"none", "api", "mev-rpc", "refused"}
         /\ attempt[a].via = "api" => attempt[a].inst \in public
<1>1. attempt[a] \in Attempt
  BY DEF ExecutionIInv, TypeOK
<1> QED BY <1>1 DEF Attempt, ExecutionIInv, PrivateStaysPrivate

LEMMA ModalAnswersKeep ==
  ASSUME ExecutionIInv, NEW a \in Attempts, CheckAnswers(a)
  PROVE  ExecutionIInv'
<1>1. Working(a) /\ attempt[a].at = "checking"
  BY DEF CheckAnswers, Working
<1>2. CASE At(a, "signing") /\ SetResult(attempt[a].inst, "signing", "none", NoHash)
  <2>1. Steps(a, "signing", attempt[a].via, "signing", "none", NoHash)
    BY <1>1, <1>2, ViaKept DEF CheckAnswers, At, Busy, Statuses, Steps
  <2> QED BY <2>1, StepKeeps
<1>3. CASE /\ At(a, "done")
           /\ modal' = IF attempt[a].inst = modal.inst THEN [modal EXCEPT !.mismatch = TRUE] ELSE modal
           /\ UNCHANGED <<quoted, showModal, pill, stored, loose>>
  <2> USE DEF ExecutionIInv
  <2>0. UNCHANGED <<mounts, mevPref, public>>
    BY DEF CheckAnswers, Unrelated
  <2>1. /\ modal' \in ModalStates /\ modal'.inst = modal.inst /\ modal'.status = modal.status /\ modal'.mev = modal.mev
    BY <1>3 DEF TypeOK, ModalStates
  <2>2. /\ attempt \in [Attempts -> Attempt] /\ attempt[a] \in Attempt
        /\ attempt' = [attempt EXCEPT ![a] = [at |-> "done", inst |-> attempt[a].inst,
                                             mev |-> attempt[a].mev, via |-> attempt[a].via]]
    BY <1>3 DEF At, Takes, Moved, TypeOK
  <2>3. attempt'[a].at = "done" /\ \A b \in Attempts : b # a => attempt'[b] = attempt[b]
    BY <2>2
  <2>4. attempt' \in [Attempts -> Attempt]
    BY <2>2 DEF Attempt
  <2>10. \A b \in Attempts : /\ attempt'[b].inst = attempt[b].inst /\ attempt'[b].mev = attempt[b].mev
                             /\ attempt'[b].via = attempt[b].via
    BY <2>2
  <2>5. \A b \in Attempts : Working(b)' => b # a /\ Working(b)
    BY <2>3 DEF Working, Busy
  <2>6. TypeOK' /\ OnScreen' /\ PillBacked' /\ StorageMirrorsPill'
    BY <1>3, <2>0, <2>1, <2>4 DEF TypeOK, OnScreen, PillBacked, StorageMirrorsPill, Mounted
  <2>7. Owned' /\ Alone' /\ InStep'
    BY <1>3, <2>0, <2>1, <2>3, <2>5 DEF Owned, Alone, InStep
  <2>8. PrefKept' /\ PrivateStaysPrivate'
    BY <1>1, <2>0, <2>1, <2>10, <2>3 DEF PrefKept, PrivateStaysPrivate, Mounted
  <2>9. WaitsForOwnAttempt'
    BY <1>1, <2>1, <2>3 DEF WaitsForOwnAttempt, ModalView, Mounted, Busy
  <2> QED BY <2>6, <2>7, <2>8, <2>9
<1> QED BY <1>2, <1>3 DEF CheckAnswers

LEMMA ModalRetryKeeps ==
  ASSUME ExecutionIInv, NEW a \in Attempts, Retry(a)
  PROVE  ExecutionIInv'
<1> DEFINE new == [at |-> "signing", inst |-> modal.inst, mev |-> modal.mev, via |-> "none"]
<1>0. Mounted /\ modal.status = "error" /\ attempt[a].at = "none"
  <2>1. ModalView.retry /\ attempt[a] = [at |-> "none", inst |-> 0, mev |-> FALSE, via |-> "none"]
    BY DEF Retry, Unmade
  <2>2. ModalView.retry = (Mounted /\ modal.status = "error" /\ modal.error \in {"slippage", "network"})
    BY DEF ModalView
  <2>3. attempt[a].at = "none"
    BY <2>1
  <2> QED BY <2>1, <2>2, <2>3
<1>1. /\ Mounted /\ modal.status = "error" /\ attempt[a].at = "none" /\ attempt' = [attempt EXCEPT ![a] = new]
      /\ SetResult(modal.inst, "signing", "none", NoHash) /\ UNCHANGED <<mounts, mevPref, public>>
  BY <1>0 DEF Retry, Unrelated
<1>2. new \in Attempt /\ new.inst = modal.inst /\ new.at = "signing" /\ new.mev = modal.mev /\ new.via = "none"
  BY DEF ExecutionIInv, TypeOK, ModalStates, Attempt
<1>3. modal.inst \in 1..mounts
  BY <1>1 DEF ExecutionIInv, TypeOK, ModalStates, OnScreen, Mounted
<1>4. ~modal.mev => modal.inst \in public
  BY <1>1 DEF ExecutionIInv, PrefKept
<1>5. \A b \in Attempts : b # a /\ Working(b) /\ attempt[b].inst = modal.inst => modal.inst \in loose
  BY <1>1 DEF ExecutionIInv, InStep, Working, Busy
<1>6. Reports(a, new, "signing", "none", NoHash)
  <2> HIDE DEF new
  <2> QED BY <1>1, <1>2, <1>3, <1>4, <1>5 DEF Reports, Statuses, Busy
<1> HIDE DEF new
<1> QED BY <1>6, ReportKeeps

LEMMA AttemptKeeps ==
  ASSUME ExecutionIInv, NEW a \in Attempts,
         WalletSigns(a) \/ WalletRejects(a) \/ SigningThrows(a) \/ Submitted(a) \/ SubmitFails(a)
  PROVE  ExecutionIInv'
<1> USE DEF Busy, Statuses
<1>0. Working(a) /\ (~attempt[a].mev => attempt[a].inst \in public) /\ attempt[a].mev \in BOOLEAN
  BY DEF WalletSigns, WalletRejects, SigningThrows, Submitted, SubmitFails, Working, ExecutionIInv, PrefKept,
         TypeOK, Attempt
<1>1. CASE WalletSigns(a)
  <2>1. Steps(a, "submitting", attempt[a].via, "submitting", "none", NoHash)
    BY <1>0, <1>1, ViaKept DEF WalletSigns, At, Steps
  <2> QED BY <2>1, StepKeeps
<1>2. CASE WalletRejects(a)
  <2>1. Steps(a, "done", attempt[a].via, "idle", "none", NoHash)
    BY <1>0, <1>2, ViaKept DEF WalletRejects, At, Steps
  <2> QED BY <2>1, StepKeeps
<1>3. CASE SigningThrows(a)
  <2>1. Steps(a, "done", attempt[a].via, "error", "network", NoHash)
    BY <1>0, <1>3, ViaKept DEF SigningThrows, At, Steps
  <2> QED BY <2>1, StepKeeps
<1> DEFINE via == Path(attempt[a].mev)
<1>4. via \in {"none", "api", "mev-rpc", "refused"} /\ (via = "api" => attempt[a].inst \in public)
  BY <1>0 DEF Path
<1>5. CASE Submitted(a)
  <2>1. /\ Takes(a, "done", via)
        /\ SetResult(attempt[a].inst, "success", "none", a) /\ Unrelated
    BY <1>5 DEF Submitted
  <2> HIDE DEF via
  <2>2. Steps(a, "done", via, "success", "none", a)
    BY <1>0, <1>4, <2>1 DEF Steps
  <2> QED BY <2>2, StepKeeps
<1>6. CASE SubmitFails(a)
  <2>1. PICK error \in {"network", "slippage"} : SetResult(attempt[a].inst, "error", error, NoHash)
    BY <1>6 DEF SubmitFails
  <2>2. Takes(a, "done", via) /\ Unrelated
    BY <1>6 DEF SubmitFails
  <2> HIDE DEF via
  <2>3. Steps(a, "done", via, "error", error, NoHash)
    BY <1>0, <1>4, <2>1, <2>2 DEF Steps
  <2> QED BY <2>3, StepKeeps
<1> QED BY <1>1, <1>2, <1>3, <1>5, <1>6

LEMMA ExecutionStutters == ExecutionIInv /\ UNCHANGED executionVars => ExecutionIInv'
<1> SUFFICES ASSUME ExecutionIInv, UNCHANGED executionVars PROVE ExecutionIInv'
  OBVIOUS
<1>1. mevPref \in BOOLEAN /\ (Mounted <=> showModal /\ quoted)
  BY DEF ExecutionIInv, TypeOK, OnScreen
<1> QED BY <1>1, FrameKeeps DEF executionVars

(* A modal that waits waits for an attempt of its own, the pill is about the modal on the       *)
(* screen or one that was left at work, storage mirrors it, swaps only overlap across such a    *)
(* mount, and none takes the public path against the preference at its mount                    *)
(* (SwapConfirmModal.tsx, useSwapExecution.ts, TransactionStatusContext.tsx, mev-submission.ts). *)
THEOREM ExecutionSound == ExecutionSpec => []ExecutionInv
<1>1. ExecutionIInv /\ [ExecutionNext]_executionVars => ExecutionIInv'
  <2> SUFFICES ASSUME ExecutionIInv, ExecutionNext PROVE ExecutionIInv'
    BY ExecutionStutters
  <2>1. CASE OpenModal \/ LoseQuote \/ RegainQuote \/ CloseModal \/ ProbeNetwork \/ SwitchNetwork \/ ToggleMev
    BY <2>1, ScreenKeeps
  <2>2. CASE Dismiss \/ Reload
    BY <2>2, PillKeeps, ReloadKeeps
  <2>3. ASSUME NEW a \in Attempts, Confirm(a) \/ Retry(a) \/ AttemptStep(a) PROVE ExecutionIInv'
    BY <2>3, ConfirmKeeps, ModalRetryKeeps, ModalAnswersKeep, AttemptKeeps DEF AttemptStep
  <2> QED BY <2>1, <2>2, <2>3 DEF ExecutionNext
<1> QED BY ExecutionStarts, ExecutionIImplies, <1>1, PTL DEF ExecutionSpec

-----------------------------------------------------------------------------
(* The swap form.  Once the inputs are complete, a request that is still the latest is for them,   *)
(* because the change that completed them overtook every earlier one; and there is one at most,    *)
(* asked for when its timer was disarmed.                                                         *)
QuotingShape ==
  /\ loading \in BOOLEAN /\ timer \in BOOLEAN
  /\ \A r \in fetches : /\ r = [for |-> r.for, by |-> r.by, latest |-> r.latest, aborted |-> r.aborted]
                        /\ r.latest \in BOOLEAN

LatestIsCurrent ==
  /\ \A r \in fetches : r.latest => r.by = "timer" /\ (Complete(Inputs(form, poolId)) => r.for = Inputs(form, poolId))
  /\ \A r, s \in fetches : r.latest /\ s.latest => r = s
  /\ timer => \A r \in fetches : ~r.latest

LookupIsOfPair == lookup = NoPair \/ (lookup = PairOf(form) /\ BothSet(PairOf(form)))

(* What is known of the pool once no lookup is under way: what the answer said, or nothing. *)
PoolIsOfPair ==
  lookup = NoPair =>
    \/ poolId = NoPool /\ poolExists = "unknown"
    \/ /\ BothSet(PairOf(form)) /\ poolId = PoolOfPair[{form.tokenIn, form.tokenOut}]
       /\ poolExists = IF poolId = NoPool THEN "no" ELSE "yes"

QuotePart == TimedQuoteIsCurrent /\ LoadingMeansPending /\ LatestIsCurrent
PoolPart  == LookupIsOfPair /\ PoolIsOfPair

QuotingIInv == QuotingShape /\ QuotePart /\ PoolPart

LEMMA QuotingIImplies == QuotingIInv => QuotingInv
<1> SUFFICES ASSUME QuotingIInv PROVE QuotingInv
  OBVIOUS
<1>1. RoutedThroughOwnPool
  BY DEF QuotingIInv, PoolPart, PoolIsOfPair, RoutedThroughOwnPool, ModalReady
<1>2. WarningIsTrue
  BY DEF QuotingIInv, PoolPart, PoolIsOfPair, WarningIsTrue, NoPoolWarning
<1> QED BY <1>1, <1>2 DEF QuotingIInv, QuotePart, QuotingInv

LEMMA OvertakenIsNotLatest ==
  ASSUME QuotingShape
  PROVE  \A r \in Overtaken(fetches) : /\ r = [for |-> r.for, by |-> r.by, latest |-> r.latest, aborted |-> r.aborted]
                                       /\ r.latest = FALSE
<1> SUFFICES ASSUME NEW r \in Overtaken(fetches)
             PROVE  /\ r = [for |-> r.for, by |-> r.by, latest |-> r.latest, aborted |-> r.aborted]
                    /\ r.latest = FALSE
  OBVIOUS
<1>1. PICK s \in fetches : r = [s EXCEPT !.latest = FALSE, !.aborted = (s.by = "timer")]
  BY DEF Overtaken
<1>2. s = [for |-> s.for, by |-> s.by, latest |-> s.latest, aborted |-> s.aborted]
  BY DEF QuotingShape
<1> DEFINE timed == (s.by = "timer")
<1> HIDE DEF timed
<1>3. r = [s EXCEPT !.latest = FALSE, !.aborted = timed]
  BY <1>1 DEF timed
<1>4. DOMAIN s = {"for", "by", "latest", "aborted"}
  BY <1>2
<1> QED BY <1>2, <1>3, <1>4

(* The effect on changed inputs, whatever changed them. *)
LEMMA RequoteKeeps ==
  ASSUME QuotingIInv, NEW f, NEW p, Requote(f, p), form' = f, poolId' = p
  PROVE  QuotingShape' /\ QuotePart'
<1> DEFINE i == Inputs(f, p)
<1>1. Inputs(form, poolId)' = i
  BY DEF Inputs
<1>2. CASE i = Inputs(form, poolId)
  <2>1. UNCHANGED <<quote, loading, timer, fetches>>
    BY <1>2 DEF Requote
  <2>2. QuotePart'
    <3>1. PairOf(form)' = PairOf(form)
      BY <1>1, <1>2 DEF Inputs, PairOf
    <3>2. Inputs(form, poolId)' = Inputs(form, poolId)
      BY <1>1, <1>2
    <3> HIDE DEF i
    <3> QED BY <2>1, <3>1, <3>2 DEF QuotingIInv, QuotePart, TimedQuoteIsCurrent, LoadingMeansPending, LatestIsCurrent, Shown
  <2> QED BY <2>1, <2>2 DEF QuotingIInv, QuotingShape
<1>3. CASE i # Inputs(form, poolId) /\ Complete(i)
  <2>1. loading' = TRUE /\ timer' = TRUE /\ fetches' = Overtaken(fetches)
    BY <1>3 DEF Requote
  <2>2. \A r \in fetches' : /\ r = [for |-> r.for, by |-> r.by, latest |-> r.latest, aborted |-> r.aborted]
                            /\ r.latest = FALSE
    BY <2>1, OvertakenIsNotLatest DEF QuotingIInv
  <2>3. QuotingShape'
    BY <2>1, <2>2 DEF QuotingShape
  <2>4. QuotePart'
    BY <2>1, <2>2 DEF QuotePart, TimedQuoteIsCurrent, LoadingMeansPending, LatestIsCurrent, Shown
  <2> QED BY <2>3, <2>4
<1>4. CASE i # Inputs(form, poolId) /\ ~Complete(i)
  <2>1. quote' = NoQuote /\ loading' = FALSE /\ timer' = FALSE /\ fetches' = fetches
    BY <1>4 DEF Requote
  <2>2. ~Complete(Inputs(form, poolId))'
    BY <1>1, <1>4 DEF Complete, BothSet
  <2> HIDE DEF i
  <2>3. QuotingShape'
    BY <2>1 DEF QuotingIInv, QuotingShape
  <2>4. QuotePart'
    BY <2>1, <2>2 DEF QuotingIInv, QuotePart, TimedQuoteIsCurrent, LoadingMeansPending, LatestIsCurrent
  <2> QED BY <2>3, <2>4
<1> QED BY <1>2, <1>3, <1>4

(* A user's edit: a changed pair is looked up anew. *)
LEMMA FormEditKeeps ==
  ASSUME QuotingIInv, NEW f, Edit(f)
  PROVE  QuotingIInv'
<1>1. form' = f /\ Relook(f)
  BY DEF Edit
<1>2. PICK p : Requote(f, p) /\ poolId' = p
  BY <1>1 DEF Relook
<1>3. QuotingShape' /\ QuotePart'
  BY <1>1, <1>2, RequoteKeeps
<1>4. PoolPart'
  <2>1. CASE PairOf(f) = PairOf(form)
    BY <1>1, <2>1 DEF Relook, QuotingIInv, PoolPart, LookupIsOfPair, PoolIsOfPair, PairOf
  <2>2. CASE PairOf(f) # PairOf(form) /\ BothSet(PairOf(f))
    BY <1>1, <2>2 DEF Relook, PoolPart, LookupIsOfPair, PoolIsOfPair, PairOf, BothSet, NoPair
  <2>3. CASE PairOf(f) # PairOf(form) /\ ~BothSet(PairOf(f))
    BY <1>1, <2>3 DEF Relook, PoolPart, LookupIsOfPair, PoolIsOfPair
  <2> QED BY <2>1, <2>2, <2>3
<1> QED BY <1>3, <1>4 DEF QuotingIInv

LEMMA EditsKeep ==
  ASSUME QuotingIInv, QuotingEdit
  PROVE  QuotingIInv'
BY FormEditKeeps DEF QuotingEdit, SelectIn, SelectOut, SwapDirection, TypeAmount, ToggleMode

LEMMA PoolAnswersKeep ==
  ASSUME QuotingIInv, PoolAnswers
  PROVE  QuotingIInv'
<1>1. PICK p, exists :
        /\ PoolKnown(p, exists)
        /\ \/ p = PoolOfPair[{form.tokenIn, form.tokenOut}] /\ exists = IF p = NoPool THEN "no" ELSE "yes"
           \/ p = NoPool /\ exists = "unknown"
  BY DEF PoolAnswers, Uncancelled, QuotingIInv, PoolPart, LookupIsOfPair, PairOf
<1>2. BothSet(PairOf(form))
  BY DEF PoolAnswers, Uncancelled, QuotingIInv, PoolPart, LookupIsOfPair
<1>3. QuotingShape' /\ QuotePart'
  BY <1>1, RequoteKeeps DEF PoolKnown, QuotingIInv, QuotingShape
<1>4. PoolPart'
  BY <1>1, <1>2 DEF PoolKnown, PoolPart, LookupIsOfPair, PoolIsOfPair, PairOf
<1> QED BY <1>3, <1>4 DEF QuotingIInv

(* Steps that change neither the form nor the pool. *)
FormKept == UNCHANGED <<form, poolId, poolExists, lookup>>

LEMMA PoolPartKept == QuotingIInv /\ FormKept => PoolPart'
BY DEF FormKept, QuotingIInv, PoolPart, LookupIsOfPair, PoolIsOfPair, PairOf, BothSet

LEMMA RequestsKeep ==
  ASSUME QuotingIInv, TokensAnswer \/ Debounced \/ PricePush
  PROVE  QuotingIInv'
<1>1. FormKept /\ UNCHANGED <<quote, loading>>
  BY DEF TokensAnswer, Debounced, PricePush, FormKept
<1>2. Inputs(form, poolId)' = Inputs(form, poolId) /\ PairOf(form)' = PairOf(form)
  BY <1>1 DEF FormKept, Inputs, PairOf
<1>3. CASE TokensAnswer
  BY <1>1, <1>2, <1>3, PoolPartKept DEF TokensAnswer, FormKept, QuotingIInv, QuotingShape, QuotePart, TimedQuoteIsCurrent,
     LoadingMeansPending, LatestIsCurrent, Shown
<1>4. CASE Debounced
  <2> DEFINE q == Request("timer")
  <2>1. timer /\ timer' = FALSE /\ fetches' = fetches \cup {q}
    BY <1>4 DEF Debounced
  <2>2. q.for = Inputs(form, poolId) /\ q.by = "timer" /\ q.latest = TRUE
        /\ q = [for |-> q.for, by |-> q.by, latest |-> q.latest, aborted |-> q.aborted]
    BY DEF Request
  <2> HIDE DEF q
  <2>3. QuotingShape'
    BY <1>1, <2>1, <2>2 DEF FormKept, QuotingIInv, QuotingShape
  <2>4. LatestIsCurrent'
    BY <1>2, <2>1, <2>2 DEF QuotingIInv, QuotePart, LatestIsCurrent
  <2>5. LoadingMeansPending' /\ TimedQuoteIsCurrent'
    BY <1>1, <1>2, <2>1, <2>2 DEF QuotingIInv, QuotePart, LoadingMeansPending, TimedQuoteIsCurrent, Shown
  <2> QED BY <1>1, <2>3, <2>4, <2>5, PoolPartKept DEF QuotingIInv, QuotePart
<1>5. CASE PricePush
  <2> DEFINE q == Request("push")
  <2>1. timer' = timer /\ fetches' = fetches \cup {q}
    BY <1>5 DEF PricePush
  <2>2. q.by = "push" /\ q.latest = FALSE
        /\ q = [for |-> q.for, by |-> q.by, latest |-> q.latest, aborted |-> q.aborted]
    BY DEF Request
  <2> HIDE DEF q
  <2>3. QuotingShape'
    BY <1>1, <2>1, <2>2 DEF FormKept, QuotingIInv, QuotingShape
  <2>4. LatestIsCurrent'
    BY <1>2, <2>1, <2>2 DEF QuotingIInv, QuotePart, LatestIsCurrent
  <2>5. LoadingMeansPending' /\ TimedQuoteIsCurrent'
    BY <1>1, <1>2, <2>1, <2>2 DEF QuotingIInv, QuotePart, LoadingMeansPending, TimedQuoteIsCurrent, Shown
  <2> QED BY <1>1, <2>3, <2>4, <2>5, PoolPartKept DEF QuotingIInv, QuotePart
<1> QED BY <1>3, <1>4, <1>5

(* An answer is taken from the latest request or from a push; only the former ends the loading. *)
LEMMA QuoteAnswersKeep ==
  ASSUME QuotingIInv, QuoteAnswers
  PROVE  QuotingIInv'
<1>0. PICK r \in fetches : \E q \in Results(r) :
        /\ fetches' = fetches \ {r} /\ quote' = IF Taken(r) THEN q ELSE quote
        /\ loading' = StillLoading(r, q) /\ UNCHANGED timer
  BY DEF QuoteAnswers
<1>1. PICK q \in Results(r) :
        /\ fetches' = fetches \ {r} /\ quote' = IF Taken(r) THEN q ELSE quote
        /\ loading' = StillLoading(r, q) /\ UNCHANGED timer
  BY <1>0
<1>2. FormKept
  BY DEF QuoteAnswers, FormKept
<1>3. Inputs(form, poolId)' = Inputs(form, poolId) /\ PairOf(form)' = PairOf(form)
  BY <1>2 DEF FormKept, Inputs, PairOf
<1>4. r.latest \in BOOLEAN /\ loading \in BOOLEAN /\ (r.latest => r.by = "timer")
  BY DEF QuotingIInv, QuotingShape, QuotePart, LatestIsCurrent
<1>5. q = NoQuote \/ (q.for = r.for /\ q.by = r.by)
  BY DEF Results
<1>6. QuotingShape' /\ LatestIsCurrent'
  <2>1. QuotingShape'
    BY <1>1, <1>2, <1>4 DEF FormKept, QuotingIInv, QuotingShape, StillLoading, Taken
  <2>2. LatestIsCurrent'
    BY <1>1, <1>3 DEF QuotingIInv, QuotePart, LatestIsCurrent
  <2> QED BY <2>1, <2>2
<1>7. CASE r.latest
  <2>1. loading' = FALSE /\ quote' = q /\ r.by = "timer" /\ ~timer
    BY <1>1, <1>4, <1>7 DEF StillLoading, Taken, QuotingIInv, QuotePart, LatestIsCurrent
  <2>2. \A s \in fetches' : ~s.latest
    BY <1>1, <1>7 DEF QuotingIInv, QuotingShape, QuotePart, LatestIsCurrent
  <2>3. Complete(Inputs(form, poolId)) => r.for = Inputs(form, poolId)
    BY <1>7 DEF QuotingIInv, QuotePart, LatestIsCurrent
  <2>4. TimedQuoteIsCurrent'
    BY <1>3, <1>5, <2>1, <2>3 DEF TimedQuoteIsCurrent, Shown
  <2>5. LoadingMeansPending'
    BY <1>1, <2>1, <2>2 DEF LoadingMeansPending
  <2> QED BY <1>2, <1>6, <2>4, <2>5, PoolPartKept DEF QuotingIInv, QuotePart
<1>8. CASE ~r.latest
  <2>1. (loading' <=> loading) /\ (quote' = quote \/ quote' = NoQuote \/ quote'.by = "push")
    BY <1>1, <1>4, <1>5, <1>8 DEF StillLoading, Taken
  <2>2. TimedQuoteIsCurrent'
    BY <1>3, <2>1 DEF QuotingIInv, QuotePart, TimedQuoteIsCurrent, Shown
  <2>3. LoadingMeansPending'
    BY <1>1, <1>3, <1>8, <2>1 DEF QuotingIInv, QuotePart, LoadingMeansPending
  <2> QED BY <1>2, <1>6, <2>2, <2>3, PoolPartKept DEF QuotingIInv, QuotePart
<1> QED BY <1>4, <1>7, <1>8

(* The form shows the quote, the spinner and the pool of what was entered, however the user's      *)
(* edits, the lookups, the price pushes and the answers interleave (SwapWidget.tsx,              *)
(* useTokens.ts, useSwapQuote.ts).                                                                *)
THEOREM QuotingSound == QuotingSpec => []QuotingInv
<1>1. QuotingInit => QuotingIInv
  <2>1. QuotingInit => QuotingShape /\ QuotePart
    BY DEF QuotingInit, QuotingShape, QuotePart, TimedQuoteIsCurrent, LoadingMeansPending, LatestIsCurrent, Shown,
       Complete, Inputs, BothSet
  <2>2. QuotingInit => PoolPart
    BY DEF QuotingInit, PoolPart, LookupIsOfPair, PoolIsOfPair
  <2> QED BY <2>1, <2>2 DEF QuotingIInv
<1>2. QuotingIInv /\ [QuotingNext]_quotingVars => QuotingIInv'
  <2>1. QuotingIInv /\ UNCHANGED quotingVars => QuotingIInv'
    BY DEF quotingVars, QuotingIInv, QuotingShape, QuotePart, PoolPart, TimedQuoteIsCurrent, LoadingMeansPending,
       LatestIsCurrent, Shown, LookupIsOfPair, PoolIsOfPair, Complete, Inputs, BothSet, PairOf
  <2>2. QuotingIInv /\ QuotingNext => QuotingIInv'
    BY EditsKeep, PoolAnswersKeep, RequestsKeep, QuoteAnswersKeep DEF QuotingNext, QuotingStep
  <2> QED BY <2>1, <2>2
<1> QED BY <1>1, <1>2, QuotingIImplies, PTL DEF QuotingSpec

-----------------------------------------------------------------------------
(* The wallet session.  A session that the user ended with nothing in flight has no call left     *)
(* that could bring it back, and nothing stored that a page load or a switch could restore.       *)
SessionIInv == SessionInv /\ (ended => calls = {})

LEMMA SwitchesKeep ==
  ASSUME SessionIInv, NEW net, SelectNetwork(net) \/ WalletSwitches(net)
  PROVE  SessionIInv'
<1>1. CASE WalletSwitches(net)
  BY <1>1 DEF WalletSwitches, SessionIInv, SessionInv, MismatchIsLate, EndedStaysEnded
<1>2. CASE SelectNetwork(net)
  <2>1. address' = NotConnected
    BY <1>2 DEF SelectNetwork, DropSession, Forget
  <2>2. ended => storedAddr' = NoAddress /\ calls' = {}
    BY <1>2 DEF SelectNetwork, DropSession, Forget, SessionIInv, SessionInv, EndedStaysEnded
  <2> QED BY <1>2, <2>1, <2>2 DEF SelectNetwork, SessionIInv, SessionInv, MismatchIsLate, EndedStaysEnded
<1> QED BY <1>1, <1>2

LEMMA ClicksOfSessionKeep ==
  ASSUME SessionIInv, Connect \/ Disconnect \/ Reloaded
  PROVE  SessionIInv'
<1>1. CASE Connect
  BY <1>1 DEF Connect, Click, SessionIInv, SessionInv, MismatchIsLate, EndedStaysEnded
<1>2. CASE Disconnect
  BY <1>2 DEF Disconnect, Click, Forget, SessionIInv, SessionInv, MismatchIsLate, EndedStaysEnded
<1>3. CASE Reloaded
  BY <1>3 DEF Reloaded, Load, SessionIInv, SessionInv, MismatchIsLate, EndedStaysEnded
<1> QED BY <1>1, <1>2, <1>3

(* An answer of the wallet needs a call in flight, so that the session was not ended. *)
LEMMA AnswersOfWalletKeep ==
  ASSUME SessionIInv, SessionStep
  PROVE  SessionIInv'
<1>1. PICK c \in calls : WalletGrants(c) \/ WalletRefuses(c) \/ Validated(c) \/ WalletThrows(c)
  BY DEF SessionStep
<1>2. ~ended /\ ~ended'
  BY <1>1 DEF SessionIInv, WalletGrants, WalletRefuses, Validated, WalletThrows, Outside
<1>3. MismatchIsLate'
  <2>1. CASE Validated(c) /\ walletNet = c.target
    <3>1. address'.for = c.target /\ late' = (c.target # network) /\ network' = network
      BY <2>1 DEF Validated, Outside
    <3> QED BY <3>1 DEF MismatchIsLate
  <2>2. CASE ~(Validated(c) /\ walletNet = c.target)
    <3>1. UNCHANGED <<address, late, network>>
      BY <1>1, <2>2 DEF WalletGrants, WalletRefuses, Validated, WalletThrows, Outside
    <3> QED BY <3>1 DEF SessionIInv, SessionInv, MismatchIsLate
  <2> QED BY <2>1, <2>2
<1> QED BY <1>2, <1>3 DEF SessionIInv, SessionInv, EndedStaysEnded

(* A session is for the selected network unless a wallet call outlived a switch, and over when the *)
(* user has ended it, over page loads, switches and refusals (useWallet.ts, NetworkContext.tsx).   *)
THEOREM SessionSound == SessionSpec => []SessionInv
<1>1. SessionInit => SessionIInv
  BY DEF SessionInit, SessionIInv, SessionInv, MismatchIsLate, EndedStaysEnded
<1>2. SessionIInv /\ [SessionNext]_sessionVars => SessionIInv'
  <2>1. SessionIInv /\ UNCHANGED sessionVars => SessionIInv'
    BY DEF sessionVars, SessionIInv, SessionInv, MismatchIsLate, EndedStaysEnded
  <2> QED BY <2>1, SwitchesKeep, ClicksOfSessionKeep, AnswersOfWalletKeep DEF SessionNext
<1>3. SessionIInv => SessionInv
  BY DEF SessionIInv
<1> QED BY <1>1, <1>2, <1>3, PTL DEF SessionSpec

-----------------------------------------------------------------------------
(* The price chart.  A socket that still talks, and a timer that will open one, belong to the     *)
(* present run of the effect, which was run with the pool that is watched; one that was closed    *)
(* belongs to an earlier run, so that its late onclose arms no timer.                             *)
Watchable == ChartPairs \cup {NoPool1}

FeedTypes ==
  /\ effect \in Nat
  /\ candleCalls \subseteq [pair : ChartPairs, interval : Intervals]
  /\ watched \in Watchable
  /\ sockets \subseteq [effect : Nat, pool : Watchable, state : {"connecting", "open", "closing"}]
  /\ retry \subseteq [effect : Nat, pool : Watchable]

OwnRun(x) == x.effect = effect /\ x.pool = watched

TalksToWatched ==
  /\ \A s \in sockets : IF s.state = "closing" THEN s.effect < effect ELSE OwnRun(s)
  /\ \A r \in retry : OwnRun(r)

FeedIInv == FeedTypes /\ TalksToWatched /\ EventsOfWatchedPool

(* A run of the effect leaves one socket that talks, its own. *)
LEMMA RerunKeeps ==
  ASSUME FeedIInv, NEW pool \in Watchable, Rerun(pool), watched' = pool
  PROVE  /\ effect' \in Nat /\ retry' = {}
         /\ sockets' \subseteq [effect : Nat, pool : Watchable, state : {"connecting", "open", "closing"}]
         /\ TalksToWatched'
<1> DEFINE own    == [effect |-> effect + 1, pool |-> pool, state |-> "connecting"]
           closed == {[s EXCEPT !.state = "closing"] : s \in sockets}
<1>1. effect' = effect + 1 /\ sockets' = closed \cup {own} /\ effect \in Nat
  BY DEF Rerun, connect, FeedIInv, FeedTypes
<1>2. \A s \in closed : /\ s \in [effect : Nat, pool : Watchable, state : {"connecting", "open", "closing"}]
                        /\ s.state = "closing" /\ s.effect < effect + 1
  BY <1>1 DEF FeedIInv, FeedTypes, TalksToWatched, OwnRun
<1>3. retry' = {}
  BY <1>1 DEF Rerun, Disposed, FeedIInv, FeedTypes, TalksToWatched, OwnRun
<1>4. \A s \in sockets' : IF s.state = "closing" THEN s.effect < effect' ELSE OwnRun(s)'
  <2> SUFFICES ASSUME NEW s \in sockets' PROVE IF s.state = "closing" THEN s.effect < effect' ELSE OwnRun(s)'
    OBVIOUS
  <2>1. CASE s \in closed
    BY <1>1, <1>2, <2>1
  <2>2. CASE s = own
    BY <1>1, <2>2 DEF OwnRun
  <2> QED BY <1>1, <2>1, <2>2
<1> QED BY <1>1, <1>2, <1>3, <1>4 DEF TalksToWatched

LEMMA PickKeeps ==
  ASSUME FeedIInv, NEW p \in [pair : ChartPairs, interval : Intervals], Pick(p)
  PROVE  FeedIInv'
<1>1. watched' = NoPool1 /\ NoPool1 \in Watchable /\ Rerun(NoPool1)
  BY DEF Pick, Watchable
<1>2. candleCalls' \subseteq [pair : ChartPairs, interval : Intervals]
  BY DEF Pick, FeedIInv, FeedTypes
<1> QED BY <1>1, <1>2, RerunKeeps DEF Pick, FeedIInv, FeedTypes, EventsOfWatchedPool

LEMMA CandlesAnswerKeeps ==
  ASSUME FeedIInv, CandlesAnswer
  PROVE  FeedIInv'
<1>1. PICK c \in candleCalls :
        \/ watched' = c.pair /\ Rewatch(c.pair) /\ applied' = IF c.pair = watched THEN applied ELSE {}
        \/ UNCHANGED <<watched, sockets, effect, retry, applied>>
        \/ watched' = NoPool1 /\ Rewatch(NoPool1) /\ applied' = {}
  BY DEF CandlesAnswer
<1>2. candleCalls' \subseteq [pair : ChartPairs, interval : Intervals] /\ c.pair \in Watchable /\ NoPool1 \in Watchable
  BY DEF CandlesAnswer, FeedIInv, FeedTypes, Watchable
<1>3. ASSUME UNCHANGED <<watched, sockets, effect, retry>>, applied' \subseteq applied
      PROVE  FeedIInv'
  BY <1>2, <1>3 DEF FeedIInv, FeedTypes, TalksToWatched, OwnRun, EventsOfWatchedPool
<1>4. ASSUME NEW pool \in Watchable, watched' = pool, Rerun(pool), applied' = {}
      PROVE  FeedIInv'
  BY <1>2, <1>4, RerunKeeps DEF FeedIInv, FeedTypes, EventsOfWatchedPool
<1>5. CASE watched' = c.pair /\ Rewatch(c.pair) /\ applied' = IF c.pair = watched THEN applied ELSE {}
  BY <1>2, <1>3, <1>4, <1>5 DEF Rewatch
<1>6. CASE UNCHANGED <<watched, sockets, effect, retry, applied>>
  BY <1>3, <1>6
<1>7. CASE watched' = NoPool1 /\ Rewatch(NoPool1) /\ applied' = {}
  BY <1>2, <1>3, <1>4, <1>7 DEF Rewatch
<1> QED BY <1>1, <1>5, <1>6, <1>7

(* The life of a socket within its run. *)
LEMMA SocketKeeps ==
  ASSUME FeedIInv, Opens \/ Drops \/ Closes \/ RetryFires \/ PriceEvent
  PROVE  FeedIInv'
<1>1. CASE Opens
  BY <1>1 DEF Opens, FeedIInv, FeedTypes, TalksToWatched, OwnRun, EventsOfWatchedPool
<1>2. CASE Drops
  BY <1>2 DEF Drops, Again, FeedIInv, FeedTypes, TalksToWatched, OwnRun, EventsOfWatchedPool
<1>3. CASE Closes
  BY <1>3 DEF Closes, Again, Disposed, FeedIInv, FeedTypes, TalksToWatched, OwnRun, EventsOfWatchedPool
<1>4. CASE RetryFires
  BY <1>4 DEF RetryFires, connect, FeedIInv, FeedTypes, TalksToWatched, OwnRun, EventsOfWatchedPool
<1>5. CASE PriceEvent
  BY <1>5 DEF PriceEvent, FeedIInv, FeedTypes, TalksToWatched, OwnRun, EventsOfWatchedPool
<1> QED BY <1>1, <1>2, <1>3, <1>4, <1>5

(* The prices that go into the chart are those of the pool it shows, over any number of picks,    *)
(* late answers and lost connections (usePriceCandles.ts).                                        *)
THEOREM ChartSound == FeedSpec => []EventsOfWatchedPool
<1>1. FeedInit => FeedIInv
  BY DEF FeedInit, FeedIInv, FeedTypes, TalksToWatched, EventsOfWatchedPool, Watchable
<1>2. FeedIInv /\ [FeedNext]_feedVars => FeedIInv'
  <2>1. FeedIInv /\ UNCHANGED feedVars => FeedIInv'
    BY DEF feedVars, FeedIInv, FeedTypes, TalksToWatched, OwnRun, EventsOfWatchedPool
  <2>2. FeedIInv /\ FeedNext => FeedIInv'
    BY PickKeeps, CandlesAnswerKeeps, SocketKeeps DEF FeedNext, FeedStep
  <2> QED BY <2>1, <2>2
<1>3. FeedIInv => EventsOfWatchedPool
  BY DEF FeedIInv
<1> QED BY <1>1, <1>2, <1>3, PTL DEF FeedSpec

-----------------------------------------------------------------------------
(* The history table.  A page of the cache that its own total reaches has rows, and every render  *)
(* lands on a page that the total of what is shown reaches.                                      *)
PoolFilters == HistoryPools \cup {AllPools}
Feed == {s \in Seq(HistoryPools) : Len(s) <= MaxRows}
PageData == [status : {"pending", "success", "error"}, total : 0..MaxRows, items : Seq(HistoryPools)]
Within(p, total) == total = 0 \/ p <= TotalPages(total)

ReachedHasRows(c) ==
  \A k \in Keys : c[k].status = "success" /\ c[k].total > 0 /\ Within(k[2], c[k].total) => c[k].items # <<>>

HistoryTypes ==
  /\ tab \in Tabs /\ page \in 1..MaxPage /\ poolFilter \in PoolFilters
  /\ rows \in [Tabs -> Feed] /\ cache \in [Keys -> PageData]

HistoryIInv ==
  /\ HistoryTypes /\ ReachedHasRows(cache)
  /\ Within(page, cache[KeyOf(tab, page, poolFilter)].total)
  /\ FilterStaysOffered

LEMMA PagesNeeded ==
  ASSUME NEW total \in 1..MaxRows
  PROVE  /\ TotalPages(total) \in 1..MaxPage
         /\ \A p \in 1..TotalPages(total) : (p - 1) * PageSize + 1 <= total
<1>1. PICK s \in Nat \ {0}, m \in Nat : s = PageSize /\ m = MaxRows
  BY PageAssumption
<1>2. total \in Nat /\ 1 <= total /\ total <= m
  BY <1>1
<1>3. PICK x \in Nat : x = total + s - 1 /\ x >= s
  BY <1>1, <1>2
<1>4. PICK n \in Int : n = x \div s
  BY <1>1, <1>3
<1>5. \A k \in Int : k * s <= x <=> k <= n
  BY <1>4, FitsIn
<1>6. 1 <= n
  BY <1>1, <1>3, <1>5
<1>7. PICK l \in Int : l = m \div s
  BY <1>1
<1>8. \A k \in Int : (k - 1) * s = k * s - s
  BY <1>1
<1>9. n - 1 <= l
  <2>1. PICK y \in Int : y = n * s /\ y <= x
    BY <1>5
  <2>2. (n - 1) * s <= m
    BY <1>2, <1>3, <1>8, <2>1
  <2> QED BY <1>7, <2>2, FitsIn
<1>10. \A p \in 1..n : (p - 1) * s + 1 <= total
  <2> SUFFICES ASSUME NEW p \in 1..n PROVE (p - 1) * s + 1 <= total
    OBVIOUS
  <2>1. PICK y \in Int : y = p * s /\ y <= x
    BY <1>5
  <2> QED BY <1>2, <1>3, <1>8, <2>1
<1> QED BY <1>1, <1>3, <1>4, <1>6, <1>7, <1>9, <1>10 DEF TotalPages, MaxPage

LEMMA SomeRows ==
  ASSUME NEW total \in 0..MaxRows
  PROVE  total \in Nat /\ (total = 0 \/ (total \in 1..MaxRows /\ total > 0))
<1>1. PICK m \in Nat : m = MaxRows
  BY PageAssumption
<1> QED BY <1>1

LEMMA PagesThere == MaxPage \in Nat /\ 1 <= MaxPage
<1>1. PICK s \in Nat \ {0}, m \in Nat : s = PageSize /\ m = MaxRows
  BY PageAssumption
<1>2. PICK l \in Int : l = m \div s
  BY <1>1
<1>3. 0 * s <= m
  BY <1>1
<1>4. 0 <= l
  BY <1>2, <1>3, FitsIn
<1> QED BY <1>1, <1>2, <1>4 DEF MaxPage

(* What is shown for a key. *)
LEMMA KeysOf ==
  ASSUME NEW t \in Tabs, NEW p \in 1..MaxPage, NEW filter \in PoolFilters
  PROVE  KeyOf(t, p, filter) \in Keys /\ KeyOf(t, p, filter)[2] = p
BY DEF KeyOf, Keys, PoolFilters

-----------------------------------------------------------------------------
(* The function SnapBack computes exists, since it only asks smaller pages, and where it lands. *)
Snaps(f, n, over, to) == f = [q \in 1..n |-> IF over[q] THEN f[to[q]] ELSE q]

LEMMA SnapsExist ==
  ASSUME NEW n \in Nat, NEW over, NEW to, \A q \in 1..n : over[q] => to[q] \in 1..(q - 1)
  PROVE  \E f : Snaps(f, n, over, to)
<1> DEFINE Bad == {k \in 0..n : ~ \E f : Snaps(f, k, over, to)}
<1>1. CASE Bad # {}
  <2>1. PICK k \in Bad : \A j \in Bad : k <= j
    <3>1. Bad \subseteq Nat
      OBVIOUS
    <3> HIDE DEF Bad
    <3> QED BY <1>1, <3>1, LeastNatural
  <2>2. CASE k = 0
    <3>1. Snaps([q \in 1..0 |-> q], 0, over, to)
      BY DEF Snaps
    <3> QED BY <2>1, <2>2, <3>1
  <2>3. CASE k # 0
    <3>1. k - 1 \in 0..n /\ k - 1 \notin Bad /\ (k - 1) + 1 = k
      BY <2>1, <2>3
    <3>2. PICK g : Snaps(g, k - 1, over, to)
      BY <3>1
    <3> DEFINE h == [q \in 1..k |-> IF over[q] THEN g[to[q]] ELSE q]
    <3>3. \A q \in 1..(k - 1) : h[q] = g[q]
      <4> SUFFICES ASSUME NEW q \in 1..(k - 1) PROVE h[q] = g[q]
        OBVIOUS
      <4>1. q \in 1..k
        BY <3>1
      <4>2. g[q] = IF over[q] THEN g[to[q]] ELSE q
        BY <3>2 DEF Snaps
      <4> QED BY <4>1, <4>2
    <3>4. \A q \in 1..k : over[q] => to[q] \in 1..(k - 1)
      <4> SUFFICES ASSUME NEW q \in 1..k, over[q] PROVE to[q] \in 1..(k - 1)
        OBVIOUS
      <4>1. q \in 1..n /\ to[q] \in 1..(q - 1)
        BY <3>1
      <4> QED BY <3>1, <4>1
    <3>5. \A q \in 1..k : (IF over[q] THEN g[to[q]] ELSE q) = (IF over[q] THEN h[to[q]] ELSE q)
      BY <3>3, <3>4
    <3>6. h = [q \in 1..k |-> IF over[q] THEN g[to[q]] ELSE q]
      OBVIOUS
    <3> HIDE DEF h
    <3>7. Snaps(h, k, over, to)
      BY <3>5, <3>6 DEF Snaps
    <3> QED BY <2>1, <3>7
  <2> QED BY <2>2, <2>3
<1>2. CASE Bad = {}
  <2>1. n \in 0..n
    OBVIOUS
  <2> QED BY <1>2, <2>1
<1> QED BY <1>1, <1>2

LEMMA SnapsLand ==
  ASSUME NEW n \in Nat, NEW over, NEW to, \A q \in 1..n : over[q] => to[q] \in 1..(q - 1),
         NEW f, Snaps(f, n, over, to)
  PROVE  \A q \in 1..n : f[q] \in 1..n /\ ~over[f[q]]
<1> DEFINE Bad == {q \in 1..n : ~(f[q] \in 1..n /\ ~over[f[q]])}
<1>1. ASSUME Bad # {} PROVE FALSE
  <2>1. PICK k \in Bad : \A j \in Bad : k <= j
    <3>1. Bad \subseteq Nat
      OBVIOUS
    <3> HIDE DEF Bad
    <3> QED BY <1>1, <3>1, LeastNatural
  <2>2. f[k] = IF over[k] THEN f[to[k]] ELSE k
    BY DEF Snaps
  <2>3. over[k]
    BY <2>1, <2>2
  <2>4. to[k] \in 1..(k - 1) /\ to[k] \in 1..n /\ to[k] \notin Bad
    BY <2>1, <2>3
  <2> QED BY <2>1, <2>2, <2>3, <2>4
<1> QED BY <1>1

LEMMA SnapLands ==
  ASSUME NEW c \in [Keys -> PageData], NEW t \in Tabs, NEW p \in 1..MaxPage, NEW filter \in PoolFilters,
         NEW landed, landed = SnapBack(c, t, p, filter)
  PROVE  landed \in 1..MaxPage /\ Within(landed, c[KeyOf(t, landed, filter)].total)
<1>1. PICK n \in Nat : n = MaxPage
  BY PagesThere
<1>2. PICK tot : tot = [q \in 1..n |-> c[KeyOf(t, q, filter)].total]
  OBVIOUS
<1>3. \A q \in 1..n : tot[q] \in 0..MaxRows
  <2> SUFFICES ASSUME NEW q \in 1..n PROVE tot[q] \in 0..MaxRows
    OBVIOUS
  <2>1. KeyOf(t, q, filter) \in Keys
    BY <1>1, KeysOf
  <2>2. c[KeyOf(t, q, filter)] \in PageData
    BY <2>1
  <2> QED BY <1>2, <2>2 DEF PageData
<1>4. PICK over : over = [q \in 1..n |-> tot[q] > 0 /\ q > TotalPages(tot[q])]
  OBVIOUS
<1>5. PICK to : to = [q \in 1..n |-> TotalPages(tot[q])]
  OBVIOUS
<1>6. \A q \in 1..n : over[q] => to[q] \in 1..(q - 1)
  <2> SUFFICES ASSUME NEW q \in 1..n, over[q] PROVE to[q] \in 1..(q - 1)
    OBVIOUS
  <2>0. tot[q] > 0 /\ q > TotalPages(tot[q])
    BY <1>4
  <2>1. tot[q] \in 1..MaxRows
    BY <1>3, <2>0, SomeRows
  <2>2. TotalPages(tot[q]) \in 1..n
    BY <1>1, <2>1, PagesNeeded
  <2> QED BY <1>1, <1>5, <2>0, <2>2
<1>7. \A f : Snaps(f, n, over, to)
          <=> f = [q \in 1..MaxPage |->
                    IF c[KeyOf(t, q, filter)].total > 0 /\ q > TotalPages(c[KeyOf(t, q, filter)].total)
                    THEN f[TotalPages(c[KeyOf(t, q, filter)].total)] ELSE q]
  <2> SUFFICES ASSUME NEW f
               PROVE  Snaps(f, n, over, to)
                        <=> f = [q \in 1..MaxPage |->
                    IF c[KeyOf(t, q, filter)].total > 0 /\ q > TotalPages(c[KeyOf(t, q, filter)].total)
                    THEN f[TotalPages(c[KeyOf(t, q, filter)].total)] ELSE q]
    OBVIOUS
  <2>1. \A q \in 1..n : tot[q] = c[KeyOf(t, q, filter)].total
    BY <1>2
  <2>2. \A q \in 1..n : (IF over[q] THEN f[to[q]] ELSE q)
          = IF c[KeyOf(t, q, filter)].total > 0 /\ q > TotalPages(c[KeyOf(t, q, filter)].total)
                    THEN f[TotalPages(c[KeyOf(t, q, filter)].total)] ELSE q
    BY <1>4, <1>5, <2>1
  <2> QED BY <1>1, <2>2 DEF Snaps
<1>8. PICK g : Snaps(g, n, over, to) /\ landed = g[p]
  <2>1. \E f : Snaps(f, n, over, to)
    BY <1>6, SnapsExist
  <2>2. landed = (CHOOSE f : f = [q \in 1..MaxPage |->
                    IF c[KeyOf(t, q, filter)].total > 0 /\ q > TotalPages(c[KeyOf(t, q, filter)].total)
                    THEN f[TotalPages(c[KeyOf(t, q, filter)].total)] ELSE q])[p]
    BY DEF SnapBack
  <2> QED BY <1>7, <2>1, <2>2
<1>9. landed \in 1..n /\ ~over[landed]
  BY <1>1, <1>6, <1>8, SnapsLand
<1>10. tot[landed] \in 0..MaxRows
  BY <1>3, <1>9
<1>12. tot[landed] = c[KeyOf(t, landed, filter)].total
  BY <1>2, <1>9
<1>11. CASE tot[landed] = 0
  BY <1>1, <1>9, <1>11, <1>12 DEF Within
<1>13. CASE tot[landed] # 0
  <2>1. tot[landed] \in 1..MaxRows /\ tot[landed] > 0
    BY <1>10, <1>13, SomeRows
  <2>2. TotalPages(tot[landed]) \in 1..n
    BY <1>1, <2>1, PagesNeeded
  <2>3. ~(landed > TotalPages(tot[landed]))
    BY <1>4, <1>9, <2>1
  <2>4. landed <= TotalPages(tot[landed])
    BY <1>9, <2>2, <2>3
  <2> QED BY <1>1, <1>9, <1>12, <2>4 DEF Within
<1> QED BY <1>11, <1>13

-----------------------------------------------------------------------------
(* What the API answers. *)
LEMMA MatchingFits ==
  ASSUME NEW feed \in Feed, NEW filter \in PoolFilters
  PROVE  Matching(feed, filter) \in Feed
<1>1. PICK m \in Nat : m = MaxRows
  BY PageAssumption
<1>2. feed \in Seq(HistoryPools) /\ Len(feed) \in Nat /\ Len(feed) <= m
  BY <1>1 DEF Feed
<1>3. CASE filter = AllPools
  BY <1>3 DEF Matching
<1>4. CASE filter # AllPools
  <2>1. filter \in HistoryPools
    BY <1>4 DEF PoolFilters
  <2>2. PICK l \in Nat : l = Len(feed) /\ DOMAIN feed = 1..l
    BY <1>2
  <2>3. IsFiniteSet(1..l) /\ Cardinality(1..l) = l
    <3>1. 1 \in Int /\ l \in Int
      OBVIOUS
    <3>2. IsFiniteSet(1..l) /\ Cardinality(1..l) = IF 1 > l THEN 0 ELSE l - 1 + 1
      BY <3>1, FS_Interval
    <3> QED BY <3>2
  <2>4. PICK S : S = {j \in DOMAIN feed : feed[j] = filter}
    OBVIOUS
  <2>5. Cardinality(S) \in Nat /\ Cardinality(S) <= l
    <3>1. S \subseteq 1..l
      BY <2>2, <2>4
    <3>2. IsFiniteSet(S) /\ Cardinality(S) <= Cardinality(1..l)
      BY <2>3, <3>1, FS_Subset
    <3> QED BY <2>3, <3>2, FS_CardinalityType
  <2>6. PICK n \in Nat : n = Cardinality(S) /\ n <= m
    BY <1>1, <1>2, <2>2, <2>5
  <2>7. PICK s : s = [i \in 1..n |-> filter]
    OBVIOUS
  <2>8. s \in Seq(HistoryPools) /\ Len(s) = n
    BY <2>1, <2>7
  <2>9. s = Matching(feed, filter)
    BY <1>4, <2>4, <2>6, <2>7 DEF Matching
  <2> QED BY <1>1, <2>6, <2>8, <2>9 DEF Feed
<1> QED BY <1>3, <1>4

LEMMA RangeOfRows ==
  ASSUME NEW S, NEW s \in Seq(S), NEW a \in Nat \ {0}, NEW b \in Nat, b <= Len(s)
  PROVE  SubSeq(s, a, b) \in Seq(S) /\ (a <= b => SubSeq(s, a, b) # <<>>)
<1>1. CASE a <= b
  <2>1. a \in 1..(Len(s) + 1) /\ b \in (a - 1)..Len(s)
    BY <1>1
  <2>2. SubSeq(s, a, b) \in Seq(S) /\ Len(SubSeq(s, a, b)) = b - a + 1
    BY <1>1, <2>1, SubSeqProperties
  <2> QED BY <1>1, <2>2
<1>2. CASE b < a
  <2>1. SubSeq(s, a, b) = << >>
    BY <1>2
  <2>2. << >> \in Seq(S)
    OBVIOUS
  <2> QED BY <1>2, <2>1, <2>2
<1> QED BY <1>1, <1>2

LEMMA AnswerFits ==
  ASSUME NEW k \in Keys, rows \in [Tabs -> Feed]
  PROVE  /\ Answer(k) \in PageData
         /\ Answer(k).total > 0 /\ Within(k[2], Answer(k).total) => Answer(k).items # <<>>
<1>1. k[1] \in Tabs /\ k[2] \in 1..MaxPage /\ k[3] \in PoolFilters
  BY DEF Keys, PoolFilters
<1>2. PICK match \in Seq(HistoryPools) : match = Matching(rows[k[1]], k[3]) /\ Len(match) <= MaxRows
  BY <1>1, MatchingFits DEF Feed
<1>3. PICK s \in Nat \ {0} : s = PageSize
  BY PageAssumption
<1>4. PICK l \in Nat : l = Len(match) /\ l \in 0..MaxRows
  <2>1. PICK m \in Nat : m = MaxRows
    BY PageAssumption
  <2> QED BY <1>2, <2>1
<1>5. PICK p \in Nat : p = k[2] /\ 1 <= p
  BY <1>1, PagesThere
<1>6. PICK a \in Nat \ {0}, e \in Nat : a = (p - 1) * s + 1 /\ e = p * s /\ a <= e
  <2>1. (p - 1) * s = p * s - s /\ p * s \in Nat /\ (p - 1) * s \in Nat
    BY <1>5
  <2> QED BY <2>1
<1>7. PICK b \in Nat : b = (IF e < l THEN e ELSE l) /\ b <= l
  OBVIOUS
<1>8. PICK items \in Seq(HistoryPools) : items = SubSeq(match, a, b) /\ (a <= b => items # <<>>)
  BY <1>4, <1>7, RangeOfRows
<1>9. Answer(k) = [status |-> "success", total |-> l, items |-> items]
  BY <1>2, <1>3, <1>4, <1>5, <1>6, <1>7, <1>8 DEF Answer
<1>10. Answer(k) \in PageData
  BY <1>4, <1>8, <1>9 DEF PageData
<1>11. ASSUME l > 0, Within(p, l) PROVE items # <<>>
  <2>1. l \in 1..MaxRows
    BY <1>4, <1>11, SomeRows
  <2>2. PICK n \in Nat : n = TotalPages(l)
    BY <2>1, PagesNeeded, PagesThere
  <2>3. p \in 1..TotalPages(l)
    BY <1>5, <1>11, <2>2 DEF Within
  <2>4. a <= l
    BY <1>3, <1>6, <2>1, <2>3, PagesNeeded
  <2> QED BY <1>6, <1>7, <1>8, <2>4
<1> QED BY <1>5, <1>9, <1>10, <1>11

-----------------------------------------------------------------------------
LEMMA HistoryIImplies == HistoryIInv => HistoryInv
<1> SUFFICES ASSUME HistoryIInv PROVE NoDeadPage
  BY DEF HistoryIInv, HistoryInv
<1>1. PICK k \in Keys : k = KeyOf(tab, page, poolFilter) /\ k[2] = page
  BY KeysOf DEF HistoryIInv, HistoryTypes
<1>2. Within(k[2], cache[k].total)
  BY <1>1 DEF HistoryIInv
<1> QED BY <1>1, <1>2 DEF HistoryIInv, ReachedHasRows, NoDeadPage

LEMMA HistoryStarts == HistoryInit => HistoryIInv
<1> SUFFICES ASSUME HistoryInit PROVE HistoryIInv
  OBVIOUS
<1>1. tab \in Tabs /\ page \in 1..MaxPage /\ poolFilter \in PoolFilters
  BY PagesThere DEF HistoryInit, Tabs, PoolFilters
<1>2. PICK m \in Nat : m = MaxRows
  BY PageAssumption
<1>3. << >> \in Seq(HistoryPools) /\ Len(<< >>) = 0
  OBVIOUS
<1>4. << >> \in Feed
  BY <1>2, <1>3 DEF Feed
<1>5. NotAsked \in PageData /\ NotAsked.status = "pending" /\ NotAsked.total = 0
  BY <1>2, <1>3 DEF NotAsked, PageData
<1>6. rows \in [Tabs -> Feed]
  BY <1>4 DEF HistoryInit
<1>7. cache = [k \in Keys |-> NotAsked]
  BY DEF HistoryInit
<1>8. cache \in [Keys -> PageData]
  BY <1>5, <1>7
<1>9. ReachedHasRows(cache)
  BY <1>5, <1>7 DEF ReachedHasRows
<1>10. Within(page, cache[KeyOf(tab, page, poolFilter)].total)
  BY <1>1, <1>5, <1>7, KeysOf DEF Within
<1>11. FilterStaysOffered
  BY DEF HistoryInit, FilterStaysOffered
<1> QED BY <1>1, <1>6, <1>8, <1>9, <1>10, <1>11 DEF HistoryIInv, HistoryTypes

(* Whatever is rendered from a sound cache is sound. *)
LEMMA RendersSoundly ==
  ASSUME NEW c \in [Keys -> PageData], ReachedHasRows(c), NEW t \in Tabs, NEW p \in 1..MaxPage, NEW filter \in PoolFilters,
         filter # AllPools => filter \in poolOptions,
         Render(c, t, p, filter), rows' \in [Tabs -> Feed]
  PROVE  HistoryIInv'
<1>1. PICK landed : landed = SnapBack(c, t, p, filter)
  OBVIOUS
<1>2. landed \in 1..MaxPage /\ Within(landed, c[KeyOf(t, landed, filter)].total)
  BY <1>1, SnapLands
<1>3. cache' = c /\ tab' = t /\ page' = landed /\ poolFilter' = filter /\ poolOptions' = OptionsAfter(c, landed, filter)
  BY <1>1 DEF Render
<1>4. HistoryTypes'
  BY <1>2, <1>3 DEF HistoryTypes
<1>6. ReachedHasRows(cache)'
  BY <1>3 DEF ReachedHasRows, Within, TotalPages
<1>7. (Within(page, cache[KeyOf(tab, page, poolFilter)].total))'
  BY <1>2, <1>3 DEF Within, KeyOf, TotalPages
<1>8. FilterStaysOffered'
  <2>1. filter # AllPools => poolOptions' = poolOptions
    BY <1>3 DEF OptionsAfter, UnfilteredSource
  <2> QED BY <1>3, <2>1 DEF FilterStaysOffered
<1> QED BY <1>4, <1>6, <1>7, <1>8 DEF HistoryIInv

LEMMA NoPagesOfNothing == TotalPages(0) < 1 /\ TotalPages(0) \in Int
<1>1. PICK s \in Nat \ {0} : s = PageSize
  BY PageAssumption
<1>2. PICK n \in Int : n = (0 + s - 1) \div s
  BY <1>1
<1>3. ~(1 * s <= 0 + s - 1)
  BY <1>1
<1>4. ~(1 <= n)
  BY <1>2, <1>3, FitsIn
<1> QED BY <1>1, <1>2, <1>4 DEF TotalPages

LEMMA HistorySteps == HistoryIInv /\ [HistoryNext]_historyVars => HistoryIInv'
<1> SUFFICES ASSUME HistoryIInv, [HistoryNext]_historyVars PROVE HistoryIInv'
  OBVIOUS
<1>1. /\ tab \in Tabs /\ page \in 1..MaxPage /\ poolFilter \in PoolFilters
      /\ rows \in [Tabs -> Feed] /\ cache \in [Keys -> PageData] /\ ReachedHasRows(cache)
  BY DEF HistoryIInv, HistoryTypes
<1>2. poolFilter # AllPools => poolFilter \in poolOptions
  BY DEF HistoryIInv, FilterStaysOffered
<1>3. PICK last \in Nat : last = MaxPage /\ 1 <= last
  BY PagesThere
<1>4. ASSUME NEW p \in 1..MaxPage, NEW t \in Tabs, NEW filter \in PoolFilters,
             filter # AllPools => filter \in poolOptions, Render(cache, t, p, filter), Stays
      PROVE  HistoryIInv'
  BY <1>1, <1>4, RendersSoundly DEF Stays
<1>5. ASSUME NEW t \in Tabs, ClickTab(t) PROVE HistoryIInv'
  BY <1>1, <1>2, <1>3, <1>4, <1>5 DEF ClickTab
<1>6. ASSUME NEW p \in HistoryPools \cup {AllPools}, PickFilter(p) PROVE HistoryIInv'
  BY <1>1, <1>3, <1>4, <1>6 DEF PickFilter, PoolFilters
<1>7. ASSUME ClearFilter PROVE HistoryIInv'
  BY <1>1, <1>4, <1>7 DEF ClearFilter, PoolFilters
<1>8. ASSUME PreviousPage PROVE HistoryIInv'
  <2>1. page - 1 \in 1..MaxPage
    BY <1>1, <1>3, <1>8 DEF PreviousPage
  <2> QED BY <1>1, <1>2, <1>4, <1>8, <2>1 DEF PreviousPage
<1>9. ASSUME NextPage PROVE HistoryIInv'
  <2>1. KeyOf(tab, page, poolFilter) \in Keys
    BY <1>1, KeysOf
  <2>2. PICK total \in 0..MaxRows : total = ActiveTotal
    BY <1>1, <2>1 DEF PageData, ActiveTotal
  <2>3. TotalPages(total) > 1 /\ page < TotalPages(total)
    BY <1>9, <2>2 DEF NextPage, Paging
  <2>4. total # 0
    BY <2>3, NoPagesOfNothing
  <2>5. TotalPages(total) \in 1..MaxPage
    BY <2>4, SomeRows, PagesNeeded
  <2>6. page + 1 \in 1..MaxPage
    BY <1>1, <1>3, <2>3, <2>5
  <2> QED BY <1>1, <1>2, <1>4, <1>9, <2>6 DEF NextPage
<1>10. ASSUME BackToFirst PROVE HistoryIInv'
  BY <1>1, <1>2, <1>3, <1>4, <1>10 DEF BackToFirst
<1>11. ASSUME NEW t \in Tabs, FetchFeed(t) PROVE HistoryIInv'
  <2>1. PICK k \in Keys : k = KeyOf(t, page, poolFilter)
    BY <1>1, KeysOf
  <2>2. PICK answer \in PageData :
          /\ answer.status = "success" /\ answer.total > 0 /\ Within(k[2], answer.total) => answer.items # <<>>
          /\ Render([cache EXCEPT ![k] = answer], tab, page, poolFilter)
    <3>1. CASE Render([cache EXCEPT ![k] = Answer(k)], tab, page, poolFilter)
      BY <1>1, <3>1, AnswerFits
    <3>2. CASE Render([cache EXCEPT ![k] = Failed], tab, page, poolFilter)
      <4>1. PICK m \in Nat : m = MaxRows
        BY PageAssumption
      <4>2. << >> \in Seq(HistoryPools)
        OBVIOUS
      <4>3. Failed \in PageData /\ Failed.status # "success"
        BY <4>1, <4>2 DEF Failed, PageData
      <4> QED BY <3>2, <4>3
    <3> QED BY <1>11, <2>1, <3>1, <3>2 DEF FetchFeed
  <2>3. PICK c \in [Keys -> PageData] : c = [cache EXCEPT ![k] = answer]
    BY <1>1, <2>2
  <2>4. ReachedHasRows(c)
    <3> SUFFICES ASSUME NEW q \in Keys, c[q].status = "success", c[q].total > 0, Within(q[2], c[q].total)
                 PROVE  c[q].items # <<>>
      BY DEF ReachedHasRows
    <3>1. CASE q = k
      BY <1>1, <2>2, <2>3, <3>1
    <3>2. CASE q # k
      <4>1. c[q] = cache[q]
        BY <1>1, <2>3, <3>2
      <4> QED BY <1>1, <4>1 DEF ReachedHasRows
    <3> QED BY <3>1, <3>2
  <2>5. rows' \in [Tabs -> Feed]
    BY <1>1, <1>11 DEF FetchFeed, Stays
  <2> QED BY <1>1, <1>2, <2>2, <2>3, <2>4, <2>5, RendersSoundly
<1>12. ASSUME UNCHANGED <<tab, page, poolFilter, poolOptions, cache>>, rows' \in [Tabs -> Feed] PROVE HistoryIInv'
  <2>1. HistoryTypes'
    BY <1>1, <1>12 DEF HistoryTypes
  <2>2. ReachedHasRows(cache)'
    BY <1>1, <1>12 DEF ReachedHasRows, Within, TotalPages
  <2>3. (Within(page, cache[KeyOf(tab, page, poolFilter)].total))'
    BY <1>12 DEF HistoryIInv, Within, KeyOf, TotalPages
  <2>4. FilterStaysOffered'
    BY <1>2, <1>12 DEF FilterStaysOffered
  <2> QED BY <2>1, <2>2, <2>3, <2>4 DEF HistoryIInv
<1>13. ASSUME NEW t \in Tabs, RowsChange(t) PROVE HistoryIInv'
  <2>1. rows[t] \in Seq(HistoryPools) /\ Len(rows[t]) \in Nat /\ Len(rows[t]) <= MaxRows
    BY <1>1 DEF Feed
  <2>2. PICK m \in Nat : m = MaxRows
    BY PageAssumption
  <2>3. PICK feed \in Feed : rows' = [rows EXCEPT ![t] = feed]
    <3>1. ASSUME NEW p \in HistoryPools, Len(rows[t]) < MaxRows, rows' = [rows EXCEPT ![t] = <<p>> \o @]
          PROVE  \E feed \in Feed : rows' = [rows EXCEPT ![t] = feed]
      <4>1. <<p>> \in Seq(HistoryPools) /\ Len(<<p>>) = 1
        OBVIOUS
      <4>2. PICK s : s = <<p>> \o rows[t]
        OBVIOUS
      <4>3. s \in Seq(HistoryPools) /\ Len(s) = 1 + Len(rows[t])
        BY <2>1, <4>1, <4>2, ConcatProperties
      <4>4. Len(s) <= m
        BY <2>1, <2>2, <3>1, <4>3
      <4> QED BY <2>2, <3>1, <4>2, <4>3, <4>4 DEF Feed
    <3>2. ASSUME rows[t] # <<>>, rows' = [rows EXCEPT ![t] = Tail(@)]
          PROVE  \E feed \in Feed : rows' = [rows EXCEPT ![t] = feed]
      <4>1. PICK s : s = Tail(rows[t])
        OBVIOUS
      <4>2. s \in Seq(HistoryPools) /\ Len(s) = Len(rows[t]) - 1
        BY <2>1, <3>2, <4>1, HeadTailProperties
      <4>3. Len(s) <= m
        BY <2>1, <2>2, <4>2
      <4> QED BY <2>2, <3>2, <4>1, <4>2, <4>3 DEF Feed
    <3> QED BY <1>13, <3>1, <3>2 DEF RowsChange
  <2>4. rows' \in [Tabs -> Feed]
    BY <1>1, <2>3
  <2> QED BY <1>12, <1>13, <2>4 DEF RowsChange
<1>14. CASE UNCHANGED historyVars
  BY <1>1, <1>12, <1>14 DEF historyVars
<1> QED BY <1>5, <1>6, <1>7, <1>8, <1>9, <1>10, <1>11, <1>13, <1>14 DEF HistoryNext, HistoryFetch

-----------------------------------------------------------------------------
(* The webhooks of a wallet.  A list the effect asked for and that is heeded is about the token;   *)
(* unless something went wrong the rows are those of the API, or whatever made them old is under  *)
(* way, or a list that will tell is; and while nothing unlocked the form, what is being           *)
(* registered is what was filled in last, and it is registered by nothing else.                   *)
HookKinds == {"first", "again", "create", "delete"}
HookSteps == {"sent", "ok", "refused", "lost"}
HookRows == [id : Nat, owner : HookOwners, fill : Nat]
HookCalls == [nth : Nat, kind : HookKinds, by : HookOwners, hook : Int, fill : Nat,
              step : HookSteps, got : SUBSET HookRows, heeded : BOOLEAN]
Consoles == [token : Tokens, items : SUBSET HookRows, of : Tokens, loading : BOOLEAN, error : BOOLEAN,
             open : BOOLEAN, filled : BOOLEAN, fill : Nat]

ConsoleTypes ==
  /\ console \in Consoles /\ hooks \subseteq HookRows /\ hookCalls \subseteq HookCalls /\ hookCount \in Nat

FirstIsOfToken == \A c \in hookCalls : c.kind = "first" /\ c.heeded => c.by = console.token

(* A registration or a deletion that the API may have done. *)
MayHaveChanged(c) == ~IsList(c) /\ c.step \in {"ok", "lost"}

(* A list that is to be shown, and is not about to show old rows. *)
WillTell(c) ==
  /\ IsList(c) /\ c.heeded /\ c.by = console.token
  /\ c.step = "ok" => c.got = OwnedBy(c.by)

TableSettles ==
  console.token # NoOwner /\ ~console.error /\ mishaps \subseteq {"unlocked"} =>
    \/ \E c \in hookCalls : MayHaveChanged(c)
    \/ \E c \in hookCalls : WillTell(c)
    \/ console.items = OwnedBy(console.token) /\ \A c \in hookCalls : ~(IsList(c) /\ c.heeded)

FillsAreBehind ==
  /\ \A h \in hooks : h.fill <= console.fill
  /\ \A c \in hookCalls : c.fill <= console.fill

FormIsLocked ==
  mishaps \cap {"lost", "unlocked"} = {} =>
    /\ \A c \in hookCalls : ~IsList(c) => console.loading /\ \A d \in hookCalls : ~IsList(d) => d = c
    /\ \A c \in hookCalls : c.kind = "create" => console.filled /\ c.fill = console.fill
    /\ console.filled /\ (\E h \in hooks : h.fill = console.fill) =>
         \E c \in hookCalls : c.kind = "create" /\ c.step \in {"ok", "lost"}

ConsoleIInv ==
  /\ ConsoleTypes /\ FirstIsOfToken /\ RowsAreOfToken /\ TableSettles /\ PanelUnlocks
  /\ FillsAreBehind /\ FormIsLocked /\ OneHookPerFill

LEMMA ConsoleIImplies == ConsoleIInv => ConsoleInv
<1> SUFFICES ASSUME ConsoleIInv, hookCalls = {}, console.token # NoOwner, ~console.error, mishaps \subseteq {"unlocked"}
             PROVE  /\ console.items = OwnedBy(console.token)
                    /\ ConsoleView = "none yet" <=> OwnedBy(console.token) = {}
  BY DEF ConsoleIInv, ConsoleInv, TableIsTrue
<1>1. console.items = OwnedBy(console.token)
  BY DEF ConsoleIInv, TableSettles
<1>2. ~console.loading
  BY DEF ConsoleIInv, PanelUnlocks
<1> QED BY <1>1, <1>2 DEF ConsoleView

LEMMA ConsoleStarts == ConsoleInit => ConsoleIInv
<1> SUFFICES ASSUME ConsoleInit PROVE ConsoleIInv
  OBVIOUS
<1>1. PICK first \in HookOwners : first = CHOOSE o \in HookOwners : TRUE
  BY OwnerAssumption
<1>2. hooks = {[id |-> 0, owner |-> first, fill |-> 0]}
  BY <1>1 DEF ConsoleInit
<1>3. console = [token |-> NoOwner, items |-> {}, of |-> NoOwner, loading |-> FALSE, error |-> FALSE,
                 open |-> FALSE, filled |-> FALSE, fill |-> 0]
  BY DEF ConsoleInit
<1>4. ConsoleTypes
  <2>1. console \in Consoles
    BY <1>3 DEF Consoles, Tokens
  <2> QED BY <1>2, <2>1 DEF ConsoleInit, ConsoleTypes, HookRows
<1>5. FillsAreBehind
  BY <1>2, <1>3 DEF ConsoleInit, FillsAreBehind
<1> QED BY <1>2, <1>3, <1>4, <1>5
        DEF ConsoleInit, ConsoleIInv, FirstIsOfToken, RowsAreOfToken, TableSettles, PanelUnlocks, FormIsLocked, OneHookPerFill

-----------------------------------------------------------------------------
(* The page *)
LEMMA CallOf ==
  ASSUME ConsoleTypes, NEW k \in HookKinds, NEW o \in HookOwners, NEW h \in Int, NEW f \in Nat,
         NEW c, c = Call(k, o, h, f)
  PROVE  c \in HookCalls /\ c.kind = k /\ c.by = o /\ c.fill = f /\ c.step = "sent" /\ c.heeded = TRUE
<1>1. PICK n \in Nat : n = hookCount
  BY DEF ConsoleTypes
<1>2. c = [nth |-> n, kind |-> k, by |-> o, hook |-> h, fill |-> f,
           step |-> "sent", got |-> {}, heeded |-> TRUE]
  BY <1>1 DEF Call
<1>3. c \in HookCalls
  BY <1>2 DEF HookCalls, HookSteps
<1> QED BY <1>2, <1>3

(* A request of which nothing but the attention it gets has changed. *)
SameCall(c, d) == /\ d.kind = c.kind /\ d.by = c.by /\ d.hook = c.hook /\ d.fill = c.fill
                  /\ d.step = c.step /\ d.got = c.got /\ d.nth = c.nth

(* What giving requests up leaves of them. *)
LEMMA AbandonedCalls ==
  ASSUME NEW S \in SUBSET HookCalls
  PROVE  /\ Abandoned(S) \subseteq HookCalls
         /\ \A d \in Abandoned(S) : \E c \in S : SameCall(c, d) /\ (d.heeded => c.heeded /\ c.kind # "first")
         /\ \A c \in S : \E d \in Abandoned(S) : SameCall(c, d)
<1>1. PICK T : T = {[c EXCEPT !.heeded = @ /\ c.kind # "first"] : c \in S}
  OBVIOUS
<1>2. ASSUME NEW c \in S, NEW d, d = [c EXCEPT !.heeded = @ /\ c.kind # "first"]
      PROVE  d \in HookCalls /\ SameCall(c, d) /\ (d.heeded <=> c.heeded /\ c.kind # "first")
  <2>1. c \in HookCalls
    OBVIOUS
  <2>2. PICK b \in BOOLEAN : b <=> c.heeded /\ c.kind # "first"
    OBVIOUS
  <2>3. d = [c EXCEPT !.heeded = b]
    BY <1>2, <2>1, <2>2 DEF HookCalls
  <2> QED BY <2>1, <2>2, <2>3 DEF HookCalls, SameCall
<1> QED BY <1>1, <1>2 DEF Abandoned

LEMMA AbandonedFrom ==
  ASSUME NEW S \in SUBSET HookCalls, NEW d \in Abandoned(S)
  PROVE  \E c \in S : SameCall(c, d) /\ d = [c EXCEPT !.heeded = @ /\ c.kind # "first"]
<1>1. PICK c \in S : d = [c EXCEPT !.heeded = @ /\ c.kind # "first"]
  BY DEF Abandoned
<1>2. SameCall(c, d)
  BY <1>1 DEF HookCalls, SameCall
<1> QED BY <1>1, <1>2

LEMMA PageChanges ==
  ASSUME ConsoleIInv, NEW t \in Tokens, AddressChanges(t)
  PROVE  ConsoleIInv'
<1>1. /\ console \in Consoles /\ hooks \subseteq HookRows /\ hookCalls \subseteq HookCalls /\ hookCount \in Nat
      /\ ConsoleTypes
  BY DEF ConsoleIInv, ConsoleTypes
<1>2. PICK kept \in SUBSET HookCalls : kept = Abandoned(hookCalls)
  BY <1>1, AbandonedCalls
<1>3. /\ \A d \in kept : \E c \in hookCalls : SameCall(c, d) /\ (d.heeded => c.heeded /\ c.kind # "first")
      /\ \A c \in hookCalls : \E d \in kept : SameCall(c, d)
  BY <1>1, <1>2, AbandonedCalls
<1>4. UNCHANGED <<hooks, hookClicks, mishaps>> /\ FetchWebhooks(t, kept, console)
  BY <1>2 DEF AddressChanges
<1>5. \A h \in hooks : h.fill \in Nat
  BY <1>1 DEF HookRows
<1>6. /\ console.token \in Tokens /\ console.fill \in Nat /\ console.loading \in BOOLEAN /\ console.filled \in BOOLEAN
      /\ console.error \in BOOLEAN
  BY <1>1 DEF Consoles
<1>7. PICK asked \in SUBSET HookCalls :
        /\ hookCalls' = asked /\ kept \subseteq asked
        /\ \A d \in asked \ kept : /\ d.kind = "first" /\ d.by = t /\ d.step = "sent" /\ d.heeded = TRUE /\ d.fill = 0
                                   /\ t # NoOwner
        /\ t # NoOwner => \E d \in asked : /\ d.kind = "first" /\ d.by = t /\ d.step = "sent" /\ d.heeded = TRUE
        /\ hookCount' \in Nat
  <2>1. CASE t = NoOwner
    BY <1>1, <1>4, <2>1 DEF FetchWebhooks
  <2>2. CASE t # NoOwner
    <3>1. t \in HookOwners
      BY <2>2 DEF Tokens
    <3>2. PICK c \in HookCalls : /\ c = Call("first", t, -1, 0) /\ c.kind = "first" /\ c.by = t /\ c.fill = 0
                                 /\ c.step = "sent" /\ c.heeded = TRUE
      <4>1. PICK k \in HookKinds, m \in Int, z \in Nat : k = "first" /\ m = -1 /\ z = 0
        <5>1. "first" \in HookKinds /\ -1 \in Int
          BY DEF HookKinds
        <5> QED BY <5>1
      <4>2. PICK c : c = Call(k, t, m, z)
        OBVIOUS
      <4>3. c \in HookCalls /\ c.kind = k /\ c.by = t /\ c.fill = z /\ c.step = "sent" /\ c.heeded = TRUE
        <5>1. ConsoleTypes
          BY <1>1
        <5>2. PICK o \in HookOwners : o = t
          BY <3>1
        <5>3. c = Call(k, o, m, z)
          BY <4>2, <5>2
        <5>4. c.kind = k /\ c.by = o /\ c.fill = z /\ c.step = "sent" /\ c.heeded = TRUE
          BY ONLY <5>3 DEF Call
        <5>5. c \in HookCalls
          BY ONLY <5>1, <5>3, CallOf, k \in HookKinds, o \in HookOwners, m \in Int, z \in Nat
        <5> QED BY <5>2, <5>4, <5>5, Zenon
      <4> QED BY <4>1, <4>2, <4>3
    <3>3. PICK asked \in SUBSET HookCalls : asked = kept \cup {c}
      OBVIOUS
    <3>4. hookCalls' = asked /\ hookCount' \in Nat
      BY <1>1, <1>4, <2>2, <3>2, <3>3 DEF FetchWebhooks
    <3> QED BY <2>2, <3>2, <3>3, <3>4
  <2> QED BY <2>1, <2>2
<1>8. /\ console' \in Consoles /\ console'.token = t /\ console'.fill = console.fill /\ console'.filled = console.filled
      /\ console.loading => console'.loading
      /\ t = NoOwner => console'.of = t
      /\ t # NoOwner => console'.loading
  <2>1. CASE t = NoOwner
    <3>1. console' = [console EXCEPT !.token = t, !.items = {}, !.of = t]
      BY <1>4, <2>1 DEF FetchWebhooks
    <3> QED BY <1>1, <2>1, <3>1 DEF Consoles
  <2>2. CASE t # NoOwner
    <3>1. console' = [console EXCEPT !.token = t, !.loading = TRUE, !.error = FALSE]
      BY <1>4, <2>2 DEF FetchWebhooks
    <3> QED BY <1>1, <2>2, <3>1 DEF Consoles
  <2> QED BY <2>1, <2>2
<1>9. ConsoleTypes'
  BY <1>1, <1>4, <1>7, <1>8 DEF ConsoleTypes
<1>10. FirstIsOfToken'
  <2> SUFFICES ASSUME NEW d \in asked, d.kind = "first", d.heeded PROVE d.by = t
    BY <1>7, <1>8 DEF FirstIsOfToken
  <2>1. d \notin kept
    BY <1>3 DEF SameCall
  <2> QED BY <1>7, <2>1
<1>11. RowsAreOfToken'
  BY <1>7, <1>8 DEF RowsAreOfToken, IsList
<1>12. TableSettles'
  <2> SUFFICES ASSUME t # NoOwner PROVE \E c \in asked : WillTell(c)'
    BY <1>7, <1>8 DEF TableSettles
  <2>1. PICK c \in asked : c.kind = "first" /\ c.by = t /\ c.step = "sent" /\ c.heeded = TRUE
    BY <1>7
  <2> QED BY <1>8, <2>1 DEF WillTell, IsList
<1>13. PanelUnlocks'
  BY <1>7, <1>8 DEF PanelUnlocks
<1>14. FillsAreBehind'
  <2>1. \A d \in asked : d.fill <= console.fill
    BY <1>3, <1>6, <1>7 DEF ConsoleIInv, FillsAreBehind, SameCall
  <2> QED BY <1>4, <1>7, <1>8, <2>1 DEF ConsoleIInv, FillsAreBehind
<1>15. FormIsLocked'
  <2> SUFFICES ASSUME mishaps \cap {"lost", "unlocked"} = {} PROVE FormIsLocked'
    BY <1>4 DEF FormIsLocked
  <2>1. /\ \A c \in hookCalls : ~IsList(c) => console.loading /\ \A d \in hookCalls : ~IsList(d) => d = c
        /\ \A c \in hookCalls : c.kind = "create" => console.filled /\ c.fill = console.fill
        /\ console.filled /\ (\E h \in hooks : h.fill = console.fill) =>
             \E c \in hookCalls : c.kind = "create" /\ c.step \in {"ok", "lost"}
    BY DEF ConsoleIInv, FormIsLocked
  <2>2. \A d \in asked : ~IsList(d) => d \in kept
    BY <1>7 DEF IsList
  <2>3. ASSUME NEW a \in kept, NEW b \in kept, ~IsList(a), ~IsList(b) PROVE a = b /\ console.loading
    <3>1. PICK c \in hookCalls : SameCall(c, a) /\ a = [c EXCEPT !.heeded = @ /\ c.kind # "first"]
      BY <1>1, <1>2, AbandonedFrom
    <3>2. PICK d \in hookCalls : SameCall(d, b) /\ b = [d EXCEPT !.heeded = @ /\ d.kind # "first"]
      BY <1>1, <1>2, AbandonedFrom
    <3>3. ~IsList(c) /\ ~IsList(d)
      BY <2>3, <3>1, <3>2 DEF SameCall, IsList
    <3>4. c = d
      BY <2>1, <3>3
    <3> QED BY <2>1, <3>1, <3>2, <3>3, <3>4
  <2>4. \A c \in asked : ~IsList(c) => console'.loading /\ \A d \in asked : ~IsList(d) => d = c
    BY <1>8, <2>2, <2>3
  <2>5. \A c \in asked : c.kind = "create" => console'.filled /\ c.fill = console'.fill
    BY <1>3, <1>7, <1>8, <2>1 DEF SameCall
  <2>6. console'.filled /\ (\E h \in hooks : h.fill = console'.fill) =>
             \E c \in asked : c.kind = "create" /\ c.step \in {"ok", "lost"}
    BY <1>3, <1>7, <1>8, <2>1 DEF SameCall
  <2> QED BY <1>4, <1>7, <2>4, <2>5, <2>6 DEF FormIsLocked, IsList
<1>16. OneHookPerFill'
  BY <1>4 DEF ConsoleIInv, OneHookPerFill
<1> QED BY <1>9, <1>10, <1>11, <1>12, <1>13, <1>14, <1>15, <1>16 DEF ConsoleIInv

-----------------------------------------------------------------------------
(* The panel *)
LEMMA FormChanges ==
  ASSUME ConsoleIInv, ToggleForm \/ FillForm
  PROVE  ConsoleIInv'
<1>1. /\ console \in Consoles /\ hooks \subseteq HookRows /\ hookCalls \subseteq HookCalls
      /\ console.fill \in Nat /\ ~console.loading
  BY DEF ConsoleIInv, ConsoleTypes, Consoles, ToggleForm, FillForm
<1>2. UNCHANGED <<hooks, hookCalls, hookCount, mishaps>>
  BY DEF ToggleForm, FillForm, OnConsole
<1>3. PICK o \in BOOLEAN, l \in BOOLEAN, n \in Nat :
        /\ console' = [console EXCEPT !.open = o, !.filled = l, !.fill = n]
        /\ ((l <=> console.filled) /\ n = console.fill) \/ (~console.filled /\ n = console.fill + 1)
  <2>1. CASE ToggleForm
    <3>1. console' = [console EXCEPT !.open = ~@]
      BY <2>1 DEF ToggleForm, OnConsole
    <3>2. console' = [console EXCEPT !.open = ~@, !.filled = console.filled, !.fill = console.fill]
      BY <1>1, <3>1 DEF Consoles
    <3>3. console.filled \in BOOLEAN
      BY <1>1 DEF Consoles
    <3> QED BY <1>1, <3>2, <3>3
  <2>2. CASE FillForm
    <3>1. console' = [console EXCEPT !.filled = TRUE, !.fill = @ + 1] /\ ~console.filled
      BY <2>2 DEF FillForm, OnConsole
    <3>2. console' = [console EXCEPT !.open = console.open, !.filled = TRUE, !.fill = console.fill + 1]
      BY <1>1, <3>1 DEF Consoles
    <3>3. console.open \in BOOLEAN /\ console.fill + 1 \in Nat
      BY <1>1 DEF Consoles
    <3> QED BY <3>1, <3>2, <3>3
  <2> QED BY <2>1, <2>2
<1>4. /\ console' \in Consoles /\ console'.token = console.token /\ console'.items = console.items
      /\ console'.of = console.of /\ console'.error = console.error /\ ~console'.loading
      /\ (console'.filled <=> l) /\ console'.fill = n
  BY <1>1, <1>3 DEF Consoles
<1>5. \A h \in hooks : h.fill \in Nat
  BY <1>1 DEF HookRows
<1>6. \A c \in hookCalls : c.fill \in Nat
  BY <1>1 DEF HookCalls
<1>7. ConsoleTypes' /\ FirstIsOfToken'
  BY <1>2, <1>4 DEF ConsoleIInv, ConsoleTypes, FirstIsOfToken
<1>8. RowsAreOfToken'
  BY <1>2, <1>4 DEF ConsoleIInv, RowsAreOfToken, IsList
<1>9. TableSettles'
  BY <1>2, <1>4 DEF ConsoleIInv, TableSettles, MayHaveChanged, WillTell, IsList, OwnedBy
<1>10. PanelUnlocks'
  BY <1>2, <1>4 DEF PanelUnlocks
<1>11. FillsAreBehind'
  BY <1>1, <1>2, <1>3, <1>4, <1>5, <1>6 DEF ConsoleIInv, FillsAreBehind
<1>12. FormIsLocked'
  <2> SUFFICES ASSUME mishaps \cap {"lost", "unlocked"} = {} PROVE FormIsLocked'
    BY <1>2 DEF FormIsLocked
  <2>1. /\ \A c \in hookCalls : IsList(c)
        /\ console.filled => ~ \E h \in hooks : h.fill = console.fill
    BY <1>1 DEF ConsoleIInv, FormIsLocked, IsList
  <2>2. console'.filled => ~ \E h \in hooks : h.fill = console'.fill
    BY <1>1, <1>3, <1>4, <1>5, <2>1 DEF ConsoleIInv, FillsAreBehind
  <2> QED BY <1>2, <2>1, <2>2 DEF FormIsLocked, IsList
<1>13. OneHookPerFill'
  BY <1>2 DEF ConsoleIInv, OneHookPerFill
<1> QED BY <1>7, <1>8, <1>9, <1>10, <1>11, <1>12, <1>13 DEF ConsoleIInv

(* A registration or a deletion is sent while nothing else is under way that unlocks the panel. *)
LEMMA WriteSent ==
  ASSUME ConsoleIInv, ~console.loading, NEW c \in HookCalls,
         c.kind \in {"create", "delete"}, c.step = "sent", c.heeded,
         c.fill <= console.fill, c.kind = "create" => console.filled /\ c.fill = console.fill,
         hookCalls' = hookCalls \cup {c}, hookCount' = hookCount + 1,
         console' = [console EXCEPT !.loading = TRUE], hooks' = hooks, mishaps' = mishaps
  PROVE  ConsoleIInv'
<1>1. /\ console \in Consoles /\ hooks \subseteq HookRows /\ hookCalls \subseteq HookCalls /\ hookCount \in Nat
  BY DEF ConsoleIInv, ConsoleTypes
<1>2. /\ console' \in Consoles /\ console'.token = console.token /\ console'.items = console.items
      /\ console'.of = console.of /\ console'.error = console.error /\ console'.loading
      /\ (console'.filled <=> console.filled) /\ console'.fill = console.fill
  BY <1>1 DEF Consoles
<1>3. ~IsList(c)
  BY DEF IsList
<1>4. ConsoleTypes'
  BY <1>1, <1>2 DEF ConsoleTypes
<1>5. FirstIsOfToken' /\ PanelUnlocks'
  BY <1>2 DEF ConsoleIInv, FirstIsOfToken, PanelUnlocks
<1>6. RowsAreOfToken'
  BY <1>2 DEF ConsoleIInv, RowsAreOfToken, IsList
<1>7. TableSettles'
  BY <1>2, <1>3 DEF ConsoleIInv, TableSettles, MayHaveChanged, WillTell, IsList, OwnedBy
<1>8. FillsAreBehind'
  BY <1>2 DEF ConsoleIInv, FillsAreBehind
<1>9. FormIsLocked'
  <2> SUFFICES ASSUME mishaps \cap {"lost", "unlocked"} = {} PROVE FormIsLocked'
    BY DEF FormIsLocked
  <2>1. /\ \A d \in hookCalls : IsList(d)
        /\ console.filled => ~ \E h \in hooks : h.fill = console.fill
    BY DEF ConsoleIInv, FormIsLocked, IsList
  <2> QED BY <1>2, <1>3, <2>1 DEF FormIsLocked, IsList
<1>10. OneHookPerFill'
  BY DEF ConsoleIInv, OneHookPerFill
<1> QED BY <1>4, <1>5, <1>6, <1>7, <1>8, <1>9, <1>10 DEF ConsoleIInv

LEMMA PanelWrites ==
  ASSUME ConsoleIInv, SaveWebhook \/ \E h \in console.items : RemoveWebhook(h)
  PROVE  ConsoleIInv'
<1>1. /\ console \in Consoles /\ hooks \subseteq HookRows /\ hookCalls \subseteq HookCalls /\ hookCount \in Nat
      /\ ConsoleTypes /\ console.fill \in Nat /\ console.token \in Tokens /\ console.items \subseteq HookRows
  BY DEF ConsoleIInv, ConsoleTypes, Consoles
<1>2. "create" \in HookKinds /\ "delete" \in HookKinds /\ -1 \in Int /\ 0 \in Nat /\ 0 <= console.fill
  BY <1>1 DEF HookKinds
<1>3. console.token # NoOwner => console.token \in HookOwners
  BY <1>1 DEF Tokens
<1>4. CASE SaveWebhook /\ console.token # NoOwner
  <2>1. PICK c \in HookCalls : /\ c = Call("create", console.token, -1, console.fill)
                               /\ c.kind = "create" /\ c.fill = console.fill /\ c.step = "sent" /\ c.heeded = TRUE
    <3>1. PICK k \in HookKinds, m \in Int : k = "create" /\ m = -1
      BY <1>2
    <3>2. PICK o \in HookOwners, f \in Nat : o = console.token /\ f = console.fill
      BY <1>1, <1>3, <1>4
    <3>3. PICK c : c = Call(k, o, m, f)
      OBVIOUS
    <3>4. c \in HookCalls /\ c.kind = k /\ c.fill = f /\ c.step = "sent" /\ c.heeded = TRUE
      <4>0. ConsoleTypes
        BY <1>1, Zenon
      <4>1. c.kind = k /\ c.fill = f /\ c.step = "sent" /\ c.heeded = TRUE
        BY ONLY <3>3 DEF Call
      <4>2. c \in HookCalls
        BY ONLY <4>0, <3>3, CallOf, k \in HookKinds, o \in HookOwners, m \in Int, f \in Nat
      <4> QED BY <4>1, <4>2
    <3> QED BY <3>1, <3>2, <3>3, <3>4
  <2>2. /\ ~console.loading /\ console.filled /\ hookCalls' = hookCalls \cup {c} /\ hookCount' = hookCount + 1
        /\ console' = [console EXCEPT !.loading = TRUE] /\ hooks' = hooks /\ mishaps' = mishaps
    BY <1>4, <2>1 DEF SaveWebhook, Sends
  <2>3. c.fill <= console.fill
    BY <1>1, <2>1
  <2> QED BY <2>1, <2>2, <2>3, WriteSent
<1>5. CASE \E h \in console.items : RemoveWebhook(h)
  <2>1. PICK h \in HookRows : RemoveWebhook(h)
    BY <1>1, <1>5
  <2>2. h.id \in Int /\ console.token \in HookOwners
    BY <1>3, <2>1 DEF HookRows, RemoveWebhook
  <2>3. PICK c \in HookCalls : /\ c = Call("delete", console.token, h.id, 0)
                               /\ c.kind = "delete" /\ c.fill = 0 /\ c.step = "sent" /\ c.heeded = TRUE
    <3>1. PICK k \in HookKinds, z \in Nat : k = "delete" /\ z = 0
      BY <1>2
    <3>2. PICK o \in HookOwners, id \in Int : o = console.token /\ id = h.id
      BY <2>2
    <3>3. PICK c : c = Call(k, o, id, z)
      OBVIOUS
    <3>4. c \in HookCalls /\ c.kind = k /\ c.fill = z /\ c.step = "sent" /\ c.heeded = TRUE
      <4>0. ConsoleTypes
        BY <1>1, Zenon
      <4>1. c.kind = k /\ c.fill = z /\ c.step = "sent" /\ c.heeded = TRUE
        BY ONLY <3>3 DEF Call
      <4>2. c \in HookCalls
        BY ONLY <4>0, <3>3, CallOf, k \in HookKinds, o \in HookOwners, id \in Int, z \in Nat
      <4> QED BY <4>1, <4>2
    <3> QED BY <3>1, <3>2, <3>3, <3>4
  <2>4. /\ ~console.loading /\ hookCalls' = hookCalls \cup {c} /\ hookCount' = hookCount + 1
        /\ console' = [console EXCEPT !.loading = TRUE] /\ hooks' = hooks /\ mishaps' = mishaps
    BY <2>1, <2>3 DEF RemoveWebhook, Sends
  <2> QED BY <1>2, <2>3, <2>4, WriteSent
<1>6. CASE SaveWebhook /\ console.token = NoOwner
  <2>1. /\ console' = FormCleared(console) /\ ~console.loading
        /\ UNCHANGED <<hooks, hookCalls, hookCount, mishaps>>
    BY <1>6 DEF SaveWebhook
  <2>2. /\ console' \in Consoles /\ console'.token = console.token /\ console'.items = console.items
        /\ console'.of = console.of /\ console'.error = console.error /\ ~console'.loading
        /\ ~console'.filled /\ console'.fill = console.fill
    BY <1>1, <2>1 DEF Consoles, FormCleared
  <2>3. ConsoleTypes' /\ FirstIsOfToken'
    BY <2>1, <2>2 DEF ConsoleIInv, ConsoleTypes, FirstIsOfToken
  <2>4. RowsAreOfToken' /\ PanelUnlocks'
    BY <2>1, <2>2 DEF ConsoleIInv, RowsAreOfToken, IsList, PanelUnlocks
  <2>5. TableSettles'
    BY <1>6, <2>1, <2>2 DEF TableSettles
  <2>6. FillsAreBehind' /\ OneHookPerFill'
    BY <2>1, <2>2 DEF ConsoleIInv, FillsAreBehind, OneHookPerFill
  <2>7. FormIsLocked'
    <3> SUFFICES ASSUME mishaps \cap {"lost", "unlocked"} = {} PROVE FormIsLocked'
      BY <2>1 DEF FormIsLocked
    <3>1. \A d \in hookCalls : IsList(d)
      BY <2>1 DEF ConsoleIInv, FormIsLocked
    <3> QED BY <2>1, <2>2, <3>1 DEF FormIsLocked, IsList
  <2> QED BY <2>3, <2>4, <2>5, <2>6, <2>7 DEF ConsoleIInv
<1> QED BY <1>4, <1>5, <1>6

-----------------------------------------------------------------------------
(* The API *)
LEMMA ServedSound ==
  ASSUME ConsoleIInv, NEW c \in hookCalls, NEW d \in HookCalls, c.step = "sent", d.step # "sent",
         d.kind = c.kind, d.by = c.by, d.heeded = c.heeded, d.fill = c.fill,
         hookCalls' = (hookCalls \ {c}) \cup {d}, UNCHANGED <<console, hookCount, mishaps>>,
         NEW rws \in SUBSET HookRows, hooks' = rws,
         \/ rws = hooks /\ (IsList(c) /\ d.step = "ok" => d.got = OwnedBy(c.by))
         \/ MayHaveChanged(d) /\ rws \subseteq hooks
         \/ MayHaveChanged(d) /\ c.kind = "create" /\ \E g \in HookRows : g.fill = c.fill /\ rws = hooks \cup {g}
  PROVE  ConsoleIInv'
<1>1. /\ console \in Consoles /\ hooks \subseteq HookRows /\ hookCalls \subseteq HookCalls /\ hookCount \in Nat
      /\ console.fill \in Nat
  BY DEF ConsoleIInv, ConsoleTypes, Consoles
<1>2. ConsoleTypes'
  BY <1>1 DEF ConsoleTypes
<1>3. FirstIsOfToken'
  BY DEF ConsoleIInv, FirstIsOfToken
<1>4. RowsAreOfToken'
  BY DEF ConsoleIInv, RowsAreOfToken, IsList
<1>5. PanelUnlocks'
  BY DEF ConsoleIInv, PanelUnlocks
<1>6. IsList(c) <=> IsList(d)
  BY DEF IsList
<1>7. TableSettles'
  <2>1. CASE MayHaveChanged(d)
    BY <2>1 DEF TableSettles, MayHaveChanged, IsList
  <2>2. CASE rws = hooks /\ (IsList(c) /\ d.step = "ok" => d.got = OwnedBy(c.by))
    <3>1. \A o : OwnedBy(o)' = OwnedBy(o)
      BY <2>2 DEF OwnedBy
    <3>2. ASSUME NEW w \in hookCalls, MayHaveChanged(w) PROVE w \in hookCalls' /\ MayHaveChanged(w)'
      BY <3>2 DEF MayHaveChanged, IsList
    <3>3. ASSUME NEW w \in hookCalls, w # c, WillTell(w) PROVE w \in hookCalls' /\ WillTell(w)'
      BY <2>2, <3>3 DEF WillTell, IsList, OwnedBy
    <3>4. ASSUME WillTell(c) PROVE d \in hookCalls' /\ WillTell(d)'
      BY <2>2, <3>4 DEF WillTell, IsList, OwnedBy
    <3>5. ASSUME \A w \in hookCalls : ~(IsList(w) /\ w.heeded) PROVE \A w \in hookCalls' : ~(IsList(w) /\ w.heeded)
      BY <1>6, <3>5
    <3>6. (console.items = OwnedBy(console.token)) => (console.items = OwnedBy(console.token))'
      BY <2>2 DEF OwnedBy
    <3> QED BY <3>2, <3>3, <3>4, <3>5, <3>6 DEF ConsoleIInv, TableSettles, IsList
  <2> QED BY <2>1, <2>2
<1>8. FillsAreBehind'
  BY DEF ConsoleIInv, FillsAreBehind
<1>9. ASSUME mishaps \cap {"lost", "unlocked"} = {}
      PROVE  /\ \A a \in hookCalls : ~IsList(a) => console.loading /\ \A b \in hookCalls : ~IsList(b) => b = a
             /\ \A a \in hookCalls : a.kind = "create" => console.filled /\ a.fill = console.fill
             /\ console.filled /\ (\E h \in hooks : h.fill = console.fill) =>
                  \E a \in hookCalls : a.kind = "create" /\ a.step \in {"ok", "lost"}
  BY <1>9 DEF ConsoleIInv, FormIsLocked
<1>10. FormIsLocked'
  <2> SUFFICES ASSUME mishaps \cap {"lost", "unlocked"} = {} PROVE FormIsLocked'
    BY DEF FormIsLocked
  <2>1. \A a \in hookCalls' : ~IsList(a) => console.loading /\ \A b \in hookCalls' : ~IsList(b) => b = a
    BY <1>6, <1>9
  <2>2. \A a \in hookCalls' : a.kind = "create" => console.filled /\ a.fill = console.fill
    BY <1>9
  <2>3. console.filled /\ (\E h \in rws : h.fill = console.fill) =>
                  \E a \in hookCalls' : a.kind = "create" /\ a.step \in {"ok", "lost"}
    BY <1>9 DEF MayHaveChanged
  <2> QED BY <2>1, <2>2, <2>3 DEF FormIsLocked, IsList
<1>11. OneHookPerFill'
  <2>1. CASE rws \subseteq hooks
    BY <2>1 DEF ConsoleIInv, OneHookPerFill
  <2>2. ASSUME MayHaveChanged(d), c.kind = "create", NEW g \in HookRows, g.fill = c.fill, rws = hooks \cup {g}
        PROVE  OneHookPerFill'
    <3>1. ASSUME mishaps \cap {"lost", "unlocked"} = {}, NEW h \in hooks, h.fill = g.fill PROVE FALSE
      <4>1. console.filled /\ h.fill = console.fill
        BY <1>9, <2>2, <3>1
      <4>2. PICK a \in hookCalls : a.kind = "create" /\ a.step \in {"ok", "lost"}
        BY <1>9, <3>1, <4>1
      <4>3. ~IsList(a) /\ ~IsList(c)
        BY <2>2, <4>2 DEF IsList
      <4>4. a = c
        BY <1>9, <3>1, <4>3
      <4> QED BY <4>2, <4>4
    <3> QED BY <2>2, <3>1 DEF ConsoleIInv, OneHookPerFill
  <2> QED BY <2>1, <2>2
<1> QED BY <1>2, <1>3, <1>4, <1>5, <1>7, <1>8, <1>10, <1>11 DEF ConsoleIInv

LEMMA ServedCall ==
  ASSUME ConsoleTypes, NEW c \in hookCalls, NEW step \in HookSteps, NEW got \in SUBSET HookRows, Served(c, step, got)
  PROVE  \E d \in HookCalls :
           /\ c.step = "sent" /\ d.step = step /\ d.got = got
           /\ d.kind = c.kind /\ d.by = c.by /\ d.heeded = c.heeded /\ d.fill = c.fill
           /\ hookCalls' = (hookCalls \ {c}) \cup {d} /\ UNCHANGED <<console, hookCount, mishaps>>
<1>1. c \in HookCalls
  BY DEF ConsoleTypes
<1>2. PICK d : d = [c EXCEPT !.step = step, !.got = got]
  OBVIOUS
<1>3. d \in HookCalls
  BY <1>1, <1>2 DEF HookCalls
<1>4. /\ d.step = step /\ d.got = got
      /\ d.kind = c.kind /\ d.by = c.by /\ d.heeded = c.heeded /\ d.fill = c.fill
  BY <1>1, <1>2 DEF HookCalls
<1> QED BY <1>2, <1>3, <1>4 DEF Served

LEMMA ApiServes ==
  ASSUME ConsoleIInv, NEW c \in hookCalls, ListHooks(c) \/ CreateHook(c) \/ DeleteHook(c) \/ Refuse(c)
  PROVE  ConsoleIInv'
<1>1. /\ hooks \subseteq HookRows /\ hookCalls \subseteq HookCalls /\ c \in HookCalls /\ ConsoleTypes
  BY DEF ConsoleIInv, ConsoleTypes
<1>2. "ok" \in HookSteps /\ "lost" \in HookSteps /\ "refused" \in HookSteps /\ {} \in SUBSET HookRows
  BY DEF HookSteps
<1>3. CASE ListHooks(c)
  <2>1. PICK got \in SUBSET HookRows : got = OwnedBy(c.by)
    BY <1>1 DEF OwnedBy
  <2>2. PICK step \in HookSteps : step = "ok"
    BY <1>2
  <2>3. Served(c, step, got) /\ hooks' = hooks
    BY <1>3, <2>1, <2>2 DEF ListHooks
  <2> QED BY <1>1, <2>1, <2>2, <2>3, ServedCall, ServedSound
<1>4. CASE CreateHook(c)
  <2>1. PICK step \in HookSteps, got \in SUBSET HookRows :
          step \in {"ok", "lost"} /\ got = {} /\ Served(c, step, got)
    BY <1>2, <1>4 DEF CreateHook
  <2>2. PICK g \in HookRows : g.fill = c.fill /\ hooks' = hooks \cup {g}
    BY <1>1, <1>4 DEF CreateHook, HookRows, HookCalls
  <2>3. PICK rws \in SUBSET HookRows : rws = hooks \cup {g}
    BY <1>1
  <2>4. PICK d \in HookCalls :
           /\ c.step = "sent" /\ d.step = step
           /\ d.kind = c.kind /\ d.by = c.by /\ d.heeded = c.heeded /\ d.fill = c.fill
           /\ hookCalls' = (hookCalls \ {c}) \cup {d} /\ UNCHANGED <<console, hookCount, mishaps>>
    BY <1>1, <2>1, ServedCall
  <2>5. MayHaveChanged(d) /\ c.kind = "create" /\ d.step # "sent"
    BY <1>4, <2>1, <2>4 DEF CreateHook, MayHaveChanged, IsList
  <2>6. hooks' = rws
    BY <2>2, <2>3
  <2> QED BY <2>2, <2>3, <2>4, <2>5, <2>6, ServedSound
<1>5. CASE DeleteHook(c)
  <2>1. PICK step \in HookSteps, got \in SUBSET HookRows :
          step \in {"ok", "lost"} /\ got = {} /\ Served(c, step, got)
    BY <1>2, <1>5 DEF DeleteHook
  <2>2. PICK rws \in SUBSET HookRows : hooks' = rws /\ rws \subseteq hooks
    BY <1>1, <1>5 DEF DeleteHook
  <2>3. PICK d \in HookCalls :
           /\ c.step = "sent" /\ d.step = step
           /\ d.kind = c.kind /\ d.by = c.by /\ d.heeded = c.heeded /\ d.fill = c.fill
           /\ hookCalls' = (hookCalls \ {c}) \cup {d} /\ UNCHANGED <<console, hookCount, mishaps>>
    BY <1>1, <2>1, ServedCall
  <2>4. MayHaveChanged(d) /\ d.step # "sent"
    BY <1>5, <2>1, <2>3 DEF DeleteHook, MayHaveChanged, IsList
  <2> QED BY <2>2, <2>3, <2>4, ServedSound
<1>6. CASE Refuse(c)
  <2>1. PICK step \in HookSteps, got \in SUBSET HookRows :
          step \in {"refused", "lost"} /\ got = {} /\ Served(c, step, got) /\ hooks' = hooks
    BY <1>2, <1>6 DEF Refuse
  <2>2. PICK d \in HookCalls :
           /\ c.step = "sent" /\ d.step = step
           /\ d.kind = c.kind /\ d.by = c.by /\ d.heeded = c.heeded /\ d.fill = c.fill
           /\ hookCalls' = (hookCalls \ {c}) \cup {d} /\ UNCHANGED <<console, hookCount, mishaps>>
    BY <1>1, <2>1, ServedCall
  <2>3. PICK rws \in SUBSET HookRows : rws = hooks
    BY <1>1
  <2> QED BY <2>1, <2>2, <2>3, ServedSound
<1> QED BY <1>3, <1>4, <1>5, <1>6

-----------------------------------------------------------------------------
(* The answers *)
LEMMA Mishaps == \A m, b : (b => m \in Mishap(m, b)) /\ Mishap(m, b) \subseteq {m}
BY DEF Mishap

LEMMA ListLandsSound ==
  ASSUME ConsoleIInv, NEW c \in hookCalls, ListLands(c)
  PROVE  ConsoleIInv'
<1>1. /\ console \in Consoles /\ hooks \subseteq HookRows /\ hookCalls \subseteq HookCalls /\ hookCount \in Nat
      /\ c \in HookCalls
  BY DEF ConsoleIInv, ConsoleTypes
<1>2. /\ IsList(c) /\ c.step # "sent" /\ hookCalls' = hookCalls \ {c} /\ UNCHANGED <<hooks, hookCount>>
  BY DEF ListLands, Landed
<1>3. /\ mishaps \subseteq mishaps'
      /\ c.kind = "again" /\ c.by # console.token => "stray" \in mishaps'
      /\ c.heeded => \A d \in hookCalls \ {c} : ("unlocked" \in mishaps' \/ IsList(d)) /\ ("overlap" \in mishaps' \/ ~IsList(d))
  BY Mishaps DEF ListLands, Landed
<1>4. PICK err \in BOOLEAN, seen \in SUBSET HookRows, whose \in Tokens, busy \in BOOLEAN :
        /\ console' = [console EXCEPT !.items = seen, !.of = whose, !.error = err, !.loading = busy]
        /\ \/ ~c.heeded /\ seen = console.items /\ whose = console.of /\ err = console.error /\ busy = console.loading
           \/ c.heeded /\ ~busy /\ c.step = "ok" /\ seen = c.got /\ whose = c.by /\ err = console.error
           \/ c.heeded /\ ~busy /\ err /\ seen = console.items /\ whose = console.of
  <2>1. /\ console.items \in SUBSET HookRows /\ console.of \in Tokens /\ console.error \in BOOLEAN
        /\ console.loading \in BOOLEAN /\ c.got \in SUBSET HookRows /\ c.by \in Tokens
    BY <1>1 DEF Consoles, HookCalls, Tokens
  <2>2. CASE ~c.heeded
    <3>1. console' = [console EXCEPT !.items = console.items, !.of = console.of, !.error = console.error,
                                     !.loading = console.loading]
      BY <1>1, <2>2 DEF ListLands, Consoles
    <3> QED BY <2>1, <2>2, <3>1
  <2>3. CASE c.heeded /\ c.step = "ok"
    <3>1. console' = [console EXCEPT !.items = c.got, !.of = c.by, !.error = console.error, !.loading = FALSE]
      BY <1>1, <2>3 DEF ListLands, Consoles
    <3> QED BY <2>1, <2>3, <3>1
  <2>4. CASE c.heeded /\ c.step # "ok"
    <3>1. console' = [console EXCEPT !.items = console.items, !.of = console.of, !.error = TRUE, !.loading = FALSE]
      BY <1>1, <2>4 DEF ListLands, Consoles
    <3> QED BY <2>1, <2>4, <3>1
  <2> QED BY <2>2, <2>3, <2>4
<1>5. /\ console' \in Consoles /\ console'.token = console.token /\ console'.items = seen /\ console'.of = whose
      /\ (console'.error <=> err) /\ (console'.loading <=> busy)
      /\ (console'.filled <=> console.filled) /\ console'.fill = console.fill
  BY <1>1, <1>4 DEF Consoles
<1>6. c.heeded => c.by = console.token \/ "stray" \in mishaps'
  BY <1>2, <1>3 DEF ConsoleIInv, FirstIsOfToken, IsList
<1>7. ConsoleTypes' /\ FirstIsOfToken'
  BY <1>1, <1>2, <1>5 DEF ConsoleIInv, ConsoleTypes, FirstIsOfToken
<1>8. RowsAreOfToken'
  <2>1. CASE ~c.heeded
    BY <1>2, <1>3, <1>4, <1>5, <2>1 DEF ConsoleIInv, RowsAreOfToken, IsList
  <2>2. CASE c.heeded
    BY <1>3, <1>4, <1>5, <1>6, <2>2 DEF RowsAreOfToken
  <2> QED BY <2>1, <2>2
<1>9. TableSettles'
  <2> SUFFICES ASSUME console.token # NoOwner, ~err, mishaps' \subseteq {"unlocked"}
               PROVE  TableSettles'
    BY <1>5 DEF TableSettles
  <2>1. \A w \in hookCalls : w # c => /\ w \in hookCalls'
                                      /\ (MayHaveChanged(w) => MayHaveChanged(w)') /\ (WillTell(w) => WillTell(w)')
    BY <1>2, <1>5 DEF MayHaveChanged, WillTell, IsList, OwnedBy
  <2>2. ~MayHaveChanged(c)
    BY <1>2 DEF MayHaveChanged
  <2>3. \A o : OwnedBy(o)' = OwnedBy(o)
    BY <1>2 DEF OwnedBy
  <2>4. mishaps \subseteq {"unlocked"}
    BY <1>3
  <2>5. CASE ~c.heeded
    <3>1. ~WillTell(c) /\ ~console.error
      BY <1>4, <2>5 DEF WillTell
    <3>2. \/ \E w \in hookCalls : MayHaveChanged(w)
          \/ \E w \in hookCalls : WillTell(w)
          \/ console.items = OwnedBy(console.token) /\ \A w \in hookCalls : ~(IsList(w) /\ w.heeded)
      BY <2>4, <3>1 DEF ConsoleIInv, TableSettles
    <3>3. (console.items = OwnedBy(console.token)) => (console.items = OwnedBy(console.token))'
      BY <1>2, <1>4, <1>5, <2>5 DEF OwnedBy
    <3> QED BY <1>2, <2>1, <2>2, <3>1, <3>2, <3>3 DEF TableSettles, IsList
  <2>6. CASE c.heeded
    <3>1. c.step = "ok" /\ ~console.error /\ seen = c.got /\ c.by = console.token
      BY <1>4, <1>6, <2>6
    <3>2. \A w \in hookCalls : IsList(w) => w = c
      BY <1>3, <2>6
    <3>3. \/ \E w \in hookCalls : MayHaveChanged(w)
          \/ WillTell(c)
      <4>1. \/ \E w \in hookCalls : MayHaveChanged(w)
            \/ \E w \in hookCalls : WillTell(w)
            \/ console.items = OwnedBy(console.token) /\ \A w \in hookCalls : ~(IsList(w) /\ w.heeded)
        BY <2>4, <3>1 DEF ConsoleIInv, TableSettles
      <4>2. \A w \in hookCalls : WillTell(w) => w = c
        BY <3>2 DEF WillTell
      <4> QED BY <1>2, <2>6, <4>1, <4>2
    <3>4. CASE WillTell(c)
      <4>1. seen = OwnedBy(console.token)
        BY <3>1, <3>4 DEF WillTell
      <4>2. (console.items = OwnedBy(console.token))'
        BY <1>2, <1>5, <4>1 DEF OwnedBy
      <4>3. \A w \in hookCalls' : ~(IsList(w)' /\ w.heeded)
        BY <1>2, <3>2 DEF IsList
      <4> QED BY <4>2, <4>3 DEF TableSettles
    <3>5. CASE \E w \in hookCalls : MayHaveChanged(w)
      BY <2>1, <2>2, <3>5 DEF TableSettles
    <3> QED BY <3>3, <3>4, <3>5
  <2> QED BY <2>5, <2>6
<1>10. PanelUnlocks'
  BY <1>2, <1>4, <1>5 DEF ConsoleIInv, PanelUnlocks
<1>11. FillsAreBehind'
  BY <1>2, <1>5 DEF ConsoleIInv, FillsAreBehind
<1>12. FormIsLocked'
  <2> SUFFICES ASSUME mishaps' \cap {"lost", "unlocked"} = {} PROVE FormIsLocked'
    BY DEF FormIsLocked
  <2>1. /\ \A a \in hookCalls : ~IsList(a) => console.loading /\ \A b \in hookCalls : ~IsList(b) => b = a
        /\ \A a \in hookCalls : a.kind = "create" => console.filled /\ a.fill = console.fill
        /\ console.filled /\ (\E h \in hooks : h.fill = console.fill) =>
             \E a \in hookCalls : a.kind = "create" /\ a.step \in {"ok", "lost"}
    BY <1>3 DEF ConsoleIInv, FormIsLocked
  <2>2. \A a \in hookCalls' : ~IsList(a) => console'.loading
    BY <1>2, <1>3, <1>4, <1>5, <2>1
  <2>3. c.kind # "create"
    BY <1>2 DEF IsList
  <2> QED BY <1>2, <1>5, <2>1, <2>2, <2>3 DEF FormIsLocked, IsList
<1>13. OneHookPerFill'
  BY <1>2, <1>3 DEF ConsoleIInv, OneHookPerFill
<1> QED BY <1>7, <1>8, <1>9, <1>10, <1>11, <1>12, <1>13 DEF ConsoleIInv

LEMMA WriteLanded ==
  ASSUME ConsoleIInv, NEW c \in hookCalls, c.kind \in {"create", "delete"}, c.step # "sent", NEW again \in BOOLEAN,
         mishaps \subseteq mishaps',
         \A d \in hookCalls \ {c} : "unlocked" \in mishaps' \/ IsList(d),
         c.step = "lost" => "lost" \in mishaps',
         c.by # console.token => "stray" \in mishaps',
         console' \in Consoles, console'.token = console.token, console'.items = console.items,
         console'.of = console.of, console'.fill = console.fill, ~console'.loading,
         console'.filled => console.filled,
         c.kind = "create" /\ c.step = "ok" => ~console'.filled,
         again => \E d \in HookCalls : /\ hookCalls' = (hookCalls \ {c}) \cup {d} /\ hookCount' = hookCount + 1
                                       /\ d.kind = "again" /\ d.by = c.by /\ d.step = "sent" /\ d.heeded /\ d.fill = 0,
         ~again => /\ hookCalls' = hookCalls \ {c} /\ hookCount' = hookCount /\ console'.error = console.error
                   /\ c.step \in {"lost", "refused"},
         hooks' = hooks
  PROVE  ConsoleIInv'
<1>1. /\ console \in Consoles /\ hooks \subseteq HookRows /\ hookCalls \subseteq HookCalls /\ hookCount \in Nat
      /\ console.fill \in Nat
  BY DEF ConsoleIInv, ConsoleTypes, Consoles
<1>2. ~IsList(c)
  BY DEF IsList
<1>3. /\ hookCalls' \subseteq HookCalls /\ hookCount' \in Nat
      /\ \A d \in hookCalls' \ (hookCalls \ {c}) : d.kind = "again" /\ d.fill = 0
      /\ hookCalls \ {c} \subseteq hookCalls'
  BY <1>1
<1>4. again => \E d \in hookCalls' : d.kind = "again" /\ d.by = c.by /\ d.step = "sent" /\ d.heeded
  OBVIOUS
<1>5. ConsoleTypes'
  BY <1>1, <1>3 DEF ConsoleTypes
<1>6. FirstIsOfToken'
  BY <1>3 DEF ConsoleIInv, FirstIsOfToken
<1>7. RowsAreOfToken'
  <2>1. CASE again
    BY <1>4, <2>1 DEF RowsAreOfToken, IsList
  <2>2. CASE ~again
    BY <1>2, <2>2 DEF ConsoleIInv, RowsAreOfToken, IsList
  <2> QED BY <2>1, <2>2
<1>8. TableSettles'
  <2> SUFFICES ASSUME console.token # NoOwner, ~console'.error, mishaps' \subseteq {"unlocked"}
               PROVE  TableSettles'
    BY DEF TableSettles
  <2>1. c.by = console.token /\ c.step # "lost"
    OBVIOUS
  <2>2. CASE again
    <3>1. \E d \in hookCalls' : WillTell(d)'
      BY <1>4, <2>1, <2>2 DEF WillTell, IsList
    <3> QED BY <3>1 DEF TableSettles
  <2>3. CASE ~again
    <3>1. ~MayHaveChanged(c) /\ ~WillTell(c)
      BY <1>2, <2>1, <2>3 DEF MayHaveChanged, WillTell
    <3>2. \A w \in hookCalls : w # c => /\ w \in hookCalls'
                                        /\ (MayHaveChanged(w) => MayHaveChanged(w)') /\ (WillTell(w) => WillTell(w)')
      BY <2>3 DEF MayHaveChanged, WillTell, IsList, OwnedBy
    <3>3. \/ \E w \in hookCalls : MayHaveChanged(w)
          \/ \E w \in hookCalls : WillTell(w)
          \/ console.items = OwnedBy(console.token) /\ \A w \in hookCalls : ~(IsList(w) /\ w.heeded)
      BY <2>3 DEF ConsoleIInv, TableSettles
    <3>4. (console.items = OwnedBy(console.token)) => (console.items = OwnedBy(console.token))'
      BY DEF OwnedBy
    <3> QED BY <2>3, <3>1, <3>2, <3>3, <3>4 DEF TableSettles, IsList
  <2> QED BY <2>2, <2>3
<1>9. PanelUnlocks'
  BY DEF PanelUnlocks
<1>10. FillsAreBehind'
  <2>1. 0 <= console.fill
    BY <1>1
  <2> QED BY <1>3, <2>1 DEF ConsoleIInv, FillsAreBehind
<1>11. FormIsLocked'
  <2> SUFFICES ASSUME mishaps' \cap {"lost", "unlocked"} = {} PROVE FormIsLocked'
    BY DEF FormIsLocked
  <2>1. /\ \A a \in hookCalls : ~IsList(a) => \A b \in hookCalls : ~IsList(b) => b = a
        /\ console.filled /\ (\E h \in hooks : h.fill = console.fill) =>
             \E a \in hookCalls : a.kind = "create" /\ a.step \in {"ok", "lost"}
    BY DEF ConsoleIInv, FormIsLocked
  <2>2. \A a \in hookCalls' : IsList(a)
    BY <1>3 DEF IsList
  <2>3. \A a \in hookCalls' : a.kind # "create"
    BY <2>2 DEF IsList
  <2>4. ~(console'.filled /\ \E h \in hooks : h.fill = console.fill)
    <3> SUFFICES ASSUME console'.filled, NEW h \in hooks, h.fill = console.fill PROVE FALSE
      OBVIOUS
    <3>1. PICK a \in hookCalls : a.kind = "create" /\ a.step \in {"ok", "lost"}
      BY <2>1
    <3>2. a = c
      BY <1>2, <2>1, <3>1 DEF IsList
    <3> QED BY <3>1, <3>2
  <2> QED BY <2>2, <2>3, <2>4 DEF FormIsLocked, IsList
<1>12. OneHookPerFill'
  BY DEF ConsoleIInv, OneHookPerFill
<1> QED BY <1>5, <1>6, <1>7, <1>8, <1>9, <1>10, <1>11, <1>12 DEF ConsoleIInv

LEMMA WriteLands ==
  ASSUME ConsoleIInv, NEW c \in hookCalls, CreateLands(c) \/ DeleteLands(c)
  PROVE  ConsoleIInv'
<1>1. /\ console \in Consoles /\ hookCalls \subseteq HookCalls /\ c \in HookCalls /\ ConsoleTypes
  BY DEF ConsoleIInv, ConsoleTypes
<1>2. c.kind \in {"create", "delete"} /\ c.step # "sent" /\ c.step \in HookSteps /\ hooks' = hooks
  BY <1>1 DEF CreateLands, DeleteLands, HookCalls
<1>3. /\ mishaps \subseteq mishaps'
      /\ \A d \in hookCalls \ {c} : "unlocked" \in mishaps' \/ IsList(d)
      /\ c.step = "lost" => "lost" \in mishaps'
      /\ c.by # console.token => "stray" \in mishaps'
  BY Mishaps DEF CreateLands, DeleteLands, Landed
<1>4. PICK again \in BOOLEAN : again <=> c.step = "ok" \/ (c.kind = "delete" /\ c.step # "lost")
  OBVIOUS
<1>5. again => \E d \in HookCalls : /\ hookCalls' = (hookCalls \ {c}) \cup {d} /\ hookCount' = hookCount + 1
                                   /\ d.kind = "again" /\ d.by = c.by /\ d.step = "sent" /\ d.heeded /\ d.fill = 0
  <2> SUFFICES ASSUME again
               PROVE \E d \in HookCalls : /\ hookCalls' = (hookCalls \ {c}) \cup {d} /\ hookCount' = hookCount + 1
                                   /\ d.kind = "again" /\ d.by = c.by /\ d.step = "sent" /\ d.heeded /\ d.fill = 0
    OBVIOUS
  <2>1. PICK k \in HookKinds, m \in Int, z \in Nat : k = "again" /\ m = -1 /\ z = 0
    <3>1. "again" \in HookKinds /\ -1 \in Int
      BY DEF HookKinds
    <3> QED BY <3>1
  <2>2. PICK o \in HookOwners : o = c.by
    BY <1>1 DEF HookCalls
  <2>3. PICK d : d = Call(k, o, m, z)
    OBVIOUS
  <2>4. d \in HookCalls /\ d.kind = k /\ d.by = o /\ d.fill = z /\ d.step = "sent" /\ d.heeded = TRUE
    BY <1>1, <2>3, CallOf DEF Call
  <2>5. hookCalls' = (hookCalls \ {c}) \cup {d} /\ hookCount' = hookCount + 1
    BY <1>2, <1>4, <2>1, <2>2, <2>3 DEF CreateLands, DeleteLands, Refetch, Landed
  <2> QED BY <2>1, <2>2, <2>4, <2>5
<1>6. ~again => /\ hookCalls' = hookCalls \ {c} /\ hookCount' = hookCount
                /\ console' = [console EXCEPT !.loading = FALSE]
                /\ c.step \in {"lost", "refused"}
  BY <1>2, <1>4 DEF CreateLands, DeleteLands, Landed, HookSteps
<1>7. again => \/ console' = FormCleared([console EXCEPT !.loading = FALSE, !.error = FALSE])
               \/ c.kind = "delete" /\ console' = [console EXCEPT !.loading = FALSE, !.error = FALSE]
  BY <1>2, <1>4 DEF CreateLands, DeleteLands
<1>8. /\ console' \in Consoles /\ console'.token = console.token /\ console'.items = console.items
      /\ console'.of = console.of /\ console'.fill = console.fill /\ ~console'.loading
      /\ console'.filled => console.filled
  <2>1. CASE again
    BY <1>1, <1>7, <2>1 DEF Consoles, FormCleared
  <2>2. CASE ~again
    BY <1>1, <1>6, <2>2 DEF Consoles
  <2> QED BY <2>1, <2>2
<1>9. c.kind = "create" /\ c.step = "ok" => ~console'.filled
  BY <1>1, <1>4, <1>7 DEF Consoles, FormCleared
<1>10. ~again => console'.error = console.error
  BY <1>1, <1>6 DEF Consoles
<1> QED BY <1>2, <1>3, <1>5, <1>6, <1>8, <1>9, <1>10, WriteLanded

LEMMA ConsoleSteps == ConsoleIInv /\ [ConsoleNext]_consoleVars => ConsoleIInv'
<1> SUFFICES ASSUME ConsoleIInv, [ConsoleNext]_consoleVars PROVE ConsoleIInv'
  OBVIOUS
<1>1. CASE \E t \in Tokens : AddressChanges(t)
  BY <1>1, PageChanges
<1>2. CASE ToggleForm \/ FillForm
  BY <1>2, FormChanges
<1>3. CASE SaveWebhook \/ \E h \in console.items : RemoveWebhook(h)
  BY <1>3, PanelWrites
<1>4. CASE \E c \in hookCalls : ListHooks(c) \/ CreateHook(c) \/ DeleteHook(c) \/ Refuse(c)
  BY <1>4, ApiServes
<1>5. CASE \E c \in hookCalls : ListLands(c)
  BY <1>5, ListLandsSound
<1>6. CASE \E c \in hookCalls : CreateLands(c) \/ DeleteLands(c)
  BY <1>6, WriteLands
<1>7. CASE UNCHANGED consoleVars
  BY <1>7 DEF consoleVars, ConsoleIInv, ConsoleTypes, FirstIsOfToken, RowsAreOfToken, TableSettles, PanelUnlocks,
         FillsAreBehind, FormIsLocked, OneHookPerFill, MayHaveChanged, WillTell, IsList, OwnedBy
<1> QED BY <1>1, <1>2, <1>3, <1>4, <1>5, <1>6, <1>7 DEF ConsoleNext

-----------------------------------------------------------------------------
(* The tables a wallet is shown: no page that will always be empty, a filter that stays among     *)
(* its options, and webhooks that are the wallet's, that the API holds, that are registered once, *)
(* and whose panel is not left disabled.                                                         *)
THEOREM ListsSound == Spec => []ListsInv
<1>1. Init => HistoryIInv /\ ConsoleIInv
  BY HistoryStarts, ConsoleStarts DEF Init
<1>2. HistoryIInv /\ ConsoleIInv /\ [Next]_vars => (HistoryIInv /\ ConsoleIInv)'
  <2> SUFFICES ASSUME HistoryIInv, ConsoleIInv, [Next]_vars PROVE HistoryIInv' /\ ConsoleIInv'
    OBVIOUS
  <2>1. [HistoryNext]_historyVars
    BY DEF Next, vars, swapVars, pageVars, OnSwap, OnPage, Form, Modal, Wallet, History, Deposit, Panel, Chart, Holdings,
           Hooks
  <2>2. [ConsoleNext]_consoleVars
    BY DEF Next, vars, swapVars, pageVars, OnSwap, OnPage, Form, Modal, Wallet, History, Deposit, Panel, Chart, Holdings,
           Hooks
  <2> QED BY <2>1, <2>2, HistorySteps, ConsoleSteps
<1>3. HistoryIInv /\ ConsoleIInv => ListsInv
  BY HistoryIImplies, ConsoleIImplies DEF ListsInv
<1> QED BY <1>1, <1>2, <1>3, PTL DEF Spec
=============================================================================
