----------------------------- MODULE SwapQuoting -----------------------------
(***************************************************************************)
(* The form of SwapWidget.tsx with the two hooks that feed it: usePoolId    *)
(* (useTokens.ts), which looks the pool of the pair up, and useSwapQuote,   *)
(* which asks for a quote 350 ms after the last change and again on every   *)
(* price push.  An effect runs with the change that triggers it.  An amount *)
(* stands for amountIn with slippageBps: a change of either re-runs the     *)
(* same effects.                                                            *)
(***************************************************************************)
EXTENDS Integers, FiniteSets

CONSTANTS SwapTokens,    \* what GET /tokens returns
          PoolOfPair,    \* function: set of two tokens -> its pool, or NoPool
          Amounts,       \* positive amounts; 0 is the empty field
          AmountOutOf,   \* function: amount -> amountOut of its quote
          RouterSet,     \* TRUE iff NEXT_PUBLIC_ROUTER_ADDRESS is configured
          MaxEdits,      \* bound on the user's edits
          MaxPushes      \* bound on price pushes

VARIABLES tokenList,     \* "loading", "error" or "ready"
          form,          \* [tokenIn, tokenOut, amountIn, amountOut, mode]
          poolId,        \* state of usePoolId, with the pool's fee tier
          poolExists,    \* the same: "unknown", "yes" or "no"
          lookup,        \* the pair whose lookup is not cancelled, or NoPair
          quote,         \* [for, by], or NoQuote
          loading,
          timer,         \* the debounce timer is armed, for the present inputs
          fetches,       \* requests in flight: [for, by, latest, aborted]
          edits, pushes

quotingVars == <<tokenList, form, poolId, poolExists, lookup, quote, loading, timer, fetches, edits, pushes>>

NoToken == "no token"
NoPool  == "no pool"
NoPair  == <<NoToken, NoToken>>
NoQuote == [for |-> <<NoPool, NoToken, NoToken, 0>>, by |-> "none"]

PairOf(f) == <<f.tokenIn, f.tokenOut>>
BothSet(p) == p[1] # NoToken /\ p[2] # NoToken

(* The dependencies of both effects of useSwapQuote. *)
Inputs(f, p) == <<p, f.tokenIn, f.tokenOut, f.amountIn>>
Complete(i) == i[1] # NoPool /\ BothSet(<<i[2], i[3]>>) /\ i[4] > 0

QuotingInit ==
  /\ tokenList = "loading"
  /\ form = [tokenIn |-> NoToken, tokenOut |-> NoToken, amountIn |-> 0, amountOut |-> 0, mode |-> "exactIn"]
  /\ poolId = NoPool /\ poolExists = "unknown" /\ lookup = NoPair
  /\ quote = NoQuote /\ loading = FALSE /\ timer = FALSE /\ fetches = {}
  /\ edits = 0 /\ pushes = 0

TokensAnswer ==
  /\ tokenList = "loading" /\ tokenList' \in {"error", "ready"}
  /\ UNCHANGED <<form, poolId, poolExists, lookup, quote, loading, timer, fetches, edits, pushes>>

(* Variant: neither sequenced nor aborted. *)
NeverOvertaken(fs) == fs

(* ++sequenceRef: no earlier request is the latest any more; abort() reaches the timed one. *)
Overtaken(fs) == {[r EXCEPT !.latest = FALSE, !.aborted = (r.by = "timer")] : r \in fs}

(* The effect on changed inputs.  Incomplete inputs do not touch the sequence or the request. *)
Requote(f, p) ==
  IF Inputs(f, p) = Inputs(form, poolId)
  THEN UNCHANGED <<quote, loading, timer, fetches>>
  ELSE IF Complete(Inputs(f, p))
  THEN /\ loading' = TRUE /\ timer' = TRUE
       /\ fetches' = Overtaken(fetches)
       /\ UNCHANGED quote
  ELSE /\ quote' = NoQuote /\ loading' = FALSE /\ timer' = FALSE
       /\ UNCHANGED fetches

(* A changed pair cancels the lookup under way and starts its own; poolId stays until then. *)
Relook(f) ==
  IF PairOf(f) = PairOf(form) THEN UNCHANGED <<poolId, poolExists, lookup>> /\ Requote(f, poolId)
  ELSE IF BothSet(PairOf(f))
  THEN lookup' = PairOf(f) /\ UNCHANGED <<poolId, poolExists>> /\ Requote(f, poolId)
  ELSE lookup' = NoPair /\ poolId' = NoPool /\ poolExists' = "unknown" /\ Requote(f, NoPool)

Edit(f) ==
  /\ tokenList = "ready" /\ edits < MaxEdits
  /\ form' = f /\ edits' = edits + 1
  /\ Relook(f)
  /\ UNCHANGED <<tokenList, pushes>>

(* A picker leaves the other side's token out of its list. *)
Available(exclude) == SwapTokens \ {exclude}

SelectIn(t)  == t \in Available(form.tokenOut) \ {form.tokenIn} /\ Edit([form EXCEPT !.tokenIn = t])
SelectOut(t) == t \in Available(form.tokenIn) \ {form.tokenOut} /\ Edit([form EXCEPT !.tokenOut = t])

SwapDirection ==
  /\ form.tokenIn # form.tokenOut
  /\ Edit([form EXCEPT !.tokenIn = form.tokenOut, !.tokenOut = form.tokenIn,
                       !.amountIn = IF quote = NoQuote THEN 0 ELSE AmountOutOf[quote.for[4]]])

TypeAmount(a) ==
  \/ form.mode = "exactIn" /\ a # form.amountIn /\ Edit([form EXCEPT !.amountIn = a])
  \/ form.mode = "exactOut" /\ a # form.amountOut /\ Edit([form EXCEPT !.amountOut = a])

ToggleMode ==
  /\ RouterSet
  /\ Edit([form EXCEPT !.mode = IF @ = "exactIn" THEN "exactOut" ELSE "exactIn"])

Uncancelled == {lookup} \ {NoPair}

PoolKnown(p, exists) ==
  /\ poolId' = p /\ poolExists' = exists /\ lookup' = NoPair
  /\ Requote(form, p)
  /\ UNCHANGED <<tokenList, form, edits, pushes>>

(* GET /pools answers, with the pool of the pair or without one, or fails. *)
PoolAnswers ==
  \E pair \in Uncancelled :
    LET own == PoolOfPair[{pair[1], pair[2]}]
    IN PoolKnown(own, IF own = NoPool THEN "no" ELSE "yes") \/ PoolKnown(NoPool, "unknown")

Request(by) == [for |-> Inputs(form, poolId), by |-> by, latest |-> by = "timer", aborted |-> FALSE]

Debounced ==
  /\ timer /\ timer' = FALSE
  /\ fetches' = fetches \cup {Request("timer")}
  /\ UNCHANGED <<tokenList, form, poolId, poolExists, lookup, quote, loading, edits, pushes>>

(* A price event of the subscribed pool; its request is neither sequenced nor aborted. *)
PricePush ==
  /\ pushes < MaxPushes /\ Complete(Inputs(form, poolId))
  /\ fetches' = fetches \cup {Request("push")} /\ pushes' = pushes + 1
  /\ UNCHANGED <<tokenList, form, poolId, poolExists, lookup, quote, loading, timer, edits>>

(* POST /swaps/quote refuses a pair that is not the pool's; it may also fail, or be aborted. *)
Results(r) ==
  (IF r.aborted \/ PoolOfPair[{r.for[2], r.for[3]}] # r.for[1] THEN {}
   ELSE {[for |-> r.for, by |-> r.by]}) \cup {NoQuote}

Taken(r) == r.by = "push" \/ r.latest

StillLoading(r, q) == loading /\ ~(r.by = "timer" /\ Taken(r))

QuoteAnswers ==
  \E r \in fetches : \E q \in Results(r) :
    /\ fetches' = fetches \ {r}
    /\ quote' = IF Taken(r) THEN q ELSE quote
    /\ loading' = StillLoading(r, q)
    /\ UNCHANGED <<tokenList, form, poolId, poolExists, lookup, timer, edits, pushes>>

QuotingEdit ==
  \/ \E t \in SwapTokens : SelectIn(t) \/ SelectOut(t)
  \/ SwapDirection
  \/ \E a \in Amounts \cup {0} : TypeAmount(a)
  \/ ToggleMode

QuotingStep == TokensAnswer \/ PoolAnswers \/ Debounced \/ QuoteAnswers

QuotingNext == QuotingEdit \/ PricePush \/ QuotingStep

QuotingSpec == QuotingInit /\ [][QuotingNext]_quotingVars

-----------------------------------------------------------------------------
(* The confirmation. *)
ExactOutQuote == form.mode = "exactOut" /\ poolId # NoPool /\ BothSet(PairOf(form)) /\ form.amountOut > 0

(* What SwapConfirmModal needs to be mounted, wallet and showModal apart. *)
ModalReady ==
  /\ BothSet(PairOf(form)) /\ poolId # NoPool
  /\ IF form.mode = "exactIn" THEN quote # NoQuote /\ ~loading ELSE ExactOutQuote

(* "No pool exists for this pair." *)
NoPoolWarning == poolExists = "no" /\ BothSet(PairOf(form))

Shown == quote # NoQuote /\ ~loading /\ BothSet(PairOf(form))

(* The debounced requests never show "a stale quote for the previous token pair" as if it     *)
(* were current (SwapWidget.tsx:468): with complete inputs, a quote they brought is for those *)
(* inputs, whatever was cleared, aborted or answered out of order before.  The requests made  *)
(* on a price event keep no such promise (useSwapQuote.ts:148).                               *)
TimedQuoteIsCurrent ==
  Shown /\ Complete(Inputs(form, poolId)) /\ quote.by = "timer" => quote.for = Inputs(form, poolId)

(* With complete inputs the spinner shows exactly while a quote for them is on its way: an    *)
(* overtaken or aborted request neither stops it nor keeps it going.                          *)
LoadingMeansPending ==
  Complete(Inputs(form, poolId)) =>
    (loading <=> timer \/ \E r \in fetches : r.by = "timer" /\ r.latest /\ r.for = Inputs(form, poolId))

(* Once no lookup is under way, a swap that can be confirmed, of either mode, goes through    *)
(* the pool, and the fee tier, of the selected pair, however the pair changed while earlier   *)
(* lookups were answered.                                                                     *)
RoutedThroughOwnPool ==
  ModalReady /\ lookup = NoPair => poolId = PoolOfPair[{form.tokenIn, form.tokenOut}]

(* The form says that there is no pool only of a pair that has none, once its lookup is over;  *)
(* and a pair that is not said to have none, and whose lookup is over, has its pool, or the     *)
(* lookup failed.                                                                             *)
WarningIsTrue ==
  lookup = NoPair /\ BothSet(PairOf(form)) =>
    IF NoPoolWarning THEN PoolOfPair[{form.tokenIn, form.tokenOut}] = NoPool
    ELSE poolId = PoolOfPair[{form.tokenIn, form.tokenOut}] \/ poolExists = "unknown"

(* The form shows the quote, the spinner and the pool of what was entered.                    *)
QuotingInv ==
  TimedQuoteIsCurrent /\ LoadingMeansPending /\ RoutedThroughOwnPool /\ WarningIsTrue
=============================================================================
