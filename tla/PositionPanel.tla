---------------------------- MODULE PositionPanel ----------------------------
(***************************************************************************)
(* The two screens that change a position: RemoveLiquidityPanel.tsx on      *)
(* useRemoveLiquidity.ts, and the rerange page on useRerangeLiquidity.ts,   *)
(* under usePosition.ts.  The hooks have one status for whatever they       *)
(* submit, and nothing ties an answer to the request it belongs to.         *)
(***************************************************************************)
EXTENDS Integers, FiniteSets

CONSTANTS Shares,        \* percentages to remove, among them 100
          NewTicks,      \* ticks of a new range; the position's own is 1 .. 3
          MaxPanelClicks \* bound on the user's clicks

ASSUME ShareAssumption == 100 \in Shares /\ Shares \subseteq 1..100

VARIABLES kind,          \* "remove" or "rerange", the page
          position,      \* usePosition: "loading", "error", "active" or "closed"
          pct, confirming,
          estimate,      \* percentage the shown amounts are for, or 0 when they are nothing
          estimating,
          estimateCalls, \* estimates under way: [of, cancelled]
          newRange,      \* [lower, upper] of the rerange page
          status,        \* of the hook
          flights,       \* transactions under way: [does, nth, step]
          leaving,       \* the timer to the portfolio is armed
          panelClicks

panelVars == <<kind, position, pct, confirming, estimate, estimating, estimateCalls, newRange, status,
               flights, leaving, panelClicks>>

estimateVars == <<estimate, estimating, estimateCalls>>

Untouched == [lower |-> 1, upper |-> 3]

PanelInit ==
  /\ kind \in {"remove", "rerange"} /\ position = "loading"
  /\ pct = 100 /\ confirming = FALSE
  /\ estimate = 0 /\ estimating = TRUE /\ estimateCalls = {[of |-> 100, cancelled |-> FALSE]}
  /\ newRange = Untouched
  /\ status = "idle" /\ flights = {} /\ leaving = FALSE /\ panelClicks = 0

(* GET /positions/:id.  The rerange page starts from a range a little wider. *)
PositionAnswers ==
  /\ position = "loading" /\ position' \in {"error", "active", "closed"}
  /\ newRange' = [lower |-> 0, upper |-> 4]
  /\ UNCHANGED <<kind, pct, confirming, estimateVars, status, flights, leaving, panelClicks>>

(* The page around the panel: a spinner, an error with the way back, or the panel. *)
PageShows == IF position \in {"loading", "error"} THEN position ELSE "panel"

Ready(k) == kind = k /\ PageShows = "panel" /\ panelClicks < MaxPanelClicks /\ panelClicks' = panelClicks + 1

isBusy == status \in {"signing", "submitting"}
SummaryShown == confirming /\ status # "success"

(* What RemoveLiquidityPanel.tsx offers, and what it says.  A success says so of the share that *)
(* is picked, whatever succeeded.                                                              *)
CollectOffered == ~isBusy /\ position = "active"
AmountsShown == IF estimating THEN {} ELSE {estimate}
RemoveSays ==
  CASE status = "success" -> IF pct = 100 THEN "closed, redirecting" ELSE "removed"
    [] status = "error" -> "failed, dismiss"
    [] status = "idle" /\ position = "closed" -> "already closed"
    [] OTHER -> "nothing"

RemoveButtons ==
  [ask     |-> ~confirming /\ ~isBusy /\ position = "active" /\ status # "success" /\ ~estimating,
   cancel  |-> SummaryShown,
   confirm |-> SummaryShown /\ ~estimating]

(* The same of the rerange page: its fields are open whatever is under way. *)
RerangeView ==
  [rerange |-> ~isBusy /\ status # "success" /\ newRange.lower < newRange.upper /\ newRange # Untouched,
   spins   |-> isBusy,
   says    |-> IF status = "success" THEN "reranged" ELSE IF status = "error" THEN "failed, dismiss" ELSE "nothing"]

-----------------------------------------------------------------------------
(* The percentage and what it is worth *)

(* Variant: an estimate is taken whatever it is for. *)
AlwaysWanted(c) == TRUE
StillWanted(c) == ~c.cancelled

(* estimateRemoveAmounts: the amounts of a percentage, or none for a share that rounds to      *)
(* nothing.  After an exception its promise never settles: the call stays under way for good,  *)
(* as any call here may, and the panel goes on loading.                                        *)
Estimated(p) == {p, 0}

EstimateAnswers ==
  \E c \in estimateCalls :
    /\ kind = "remove" /\ PageShows = "panel"
    /\ estimateCalls' = estimateCalls \ {c}
    /\ IF StillWanted(c) THEN estimating' = FALSE /\ estimate' \in Estimated(c.of) ELSE UNCHANGED <<estimate, estimating>>
    /\ UNCHANGED <<kind, position, pct, confirming, newRange, status, flights, leaving, panelClicks>>

(* The effect on status and pct: its cleanup clears the timer of the run before. *)
Timer(s, p) == kind = "remove" /\ s = "success" /\ p = 100

Share(p) == confirming' = FALSE /\ pct' = p

(* A preset, the slider, or a number typed; what is typed out of range only closes the summary. *)
PickShare(p) ==
  /\ Ready("remove") /\ Share(p)
  /\ IF p = pct THEN UNCHANGED <<estimateVars, leaving>>
     ELSE /\ estimating' = TRUE /\ UNCHANGED estimate
          /\ estimateCalls' = {[c EXCEPT !.cancelled = TRUE] : c \in estimateCalls}
                                \cup {[of |-> p, cancelled |-> FALSE]}
          /\ leaving' = Timer(status, p)
  /\ UNCHANGED <<kind, position, newRange, status, flights>>

Asks(yes) ==
  /\ confirming' = yes
  /\ UNCHANGED <<kind, position, pct, estimateVars, newRange, status, flights, leaving>>

OpenSummary ==
  /\ Ready("remove") /\ RemoveButtons.ask
  /\ Asks(TRUE)

CancelSummary == Ready("remove") /\ RemoveButtons.cancel /\ Asks(FALSE)

-----------------------------------------------------------------------------
(* The transactions *)

(* A new status re-runs the effect. *)
Becomes(s) == status' = s /\ leaving' = IF s = status THEN leaving ELSE Timer(s, pct)

(* The transaction is built and handed to the wallet, or cannot be built. *)
Start(does) ==
  /\ \/ Becomes("signing") /\ flights' = flights \cup {[does |-> does, nth |-> panelClicks, step |-> "wallet"]}
     \/ Becomes("error") /\ UNCHANGED flights
  /\ UNCHANGED <<kind, position, pct, estimateVars, newRange>>

ConfirmRemove ==
  /\ Ready("remove") /\ RemoveButtons.confirm /\ confirming' = FALSE
  /\ Start("remove")

CollectFees ==
  /\ Ready("remove") /\ CollectOffered
  /\ Start("collect") /\ UNCHANGED confirming

Rerange ==
  /\ Ready("rerange") /\ RerangeView.rerange
  /\ Start("rerange") /\ UNCHANGED confirming

TypeRange(r) ==
  /\ Ready("rerange") /\ r # newRange /\ newRange' = r
  /\ UNCHANGED <<kind, position, pct, confirming, estimateVars, status, flights, leaving>>

TurnedDown(s) == "error"

Rest == UNCHANGED <<kind, position, pct, confirming, estimateVars, newRange, panelClicks>>

(* Freighter signs, or hands nothing back, or throws. *)
WalletReturns(f) ==
  /\ f.step = "wallet" /\ Rest
  /\ \/ Becomes("submitting") /\ flights' = (flights \ {f}) \cup {[f EXCEPT !.step = "posting"]}
     \/ Becomes(TurnedDown(status)) /\ flights' = flights \ {f}

(* POST /transactions answers; a position that is closed already is an error of its own. *)
PostReturns(f) ==
  /\ f.step = "posting" /\ flights' = flights \ {f} /\ Rest
  /\ \/ Becomes("success")
     \/ Becomes("error")

DismissError ==
  /\ \/ Ready("remove") /\ RemoveSays = "failed, dismiss"
     \/ Ready("rerange") /\ RerangeView.says = "failed, dismiss"
  /\ Becomes("idle")
  /\ UNCHANGED <<kind, position, pct, confirming, estimateVars, newRange, flights>>

PanelStep ==
  \/ PositionAnswers \/ EstimateAnswers
  \/ \E f \in flights : WalletReturns(f) \/ PostReturns(f)

PanelNext ==
  \/ PanelStep \/ OpenSummary \/ CancelSummary \/ ConfirmRemove \/ CollectFees \/ Rerange \/ DismissError
  \/ \E p \in Shares : PickShare(p)
  \/ \E l, u \in NewTicks : TypeRange([lower |-> l, upper |-> u])

PanelSpec == PanelInit /\ [][PanelNext]_panelVars

-----------------------------------------------------------------------------
(* The amounts shown are those of the percentage that a confirmation would send, or none at    *)
(* all: never those of a percentage picked before.                                            *)
EstimateFitsShare == AmountsShown \subseteq Estimated(pct)

(* The way to the portfolio is open exactly while the panel says that it redirects: neither a  *)
(* smaller percentage nor a new transaction leaves the timer running.                         *)
TimerFitsStatus == kind = "remove" => (leaving <=> RemoveSays = "closed, redirecting")

(* A panel that waits for a signature or a submission has a transaction under way: of two that *)
(* overlap, the answer of neither leaves it waiting for nothing.                               *)
SpinnerHasTransaction == isBusy => flights # {}

(* A position is not moved twice at once: the second transaction would burn what the first     *)
(* one has moved.                                                                              *)
OneRerangeAtATime == kind = "rerange" => Cardinality(flights) <= 1

(* A panel estimates, leaves and moves what it says it does.                                  *)
PanelInv == EstimateFitsShare /\ TimerFitsStatus /\ SpinnerHasTransaction /\ OneRerangeAtATime
=============================================================================
