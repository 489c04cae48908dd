---------------------------- MODULE SwapExecution ----------------------------
(***************************************************************************)
(* SwapConfirmModal.tsx with useSwapExecution.ts, the app-wide status pill  *)
(* (TransactionStatusContext.tsx, TransactionStatusIndicator.tsx) and the   *)
(* submission path (mev-submission.ts, useMevProtection.ts).  SwapWidget    *)
(* mounts the modal while showModal is set and its quote is there; a price  *)
(* push may take the quote away.  The wallet and the API are external.      *)
(***************************************************************************)
EXTENDS Integers, FiniteSets

CONSTANTS Attempts,        \* calls of handleConfirm and handleRetry
          Modals,          \* mounts of the modal, 1..n
          MevUrlValid      \* NEXT_PUBLIC_MEV_PROTECTED_RPC_URL is a valid URL

ASSUME ModalAssumption == Modals \subseteq Nat \ {0}

VARIABLES quoted,          \* what SwapWidget needs for the modal besides showModal
          showModal,
          modal,           \* [inst, status, error, mismatch, mev], inst = 0 when unmounted
          mounts,          \* how often the modal has been mounted
          attempt,         \* function: attempt -> [at, inst, mev, via]
          pill,            \* pendingTx: [status, hash, by], by is history
          stored,          \* the same under swyft_pending_tx in sessionStorage
          walletOn,        \* Freighter is on the app's network
          mevPref,         \* swyft:mev_protection in localStorage
          loose,           \* history: mounts that may have left an attempt running
          public           \* history: mounts at which the preference was off

executionVars == <<quoted, showModal, modal, mounts, attempt, pill, stored, walletOn, mevPref, loose, public>>

NoHash == "no hash"
NoPill == [status |-> "none", hash |-> NoHash, by |-> 0]
NoModal == [inst |-> 0, status |-> "idle", error |-> "none", mismatch |-> FALSE, mev |-> FALSE]
Unmade == [at |-> "none", inst |-> 0, mev |-> FALSE, via |-> "none"]
Busy == {"signing", "submitting"}
Final == {"success", "error"}
Mounted == modal.inst # 0

ExecutionInit ==
  /\ quoted = TRUE /\ showModal = FALSE /\ modal = NoModal /\ mounts = 0
  /\ attempt = [a \in Attempts |-> Unmade]
  /\ pill = NoPill /\ stored = NoPill
  /\ walletOn \in BOOLEAN /\ mevPref \in BOOLEAN
  /\ loose = {} /\ public = {}

ReportTx(p) == pill' = p /\ stored' = p

(* A new instance: idle, so its effect reports null; the MEV preference is read on mount. *)
Mount ==
  /\ (mounts + 1) \in Modals /\ mounts' = mounts + 1
  /\ modal' = [NoModal EXCEPT !.inst = mounts + 1, !.mev = mevPref]
  /\ ReportTx(NoPill)
  /\ public' = public \cup (IF mevPref THEN {} ELSE {mounts + 1})

(* What SwapConfirmModal.tsx offers, and what it says. *)
CloseOffered == Mounted /\ modal.status \notin Busy

ModalView ==
  [confirm |-> Mounted /\ modal.status = "idle" /\ ~modal.mismatch,
   retry   |-> Mounted /\ modal.status = "error" /\ modal.error \in {"slippage", "network"},
   waits   |-> Mounted /\ modal.status \in Busy,
   warns   |-> Mounted /\ modal.status = "idle" /\ modal.mismatch]

(* The instance is gone with its state; the attempts it started, `over` apart, go on. *)
AtWork(a) == attempt[a].inst = modal.inst /\ attempt[a].at \in Busy \cup {"checking"}
Unmount(over) ==
  /\ modal' = NoModal
  /\ loose' = loose \cup (IF \E a \in Attempts \ over : AtWork(a) THEN {modal.inst} ELSE {})

OpenModal ==
  /\ quoted /\ ~showModal
  /\ showModal' = TRUE /\ Mount
  /\ UNCHANGED <<quoted, attempt, walletOn, mevPref, loose>>

(* The re-quote of a price push fails, or brings the quote back. *)
LoseQuote ==
  /\ quoted /\ quoted' = FALSE
  /\ IF Mounted THEN Unmount({}) ELSE UNCHANGED <<modal, loose>>
  /\ UNCHANGED <<showModal, mounts, attempt, pill, stored, walletOn, mevPref, public>>

RegainQuote ==
  /\ ~quoted /\ quoted' = TRUE
  /\ IF showModal THEN Mount ELSE UNCHANGED <<modal, mounts, pill, stored, public>>
  /\ UNCHANGED <<showModal, attempt, walletOn, mevPref, loose>>

(* Escape, the overlay and the close button; Escape needs idle, the others only not busy. *)
CloseModal ==
  /\ CloseOffered
  /\ showModal' = FALSE /\ Unmount({})
  /\ UNCHANGED <<quoted, mounts, attempt, pill, stored, walletOn, mevPref, public>>

(* checkNetwork on mount and on focus; a failing getNetwork changes nothing. *)
ProbeNetwork ==
  /\ Mounted /\ modal' = [modal EXCEPT !.mismatch = ~walletOn]
  /\ UNCHANGED <<quoted, showModal, mounts, attempt, pill, stored, walletOn, mevPref, loose, public>>

-----------------------------------------------------------------------------

(* setResult of the instance `i`: a no-op once it is unmounted.  The effect reports a changed *)
(* result; on success the modal then tells SwapWidget, which closes it and clears the amount. *)
Reported(status, hash) == IF status = "idle" THEN NoPill ELSE [status |-> status, hash |-> hash, by |-> modal.inst]

SetResult(i, status, error, hash) ==
  IF i # modal.inst THEN UNCHANGED <<quoted, showModal, modal, pill, stored, loose>>
  ELSE IF <<status, error>> = <<modal.status, modal.error>>
  THEN UNCHANGED <<quoted, showModal, modal, pill, stored, loose>>
  ELSE /\ ReportTx(Reported(status, hash))
       /\ IF status = "success"
          THEN showModal' = FALSE /\ quoted' = FALSE /\ Unmount({hash})
          ELSE /\ modal' = [modal EXCEPT !.status = status, !.error = error]
               /\ UNCHANGED <<quoted, showModal, loose>>

Moved(a, place, via) == [at |-> place, inst |-> attempt[a].inst, mev |-> attempt[a].mev, via |-> via]
Takes(a, place, via) == attempt' = [attempt EXCEPT ![a] = Moved(a, place, via)]
At(a, place) == Takes(a, place, attempt[a].via)
Unrelated == UNCHANGED <<mounts, walletOn, mevPref, public>>

(* The name of the next call: the names mean nothing, so calls take them in one fixed order. *)
NextCall == CHOOSE a \in Attempts : attempt[a] = Unmade

(* handleConfirm up to its await: the status is idle meanwhile, so a second click counts. *)
Confirm(a) ==
  /\ ModalView.confirm /\ attempt[a] = Unmade /\ a = NextCall
  /\ attempt' = [attempt EXCEPT ![a] = [at |-> "checking", inst |-> modal.inst, mev |-> modal.mev, via |-> "none"]]
  /\ loose' = IF \E b \in Attempts : attempt[b].inst = modal.inst /\ attempt[b].at = "checking"
              THEN loose \cup {modal.inst} ELSE loose
  /\ UNCHANGED <<quoted, showModal, modal, mounts, pill, stored, walletOn, mevPref, public>>

(* The wallet names its network; a mismatch stops the swap, a failing getNetwork does not. *)
CheckAnswers(a) ==
  /\ attempt[a].at = "checking"
  /\ \/ /\ At(a, "signing") /\ SetResult(attempt[a].inst, "signing", "none", NoHash)
     \/ /\ ~walletOn /\ At(a, "done")
        /\ modal' = IF attempt[a].inst = modal.inst THEN [modal EXCEPT !.mismatch = TRUE] ELSE modal
        /\ UNCHANGED <<quoted, showModal, pill, stored, loose>>
  /\ Unrelated

(* handleRetry: reset and submit at once, with no check of the network. *)
Retry(a) ==
  /\ ModalView.retry /\ attempt[a] = Unmade /\ a = NextCall
  /\ attempt' = [attempt EXCEPT ![a] = [at |-> "signing", inst |-> modal.inst, mev |-> modal.mev, via |-> "none"]]
  /\ SetResult(modal.inst, "signing", "none", NoHash)
  /\ Unrelated

WalletSigns(a) ==
  /\ attempt[a].at = "signing" /\ At(a, "submitting")
  /\ SetResult(attempt[a].inst, "submitting", "none", NoHash)
  /\ Unrelated

(* Rejected, or no signed XDR: back to idle without a word. *)
WalletRejects(a) ==
  /\ attempt[a].at = "signing" /\ At(a, "done")
  /\ SetResult(attempt[a].inst, "idle", "none", NoHash)
  /\ Unrelated

SigningThrows(a) ==
  /\ attempt[a].at = "signing" /\ At(a, "done")
  /\ SetResult(attempt[a].inst, "error", "network", NoHash)
  /\ Unrelated

Path(mev) == IF ~mev THEN "api" ELSE IF MevUrlValid THEN "mev-rpc" ELSE "refused"

(* submitTransaction: the private endpoint or the API, and no other way if that one fails. *)
Submitted(a) ==
  /\ attempt[a].at = "submitting" /\ Path(attempt[a].mev) # "refused"
  /\ Takes(a, "done", Path(attempt[a].mev))
  /\ SetResult(attempt[a].inst, "success", "none", a)
  /\ Unrelated

SubmitFails(a) ==
  /\ attempt[a].at = "submitting"
  /\ \E error \in IF Path(attempt[a].mev) = "refused" THEN {"network"} ELSE {"network", "slippage"} :
       SetResult(attempt[a].inst, "error", error, NoHash)
  /\ Takes(a, "done", Path(attempt[a].mev))
  /\ Unrelated

-----------------------------------------------------------------------------
(* The pill's own button, or its 12 s timer; neither while it is busy. *)
Dismiss ==
  /\ pill.status \in Final /\ ReportTx(NoPill)
  /\ UNCHANGED <<quoted, showModal, modal, mounts, attempt, walletOn, mevPref, loose, public>>

(* Variant: whatever was stored is resumed. *)
HydrateAll == stored
Hydrated == IF stored.status \in Final THEN stored ELSE NoPill

(* The page is loaded again: promises and component state are gone, storage is not. *)
Reload ==
  /\ quoted' = FALSE /\ showModal' = FALSE /\ modal' = NoModal
  /\ attempt' = [a \in Attempts |-> IF attempt[a].at = "none" THEN attempt[a] ELSE Moved(a, "done", attempt[a].via)]
  /\ ReportTx(Hydrated)
  /\ UNCHANGED <<mounts, walletOn, mevPref, loose, public>>

SwitchNetwork ==
  /\ walletOn' = ~walletOn
  /\ UNCHANGED <<quoted, showModal, modal, mounts, attempt, pill, stored, mevPref, loose, public>>

(* MevToggle, here or in another tab: the mounted modal keeps what it read. *)
ToggleMev ==
  /\ mevPref' = ~mevPref
  /\ UNCHANGED <<quoted, showModal, modal, mounts, attempt, pill, stored, walletOn, loose, public>>

(* What comes by itself once an attempt is made: the checks, the wallet, the submission. *)
AttemptStep(a) ==
  CheckAnswers(a) \/ WalletSigns(a) \/ WalletRejects(a) \/ SigningThrows(a) \/ Submitted(a) \/ SubmitFails(a)

ExecutionNext ==
  \/ OpenModal \/ LoseQuote \/ RegainQuote \/ CloseModal \/ ProbeNetwork
  \/ \E a \in Attempts : Confirm(a) \/ Retry(a) \/ AttemptStep(a)
  \/ Dismiss \/ Reload \/ SwitchNetwork \/ ToggleMev

ExecutionSpec == ExecutionInit /\ [][ExecutionNext]_executionVars

-----------------------------------------------------------------------------
Live(a) == attempt[a].at \in Busy

(* A busy pill is about the modal on the screen, or about one that was unmounted while it was *)
(* at work: no reload, close or retry leaves a busy pill behind.                              *)
PillBacked ==
  pill.status \in Busy =>
    pill.by \in loose \/ (pill.by = modal.inst /\ pill.status = modal.status)

(* sessionStorage says what the pill says, over reports, dismissals and reloads. *)
StorageMirrorsPill == stored = pill

(* Two swaps are under way at once only if one of them was started by a modal that was         *)
(* unmounted at work, or confirmed again while its network check was still running.            *)
OneSwapAtATime ==
  \A a, b \in Attempts : a # b /\ Live(a) /\ Live(b) => {attempt[a].inst, attempt[b].inst} \cap loose # {}

(* A swap only takes the public path if the user had MEV protection off when its modal was     *)
(* mounted: neither a failing or missing private endpoint, nor a retry, is such a reason.      *)
PrivateStaysPrivate ==
  \A a \in Attempts : attempt[a].via = "api" => attempt[a].inst \in public

(* A modal that waits, and so cannot be closed, waits for an attempt of its own that is at     *)
(* that very step: with attempts that overlap, none of their answers locks the user in.        *)
WaitsForOwnAttempt ==
  ModalView.waits => \E a \in Attempts : attempt[a].inst = modal.inst /\ attempt[a].at = modal.status

(* The pill is about a swap under way, and swaps neither overlap nor change their path.       *)
ExecutionInv == WaitsForOwnAttempt /\ PillBacked /\ StorageMirrorsPill /\ OneSwapAtATime /\ PrivateStaysPrivate
=============================================================================
