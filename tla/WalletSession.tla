---------------------------- MODULE WalletSession ----------------------------
(***************************************************************************)
(* The wallet session of the web app: useWallet.ts under WalletContext, the *)
(* selected network of NetworkContext.tsx, and the two menus that drive     *)
(* them, NetworkSwitcher.tsx and WalletButton.tsx.  Freighter is external.  *)
(***************************************************************************)
EXTENDS Integers, FiniteSets

CONSTANTS Nets,          \* the networks the app can select
          DefaultNet,    \* SWYFT_NETWORK, of the build
          Account,       \* the account of the wallet
          MaxClicks,     \* bound on the user's clicks
          MaxLoads       \* bound on page loads

ASSUME NetAssumption == DefaultNet \in Nets

VARIABLES network,       \* NetworkContext
          storedNet,     \* swyft_selected_network in localStorage
          address,       \* [addr, for]: for is history, the network it was validated against
          walletError, connecting, restoring,
          storedAddr,    \* swyft_wallet_address in localStorage
          calls,         \* restores and connects in flight: [kind, target, at]
          walletNet,     \* network Freighter is on, changed in Freighter
          clicks, loads,
          late,          \* history: a call validated against a network left since
          ended          \* history: disconnected, with nothing in flight, and not connected since

sessionVars == <<network, storedNet, address, walletError, connecting, restoring, storedAddr,
                 calls, walletNet, clicks, loads, late, ended>>

NoAddress == "no address"
NoNet == "no network"
NotConnected == [addr |-> NoAddress, for |-> NoNet]

Restore(net) == [kind |-> "restore", target |-> net, at |-> "asking"]

(* The providers mount: a restore against the default network, and another one as soon as the *)
(* persisted selection has replaced it.                                                       *)
Load ==
  LET net == IF storedNet = NoNet THEN DefaultNet ELSE storedNet
  IN /\ network' = net
     /\ address' = NotConnected /\ walletError' = "none" /\ connecting' = FALSE
     /\ restoring' = (storedAddr # NoAddress)
     /\ calls' = IF storedAddr = NoAddress THEN {} ELSE {Restore(DefaultNet), Restore(net)}
     /\ late' = FALSE

SessionInit ==
  /\ network = DefaultNet /\ storedNet = NoNet
  /\ address = NotConnected /\ walletError = "none" /\ connecting = FALSE /\ restoring = FALSE
  /\ storedAddr = NoAddress /\ calls = {}
  /\ walletNet \in Nets
  /\ clicks = 0 /\ loads = 0 /\ late = FALSE /\ ended = FALSE

Reloaded ==
  /\ loads < MaxLoads /\ loads' = loads + 1
  /\ Load
  /\ UNCHANGED <<storedNet, storedAddr, walletNet, clicks, ended>>

Click == clicks < MaxClicks /\ clicks' = clicks + 1

(* The button shows once nothing is being restored and nobody is connected. *)
Connect ==
  /\ Click /\ ~restoring /\ address = NotConnected /\ ~connecting
  /\ connecting' = TRUE /\ walletError' = "none"
  /\ calls' = calls \cup {[kind |-> "connect", target |-> network, at |-> "asking"]}
  /\ ended' = FALSE
  /\ UNCHANGED <<network, storedNet, address, restoring, storedAddr, walletNet, loads, late>>

(* Variant: only the state is cleared. *)
ForgetState == address' = NotConnected /\ walletError' = "none" /\ UNCHANGED storedAddr
Forget == address' = NotConnected /\ walletError' = "none" /\ storedAddr' = NoAddress

Disconnect ==
  /\ Click /\ address # NotConnected /\ ~restoring
  /\ Forget /\ ended' = (calls = {})
  /\ UNCHANGED <<network, storedNet, connecting, restoring, calls, walletNet, loads, late>>

DropSession == IF address # NotConnected THEN Forget ELSE UNCHANGED <<address, walletError, storedAddr>>

(* A connected session is dropped; a stored one that is still being restored is not.  The new *)
(* target re-runs the restore effect.                                                         *)
SelectNetwork(net) ==
  /\ Click /\ net # network
  /\ DropSession
  /\ network' = net /\ storedNet' = net
  /\ calls' = calls \cup (IF storedAddr' = NoAddress THEN {} ELSE {Restore(net)})
  /\ restoring' = (restoring /\ storedAddr' # NoAddress)
  /\ UNCHANGED <<connecting, walletNet, loads, late, ended>>

-----------------------------------------------------------------------------
(* try .. finally of restore and of connect. *)
Finish(c) ==
  /\ calls' = calls \ {c}
  /\ restoring' = (restoring /\ c.kind = "connect")
  /\ connecting' = (connecting /\ c.kind = "restore")

Outside == UNCHANGED <<network, storedNet, walletNet, clicks, loads, ended>>

(* isConnected, then isAllowed and getAddress, or requestAccess: the wallet says yes, ... *)
WalletGrants(c) ==
  /\ c.at = "asking"
  /\ calls' = (calls \ {c}) \cup {[c EXCEPT !.at = "validating"]}
  /\ Outside /\ UNCHANGED <<address, walletError, connecting, restoring, storedAddr, late>>

FinishRefused(c) == Finish(c)

(* ... or is not there, or not allowed, or rejects. *)
WalletRefuses(c) ==
  /\ c.at = "asking"
  /\ walletError' \in IF c.kind = "connect" THEN {"NOT_INSTALLED", "REJECTED"} ELSE {walletError}
  /\ FinishRefused(c)
  /\ Outside /\ UNCHANGED <<address, storedAddr, late>>

(* getNetwork answers validateAndSet, which compares with the target it was made for. *)
Validated(c) ==
  /\ c.at = "validating"
  /\ IF walletNet = c.target
     THEN /\ address' = [addr |-> Account, for |-> c.target]
          /\ storedAddr' = Account /\ walletError' = "none"
          /\ late' = (c.target # network)
     ELSE walletError' = "WRONG_NETWORK" /\ UNCHANGED <<address, storedAddr, late>>
  /\ Finish(c)
  /\ Outside

(* A wallet call throws: a restore forgets the stored session, whatever else is connected. *)
WalletThrows(c) ==
  /\ IF c.kind = "restore"
     THEN storedAddr' = NoAddress /\ UNCHANGED walletError
     ELSE walletError' = "REJECTED" /\ UNCHANGED storedAddr
  /\ Finish(c)
  /\ Outside /\ UNCHANGED <<address, late>>

(* The user picks another network in Freighter. *)
WalletSwitches(net) ==
  /\ net # walletNet /\ walletNet' = net /\ Click
  /\ UNCHANGED <<network, storedNet, address, walletError, connecting, restoring, storedAddr, calls, loads, late, ended>>

SessionStep == \E c \in calls : WalletGrants(c) \/ WalletRefuses(c) \/ Validated(c) \/ WalletThrows(c)

SessionNext ==
  \/ Connect \/ Disconnect \/ Reloaded \/ SessionStep
  \/ \E net \in Nets : SelectNetwork(net) \/ WalletSwitches(net)

SessionSpec == SessionInit /\ [][SessionNext]_sessionVars

-----------------------------------------------------------------------------

(* A session that was validated against another network was brought by a wallet call made     *)
(* before the network changed: switching alone never leaves one behind.                       *)
MismatchIsLate == address # NotConnected /\ address.for # network => late

(* A session the user ended, with no wallet call in flight, stays ended, over page loads and  *)
(* network switches, until the user connects again.                                           *)
EndedStaysEnded == ended => address = NotConnected /\ storedAddr = NoAddress

(* A session is for the selected network, and over when the user ended it.                    *)
SessionInv == MismatchIsLate /\ EndedStaysEnded
=============================================================================
