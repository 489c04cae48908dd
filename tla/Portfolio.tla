------------------------------- MODULE Portfolio -------------------------------
(***************************************************************************)
(* The portfolio page: usePortfolio.ts reads both lists of positions with   *)
(* the token of lib/auth.ts, every 30 s and after a collection; the page    *)
(* collects fees position by position and leaves when no wallet is there.   *)
(* The server's lists are a version number that grows with each change.     *)
(***************************************************************************)
EXTENDS Integers, FiniteSets

CONSTANTS Wallets,       \* accounts the user can connect
          CardPositions, \* active positions, those with a card
          MaxChanges,    \* bound on changes of the positions on the server
          MaxWallets,    \* bound on changes of the connected wallet
          MaxCollects,   \* bound on clicks on "Collect fees"
          MaxReads       \* bound on reads under way when the interval asks for another

VARIABLES onPage,        \* FALSE once the router left for "/"
          wallet,        \* address of WalletContext, or NoWallet
          storedToken,        \* swyft_auth_token: the wallet it was issued to, or NoWallet
          authToken,     \* of the page
          authenticating,\* wallet of the handshake under way, or NoWallet
          authError,
          server,        \* version of the lists
          shown,         \* [of, version], or Nothing; the version is TurnedAway after an HTTP error
          refreshes,     \* reads in flight: [of, version, by], by the click that asked, or 0
          loadingLists,
          polling,       \* an interval is set, for the present token
          collectingId,  \* position whose card says "Collecting", or NoCard
          collects,      \* collections under way: [id, token, step, nth]
          walletChanges, collectClicks

portfolioVars == <<onPage, wallet, storedToken, authToken, authenticating, authError, server, shown, refreshes,
                   loadingLists, polling, collectingId, collects, walletChanges, collectClicks>>

listVars == <<shown, refreshes, loadingLists>>
authVars == <<storedToken, authToken, authenticating, authError>>

NoWallet == "no wallet"
NoCard   == "no card"
Nothing    == [of |-> NoWallet, version |-> 0]
Unread     == -1
TurnedAway == -2

PortfolioInit ==
  /\ onPage = TRUE /\ wallet \in Wallets
  /\ storedToken \in Wallets \cup {NoWallet} /\ authToken = storedToken
  /\ authenticating = NoWallet /\ authError = FALSE
  /\ server = 0 /\ shown = Nothing
  /\ polling = (storedToken # NoWallet) /\ loadingLists = polling
  /\ refreshes = IF polling THEN {[of |-> storedToken, version |-> Unread, by |-> 0]} ELSE {}
  /\ collectingId = NoCard /\ collects = {} /\ walletChanges = 0 /\ collectClicks = 0

(* refresh(): both lists are asked for, with the token of the closure. *)
Refresh(t, by) ==
  IF t = NoWallet THEN shown' = Nothing /\ UNCHANGED <<refreshes, loadingLists>>
  ELSE /\ loadingLists' = TRUE /\ refreshes' = refreshes \cup {[of |-> t, version |-> Unread, by |-> by]}
       /\ UNCHANGED shown

(* The effect on the token: a read now, and the interval. *)
TokenBecomes(t) ==
  /\ authToken' = t
  /\ IF t = authToken THEN UNCHANGED <<polling, listVars>>
     ELSE polling' = (t # NoWallet) /\ Refresh(t, 0)

(* The wallet is switched or disconnected: the page takes whatever token is stored. *)
WalletChanges(w) ==
  /\ onPage /\ walletChanges < MaxWallets /\ walletChanges' = walletChanges + 1
  /\ w # wallet /\ wallet' = w
  /\ TokenBecomes(storedToken)
  /\ onPage' = (w # NoWallet \/ loadingLists)
  /\ UNCHANGED <<storedToken, authenticating, authError, server, collectingId, collects, collectClicks>>

Authenticate ==
  /\ onPage /\ wallet # NoWallet /\ authToken = NoWallet /\ authenticating = NoWallet
  /\ authenticating' = wallet /\ authError' = FALSE
  /\ UNCHANGED <<onPage, wallet, storedToken, authToken, server, listVars, polling, collectingId, collects,
                 walletChanges, collectClicks>>

(* The handshake ends: nonce, signature and verification, any of which may fail. *)
Authenticated ==
  /\ onPage /\ authenticating # NoWallet /\ authenticating' = NoWallet
  /\ \/ storedToken' = authenticating /\ TokenBecomes(authenticating) /\ UNCHANGED authError
     \/ authError' = TRUE /\ UNCHANGED <<storedToken, authToken, polling, listVars>>
  /\ UNCHANGED <<onPage, wallet, server, collectingId, collects, walletChanges, collectClicks>>

(* A position of the wallet changes on the server. *)
ServerChanges ==
  /\ server < MaxChanges /\ server' = server + 1
  /\ UNCHANGED <<onPage, wallet, authVars, listVars, polling, collectingId, collects, walletChanges, collectClicks>>

ServerReads ==
  \E r \in refreshes :
    /\ r.version = Unread /\ refreshes' = (refreshes \ {r}) \cup {[r EXCEPT !.version = server]}
    /\ UNCHANGED <<onPage, wallet, authVars, server, shown, loadingLists, polling, collectingId, collects,
                   walletChanges, collectClicks>>

(* Both reads of a refresh end, in any order among those in flight. *)
Ends(r) ==
  /\ onPage /\ refreshes' = refreshes \ {r} /\ loadingLists' = FALSE
  /\ onPage' = (wallet # NoWallet)
  /\ UNCHANGED <<wallet, authVars, server, polling, collectingId, collects, walletChanges, collectClicks>>

ListsArrive ==
  \E r \in refreshes :
    r.version >= 0 /\ Ends(r) /\ shown' = [of |-> r.of, version |-> r.version]

(* A list the server refuses is taken for an empty one; an exception keeps the old lists. *)
ListsFail ==
  \E r \in refreshes :
    Ends(r) /\ (shown' = [of |-> r.of, version |-> TurnedAway] \/ UNCHANGED shown)

(* Variant: the lists are only read when the token changes. *)
NoInterval == FALSE
IntervalSet == polling

(* setInterval(refresh, 30 s), whatever is still under way. *)
IntervalFires ==
  /\ onPage /\ IntervalSet /\ Cardinality(refreshes) < MaxReads
  /\ Refresh(authToken, 0)
  /\ UNCHANGED <<onPage, wallet, authVars, server, polling, collectingId, collects, walletChanges, collectClicks>>

(* handleCollectFees: built and handed to Freighter.  Without a token the click leaves the page. *)
CollectClick(id) ==
  /\ onPage /\ wallet # NoWallet /\ shown # Nothing /\ collectingId # id
  /\ collectClicks < MaxCollects /\ collectClicks' = collectClicks + 1
  /\ IF authToken = NoWallet THEN onPage' = FALSE /\ UNCHANGED <<collectingId, collects>>
     ELSE /\ collectingId' = id
          /\ collects' = collects \cup {[id |-> id, token |-> authToken, step |-> "wallet", nth |-> collectClicks + 1]}
          /\ UNCHANGED onPage
  /\ UNCHANGED <<wallet, authVars, server, listVars, polling, walletChanges>>

(* finally: the page forgets what it collects, whichever card it was. *)
Cleared(id) == NoCard

(* A refusal by the wallet, an error of the network, or posted, whatever the answer, and       *)
(* refreshed with the token of the click.                                                     *)
CollectStep ==
  \E c \in collects :
    /\ onPage
    /\ \/ c.step = "wallet" /\ collects' = (collects \ {c}) \cup {[c EXCEPT !.step = "posting"]}
          /\ UNCHANGED <<collectingId, listVars>>
       \/ c.step \in {"wallet", "posting"} /\ collects' = collects \ {c} /\ collectingId' = Cleared(collectingId)
          /\ UNCHANGED listVars
       \/ c.step = "posting" /\ collects' = (collects \ {c}) \cup {[c EXCEPT !.step = "refreshing"]}
          /\ Refresh(c.token, c.nth) /\ UNCHANGED collectingId
       \/ c.step = "refreshing" /\ (\A r \in refreshes : r.by # c.nth) /\ collects' = collects \ {c}
          /\ collectingId' = Cleared(collectingId) /\ UNCHANGED listVars
    /\ UNCHANGED <<onPage, wallet, authVars, server, polling, walletChanges, collectClicks>>

PortfolioStep ==
  \/ Authenticated \/ ServerReads \/ ListsArrive \/ ListsFail \/ CollectStep

PortfolioNext ==
  \/ PortfolioStep \/ IntervalFires \/ Authenticate \/ ServerChanges
  \/ \E w \in Wallets \cup {NoWallet} : WalletChanges(w)
  \/ \E id \in CardPositions : CollectClick(id)

-----------------------------------------------------------------------------
(* A change of the positions reaches a page that stays open with a token, whatever reads were  *)
(* lost or overtook each other.  It rests on reads not failing for ever.                       *)
PortfolioCatchesUp ==
  (server = MaxChanges /\ polling) ~> (~onPage \/ (shown.version = MaxChanges /\ shown.of = authToken))

=============================================================================
