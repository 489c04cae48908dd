-------------------------------- MODULE MCWeb --------------------------------
(***************************************************************************)
(* The screens of apps/web, which share no state in the model: the swap     *)
(* form with its quotes, the confirmation modal with its pill, the wallet   *)
(* session, the history table, the deposit form, the panels of a position,  *)
(* the price chart, the portfolio and the webhooks of the settings page.   *)
(* A behaviour exercises the one that `screen` names; the others keep      *)
(* their initial state.                                                    *)
(***************************************************************************)
EXTENDS SwapQuoting, SwapExecution, WalletSession, TransactionHistory, AddLiquidity,
        PositionPanel, PriceChartFeed, Portfolio, WebhookConsole

VARIABLE screen

CONSTANT Screens    \* the screens this run exercises

MCPoolOfPair == [p \in {{a, b} : a, b \in SwapTokens} |->
                   IF p = {"usdc", "xlm"} THEN "main" ELSE IF p = {"btc", "xlm"} THEN "side" ELSE NoPool]
MCAmountOutOf == [a \in Amounts |-> IF a = 1 THEN 2 ELSE 1]

swapVars == <<quotingVars, executionVars, sessionVars>>
pageVars == <<historyVars, depositVars, panelVars, feedVars, portfolioVars, consoleVars>>
vars == <<screen, swapVars, pageVars>>

(* One initial state for a screen that is not exercised. *)
Init ==
  /\ screen \in Screens
  /\ QuotingInit
  /\ ExecutionInit /\ (screen # "modal" => walletOn /\ mevPref)
  /\ SessionInit /\ (screen # "wallet" => walletNet = DefaultNet)
  /\ HistoryInit
  /\ DepositInit
  /\ PanelInit /\ (screen # "panel" => kind = "remove")
  /\ FeedInit
  /\ PortfolioInit
  /\ ConsoleInit
  /\ (screen # "holdings" => wallet = (CHOOSE w \in Wallets : TRUE) /\ storedToken = NoWallet)

OnSwap(s, A) == screen = s /\ A /\ UNCHANGED <<screen, pageVars>>
OnPage(s, A) == screen = s /\ A /\ UNCHANGED <<screen, swapVars>>

Form     == OnSwap("form", QuotingNext /\ UNCHANGED <<executionVars, sessionVars>>)
Modal    == OnSwap("modal", ExecutionNext /\ UNCHANGED <<quotingVars, sessionVars>>)
Wallet   == OnSwap("wallet", SessionNext /\ UNCHANGED <<quotingVars, executionVars>>)
History  == OnPage("history", HistoryNext /\ UNCHANGED <<depositVars, panelVars, feedVars, portfolioVars, consoleVars>>)
Deposit  == OnPage("deposit", DepositNext /\ UNCHANGED <<historyVars, panelVars, feedVars, portfolioVars, consoleVars>>)
Panel    == OnPage("panel", PanelNext /\ UNCHANGED <<historyVars, depositVars, feedVars, portfolioVars, consoleVars>>)
Chart    == OnPage("chart", FeedNext /\ UNCHANGED <<historyVars, depositVars, panelVars, portfolioVars, consoleVars>>)
Holdings == OnPage("holdings", PortfolioNext /\ UNCHANGED <<historyVars, depositVars, panelVars, feedVars, consoleVars>>)
Hooks    == OnPage("console", ConsoleNext /\ UNCHANGED <<historyVars, depositVars, panelVars, feedVars, portfolioVars>>)

Next == Form \/ Modal \/ Wallet \/ History \/ Deposit \/ Panel \/ Chart \/ Holdings \/ Hooks

OfHoldings(A) == OnPage("holdings", A /\ UNCHANGED <<historyVars, depositVars, panelVars, feedVars, consoleVars>>)

(* The interval of the portfolio goes on for ever, and a read that is asked for again and again *)
(* does not fail every time.                                                                    *)
Fairness ==
  /\ WF_vars(OfHoldings(IntervalFires)) /\ SF_vars(OfHoldings(ServerReads))
  /\ SF_vars(OfHoldings(ListsArrive)) /\ SF_vars(OfHoldings(CollectStep))

(* The tables a wallet is shown: its history, TransactionHistory.tsx, and its webhooks,         *)
(* WebhooksPanel.tsx.                                                                         *)
ListsInv == HistoryInv /\ ConsoleInv

Spec == Init /\ [][Next]_vars /\ Fairness
=============================================================================
