--------------------------- MODULE WebhookConsole ---------------------------
(***************************************************************************)
(* The webhooks of a wallet on the settings page: useWebhooks.ts lists,      *)
(* registers and deletes them through webhooks.controller.ts, and            *)
(* WebhooksPanel.tsx has the form and the table.  Only the list the effect   *)
(* asked for is cancelled when the token changes; the one that follows a     *)
(* registration or a deletion is always heeded.                             *)
(***************************************************************************)
EXTENDS Integers, FiniteSets

CONSTANTS HookOwners,     \* wallets with a token
          MaxSwitches,    \* bound on changes of the token
          MaxHookClicks   \* bound on "Save webhook" and "Delete"

VARIABLES console,        \* the panel: [token, items, of, loading, error, open, filled, fill]
          hooks,          \* rows of the API: [id, owner, fill]
          hookCalls,      \* requests: [nth, kind, by, hook, fill, step, got, heeded]
          hookCount,      \* requests so far
          switches, hookClicks,
          mishaps         \* what happened to the panel

consoleVars == <<console, hooks, hookCalls, hookCount, switches, hookClicks, mishaps>>

NoOwner == "no wallet"
Tokens == HookOwners \cup {NoOwner}

ASSUME OwnerAssumption == HookOwners # {} /\ NoOwner \notin HookOwners

Call(kind, by, hook, fill) ==
  [nth |-> hookCount, kind |-> kind, by |-> by, hook |-> hook, fill |-> fill,
   step |-> "sent", got |-> {}, heeded |-> TRUE]

ConsoleInit ==
  /\ console = [token |-> NoOwner, items |-> {}, of |-> NoOwner, loading |-> FALSE, error |-> FALSE,
                open |-> FALSE, filled |-> FALSE, fill |-> 0]
  /\ hooks = {[id |-> 0, owner |-> o, fill |-> 0] : o \in {CHOOSE o \in HookOwners : TRUE}}
  /\ hookCalls = {} /\ hookCount = 1 /\ switches = 0 /\ hookClicks = 0 /\ mishaps = {}

-----------------------------------------------------------------------------
(* The settings page and the effect on the token *)

(* Variant: no request is given up. *)
NotAbandoned(cs) == cs
Abandoned(cs) == {[c EXCEPT !.heeded = @ /\ c.kind # "first"] : c \in cs}

(* The effect: the list asked for with the old token is no longer heeded, and the new one is     *)
(* asked for.  Without a token the rows go, and nothing else.                                   *)
FetchWebhooks(t, calls, con) ==
  IF t = NoOwner
  THEN hookCalls' = calls /\ console' = [con EXCEPT !.token = t, !.items = {}, !.of = t] /\ UNCHANGED hookCount
  ELSE /\ hookCalls' = calls \cup {Call("first", t, -1, 0)} /\ hookCount' = hookCount + 1
       /\ console' = [con EXCEPT !.token = t, !.loading = TRUE, !.error = FALSE]

(* The page is opened, or the connected account changes: the page reads the token in storage,     *)
(* which the portfolio page of another tab may have replaced.                                   *)
AddressChanges(t) ==
  /\ switches < MaxSwitches /\ switches' = switches + 1
  /\ t # console.token
  /\ FetchWebhooks(t, Abandoned(hookCalls), console)
  /\ UNCHANGED <<hooks, hookClicks, mishaps>>

-----------------------------------------------------------------------------
(* WebhooksPanel: everything in it is disabled while it is loading *)

OnConsole(con) == console' = con /\ UNCHANGED <<hooks, hookCalls, hookCount, switches, hookClicks, mishaps>>

ToggleForm == ~console.loading /\ hookClicks < MaxHookClicks /\ OnConsole([console EXCEPT !.open = ~@])

FillForm ==
  /\ console.open /\ ~console.loading /\ ~console.filled
  /\ OnConsole([console EXCEPT !.filled = TRUE, !.fill = @ + 1])

HookClick == hookClicks < MaxHookClicks /\ hookClicks' = hookClicks + 1
Sends(c) == hookCalls' = hookCalls \cup {c} /\ hookCount' = hookCount + 1

FormCleared(con) == [con EXCEPT !.filled = FALSE, !.open = FALSE]

(* handleSubmit: without a token createWebhook returns at once, and the form is cleared all the   *)
(* same.                                                                                       *)
SaveWebhook ==
  /\ console.open /\ console.filled /\ ~console.loading /\ HookClick
  /\ IF console.token = NoOwner
     THEN console' = FormCleared(console) /\ UNCHANGED <<hookCalls, hookCount>>
     ELSE /\ Sends(Call("create", console.token, -1, console.fill))
          /\ console' = [console EXCEPT !.loading = TRUE]
  /\ UNCHANGED <<hooks, switches, mishaps>>

RemoveWebhook(h) ==
  /\ ~console.loading /\ console.token # NoOwner /\ HookClick
  /\ Sends(Call("delete", console.token, h.id, 0))
  /\ console' = [console EXCEPT !.loading = TRUE]
  /\ UNCHANGED <<hooks, switches, mishaps>>

-----------------------------------------------------------------------------
(* The API: the wallet is the one the token was issued to *)

OwnedBy(o) == {h \in hooks : h.owner = o}
Ids(S) == {h.id : h \in S}

Served(c, step, rows) ==
  /\ c.step = "sent"
  /\ hookCalls' = (hookCalls \ {c}) \cup {[c EXCEPT !.step = step, !.got = rows]}
  /\ UNCHANGED <<console, hookCount, switches, hookClicks, mishaps>>

IsList(c) == c.kind \in {"first", "again"}

ListHooks(c) == IsList(c) /\ Served(c, "ok", OwnedBy(c.by)) /\ UNCHANGED hooks

(* The answer of what was done may still be lost. *)
CreateHook(c) ==
  /\ c.kind = "create" /\ \E step \in {"ok", "lost"} : Served(c, step, {})
  /\ hooks' = hooks \cup {[id |-> c.nth, owner |-> c.by, fill |-> c.fill]}

DeleteHook(c) ==
  /\ c.kind = "delete" /\ \E step \in {"ok", "lost"} : Served(c, step, {})
  /\ hooks' = {h \in hooks : ~(h.id = c.hook /\ h.owner = c.by)}

(* The token has expired, the rate is exceeded, or no answer comes. *)
Refuse(c) == \E step \in {"refused", "lost"} : Served(c, step, {}) /\ UNCHANGED hooks

-----------------------------------------------------------------------------
(* useWebhooks: what the answers do *)

Landed(c) == hookCalls \ {c}
Mishap(m, yes) == IF yes THEN {m} ELSE {}

(* The list is shown, whatever the token is by now, and the spinner goes, whatever else is under *)
(* way.                                                                                        *)
ListLands(c) ==
  /\ IsList(c) /\ c.step # "sent" /\ hookCalls' = Landed(c)
  /\ console' = IF ~c.heeded THEN console
                ELSE IF c.step = "ok" THEN [console EXCEPT !.items = c.got, !.of = c.by, !.loading = FALSE]
                ELSE [console EXCEPT !.error = TRUE, !.loading = FALSE]
  /\ mishaps' = mishaps \cup Mishap("stray", c.kind = "again" /\ c.by # console.token)
                        \cup Mishap("unlocked", c.heeded /\ \E d \in Landed(c) : ~IsList(d))
                        \cup Mishap("overlap", c.heeded /\ \E d \in Landed(c) : IsList(d))
  /\ UNCHANGED <<hooks, hookCount, switches, hookClicks>>

Refetch(c) == Landed(c) \cup {Call("again", c.by, -1, 0)}

(* A registration asks for the list again and clears the form; the spinner does not wait for     *)
(* that list.  One that failed leaves the form as it was.                                       *)
CreateLands(c) ==
  /\ c.kind = "create" /\ c.step # "sent"
  /\ IF c.step = "ok"
     THEN /\ hookCalls' = Refetch(c) /\ hookCount' = hookCount + 1
          /\ console' = FormCleared([console EXCEPT !.loading = FALSE, !.error = FALSE])
     ELSE /\ hookCalls' = Landed(c) /\ console' = [console EXCEPT !.loading = FALSE] /\ UNCHANGED hookCount
  /\ mishaps' = mishaps \cup Mishap("unlocked", \E d \in Landed(c) : ~IsList(d))
                        \cup Mishap("lost", c.step = "lost")
                        \cup Mishap("stray", c.by # console.token)
  /\ UNCHANGED <<hooks, switches, hookClicks>>

(* A deletion asks for the list again unless no answer came; a refusal is not told. *)
DeleteLands(c) ==
  /\ c.kind = "delete" /\ c.step # "sent"
  /\ IF c.step # "lost"
     THEN /\ hookCalls' = Refetch(c) /\ hookCount' = hookCount + 1
          /\ console' = [console EXCEPT !.loading = FALSE, !.error = FALSE]
     ELSE /\ hookCalls' = Landed(c) /\ console' = [console EXCEPT !.loading = FALSE] /\ UNCHANGED hookCount
  /\ mishaps' = mishaps \cup Mishap("unlocked", \E d \in Landed(c) : ~IsList(d))
                        \cup Mishap("lost", c.step = "lost")
                        \cup Mishap("stray", c.by # console.token)
  /\ UNCHANGED <<hooks, switches, hookClicks>>

ConsoleNext ==
  \/ \E t \in Tokens : AddressChanges(t)
  \/ ToggleForm \/ FillForm \/ SaveWebhook \/ \E h \in console.items : RemoveWebhook(h)
  \/ \E c \in hookCalls : \/ ListHooks(c) \/ CreateHook(c) \/ DeleteHook(c) \/ Refuse(c)
                          \/ ListLands(c) \/ CreateLands(c) \/ DeleteLands(c)

-----------------------------------------------------------------------------
(* The table: skeleton rows, the invitation to register a first webhook, or the rows. *)
ConsoleView ==
  IF console.items # {} THEN "rows" ELSE IF console.loading THEN "skeleton" ELSE "none yet"

(* Once the list of the wallet was answered the rows are that wallet's, unless the list that     *)
(* follows another wallet's registration or deletion was asked for, or came, later.             *)
RowsAreOfToken ==
  \/ console.of = console.token \/ console.error \/ "stray" \in mishaps
  \/ \E c \in hookCalls : IsList(c) /\ c.heeded /\ c.by = console.token

(* When nothing is under way the table says what the API holds for the wallet: the rows, or that *)
(* there are none; unless the last list failed, an answer was lost, or two lists overlapped.    *)
TableIsTrue ==
  hookCalls = {} /\ console.token # NoOwner /\ ~console.error /\ mishaps \subseteq {"unlocked"} =>
    /\ console.items = OwnedBy(console.token)
    /\ ConsoleView = "none yet" <=> OwnedBy(console.token) = {}

(* What was filled in once is registered once, unless the answer was lost, or a list unlocked    *)
(* the form while the registration was under way.                                              *)
OneHookPerFill ==
  \A g, h \in hooks : g # h /\ g.fill = h.fill /\ g.fill # 0 => mishaps \cap {"lost", "unlocked"} # {}

(* The panel is not left disabled: something that will unlock it is under way, or there is no    *)
(* token to do anything with.                                                                  *)
PanelUnlocks == console.loading => console.token = NoOwner \/ \E c \in hookCalls : c.heeded

(* What the panel shows of the wallet's webhooks, and what it may do twice.                     *)
ConsoleInv == RowsAreOfToken /\ TableIsTrue /\ OneHookPerFill /\ PanelUnlocks
=============================================================================
