-------------------------- MODULE TransactionHistory --------------------------
(***************************************************************************)
(* TransactionHistory.tsx over its two feeds, useSwaps.ts and               *)
(* useLpActivity.ts: one page number for both tabs, a pool filter for one   *)
(* of them, and a query cache whose entries are refetched every 30 s while  *)
(* the rows behind them come and go.  The date filter only hides rows of    *)
(* the page and is left out.                                                *)
(***************************************************************************)
EXTENDS Integers, Sequences, FiniteSets, SequencesExt

CONSTANTS HistoryPools,  \* pools of the wallet's rows
          PageSize,      \* PAGE_SIZE, 20
          MaxRows,       \* bound on the rows of a feed
          MaxRowChanges, \* bound on the changes of the rows
          SignedIn       \* getAuthToken() found a token when the component was mounted

ASSUME PageAssumption == PageSize \in Nat \ {0} /\ MaxRows \in Nat /\ "all pools" \notin HistoryPools

VARIABLES tab, page, poolFilter,
          poolOptions,   \* pools offered by the filter
          rows,          \* function: tab -> rows in the database, newest first, each its pool
          cache,         \* function: <<tab, page, filter>> -> result of the query
          rowChanges

historyVars == <<tab, page, poolFilter, poolOptions, rows, cache, rowChanges>>

Tabs == {"swaps", "lp"}
AllPools == "all pools"
MaxPage == MaxRows \div PageSize + 1
Keys == Tabs \X (1..MaxPage) \X (HistoryPools \cup {AllPools})

NotAsked == [status |-> "pending", total |-> 0, items |-> <<>>]
Failed   == [status |-> "error", total |-> 0, items |-> <<>>]

HistoryInit ==
  /\ tab = "swaps" /\ page = 1 /\ poolFilter = AllPools /\ poolOptions = {}
  /\ rows = [t \in Tabs |-> <<>>] /\ rowChanges = 0
  /\ cache = [k \in Keys |-> NotAsked]

(* Only the LP feed is filtered. *)
KeyOf(t, p, filter) == <<t, p, IF t = "lp" THEN filter ELSE AllPools>>

(* A disabled query has no data and is not loading. *)
Enabled(t) == t = "swaps" \/ SignedIn
LoadingFeed(t) == Enabled(t) /\ cache[KeyOf(t, page, poolFilter)].status = "pending"

TotalPages(total) == (total + PageSize - 1) \div PageSize

(* The effect that snaps back to the last page, again for the page it lands on. *)
SnapBack(c, t, p, filter) ==
  LET snap[q \in 1..MaxPage] ==
        LET total == c[KeyOf(t, q, filter)].total
        IN IF total > 0 /\ q > TotalPages(total) THEN snap[TotalPages(total)] ELSE q
  IN snap[p]

(* Options come from the unfiltered feed only; otherwise the last ones are kept. *)
UnfilteredSource(filter) == AllPools

OptionsAfter(c, p, filter) ==
  LET unfiltered == c[<<"lp", p, filter>>]
  IN IF filter = UnfilteredSource(filter) /\ unfiltered.status = "success" THEN ToSet(unfiltered.items) ELSE poolOptions

(* What a change of tab, page, filter or data renders, with both effects. *)
Render(c, t, p, filter) ==
  LET landed == SnapBack(c, t, p, filter)
  IN /\ cache' = c /\ tab' = t /\ page' = landed /\ poolFilter' = filter
     /\ poolOptions' = OptionsAfter(c, landed, filter)

Stays == UNCHANGED <<rows, rowChanges>>

ClickTab(t) == Render(cache, t, 1, poolFilter) /\ Stays

PickFilter(p) == tab = "lp" /\ p \in poolOptions \cup {AllPools} /\ Render(cache, tab, 1, p) /\ Stays

(* "Clear" keeps the page number. *)
ClearFilter == tab = "lp" /\ poolFilter # AllPools /\ Render(cache, tab, page, AllPools) /\ Stays

ActiveTotal == cache[KeyOf(tab, page, poolFilter)].total
Paging == TotalPages(ActiveTotal) > 1 /\ ~LoadingFeed("swaps") /\ ~LoadingFeed("lp")

PreviousPage == Paging /\ page > 1 /\ Render(cache, tab, page - 1, poolFilter) /\ Stays
NextPage == Paging /\ page < TotalPages(ActiveTotal) /\ Render(cache, tab, page + 1, poolFilter) /\ Stays

(* The notice on an empty page above the first. *)
BackToFirst ==
  /\ page > 1 /\ ~LoadingFeed(tab) /\ cache[KeyOf(tab, page, poolFilter)].items = <<>>
  /\ Render(cache, tab, 1, poolFilter) /\ Stays

(* The rows of a feed, or those of one pool, of which only the number matters. *)
Matching(feed, filter) ==
  IF filter = AllPools THEN feed
  ELSE [i \in 1..Cardinality({j \in DOMAIN feed : feed[j] = filter}) |-> filter]

(* What the API answers for a key now: skip, take and the total. *)
Answer(k) ==
  LET match == Matching(rows[k[1]], k[3])
      first == (k[2] - 1) * PageSize + 1
      last == IF k[2] * PageSize < Len(match) THEN k[2] * PageSize ELSE Len(match)
  IN [status |-> "success", total |-> Len(match), items |-> SubSeq(match, first, last)]

(* A query of the page shown answers or, at first or on a refetch, fails and keeps its data. *)
FetchFeed(t) ==
  LET k == KeyOf(t, page, poolFilter)
  IN /\ Enabled(t)
     /\ \/ Render([cache EXCEPT ![k] = Answer(k)], tab, page, poolFilter)
        \/ cache[k] = NotAsked /\ Render([cache EXCEPT ![k] = Failed], tab, page, poolFilter)
     /\ Stays

(* The indexer adds a row; a replay deletes some before it writes them again. *)
RowsChange(t) ==
  /\ rowChanges < MaxRowChanges /\ rowChanges' = rowChanges + 1
  /\ \/ /\ Len(rows[t]) < MaxRows
        /\ \E p \in HistoryPools : rows' = [rows EXCEPT ![t] = <<p>> \o @]
     \/ /\ rows[t] # <<>>
        /\ rows' = [rows EXCEPT ![t] = Tail(@)]
  /\ UNCHANGED <<tab, page, poolFilter, poolOptions, cache>>

HistoryFetch == \E t \in Tabs : FetchFeed(t)

HistoryNext ==
  \/ \E t \in Tabs : ClickTab(t) \/ RowsChange(t)
  \/ \E p \in HistoryPools \cup {AllPools} : PickFilter(p)
  \/ ClearFilter \/ PreviousPage \/ NextPage \/ BackToFirst \/ HistoryFetch

-----------------------------------------------------------------------------
(* A page that was loaded while its feed had rows shows some of them: neither a page number   *)
(* left over from the other tab or from a filter, nor rows that went away, leaves the table   *)
(* on a page that will always be empty.                                                       *)
NoDeadPage ==
  LET shown == cache[KeyOf(tab, page, poolFilter)]
  IN shown.status = "success" /\ shown.total > 0 => shown.items # <<>>

(* The selected pool stays among the options, whatever the filtered feed returns. *)
FilterStaysOffered == poolFilter # AllPools => poolFilter \in poolOptions

(* The table and its filter offer what there is.                                              *)
HistoryInv == NoDeadPage /\ FilterStaysOffered
=============================================================================
