------------------------------ MODULE ReadFeeds ------------------------------
(***************************************************************************)
(* The paged read endpoints of apps/api, read page after page by one client  *)
(* while the indexer and the stats jobs write: swaps, positions, the activity *)
(* of a wallet, its positions in bulk, the pool list with its cache, and the *)
(* search.  Pages are cut by offset; the count and the page are two queries. *)
(* A behaviour follows walks through the one feed that `feed` names.         *)
(***************************************************************************)
EXTENDS Integers, Sequences, SequencesExt, FiniteSets

CONSTANTS Feeds, FeedRows,     \* the feeds exercised, and the rows there may be
          FeedLimit,           \* rows per page
          FetchCap,            \* ACTIVITY_FETCH_LIMIT, BULK_POSITIONS_LIMIT
          FeedRanks,           \* what pools are ranked by
          MaxFeedWrites

ASSUME FeedAssumption ==
  /\ FeedRows \subseteq Nat /\ FeedRows # {} /\ IsFiniteSet(FeedRows) /\ FeedRanks \subseteq Nat
  /\ FeedLimit \in Nat \ {0} /\ FetchCap \in Nat \ {0}

VARIABLES feed,
          rows,        \* [id, type, time, open, rank]
          feedWrites,  \* writes so far
          walkAt,      \* the client: [at, page, total, got, read]
          shownRows,   \* what the pages showed
          dueRows,     \* what there was when the walk began
          excuses,     \* what happened to the walk
          loading,     \* a list read and not yet cached, and
          listCache,   \* pools:list: page -> [ids, total, price, outdated, missed], or NoList
          listPrice,   \* updates of a pool's price so far
          updating     \* a price was written and the lists are not yet dropped

feedVars == <<feed, rows, feedWrites, walkAt, shownRows, dueRows, excuses, loading, listCache, listPrice, updating>>

NoList == [total |-> -1]
NoWalk == [at |-> "idle", page |-> 1, total |-> 0, got |-> {}, read |-> {}]
Types == {"mint", "burn"}
PageNos == 1..Cardinality(FeedRows)

FeedInit ==
  /\ feed \in Feeds
  /\ rows = {} /\ feedWrites = 0
  /\ walkAt = NoWalk /\ shownRows = {} /\ dueRows = {} /\ excuses = {}
  /\ loading = NoList /\ listCache = [p \in PageNos |-> NoList] /\ listPrice = 0 /\ updating = FALSE

(***************************************************************************)
(* The writers                                                             *)
(***************************************************************************)

Write == feedWrites < MaxFeedWrites /\ feedWrites' = feedWrites + 1
Ids(S) == {r.id : r \in S}
Walking == walkAt.at \notin {"idle", "done"}
Old(list) == IF list = NoList THEN NoList ELSE [list EXCEPT !.outdated = TRUE]
Outdate == loading' = Old(loading) /\ listCache' = [p \in PageNos |-> Old(listCache[p])]

(* A job of the indexer adds a row.  A swap has the time of its ledger, which others share and   *)
(* which a late job's is behind; the other rows have the time they are written.                 *)
AddRow(id, type, time, rank) ==
  /\ Write /\ id \notin Ids(rows) /\ \A n \in FeedRows : n < id => n \in Ids(rows)
  /\ time \in (IF feed = "swaps" THEN 1..id ELSE {id})
  /\ feed = "activity" \/ type = "mint"
  /\ feed \in {"pools", "search"} \/ rank = 0
  /\ rows' = rows \cup {[id |-> id, type |-> type, time |-> time, open |-> TRUE, rank |-> rank]}
  /\ excuses' = IF walkAt.at \in {"counted", "items"} THEN excuses \cup {"raced"} ELSE excuses
  /\ Outdate
  /\ UNCHANGED <<feed, walkAt, shownRows, dueRows, listPrice, updating>>

(* position.burned sets closedAt. *)
CloseRow(r) ==
  /\ feed \in {"positions", "bulk"} /\ r.open /\ Write
  /\ rows' = (rows \ {r}) \cup {[r EXCEPT !.open = FALSE]}
  /\ excuses' = IF Walking THEN excuses \cup {"closed"} ELSE excuses
  /\ UNCHANGED <<feed, walkAt, shownRows, dueRows, loading, listCache, listPrice, updating>>

(* The stats jobs write tvl and volume24h, and drop no list. *)
Rerank(r, rank) ==
  /\ feed \in {"pools", "search"} /\ r.rank # rank /\ Write
  /\ rows' = (rows \ {r}) \cup {[r EXCEPT !.rank = rank]}
  /\ excuses' = IF Walking THEN excuses \cup {"reranked"} ELSE excuses
  /\ Outdate
  /\ UNCHANGED <<feed, walkAt, shownRows, dueRows, listPrice, updating>>

(* handlePoolStateUpdate: the price is written, then the lists are dropped; the drop may fail    *)
(* unnoticed.                                                                                  *)
UpsertPoolState ==
  /\ feed = "pools" /\ ~updating /\ Write
  /\ listPrice' = listPrice + 1 /\ updating' = TRUE
  /\ UNCHANGED <<feed, rows, walkAt, shownRows, dueRows, excuses, loading, listCache>>

Miss(list) == IF list = NoList THEN NoList ELSE [list EXCEPT !.missed = TRUE]
InvalidateListCache ==
  /\ updating /\ updating' = FALSE
  /\ \E dropped \in BOOLEAN :
       listCache' = [p \in PageNos |-> IF dropped THEN NoList ELSE Miss(listCache[p])]
  /\ loading' = Miss(loading)
  /\ UNCHANGED <<feed, rows, feedWrites, walkAt, shownRows, dueRows, excuses, listPrice>>

(***************************************************************************)
(* The queries                                                             *)
(***************************************************************************)

(* The status filter is "active" where there is one. *)
Matching == {r \in rows : feed \in {"positions", "bulk"} => r.open}

(* ORDER BY timestamp or createdAt DESC says nothing of equal times; pools and the search are     *)
(* ranked, then ordered by id.                                                                  *)
NewerFirst(a, b) == a.time > b.time
RankOnly(a, b) == a.rank > b.rank
RankedBefore(a, b) == \/ a.rank > b.rank
                      \/ a.rank = b.rank /\ a.id < b.id
Precedes(a, b) == IF feed \in {"pools", "search"} THEN RankedBefore(a, b) ELSE NewerFirst(a, b)
Orders(S) == {s \in SetToSeqs(S) : \A i, j \in DOMAIN s : i < j => ~Precedes(s[j], s[i])}

(* skip and take. *)
FirstOf(page, limit) == (page - 1) * limit
PageOf(s, page) == Ids({s[i] : i \in {i \in DOMAIN s : FirstOf(page, FeedLimit) < i
                                                    /\ i <= FirstOf(page, FeedLimit) + FeedLimit}})

(* The client shows a page and asks for the next one as long as totalPages says there is one. *)
Show(ids, total, why) ==
  /\ shownRows' = shownRows \cup ids
  /\ excuses' = excuses \cup why
  /\ walkAt' = [walkAt EXCEPT !.at = IF walkAt.page * FeedLimit < total THEN "between" ELSE "done",
                              !.total = total, !.got = {}, !.read = {}]
  /\ UNCHANGED <<feed, rows, feedWrites, dueRows, listPrice, updating>>

To(at, total, got) ==
  /\ walkAt' = [walkAt EXCEPT !.at = at, !.total = total, !.got = got]
  /\ UNCHANGED <<feed, rows, feedWrites, shownRows, dueRows, excuses, loading, listCache, listPrice, updating>>

(* getSwaps, getPositions: the first request of a walk, and the others.  Another walk may follow. *)
StartWalk ==
  /\ walkAt.at \in {"idle", "done"} /\ walkAt' = [NoWalk EXCEPT !.at = "asked"]
  /\ shownRows' = {} /\ dueRows' = Ids(Matching) /\ excuses' = {}
  /\ UNCHANGED <<feed, rows, feedWrites, loading, listCache, listPrice, updating>>

NextPage ==
  /\ walkAt.at = "between" /\ walkAt.page + 1 \in PageNos
  /\ walkAt' = [walkAt EXCEPT !.at = "asked", !.page = walkAt.page + 1]
  /\ UNCHANGED <<feed, rows, feedWrites, shownRows, dueRows, excuses, loading, listCache, listPrice, updating>>

(* listSwaps counts, then reads the page, then the symbols. *)
CountSwaps == feed = "swaps" /\ walkAt.at = "asked" /\ To("counted", Cardinality(Matching), {})
ListSwaps == /\ feed = "swaps" /\ walkAt.at = "counted"
             /\ \E s \in Orders(Matching) : Show(PageOf(s, walkAt.page), walkAt.total, {})
             /\ UNCHANGED <<loading, listCache>>

(* listPositionsByWallet does the same. *)
CountPositions == feed = "positions" /\ walkAt.at = "asked" /\ To("counted", Cardinality(Matching), {})
ListPositionsByWallet ==
  /\ feed = "positions" /\ walkAt.at = "counted"
  /\ \E s \in Orders(Matching) : Show(PageOf(s, walkAt.page), walkAt.total, {})
  /\ UNCHANGED <<loading, listCache>>

(* listPositionsByWallets: counts and rows are asked for together and answered in any order; the  *)
(* rows are capped, the counts are not.  There is one page.                                      *)
Newest(S, n) == {r \in S : Cardinality({q \in S : q.time > r.time}) < n}
ListPositionsByWallets ==
  /\ feed = "bulk"
  /\ \/ walkAt.at = "asked" /\ To("counted", Cardinality(Matching), {})
     \/ walkAt.at = "asked" /\ To("items", 0, Newest(Matching, FetchCap))
     \/ walkAt.at = "counted" /\ To("done", walkAt.total, Newest(Matching, FetchCap))
     \/ walkAt.at = "items" /\ To("done", Cardinality(Matching), walkAt.got)

(* listActivityByWallet: the newest rows of every type, in queries answered in any order; the     *)
(* total is the number of rows fetched.                                                        *)
ReadActivity(type) ==
  /\ feed = "activity" /\ walkAt.at \in {"asked", "merging"} /\ type \notin walkAt.read
  /\ walkAt' = [walkAt EXCEPT !.at = "merging", !.read = @ \cup {type},
                              !.got = @ \cup Newest({r \in rows : r.type = type}, FetchCap)]
  /\ UNCHANGED <<feed, rows, feedWrites, shownRows, dueRows, excuses, loading, listCache, listPrice, updating>>

MergeActivity ==
  /\ feed = "activity" /\ walkAt.read = Types
  /\ \E s \in Orders(walkAt.got) : Show(PageOf(s, walkAt.page), Cardinality(walkAt.got), {})
  /\ UNCHANGED <<loading, listCache>>

(* getPools: a cached page is shown as it was loaded; otherwise the list is read and sorted, and  *)
(* cached a step later.                                                                        *)
GetPools ==
  /\ feed = "pools" /\ walkAt.at = "asked" /\ listCache[walkAt.page] # NoList
  /\ LET c == listCache[walkAt.page]
     IN  Show(c.ids, c.total, IF c.outdated THEN {"outdated"} ELSE {})
  /\ UNCHANGED <<loading, listCache>>

ListActivePools ==
  /\ feed = "pools" /\ walkAt.at = "asked" /\ listCache[walkAt.page] = NoList
  /\ walkAt' = [walkAt EXCEPT !.at = "loaded"]
  /\ \E s \in Orders(Matching) :
       loading' = [ids |-> PageOf(s, walkAt.page), total |-> Len(s), price |-> listPrice,
                   outdated |-> FALSE, missed |-> FALSE]
  /\ UNCHANGED <<feed, rows, feedWrites, shownRows, dueRows, excuses, listCache, listPrice, updating>>

CacheList ==
  /\ feed = "pools" /\ walkAt.at = "loaded"
  /\ Show(loading.ids, loading.total, {})
  /\ listCache' = [listCache EXCEPT ![walkAt.page] = loading]
  /\ loading' = NoList

(* The TTL of a page runs out. *)
ExpireList(p) ==
  /\ listCache[p] # NoList /\ listCache' = [listCache EXCEPT ![p] = NoList]
  /\ UNCHANGED <<feed, rows, feedWrites, walkAt, shownRows, dueRows, excuses, loading, listPrice, updating>>

(* searchPools: a page by offset; there is no total, and a short page is the last. *)
SearchPools ==
  /\ feed = "search" /\ walkAt.at = "asked"
  /\ \E s \in Orders(Matching) :
       LET ids == PageOf(s, walkAt.page)
       IN  Show(ids, IF Cardinality(ids) < FeedLimit THEN 0 ELSE walkAt.page * FeedLimit + 1, {})
  /\ UNCHANGED <<loading, listCache>>

FeedNext ==
  \/ \E id \in FeedRows, type \in Types, t \in FeedRows, k \in FeedRanks : AddRow(id, type, t, k)
  \/ \E r \in rows : CloseRow(r) \/ \E k \in FeedRanks : Rerank(r, k)
  \/ UpsertPoolState \/ InvalidateListCache
  \/ StartWalk \/ NextPage
  \/ CountSwaps \/ ListSwaps \/ CountPositions \/ ListPositionsByWallet \/ ListPositionsByWallets
  \/ \E type \in Types : ReadActivity(type)
  \/ MergeActivity \/ GetPools \/ ListActivePools \/ CacheList \/ \E p \in PageNos : ExpireList(p)
  \/ SearchPools

(***************************************************************************)
(* Properties                                                              *)
(***************************************************************************)

Row(id) == CHOOSE r \in rows : r.id = id
Tied(id) == \E r \in rows : r.id # id /\ r.time = Row(id).time
Capped(id) == Cardinality({r \in rows : r.type = Row(id).type /\ r.time > Row(id).time}) >= FetchCap

Explained(id) ==
  CASE feed = "swaps"     -> "raced" \in excuses \/ Tied(id)
    [] feed = "positions" -> excuses \cap {"raced", "closed"} # {}
    [] feed = "activity"  -> Capped(id)
    [] OTHER              -> excuses \cap {"reranked", "outdated"} # {}

(* Whatever was there when a client began to page, and is still there when it is told that it    *)
(* has seen the last page, was on one of its pages, although rows are added meanwhile; unless    *)
(* two swaps share a ledger, the row was added between count and page, a position was closed,    *)
(* the ranking changed, a cached page is from before a change, or the cap cut it off.           *)
NoRowSkipped ==
  walkAt.at = "done" /\ feed # "bulk" =>
    \A id \in dueRows \cap Ids(Matching) : id \in shownRows \/ Explained(id)

(* The total of the bulk answer is the number of positions in it, unless they changed between    *)
(* the two queries or are more than the cap.                                                   *)
BulkAddsUp ==
  walkAt.at = "done" /\ feed = "bulk" =>
    walkAt.total = Cardinality(walkAt.got) \/ excuses # {} \/ walkAt.total > FetchCap

(* A cached page has the price of its pools unless the update is still under way, or a load       *)
(* overlapped the dropping of the lists, or the drop failed.                                   *)
ListIsFresh ==
  \A p \in PageNos : listCache[p] # NoList =>
    listCache[p].price = listPrice \/ updating \/ listCache[p].missed

(* What the pages of a feed may leave out, and what they may repeat from earlier.               *)
FeedInv == NoRowSkipped /\ BulkAddsUp /\ ListIsFresh
=============================================================================
