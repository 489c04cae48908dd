------------------------------ MODULE Analytics ------------------------------
(***************************************************************************)
(* The figures of /admin/analytics: a request that finds nothing in the      *)
(* cache and the job of every quarter of an hour compute them from the       *)
(* event tables, in queries that are answered one by one while the indexer   *)
(* writes, and cache what they computed.  Amounts are whole numbers.        *)
(***************************************************************************)
EXTENDS Integers, FiniteSets, FiniteSetsExt

CONSTANTS Buckets,         \* function: interval -> its number of buckets, of one tick each
          KeySlices,       \* sets of cache keys; a behaviour computes those of one of them
          ShortDay, ShortWeek,   \* the two windows of the overview
          EventSizes, MaxEvents,
          MaxAnalyticsTime, MaxComputings   \* bounds on the clock and on the computations

ASSUME AnalyticsAssumption ==
  /\ ShortDay \in Nat \ {0} /\ ShortWeek \in Nat /\ ShortDay <= ShortWeek
  /\ \A i \in DOMAIN Buckets : Buckets[i] \in Nat \ {0}
  /\ \A K \in KeySlices : \A k \in K : k[1] # "overview" => k[2] \in DOMAIN Buckets
  /\ EventSizes \subseteq Nat

VARIABLES tick,        \* the clock
          keys,        \* the keys computed in this behaviour: the others share nothing with them
          events,      \* rows of the event tables: [no, kind, at, size]
          computing,   \* computations under way: [key, now, got, racing]
          computings,  \* how many there were
          figures      \* the cache: function: key -> [kind, now, value, racing], or NoFigures

analyticsVars == <<tick, keys, events, computing, computings, figures>>

NoFigures == [now |-> -1]

AnalyticsInit ==
  /\ tick = 0 /\ keys \in KeySlices /\ events = {} /\ computing = {} /\ computings = 0
  /\ figures = [k \in keys |-> NoFigures]

(* The queries of a computation, in the order they are made; those of the overview are made at     *)
(* once.  A series asks for what is in its first bucket or later.                                *)
Queries(key) ==
  CASE key[1] = "overview" -> {"count", "day", "week", "mints"}
    [] key[1] = "volume"   -> {"swaps"}
    [] OTHER               -> {"mints", "burns"}

(* The kinds of event that matter to the keys of this behaviour. *)
KindsRead == UNION {CASE k[1] = "overview" -> {"swap", "mint"} [] k[1] = "volume" -> {"swap"} [] OTHER -> {"mint", "burn"}
                     : k \in keys}

(* The indexer writes a row, which gets the time of the database. *)
EventWritten(kind, size) ==
  /\ Cardinality(events) < MaxEvents
  /\ events' = events \cup {[no |-> Cardinality(events) + 1, kind |-> kind, at |-> tick, size |-> size]}
  /\ computing' = {[c EXCEPT !.racing = @ \/ DOMAIN c.got \notin {{}, Queries(c.key)}] : c \in computing}
  /\ UNCHANGED <<tick, keys, computings, figures>>

Hour ==
  /\ tick < MaxAnalyticsTime /\ tick' = tick + 1
  /\ UNCHANGED <<keys, events, computing, computings, figures>>

-----------------------------------------------------------------------------
SizeOf(rows) == MapThenSumSet(LAMBDA e : e.size, rows)
OfKind(kind, since) == {e \in events : e.kind = kind /\ e.at >= since}

(* buildBuckets: consecutive, the last one ending now. *)
ClosedBucket(start, at) == start <= at /\ at <= start + 1
InBucket(start, at) == start <= at /\ at < start + 1
StartsOf(key, now) == {now - i : i \in 1..Buckets[key[2]]}
Since(key, now) == now - Buckets[key[2]]

Rows(c, query) ==
  CASE query = "count" -> OfKind("swap", 0)
    [] query = "day"   -> OfKind("swap", c.now - ShortDay)
    [] query = "week"  -> OfKind("swap", c.now - ShortWeek)
    [] query = "swaps" -> OfKind("swap", Since(c.key, c.now))
    [] query = "burns" -> OfKind("burn", Since(c.key, c.now))
    [] OTHER           -> OfKind("mint", IF c.key[1] = "overview" THEN 0 ELSE Since(c.key, c.now))

(* getOverview, getTvl, getVolume on a miss, and recomputeAll. *)
StartFigures(K) ==
  /\ computing = {} /\ computings + Cardinality(K) <= MaxComputings
  /\ computings' = computings + Cardinality(K)
  /\ computing' = {[key |-> k, now |-> tick, got |-> <<>>, racing |-> FALSE] : k \in K}
  /\ UNCHANGED <<tick, keys, events, figures>>

Missed == \E k \in keys : figures[k] = NoFigures /\ StartFigures({k})
RecomputeAll == StartFigures(keys)

(* A query is answered.  The burns are asked for once the mints are there. *)
QueryAnswers(c, query) ==
  /\ query \in Queries(c.key) \ DOMAIN c.got
  /\ query = "burns" => "mints" \in DOMAIN c.got
  /\ computing' = (computing \ {c}) \cup
       {[c EXCEPT !.got = [q \in DOMAIN c.got \cup {query} |-> IF q = query THEN Rows(c, query) ELSE c.got[q]]]}
  /\ UNCHANGED <<tick, keys, events, computings, figures>>

BucketSize(rows, start) == SizeOf({e \in rows : InBucket(start, e.at)})

(* What is shown: a sum for every bucket, or the figures of the overview. *)
Figures(c) ==
  CASE c.key[1] = "overview" -> [count |-> Cardinality(c.got["count"]), day |-> SizeOf(c.got["day"]),
                                 week |-> SizeOf(c.got["week"]), tvl |-> SizeOf(c.got["mints"])]
    [] c.key[1] = "volume"   -> [s \in StartsOf(c.key, c.now) |-> BucketSize(c.got["swaps"], s)]
    [] OTHER -> [s \in StartsOf(c.key, c.now) |-> BucketSize(c.got["mints"], s) - BucketSize(c.got["burns"], s)]

CacheFigures(c) ==
  /\ DOMAIN c.got = Queries(c.key)
  /\ figures' = [figures EXCEPT ![c.key] = [now |-> c.now, value |-> Figures(c), racing |-> c.racing]]
  /\ computing' = computing \ {c}
  /\ UNCHANGED <<tick, keys, events, computings>>

(* The TTL runs out. *)
ExpireFigures ==
  /\ \E k \in keys : figures[k] # NoFigures /\ figures' = [figures EXCEPT ![k] = NoFigures]
  /\ UNCHANGED <<tick, keys, events, computing, computings>>

AnalyticsNext ==
  \/ \E k \in KindsRead, n \in EventSizes : EventWritten(k, n)
  \/ Hour \/ Missed \/ RecomputeAll \/ ExpireFigures
  \/ \E c \in computing : CacheFigures(c) \/ \E q \in Queries(c.key) : QueryAnswers(c, q)

-----------------------------------------------------------------------------
Within(kind, from, to) == SizeOf({e \in events : e.kind = kind /\ from <= e.at /\ e.at < to})
Total(f) == MapThenSumSet(LAMBDA s : f[s], DOMAIN f)

(* The buckets of a cached series add up to what happened in the time they cover, each event in     *)
(* one of them, whatever was written between its queries: the mints and the burns are those of     *)
(* one moment although they are read one after the other.                                       *)
SeriesAddUp ==
  \A k \in keys : k[1] # "overview" /\ figures[k] # NoFigures =>
    LET n == figures[k].now  from == n - Buckets[k[2]]
    IN  Total(figures[k].value) = IF k[1] = "volume" THEN Within("swap", from, n)
                                  ELSE Within("mint", from, n) - Within("burn", from, n)

(* The overview counts a week that holds its day, and no less than the series of the same time,    *)
(* unless a row was written while its queries were answered.                                    *)
OverviewAddsUp ==
  \A k, l \in keys : k[1] = "overview" /\ figures[k] # NoFigures =>
    LET o == figures[k]  v == figures[l]
    IN  \/ o.racing
        \/ /\ o.value.day <= o.value.week
           /\ l[1] = "volume" /\ v # NoFigures /\ v.now = o.now /\ Buckets[l[2]] = ShortDay =>
                Total(v.value) <= o.value.day

AnalyticsInv == SeriesAddUp /\ OverviewAddsUp
=============================================================================
