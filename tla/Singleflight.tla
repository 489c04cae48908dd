----------------------------- MODULE Singleflight -----------------------------
(***************************************************************************)
(* GET /pools/:id (pools.controller.ts, getPoolById) over CacheService      *)
(* (cache.service.ts): a cached value with a TTL, and a lock with a TTL     *)
(* that lets one request load it while the others wait for the lock.        *)
(***************************************************************************)
EXTENDS Integers, FiniteSets

CONSTANTS Readers,       \* requests, each made once
          PoolTtl,       \* TTL of the cached pool, 15 s, in ticks
          LockTtl,       \* TTL of the lock, 5 s, in ticks
          WaitTicks,     \* how long waitForSingleflightLock polls, 1 s
          MaxVersion     \* bound on the versions of the pool row

ASSUME FlightAssumption == {PoolTtl, LockTtl, WaitTicks} \subseteq Nat \ {0} /\ "nobody" \notin Readers

VARIABLES poolRow,       \* version of the pool row in Postgres, 0 while it does not exist
          cached,        \* [v, ttl]: the cached version, ttl = 0 when absent
          lock,          \* [ttl, by]: the lock key, ttl = 0 when absent; by is history
          reader,        \* [request |-> [at, v, left]]: version found, ticks left to wait
          redisUp,       \* CacheService.available
          unguarded      \* history: readers that load without a lock that protects them

flightVars == <<poolRow, cached, lock, reader, redisUp, unguarded>>

Nobody == "nobody"
NoLock == [ttl |-> 0, by |-> Nobody]
Absent == [v |-> 0, ttl |-> 0]

FlightInit ==
  /\ poolRow \in {0, 1} /\ cached = Absent /\ lock = NoLock
  /\ reader = [p \in Readers |-> [at |-> "none", v |-> 0, left |-> 0]]
  /\ redisUp = TRUE /\ unguarded = {}

Moves(p, at) == reader' = [reader EXCEPT ![p].at = at]

(* The first look into the cache; every call degrades to a miss, or to a lock, without Redis. *)
Look(p) ==
  /\ reader[p].at = "none"
  /\ reader' = [reader EXCEPT ![p] =
       IF redisUp /\ cached.ttl > 0
       THEN [@ EXCEPT !.at = "done", !.v = cached.v] ELSE [@ EXCEPT !.at = "acquire"]]
  /\ UNCHANGED <<poolRow, cached, lock, redisUp, unguarded>>

(* Variant: SET without NX. *)
Always == TRUE
LockFree == lock.ttl = 0

(* SET NX EX. *)
Acquire(p) ==
  /\ reader[p].at = "acquire"
  /\ IF ~redisUp
     THEN /\ Moves(p, "load") /\ unguarded' = unguarded \cup {p} /\ UNCHANGED lock
     ELSE IF LockFree
     THEN /\ Moves(p, "load") /\ lock' = [ttl |-> LockTtl, by |-> p] /\ UNCHANGED unguarded
     ELSE /\ reader' = [reader EXCEPT ![p].at = "wait", ![p].left = WaitTicks]
          /\ UNCHANGED <<lock, unguarded>>
  /\ UNCHANGED <<poolRow, cached, redisUp>>

(* findPoolById of the request that holds the lock; nothing is cached when there is no pool. *)
Load(p) ==
  /\ reader[p].at = "load"
  /\ reader' = [reader EXCEPT ![p].at = IF poolRow = 0 THEN "release" ELSE "fill", ![p].v = poolRow]
  /\ UNCHANGED <<poolRow, cached, lock, redisUp, unguarded>>

Fill(p) ==
  /\ reader[p].at = "fill"
  /\ cached' = IF redisUp THEN [v |-> reader[p].v, ttl |-> PoolTtl] ELSE cached
  /\ Moves(p, "release")
  /\ UNCHANGED <<poolRow, lock, redisUp, unguarded>>

(* DEL of the lock key, whoever holds it by now; the query may have thrown before. *)
Release(p) ==
  /\ reader[p].at = "release"
  /\ lock' = IF redisUp THEN NoLock ELSE lock
  /\ unguarded' = IF redisUp /\ lock.by \notin {p, Nobody} THEN unguarded \cup {lock.by} ELSE unguarded
  /\ Moves(p, "done")
  /\ UNCHANGED <<poolRow, cached, redisUp>>

LoadThrows(p) ==
  /\ reader[p].at = "load"
  /\ reader' = [reader EXCEPT ![p].at = "release", ![p].v = 0]
  /\ UNCHANGED <<poolRow, cached, lock, redisUp, unguarded>>

(* A poll finds the lock gone, or the wait is over. *)
WaitEnds(p) ==
  /\ reader[p].at = "wait"
  /\ \/ /\ lock.ttl = 0 \/ ~redisUp
        /\ Moves(p, "look again")
     \/ /\ reader[p].left = 0
        /\ Moves(p, "load alone")
  /\ UNCHANGED <<poolRow, cached, lock, redisUp, unguarded>>

(* Variant: polling until the cache has it. *)
PollAgain == "wait"
AfterMiss == "load alone"

LookAgain(p) ==
  /\ reader[p].at = "look again"
  /\ reader' = [reader EXCEPT ![p] =
       IF redisUp /\ cached.ttl > 0
       THEN [@ EXCEPT !.at = "done", !.v = cached.v] ELSE [@ EXCEPT !.at = AfterMiss]]
  /\ UNCHANGED <<poolRow, cached, lock, redisUp, unguarded>>

(* The fallback: straight from the database, and not cached. *)
LoadAlone(p) ==
  /\ reader[p].at = "load alone"
  /\ reader' = [reader EXCEPT ![p].at = "done", ![p].v = poolRow]
  /\ UNCHANGED <<poolRow, cached, lock, redisUp, unguarded>>

(* The process that serves the request dies; its lock stays until it expires. *)
ReaderDies(p) ==
  /\ reader[p].at \notin {"none", "done", "dead"}
  /\ Moves(p, "dead")
  /\ UNCHANGED <<poolRow, cached, lock, redisUp, unguarded>>

(* The indexer writes the pool row; it does not touch this cache. *)
PoolChanges ==
  /\ poolRow < MaxVersion /\ poolRow' = poolRow + 1
  /\ UNCHANGED <<cached, lock, reader, redisUp, unguarded>>

RedisFlips == /\ redisUp' = ~redisUp
              /\ UNCHANGED <<poolRow, cached, lock, reader, unguarded>>

FlightTick ==
  /\ cached.ttl > 0 \/ lock.ttl > 0 \/ \E p \in Readers : reader[p].left > 0
  /\ cached' = IF cached.ttl <= 1 THEN Absent ELSE [cached EXCEPT !.ttl = @ - 1]
  /\ lock' = IF lock.ttl <= 1 THEN NoLock ELSE [lock EXCEPT !.ttl = @ - 1]
  /\ unguarded' = IF lock.ttl = 1 THEN unguarded \cup {lock.by} ELSE unguarded
  /\ reader' = [p \in Readers |-> [reader[p] EXCEPT !.left = IF @ = 0 THEN 0 ELSE @ - 1]]
  /\ UNCHANGED <<poolRow, redisUp>>

ReaderStep(p) == \/ Acquire(p) \/ Load(p) \/ Fill(p) \/ Release(p) \/ WaitEnds(p) \/ LookAgain(p) \/ LoadAlone(p)
FlightNext == \/ \E p \in Readers : Look(p) \/ ReaderStep(p) \/ LoadThrows(p) \/ ReaderDies(p)
              \/ PoolChanges \/ RedisFlips \/ FlightTick

FlightSpec == FlightInit /\ [][FlightNext]_flightVars

(***************************************************************************)
(* Properties                                                              *)
(***************************************************************************)

(* Two requests load the pool under the lock at a time only if one of them has outlived its   *)
(* lock, had it deleted by one that had (cache.service.ts:195), or got it without Redis.      *)
OneLoad ==
  \A p, q \in Readers :
    p # q /\ {reader[p].at, reader[q].at} \subseteq {"load", "fill"} => {p, q} \cap unguarded # {}

(* Every request is answered, whatever became of the one that held the lock: waiters give up  *)
(* after WaitTicks.                                                                           *)
EveryoneServed == []<>(\A p \in Readers : reader[p].at \in {"none", "done", "dead"})
=============================================================================
