------------------------------ MODULE PoolStats ------------------------------
(***************************************************************************)
(* Pool statistics and TVL alerts: StatsScheduler, StatsWorker,             *)
(* TvlAlertService (apps/api/src/stats), for one pool.                      *)
(* Each replica runs one job at a time; a job is a chain of awaited steps,  *)
(* and owners change their thresholds in between.  Time is counted in       *)
(* windows of the cron.                                                    *)
(***************************************************************************)
EXTENDS Integers, Sequences, FiniteSets

CONSTANTS Replicas,      \* processes with a StatsWorker
          Owners,        \* wallets; a threshold is unique per pool and wallet
          Tvls,          \* what a pool may be worth
          Limits,        \* thresholds owners set
          Day,           \* windows in 24 hours
          MaxStatsTime   \* bound on the time

ASSUME StatsAssumption == Day \in Nat \ {0} /\ MaxStatsTime \in Nat /\ IsFiniteSet(Replicas) /\ IsFiniteSet(Owners)

VARIABLES statsTime,
          statsRow,      \* tvl in the pool row
          statsCache,    \* tvl in stats:pool:<id>, 0 when absent
          snapshot,      \* tvl in the snapshot row of the current day, 0 while there is none
          threshold,     \* [owner |-> record, or NoThreshold]
          alertLog,      \* tvl_alert_history: [owner |-> breachedAt of its entries]
          dispatched,    \* history: [owner |-> crossedAt of the webhooks dispatched]
          jobsQueued,    \* jobs enqueued by the cron so far
          job,           \* [replica |-> the job in progress]
          statsLost,     \* history: owners whose alert a failed call or a crash cut off
          renewed        \* history: owners who deleted a threshold

statsVars == <<statsTime, statsRow, statsCache, snapshot, threshold, alertLog,
               dispatched, jobsQueued, job, statsLost, renewed>>

NoThreshold == [limit |-> 0, above |-> FALSE, enabled |-> FALSE, last |-> -1]
Resting == [at |-> "rest", tvl |-> 0, found |-> <<>>, breach |-> 0]

StatsInit ==
  /\ statsTime = 0 /\ statsRow = 0 /\ statsCache = 0
  /\ snapshot = 0
  /\ threshold = [o \in Owners |-> NoThreshold]
  /\ alertLog = [o \in Owners |-> {}] /\ dispatched = [o \in Owners |-> {}] /\ jobsQueued = 0
  /\ job = [r \in Replicas |-> Resting] /\ statsLost = {} /\ renewed = {}

ownersUnchanged == UNCHANGED <<alertLog, dispatched, statsLost, renewed>>
figuresUnchanged == UNCHANGED <<statsRow, statsCache, snapshot>>
worldUnchanged == UNCHANGED <<statsTime, jobsQueued>>

KeepsLast(o) == threshold[o].last

(* setThreshold: an existing one keeps its lastTriggeredAt. *)
SetThreshold(o) ==
  /\ \E limit \in Limits, above \in BOOLEAN :
       threshold' = [threshold EXCEPT ![o] =
                       [limit |-> limit, above |-> above, enabled |-> TRUE, last |-> KeepsLast(o)]]
  /\ UNCHANGED job /\ ownersUnchanged /\ figuresUnchanged /\ worldUnchanged

DisableThreshold(o) ==
  /\ threshold[o].enabled /\ threshold' = [threshold EXCEPT ![o].enabled = FALSE]
  /\ UNCHANGED job /\ ownersUnchanged /\ figuresUnchanged /\ worldUnchanged

(* deleteThreshold: its history goes with it (onDelete: Cascade). *)
DeleteThreshold(o) ==
  /\ threshold[o] # NoThreshold /\ threshold' = [threshold EXCEPT ![o] = NoThreshold]
  /\ alertLog' = [alertLog EXCEPT ![o] = {}] /\ renewed' = renewed \cup {o}
  /\ UNCHANGED <<job, dispatched, statsLost>> /\ figuresUnchanged /\ worldUnchanged

(* process(): the pools are read once; each is priced from its reserves and the cached USD    *)
(* prices, or 1 where there is none: any of Tvls.                                             *)
TakeStatsJob(r) ==
  /\ job[r].at = "rest" /\ jobsQueued > 0
  /\ jobsQueued' = jobsQueued - 1
  /\ job' = [job EXCEPT ![r] = [Resting EXCEPT !.at = "price"]]
  /\ UNCHANGED <<threshold, statsTime>> /\ ownersUnchanged /\ figuresUnchanged

ComputeTvl(r) ==
  /\ job[r].at = "price"
  /\ \E tvl \in Tvls : job' = [job EXCEPT ![r].at = "row", ![r].tvl = tvl]
  /\ UNCHANGED threshold /\ ownersUnchanged /\ figuresUnchanged /\ worldUnchanged

(* The row, the cache, the day's snapshot: three stores, one after the other. *)
WriteRow(r) ==
  /\ job[r].at = "row" /\ statsRow' = job[r].tvl /\ job' = [job EXCEPT ![r].at = "cache"]
  /\ UNCHANGED <<statsCache, snapshot, threshold>> /\ ownersUnchanged /\ worldUnchanged
WriteCache(r) ==
  /\ job[r].at = "cache" /\ statsCache' = job[r].tvl /\ job' = [job EXCEPT ![r].at = "snapshot"]
  /\ UNCHANGED <<statsRow, snapshot, threshold>> /\ ownersUnchanged /\ worldUnchanged
RecordTvlSnapshot(r) ==
  /\ job[r].at = "snapshot" /\ \E ok \in BOOLEAN : snapshot' = IF ok THEN job[r].tvl ELSE snapshot
  /\ job' = [job EXCEPT ![r].at = "find"]
  /\ UNCHANGED <<statsRow, statsCache, threshold>> /\ ownersUnchanged /\ worldUnchanged

(* Variant: a day to the minute is enough. *)
SilentADay(t) == t.last = -1 \/ t.last <= statsTime - Day
Silent(t) == t.last = -1 \/ t.last < statsTime - Day

(* The thresholds that are breached and have been silent for 24 hours. *)
IsDue(t, tvl) ==
  /\ t.enabled
  /\ IF t.above THEN t.limit < tvl ELSE t.limit > tvl
  /\ Silent(t)

FindDue(r) ==
  /\ job[r].at = "find"
  /\ LET found == {o \in Owners : IsDue(threshold[o], job[r].tvl)} IN
       \E order \in {s \in [1..Cardinality(found) -> found] : \A i, j \in DOMAIN s : s[i] = s[j] => i = j} :
         job' = [job EXCEPT ![r] = IF order = <<>> THEN Resting ELSE [@ EXCEPT !.at = "log", !.found = order]]
  /\ UNCHANGED threshold /\ ownersUnchanged /\ figuresUnchanged /\ worldUnchanged

NextAlert(r) == job' = [job EXCEPT ![r] = IF Len(job[r].found) = 1 THEN Resting
                                          ELSE [job[r] EXCEPT !.at = "log", !.found = Tail(job[r].found)]]

Logged(o) == alertLog[o] \cup {statsTime}

(* Per threshold: history, then lastTriggeredAt, then the webhook; a threshold that was       *)
(* deleted meanwhile makes the first two throw.                                               *)
LogAlert(r) ==
  LET o == Head(job[r].found) IN
    /\ job[r].at = "log" /\ threshold[o] # NoThreshold
    /\ alertLog' = [alertLog EXCEPT ![o] = Logged(o)]
    /\ job' = [job EXCEPT ![r].at = "mark", ![r].breach = statsTime]
    /\ UNCHANGED <<threshold, dispatched, statsLost, renewed>> /\ figuresUnchanged /\ worldUnchanged

MarkTriggered(r) ==
  LET o == Head(job[r].found) IN
    /\ job[r].at = "mark" /\ threshold[o] # NoThreshold
    /\ threshold' = [threshold EXCEPT ![o].last = job[r].breach]
    /\ job' = [job EXCEPT ![r].at = "dispatch"]
    /\ ownersUnchanged /\ figuresUnchanged /\ worldUnchanged

DispatchAlert(r) ==
  /\ job[r].at = "dispatch"
  /\ dispatched' = [dispatched EXCEPT ![Head(job[r].found)] = @ \cup {job[r].breach}]
  /\ NextAlert(r)
  /\ UNCHANGED <<threshold, alertLog, statsLost, renewed>> /\ figuresUnchanged /\ worldUnchanged

(* A step throws: the error of one threshold is logged and the next one follows. *)
AlertThrows(r) ==
  /\ job[r].at \in {"log", "mark", "dispatch"}
  /\ statsLost' = statsLost \cup {Head(job[r].found)}
  /\ NextAlert(r)
  /\ UNCHANGED <<threshold, alertLog, dispatched, renewed>> /\ figuresUnchanged /\ worldUnchanged

(* A query for the pool throws: it is logged, and the pool is left as it is until the next job. *)
PoolFails(r) == /\ job[r].at \in {"price", "row", "find"} /\ job' = [job EXCEPT ![r] = Resting]
                /\ UNCHANGED threshold /\ ownersUnchanged /\ figuresUnchanged /\ worldUnchanged

(* The process dies: the job stalls and is run again from the start. *)
StatsCrash(r) ==
  /\ job[r].at # "rest"
  /\ statsLost' = IF job[r].at \in {"mark", "dispatch"} THEN statsLost \cup {Head(job[r].found)} ELSE statsLost
  /\ job' = [job EXCEPT ![r] = Resting] /\ jobsQueued' = jobsQueued + 1
  /\ UNCHANGED <<threshold, alertLog, dispatched, renewed, statsTime>> /\ figuresUnchanged

(* The cron enqueues one job per window, whose id keeps other replicas from adding another.   *)
ScheduleAggregation ==
  /\ statsTime < MaxStatsTime /\ statsTime' = statsTime + 1 /\ jobsQueued' = jobsQueued + 1
  /\ snapshot' = IF (statsTime + 1) % Day = 0 THEN 0 ELSE snapshot
  /\ UNCHANGED <<threshold, job, statsRow, statsCache>> /\ ownersUnchanged

StatsNext ==
  \/ \E o \in Owners : SetThreshold(o) \/ DisableThreshold(o) \/ DeleteThreshold(o)
  \/ \E r \in Replicas : \/ TakeStatsJob(r) \/ ComputeTvl(r) \/ WriteRow(r) \/ WriteCache(r)
                         \/ RecordTvlSnapshot(r) \/ FindDue(r) \/ LogAlert(r) \/ MarkTriggered(r)
                         \/ DispatchAlert(r) \/ AlertThrows(r) \/ PoolFails(r) \/ StatsCrash(r)
  \/ ScheduleAggregation

StatsSpec == StatsInit /\ [][StatsNext]_statsVars

(***************************************************************************)
(* Properties                                                              *)
(***************************************************************************)

(* With one worker the alerts of a threshold are more than a day apart, crashes and retries   *)
(* included, because lastTriggeredAt is written before the dispatch ("Only trigger once per   *)
(* day", tvl-alert.service.ts:119).  Deleting and setting it again starts anew.               *)
OncePerDay ==
  Cardinality(Replicas) = 1 =>
    \A o \in Owners \ renewed : \A a, b \in dispatched[o] : a < b => b - a > Day

(* For the same reason an alert can be lost: a threshold that is silenced for a day has its   *)
(* alert dispatched, or being dispatched, unless the call failed or the process died between  *)
(* the two (:151).                                                                            *)
SilencedWasSent ==
  \A o \in Owners : threshold[o].last # -1 =>
    \/ threshold[o].last \in dispatched[o] \/ o \in statsLost
    \/ \E r \in Replicas : job[r].at = "dispatch" /\ Head(job[r].found) = o

(* An owner is told once a day, and a day of silence has a reason.                            *)
AlertInv == OncePerDay /\ SilencedWasSent
=============================================================================
