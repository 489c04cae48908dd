----------------------------- MODULE Monitoring -----------------------------
(***************************************************************************)
(* What apps/api says of its indexer: GET /indexer/status, which counts the  *)
(* jobs of one queue after the other in Redis, and the lag monitor, which    *)
(* reads the ledger of Horizon and the checkpoint of the cache side by side. *)
(* Meanwhile the jobs move, ledgers close and the checkpoint advances.       *)
(***************************************************************************)
EXTENDS Integers, Sequences, FiniteSets

CONSTANTS WatchedJobs,       \* jobs,
          QueueOfJob,        \* function: job -> the queue it is of
          QueueOrder,        \* sequence of the queues, as their workers were made
          Degraded, Critical,   \* lags in ledgers: 10 and 50
          MaxLedgers, MaxJobMoves

ASSUME MonitoringAssumption ==
  /\ IsFiniteSet(WatchedJobs) /\ QueueOrder \in Seq(STRING)
  /\ QueueOfJob \in [WatchedJobs -> {QueueOrder[i] : i \in DOMAIN QueueOrder}]
  /\ Degraded \in Nat /\ Critical \in Nat /\ Degraded <= Critical

VARIABLES jobAt,         \* function: job -> "none", "wait", "active", "delayed" or "done"
          jobMoves,
          draining,      \* isShuttingDown
          asking,        \* the request: [queue, next, waiting, total, missed], or NotAsking
          steady,        \* ghost: jobs in the wait or the active list ever since it came
          said,          \* what it was answered: [status, missed, stood]
          ledgerNow, indexedTo,   \* on Horizon and in the cache; nothing is indexed at first
          checking,      \* getMetrics: [latest, indexed, from, to], or NotChecking
          metrics        \* its last answer: [lag, status, least, most], or NoMetrics

monitorVars == <<jobAt, jobMoves, draining, asking, steady, said, ledgerNow, indexedTo, checking, metrics>>

NotAsking   == [queue |-> 0]
NothingSaid == [status |-> "none", missed |-> FALSE, stood |-> {}]
NotChecking == [latest |-> -1, indexed |-> -1, from |-> -1, to |-> -1]
NoMetrics   == [lag |-> 0, status |-> "none", least |-> 0, most |-> 0]
NotRead == -1
NoCheckpoint == -2

MonitorInit ==
  /\ jobAt = [j \in WatchedJobs |-> "none"] /\ jobMoves = 0 /\ draining = FALSE
  /\ asking = NotAsking /\ steady = {} /\ said = NothingSaid
  /\ ledgerNow = 0 /\ indexedTo = NoCheckpoint /\ checking = NotChecking /\ metrics = NoMetrics

lagVars   == <<ledgerNow, indexedTo, checking, metrics>>
queueVars == <<jobAt, jobMoves, draining, asking, steady, said>>

(***************************************************************************)
(* The queues, as BullMQ moves their jobs                                   *)
(***************************************************************************)

Listed == {j \in WatchedJobs : jobAt[j] \in {"wait", "active"}}

GoesTo(j, from, to) ==
  /\ jobAt[j] = from /\ jobMoves < MaxJobMoves /\ jobMoves' = jobMoves + 1
  /\ jobAt' = [jobAt EXCEPT ![j] = to]
  /\ steady' = IF from = "wait" /\ to = "active" THEN steady ELSE steady \ {j}
  /\ UNCHANGED <<draining, asking, said, lagVars>>

(* A job is added, fetched, finished, failed and put off, promoted; or its lock is lost.         *)
JobMoves ==
  \E j \in WatchedJobs :
    \/ GoesTo(j, "none", "wait") \/ GoesTo(j, "wait", "active") \/ GoesTo(j, "active", "done")
    \/ GoesTo(j, "active", "delayed") \/ GoesTo(j, "delayed", "wait") \/ GoesTo(j, "active", "wait")

(* onModuleDestroy: the server answers until it has returned. *)
ShutDown ==
  /\ ~draining /\ draining' = TRUE
  /\ UNCHANGED <<jobAt, jobMoves, asking, steady, said, lagVars>>

(***************************************************************************)
(* getStatus                                                               *)
(***************************************************************************)

Say(status, missed) ==
  /\ said' = [status |-> status, missed |-> missed, stood |-> steady]
  /\ asking' = NotAsking /\ steady' = {}

(* isLoading is not seen here: onModuleInit sets and resets it without a pause. *)
AskStatus ==
  /\ asking = NotAsking
  /\ IF draining THEN Say("shutting_down", FALSE)
     ELSE /\ asking' = [queue |-> 1, next |-> "wait", waiting |-> 0, total |-> 0, missed |-> FALSE]
          /\ steady' = Listed /\ UNCHANGED said
  /\ UNCHANGED <<jobAt, jobMoves, draining, lagVars>>

ActiveFirst(next) == IF next = "wait" THEN "active" ELSE "wait"
ListRead(next) == next

Length(queue, list) == Cardinality({j \in WatchedJobs : QueueOfJob[j] = queue /\ jobAt[j] = list})

(* On to the next queue, or to the answer. *)
AfterQueue(a) ==
  IF a.queue < Len(QueueOrder)
  THEN /\ asking' = [a EXCEPT !.queue = @ + 1, !.next = "wait", !.waiting = 0] /\ UNCHANGED <<steady, said>>
  ELSE Say(IF a.total > 0 THEN "processing" ELSE "idle", a.missed)

(* getTotalQueueDepth: llen of wait, then of active, which are added together; a queue of which    *)
(* Redis does not give both is left out.                                                        *)
ReadLength ==
  /\ asking # NotAsking
  /\ LET n == Length(QueueOrder[asking.queue], ListRead(asking.next))
     IN  \/ /\ asking.next = "wait"
            /\ asking' = [asking EXCEPT !.next = "active", !.waiting = n] /\ UNCHANGED <<steady, said>>
         \/ /\ asking.next = "active"
            /\ AfterQueue([asking EXCEPT !.total = @ + asking.waiting + n])
  /\ UNCHANGED <<jobAt, jobMoves, draining, lagVars>>

RedisFails ==
  /\ asking # NotAsking
  /\ AfterQueue([asking EXCEPT !.missed = TRUE])
  /\ UNCHANGED <<jobAt, jobMoves, draining, lagVars>>

(***************************************************************************)
(* The lag                                                                 *)
(***************************************************************************)

LedgerCloses ==
  /\ ledgerNow < MaxLedgers /\ ledgerNow' = ledgerNow + 1
  /\ UNCHANGED <<queueVars, indexedTo, checking, metrics>>

CheckpointMoves ==
  /\ \E l \in 0..ledgerNow : l > indexedTo /\ indexedTo' = l
  /\ UNCHANGED <<queueVars, ledgerNow, checking, metrics>>

(* getMetrics asks Horizon and the cache at once; either answers first.  A cache that cannot be    *)
(* reached answers as one that holds nothing.                                                    *)
StartCheck ==
  /\ checking = NotChecking
  /\ checking' = [latest |-> NotRead, indexed |-> NotRead, from |-> ledgerNow, to |-> indexedTo]
  /\ metrics' = NoMetrics /\ UNCHANGED <<queueVars, ledgerNow, indexedTo>>

HorizonAnswers ==
  /\ checking # NotChecking /\ checking.latest = NotRead
  /\ checking' = [checking EXCEPT !.latest = ledgerNow]
  /\ UNCHANGED <<queueVars, ledgerNow, indexedTo, metrics>>

CacheAnswers ==
  /\ checking # NotChecking /\ checking.indexed = NotRead
  /\ \E c \in {indexedTo, NoCheckpoint} : checking' = [checking EXCEPT !.indexed = c]
  /\ UNCHANGED <<queueVars, ledgerNow, indexedTo, metrics>>

Lag(latest, indexed) == IF indexed = NoCheckpoint \/ indexed > latest THEN 0 ELSE latest - indexed

ComputeStatus(lag, indexed) ==
  CASE indexed = NoCheckpoint -> "healthy"
    [] lag < Degraded         -> "healthy"
    [] lag <= Critical        -> "degraded"
    [] OTHER                  -> "critical"

GetMetrics ==
  /\ checking # NotChecking /\ checking.latest # NotRead /\ checking.indexed # NotRead
  /\ LET lag == Lag(checking.latest, checking.indexed)
     IN  metrics' = [lag |-> lag, status |-> ComputeStatus(lag, checking.indexed),
                     least |-> IF checking.indexed = NoCheckpoint THEN 0 ELSE Lag(checking.from, indexedTo),
                     most |-> Lag(ledgerNow, IF checking.to = NoCheckpoint THEN 0 ELSE checking.to)]
  /\ checking' = NotChecking
  /\ UNCHANGED <<queueVars, ledgerNow, indexedTo>>

(* A failed call to Horizon ends the check without an answer. *)
HorizonFails ==
  /\ checking # NotChecking /\ checking.latest = NotRead
  /\ checking' = NotChecking /\ UNCHANGED <<queueVars, ledgerNow, indexedTo, metrics>>

QueueNext == JobMoves \/ ShutDown \/ AskStatus \/ ReadLength \/ RedisFails
LagNext == LedgerCloses \/ CheckpointMoves \/ StartCheck \/ HorizonAnswers \/ CacheAnswers \/ GetMetrics \/ HorizonFails
MonitorNext == QueueNext \/ LagNext

-----------------------------------------------------------------------------
(* "idle" is never said while a job stood in the lists of its queue from the beginning of the     *)
(* request to its end, although every list is read at another time and the job may go from one   *)
(* to the next meanwhile; unless Redis did not answer, or the job's lock was lost.  A job that   *)
(* waits for its retry is in neither list, and does not count.                                  *)
IdleMeansNothingStood == said.status = "idle" => said.stood = {} \/ said.missed

(* The lag reported lies between that of the ledger at the beginning to the checkpoint at the end  *)
(* and that of the ledger at the end to the checkpoint at the beginning; and no lag is called    *)
(* healthy that is too great by the first of these, unless the cache did not answer.            *)
LagIsBetween ==
  metrics.status # "none" =>
    /\ metrics.lag \in metrics.least..metrics.most
    /\ metrics.least > Critical => metrics.status = "critical"
    /\ metrics.status = "critical" => metrics.most > Critical

MonitorInv == IdleMeansNothingStood /\ LagIsBetween
=============================================================================
