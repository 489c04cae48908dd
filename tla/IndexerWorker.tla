--------------------------- MODULE IndexerWorker ---------------------------
(***************************************************************************)
(* The indexer's worker process: IndexerWorker, its dead-letter table and  *)
(* the two replay operations, over the BullMQ queues it consumes.          *)
(*                                                                         *)
(* A job carries one on-chain event.  Its handler runs as a sequence of    *)
(* awaited steps (stage), so handlers of concurrent jobs interleave: the   *)
(* canonical row first, then the projections, then the checkpoint.  The    *)
(* steps of advanceLedger are those of LedgerCursor, one caller per job.   *)
(* A job that throws is retried up to MaxAttempts times and then kept in   *)
(* BullMQ's failed set; the dead-letter row is written afterwards by an    *)
(* event listener nobody waits for.                                        *)
(*                                                                         *)
(* A job is <<event, copy, depth>>: copy 0 is the poller's, further copies *)
(* are re-enqueued windows and replays from a ledger (BullMQ gives each a  *)
(* fresh id); depth counts the "dlq-replay:" prefixes of a stable id.      *)
(***************************************************************************)
EXTENDS Integers, FiniteSets, Sequences, SequencesExt

CONSTANTS
  Event,          \* records [kind, pool, ledger, price, liq, empty, seq]
  Pool,           \* pool ids
  InitialPools,   \* pools whose pool.created was indexed earlier
  MaxAttempts,    \* defaultJobOptions.attempts, and defaultRetries
  MaxStalls,      \* maxStalledCount
  Concurrency,    \* jobs of one queue run at once by the process
  MaxCopy,        \* bound: re-enqueued copies of an event
  MaxDepth,       \* bound: dead-letter replays of a replay
  MaxFaults,      \* bound: failing Postgres or Redis commands
  MaxDlqFaults,   \* bound: failing dead-letter writes
  MaxCrashes,     \* bound: process crashes and shutdowns
  MaxReplays,     \* bound: operator requests
  MayShutdown     \* whether SIGTERM is part of the run

Kind == {"created", "swap", "minted", "burned", "fees"}
NoLedger == -1
BadPrice == -1      \* a sqrtPriceX96 BigInt cannot parse; 0 is the invalid "0"
NoPool == -2
NoPosition == [liq |-> -1, closed |-> FALSE]

ASSUME EventAssumption ==
  /\ \A e \in Event : /\ e.kind \in Kind /\ e.pool \in Pool
                      /\ e.ledger \in Nat \cup {NoLedger}
                      /\ e.price \in Nat \cup {BadPrice}
                      /\ e.liq \in Nat /\ e.empty \in BOOLEAN
  /\ InitialPools \subseteq Pool
ASSUME BoundAssumption ==
  /\ MaxAttempts \in Nat \ {0} /\ Concurrency \in Nat \ {0}
  /\ {MaxStalls, MaxCopy, MaxDepth, MaxFaults, MaxDlqFaults, MaxCrashes,
      MaxReplays} \subseteq Nat
  /\ MayShutdown \in BOOLEAN

JobId == Event \X (0..MaxCopy) \X (0..MaxDepth)
Ev(j) == j[1]
ReplayId(j) == <<j[1], j[2], j[3] + 1>>        \* dlq-replay:<jobId>

VARIABLES
  jobs,        \* BullMQ: state, handler stage, attempts and stalls of each job
  queue,       \* BullMQ's wait list of each kind, next job first
  enqueued,    \* history: the events handed to the queues
  raw,         \* canonical event rows (poolCreated, swapProcessed, ...)
  pools,       \* pool rows: the price of the last event applied, or NoPool
  swaps,       \* swap rows: "none", or how feeAmount was resolved
  positions,   \* position row of each pool (one token id per pool)
  handled,     \* history: the events whose handler ran to its end
  dispatched,  \* events a webhook was dispatched for
  pendingDlq,  \* jobs whose recordDeadLetter is in flight
  dlq,         \* dead-letter rows: "none", "unrecovered", "recovered"
  clearing,    \* rows re-enqueued whose clearDeadLetter is in flight
  proc,        \* "up", "draining" (onModuleDestroy), "down"
  cache, row, call,                  \* the checkpoint, see LedgerCursor
  faults, dlqFaults, crashes, replays

jobVars == <<jobs, queue, enqueued>>
tableVars == <<raw, pools, swaps, positions>>
dlqVars == <<pendingDlq, dlq, clearing>>
cursorVars == <<cache, row, call>>
boundVars == <<faults, dlqFaults, crashes, replays>>
vars == <<jobVars, tableVars, handled, dispatched, dlqVars, proc, cursorVars, boundVars>>

Ledgers == {e.ledger : e \in Event} \ {NoLedger}
RawLedgers == {e.ledger : e \in raw} \ {NoLedger}
Cursor == INSTANCE LedgerCursor WITH
            Proc <- JobId, Ledger <- Ledgers, persisted <- RawLedgers, resume <- 0

Stage == {"none", "fetched", "write", "project", "fee", "swapRow", "findPool",
          "updatePool", "position", "advance", "cursor"}
NoJob == [st |-> "none", stage |-> "none", fee |-> "zero", attempts |-> 0, stalls |-> 0]
Waiting == [NoJob EXCEPT !.st = "wait"]
Live == {"wait", "delayed", "active", "stalled"}

TypeOK ==
  /\ jobs \in [JobId -> [st : Live \cup {"none", "failed"}, stage : Stage,
                         fee : {"zero", "derived"},
                         attempts : 0..MaxAttempts, stalls : 0..MaxStalls]]
  /\ \A k \in Kind : queue[k] \in Seq(JobId)
  /\ raw \subseteq Event /\ {enqueued, handled, dispatched} \subseteq SUBSET Event
  /\ pools \in [Pool -> Nat \cup {NoPool, BadPrice}]
  /\ swaps \in [Event -> {"none", "zero", "derived"}]
  /\ \A p \in Pool : positions[p].liq \in Nat \cup {-1}
  /\ pendingDlq \subseteq JobId /\ clearing \subseteq JobId
  /\ dlq \in [JobId -> {"none", "unrecovered", "recovered"}]
  /\ proc \in {"up", "draining", "down"}

Init ==
  /\ jobs = [j \in JobId |-> NoJob]
  /\ queue = [k \in Kind |-> <<>>]
  /\ enqueued = {} /\ raw = {} /\ handled = {} /\ dispatched = {}
  /\ pools = [p \in Pool |-> IF p \in InitialPools THEN 0 ELSE NoPool]
  /\ swaps = [e \in Event |-> "none"]
  /\ positions = [p \in Pool |-> NoPosition]
  /\ pendingDlq = {} /\ clearing = {} /\ dlq = [j \in JobId |-> "none"]
  /\ proc = "up"
  /\ Cursor!CursorInit
  /\ faults = 0 /\ dlqFaults = 0 /\ crashes = 0 /\ replays = 0

-----------------------------------------------------------------------------
(* Moves of one job.                                                       *)
At(j, stage) == jobs[j].st = "active" /\ jobs[j].stage = stage
SetJob(j, r) == jobs' = [jobs EXCEPT ![j] = r]
GoTo(j, stage) == SetJob(j, [jobs[j] EXCEPT !.stage = stage])
Complete(j) == SetJob(j, NoJob)                 \* removeOnComplete
Finish(j) == Complete(j) /\ handled' = handled \cup {Ev(j)}
Push(j) == queue' = [queue EXCEPT ![Ev(j).kind] = Append(@, j)]
ActiveIn(kind) == {j \in JobId : jobs[j].st = "active" /\ Ev(j).kind = kind}

MayFault == faults < MaxFaults /\ faults' = faults + 1
NoFault == UNCHANGED faults

(* BullMQ's own count of attempts, and the listener's isDeadLettered.      *)
GivesUp(n) == n >= MaxAttempts
Exhausted(n) == n >= MaxAttempts
Swallow(j) == GoTo(j, "advance") /\ UNCHANGED pendingDlq

(* The handler threw: BullMQ counts the attempt, then delays a retry or    *)
(* fails the job; the 'failed' listener starts recordDeadLetter.           *)
Throw(j) ==
  LET n == jobs[j].attempts + 1 IN
  /\ SetJob(j, [NoJob EXCEPT !.st = IF GivesUp(n) THEN "failed" ELSE "delayed",
                             !.attempts = n, !.stalls = jobs[j].stalls])
  /\ pendingDlq' = IF Exhausted(n) THEN pendingDlq \cup {j} ELSE pendingDlq

-----------------------------------------------------------------------------
(* The poller enqueues the events in chain order (seq), and again when a   *)
(* window is retried.                                                      *)
Enqueue(e, copy) ==
  LET j == <<e, copy, 0>> IN
  /\ jobs[j].st = "none"
  /\ copy = 0 => e \notin enqueued /\ \A f \in Event : f.seq < e.seq => f \in enqueued
  /\ copy > 0 => e \in enqueued
  /\ copy > 0 => replays < MaxReplays
  /\ replays' = IF copy > 0 THEN replays + 1 ELSE replays
  /\ SetJob(j, Waiting) /\ Push(j)
  /\ enqueued' = enqueued \cup {e}
  /\ UNCHANGED <<tableVars, handled, dispatched, dlqVars, proc, cursorVars, faults, dlqFaults, crashes>>

HasSlot(kind) == Cardinality(ActiveIn(kind)) < Concurrency

(* BullMQ hands a waiting job to the worker, at most Concurrency a queue.  *)
Fetch(j) ==
  /\ proc = "up"
  /\ queue[Ev(j).kind] # <<>> /\ j = Head(queue[Ev(j).kind])
  /\ queue' = [queue EXCEPT ![Ev(j).kind] = Tail(@)]
  /\ HasSlot(Ev(j).kind)
  /\ SetJob(j, [jobs[j] EXCEPT !.st = "active", !.stage = "fetched"])
  /\ UNCHANGED <<enqueued, tableVars, handled, dispatched, dlqVars, proc, cursorVars, boundVars>>

(* Variant: the pool is projected before its event is stored.              *)
ProjectFirst(kind) == IF kind = "created" THEN "project" ELSE "write"
FirstStage(kind) == "write"

(* guardedHandler and guardEmptyData.  A handler that returns completes    *)
(* its job: a process that is shutting down drops the event.               *)
Begin(j) ==
  /\ proc # "down"
  /\ At(j, "fetched")
  /\ IF proc = "up" /\ ~ Ev(j).empty THEN GoTo(j, FirstStage(Ev(j).kind)) ELSE Complete(j)
  /\ UNCHANGED <<queue, enqueued, tableVars, handled, dispatched, dlqVars, proc, cursorVars, boundVars>>

AfterWrite(kind) ==
  CASE kind = "created" -> "project"
    [] kind = "swap" -> "fee"
    [] kind \in {"minted", "burned"} -> "position"
    [] kind = "fees" -> "advance"

(* The canonical row is upserted on eventId; a failing write is retried.   *)
Write(j) ==
  /\ At(j, "write")
  /\ \/ /\ raw' = raw \cup {Ev(j)}
        /\ GoTo(j, AfterWrite(Ev(j).kind))
        /\ NoFault /\ UNCHANGED pendingDlq
     \/ /\ MayFault
        /\ Throw(j)
        /\ UNCHANGED raw
  /\ UNCHANGED <<queue, enqueued, pools, swaps, positions, handled, dispatched, dlq, clearing,
                 proc, cursorVars, dlqFaults, crashes, replays>>

(* projectPoolCreated: the pool row is created or overwritten; an error is *)
(* logged and swallowed.                                                   *)
ProjectPool(j) ==
  /\ At(j, "project")
  /\ \/ pools' = [pools EXCEPT ![Ev(j).pool] = Ev(j).price] /\ NoFault
     \/ MayFault /\ UNCHANGED pools
  /\ GoTo(j, "advance")
  /\ UNCHANGED <<queue, enqueued, raw, swaps, positions, handled, dispatched, dlqVars, proc,
                 cursorVars, dlqFaults, crashes, replays>>

FeeOf(p) == IF pools[p] # NoPool THEN "derived" ELSE "zero"

(* resolveFeeAmount reads the pool's feeTier; '0' when there is no pool or *)
(* the query fails.  isValidSqrtPrice throws on what BigInt cannot parse,  *)
(* which ends projectSwapProcessed.                                        *)
ReadFee(j) ==
  /\ At(j, "fee")
  /\ LET next == IF Ev(j).price = BadPrice THEN "advance" ELSE "swapRow" IN
     \/ SetJob(j, [jobs[j] EXCEPT !.stage = next, !.fee = FeeOf(Ev(j).pool)]) /\ NoFault
     \/ SetJob(j, [jobs[j] EXCEPT !.stage = next, !.fee = "zero"]) /\ MayFault
  /\ UNCHANGED <<queue, enqueued, tableVars, handled, dispatched, dlqVars, proc, cursorVars,
                 dlqFaults, crashes, replays>>

(* The swap row.  Its foreign key needs the pool row; a failing insert is  *)
(* swallowed together with the pool update that would have followed.       *)
WriteSwap(j) ==
  LET e == Ev(j) IN
  /\ At(j, "swapRow")
  /\ \/ /\ pools[e.pool] # NoPool
        /\ swaps' = [swaps EXCEPT ![e] = IF @ = "none" THEN jobs[j].fee ELSE @]
        /\ GoTo(j, IF e.price > 0 THEN "findPool" ELSE "advance")
        /\ NoFault
     \/ /\ pools[e.pool] = NoPool
        /\ GoTo(j, "advance") /\ NoFault /\ UNCHANGED swaps
     \/ /\ MayFault /\ GoTo(j, "advance") /\ UNCHANGED swaps
  /\ UNCHANGED <<queue, enqueued, raw, pools, positions, handled, dispatched, dlqVars, proc,
                 cursorVars, dlqFaults, crashes, replays>>

FindPool(j) ==
  /\ At(j, "findPool")
  /\ \/ GoTo(j, IF pools[Ev(j).pool] # NoPool THEN "updatePool" ELSE "advance") /\ NoFault
     \/ GoTo(j, "advance") /\ MayFault
  /\ UNCHANGED <<queue, enqueued, tableVars, handled, dispatched, dlqVars, proc, cursorVars,
                 dlqFaults, crashes, replays>>

(* The pool takes the price of the swap being handled, in handling order.  *)
UpdatePool(j) ==
  /\ At(j, "updatePool")
  /\ \/ pools' = [pools EXCEPT ![Ev(j).pool] = Ev(j).price] /\ NoFault
     \/ MayFault /\ UNCHANGED pools
  /\ GoTo(j, "advance")
  /\ UNCHANGED <<queue, enqueued, raw, swaps, positions, handled, dispatched, dlqVars, proc,
                 cursorVars, dlqFaults, crashes, replays>>

(* The position row of a mint or burn: what the event says becomes the     *)
(* row, and a burn to zero also sets closedAt, which nothing resets.       *)
Closes(e) == e.kind = "burned" /\ e.liq = 0
PositionAfter(e, old) ==
  [liq |-> e.liq, closed |-> old.closed \/ Closes(e)]

(* It fails, and with it the job, while the pool row does not exist.       *)
WritePosition(j) ==
  LET e == Ev(j) IN
  /\ At(j, "position")
  /\ \/ /\ pools[e.pool] # NoPool
        /\ positions' = [positions EXCEPT ![e.pool] = PositionAfter(e, @)]
        /\ GoTo(j, "advance") /\ NoFault /\ UNCHANGED pendingDlq
     \/ /\ pools[e.pool] = NoPool
        /\ Throw(j) /\ NoFault /\ UNCHANGED positions
     \/ /\ MayFault /\ Throw(j) /\ UNCHANGED positions
  /\ UNCHANGED <<queue, enqueued, raw, pools, swaps, handled, dispatched, dlq, clearing, proc,
                 cursorVars, dlqFaults, crashes, replays>>

(* The webhook dispatch is started, then advanceLedger; an event without a *)
(* ledger returns at once.                                                 *)
Announced(kind) == kind \in {"created", "swap"}
BeginAdvance(j) ==
  LET e == Ev(j) IN
  /\ At(j, "advance")
  /\ UNCHANGED <<queue, enqueued, tableVars, dlqVars, proc, boundVars>>
  /\ dispatched' = IF Announced(e.kind) THEN dispatched \cup {e} ELSE dispatched
  /\ \/ /\ e.ledger = NoLedger
        /\ Finish(j) /\ UNCHANGED cursorVars
     \/ /\ e.ledger # NoLedger
        /\ call' = [call EXCEPT ![j] = Cursor!CallAt("setMax", e.ledger)]
        /\ GoTo(j, "cursor") /\ UNCHANGED <<handled, cache, row>>

(* advanceLedger runs; the job completes when it returns.                  *)
Advance(j) ==
  /\ At(j, "cursor")
  /\ UNCHANGED <<queue, enqueued, tableVars, dispatched, dlqVars, proc, boundVars>>
  /\ Cursor!SetMax(j) \/ Cursor!FindCursor(j) \/ Cursor!UpsertCursor(j)
  /\ IF call'[j].pc = "idle" THEN Finish(j) ELSE UNCHANGED <<jobs, handled>>

Handle(j) ==
  \/ Begin(j) \/ Write(j) \/ ProjectPool(j) \/ ReadFee(j) \/ WriteSwap(j)
  \/ FindPool(j) \/ UpdatePool(j) \/ WritePosition(j) \/ BeginAdvance(j)
  \/ Advance(j)

-----------------------------------------------------------------------------
(* recordDeadLetter: an upsert on the job id; its error is only logged.    *)
RecordDeadLetter(j) ==
  /\ j \in pendingDlq
  /\ pendingDlq' = pendingDlq \ {j}
  /\ \/ dlq' = [dlq EXCEPT ![j] = "unrecovered"] /\ UNCHANGED dlqFaults
     \/ /\ dlqFaults < MaxDlqFaults /\ dlqFaults' = dlqFaults + 1
        /\ UNCHANGED dlq
  /\ UNCHANGED <<jobVars, tableVars, handled, dispatched, clearing, proc, cursorVars,
                 faults, crashes, replays>>

(* Variant: the row is cleared whatever enqueueDeadLetter returned.        *)
ClearAlways(ok) == TRUE
ClearAfter(ok) == ok

(* replayDeadLetters, one entry: enqueue under the stable id (a job that   *)
(* is still there makes it a no-op), then clear the row if that worked.    *)
(* The replay of all takes the entries that are not recovered; the one     *)
(* that names its job takes that entry either way.                         *)
Requeue(j, ok) ==
  /\ proc = "up"
  /\ dlq[j] # "none" /\ j \notin clearing
  /\ j[3] < MaxDepth
  /\ IF ok THEN /\ NoFault
                /\ IF jobs[ReplayId(j)].st = "none"
                   THEN SetJob(ReplayId(j), Waiting) /\ Push(ReplayId(j))
                   ELSE UNCHANGED <<jobs, queue>>
           ELSE MayFault /\ UNCHANGED <<jobs, queue>>
  /\ clearing' = IF ClearAfter(ok) THEN clearing \cup {j} ELSE clearing
  /\ UNCHANGED <<enqueued, tableVars, handled, dispatched, pendingDlq, dlq, proc,
                 cursorVars, dlqFaults, crashes, replays>>

ClearDeadLetter(j) ==
  /\ j \in clearing
  /\ clearing' = clearing \ {j}
  /\ \/ dlq' = [dlq EXCEPT ![j] = "recovered"] /\ UNCHANGED dlqFaults
     \/ dlqFaults < MaxDlqFaults /\ dlqFaults' = dlqFaults + 1 /\ UNCHANGED dlq
  /\ UNCHANGED <<jobVars, tableVars, handled, dispatched, pendingDlq, proc, cursorVars,
                 faults, crashes, replays>>

(* replayFromLedger, for one kind: its rows are read and re-enqueued under *)
(* fresh ids, lowest ledger first.  The five kinds run side by side, and   *)
(* any may fail alone.                                                     *)
FreeCopy(e) == {c \in 1..MaxCopy : jobs[<<e, c, 0>>].st = "none"}
ReplayRows(kind, from) == {e \in raw : e.kind = kind /\ e.ledger >= from}
ReplayKind(kind, from) ==
  LET rows == ReplayRows(kind, from) IN
  /\ proc = "up" /\ replays < MaxReplays
  /\ rows # {} /\ \A e \in rows : FreeCopy(e) # {}
  /\ LET ids == {<<e, CHOOSE c \in FreeCopy(e) : TRUE, 0>> : e \in rows} IN
       /\ jobs' = [j \in JobId |-> IF j \in ids THEN Waiting ELSE jobs[j]]
       /\ \E s \in SetToSeqs(ids) :
            /\ \A i, k \in DOMAIN s : i < k => Ev(s[i]).ledger <= Ev(s[k]).ledger
            /\ queue' = [queue EXCEPT ![kind] = @ \o s]
  /\ replays' = replays + 1
  /\ UNCHANGED <<enqueued, tableVars, handled, dispatched, dlqVars, proc, cursorVars,
                 faults, dlqFaults, crashes>>

-----------------------------------------------------------------------------
(* SIGTERM: onModuleDestroy stops routing and closes the workers.          *)
Shutdown ==
  /\ MayShutdown /\ proc = "up"
  /\ crashes < MaxCrashes /\ crashes' = crashes + 1
  /\ proc' = "draining"
  /\ UNCHANGED <<jobVars, tableVars, handled, dispatched, dlqVars, cursorVars, faults,
                 dlqFaults, replays>>

(* Variant: jobs are taken off the queue when they are fetched.            *)
Acknowledged(r) == NoJob
LockLost(r) == [r EXCEPT !.st = "stalled", !.stage = "none"]

(* What the death of the process leaves: jobs that hold a lock no one will *)
(* renew, and nothing of the promises in flight.                           *)
Die ==
  /\ proc' = "down"
  /\ jobs' = [j \in JobId |->
               IF jobs[j].st = "active" THEN LockLost(jobs[j]) ELSE jobs[j]]
  /\ pendingDlq' = {} /\ clearing' = {}
  /\ call' = [j \in JobId |-> Cursor!IdleCall]
  /\ UNCHANGED <<queue, enqueued, tableVars, handled, dispatched, dlq, cache, row, faults,
                 dlqFaults, replays>>

(* The drain is over when no job is active, or SHUTDOWN_TIMEOUT_MS passes. *)
Exit == proc = "draining" /\ Die /\ UNCHANGED crashes
Crash == proc # "down" /\ crashes < MaxCrashes /\ crashes' = crashes + 1 /\ Die

Restart ==
  /\ proc = "down"
  /\ proc' = "up"
  /\ UNCHANGED <<jobVars, tableVars, handled, dispatched, dlqVars, cursorVars, boundVars>>

(* The backoff of a job that threw is over.                                *)
Promote(j) ==
  /\ proc = "up" /\ jobs[j].st = "delayed"
  /\ SetJob(j, [jobs[j] EXCEPT !.st = "wait"]) /\ Push(j)
  /\ UNCHANGED <<enqueued, tableVars, handled, dispatched, dlqVars, proc, cursorVars, boundVars>>

(* Variant: the check only looks at jobs it may still retry.               *)
Overlooked(j) ==
  /\ proc = "up" /\ jobs[j].st = "stalled" /\ jobs[j].stalls < MaxStalls
  /\ SetJob(j, [Waiting EXCEPT !.attempts = jobs[j].attempts,
                               !.stalls = jobs[j].stalls + 1])
  /\ queue' = [queue EXCEPT ![Ev(j).kind] = <<j>> \o @]
  /\ UNCHANGED <<enqueued, tableVars, handled, dispatched, dlqVars, proc, cursorVars, boundVars>>

(* The stalled check of a running worker: back to wait, or failed for good *)
(* after maxStalledCount.  attemptsMade is then below defaultRetries, so   *)
(* the 'failed' listener records nothing.                                  *)
RecoverStalled(j) ==
  /\ proc = "up" /\ jobs[j].st = "stalled"
  /\ IF jobs[j].stalls < MaxStalls
     THEN /\ SetJob(j, [Waiting EXCEPT !.attempts = jobs[j].attempts,
                                       !.stalls = jobs[j].stalls + 1])
          /\ queue' = [queue EXCEPT ![Ev(j).kind] = <<j>> \o @]
     ELSE SetJob(j, [jobs[j] EXCEPT !.st = "failed"]) /\ UNCHANGED queue
  /\ UNCHANGED <<enqueued, tableVars, handled, dispatched, dlqVars, proc, cursorVars, boundVars>>

Next ==
  \/ \E e \in Event, c \in 0..MaxCopy : Enqueue(e, c)
  \/ \E j \in JobId : \/ Fetch(j) \/ Handle(j) \/ Promote(j) \/ RecoverStalled(j)
                      \/ RecordDeadLetter(j) \/ ClearDeadLetter(j)
                      \/ \E ok \in BOOLEAN : Requeue(j, ok)
  \/ \E k \in Kind, l \in Ledgers : ReplayKind(k, l)
  \/ Shutdown \/ Exit \/ Crash \/ Restart

Spec == Init /\ [][Next]_vars

(* A started handler keeps running, a worker that is up keeps fetching and *)
(* checking for stalled jobs, a dead process is restarted.                 *)
Fairness ==
  /\ \A j \in JobId : /\ WF_vars(Handle(j)) /\ WF_vars(Fetch(j))
                      /\ WF_vars(Promote(j)) /\ WF_vars(RecoverStalled(j))
  /\ WF_vars(Exit) /\ WF_vars(Restart)
FairSpec == Spec /\ Fairness

-----------------------------------------------------------------------------
JobsOf(e) == {j \in JobId : Ev(j) = e}

(* No event is lost: once enqueued it was handled to the end, or is still  *)
(* held by BullMQ (waiting, running, stalled or in the failed set), or was *)
(* rejected for an empty field.  "At-least-once delivery".                 *)
AtLeastOnce ==
  \A e \in enqueued :
    e \in handled \/ e.empty \/ \E j \in JobsOf(e) : jobs[j].st # "none"

(* A dead letter marked recovered was handled, or its replay job is still  *)
(* with BullMQ.                                                            *)
RecoveredRequeued ==
  \A j \in JobId : dlq[j] = "recovered" =>
    Ev(j) \in handled \/ jobs[ReplayId(j)].st # "none"

(* A subscriber hears only of events that are stored.                      *)
DispatchBacked == dispatched \subseteq raw

(* The wait lists hold each waiting job once, in its own queue, and a      *)
(* queue runs at most Concurrency handlers, also around crashes.           *)
QueueIsWaitSet ==
  \A k \in Kind :
    /\ \A i, n \in DOMAIN queue[k] : i # n => queue[k][i] # queue[k][n]
    /\ ToSet(queue[k]) = {j \in JobId : jobs[j].st = "wait" /\ Ev(j).kind = k}
    /\ Cardinality(ActiveIn(k)) <= Concurrency

(* The steps of the jobs implement the checkpoint's own specification.     *)
CursorSpec == Cursor!CursorSpec

(* Every job that is with BullMQ is eventually completed or failed.        *)
EveryJobSettles ==
  \A j \in JobId : jobs[j].st \in Live ~> jobs[j].st \in {"none", "failed"}

(* The queues and the dead letters fit the jobs, around crashes, replays    *)
(* and shutdowns.                                                          *)
QueuesSound == TypeOK /\ QueueIsWaitSet /\ RecoveredRequeued
=============================================================================
