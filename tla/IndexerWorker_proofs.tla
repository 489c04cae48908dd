------------------------ MODULE IndexerWorker_proofs ------------------------
(***************************************************************************)
(* Proofs about the indexer's worker, for any events, jobs, pools and      *)
(* bounds: what it announces is stored, its queues are its waiting jobs,   *)
(* its handlers drive the checkpoint as LedgerCursor says, and, while no   *)
(* SIGTERM falls among the handlers, no event is lost.                     *)
(***************************************************************************)
EXTENDS IndexerWorker, FiniteSetTheorems, TLAPS

JobRec == [st : Live \cup {"none", "failed"}, stage : Stage, fee : {"zero", "derived"},
           attempts : 0..MaxAttempts, stalls : 0..MaxStalls]
PositionRec == [liq : Nat \cup {-1}, closed : BOOLEAN]

WorkerTypes ==
  /\ jobs \in [JobId -> JobRec] /\ queue \in [Kind -> Seq(JobId)]
  /\ raw \subseteq Event /\ IsFiniteSet(raw) /\ enqueued \subseteq Event
  /\ handled \subseteq Event /\ dispatched \subseteq Event
  /\ pools \in [Pool -> Nat \cup {NoPool, BadPrice}]
  /\ swaps \in [Event -> {"none", "zero", "derived"}]
  /\ positions \in [Pool -> PositionRec]
  /\ pendingDlq \subseteq JobId /\ clearing \subseteq JobId
  /\ dlq \in [JobId -> {"none", "unrecovered", "recovered"}]
  /\ proc \in {"up", "draining", "down"}

(* A job BullMQ still runs or will run has an attempt left.                *)
AttemptsLeft == \A j \in JobId : jobs[j].st \in Live => jobs[j].attempts < MaxAttempts

TypesIInv == WorkerTypes /\ AttemptsLeft

LEMMA JobParts ==
  ASSUME NEW j \in JobId
  PROVE  Ev(j) \in Event /\ j[2] \in 0..MaxCopy /\ j[3] \in 0..MaxDepth /\ j = <<Ev(j), j[2], j[3]>>
BY DEF JobId, Ev

LEMMA JobMade ==
  ASSUME NEW e \in Event, NEW c \in 0..MaxCopy, NEW d \in 0..MaxDepth
  PROVE  <<e, c, d>> \in JobId /\ Ev(<<e, c, d>>) = e
BY DEF JobId, Ev

LEMMA ReplayMade ==
  ASSUME NEW j \in JobId, j[3] < MaxDepth
  PROVE  ReplayId(j) \in JobId /\ Ev(ReplayId(j)) = Ev(j)
<1>1. j[3] + 1 \in 0..MaxDepth
  BY JobParts, BoundAssumption
<1> QED BY <1>1, JobParts, JobMade DEF ReplayId, Ev

LEMMA EventParts ==
  ASSUME NEW e \in Event
  PROVE  /\ e.kind \in Kind /\ e.pool \in Pool /\ e.ledger \in Nat \cup {NoLedger}
         /\ e.price \in Nat \cup {BadPrice} /\ e.liq \in Nat
BY EventAssumption

(* Writing one job leaves the others alone.                                *)
LEMMA JobSet ==
  ASSUME jobs \in [JobId -> JobRec], NEW j \in JobId, NEW r \in JobRec, SetJob(j, r)
  PROVE  /\ jobs' \in [JobId -> JobRec] /\ jobs'[j] = r
         /\ \A i \in JobId \ {j} : jobs'[i] = jobs[i]
BY DEF SetJob

LEMMA NoJobTyped == NoJob \in JobRec /\ Waiting \in JobRec
BY BoundAssumption DEF NoJob, Waiting, JobRec, Live, Stage

(* The records handlers and BullMQ put in place of a job.                  *)
LEMMA StagedTyped ==
  ASSUME NEW r \in JobRec, NEW s \in Stage, NEW f \in {"zero", "derived"}
  PROVE  /\ [r EXCEPT !.stage = s] \in JobRec
         /\ [r EXCEPT !.stage = s, !.fee = f] \in JobRec
         /\ [r EXCEPT !.st = "active", !.stage = s] \in JobRec
         /\ [r EXCEPT !.st = "wait"] \in JobRec
         /\ [r EXCEPT !.st = "failed"] \in JobRec
<1>1. [r EXCEPT !.stage = s] \in JobRec /\ [r EXCEPT !.stage = s, !.fee = f] \in JobRec
  BY DEF JobRec
<1>2. {"active", "wait", "failed"} \subseteq Live \cup {"none", "failed"}
  BY DEF Live
<1>3. [r EXCEPT !.st = "active", !.stage = s] \in JobRec
  BY <1>2 DEF JobRec
<1>4. [r EXCEPT !.st = "wait"] \in JobRec
  BY <1>2 DEF JobRec
<1>5. [r EXCEPT !.st = "failed"] \in JobRec
  BY <1>2 DEF JobRec
<1> QED BY <1>1, <1>3, <1>4, <1>5, Zenon

LEMMA LostTyped ==
  ASSUME NEW r \in JobRec
  PROVE  /\ LockLost(r) \in JobRec /\ LockLost(r).attempts = r.attempts
         /\ LockLost(r).st = "stalled" /\ LockLost(r).stage = "none"
BY DEF JobRec, Live, Stage, LockLost

LEMMA TypesInit == Init => TypesIInv
<1> SUFFICES ASSUME Init PROVE TypesIInv
  OBVIOUS
<1>1. WorkerTypes
  BY NoJobTyped, EventAssumption, FS_EmptySet
     DEF Init, WorkerTypes, PositionRec, NoPosition, NoPool, BadPrice
<1>2. AttemptsLeft
  BY DEF Init, AttemptsLeft, NoJob, Live
<1> QED BY <1>1, <1>2 DEF TypesIInv

(* What a step does to one job: it keeps its type and its attempts.        *)
Kept(j, r) ==
  /\ r \in JobRec /\ (r.st \in Live => r.attempts < MaxAttempts)
  /\ SetJob(j, r)

LEMMA KeptIsKept ==
  ASSUME TypesIInv, NEW j \in JobId, NEW r, Kept(j, r)
  PROVE  jobs' \in [JobId -> JobRec] /\ AttemptsLeft'
<1>1. jobs \in [JobId -> JobRec] /\ AttemptsLeft
  BY DEF TypesIInv, WorkerTypes
<1>2. jobs' \in [JobId -> JobRec] /\ jobs'[j] = r /\ \A i \in JobId \ {j} : jobs'[i] = jobs[i]
  BY <1>1, JobSet DEF Kept
<1> QED BY <1>1, <1>2 DEF AttemptsLeft, Kept

LEMMA GoToKept ==
  ASSUME TypesIInv, NEW j \in JobId, NEW s \in Stage, jobs[j].st = "active", GoTo(j, s)
  PROVE  Kept(j, [jobs[j] EXCEPT !.stage = s])
<1>1. jobs[j] \in JobRec /\ jobs[j].attempts < MaxAttempts
  BY DEF TypesIInv, WorkerTypes, AttemptsLeft, Live
<1>2. [jobs[j] EXCEPT !.stage = s] \in JobRec
  BY <1>1, StagedTyped
<1>3. [jobs[j] EXCEPT !.stage = s].attempts = jobs[j].attempts
  BY <1>1 DEF JobRec
<1> QED BY <1>1, <1>2, <1>3 DEF Kept, GoTo

LEMMA CompleteKept ==
  ASSUME NEW j \in JobId, Complete(j) PROVE Kept(j, NoJob)
BY NoJobTyped DEF Complete, Kept, NoJob, Live

Thrown(j) ==
  [NoJob EXCEPT !.st = IF GivesUp(jobs[j].attempts + 1) THEN "failed" ELSE "delayed",
                !.attempts = jobs[j].attempts + 1, !.stalls = jobs[j].stalls]

LEMMA ThrowKept ==
  ASSUME TypesIInv, NEW j \in JobId, jobs[j].st = "active", Throw(j)
  PROVE  Kept(j, Thrown(j)) /\ pendingDlq' \subseteq pendingDlq \cup {j}
<1>1. jobs[j] \in JobRec /\ jobs[j].attempts < MaxAttempts
  BY DEF TypesIInv, WorkerTypes, AttemptsLeft, Live
<1>2. jobs[j].attempts + 1 \in 0..MaxAttempts /\ jobs[j].stalls \in 0..MaxStalls
  BY <1>1, BoundAssumption DEF JobRec
<1>3. Thrown(j) \in JobRec
  BY <1>2 DEF Thrown, NoJob, JobRec, Live, Stage
<1>4. Thrown(j).st \in Live => Thrown(j).attempts < MaxAttempts
  BY <1>2, BoundAssumption DEF Thrown, NoJob, GivesUp, Live
<1>5. SetJob(j, Thrown(j)) /\ pendingDlq' \subseteq pendingDlq \cup {j}
  BY DEF Throw, Thrown
<1> QED BY <1>3, <1>4, <1>5 DEF Kept

-----------------------------------------------------------------------------
(* Types, action by action.                                                *)
LEMMA BeginTypes == ASSUME TypesIInv, NEW j \in JobId, Begin(j) PROVE TypesIInv'
<1>1. jobs[j].st = "active" /\ FirstStage(Ev(j).kind) \in Stage
  BY DEF Begin, At, FirstStage, Stage
<1>2. jobs' \in [JobId -> JobRec] /\ AttemptsLeft'
  <2>1. CASE proc = "up" /\ ~ Ev(j).empty
    BY <1>1, <2>1, GoToKept, KeptIsKept DEF Begin
  <2>2. CASE ~ (proc = "up" /\ ~ Ev(j).empty)
    BY <2>2, CompleteKept, KeptIsKept DEF Begin
  <2> QED BY <2>1, <2>2
<1> QED BY <1>2 DEF Begin, TypesIInv, WorkerTypes, tableVars, dlqVars

LEMMA WriteTypes == ASSUME TypesIInv, NEW j \in JobId, Write(j) PROVE TypesIInv'
<1>1. jobs[j].st = "active" /\ Ev(j) \in Event /\ AfterWrite(Ev(j).kind) \in Stage
  BY JobParts, EventParts DEF Write, At, AfterWrite, Stage, Kind
<1>2. jobs' \in [JobId -> JobRec] /\ AttemptsLeft' /\ pendingDlq' \subseteq JobId
  <2>1. CASE GoTo(j, AfterWrite(Ev(j).kind)) /\ UNCHANGED pendingDlq
    BY <1>1, <2>1, GoToKept, KeptIsKept DEF TypesIInv, WorkerTypes
  <2>2. CASE Throw(j)
    BY <1>1, <2>2, ThrowKept, KeptIsKept DEF TypesIInv, WorkerTypes
  <2> QED BY <2>1, <2>2 DEF Write
<1>3. raw' \subseteq Event /\ IsFiniteSet(raw')
  <2>1. raw \subseteq Event /\ IsFiniteSet(raw) /\ IsFiniteSet(raw \cup {Ev(j)})
    BY FS_AddElement DEF TypesIInv, WorkerTypes
  <2>2. raw' = raw \/ raw' = raw \cup {Ev(j)}
    BY DEF Write
  <2> QED BY <1>1, <2>1, <2>2
<1>4. UNCHANGED <<queue, enqueued, pools, swaps, positions, handled, dispatched, dlq, clearing, proc>>
  BY DEF Write
<1> QED BY <1>2, <1>3, <1>4 DEF TypesIInv, WorkerTypes

LEMMA PriceTyped ==
  ASSUME TypesIInv, NEW e \in Event,
         pools' = [pools EXCEPT ![e.pool] = e.price] \/ UNCHANGED pools
  PROVE  pools' \in [Pool -> Nat \cup {NoPool, BadPrice}]
BY EventParts DEF TypesIInv, WorkerTypes

LEMMA PoolTypes ==
  ASSUME TypesIInv, NEW j \in JobId, ProjectPool(j) \/ UpdatePool(j) PROVE TypesIInv'
<1>1. jobs[j].st = "active" /\ Ev(j) \in Event /\ "advance" \in Stage /\ GoTo(j, "advance")
  BY JobParts DEF ProjectPool, UpdatePool, At, Stage
<1>2. jobs' \in [JobId -> JobRec] /\ AttemptsLeft'
  BY <1>1, GoToKept, KeptIsKept
<1>3. pools' \in [Pool -> Nat \cup {NoPool, BadPrice}]
  BY <1>1, PriceTyped DEF ProjectPool, UpdatePool
<1> QED BY <1>2, <1>3 DEF ProjectPool, UpdatePool, TypesIInv, WorkerTypes, dlqVars

LEMMA ReadFeeTypes == ASSUME TypesIInv, NEW j \in JobId, ReadFee(j) PROVE TypesIInv'
<1> DEFINE next == IF Ev(j).price = BadPrice THEN "advance" ELSE "swapRow"
<1>1. jobs[j].st = "active" /\ next \in Stage /\ FeeOf(Ev(j).pool) \in {"zero", "derived"}
  BY DEF ReadFee, At, Stage, FeeOf
<1>2. PICK f \in {"zero", "derived"} : SetJob(j, [jobs[j] EXCEPT !.stage = next, !.fee = f])
  BY <1>1 DEF ReadFee
<1>3. jobs[j] \in JobRec /\ jobs[j].attempts < MaxAttempts
  BY <1>1 DEF TypesIInv, WorkerTypes, AttemptsLeft, Live
<1>4. [jobs[j] EXCEPT !.stage = next, !.fee = f] \in JobRec
  BY <1>1, <1>3, StagedTyped
<1>5. [jobs[j] EXCEPT !.stage = next, !.fee = f].attempts = jobs[j].attempts
  BY <1>3 DEF JobRec
<1>6. Kept(j, [jobs[j] EXCEPT !.stage = next, !.fee = f])
  BY <1>2, <1>3, <1>4, <1>5 DEF Kept
<1>7. jobs' \in [JobId -> JobRec] /\ AttemptsLeft'
  BY <1>6, KeptIsKept
<1> QED BY <1>7 DEF ReadFee, TypesIInv, WorkerTypes, tableVars, dlqVars

LEMMA WriteSwapTypes == ASSUME TypesIInv, NEW j \in JobId, WriteSwap(j) PROVE TypesIInv'
<1>1. jobs[j].st = "active" /\ Ev(j) \in Event
  BY JobParts DEF WriteSwap, At
<1>2. PICK s \in {"findPool", "advance"} : GoTo(j, s)
  BY DEF WriteSwap
<1>3. s \in Stage
  BY DEF Stage
<1>4. jobs' \in [JobId -> JobRec] /\ AttemptsLeft'
  BY <1>1, <1>2, <1>3, GoToKept, KeptIsKept
<1>5. jobs[j].fee \in {"none", "zero", "derived"}
  BY DEF TypesIInv, WorkerTypes, JobRec
<1>6. swaps' \in [Event -> {"none", "zero", "derived"}]
  BY <1>1, <1>5 DEF WriteSwap, TypesIInv, WorkerTypes
<1> QED BY <1>4, <1>6 DEF WriteSwap, TypesIInv, WorkerTypes, dlqVars

LEMMA FindPoolTypes == ASSUME TypesIInv, NEW j \in JobId, FindPool(j) PROVE TypesIInv'
<1>1. jobs[j].st = "active"
  BY DEF FindPool, At
<1>2. PICK s \in {"updatePool", "advance"} : GoTo(j, s)
  BY DEF FindPool
<1>3. s \in Stage
  BY DEF Stage
<1>4. jobs' \in [JobId -> JobRec] /\ AttemptsLeft'
  BY <1>1, <1>2, <1>3, GoToKept, KeptIsKept
<1> QED BY <1>4 DEF FindPool, TypesIInv, WorkerTypes, tableVars, dlqVars

LEMMA PositionTyped ==
  ASSUME NEW e \in Event, NEW old \in PositionRec PROVE PositionAfter(e, old) \in PositionRec
BY EventParts DEF PositionAfter, PositionRec, Closes

LEMMA WritePositionTypes == ASSUME TypesIInv, NEW j \in JobId, WritePosition(j) PROVE TypesIInv'
<1>1. jobs[j].st = "active" /\ Ev(j) \in Event /\ Ev(j).pool \in Pool /\ "advance" \in Stage
  BY JobParts, EventParts DEF WritePosition, At, Stage
<1>2. positions[Ev(j).pool] \in PositionRec
  BY <1>1 DEF TypesIInv, WorkerTypes
<1>3. CASE /\ positions' = [positions EXCEPT ![Ev(j).pool] = PositionAfter(Ev(j), @)]
           /\ GoTo(j, "advance") /\ UNCHANGED pendingDlq
  <2>1. jobs' \in [JobId -> JobRec] /\ AttemptsLeft'
    BY <1>1, <1>3, GoToKept, KeptIsKept
  <2>2. positions' \in [Pool -> PositionRec]
    BY <1>1, <1>2, <1>3, PositionTyped DEF TypesIInv, WorkerTypes
  <2> QED BY <1>3, <2>1, <2>2 DEF WritePosition, TypesIInv, WorkerTypes
<1>4. CASE Throw(j) /\ UNCHANGED positions
  <2>1. jobs' \in [JobId -> JobRec] /\ AttemptsLeft' /\ pendingDlq' \subseteq JobId
    BY <1>1, <1>4, ThrowKept, KeptIsKept DEF TypesIInv, WorkerTypes
  <2> QED BY <1>4, <2>1 DEF WritePosition, TypesIInv, WorkerTypes
<1> QED BY <1>3, <1>4 DEF WritePosition

LEMMA BeginAdvanceTypes == ASSUME TypesIInv, NEW j \in JobId, BeginAdvance(j) PROVE TypesIInv'
<1>1. jobs[j].st = "active" /\ Ev(j) \in Event /\ "cursor" \in Stage
  BY JobParts DEF BeginAdvance, At, Stage
<1>2. dispatched' \subseteq Event
  BY <1>1 DEF BeginAdvance, TypesIInv, WorkerTypes
<1>3. CASE Finish(j)
  BY <1>1, <1>2, <1>3, CompleteKept, KeptIsKept
     DEF Finish, BeginAdvance, TypesIInv, WorkerTypes, tableVars, dlqVars
<1>4. CASE GoTo(j, "cursor") /\ UNCHANGED handled
  BY <1>1, <1>2, <1>4, GoToKept, KeptIsKept
     DEF BeginAdvance, TypesIInv, WorkerTypes, tableVars, dlqVars
<1> QED BY <1>3, <1>4 DEF BeginAdvance

LEMMA AdvanceTypes == ASSUME TypesIInv, NEW j \in JobId, Advance(j) PROVE TypesIInv'
<1>1. Ev(j) \in Event
  BY JobParts
<1>2. CASE Finish(j)
  BY <1>1, <1>2, CompleteKept, KeptIsKept
     DEF Finish, Advance, TypesIInv, WorkerTypes, tableVars, dlqVars
<1>3. CASE UNCHANGED <<jobs, handled>>
  BY <1>3 DEF Advance, TypesIInv, WorkerTypes, AttemptsLeft, tableVars, dlqVars
<1> QED BY <1>2, <1>3 DEF Advance

-----------------------------------------------------------------------------
(* What BullMQ, the dead letters and the operator do keeps the types.      *)
LEMMA PushTypes ==
  ASSUME TypesIInv, NEW j \in JobId, Push(j) PROVE queue' \in [Kind -> Seq(JobId)]
<1>1. Ev(j).kind \in Kind /\ queue[Ev(j).kind] \in Seq(JobId)
  BY JobParts, EventParts DEF TypesIInv, WorkerTypes
<1>2. Append(queue[Ev(j).kind], j) \in Seq(JobId)
  BY <1>1
<1> QED BY <1>1, <1>2 DEF Push, TypesIInv, WorkerTypes

LEMMA WaitingKept ==
  ASSUME TypesIInv, NEW j \in JobId, SetJob(j, Waiting) PROVE Kept(j, Waiting)
BY NoJobTyped, BoundAssumption DEF Kept, Waiting, NoJob

LEMMA EnqueueTypes ==
  ASSUME TypesIInv, NEW e \in Event, NEW c \in 0..MaxCopy, Enqueue(e, c) PROVE TypesIInv'
<1>0. 0 \in 0..MaxDepth
  BY BoundAssumption
<1>1. <<e, c, 0>> \in JobId /\ SetJob(<<e, c, 0>>, Waiting) /\ Push(<<e, c, 0>>)
  BY <1>0, JobMade DEF Enqueue
<1>2. jobs' \in [JobId -> JobRec] /\ AttemptsLeft' /\ queue' \in [Kind -> Seq(JobId)]
  BY <1>1, WaitingKept, KeptIsKept, PushTypes
<1> QED BY <1>2 DEF Enqueue, TypesIInv, WorkerTypes, tableVars, dlqVars

LEMMA FetchTypes == ASSUME TypesIInv, NEW j \in JobId, Fetch(j), jobs[j].st = "wait" PROVE TypesIInv'
<1>1. jobs[j] \in JobRec /\ jobs[j].attempts < MaxAttempts /\ "fetched" \in Stage
  BY DEF TypesIInv, WorkerTypes, AttemptsLeft, Live, Stage
<1> DEFINE r == [jobs[j] EXCEPT !.st = "active", !.stage = "fetched"]
<1>2. r \in JobRec /\ r.attempts = jobs[j].attempts
  BY <1>1, StagedTyped DEF JobRec
<1>3. Kept(j, r)
  BY <1>1, <1>2 DEF Kept, Fetch
<1>4. jobs' \in [JobId -> JobRec] /\ AttemptsLeft'
  BY <1>3, KeptIsKept
<1>5. Ev(j).kind \in Kind /\ queue[Ev(j).kind] \in Seq(JobId) /\ queue[Ev(j).kind] # <<>>
  BY JobParts, EventParts DEF TypesIInv, WorkerTypes, Fetch
<1>6. Tail(queue[Ev(j).kind]) \in Seq(JobId)
  BY <1>5
<1>7. queue' \in [Kind -> Seq(JobId)]
  BY <1>5, <1>6 DEF Fetch, TypesIInv, WorkerTypes
<1> QED BY <1>4, <1>7 DEF Fetch, TypesIInv, WorkerTypes, tableVars, dlqVars

LEMMA PromoteTypes == ASSUME TypesIInv, NEW j \in JobId, Promote(j) PROVE TypesIInv'
<1>1. jobs[j] \in JobRec /\ jobs[j].attempts < MaxAttempts
  BY DEF TypesIInv, WorkerTypes, AttemptsLeft, Live, Promote
<1> DEFINE r == [jobs[j] EXCEPT !.st = "wait"]
<1>2. r \in JobRec /\ r.attempts = jobs[j].attempts
  BY <1>1, StagedTyped DEF JobRec
<1>3. Kept(j, r)
  BY <1>1, <1>2 DEF Kept, Promote
<1>4. jobs' \in [JobId -> JobRec] /\ AttemptsLeft' /\ queue' \in [Kind -> Seq(JobId)]
  BY <1>3, KeptIsKept, PushTypes DEF Promote
<1> QED BY <1>4 DEF Promote, TypesIInv, WorkerTypes, tableVars, dlqVars

LEMMA RecoverTypes == ASSUME TypesIInv, NEW j \in JobId, RecoverStalled(j) PROVE TypesIInv'
<1>1. jobs[j] \in JobRec /\ jobs[j].attempts < MaxAttempts
  BY DEF TypesIInv, WorkerTypes, AttemptsLeft, Live, RecoverStalled
<1>2. CASE jobs[j].stalls < MaxStalls
  <2> DEFINE r == [Waiting EXCEPT !.attempts = jobs[j].attempts, !.stalls = jobs[j].stalls + 1]
  <2>0. jobs[j].stalls + 1 \in 0..MaxStalls /\ jobs[j].attempts \in 0..MaxAttempts
    BY <1>1, <1>2, BoundAssumption DEF JobRec
  <2>1. r \in JobRec /\ r.attempts = jobs[j].attempts
    BY <2>0 DEF JobRec, Waiting, NoJob, Live, Stage
  <2>2. Kept(j, r)
    BY <1>1, <1>2, <2>1 DEF Kept, RecoverStalled
  <2>3. Ev(j).kind \in Kind /\ queue[Ev(j).kind] \in Seq(JobId) /\ <<j>> \in Seq(JobId)
    BY JobParts, EventParts DEF TypesIInv, WorkerTypes
  <2>4. <<j>> \o queue[Ev(j).kind] \in Seq(JobId)
    BY <2>3
  <2>5. queue' \in [Kind -> Seq(JobId)]
    BY <1>2, <2>3, <2>4 DEF RecoverStalled, TypesIInv, WorkerTypes
  <2>6. jobs' \in [JobId -> JobRec] /\ AttemptsLeft'
    BY <2>2, KeptIsKept
  <2> QED BY <2>5, <2>6 DEF RecoverStalled, TypesIInv, WorkerTypes, tableVars, dlqVars
<1>3. CASE ~ (jobs[j].stalls < MaxStalls)
  <2> DEFINE r == [jobs[j] EXCEPT !.st = "failed"]
  <2>1. Kept(j, r)
    BY <1>1, <1>3, StagedTyped DEF Kept, RecoverStalled, JobRec
  <2>2. jobs' \in [JobId -> JobRec] /\ AttemptsLeft'
    BY <2>1, KeptIsKept
  <2> QED BY <1>3, <2>2 DEF RecoverStalled, TypesIInv, WorkerTypes, tableVars, dlqVars
<1> QED BY <1>2, <1>3

LEMMA DlqTypes ==
  ASSUME TypesIInv, NEW j \in JobId, RecordDeadLetter(j) \/ ClearDeadLetter(j) PROVE TypesIInv'
<1>1. dlq' \in [JobId -> {"none", "unrecovered", "recovered"}]
  BY DEF RecordDeadLetter, ClearDeadLetter, TypesIInv, WorkerTypes
<1> QED BY <1>1 DEF RecordDeadLetter, ClearDeadLetter, TypesIInv, WorkerTypes, AttemptsLeft, jobVars, tableVars

LEMMA RequeueTypes ==
  ASSUME TypesIInv, NEW j \in JobId, NEW ok \in BOOLEAN, Requeue(j, ok) PROVE TypesIInv'
<1>1. ReplayId(j) \in JobId
  BY ReplayMade DEF Requeue
<1>2. CASE SetJob(ReplayId(j), Waiting) /\ Push(ReplayId(j))
  <2>1. jobs' \in [JobId -> JobRec] /\ AttemptsLeft' /\ queue' \in [Kind -> Seq(JobId)]
    BY <1>1, <1>2, WaitingKept, KeptIsKept, PushTypes
  <2> QED BY <2>1 DEF Requeue, TypesIInv, WorkerTypes, tableVars
<1>3. CASE UNCHANGED <<jobs, queue>>
  BY <1>3 DEF Requeue, TypesIInv, WorkerTypes, AttemptsLeft, tableVars
<1> QED BY <1>2, <1>3 DEF Requeue

(* The ids of a replayed window are free, one to each of its rows.         *)
CopyOf(e) == <<e, CHOOSE c \in FreeCopy(e) : TRUE, 0>>
WindowIds(kind, from) == {CopyOf(e) : e \in ReplayRows(kind, from)}

LEMMA WindowFree ==
  ASSUME TypesIInv, NEW kind \in Kind, NEW from \in Ledgers, ReplayKind(kind, from)
  PROVE  /\ WindowIds(kind, from) \subseteq JobId /\ IsFiniteSet(WindowIds(kind, from))
         /\ \A i \in WindowIds(kind, from) : jobs[i].st = "none" /\ Ev(i).kind = kind
         /\ jobs' = [j \in JobId |-> IF j \in WindowIds(kind, from) THEN Waiting ELSE jobs[j]]
         /\ \E s \in SetToSeqs(WindowIds(kind, from)) : queue' = [queue EXCEPT ![kind] = @ \o s]
<1>1. /\ ReplayRows(kind, from) \subseteq Event /\ ReplayRows(kind, from) \subseteq raw
      /\ IsFiniteSet(ReplayRows(kind, from))
  <2>1. ReplayRows(kind, from) \in SUBSET raw /\ raw \subseteq Event /\ IsFiniteSet(raw)
    BY DEF ReplayRows, TypesIInv, WorkerTypes
  <2> QED BY <2>1, FS_Subset
<1>2. ASSUME NEW e \in ReplayRows(kind, from)
      PROVE  CopyOf(e) \in JobId /\ jobs[CopyOf(e)].st = "none" /\ Ev(CopyOf(e)) = e /\ e.kind = kind
  <2>1. FreeCopy(e) # {} /\ e \in Event /\ e.kind = kind
    BY <1>1 DEF ReplayKind, ReplayRows
  <2>2. (CHOOSE c \in FreeCopy(e) : TRUE) \in FreeCopy(e)
    BY <2>1
  <2>3. 0 \in 0..MaxDepth /\ 1..MaxCopy \subseteq 0..MaxCopy
    BY BoundAssumption
  <2>4. PICK c \in 1..MaxCopy : c = (CHOOSE n \in FreeCopy(e) : TRUE) /\ jobs[<<e, c, 0>>].st = "none"
    BY <2>2 DEF FreeCopy
  <2> QED BY <2>1, <2>3, <2>4, JobMade DEF CopyOf
<1>3. IsFiniteSet(WindowIds(kind, from))
  <2> DEFINE rows == ReplayRows(kind, from)
             f == [e \in rows |-> CopyOf(e)]
  <2>1. f \in Surjection(rows, WindowIds(kind, from))
    BY DEF Surjection, WindowIds
  <2> QED BY <1>1, <2>1, FS_Surjection
<1> QED BY <1>2, <1>3 DEF ReplayKind, WindowIds, CopyOf

LEMMA WindowTypes ==
  ASSUME TypesIInv, NEW kind \in Kind, NEW from \in Ledgers, ReplayKind(kind, from) PROVE TypesIInv'
<1> DEFINE ids == WindowIds(kind, from)
<1>1. /\ ids \subseteq JobId /\ IsFiniteSet(ids)
      /\ jobs' = [j \in JobId |-> IF j \in ids THEN Waiting ELSE jobs[j]]
  BY WindowFree
<1>2. PICK s \in SetToSeqs(ids) : queue' = [queue EXCEPT ![kind] = @ \o s]
  BY WindowFree
<1>3. s \in [1..Cardinality(ids) -> ids] /\ Cardinality(ids) \in Nat
  BY <1>1, FS_CardinalityType DEF SetToSeqs
<1> HIDE DEF ids
<1>4. s \in Seq(JobId)
  BY <1>1, <1>3
<1>5. queue[kind] \in Seq(JobId) /\ queue[kind] \o s \in Seq(JobId)
  BY <1>4 DEF TypesIInv, WorkerTypes
<1>6. queue' \in [Kind -> Seq(JobId)]
  BY <1>2, <1>5 DEF TypesIInv, WorkerTypes
<1>7. jobs' \in [JobId -> JobRec] /\ AttemptsLeft'
  <2>1. Waiting \in JobRec /\ Waiting.attempts = 0 /\ 0 < MaxAttempts
    BY NoJobTyped, BoundAssumption DEF Waiting, NoJob
  <2> QED BY <1>1, <2>1 DEF TypesIInv, WorkerTypes, AttemptsLeft
<1> QED BY <1>6, <1>7 DEF ReplayKind, TypesIInv, WorkerTypes, tableVars, dlqVars

LEMMA DieTypes == ASSUME TypesIInv, Die PROVE TypesIInv'
<1>1. \A j \in JobId : jobs[j] \in JobRec
  BY DEF TypesIInv, WorkerTypes
<1>2. \A j \in JobId : LockLost(jobs[j]) \in JobRec /\ LockLost(jobs[j]).attempts = jobs[j].attempts
  BY <1>1, LostTyped
<1>3. jobs' \in [JobId -> JobRec]
  BY <1>1, <1>2 DEF Die
<1>4. AttemptsLeft'
  <2> SUFFICES ASSUME NEW j \in JobId, jobs'[j].st \in Live PROVE jobs'[j].attempts < MaxAttempts
    BY DEF AttemptsLeft
  <2>1. CASE jobs[j].st = "active"
    BY <1>2, <2>1 DEF Die, TypesIInv, AttemptsLeft, Live
  <2>2. CASE jobs[j].st # "active"
    BY <2>2 DEF Die, TypesIInv, AttemptsLeft
  <2> QED BY <2>1, <2>2
<1> QED BY <1>3, <1>4 DEF Die, TypesIInv, WorkerTypes, tableVars

LEMMA ProcTypes == ASSUME TypesIInv, Shutdown \/ Restart PROVE TypesIInv'
BY DEF Shutdown, Restart, TypesIInv, WorkerTypes, AttemptsLeft, jobVars, tableVars, dlqVars

LEMMA HandleTypes == ASSUME TypesIInv, NEW j \in JobId, Handle(j) PROVE TypesIInv'
BY BeginTypes, WriteTypes, PoolTypes, ReadFeeTypes, WriteSwapTypes, FindPoolTypes,
   WritePositionTypes, BeginAdvanceTypes, AdvanceTypes DEF Handle

-----------------------------------------------------------------------------
(* Wait lists: what a sequence that holds each member once keeps.          *)
Distinct(s) == \A i, n \in DOMAIN s : i # n => s[i] # s[n]

LEMMA TailKeeps ==
  ASSUME NEW S, NEW s \in Seq(S), s # <<>>, Distinct(s)
  PROVE  Distinct(Tail(s)) /\ ToSet(Tail(s)) = ToSet(s) \ {Head(s)} /\ Head(s) \in ToSet(s)
<1>1. /\ Tail(s) \in Seq(S) /\ Len(Tail(s)) = Len(s) - 1 /\ Len(s) \in Nat \ {0}
      /\ \A i \in 1..Len(Tail(s)) : Tail(s)[i] = s[i + 1]
  OBVIOUS
<1>2. DOMAIN s = 1..Len(s) /\ DOMAIN Tail(s) = 1..(Len(s) - 1) /\ Head(s) = s[1]
  BY <1>1
<1>3. Distinct(Tail(s))
  BY <1>1, <1>2 DEF Distinct
<1>4. ToSet(Tail(s)) \subseteq ToSet(s) \ {Head(s)}
  BY <1>1, <1>2 DEF ToSet, Distinct
<1>5. ASSUME NEW x \in ToSet(s), x # Head(s) PROVE x \in ToSet(Tail(s))
  <2>1. PICK i \in 1..Len(s) : x = s[i]
    BY <1>2 DEF ToSet
  <2>2. i - 1 \in 1..(Len(s) - 1) /\ Tail(s)[i - 1] = x
    BY <1>1, <1>2, <1>5, <2>1
  <2> QED BY <1>2, <2>2 DEF ToSet
<1> QED BY <1>1, <1>2, <1>3, <1>4, <1>5 DEF ToSet

LEMMA ConcatKeeps ==
  ASSUME NEW S, NEW s \in Seq(S), NEW t \in Seq(S), Distinct(s), Distinct(t),
         ToSet(s) \cap ToSet(t) = {}
  PROVE  Distinct(s \o t) /\ ToSet(s \o t) = ToSet(s) \cup ToSet(t)
<1>1. /\ s \o t \in Seq(S) /\ Len(s \o t) = Len(s) + Len(t) /\ Len(s) \in Nat /\ Len(t) \in Nat
      /\ \A i \in 1..(Len(s) + Len(t)) : (s \o t)[i] = IF i <= Len(s) THEN s[i] ELSE t[i - Len(s)]
  OBVIOUS
<1>2. DOMAIN s = 1..Len(s) /\ DOMAIN t = 1..Len(t) /\ DOMAIN (s \o t) = 1..(Len(s) + Len(t))
  BY <1>1
<1>3. \A x : x \in ToSet(s) <=> \E i \in 1..Len(s) : s[i] = x
  BY <1>2 DEF ToSet
<1>4. \A x : x \in ToSet(t) <=> \E i \in 1..Len(t) : t[i] = x
  BY <1>2 DEF ToSet
<1>5. \A x : x \in ToSet(s \o t) <=> \E i \in 1..(Len(s) + Len(t)) : (s \o t)[i] = x
  BY <1>2 DEF ToSet
<1>6. Distinct(s \o t)
  <2> SUFFICES ASSUME NEW i \in 1..(Len(s) + Len(t)), NEW n \in 1..(Len(s) + Len(t)), i # n
               PROVE  (s \o t)[i] # (s \o t)[n]
    BY <1>2 DEF Distinct
  <2>1. CASE i <= Len(s) /\ n <= Len(s)
    BY <1>1, <1>2, <2>1 DEF Distinct
  <2>2. CASE i > Len(s) /\ n > Len(s)
    <3>1. i - Len(s) \in 1..Len(t) /\ n - Len(s) \in 1..Len(t) /\ i - Len(s) # n - Len(s)
      BY <1>1, <2>2
    <3>2. (s \o t)[i] = t[i - Len(s)] /\ (s \o t)[n] = t[n - Len(s)]
      BY <1>1, <2>2
    <3> QED BY <1>2, <3>1, <3>2 DEF Distinct
  <2>3. CASE i <= Len(s) /\ n > Len(s)
    <3>1. n - Len(s) \in 1..Len(t) /\ i \in 1..Len(s) /\ (s \o t)[i] = s[i] /\ (s \o t)[n] = t[n - Len(s)]
      BY <1>1, <2>3
    <3> QED BY <1>3, <1>4, <3>1
  <2>4. CASE i > Len(s) /\ n <= Len(s)
    <3>1. i - Len(s) \in 1..Len(t) /\ n \in 1..Len(s) /\ (s \o t)[n] = s[n] /\ (s \o t)[i] = t[i - Len(s)]
      BY <1>1, <2>4
    <3> QED BY <1>3, <1>4, <3>1
  <2> QED BY <1>1, <2>1, <2>2, <2>3, <2>4
<1>7. \A x \in ToSet(s) : x \in ToSet(s \o t)
  BY <1>1, <1>3, <1>5
<1>8. ASSUME NEW x \in ToSet(t) PROVE x \in ToSet(s \o t)
  <2>1. PICK i \in 1..Len(t) : t[i] = x
    BY <1>4
  <2>2. i + Len(s) \in 1..(Len(s) + Len(t)) /\ (s \o t)[i + Len(s)] = t[i]
    BY <1>1
  <2> QED BY <1>5, <2>1, <2>2
<1>9. ASSUME NEW x \in ToSet(s \o t) PROVE x \in ToSet(s) \cup ToSet(t)
  <2>1. PICK i \in 1..(Len(s) + Len(t)) : (s \o t)[i] = x
    BY <1>5
  <2>2. CASE i <= Len(s)
    BY <1>1, <1>3, <2>1, <2>2
  <2>3. CASE i > Len(s)
    <3>1. i - Len(s) \in 1..Len(t) /\ t[i - Len(s)] = x
      BY <1>1, <2>1, <2>3
    <3> QED BY <1>4, <3>1
  <2> QED BY <1>1, <2>2, <2>3
<1> QED BY <1>6, <1>7, <1>8, <1>9

LEMMA OneKeeps ==
  ASSUME NEW S, NEW x \in S
  PROVE  <<x>> \in Seq(S) /\ Distinct(<<x>>) /\ ToSet(<<x>>) = {x}
BY DEF Distinct, ToSet

LEMMA AppendIsConcat ==
  ASSUME NEW S, NEW s \in Seq(S), NEW x \in S PROVE Append(s, x) = s \o <<x>>
OBVIOUS

(* An order of a finite set holds each of its members once.                *)
LEMMA OrderKeeps ==
  ASSUME NEW S, NEW ids \in SUBSET S, IsFiniteSet(ids), NEW s \in SetToSeqs(ids)
  PROVE  s \in Seq(S) /\ Distinct(s) /\ ToSet(s) = ids
<1> DEFINE n == Cardinality(ids)
<1>1. n \in Nat /\ s \in [1..n -> ids] /\ \A i, k \in 1..n : i # k => s[i] # s[k]
  BY FS_CardinalityType DEF SetToSeqs
<1>2. s \in Injection(1..n, ids)
  BY <1>1 DEF Injection, IsInjective
<1>3. IsFiniteSet(1..n) /\ Cardinality(1..n) = n
  BY <1>1, FS_Interval
<1>4. s \in Surjection(1..n, ids)
  BY <1>2, <1>3, FS_Injection
<1> HIDE DEF n
<1>5. \A x \in ids : \E i \in 1..n : s[i] = x
  BY <1>4 DEF Surjection
<1>6. s \in Seq(S)
  BY <1>1
<1> QED BY <1>1, <1>5, <1>6 DEF Distinct, ToSet

-----------------------------------------------------------------------------
(* The wait lists hold the waiting jobs, and a queue runs at most          *)
(* Concurrency of them at once.                                            *)
WaitIn(kind) == {j \in JobId : jobs[j].st = "wait" /\ Ev(j).kind = kind}
QueueFits(kind) == Distinct(queue[kind]) /\ ToSet(queue[kind]) = WaitIn(kind)
SlotsFit(kind) == IsFiniteSet(ActiveIn(kind)) /\ Cardinality(ActiveIn(kind)) <= Concurrency
QueueIInv == \A kind \in Kind : QueueFits(kind) /\ SlotsFit(kind)

(* Job j comes to be st, the others stay.                                  *)
Turns(j, st) == jobs'[j].st = st /\ \A i \in JobId \ {j} : jobs'[i] = jobs[i]

LEMMA KeptTurns ==
  ASSUME TypesIInv, NEW j \in JobId, NEW r, Kept(j, r) PROVE Turns(j, r.st) /\ jobs'[j] = r
BY JobSet DEF TypesIInv, WorkerTypes, Kept, Turns

LEMMA SlotsShrink ==
  ASSUME NEW kind \in Kind, SlotsFit(kind), ActiveIn(kind)' \subseteq ActiveIn(kind)
  PROVE  SlotsFit(kind)'
<1>1. /\ IsFiniteSet(ActiveIn(kind)') /\ Cardinality(ActiveIn(kind)') <= Cardinality(ActiveIn(kind))
      /\ Cardinality(ActiveIn(kind)) \in Nat /\ Cardinality(ActiveIn(kind)') \in Nat
  BY FS_Subset, FS_CardinalityType DEF SlotsFit
<1> QED BY <1>1, BoundAssumption DEF SlotsFit

(* Neither list nor slots mind a step that lets nothing wait or start.     *)
LEMMA NothingWaits ==
  ASSUME QueueIInv, queue' = queue,
         \A j \in JobId : jobs'[j].st = "wait" <=> jobs[j].st = "wait",
         \A j \in JobId : jobs'[j].st = "active" => jobs[j].st = "active"
  PROVE  QueueIInv'
<1>1. ASSUME NEW kind \in Kind PROVE QueueFits(kind)' /\ SlotsFit(kind)'
  <2>1. WaitIn(kind)' = WaitIn(kind) /\ ActiveIn(kind)' \subseteq ActiveIn(kind)
    BY DEF WaitIn, ActiveIn
  <2> QED BY <2>1, SlotsShrink DEF QueueIInv, QueueFits
<1> QED BY <1>1 DEF QueueIInv

(* A handler's step moves its own job, which does not come to wait.        *)
LEMMA HandleMoves ==
  ASSUME TypesIInv, NEW j \in JobId, Handle(j)
  PROVE  /\ jobs[j].st = "active" /\ UNCHANGED queue /\ jobs'[j].st # "wait"
         /\ \A i \in JobId \ {j} : jobs'[i] = jobs[i]
<1>1. jobs[j].st = "active" /\ UNCHANGED queue
  BY DEF Handle, Begin, Write, ProjectPool, ReadFee, WriteSwap, FindPool, UpdatePool,
         WritePosition, BeginAdvance, Advance, At
<1>2. jobs[j] \in JobRec
  BY DEF TypesIInv, WorkerTypes
<1>3. ASSUME NEW s \in Stage, GoTo(j, s) PROVE Turns(j, "active")
  <2>1. Kept(j, [jobs[j] EXCEPT !.stage = s])
    BY <1>1, <1>3, GoToKept
  <2>2. Turns(j, [jobs[j] EXCEPT !.stage = s].st)
    BY <2>1, KeptTurns
  <2>3. [jobs[j] EXCEPT !.stage = s].st = "active"
    BY <1>1, <1>2 DEF JobRec
  <2> QED BY <2>2, <2>3
<1>4. ASSUME Complete(j) PROVE Turns(j, "none")
  <2>1. Turns(j, NoJob.st)
    BY <1>4, CompleteKept, KeptTurns
  <2> QED BY <2>1 DEF NoJob
<1>5. ASSUME Throw(j) PROVE Turns(j, "failed") \/ Turns(j, "delayed")
  <2>1. Turns(j, Thrown(j).st)
    BY <1>1, <1>5, ThrowKept, KeptTurns
  <2>2. Thrown(j).st \in {"failed", "delayed"}
    BY DEF Thrown, NoJob
  <2> QED BY <2>1, <2>2
<1>6. {"write", "project", "fee", "position", "advance", "findPool", "updatePool", "cursor", "swapRow"} \subseteq Stage
  BY DEF Stage
<1>7. CASE Begin(j)
  BY <1>1, <1>3, <1>4, <1>6, <1>7 DEF Begin, Turns, FirstStage
<1>8. CASE Write(j)
  <2>1. AfterWrite(Ev(j).kind) \in Stage
    BY JobParts, EventParts DEF AfterWrite, Stage, Kind
  <2> QED BY <1>1, <1>3, <1>5, <1>8, <2>1 DEF Write, Turns
<1>9. CASE ProjectPool(j) \/ UpdatePool(j)
  BY <1>1, <1>3, <1>6, <1>9 DEF ProjectPool, UpdatePool, Turns
<1>10. CASE ReadFee(j)
  <2> DEFINE next == IF Ev(j).price = BadPrice THEN "advance" ELSE "swapRow"
  <2>1. next \in Stage /\ FeeOf(Ev(j).pool) \in {"zero", "derived"}
    BY <1>6 DEF FeeOf
  <2>2. PICK f \in {"zero", "derived"} : SetJob(j, [jobs[j] EXCEPT !.stage = next, !.fee = f])
    BY <1>10, <2>1 DEF ReadFee
  <2>3. [jobs[j] EXCEPT !.stage = next, !.fee = f] \in JobRec
    BY <1>2, <2>1, StagedTyped
  <2>4. [jobs[j] EXCEPT !.stage = next, !.fee = f].st = "active"
    BY <1>1, <1>2 DEF JobRec
  <2>5. jobs \in [JobId -> JobRec]
    BY DEF TypesIInv, WorkerTypes
  <2>6. jobs'[j].st = "active" /\ \A i \in JobId \ {j} : jobs'[i] = jobs[i]
    BY <2>2, <2>3, <2>4, <2>5, JobSet
  <2> QED BY <1>1, <2>6
<1>11. CASE WriteSwap(j)
  BY <1>1, <1>3, <1>6, <1>11 DEF WriteSwap, Turns
<1>12. CASE FindPool(j)
  BY <1>1, <1>3, <1>6, <1>12 DEF FindPool, Turns
<1>13. CASE WritePosition(j)
  BY <1>1, <1>3, <1>5, <1>6, <1>13 DEF WritePosition, Turns
<1>14. CASE BeginAdvance(j)
  BY <1>1, <1>3, <1>4, <1>6, <1>14 DEF BeginAdvance, Finish, Turns
<1>15. CASE Advance(j)
  <2>1. CASE Finish(j)
    BY <1>1, <1>4, <2>1 DEF Finish, Turns
  <2>2. CASE UNCHANGED jobs
    BY <1>1, <2>2
  <2> QED BY <1>15, <2>1, <2>2 DEF Advance
<1> QED BY <1>7, <1>8, <1>9, <1>10, <1>11, <1>12, <1>13, <1>14, <1>15 DEF Handle

LEMMA HandleQueue ==
  ASSUME TypesIInv, QueueIInv, NEW j \in JobId, Handle(j) PROVE QueueIInv'
<1>1. /\ jobs[j].st = "active" /\ UNCHANGED queue /\ jobs'[j].st # "wait"
      /\ \A i \in JobId \ {j} : jobs'[i] = jobs[i]
  BY HandleMoves
<1>2. \A i \in JobId : jobs'[i].st = "wait" <=> jobs[i].st = "wait"
  BY <1>1
<1>3. \A i \in JobId : jobs'[i].st = "active" => jobs[i].st = "active"
  BY <1>1
<1> QED BY <1>1, <1>2, <1>3, NothingWaits

(* A job that comes to wait is put at one end of its list.                 *)
LEMMA OneMoreWaits ==
  ASSUME TypesIInv, QueueIInv, NEW j \in JobId, jobs[j].st # "wait", Turns(j, "wait"),
         \/ queue' = [queue EXCEPT ![Ev(j).kind] = queue[Ev(j).kind] \o <<j>>]
         \/ queue' = [queue EXCEPT ![Ev(j).kind] = <<j>> \o queue[Ev(j).kind]]
  PROVE  QueueIInv'
<1> DEFINE own == Ev(j).kind
<1>1. own \in Kind /\ queue \in [Kind -> Seq(JobId)] /\ queue[own] \in Seq(JobId)
  BY JobParts, EventParts DEF TypesIInv, WorkerTypes
<1>2. <<j>> \in Seq(JobId) /\ Distinct(<<j>>) /\ ToSet(<<j>>) = {j}
  BY OneKeeps
<1>3. Distinct(queue[own]) /\ ToSet(queue[own]) = WaitIn(own) /\ j \notin WaitIn(own)
  BY <1>1 DEF QueueIInv, QueueFits, WaitIn
<1>4. ToSet(queue[own]) \cap ToSet(<<j>>) = {} /\ ToSet(<<j>>) \cap ToSet(queue[own]) = {}
  BY <1>2, <1>3
<1>5. /\ Distinct(queue[own] \o <<j>>) /\ ToSet(queue[own] \o <<j>>) = WaitIn(own) \cup {j}
      /\ Distinct(<<j>> \o queue[own]) /\ ToSet(<<j>> \o queue[own]) = WaitIn(own) \cup {j}
  <2> DEFINE s == queue[own]
             t == <<j>>
  <2>1. /\ s \in Seq(JobId) /\ t \in Seq(JobId) /\ Distinct(s) /\ Distinct(t)
        /\ ToSet(s) \cap ToSet(t) = {} /\ ToSet(t) \cap ToSet(s) = {}
        /\ ToSet(s) = WaitIn(own) /\ ToSet(t) = {j}
    BY <1>1, <1>2, <1>3, <1>4
  <2> HIDE DEF s, t
  <2>2. /\ Distinct(s \o t) /\ ToSet(s \o t) = ToSet(s) \cup ToSet(t)
        /\ Distinct(t \o s) /\ ToSet(t \o s) = ToSet(t) \cup ToSet(s)
    BY <2>1, ConcatKeeps
  <2> QED BY <2>1, <2>2 DEF s, t
<1>6. Distinct(queue'[own]) /\ ToSet(queue'[own]) = WaitIn(own) \cup {j}
  BY <1>1, <1>5
<1>7. WaitIn(own)' = WaitIn(own) \cup {j}
  BY DEF WaitIn, Turns
<1>8. ASSUME NEW kind \in Kind, kind # own PROVE WaitIn(kind)' = WaitIn(kind) /\ queue'[kind] = queue[kind]
  <2>1. queue'[kind] = queue[kind]
    BY <1>1, <1>8
  <2>2. ASSUME NEW i \in JobId
        PROVE  jobs'[i].st = "wait" /\ Ev(i).kind = kind <=> jobs[i].st = "wait" /\ Ev(i).kind = kind
    <3>1. CASE i = j
      BY <1>8, <3>1
    <3>2. CASE i # j
      BY <3>2 DEF Turns
    <3> QED BY <3>1, <3>2
  <2>3. WaitIn(kind)' = WaitIn(kind)
    BY <2>2 DEF WaitIn
  <2> QED BY <2>1, <2>3
<1>9. ASSUME NEW kind \in Kind PROVE QueueFits(kind)'
  BY <1>6, <1>7, <1>8 DEF QueueIInv, QueueFits
<1>10. ASSUME NEW kind \in Kind PROVE SlotsFit(kind)'
  <2>1. ActiveIn(kind)' \subseteq ActiveIn(kind)
    BY DEF ActiveIn, Turns
  <2> QED BY <2>1, SlotsShrink DEF QueueIInv
<1> QED BY <1>9, <1>10 DEF QueueIInv

LEMMA PushQueue ==
  ASSUME TypesIInv, QueueIInv, NEW j \in JobId, jobs[j].st # "wait", Turns(j, "wait"), Push(j)
  PROVE  QueueIInv'
<1>1. queue[Ev(j).kind] \in Seq(JobId)
  BY JobParts, EventParts DEF TypesIInv, WorkerTypes
<1>2. Append(queue[Ev(j).kind], j) = queue[Ev(j).kind] \o <<j>>
  BY <1>1, AppendIsConcat
<1>3. queue' = [queue EXCEPT ![Ev(j).kind] = queue[Ev(j).kind] \o <<j>>]
  BY <1>2 DEF Push
<1> QED BY <1>3, OneMoreWaits

LEMMA EnqueueQueue ==
  ASSUME TypesIInv, QueueIInv, NEW e \in Event, NEW c \in 0..MaxCopy, Enqueue(e, c) PROVE QueueIInv'
<1>0. 0 \in 0..MaxDepth
  BY BoundAssumption
<1>1. /\ <<e, c, 0>> \in JobId /\ SetJob(<<e, c, 0>>, Waiting) /\ Push(<<e, c, 0>>)
      /\ jobs[<<e, c, 0>>].st # "wait"
  BY <1>0, JobMade DEF Enqueue
<1>2. Turns(<<e, c, 0>>, Waiting.st)
  BY <1>1, WaitingKept, KeptTurns
<1>3. Waiting.st = "wait"
  BY DEF Waiting, NoJob
<1> QED BY <1>1, <1>2, <1>3, PushQueue

LEMMA RequeueQueue ==
  ASSUME TypesIInv, QueueIInv, NEW j \in JobId, NEW ok \in BOOLEAN, Requeue(j, ok) PROVE QueueIInv'
<1>1. ReplayId(j) \in JobId
  BY ReplayMade DEF Requeue
<1>2. CASE jobs[ReplayId(j)].st = "none" /\ SetJob(ReplayId(j), Waiting) /\ Push(ReplayId(j))
  <2>1. Turns(ReplayId(j), Waiting.st)
    BY <1>1, <1>2, WaitingKept, KeptTurns
  <2>2. Waiting.st = "wait"
    BY DEF Waiting, NoJob
  <2>3. Turns(ReplayId(j), "wait") /\ jobs[ReplayId(j)].st # "wait"
    BY <1>2, <2>1, <2>2
  <2> QED BY <1>1, <1>2, <2>3, PushQueue
<1>3. CASE UNCHANGED <<jobs, queue>>
  BY <1>3, NothingWaits
<1> QED BY <1>2, <1>3 DEF Requeue

LEMMA PromoteQueue ==
  ASSUME TypesIInv, QueueIInv, NEW j \in JobId, Promote(j) PROVE QueueIInv'
<1> DEFINE r == [jobs[j] EXCEPT !.st = "wait"]
<1>1. jobs \in [JobId -> JobRec] /\ jobs[j] \in JobRec
  BY DEF TypesIInv, WorkerTypes
<1>2. r \in JobRec /\ r.st = "wait"
  BY <1>1, StagedTyped DEF JobRec
<1>3. Turns(j, "wait")
  BY <1>1, <1>2, JobSet DEF Promote, Turns
<1> QED BY <1>3, PushQueue DEF Promote

LEMMA RecoverMoves ==
  ASSUME TypesIInv, NEW j \in JobId, RecoverStalled(j)
  PROVE  \/ Turns(j, "wait") /\ queue' = [queue EXCEPT ![Ev(j).kind] = <<j>> \o queue[Ev(j).kind]]
         \/ Turns(j, "failed") /\ UNCHANGED queue
<1>1. jobs \in [JobId -> JobRec] /\ jobs[j] \in JobRec
  BY DEF TypesIInv, WorkerTypes
<1>2. CASE jobs[j].stalls < MaxStalls
  <2> DEFINE r == [Waiting EXCEPT !.attempts = jobs[j].attempts, !.stalls = jobs[j].stalls + 1]
  <2>1. jobs[j].stalls + 1 \in 0..MaxStalls /\ jobs[j].attempts \in 0..MaxAttempts
    BY <1>1, <1>2, BoundAssumption DEF JobRec
  <2>2. r \in JobRec /\ r.st = "wait"
    BY <2>1 DEF JobRec, Waiting, NoJob, Live, Stage
  <2>3. SetJob(j, r) /\ queue' = [queue EXCEPT ![Ev(j).kind] = <<j>> \o queue[Ev(j).kind]]
    BY <1>2 DEF RecoverStalled
  <2> QED BY <1>1, <2>2, <2>3, JobSet DEF Turns
<1>3. CASE ~ (jobs[j].stalls < MaxStalls)
  <2> DEFINE r == [jobs[j] EXCEPT !.st = "failed"]
  <2>1. r \in JobRec /\ r.st = "failed"
    BY <1>1, StagedTyped DEF JobRec
  <2>2. SetJob(j, r) /\ UNCHANGED queue
    BY <1>3 DEF RecoverStalled
  <2> QED BY <1>1, <2>1, <2>2, JobSet DEF Turns
<1> QED BY <1>2, <1>3

LEMMA RecoverQueue ==
  ASSUME TypesIInv, QueueIInv, NEW j \in JobId, RecoverStalled(j) PROVE QueueIInv'
<1>1. jobs[j].st = "stalled"
  BY DEF RecoverStalled
<1>2. CASE Turns(j, "wait") /\ queue' = [queue EXCEPT ![Ev(j).kind] = <<j>> \o queue[Ev(j).kind]]
  BY <1>1, <1>2, OneMoreWaits
<1>3. CASE Turns(j, "failed") /\ UNCHANGED queue
  BY <1>1, <1>3, NothingWaits DEF Turns
<1> QED BY <1>2, <1>3, RecoverMoves

(* BullMQ takes the head of a list, which is a waiting job of that kind,   *)
(* while a slot is free.                                                   *)
LEMMA FetchWaits ==
  ASSUME TypesIInv, QueueIInv, NEW j \in JobId, Fetch(j)
  PROVE  /\ jobs[j].st = "wait" /\ Turns(j, "active") /\ jobs'[j].stage = "fetched"
         /\ Distinct(Tail(queue[Ev(j).kind])) /\ ToSet(Tail(queue[Ev(j).kind])) = WaitIn(Ev(j).kind) \ {j}
<1> DEFINE own == Ev(j).kind
<1>1. /\ own \in Kind /\ queue[own] \in Seq(JobId) /\ queue[own] # <<>> /\ j = Head(queue[own])
      /\ Distinct(queue[own]) /\ ToSet(queue[own]) = WaitIn(own)
  BY JobParts, EventParts DEF TypesIInv, WorkerTypes, QueueIInv, QueueFits, Fetch
<1>2. Distinct(Tail(queue[own])) /\ ToSet(Tail(queue[own])) = WaitIn(own) \ {j} /\ j \in WaitIn(own)
  BY <1>1, TailKeeps
<1> DEFINE r == [jobs[j] EXCEPT !.st = "active", !.stage = "fetched"]
<1>3. jobs \in [JobId -> JobRec] /\ jobs[j] \in JobRec /\ "fetched" \in Stage
  BY DEF TypesIInv, WorkerTypes, Stage
<1>4. r \in JobRec /\ r.st = "active" /\ r.stage = "fetched"
  BY <1>3, StagedTyped DEF JobRec
<1>5. SetJob(j, r)
  BY DEF Fetch
<1>6. jobs'[j] = r /\ \A i \in JobId \ {j} : jobs'[i] = jobs[i]
  BY <1>3, <1>4, <1>5, JobSet
<1> QED BY <1>2, <1>4, <1>6 DEF WaitIn, Turns

LEMMA FetchQueue ==
  ASSUME TypesIInv, QueueIInv, NEW j \in JobId, Fetch(j) PROVE QueueIInv'
<1> DEFINE own == Ev(j).kind
<1>1. /\ jobs[j].st = "wait" /\ Turns(j, "active")
      /\ Distinct(Tail(queue[own])) /\ ToSet(Tail(queue[own])) = WaitIn(own) \ {j}
  BY FetchWaits
<1>2. own \in Kind /\ queue \in [Kind -> Seq(JobId)]
  BY JobParts, EventParts DEF TypesIInv, WorkerTypes
<1>3. queue'[own] = Tail(queue[own]) /\ \A kind \in Kind \ {own} : queue'[kind] = queue[kind]
  BY <1>2 DEF Fetch
<1>4. WaitIn(own)' = WaitIn(own) \ {j} /\ \A kind \in Kind \ {own} : WaitIn(kind)' = WaitIn(kind)
  BY <1>1 DEF WaitIn, Turns
<1>5. ASSUME NEW kind \in Kind PROVE QueueFits(kind)'
  BY <1>1, <1>3, <1>4 DEF QueueIInv, QueueFits
<1>6. ASSUME NEW kind \in Kind PROVE SlotsFit(kind)'
  <2>1. CASE kind = own
    <3>1. ActiveIn(own)' = ActiveIn(own) \cup {j} /\ j \notin ActiveIn(own)
      BY <1>1 DEF ActiveIn, Turns
    <3>2. IsFiniteSet(ActiveIn(own)) /\ Cardinality(ActiveIn(own)) < Concurrency
      BY <1>2 DEF QueueIInv, SlotsFit, Fetch, HasSlot
    <3>3. /\ IsFiniteSet(ActiveIn(own) \cup {j}) /\ Cardinality(ActiveIn(own)) \in Nat
          /\ Cardinality(ActiveIn(own) \cup {j}) = Cardinality(ActiveIn(own)) + 1
      BY <3>1, <3>2, FS_AddElement, FS_CardinalityType
    <3>4. Cardinality(ActiveIn(own)') <= Concurrency /\ IsFiniteSet(ActiveIn(own)')
      BY <3>1, <3>2, <3>3, BoundAssumption
    <3> QED BY <2>1, <3>4 DEF SlotsFit
  <2>2. CASE kind # own
    <3>1. ActiveIn(kind)' \subseteq ActiveIn(kind)
      BY <1>1, <2>2 DEF ActiveIn, Turns
    <3> QED BY <3>1, SlotsShrink DEF QueueIInv
  <2> QED BY <2>1, <2>2
<1> QED BY <1>5, <1>6 DEF QueueIInv

LEMMA WindowQueue ==
  ASSUME TypesIInv, QueueIInv, NEW kind \in Kind, NEW from \in Ledgers, ReplayKind(kind, from)
  PROVE  QueueIInv'
<1> DEFINE ids == WindowIds(kind, from)
<1>1. /\ ids \in SUBSET JobId /\ IsFiniteSet(ids)
      /\ \A i \in ids : jobs[i].st = "none" /\ Ev(i).kind = kind
      /\ jobs' = [j \in JobId |-> IF j \in ids THEN Waiting ELSE jobs[j]]
  BY WindowFree
<1>2. PICK s \in SetToSeqs(ids) : queue' = [queue EXCEPT ![kind] = @ \o s]
  BY WindowFree
<1> HIDE DEF ids
<1>3. s \in Seq(JobId) /\ Distinct(s) /\ ToSet(s) = ids
  BY <1>1, OrderKeeps
<1>4. /\ queue \in [Kind -> Seq(JobId)] /\ queue[kind] \in Seq(JobId)
      /\ Distinct(queue[kind]) /\ ToSet(queue[kind]) = WaitIn(kind)
  BY DEF TypesIInv, WorkerTypes, QueueIInv, QueueFits
<1>5. ToSet(queue[kind]) \cap ToSet(s) = {}
  BY <1>1, <1>3, <1>4 DEF WaitIn
<1>6. Distinct(queue[kind] \o s) /\ ToSet(queue[kind] \o s) = WaitIn(kind) \cup ids
  BY <1>3, <1>4, <1>5, ConcatKeeps
<1>7. queue'[kind] = queue[kind] \o s /\ \A other \in Kind \ {kind} : queue'[other] = queue[other]
  BY <1>2, <1>4
<1>8. \A j \in JobId : jobs'[j].st = (IF j \in ids THEN "wait" ELSE jobs[j].st)
  BY <1>1 DEF Waiting, NoJob
<1>9. WaitIn(kind)' = WaitIn(kind) \cup ids /\ \A other \in Kind \ {kind} : WaitIn(other)' = WaitIn(other)
  BY <1>1, <1>8 DEF WaitIn
<1>10. ASSUME NEW other \in Kind PROVE QueueFits(other)'
  BY <1>6, <1>7, <1>9 DEF QueueIInv, QueueFits
<1>11. ASSUME NEW other \in Kind PROVE SlotsFit(other)'
  <2>1. ActiveIn(other)' \subseteq ActiveIn(other)
    BY <1>8 DEF ActiveIn
  <2> QED BY <2>1, SlotsShrink DEF QueueIInv
<1> QED BY <1>10, <1>11 DEF QueueIInv

LEMMA DieMoves ==
  ASSUME TypesIInv, Die
  PROVE  /\ UNCHANGED queue
         /\ \A j \in JobId : IF jobs[j].st = "active" THEN jobs'[j].st = "stalled" ELSE jobs'[j] = jobs[j]
<1>1. \A j \in JobId : LockLost(jobs[j]).st = "stalled"
  BY LostTyped DEF TypesIInv, WorkerTypes
<1> QED BY <1>1 DEF Die

LEMMA DieQueue == ASSUME TypesIInv, QueueIInv, Die PROVE QueueIInv'
<1>1. /\ UNCHANGED queue
      /\ \A j \in JobId : IF jobs[j].st = "active" THEN jobs'[j].st = "stalled" ELSE jobs'[j] = jobs[j]
  BY DieMoves
<1>2. \A j \in JobId : jobs'[j].st = "wait" <=> jobs[j].st = "wait"
  BY <1>1
<1>3. \A j \in JobId : jobs'[j].st = "active" => jobs[j].st = "active"
  BY <1>1
<1> QED BY <1>1, <1>2, <1>3, NothingWaits

LEMMA QueueInit == Init => QueueIInv
<1> SUFFICES ASSUME Init, NEW kind \in Kind PROVE QueueFits(kind) /\ SlotsFit(kind)
  BY DEF QueueIInv
<1>1. queue[kind] = <<>> /\ \A j \in JobId : jobs[j].st = "none"
  BY DEF Init, NoJob
<1>2. WaitIn(kind) = {} /\ ActiveIn(kind) = {}
  BY <1>1 DEF WaitIn, ActiveIn
<1>3. DOMAIN queue[kind] = {}
  BY <1>1
<1> QED BY <1>2, <1>3, FS_EmptySet, BoundAssumption DEF QueueFits, SlotsFit, Distinct, ToSet

LEMMA QueueStep == TypesIInv /\ QueueIInv /\ [Next]_vars => TypesIInv' /\ QueueIInv'
<1> SUFFICES ASSUME TypesIInv, QueueIInv, [Next]_vars PROVE TypesIInv' /\ QueueIInv'
  OBVIOUS
<1>1. ASSUME NEW e \in Event, NEW c \in 0..MaxCopy, Enqueue(e, c) PROVE TypesIInv' /\ QueueIInv'
  BY <1>1, EnqueueTypes, EnqueueQueue
<1>2. ASSUME NEW j \in JobId, Fetch(j) PROVE TypesIInv' /\ QueueIInv'
  BY <1>2, FetchWaits, FetchTypes, FetchQueue
<1>3. ASSUME NEW j \in JobId, Handle(j) PROVE TypesIInv' /\ QueueIInv'
  BY <1>3, HandleTypes, HandleQueue
<1>4. ASSUME NEW j \in JobId, Promote(j) PROVE TypesIInv' /\ QueueIInv'
  BY <1>4, PromoteTypes, PromoteQueue
<1>5. ASSUME NEW j \in JobId, RecoverStalled(j) PROVE TypesIInv' /\ QueueIInv'
  BY <1>5, RecoverTypes, RecoverQueue
<1>6. ASSUME NEW j \in JobId, RecordDeadLetter(j) \/ ClearDeadLetter(j) PROVE TypesIInv' /\ QueueIInv'
  <2>1. UNCHANGED <<jobs, queue>>
    BY <1>6 DEF RecordDeadLetter, ClearDeadLetter, jobVars
  <2> QED BY <1>6, <2>1, DlqTypes, NothingWaits
<1>7. ASSUME NEW j \in JobId, NEW ok \in BOOLEAN, Requeue(j, ok) PROVE TypesIInv' /\ QueueIInv'
  BY <1>7, RequeueTypes, RequeueQueue
<1>8. ASSUME NEW kind \in Kind, NEW from \in Ledgers, ReplayKind(kind, from) PROVE TypesIInv' /\ QueueIInv'
  BY <1>8, WindowTypes, WindowQueue
<1>9. CASE Shutdown \/ Restart
  <2>1. UNCHANGED <<jobs, queue>>
    BY <1>9 DEF Shutdown, Restart, jobVars
  <2> QED BY <1>9, <2>1, ProcTypes, NothingWaits
<1>10. CASE Exit \/ Crash
  BY <1>10, DieTypes, DieQueue DEF Exit, Crash
<1>11. CASE UNCHANGED vars
  <2>1. UNCHANGED <<jobs, queue>> /\ TypesIInv'
    BY <1>11 DEF vars, jobVars, tableVars, dlqVars, TypesIInv, WorkerTypes, AttemptsLeft
  <2> QED BY <2>1, NothingWaits
<1> QED BY <1>1, <1>2, <1>3, <1>4, <1>5, <1>6, <1>7, <1>8, <1>9, <1>10, <1>11 DEF Next

LEMMA QueueHolds == Spec => [](TypesIInv /\ QueueIInv)
BY TypesInit, QueueInit, QueueStep, PTL DEF Spec

(* Every wait list holds the waiting jobs of its kind, each once, and no   *)
(* queue runs more than Concurrency handlers, whatever crashes, stalls,    *)
(* is retried or replayed.                                                 *)
THEOREM QueuesFit == Spec => [](TypeOK /\ QueueIsWaitSet)
<1>1. TypesIInv /\ QueueIInv => TypeOK /\ QueueIsWaitSet
  <2> SUFFICES ASSUME TypesIInv, QueueIInv PROVE TypeOK /\ QueueIsWaitSet
    OBVIOUS
  <2>1. TypeOK
    BY DEF TypesIInv, WorkerTypes, TypeOK, JobRec, PositionRec
  <2>2. QueueIsWaitSet
    BY DEF QueueIInv, QueueFits, SlotsFit, Distinct, WaitIn, QueueIsWaitSet
  <2> QED BY <2>1, <2>2
<1> QED BY <1>1, QueueHolds, PTL

-----------------------------------------------------------------------------
(* What the steps that are not a handler's do to the jobs: none that runs  *)
(* is touched, none is dropped, and one that starts is at its beginning.   *)
Quiet ==
  \A i \in JobId :
    /\ jobs[i].st = "active" => jobs'[i] = jobs[i]
    /\ jobs[i].st # "none" => jobs'[i].st # "none"
    /\ jobs'[i].st = "active" => jobs'[i] = jobs[i] \/ jobs'[i].stage = "fetched"

Elsewhere ==
  \/ \E e \in Event, c \in 0..MaxCopy : Enqueue(e, c)
  \/ \E j \in JobId : \/ Fetch(j) \/ Promote(j) \/ RecoverStalled(j)
                      \/ RecordDeadLetter(j) \/ ClearDeadLetter(j)
                      \/ \E ok \in BOOLEAN : Requeue(j, ok)
  \/ \E kind \in Kind, from \in Ledgers : ReplayKind(kind, from)
  \/ Shutdown \/ Restart \/ UNCHANGED vars

LEMMA StepIs ==
  ASSUME [Next]_vars
  PROVE  Elsewhere \/ (\E j \in JobId : Handle(j)) \/ Exit \/ Crash
BY DEF Next, Elsewhere

LEMMA TurnsQuiet ==
  ASSUME NEW j \in JobId, NEW st, st \notin {"none", "active"}, jobs[j].st # "active", Turns(j, st)
  PROVE  Quiet
BY DEF Quiet, Turns

LEMMA SetQuiet ==
  ASSUME TypesIInv, NEW j \in JobId, jobs[j].st # "active", SetJob(j, Waiting)
  PROVE  Quiet
<1>1. Turns(j, Waiting.st) /\ Waiting.st = "wait"
  BY WaitingKept, KeptTurns DEF Waiting, NoJob
<1> QED BY <1>1, TurnsQuiet

LEMMA ElsewhereQuiet ==
  ASSUME TypesIInv, QueueIInv, Elsewhere
  PROVE  Quiet /\ UNCHANGED <<raw, handled, dispatched, cursorVars>>
<1>1. UNCHANGED <<raw, handled, dispatched, cursorVars>>
  BY DEF Elsewhere, Enqueue, Fetch, Promote, RecoverStalled, RecordDeadLetter, ClearDeadLetter,
         Requeue, ReplayKind, Shutdown, Restart, vars, tableVars
<1>2. ASSUME UNCHANGED jobs PROVE Quiet
  BY <1>2 DEF Quiet
<1>3. ASSUME NEW e \in Event, NEW c \in 0..MaxCopy, Enqueue(e, c) PROVE Quiet
  <2>1. 0 \in 0..MaxDepth
    BY BoundAssumption
  <2>2. <<e, c, 0>> \in JobId /\ SetJob(<<e, c, 0>>, Waiting) /\ jobs[<<e, c, 0>>].st # "active"
    BY <1>3, <2>1, JobMade DEF Enqueue
  <2> QED BY <2>2, SetQuiet
<1>4. ASSUME NEW j \in JobId, Fetch(j) PROVE Quiet
  BY <1>4, FetchWaits DEF Quiet, Turns
<1>5. ASSUME NEW j \in JobId, Promote(j) PROVE Quiet
  <2>1. jobs \in [JobId -> JobRec] /\ jobs[j] \in JobRec
    BY DEF TypesIInv, WorkerTypes
  <2>2. [jobs[j] EXCEPT !.st = "wait"] \in JobRec /\ [jobs[j] EXCEPT !.st = "wait"].st = "wait"
    BY <2>1, StagedTyped DEF JobRec
  <2>3. Turns(j, "wait")
    BY <1>5, <2>1, <2>2, JobSet DEF Promote, Turns
  <2> QED BY <1>5, <2>3, TurnsQuiet DEF Promote
<1>6. ASSUME NEW j \in JobId, RecoverStalled(j) PROVE Quiet
  <2>1. jobs[j].st = "stalled" /\ (Turns(j, "wait") \/ Turns(j, "failed"))
    BY <1>6, RecoverMoves DEF RecoverStalled
  <2> QED BY <2>1, TurnsQuiet
<1>7. ASSUME NEW j \in JobId, RecordDeadLetter(j) \/ ClearDeadLetter(j) PROVE Quiet
  BY <1>2, <1>7 DEF RecordDeadLetter, ClearDeadLetter, jobVars
<1>8. ASSUME NEW j \in JobId, NEW ok \in BOOLEAN, Requeue(j, ok) PROVE Quiet
  <2>1. CASE UNCHANGED jobs
    BY <1>2, <2>1
  <2>2. CASE jobs[ReplayId(j)].st = "none" /\ SetJob(ReplayId(j), Waiting)
    BY <1>8, <2>2, ReplayMade, SetQuiet DEF Requeue
  <2> QED BY <1>8, <2>1, <2>2 DEF Requeue
<1>9. ASSUME NEW kind \in Kind, NEW from \in Ledgers, ReplayKind(kind, from) PROVE Quiet
  BY <1>9, WindowFree DEF Quiet, Waiting, NoJob
<1> QED BY <1>1, <1>2, <1>3, <1>4, <1>5, <1>6, <1>7, <1>8, <1>9
        DEF Elsewhere, Shutdown, Restart, vars, jobVars

-----------------------------------------------------------------------------
(* A handler past its write has its event stored.                          *)
PastWrite == Stage \ {"none", "fetched", "write"}
StoredFirst ==
  \A j \in JobId : jobs[j].st = "active" /\ jobs[j].stage \in PastWrite => Ev(j) \in raw

StoreIInv == StoredFirst /\ DispatchBacked

LEMMA GoToMoves ==
  ASSUME TypesIInv, NEW j \in JobId, NEW s \in Stage, jobs[j].st = "active", GoTo(j, s)
  PROVE  jobs'[j].st = "active" /\ jobs'[j].stage = s
<1>1. jobs \in [JobId -> JobRec] /\ jobs[j] \in JobRec
  BY DEF TypesIInv, WorkerTypes
<1>2. [jobs[j] EXCEPT !.stage = s] \in JobRec
  BY <1>1, StagedTyped
<1>3. [jobs[j] EXCEPT !.stage = s].st = "active" /\ [jobs[j] EXCEPT !.stage = s].stage = s
  BY <1>1 DEF JobRec
<1> QED BY <1>1, <1>2, <1>3, JobSet DEF GoTo

LEMMA ThrowMoves ==
  ASSUME TypesIInv, NEW j \in JobId, jobs[j].st = "active", Throw(j)
  PROVE  jobs'[j].st \in {"failed", "delayed"}
<1>1. jobs'[j] = Thrown(j)
  BY ThrowKept, KeptTurns
<1> QED BY <1>1 DEF Thrown, NoJob

LEMMA CompleteMoves ==
  ASSUME TypesIInv, NEW j \in JobId, Complete(j) PROVE jobs'[j].st = "none"
<1>1. jobs'[j] = NoJob
  BY CompleteKept, KeptTurns
<1> QED BY <1>1 DEF NoJob

(* Where a handler's step leaves its job.                                  *)
LEMMA HandleStores ==
  ASSUME TypesIInv, StoredFirst, NEW j \in JobId, Handle(j)
  PROVE  /\ raw' = raw \/ raw' = raw \cup {Ev(j)}
         /\ jobs'[j].st = "active" /\ jobs'[j].stage \in PastWrite => Ev(j) \in raw'
         /\ dispatched' = dispatched \/ (dispatched' = dispatched \cup {Ev(j)} /\ Ev(j) \in raw)
<1>1. jobs[j].st = "active" /\ (jobs[j].stage \in PastWrite => Ev(j) \in raw)
  BY HandleMoves DEF StoredFirst
<1>2. raw' = raw \/ raw' = raw \cup {Ev(j)}
  BY DEF Handle, Begin, Write, ProjectPool, ReadFee, WriteSwap, FindPool, UpdatePool,
         WritePosition, BeginAdvance, Advance, tableVars
<1>3. jobs'[j].st = "active" /\ jobs'[j].stage \in PastWrite => Ev(j) \in raw'
  <2>1. CASE jobs[j].stage \in PastWrite
    BY <1>1, <1>2, <2>1
  <2>2. CASE jobs[j].stage \notin PastWrite
    <3>1. Begin(j) \/ Write(j)
      BY <2>2 DEF Handle, ProjectPool, ReadFee, WriteSwap, FindPool, UpdatePool,
                  WritePosition, BeginAdvance, Advance, At, PastWrite, Stage
    <3>2. CASE Begin(j)
      <4>1. "write" \in Stage
        BY DEF Stage
      <4>2. CASE GoTo(j, "write")
        BY <1>1, <4>1, <4>2, GoToMoves DEF PastWrite
      <4>3. CASE Complete(j)
        BY <4>3, CompleteMoves
      <4> QED BY <3>2, <4>2, <4>3 DEF Begin, FirstStage
    <3>3. CASE Write(j)
      <4>1. CASE raw' = raw \cup {Ev(j)}
        BY <4>1
      <4>2. CASE Throw(j)
        BY <1>1, <4>2, ThrowMoves
      <4> QED BY <3>3, <4>1, <4>2 DEF Write
    <3> QED BY <3>1, <3>2, <3>3
  <2> QED BY <2>1, <2>2
<1>4. dispatched' = dispatched \/ (dispatched' = dispatched \cup {Ev(j)} /\ Ev(j) \in raw)
  <2>1. CASE BeginAdvance(j)
    <3>1. jobs[j].stage \in PastWrite
      BY <2>1 DEF BeginAdvance, At, PastWrite, Stage
    <3> QED BY <1>1, <2>1, <3>1 DEF BeginAdvance
  <2>2. CASE ~ BeginAdvance(j)
    BY <2>2 DEF Handle, Begin, Write, ProjectPool, ReadFee, WriteSwap, FindPool, UpdatePool,
                WritePosition, Advance
  <2> QED BY <2>1, <2>2
<1> QED BY <1>2, <1>3, <1>4

LEMMA StoreStep ==
  TypesIInv /\ QueueIInv /\ StoreIInv /\ [Next]_vars => StoreIInv'
<1> SUFFICES ASSUME TypesIInv, QueueIInv, StoreIInv, [Next]_vars PROVE StoreIInv'
  OBVIOUS
<1>1. CASE Elsewhere
  BY <1>1, ElsewhereQuiet DEF StoreIInv, StoredFirst, DispatchBacked, Quiet, PastWrite
<1>2. ASSUME NEW j \in JobId, Handle(j) PROVE StoreIInv'
  BY <1>2, HandleStores, HandleMoves DEF StoreIInv, StoredFirst, DispatchBacked
<1>3. CASE Exit \/ Crash
  <2>1. Die
    BY <1>3 DEF Exit, Crash
  <2>2. UNCHANGED <<raw, dispatched>>
    BY <2>1 DEF Die, tableVars
  <2> QED BY <2>1, <2>2, DieMoves DEF StoreIInv, StoredFirst, DispatchBacked
<1> QED BY <1>1, <1>2, <1>3, StepIs

LEMMA StoreHolds == Spec => [](TypesIInv /\ QueueIInv /\ StoreIInv)
<1>1. Init => StoreIInv
  BY DEF Init, StoreIInv, StoredFirst, DispatchBacked, NoJob
<1> QED BY <1>1, TypesInit, QueueInit, QueueStep, StoreStep, PTL DEF Spec

(* A subscriber hears only of events whose row is in Postgres, however     *)
(* handlers interleave, fail, are retried or die.                          *)
THEOREM AnnouncedIsStored == Spec => []DispatchBacked
<1>1. StoreIInv => DispatchBacked
  BY DEF StoreIInv
<1> QED BY <1>1, StoreHolds, PTL

-----------------------------------------------------------------------------
(* Only a handler at its last stage is inside advanceLedger.               *)
CallIInv ==
  /\ call \in [JobId -> Cursor!Call]
  /\ \A j \in JobId : call[j].pc # "idle" => At(j, "cursor")

LEMMA CallTyped ==
  ASSUME NEW pc \in {"idle", "setMax", "find", "upsert"}, NEW l \in Ledgers \cup {NoLedger}
  PROVE  Cursor!CallAt(pc, l) \in Cursor!Call /\ Cursor!CallAt(pc, l).pc = pc
BY DEF Cursor!CallAt, Cursor!Call, Cursor!PC, Cursor!Checkpoint, Cursor!NoValue, NoLedger

LEMMA IdleTyped == Cursor!IdleCall \in Cursor!Call /\ Cursor!IdleCall.pc = "idle"
BY CallTyped DEF Cursor!IdleCall, Cursor!NoValue, NoLedger

LEMMA EventLedger ==
  ASSUME NEW e \in Event, e.ledger # NoLedger PROVE e.ledger \in Ledgers
BY DEF Ledgers

(* A handler touches the checkpoint at its last two stages only.           *)
LEMMA EarlyLeavesCalls ==
  ASSUME TypesIInv, CallIInv, NEW j \in JobId, Handle(j), ~ BeginAdvance(j), ~ Advance(j)
  PROVE  UNCHANGED cursorVars /\ CallIInv'
<1>1. UNCHANGED cursorVars /\ jobs[j].stage # "cursor"
  BY DEF Handle, Begin, Write, ProjectPool, ReadFee, WriteSwap, FindPool, UpdatePool,
         WritePosition, At
<1> QED BY <1>1, HandleMoves DEF CallIInv, At, cursorVars

LEMMA BeginAdvanceCalls ==
  ASSUME TypesIInv, StoreIInv, CallIInv, NEW j \in JobId, BeginAdvance(j)
  PROVE  /\ CallIInv'
         /\ UNCHANGED <<cursorVars, raw>>
            \/ (UNCHANGED raw /\ \E l \in Ledgers : Cursor!BeginAdvance(j, l))
<1>1. jobs[j].st = "active" /\ jobs[j].stage = "advance" /\ Ev(j) \in Event /\ UNCHANGED raw
  BY JobParts DEF BeginAdvance, At, tableVars
<1>2. call[j].pc = "idle" /\ call \in [JobId -> Cursor!Call]
  BY <1>1 DEF CallIInv, At
<1>3. Ev(j) \in raw
  BY <1>1 DEF StoreIInv, StoredFirst, PastWrite, Stage
<1>4. Handle(j)
  BY DEF Handle
<1>5. CASE Ev(j).ledger = NoLedger
  BY <1>1, <1>2, <1>4, <1>5, HandleMoves DEF BeginAdvance, CallIInv, At, cursorVars
<1>6. CASE Ev(j).ledger # NoLedger
  <2> DEFINE l == Ev(j).ledger
  <2>1. l \in Ledgers /\ l \in RawLedgers
    BY <1>1, <1>3, <1>6, EventLedger DEF RawLedgers
  <2>2. call' = [call EXCEPT ![j] = Cursor!CallAt("setMax", l)] /\ GoTo(j, "cursor") /\ UNCHANGED <<cache, row>>
    BY <1>6 DEF BeginAdvance
  <2>3. Cursor!CallAt("setMax", l) \in Cursor!Call
    BY <2>1, CallTyped
  <2>4. At(j, "cursor")'
    <3>1. "cursor" \in Stage
      BY DEF Stage
    <3> QED BY <1>1, <2>2, <3>1, GoToMoves DEF At
  <2>5. CallIInv'
    BY <1>2, <1>4, <2>2, <2>3, <2>4, HandleMoves DEF CallIInv, At
  <2>6. UNCHANGED RawLedgers
    BY <1>1 DEF RawLedgers
  <2>7. Cursor!BeginAdvance(j, l)
    BY <1>2, <2>1, <2>2, <2>6 DEF Cursor!BeginAdvance, Cursor!Handled, Cursor!Becomes
  <2> QED BY <1>1, <2>1, <2>5, <2>7
<1> QED BY <1>5, <1>6

LEMMA AdvanceCalls ==
  ASSUME TypesIInv, CallIInv, NEW j \in JobId, Advance(j)
  PROVE  CallIInv' /\ UNCHANGED raw /\ Cursor!Step(j)
<1>1. jobs[j].st = "active" /\ jobs[j].stage = "cursor" /\ UNCHANGED raw /\ Handle(j)
  BY DEF Advance, At, tableVars, Handle
<1>2. Cursor!SetMax(j) \/ Cursor!FindCursor(j) \/ Cursor!UpsertCursor(j)
  BY DEF Advance
<1>3. call \in [JobId -> Cursor!Call] /\ call[j].ledger \in Ledgers \cup {NoLedger}
  BY DEF CallIInv, Cursor!Call, Cursor!Checkpoint, Cursor!NoValue, NoLedger
<1>4. PICK c \in Cursor!Call : call' = [call EXCEPT ![j] = c]
  BY <1>2, <1>3, CallTyped, IdleTyped
     DEF Cursor!SetMax, Cursor!FindCursor, Cursor!UpsertCursor, Cursor!Becomes, Cursor!Return
<1>5. call' \in [JobId -> Cursor!Call] /\ call'[j] = c /\ \A i \in JobId \ {j} : call'[i] = call[i]
  BY <1>3, <1>4
<1>6. c.pc # "idle" => UNCHANGED jobs
  BY <1>5 DEF Advance
<1>7. CallIInv'
  BY <1>1, <1>5, <1>6, HandleMoves DEF CallIInv, At
<1> QED BY <1>1, <1>2, <1>7 DEF Cursor!Step

LEMMA CallInit == Init => CallIInv /\ Cursor!CursorInit
<1> SUFFICES ASSUME Init PROVE CallIInv /\ Cursor!CursorInit
  OBVIOUS
<1>1. Cursor!CursorInit
  BY DEF Init
<1> QED BY <1>1, IdleTyped DEF Cursor!CursorInit, CallIInv

(* Every step of the worker is a step of the checkpoint's specification,   *)
(* or leaves the checkpoint alone.                                         *)
LEMMA CursorStep ==
  TypesIInv /\ QueueIInv /\ StoreIInv /\ CallIInv /\ [Next]_vars
    => CallIInv' /\ [Cursor!CursorNext]_(Cursor!ledgerVars)
<1> SUFFICES ASSUME TypesIInv, QueueIInv, StoreIInv, CallIInv, [Next]_vars
             PROVE  CallIInv' /\ (Cursor!CursorNext \/ UNCHANGED Cursor!ledgerVars)
  OBVIOUS
<1>0. ASSUME UNCHANGED <<cursorVars, raw>> PROVE UNCHANGED Cursor!ledgerVars
  BY <1>0 DEF cursorVars, Cursor!ledgerVars, RawLedgers
<1>1. CASE Elsewhere
  BY <1>0, <1>1, ElsewhereQuiet DEF CallIInv, At, Quiet, cursorVars
<1>2. ASSUME NEW j \in JobId, Handle(j), ~ BeginAdvance(j), ~ Advance(j)
      PROVE  CallIInv' /\ (Cursor!CursorNext \/ UNCHANGED Cursor!ledgerVars)
  <2>1. UNCHANGED cursorVars /\ CallIInv'
    BY <1>2, EarlyLeavesCalls
  <2>2. raw' = raw \/ raw' = raw \cup {Ev(j)}
    BY <1>2, HandleStores DEF StoreIInv
  <2>3. RawLedgers' = RawLedgers \/ (Ev(j).ledger # NoLedger /\ RawLedgers' = RawLedgers \cup {Ev(j).ledger})
    BY <2>2 DEF RawLedgers
  <2>4. CASE RawLedgers' = RawLedgers
    BY <2>1, <2>4 DEF cursorVars, Cursor!ledgerVars
  <2>5. CASE Ev(j).ledger # NoLedger /\ RawLedgers' = RawLedgers \cup {Ev(j).ledger}
    <3>1. Ev(j).ledger \in Ledgers
      BY <2>5, JobParts, EventLedger
    <3>2. Cursor!Persist(Ev(j).ledger)
      BY <2>1, <2>5 DEF cursorVars, Cursor!Persist, Cursor!cursorVars
    <3> QED BY <2>1, <3>1, <3>2 DEF Cursor!CursorNext
  <2> QED BY <2>3, <2>4, <2>5
<1>3. ASSUME NEW j \in JobId, BeginAdvance(j)
      PROVE  CallIInv' /\ (Cursor!CursorNext \/ UNCHANGED Cursor!ledgerVars)
  BY <1>0, <1>3, BeginAdvanceCalls DEF Cursor!CursorNext
<1>4. ASSUME NEW j \in JobId, Advance(j)
      PROVE  CallIInv' /\ (Cursor!CursorNext \/ UNCHANGED Cursor!ledgerVars)
  BY <1>4, AdvanceCalls DEF Cursor!CursorNext
<1>5. CASE Exit \/ Crash
  <2>1. Die
    BY <1>5 DEF Exit, Crash
  <2>2. call' = [j \in JobId |-> Cursor!IdleCall] /\ UNCHANGED <<cache, row, RawLedgers>>
    BY <2>1 DEF Die, tableVars, RawLedgers
  <2>3. CallIInv'
    BY <2>2, IdleTyped DEF CallIInv
  <2>4. Cursor!CallersCrash
    BY <2>2 DEF Cursor!CallersCrash
  <2> QED BY <2>3, <2>4 DEF Cursor!CursorNext
<1> QED BY <1>1, <1>2, <1>3, <1>4, <1>5, StepIs

(* The worker's jobs drive the checkpoint as LedgerCursor specifies it: a  *)
(* ledger is taken up only after its event has been written.               *)
THEOREM WorkerImplementsCursor == Spec => CursorSpec
<1>1. Init => TypesIInv /\ QueueIInv /\ StoreIInv /\ CallIInv /\ Cursor!CursorInit
  <2>1. Init => StoreIInv
    BY DEF Init, StoreIInv, StoredFirst, DispatchBacked, NoJob
  <2> QED BY <2>1, TypesInit, QueueInit, CallInit
<1>2. TypesIInv /\ QueueIInv /\ StoreIInv /\ CallIInv /\ [Next]_vars
        => /\ TypesIInv' /\ QueueIInv' /\ StoreIInv' /\ CallIInv'
           /\ [Cursor!CursorNext]_(Cursor!ledgerVars)
  BY QueueStep, StoreStep, CursorStep
<1> QED BY <1>1, <1>2, PTL DEF Spec, CursorSpec, Cursor!CursorSpec

LEMMA LedgersAreNat == Ledgers \subseteq Nat
BY EventAssumption DEF Ledgers

(* Neither Redis, nor the Postgres row, nor a call of advanceLedger names  *)
(* a ledger none of whose events is in the worker's tables.                *)
THEOREM CheckpointIsStored == Spec => []Cursor!CheckpointPersisted
<1>1. CursorSpec => [](Cursor!CheckpointPersisted /\ Cursor!ResumePersisted)
  BY LedgersAreNat, Cursor!CheckpointSafe DEF CursorSpec
<1> QED BY <1>1, WorkerImplementsCursor, PTL

-----------------------------------------------------------------------------
(* No event is lost.  Only a handler's last step, and a handler that is    *)
(* called while the process drains or for an empty event, drop a job; so   *)
(* while no SIGTERM falls among them an event is handled, rejected or      *)
(* still with BullMQ.                                                      *)
Held(j) == Ev(j) \in handled \/ jobs[j].st # "none"
NeverDrains == ~ MayShutdown /\ proc # "draining"
EventsHeld == \A e \in enqueued : e \in handled \/ e.empty \/ \E j \in JobId : Ev(j) = e /\ jobs[j].st # "none"

(* What reaches the dead letters got past the check for empty fields.      *)
PastChecks ==
  /\ \A j \in JobId : jobs[j].st = "active" /\ jobs[j].stage \notin {"none", "fetched"} => ~ Ev(j).empty
  /\ \A j \in pendingDlq : ~ Ev(j).empty
  /\ \A j \in JobId : dlq[j] # "none" => ~ Ev(j).empty

(* A dead letter is taken for recovered after its replay was enqueued.     *)
ReplaysHeld ==
  \A j \in JobId : j \in clearing \/ dlq[j] = "recovered" =>
    j[3] < MaxDepth /\ dlq[j] # "none" /\ Held(ReplayId(j))

LossIInv == NeverDrains /\ EventsHeld /\ PastChecks /\ ReplaysHeld

(* A handler's step drops its job only when it is through with the event,  *)
(* and fails it only past the checks.                                      *)
LEMMA HandleEnds ==
  ASSUME TypesIInv, NeverDrains, PastChecks, NEW j \in JobId, Handle(j)
  PROVE  /\ handled \subseteq handled'
         /\ jobs'[j].st = "none" => Ev(j) \in handled' \/ Ev(j).empty
         /\ jobs'[j].st = "active" /\ jobs'[j].stage \notin {"none", "fetched"} => ~ Ev(j).empty
         /\ pendingDlq' = pendingDlq \/ (pendingDlq' \subseteq pendingDlq \cup {j} /\ ~ Ev(j).empty)
         /\ UNCHANGED <<enqueued, proc, dlq, clearing>>
<1>1. UNCHANGED <<enqueued, proc, dlq, clearing>> /\ handled \subseteq handled'
  BY DEF Handle, Begin, Write, ProjectPool, ReadFee, WriteSwap, FindPool, UpdatePool,
         WritePosition, BeginAdvance, Advance, Finish, dlqVars
<1>2. jobs[j].st = "active"
  BY HandleMoves
<1>3. CASE Begin(j)
  <2>1. "write" \in Stage
    BY DEF Stage
  <2>2. CASE ~ Ev(j).empty /\ GoTo(j, "write")
    BY <1>1, <1>2, <1>3, <2>1, <2>2, GoToMoves DEF Begin, dlqVars
  <2>3. CASE (proc # "up" \/ Ev(j).empty) /\ Complete(j)
    <3>1. proc = "up"
      BY <1>3 DEF Begin, NeverDrains, TypesIInv, WorkerTypes
    <3> QED BY <1>1, <1>3, <2>3, <3>1, CompleteMoves DEF Begin, dlqVars
  <2> QED BY <1>3, <2>2, <2>3 DEF Begin, FirstStage
<1>4. CASE ~ Begin(j)
  <2>1. jobs[j].stage \notin {"none", "fetched"} /\ ~ Ev(j).empty
    <3>1. jobs[j].stage \notin {"none", "fetched"}
      BY <1>4 DEF Handle, Write, ProjectPool, ReadFee, WriteSwap, FindPool, UpdatePool,
                  WritePosition, BeginAdvance, Advance, At
    <3> QED BY <1>2, <3>1 DEF PastChecks
  <2>2. pendingDlq' \subseteq pendingDlq \cup {j}
    BY <1>4 DEF Handle, Write, ProjectPool, ReadFee, WriteSwap, FindPool, UpdatePool,
                WritePosition, BeginAdvance, Advance, Throw, dlqVars
  <2>3. jobs'[j].st = "none" => Ev(j) \in handled'
    <3>1. CASE Finish(j)
      BY <3>1 DEF Finish
    <3>2. CASE \E s \in Stage : GoTo(j, s)
      BY <1>2, <3>2, GoToMoves
    <3>3. CASE Throw(j)
      BY <1>2, <3>3, ThrowMoves
    <3>4. CASE UNCHANGED jobs
      BY <1>2, <3>4
    <3>5. CASE ReadFee(j)
      <4> DEFINE next == IF Ev(j).price = BadPrice THEN "advance" ELSE "swapRow"
      <4>1. next \in Stage /\ FeeOf(Ev(j).pool) \in {"zero", "derived"}
        BY DEF FeeOf, Stage
      <4>2. PICK f \in {"zero", "derived"} : SetJob(j, [jobs[j] EXCEPT !.stage = next, !.fee = f])
        BY <3>5, <4>1 DEF ReadFee
      <4>3. jobs[j] \in JobRec /\ jobs \in [JobId -> JobRec]
        BY DEF TypesIInv, WorkerTypes
      <4>4. [jobs[j] EXCEPT !.stage = next, !.fee = f] \in JobRec
        BY <4>1, <4>3, StagedTyped
      <4>5. [jobs[j] EXCEPT !.stage = next, !.fee = f].st = "active"
        BY <1>2, <4>3 DEF JobRec
      <4> QED BY <4>2, <4>3, <4>4, <4>5, JobSet
    <3>6. {"advance", "findPool", "updatePool", "cursor"} \subseteq Stage /\ AfterWrite(Ev(j).kind) \in Stage
      BY JobParts, EventParts DEF AfterWrite, Stage, Kind
    <3>7. CASE Write(j)
      BY <3>2, <3>3, <3>6, <3>7 DEF Write
    <3>8. CASE ProjectPool(j) \/ UpdatePool(j)
      BY <3>2, <3>6, <3>8 DEF ProjectPool, UpdatePool
    <3>9. CASE WriteSwap(j) \/ FindPool(j)
      <4>1. PICK s \in {"advance", "findPool", "updatePool"} : GoTo(j, s)
        BY <3>9 DEF WriteSwap, FindPool
      <4> QED BY <3>2, <3>6, <4>1
    <3>10. CASE WritePosition(j)
      BY <3>2, <3>3, <3>6, <3>10 DEF WritePosition
    <3>11. CASE BeginAdvance(j) \/ Advance(j)
      BY <3>1, <3>2, <3>4, <3>6, <3>11 DEF BeginAdvance, Advance
    <3> QED BY <1>4, <3>5, <3>7, <3>8, <3>9, <3>10, <3>11 DEF Handle
  <2> QED BY <1>1, <2>1, <2>2, <2>3
<1> QED BY <1>3, <1>4

LEMMA HeldKept ==
  ASSUME TypesIInv, NEW j \in JobId, NEW i \in JobId, Held(i), ~ Ev(i).empty,
         handled \subseteq handled', \A n \in JobId \ {j} : jobs'[n] = jobs[n],
         jobs'[j].st = "none" => Ev(j) \in handled' \/ Ev(j).empty
  PROVE  Held(i)'
BY DEF Held

LEMMA HandleLoses ==
  ASSUME TypesIInv, LossIInv, NEW j \in JobId, Handle(j) PROVE LossIInv'
<1>1. /\ handled \subseteq handled'
      /\ jobs'[j].st = "none" => Ev(j) \in handled' \/ Ev(j).empty
      /\ jobs'[j].st = "active" /\ jobs'[j].stage \notin {"none", "fetched"} => ~ Ev(j).empty
      /\ pendingDlq' = pendingDlq \/ (pendingDlq' \subseteq pendingDlq \cup {j} /\ ~ Ev(j).empty)
      /\ UNCHANGED <<enqueued, proc, dlq, clearing>>
  BY HandleEnds DEF LossIInv
<1>2. \A i \in JobId \ {j} : jobs'[i] = jobs[i]
  BY HandleMoves
<1>3. NeverDrains'
  BY <1>1 DEF LossIInv, NeverDrains
<1>4. EventsHeld'
  <2> SUFFICES ASSUME NEW e \in enqueued
               PROVE  e \in handled' \/ e.empty \/ \E i \in JobId : Ev(i) = e /\ jobs'[i].st # "none"
    BY <1>1 DEF EventsHeld
  <2>1. CASE e \in handled \/ e.empty
    BY <1>1, <2>1
  <2>2. ASSUME NEW i \in JobId, Ev(i) = e, jobs[i].st # "none"
        PROVE  e \in handled' \/ e.empty \/ jobs'[i].st # "none"
    BY <1>1, <1>2, <2>2
  <2> QED BY <2>1, <2>2 DEF LossIInv, EventsHeld
<1>5. PastChecks'
  BY <1>1, <1>2 DEF LossIInv, PastChecks
<1>6. ReplaysHeld'
  <2> SUFFICES ASSUME NEW i \in JobId, i \in clearing \/ dlq[i] = "recovered"
               PROVE  i[3] < MaxDepth /\ dlq[i] # "none" /\ Held(ReplayId(i))'
    BY <1>1 DEF ReplaysHeld
  <2>1. i[3] < MaxDepth /\ dlq[i] # "none" /\ Held(ReplayId(i)) /\ ~ Ev(i).empty
    BY DEF LossIInv, ReplaysHeld, PastChecks
  <2>2. ReplayId(i) \in JobId /\ ~ Ev(ReplayId(i)).empty
    BY <2>1, ReplayMade
  <2> QED BY <1>1, <1>2, <2>1, <2>2, HeldKept
<1> QED BY <1>3, <1>4, <1>5, <1>6 DEF LossIInv

LEMMA QuietHolds ==
  ASSUME Quiet, handled' = handled, NEW i \in JobId, Held(i) PROVE Held(i)'
BY DEF Quiet, Held

LEMMA ElsewhereLoses ==
  ASSUME TypesIInv, QueueIInv, LossIInv, Elsewhere PROVE LossIInv'
<1>1. Quiet /\ handled' = handled
  BY ElsewhereQuiet
<1>2. NeverDrains'
  BY DEF Elsewhere, Enqueue, Fetch, Promote, RecoverStalled, RecordDeadLetter, ClearDeadLetter,
         Requeue, ReplayKind, Shutdown, Restart, vars, LossIInv, NeverDrains
<1>3. EventsHeld'
  <2>1. ASSUME NEW e \in enqueued
        PROVE  e \in handled' \/ e.empty \/ \E i \in JobId : Ev(i) = e /\ jobs'[i].st # "none"
    BY <1>1 DEF LossIInv, EventsHeld, Quiet
  <2>2. CASE enqueued' = enqueued
    BY <2>1, <2>2 DEF EventsHeld
  <2>3. ASSUME NEW e \in Event, NEW c \in 0..MaxCopy, Enqueue(e, c) PROVE EventsHeld'
    <3>1. 0 \in 0..MaxDepth
      BY BoundAssumption
    <3>2. <<e, c, 0>> \in JobId /\ Ev(<<e, c, 0>>) = e /\ SetJob(<<e, c, 0>>, Waiting) /\ enqueued' = enqueued \cup {e}
      BY <2>3, <3>1, JobMade DEF Enqueue
    <3>3. Turns(<<e, c, 0>>, Waiting.st) /\ Waiting.st = "wait"
      BY <3>2, WaitingKept, KeptTurns DEF Waiting, NoJob
    <3> QED BY <2>1, <3>2, <3>3 DEF EventsHeld, Turns
  <2>4. enqueued' = enqueued \/ \E e \in Event, c \in 0..MaxCopy : Enqueue(e, c)
    BY DEF Elsewhere, Fetch, Promote, RecoverStalled, RecordDeadLetter, ClearDeadLetter,
           Requeue, ReplayKind, Shutdown, Restart, vars, jobVars
  <2> QED BY <2>2, <2>3, <2>4
<1>4. PastChecks'
  <2>1. \A i \in JobId : jobs'[i].st = "active" /\ jobs'[i].stage \notin {"none", "fetched"} => ~ Ev(i).empty
    BY <1>1 DEF Quiet, LossIInv, PastChecks
  <2>2. CASE UNCHANGED <<pendingDlq, dlq>>
    BY <2>1, <2>2 DEF LossIInv, PastChecks
  <2>3. ASSUME NEW j \in JobId, RecordDeadLetter(j) \/ ClearDeadLetter(j) PROVE PastChecks'
    <3>1. pendingDlq' \subseteq pendingDlq /\ ~ Ev(j).empty
      BY <2>3 DEF RecordDeadLetter, ClearDeadLetter, LossIInv, PastChecks, ReplaysHeld
    <3>2. \A i \in JobId \ {j} : dlq'[i] = dlq[i]
      BY <2>3 DEF RecordDeadLetter, ClearDeadLetter, TypesIInv, WorkerTypes
    <3> QED BY <2>1, <3>1, <3>2 DEF LossIInv, PastChecks
  <2>4. UNCHANGED <<pendingDlq, dlq>> \/ \E j \in JobId : RecordDeadLetter(j) \/ ClearDeadLetter(j)
    BY DEF Elsewhere, Enqueue, Fetch, Promote, RecoverStalled, Requeue, ReplayKind, Shutdown,
           Restart, vars, dlqVars
  <2> QED BY <2>2, <2>3, <2>4
<1>5. ReplaysHeld'
  <2>1. CASE UNCHANGED <<clearing, dlq>>
    BY <1>1, <2>1, QuietHolds, ReplayMade DEF LossIInv, ReplaysHeld
  <2>2. ASSUME NEW j \in JobId, RecordDeadLetter(j) \/ ClearDeadLetter(j) PROVE ReplaysHeld'
    <3> SUFFICES ASSUME NEW i \in JobId, i \in clearing' \/ dlq'[i] = "recovered"
                 PROVE  i[3] < MaxDepth /\ dlq'[i] # "none" /\ Held(ReplayId(i))'
      BY DEF ReplaysHeld
    <3>1. i \in clearing \/ dlq[i] = "recovered"
      BY <2>2 DEF RecordDeadLetter, ClearDeadLetter, TypesIInv, WorkerTypes
    <3>2. dlq'[i] = dlq[i] \/ dlq'[i] \in {"unrecovered", "recovered"}
      BY <2>2 DEF RecordDeadLetter, ClearDeadLetter, TypesIInv, WorkerTypes
    <3> QED BY <1>1, <3>1, <3>2, QuietHolds, ReplayMade DEF LossIInv, ReplaysHeld
  <2>3. ASSUME NEW j \in JobId, NEW ok \in BOOLEAN, Requeue(j, ok) PROVE ReplaysHeld'
    <3>1. /\ ReplayId(j) \in JobId /\ j[3] < MaxDepth /\ dlq' = dlq /\ dlq[j] # "none"
          /\ clearing' = IF ok THEN clearing \cup {j} ELSE clearing
      BY <2>3, ReplayMade DEF Requeue, ClearAfter
    <3>2. ok => Held(ReplayId(j))'
      <4>1. CASE jobs[ReplayId(j)].st # "none"
        BY <1>1, <3>1, <4>1 DEF Quiet, Held
      <4>2. CASE SetJob(ReplayId(j), Waiting)
        <5>1. Turns(ReplayId(j), Waiting.st) /\ Waiting.st = "wait"
          BY <3>1, <4>2, WaitingKept, KeptTurns DEF Waiting, NoJob
        <5> QED BY <3>1, <5>1 DEF Turns, Held
      <4> QED BY <2>3, <4>1, <4>2 DEF Requeue
    <3> SUFFICES ASSUME NEW i \in JobId, i \in clearing' \/ dlq'[i] = "recovered"
                 PROVE  i[3] < MaxDepth /\ dlq'[i] # "none" /\ Held(ReplayId(i))'
      BY DEF ReplaysHeld
    <3>3. CASE i \in clearing \/ dlq[i] = "recovered"
      BY <1>1, <3>1, <3>3, QuietHolds, ReplayMade DEF LossIInv, ReplaysHeld
    <3>4. CASE i = j /\ ok
      BY <3>1, <3>2, <3>4
    <3> QED BY <3>1, <3>3, <3>4
  <2>4. \/ UNCHANGED <<clearing, dlq>>
        \/ \E j \in JobId : \/ RecordDeadLetter(j) \/ ClearDeadLetter(j)
                            \/ \E ok \in BOOLEAN : Requeue(j, ok)
    BY DEF Elsewhere, Enqueue, Fetch, Promote, RecoverStalled, ReplayKind, Shutdown, Restart,
           vars, dlqVars
  <2> QED BY <2>1, <2>2, <2>3, <2>4
<1> QED BY <1>2, <1>3, <1>4, <1>5 DEF LossIInv

LEMMA DieLoses == ASSUME TypesIInv, LossIInv, Die PROVE LossIInv'
<1>1. /\ UNCHANGED <<enqueued, handled, dlq>> /\ pendingDlq' = {} /\ clearing' = {} /\ proc' = "down"
      /\ \A j \in JobId : IF jobs[j].st = "active" THEN jobs'[j].st = "stalled" ELSE jobs'[j] = jobs[j]
  BY DieMoves DEF Die
<1>2. \A i \in JobId : jobs[i].st # "none" => jobs'[i].st # "none"
  BY <1>1
<1>3. NeverDrains'
  BY <1>1 DEF LossIInv, NeverDrains
<1>4. EventsHeld'
  BY <1>1, <1>2 DEF LossIInv, EventsHeld
<1>5. PastChecks'
  BY <1>1 DEF LossIInv, PastChecks
<1>6. ReplaysHeld'
  BY <1>1, <1>2, ReplayMade DEF LossIInv, ReplaysHeld, Held
<1> QED BY <1>3, <1>4, <1>5, <1>6 DEF LossIInv

LEMMA LossStep ==
  TypesIInv /\ QueueIInv /\ LossIInv /\ [Next]_vars => LossIInv'
BY StepIs, ElsewhereLoses, HandleLoses, DieLoses DEF Exit, Crash

LEMMA LossInit == ~ MayShutdown /\ Init => LossIInv
BY DEF Init, LossIInv, NeverDrains, EventsHeld, PastChecks, ReplaysHeld, NoJob

(* At-least-once delivery: while no SIGTERM falls among the handlers, an   *)
(* event once enqueued is handled to the end, was rejected for an empty    *)
(* field, or is still with BullMQ, whatever fails, stalls, crashes or is   *)
(* replayed.  With a SIGTERM it is lost, as the run worker_drain shows.    *)
THEOREM NothingIsLost == ASSUME ~ MayShutdown PROVE Spec => []AtLeastOnce
<1>1. LossIInv => AtLeastOnce
  BY DEF LossIInv, EventsHeld, AtLeastOnce, JobsOf
<1>2. Init => LossIInv
  BY LossInit
<1> QED BY <1>1, <1>2, TypesInit, QueueInit, QueueStep, LossStep, PTL DEF Spec

(* A dead letter marked recovered was handled again or its replay is still *)
(* with BullMQ; with it, the queues are sound in every respect.            *)
THEOREM DeadLettersSound == ASSUME ~ MayShutdown PROVE Spec => []QueuesSound
<1>1. LossIInv => RecoveredRequeued
  <2> SUFFICES ASSUME LossIInv, NEW j \in JobId, dlq[j] = "recovered"
               PROVE  Ev(j) \in handled \/ jobs[ReplayId(j)].st # "none"
    BY DEF RecoveredRequeued
  <2>1. j[3] < MaxDepth /\ Held(ReplayId(j))
    BY DEF LossIInv, ReplaysHeld
  <2> QED BY <2>1, ReplayMade DEF Held
<1>2. Init => LossIInv
  BY LossInit
<1>3. Spec => []LossIInv
  BY <1>2, TypesInit, QueueInit, QueueStep, LossStep, PTL DEF Spec
<1>4. TypeOK /\ QueueIsWaitSet /\ RecoveredRequeued => QueuesSound
  BY DEF QueuesSound
<1> QED BY <1>1, <1>3, <1>4, QueuesFit, PTL
=============================================================================
