---------------------------- MODULE HorizonPoller ----------------------------
(***************************************************************************)
(* HorizonService (apps/api/src/horizon/horizon.service.ts): the loop that *)
(* reads the effects of the tracked accounts from Horizon, one page at a   *)
(* time, and hands them over, one ledger window at a time, to the five     *)
(* queues of the indexer.  The chain, Horizon and BullMQ are external; the *)
(* indexer is the one action by which a queued event becomes durable.      *)
(*                                                                         *)
(* Time is not modelled: the back-off after a failed round lasts until the *)
(* timer is ready again, and a request that times out is one that failed.  *)
(* Prices broadcast along the way are modelled only by their failures.     *)
(***************************************************************************)
EXTENDS Integers, Sequences, FiniteSets, SequencesExt

CONSTANTS
    Accounts,       \* contract accounts whose effects Horizon serves
    Roots,          \* the configured ones: the factory and the legacy pool
    Chain,          \* account -> its effects, oldest first
    LedgerSpan,     \* paging tokens per ledger
    PageLimit,      \* effects in a page: 50 in the code
    FirstCheckpoint,\* the durable checkpoint before the first start
    MaxFaults, MaxCrashes  \* bounds of the model

(* An effect: its ledger and place in it, the queue its event type belongs   *)
(* to ("none" for the other types), the pool it creates, and whether it      *)
(* carries a price and the fields its job needs.                             *)
Effect == [ledger : Nat \ {0}, place : 0 .. LedgerSpan - 1, queue : STRING,
           creates : Accounts \cup {"none"}, priced : BOOLEAN, complete : BOOLEAN]

ASSUME PollerAssumption ==
    /\ Roots \subseteq Accounts
    /\ IsFiniteSet(Roots) /\ "none" \notin Accounts
    /\ Chain \in [Accounts -> Seq(Effect)]
    /\ LedgerSpan \in Nat \ {0} /\ PageLimit \in Nat \ {0}
    /\ FirstCheckpoint \in Nat /\ MaxFaults \in Nat /\ MaxCrashes \in Nat

VARIABLES
    closed,      \* the ledgers closed so far
    mode,        \* the process: "up", "stopping" or "down"
    tracked,     \* trackedAccounts, in insertion order
    cursors,     \* cursors: account -> paging token
    pc,          \* the poll in progress: "idle", "fetch", "record" or "enqueue"
    round,       \* accounts left in this round, the current one first
    page,        \* records of the page not yet handed over
    seen,        \* records of the current window already looked at
    pageStart,   \* the cursor the page was asked with
    failing,     \* anyFailure
    waiting,     \* before nextAttemptAt
    enqueued,    \* effects handed over to a queue, as <<account, index>>
    durable,     \* the ledgers of which the indexer has made an event durable
    faults, crashes

pageVars  == <<page, seen, pageStart>>
pollVars  == <<pc, round, pageVars, failing, waiting>>
trackVars == <<tracked, cursors>>
pollerVars == <<closed, mode, trackVars, pollVars, enqueued, durable, faults, crashes>>

Now == -1  \* the cursor 'now'
NoAccount == "none"
Queues == {"pool.created", "swap.processed", "position.minted", "position.burned",
           "fees.collected"}

----------------------------------------------------------------------------
(* Effects, pages and windows *)

EffectIds == UNION {{a} \X (1 .. Len(Chain[a])) : a \in Accounts}
EffectOf(id) == Chain[id[1]][id[2]]

(* Paging tokens order effects by ledger and place.                          *)
Token(id) == EffectOf(id).ledger * LedgerSpan + EffectOf(id).place

(* They are far above any ledger number, and a pool has no effect before the *)
(* one that creates it.                                                      *)
ASSUME ChainAssumption ==
    /\ FirstCheckpoint < LedgerSpan
    /\ \A id \in EffectIds : EffectOf(id).ledger < LedgerSpan
    /\ \A id, o \in EffectIds : EffectOf(id).creates = o[1] => Token(id) < Token(o)

(* Horizon's answer: nothing for 'now', the oldest effects after the cursor  *)
(* otherwise.                                                                *)
After(a, cursor) ==
    {id \in {a} \X (1 .. Len(Chain[a])) : EffectOf(id).ledger <= closed /\ Token(id) > cursor}
Page(a, cursor) ==
    IF cursor = Now THEN {}
    ELSE {id \in After(a, cursor) :
             Cardinality({o \in After(a, cursor) : Token(o) <= Token(id)}) <= PageLimit}

(* byLedger: the records of a page are handled one ledger after the other;   *)
(* Horizon sends them in order, so that the first window is the oldest.      *)
WindowOf(records) ==
    {id \in records : \A o \in records : EffectOf(id).ledger <= EffectOf(o).ledger}

Oldest(records) == CHOOSE id \in records : \A o \in records : Token(id) <= Token(o)
Newest(records) == CHOOSE id \in records : \A o \in records : Token(o) <= Token(id)

(* The jobs of a window for one queue; a record with a missing field is      *)
(* dropped without a trace.                                                  *)
JobsFor(window, q) ==
    {id \in window : EffectOf(id).queue = q /\ EffectOf(id).complete}
BusyQueues(window) == {q \in Queues : JobsFor(window, q) # {}}

----------------------------------------------------------------------------
(* The process *)

(* getLastLedger answers a ledger that has been persisted (LedgerCursor's    *)
(* ResumePersisted), not always the newest.                                  *)
Checkpoints == {FirstCheckpoint} \cup durable

(* Variant: the checkpoint is not looked at. *)
AlwaysNow(ledger) == Now

StartCursor(ledger) == IF ledger > 0 THEN ledger ELSE Now

(* onModuleInit. *)
Start ==
    /\ mode = "down"
    /\ mode' = "up"
    /\ tracked' = SetToSeq(Roots)
    /\ \E ledger \in Checkpoints :
          cursors' = [a \in Accounts |-> IF a \in Roots THEN StartCursor(ledger) ELSE Now]
    /\ UNCHANGED <<closed, pollVars, enqueued, durable, faults, crashes>>

(* onModuleDestroy: the timer is cleared, a round in progress goes on. *)
Stop ==
    /\ mode = "up" /\ crashes < MaxCrashes
    /\ mode' = "stopping"
    /\ UNCHANGED <<closed, trackVars, pollVars, enqueued, durable, faults, crashes>>

(* The process ends, in the middle of anything: what it kept in memory is    *)
(* gone.                                                                     *)
Exit ==
    /\ mode # "down" /\ crashes < MaxCrashes
    /\ mode' = "down" /\ crashes' = crashes + 1
    /\ tracked' = <<>> /\ cursors' = [a \in Accounts |-> Now]
    /\ pc' = "idle" /\ round' = <<>>
    /\ page' = {} /\ seen' = {} /\ pageStart' = Now
    /\ failing' = FALSE /\ waiting' = FALSE
    /\ UNCHANGED <<closed, enqueued, durable, faults>>

----------------------------------------------------------------------------
(* A round of polling *)

(* poll: nothing while a round is in progress, the service is stopping, or   *)
(* before the next attempt is due.                                           *)
Poll ==
    /\ mode = "up" /\ pc = "idle" /\ ~waiting
    /\ tracked # <<>>
    /\ pc' = "fetch" /\ round' = tracked /\ failing' = FALSE
    /\ UNCHANGED <<closed, mode, trackVars, pageVars, waiting, enqueued, durable,
                   faults, crashes>>

Running == mode # "down"
Account == Head(round)

(* The round goes on with the next account, or ends: after a failure the     *)
(* next attempt is put off.                                                  *)
NextAccount(failed) ==
    /\ page' = {} /\ seen' = {} /\ pageStart' = Now
    /\ IF Len(round) > 1
       THEN /\ pc' = "fetch" /\ round' = Tail(round)
            /\ failing' = failed /\ UNCHANGED waiting
       ELSE /\ pc' = "idle" /\ round' = <<>>
            /\ failing' = FALSE /\ waiting' = failed

Fault == faults < MaxFaults /\ faults' = faults + 1

(* A request or a call fails: the account is left for this round. *)
AbandonAccount ==
    /\ Fault
    /\ NextAccount(TRUE)
    /\ UNCHANGED <<closed, mode, durable, crashes>>

Fetch ==
    /\ Running /\ pc = "fetch"
    /\ LET cursor == cursors[Account]
           records == Page(Account, cursor)
       IN  IF records = {}
           THEN NextAccount(failing)
           ELSE /\ page' = records /\ seen' = {} /\ pageStart' = cursor
                /\ pc' = "record"
                /\ UNCHANGED <<round, failing, waiting>>
    /\ UNCHANGED <<closed, mode, trackVars, enqueued, durable, faults, crashes>>

FetchFails ==
    /\ Running /\ pc = "fetch"
    /\ AbandonAccount
    /\ UNCHANGED <<trackVars, enqueued>>

Window == WindowOf(page)
CurrentRecord == Oldest(Window \ seen)

(* A pool that was just created is read from where the factory's page began. *)
NewPoolCursor == pageStart

Discovers(pool) == pool # NoAccount /\ pool \notin ToSet(tracked)

(* One record of the window: its price is published, and a pool it creates   *)
(* is tracked from the start of this page on.                                *)
LookAtRecord ==
    /\ Running /\ pc = "record"
    /\ LET pool == EffectOf(CurrentRecord).creates
       IN  IF Discovers(pool)
           THEN /\ tracked' = Append(tracked, pool)
                /\ cursors' = [cursors EXCEPT ![pool] = NewPoolCursor]
           ELSE UNCHANGED trackVars
    /\ seen' = seen \cup {CurrentRecord}
    /\ pc' = IF seen' = Window THEN "enqueue" ELSE "record"
    /\ UNCHANGED <<closed, mode, round, page, pageStart, failing, waiting, enqueued,
                   durable, faults, crashes>>

(* handlePoolStateUpdate or publish throws. *)
PriceFails ==
    /\ Running /\ pc = "record"
    /\ EffectOf(CurrentRecord).priced
    /\ AbandonAccount
    /\ UNCHANGED <<trackVars, enqueued>>

(* Variant: the cursor moves also when a queue refused its jobs. *)
AdvanceAlways(refused) == TRUE

Advances(refused) == refused = {}

HandOver(refused) ==
    enqueued' = enqueued \cup UNION {JobsFor(Window, q) : q \in BusyQueues(Window) \ refused}

MoveCursor(refused) ==
    cursors' = IF Advances(refused)
               THEN [cursors EXCEPT ![Account] = Token(Newest(Window))] ELSE cursors

(* batchEnqueueLedgerWindow succeeds, and the cursor follows. *)
Enqueue ==
    /\ Running /\ pc = "enqueue"
    /\ HandOver({}) /\ MoveCursor({})
    /\ IF page # Window
       THEN /\ page' = page \ Window /\ seen' = {} /\ pc' = "record"
            /\ UNCHANGED <<round, pageStart, failing, waiting>>
       ELSE NextAccount(failing)
    /\ UNCHANGED <<closed, mode, tracked, durable, faults, crashes>>

(* Some of the five addBulk calls fail; the others may have gone through. *)
EnqueueFails ==
    /\ Running /\ pc = "enqueue"
    /\ \E refused \in (SUBSET BusyQueues(Window)) \ {{}} :
          HandOver(refused) /\ MoveCursor(refused)
    /\ AbandonAccount
    /\ UNCHANGED tracked

(* nextAttemptAt has come. *)
AttemptDue ==
    /\ waiting
    /\ waiting' = FALSE
    /\ UNCHANGED <<closed, mode, trackVars, pc, round, pageVars, failing, enqueued,
                   durable, faults, crashes>>

----------------------------------------------------------------------------
(* The environment *)

LastLedger == Max({0} \cup {EffectOf(id).ledger : id \in EffectIds})

CloseLedger ==
    /\ closed < LastLedger
    /\ closed' = closed + 1
    /\ UNCHANGED <<mode, trackVars, pollVars, enqueued, durable, faults, crashes>>

(* The indexer makes a queued event durable, in any order. *)
IndexerPersists ==
    /\ \E id \in enqueued : durable' = durable \cup {EffectOf(id).ledger}
    /\ UNCHANGED <<closed, mode, trackVars, pollVars, enqueued, faults, crashes>>

PollerInit ==
    /\ closed = 0 /\ mode = "down"
    /\ tracked = <<>> /\ cursors = [a \in Accounts |-> Now]
    /\ pc = "idle" /\ round = <<>>
    /\ page = {} /\ seen = {} /\ pageStart = Now
    /\ failing = FALSE /\ waiting = FALSE
    /\ enqueued = {} /\ durable = {}
    /\ faults = 0 /\ crashes = 0

PollerNext == Start \/ Stop \/ Exit \/ Poll \/ Fetch \/ FetchFails \/ LookAtRecord \/ PriceFails
        \/ Enqueue \/ EnqueueFails \/ AttemptDue \/ CloseLedger \/ IndexerPersists

PollerSpec == PollerInit /\ [][PollerNext]_pollerVars

(* The timer fires, awaited calls return, and a stopped process ends and is  *)
(* started again.                                                            *)
PollerFairness ==
    /\ WF_pollerVars(Start) /\ WF_pollerVars(mode = "stopping" /\ Exit)
    /\ WF_pollerVars(Poll) /\ WF_pollerVars(AttemptDue)
    /\ WF_pollerVars(Fetch) /\ WF_pollerVars(LookAtRecord) /\ WF_pollerVars(Enqueue)

FairPollerSpec == PollerSpec /\ PollerFairness

----------------------------------------------------------------------------
(* Properties *)

PollerTypeOK ==
    /\ closed \in Nat /\ mode \in {"up", "stopping", "down"}
    /\ tracked \in Seq(Accounts) /\ IsInjective(tracked) /\ round \in Seq(Accounts)
    /\ cursors \in [Accounts -> Nat \cup {Now}] /\ pageStart \in Nat \cup {Now}
    /\ pc \in {"idle", "fetch", "record", "enqueue"}
    /\ page \subseteq EffectIds /\ seen \subseteq page
    /\ failing \in BOOLEAN /\ waiting \in BOOLEAN
    /\ enqueued \subseteq EffectIds /\ durable \subseteq {EffectOf(id).ledger : id \in enqueued}

Indexable(id) == EffectOf(id).queue \in Queues /\ EffectOf(id).complete

(* "We never skip a failed batch": an effect that a tracked account's cursor *)
(* has passed, now or by a restart from the checkpoint, has been handed over *)
(* to its queue; and the pools created among them are tracked.               *)
NothingSkipped ==
    \A id \in EffectIds :
        id[1] \in ToSet(tracked) /\ Token(id) <= cursors[id[1]] =>
            /\ Indexable(id) => id \in enqueued
            /\ EffectOf(id).creates # NoAccount => EffectOf(id).creates \in ToSet(tracked)

(* Every effect of the factory and of the pools it creates is handed over in *)
(* the end, whatever failed on the way.                                      *)
Reaches(id) == id[1] \in Roots \/ \E p \in EffectIds : p[1] \in Roots
                                     /\ EffectOf(p).creates = id[1]
QueuedUpTo(ledger) ==
    \A id \in EffectIds : Indexable(id) /\ Reaches(id) /\ EffectOf(id).ledger <= ledger => id \in enqueued
EveryEffectQueued ==
    \A ledger \in {EffectOf(id).ledger : id \in EffectIds} : closed >= ledger ~> QueuedUpTo(ledger)

(* The state of the poller: its types, and no effect behind a cursor that was  *)
(* not handed over.                                                         *)
PollerInv == PollerTypeOK /\ NothingSkipped
=============================================================================
