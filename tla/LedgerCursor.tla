---------------------------- MODULE LedgerCursor ----------------------------
(***************************************************************************)
(* The durable ledger checkpoint of the indexer: IndexerCursorService over *)
(* CacheService.setMaxNumber.  The checkpoint lives twice, in a Redis key  *)
(* (indexer:last_ledger) and in the Postgres row indexer_cursor('ledger'). *)
(* Several jobs of one worker process call advanceLedger concurrently; the *)
(* Horizon poller calls getLastLedger when the process starts.             *)
(*                                                                         *)
(* Redis is touched by one atomic Lua script; Postgres by a read followed  *)
(* by a write, with an await between them.  Any command may fail: a failed *)
(* Redis command reports "not updated", a failed Postgres command ends the *)
(* call.                                                                   *)
(***************************************************************************)
EXTENDS Integers, TLAPS

CONSTANTS
  Proc,        \* concurrent callers (jobs being handled, the poller)
  Ledger       \* ledger sequence numbers events are tagged with

ASSUME LedgerAssumption == Ledger \subseteq Nat

VARIABLES
  cache,       \* Redis value of indexer:last_ledger, NoValue when absent
  row,         \* Postgres indexer_cursor.cursor, NoValue when absent
  call,        \* call[p]: where p stands inside advanceLedger/getLastLedger
  persisted,   \* ledgers of the events whose canonical row is in Postgres
  resume       \* what the last getLastLedger returned

cursorVars == <<cache, row, call, resume>>
ledgerVars == <<cache, row, call, persisted, resume>>

NoValue == -1
Checkpoint == Ledger \cup {NoValue}

PC == {"idle", "setMax", "find", "upsert", "findStart", "warm"}
CallAt(pc, l) == [pc |-> pc, ledger |-> l]
IdleCall == CallAt("idle", NoValue)
Call == [pc : PC, ledger : Checkpoint]

CursorTypeOK ==
  /\ cache \in Checkpoint
  /\ row \in Checkpoint
  /\ call \in [Proc -> Call]
  /\ persisted \subseteq Ledger
  /\ resume \in Ledger \cup {0}

CursorInit ==
  /\ cache = NoValue
  /\ row = NoValue
  /\ call = [p \in Proc |-> IdleCall]
  /\ persisted = {}
  /\ resume = 0

Becomes(p, c) == call' = [call EXCEPT ![p] = c]
Return(p) == Becomes(p, IdleCall)

(* Variant: the mark is overwritten, as a plain SET would.                 *)
LastWriter(current, value) == value
(* The script of setMaxNumber: an absent or smaller value is replaced.     *)
HighWater(current, value) == IF value > current THEN value ELSE current

-----------------------------------------------------------------------------
(* A worker commits the canonical row of an event (the caller's step).     *)
Persist(l) ==
  /\ persisted' = persisted \cup {l}
  /\ UNCHANGED cursorVars

(* Variant: advanceLedger is called when an event is received.             *)
Received(l) == TRUE
(* Handlers call advanceLedger after the event's own write has succeeded.  *)
Handled(l) == l \in persisted

(* advanceLedger(ledger) is called.                                        *)
BeginAdvance(p, l) ==
  /\ call[p].pc = "idle"
  /\ Handled(l)
  /\ Becomes(p, CallAt("setMax", l))
  /\ UNCHANGED <<cache, row, persisted, resume>>

(* cache.setMaxNumber: atomic in Redis; false when Redis is unavailable.   *)
SetMax(p) ==
  /\ call[p].pc = "setMax"
  /\ \/ cache' = HighWater(cache, call[p].ledger)
     \/ UNCHANGED cache
  /\ Becomes(p, CallAt("find", call[p].ledger))
  /\ UNCHANGED <<row, persisted, resume>>

ShouldPersist(ledger, current) == ledger > current

(* indexerCursor.findUnique, then the shouldPersist test on what was read. *)
FindCursor(p) ==
  /\ call[p].pc = "find"
  /\ \/ /\ ShouldPersist(call[p].ledger, row)
        /\ Becomes(p, CallAt("upsert", call[p].ledger))
     \/ /\ ~ ShouldPersist(call[p].ledger, row)
        /\ Return(p)
     \/ Return(p)                                    \* the query fails
  /\ UNCHANGED <<cache, row, persisted, resume>>

(* indexerCursor.upsert writes the ledger whatever the row holds by now.   *)
UpsertCursor(p) ==
  /\ call[p].pc = "upsert"
  /\ \/ row' = call[p].ledger
     \/ UNCHANGED row                                \* the query fails
  /\ Return(p)
  /\ UNCHANGED <<cache, persisted, resume>>

(* getLastLedger: Redis first ...                                          *)
GetCached(p) ==
  /\ call[p].pc = "idle"
  /\ \/ /\ cache # NoValue
        /\ resume' = cache
        /\ UNCHANGED call
     \/ /\ Becomes(p, CallAt("findStart", NoValue))
        /\ UNCHANGED resume                          \* a miss, or Redis down
  /\ UNCHANGED <<cache, row, persisted>>

(* ... then the row in Postgres, 0 when there is none or the query fails.  *)
GetStored(p) ==
  /\ call[p].pc = "findStart"
  /\ \/ /\ row # NoValue
        /\ Becomes(p, CallAt("warm", row))
        /\ UNCHANGED resume
     \/ /\ resume' = 0
        /\ Return(p)
  /\ UNCHANGED <<cache, row, persisted>>

(* The stored ledger is put back into Redis before it is returned.         *)
WarmCache(p) ==
  /\ call[p].pc = "warm"
  /\ \/ cache' = HighWater(cache, call[p].ledger)
     \/ UNCHANGED cache
  /\ resume' = call[p].ledger
  /\ Return(p)
  /\ UNCHANGED <<row, persisted>>

(* The environment: Redis loses its data; the process dies mid-call.       *)
RedisLosesKey ==
  /\ cache' = NoValue
  /\ UNCHANGED <<row, call, persisted, resume>>

CallersCrash ==
  /\ call' = [p \in Proc |-> IdleCall]
  /\ UNCHANGED <<cache, row, persisted, resume>>

Step(p) ==
  \/ SetMax(p) \/ FindCursor(p) \/ UpsertCursor(p)
  \/ GetCached(p) \/ GetStored(p) \/ WarmCache(p)

CursorNext ==
  \/ \E l \in Ledger : Persist(l)
  \/ \E p \in Proc, l \in Ledger : BeginAdvance(p, l)
  \/ \E p \in Proc : Step(p)
  \/ RedisLosesKey
  \/ CallersCrash

CursorSpec == CursorInit /\ [][CursorNext]_ledgerVars

-----------------------------------------------------------------------------
(* Every checkpoint, wherever it is stored or in flight, is the ledger of  *)
(* an event that is in Postgres: "a ledger is only recorded after its      *)
(* event has been successfully persisted" (docs/ARCHITECTURE.md).          *)
CheckpointPersisted ==
  /\ cache # NoValue => cache \in persisted
  /\ row # NoValue => row \in persisted
  /\ \A p \in Proc : call[p].ledger # NoValue => call[p].ledger \in persisted

(* A restart never resumes beyond what has been persisted.                 *)
ResumePersisted == resume \in persisted \cup {0}

(* The part of the state CheckpointPersisted does not speak of: a ledger   *)
(* read from the row is a real one while it is put back into Redis.        *)
WarmingReal == \A p \in Proc : call[p].pc = "warm" => call[p].ledger \in Ledger

(* The inductive invariant behind the three above.                         *)
IInv == CursorTypeOK /\ CheckpointPersisted /\ ResumePersisted /\ WarmingReal

(* The Redis mark only grows while Redis keeps its data, however many jobs *)
(* finish in whatever order.                                               *)
CacheNeverRegresses == [][cache' # NoValue => cache' >= cache]_ledgerVars

(* The Postgres row only grows: advanceLedger "only advances if the new    *)
(* ledger is greater than the current one".                                *)
RowNeverRegresses == [][row' >= row]_ledgerVars

-----------------------------------------------------------------------------
(* Proofs, for any callers and any ledgers.                                *)

LEMMA InitIInv == CursorInit => IInv
  BY LedgerAssumption
  DEF CursorInit, IInv, CursorTypeOK, CheckpointPersisted, ResumePersisted, WarmingReal,
      Checkpoint, NoValue, IdleCall, CallAt, Call, PC

(* HighWater returns one of its arguments, and never less than the first.  *)
LEMMA HighWaterGrows ==
  ASSUME NEW current \in Int, NEW value \in Int
  PROVE  /\ HighWater(current, value) \in {current, value}
         /\ HighWater(current, value) >= current
  BY DEF HighWater

LEMMA CheckpointIsInt == Checkpoint \subseteq Int
  BY LedgerAssumption DEF Checkpoint, NoValue

(* Every step preserves the inductive invariant.                           *)
LEMMA StepIInv == IInv /\ [CursorNext]_ledgerVars => IInv'
<1> SUFFICES ASSUME IInv, [CursorNext]_ledgerVars PROVE IInv'
  OBVIOUS
<1> USE LedgerAssumption, CheckpointIsInt
    DEF IInv, CursorTypeOK, CheckpointPersisted, ResumePersisted, WarmingReal,
        Checkpoint, NoValue, IdleCall, CallAt, Call, PC, Becomes, Return
<1>1. CASE \E l \in Ledger : Persist(l)
  BY <1>1 DEF Persist, cursorVars
<1>2. CASE \E p \in Proc, l \in Ledger : BeginAdvance(p, l)
  <2> PICK p \in Proc, l \in Ledger : BeginAdvance(p, l)
    BY <1>2
  <2> QED
    BY DEF BeginAdvance, Handled
<1>3. ASSUME NEW p \in Proc, SetMax(p) PROVE IInv'
  <2>1. cache' = cache \/ cache' = call[p].ledger
    BY <1>3, HighWaterGrows DEF SetMax, HighWater
  <2> QED
    BY <1>3, <2>1 DEF SetMax
<1>4. ASSUME NEW p \in Proc, FindCursor(p) PROVE IInv'
  BY <1>4 DEF FindCursor
<1>5. ASSUME NEW p \in Proc, UpsertCursor(p) PROVE IInv'
  BY <1>5 DEF UpsertCursor
<1>6. ASSUME NEW p \in Proc, GetCached(p) PROVE IInv'
  BY <1>6 DEF GetCached
<1>7. ASSUME NEW p \in Proc, GetStored(p) PROVE IInv'
  <2>1. CASE /\ row # NoValue
             /\ call' = [call EXCEPT ![p] = [pc |-> "warm", ledger |-> row]]
             /\ UNCHANGED resume
    BY <1>7, <2>1 DEF GetStored
  <2>2. CASE resume' = 0 /\ Return(p)
    BY <1>7, <2>2 DEF GetStored
  <2> QED
    BY <1>7, <2>1, <2>2 DEF GetStored
<1>8. ASSUME NEW p \in Proc, WarmCache(p) PROVE IInv'
  <2>1. cache' = cache \/ cache' = call[p].ledger
    BY <1>8 DEF WarmCache, HighWater
  <2> QED
    BY <1>8, <2>1 DEF WarmCache
<1>9. CASE RedisLosesKey
  BY <1>9 DEF RedisLosesKey
<1>10. CASE CallersCrash
  BY <1>10 DEF CallersCrash
<1>11. CASE UNCHANGED ledgerVars
  BY <1>11 DEF ledgerVars
<1> QED
  BY <1>1, <1>2, <1>3, <1>4, <1>5, <1>6, <1>7, <1>8, <1>9, <1>10, <1>11
  DEF CursorNext, Step

(* The inductive invariant holds in every reachable state.                 *)
THEOREM Inductive == CursorSpec => []IInv
  BY InitIInv, StepIInv, PTL DEF CursorSpec

(* Every variable of the checkpoint keeps its type.                        *)
THEOREM TypeCorrect == CursorSpec => []CursorTypeOK
<1>1. IInv => CursorTypeOK
  BY DEF IInv
<1> QED
  BY <1>1, Inductive, PTL

(* Neither store, nor a call in flight, holds a ledger whose event has not *)
(* been persisted: advanceLedger is only reached after the write.          *)
THEOREM CheckpointSafe == CursorSpec => [](CheckpointPersisted /\ ResumePersisted)
<1>1. IInv => CheckpointPersisted /\ ResumePersisted
  BY DEF IInv
<1> QED
  BY <1>1, Inductive, PTL

(* Redis's mark never moves back, whatever the interleaving of the calls:  *)
(* the compare and the set are one script.                                 *)
THEOREM CacheMonotone == CursorSpec => CacheNeverRegresses
<1>1. IInv /\ [CursorNext]_ledgerVars => [cache' # NoValue => cache' >= cache]_ledgerVars
  <2> SUFFICES ASSUME IInv, [CursorNext]_ledgerVars, cache' # NoValue
               PROVE  cache' >= cache \/ UNCHANGED ledgerVars
    OBVIOUS
  <2> USE CheckpointIsInt, HighWaterGrows
  <2>1. cache \in Int /\ \A p \in Proc : call[p].ledger \in Int
    BY DEF IInv, CursorTypeOK, Call
  <2>2. CASE UNCHANGED cache
    BY <2>1, <2>2
  <2>3. CASE \E p \in Proc : cache' = HighWater(cache, call[p].ledger)
    BY <2>1, <2>3
  <2>4. CASE cache' = NoValue
    BY <2>4
  <2>5. ASSUME NEW p \in Proc, Step(p)
        PROVE  UNCHANGED cache \/ cache' = HighWater(cache, call[p].ledger)
    BY <2>5 DEF Step, SetMax, FindCursor, UpsertCursor, GetCached, GetStored,
                WarmCache
  <2> QED
    BY <2>2, <2>3, <2>4, <2>5
    DEF CursorNext, Persist, BeginAdvance, RedisLosesKey, CallersCrash, cursorVars, ledgerVars
<1> QED
  BY <1>1, Inductive, PTL DEF CacheNeverRegresses, CursorSpec
=============================================================================
