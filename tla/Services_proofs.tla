---------------------------- MODULE Services_proofs ----------------------------
(***************************************************************************)
(* What holds of the services of the API and of the SDK for every set of     *)
(* requests, clients and bounds: pool details under a lock that expires, the *)
(* enrichment of a token, sign-in, rate limits, the transactions of the SDK, *)
(* the TVL alerts, live prices, candles, and what the read-only endpoints    *)
(* and the operators' views say.                                             *)
(***************************************************************************)
EXTENDS MCServices, Sums, FiniteSetTheorems, SequenceTheorems, TLAPS

-----------------------------------------------------------------------------
(* Pool details.  A request that loads holds the lock, or is on record as one that nothing       *)
(* protects; a lock that is gone has no holder.                                                 *)

ReaderStates == {"none", "acquire", "load", "fill", "release", "wait", "look again", "load alone", "done", "dead"}
ReaderType == [at : ReaderStates, v : Nat, left : Nat]
FlightTypes ==
  /\ lock \in [ttl : Nat, by : Readers \cup {Nobody}]
  /\ reader \in [Readers -> ReaderType]
  /\ poolRow \in Nat /\ cached \in [v : Nat, ttl : Nat]
  /\ (lock.ttl = 0 => lock.by = Nobody)

LoaderHoldsLock == \A p \in Readers : reader[p].at \in {"load", "fill"} => p \in unguarded \/ lock.by = p

FlightIInv == FlightTypes /\ LoaderHoldsLock

LEMMA FlightStarts == FlightInit => FlightIInv
BY DEF FlightInit, FlightIInv, FlightTypes, LoaderHoldsLock, ReaderStates, ReaderType, NoLock, Absent, Nobody

(* One request moves; the others stay where they are, and whoever held the lock holds it or is on record. *)
LEMMA OneMoves ==
  ASSUME FlightIInv, NEW p \in Readers, FlightTypes',
         \A q \in Readers \ {p} : reader'[q] = reader[q],
         reader'[p].at \in {"load", "fill"} => p \in unguarded' \/ lock'.by = p,
         lock'.by = lock.by \/ lock.by \in unguarded' \cup {Nobody},
         unguarded \subseteq unguarded'
  PROVE  FlightIInv'
<1>1. Nobody \notin Readers
  BY FlightAssumption DEF Nobody
<1> QED BY <1>1 DEF FlightIInv, LoaderHoldsLock

(* What the program counter of a request says is all that Moves changes. *)
LEMMA MovesTypes ==
  ASSUME FlightTypes, NEW p \in Readers, NEW at \in ReaderStates, Moves(p, at)
  PROVE  /\ reader' \in [Readers -> ReaderType] /\ reader'[p].at = at
         /\ \A q \in Readers \ {p} : reader'[q] = reader[q]
BY DEF FlightTypes, Moves, ReaderType

LEMMA LookKeeps == ASSUME FlightIInv, NEW p \in Readers, Look(p) PROVE FlightIInv'
<1>1. FlightTypes /\ reader[p] \in ReaderType
  BY DEF FlightIInv, FlightTypes
<1>2. PICK r \in ReaderType : reader' = [reader EXCEPT ![p] = r] /\ r.at \in {"done", "acquire"}
  <2>1. CASE redisUp /\ cached.ttl > 0
    <3>1. [reader[p] EXCEPT !.at = "done", !.v = cached.v] \in ReaderType
      BY <1>1 DEF FlightTypes, ReaderType, ReaderStates
    <3>2. [reader[p] EXCEPT !.at = "done", !.v = cached.v].at = "done"
      BY <1>1 DEF ReaderType
    <3> QED BY <2>1, <3>1, <3>2 DEF Look
  <2>2. CASE ~ (redisUp /\ cached.ttl > 0)
    <3>1. [reader[p] EXCEPT !.at = "acquire"] \in ReaderType /\ [reader[p] EXCEPT !.at = "acquire"].at = "acquire"
      BY <1>1 DEF ReaderType, ReaderStates
    <3> QED BY <2>2, <3>1 DEF Look
  <2> QED BY <2>1, <2>2
<1>3. FlightTypes' /\ (\A q \in Readers \ {p} : reader'[q] = reader[q]) /\ reader'[p].at \in {"done", "acquire"}
  BY <1>1, <1>2 DEF Look, FlightTypes
<1> QED BY <1>3, OneMoves DEF Look

LEMMA AcquireKeeps == ASSUME FlightIInv, NEW p \in Readers, Acquire(p) PROVE FlightIInv'
<1>0. FlightTypes /\ LockTtl \in Nat \ {0} /\ WaitTicks \in Nat
  BY FlightAssumption DEF FlightIInv
<1>1. CASE ~redisUp
  <2>1. Moves(p, "load") /\ unguarded' = unguarded \cup {p} /\ UNCHANGED <<poolRow, cached, lock>>
    BY <1>1 DEF Acquire
  <2>2. FlightTypes' /\ \A q \in Readers \ {p} : reader'[q] = reader[q]
    BY <1>0, <2>1, MovesTypes DEF FlightTypes, ReaderStates
  <2> QED BY <2>1, <2>2, OneMoves
<1>2. CASE redisUp /\ lock.ttl = 0
  <2>1. Moves(p, "load") /\ lock' = [ttl |-> LockTtl, by |-> p] /\ UNCHANGED <<poolRow, cached, unguarded>>
    BY <1>2 DEF Acquire, LockFree
  <2>2. FlightTypes' /\ \A q \in Readers \ {p} : reader'[q] = reader[q]
    BY <1>0, <2>1, MovesTypes DEF FlightTypes, ReaderStates
  <2>3. lock.by = Nobody
    BY <1>0, <1>2 DEF FlightTypes
  <2> QED BY <2>1, <2>2, <2>3, OneMoves
<1>3. CASE redisUp /\ lock.ttl # 0
  <2>1. reader' = [reader EXCEPT ![p].at = "wait", ![p].left = WaitTicks] /\ UNCHANGED <<poolRow, cached, lock, unguarded>>
    BY <1>3 DEF Acquire, LockFree
  <2>2. FlightTypes' /\ reader'[p].at = "wait" /\ \A q \in Readers \ {p} : reader'[q] = reader[q]
    BY <1>0, <2>1 DEF FlightTypes, ReaderType, ReaderStates
  <2> QED BY <2>1, <2>2, OneMoves
<1> QED BY <1>1, <1>2, <1>3

LEMMA LoadKeeps == ASSUME FlightIInv, NEW p \in Readers, Load(p) \/ LoadThrows(p) PROVE FlightIInv'
<1>1. /\ reader[p].at = "load" /\ UNCHANGED <<poolRow, cached, lock, redisUp, unguarded>>
      /\ \E at \in {"release", "fill"}, v \in Nat : reader' = [reader EXCEPT ![p].at = at, ![p].v = v]
  BY DEF Load, LoadThrows, FlightIInv, FlightTypes
<1>2. PICK at \in {"release", "fill"}, v \in Nat : reader' = [reader EXCEPT ![p].at = at, ![p].v = v]
  BY <1>1
<1>3. FlightTypes' /\ \A q \in Readers \ {p} : reader'[q] = reader[q]
  <2>1. reader \in [Readers -> ReaderType] /\ at \in ReaderStates
    BY DEF FlightIInv, FlightTypes, ReaderStates
  <2>2. [reader[p] EXCEPT !.at = at, !.v = v] \in ReaderType
    BY <2>1 DEF ReaderType
  <2>3. reader' = [reader EXCEPT ![p] = [reader[p] EXCEPT !.at = at, !.v = v]]
    BY <1>2, <2>1
  <2>4. reader' \in [Readers -> ReaderType] /\ \A q \in Readers \ {p} : reader'[q] = reader[q]
    BY <2>1, <2>2, <2>3
  <2> QED BY <1>1, <2>4 DEF FlightIInv, FlightTypes
<1>4. p \in unguarded \/ lock.by = p
  BY <1>1 DEF FlightIInv, LoaderHoldsLock
<1> QED BY <1>1, <1>3, <1>4, OneMoves

LEMMA FillKeeps == ASSUME FlightIInv, NEW p \in Readers, Fill(p) PROVE FlightIInv'
<1>0. FlightTypes /\ PoolTtl \in Nat
  BY FlightAssumption DEF FlightIInv
<1>1. reader'[p].at = "release" /\ (\A q \in Readers \ {p} : reader'[q] = reader[q]) /\ reader' \in [Readers -> ReaderType]
  BY <1>0, MovesTypes DEF Fill, ReaderStates
<1>2. cached' \in [v : Nat, ttl : Nat]
  BY <1>0 DEF Fill, FlightTypes, ReaderType
<1>3. FlightTypes'
  BY <1>0, <1>1, <1>2 DEF Fill, FlightTypes
<1> QED BY <1>1, <1>3, OneMoves DEF Fill

LEMMA ReleaseKeeps == ASSUME FlightIInv, NEW p \in Readers, Release(p) PROVE FlightIInv'
<1>0. FlightTypes
  BY DEF FlightIInv
<1>1. reader'[p].at = "done" /\ (\A q \in Readers \ {p} : reader'[q] = reader[q]) /\ reader' \in [Readers -> ReaderType]
  BY <1>0, MovesTypes DEF Release, ReaderStates
<1>2. FlightTypes'
  BY <1>0, <1>1 DEF Release, FlightTypes, NoLock
<1>3. CASE lock.by = p
  <2>1. \A q \in Readers \ {p} : reader[q].at \in {"load", "fill"} => q \in unguarded
    BY <1>3 DEF FlightIInv, LoaderHoldsLock
  <2> QED BY <1>1, <1>2, <2>1 DEF Release, FlightIInv, LoaderHoldsLock
<1>4. CASE lock.by # p
  <2>1. unguarded \subseteq unguarded' /\ (lock'.by = lock.by \/ lock.by \in unguarded' \cup {Nobody})
    BY <1>4 DEF Release
  <2> QED BY <1>1, <1>2, <2>1, OneMoves
<1> QED BY <1>3, <1>4

LEMMA WaiterKeeps ==
  ASSUME FlightIInv, NEW p \in Readers, WaitEnds(p) \/ LookAgain(p) \/ LoadAlone(p) \/ ReaderDies(p) PROVE FlightIInv'
<1>0. FlightTypes
  BY DEF FlightIInv
<1>1. CASE WaitEnds(p)
  <2>1. Moves(p, "look again") \/ Moves(p, "load alone")
    BY <1>1 DEF WaitEnds
  <2>2. FlightTypes' /\ (\A q \in Readers \ {p} : reader'[q] = reader[q]) /\ reader'[p].at \in {"look again", "load alone"}
    BY <1>0, <1>1, <2>1, MovesTypes DEF WaitEnds, FlightTypes, ReaderStates
  <2> QED BY <1>1, <2>2, OneMoves DEF WaitEnds
<1>2. CASE LookAgain(p)
  <2>1. FlightTypes' /\ (\A q \in Readers \ {p} : reader'[q] = reader[q]) /\ reader'[p].at \in {"done", "load alone"}
    <3>1. reader \in [Readers -> ReaderType] /\ poolRow \in Nat /\ cached.v \in Nat
      BY <1>0 DEF FlightTypes
    <3>2. PICK r \in ReaderType : reader' = [reader EXCEPT ![p] = r] /\ r.at \in {"done", "load alone"}
      <4>1. reader[p] \in [at : ReaderStates, v : Nat, left : Nat] /\ {"done", "load alone"} \subseteq ReaderStates
        BY <3>1 DEF ReaderType, ReaderStates
      <4>2. /\ [reader[p] EXCEPT !.at = "done", !.v = cached.v] \in ReaderType
            /\ [reader[p] EXCEPT !.at = "done", !.v = cached.v].at = "done"
        BY <3>1, <4>1 DEF ReaderType
      <4>3. /\ [reader[p] EXCEPT !.at = "load alone"] \in ReaderType
            /\ [reader[p] EXCEPT !.at = "load alone"].at = "load alone"
        BY <4>1 DEF ReaderType
      <4>4. \/ reader' = [reader EXCEPT ![p] = [reader[p] EXCEPT !.at = "done", !.v = cached.v]]
            \/ reader' = [reader EXCEPT ![p] = [reader[p] EXCEPT !.at = "load alone"]]
        BY <1>2, <3>1 DEF LookAgain, AfterMiss
      <4> QED BY <4>2, <4>3, <4>4
    <3>3. reader' \in [Readers -> ReaderType] /\ reader'[p] = r /\ \A q \in Readers \ {p} : reader'[q] = reader[q]
      BY <3>1, <3>2
    <3>4. FlightTypes'
      BY <1>0, <1>2, <3>3 DEF LookAgain, FlightTypes
    <3> QED BY <3>2, <3>3, <3>4
  <2> QED BY <1>2, <2>1, OneMoves DEF LookAgain
<1>3. CASE LoadAlone(p)
  <2>1. FlightTypes' /\ (\A q \in Readers \ {p} : reader'[q] = reader[q]) /\ reader'[p].at = "done"
    <3>1. reader \in [Readers -> ReaderType] /\ poolRow \in Nat /\ cached.v \in Nat
      BY <1>0 DEF FlightTypes
    <3>2. PICK r \in ReaderType : reader' = [reader EXCEPT ![p] = r] /\ r.at \in {"done"}
      <4>1. reader[p] \in [at : ReaderStates, v : Nat, left : Nat] /\ "done" \in ReaderStates
        BY <3>1 DEF ReaderType, ReaderStates
      <4>2. /\ [reader[p] EXCEPT !.at = "done", !.v = poolRow] \in ReaderType
            /\ [reader[p] EXCEPT !.at = "done", !.v = poolRow].at = "done"
        BY <3>1, <4>1 DEF ReaderType
      <4>3. reader' = [reader EXCEPT ![p] = [reader[p] EXCEPT !.at = "done", !.v = poolRow]]
        BY <1>3, <3>1 DEF LoadAlone
      <4> QED BY <4>2, <4>3
    <3>3. reader' \in [Readers -> ReaderType] /\ reader'[p] = r /\ \A q \in Readers \ {p} : reader'[q] = reader[q]
      BY <3>1, <3>2
    <3>4. FlightTypes'
      BY <1>0, <1>3, <3>3 DEF LoadAlone, FlightTypes
    <3> QED BY <3>2, <3>3, <3>4
  <2> QED BY <1>3, <2>1, OneMoves DEF LoadAlone
<1>4. CASE ReaderDies(p)
  <2>1. FlightTypes' /\ (\A q \in Readers \ {p} : reader'[q] = reader[q]) /\ reader'[p].at = "dead"
    BY <1>0, <1>4, MovesTypes DEF ReaderDies, FlightTypes, ReaderStates
  <2> QED BY <1>4, <2>1, OneMoves DEF ReaderDies
<1> QED BY <1>1, <1>2, <1>3, <1>4

(* Time takes the lock from its holder, and puts him on record. *)
LEMMA FlightTickKeeps == ASSUME FlightIInv, FlightTick PROVE FlightIInv'
<1>0. FlightTypes
  BY DEF FlightIInv
<1>1. \A p \in Readers : reader'[p].at = reader[p].at /\ reader'[p] \in ReaderType
  <2> SUFFICES ASSUME NEW p \in Readers PROVE reader'[p].at = reader[p].at /\ reader'[p] \in ReaderType
    OBVIOUS
  <2>1. reader[p] \in ReaderType
    BY <1>0 DEF FlightTypes
  <2>2. reader'[p] = [reader[p] EXCEPT !.left = IF @ = 0 THEN 0 ELSE @ - 1]
    BY DEF FlightTick
  <2> QED BY <2>1, <2>2 DEF ReaderType
<1>2. reader' \in [Readers -> ReaderType]
  BY <1>1 DEF FlightTick
<1>3. cached' \in [v : Nat, ttl : Nat]
  BY <1>0 DEF FlightTick, FlightTypes, Absent
<1>4. lock' \in [ttl : Nat, by : Readers \cup {Nobody}] /\ (lock'.ttl = 0 => lock'.by = Nobody)
  BY <1>0 DEF FlightTick, FlightTypes, NoLock
<1>5. unguarded \subseteq unguarded' /\ (lock'.by = lock.by \/ lock.by \in unguarded' \cup {Nobody})
  <2>1. lock.ttl \in Nat /\ (lock.ttl = 0 => lock.by = Nobody)
    BY <1>0 DEF FlightTypes
  <2>2. CASE lock.ttl > 1
    BY <2>1, <2>2 DEF FlightTick
  <2>3. CASE lock.ttl = 1
    BY <2>1, <2>3 DEF FlightTick
  <2>4. CASE lock.ttl = 0
    BY <2>1, <2>4 DEF FlightTick
  <2> QED BY <2>1, <2>2, <2>3, <2>4
<1>6. LoaderHoldsLock'
  <2>1. Nobody \notin Readers
    BY FlightAssumption DEF Nobody
  <2> QED BY <1>1, <1>5, <2>1 DEF FlightIInv, LoaderHoldsLock
<1>7. FlightTypes'
  BY <1>0, <1>2, <1>3, <1>4 DEF FlightTypes, FlightTick
<1> QED BY <1>6, <1>7 DEF FlightIInv

LEMMA FlightStep == FlightIInv /\ [FlightNext]_flightVars => FlightIInv'
<1> SUFFICES ASSUME FlightIInv, [FlightNext]_flightVars PROVE FlightIInv'
  OBVIOUS
<1>1. CASE PoolChanges \/ RedisFlips \/ UNCHANGED flightVars
  BY <1>1 DEF PoolChanges, RedisFlips, flightVars, FlightIInv, FlightTypes, LoaderHoldsLock
<1> QED BY <1>1, LookKeeps, AcquireKeeps, LoadKeeps, FillKeeps, ReleaseKeeps, WaiterKeeps, FlightTickKeeps
        DEF FlightNext, ReaderStep

(* Two requests load a pool at once only if nothing protects one of them: it lost its lock to time *)
(* or to another's release, or got none because Redis was away.                                 *)
THEOREM FlightSound == FlightSpec => []OneLoad
<1>1. FlightIInv => OneLoad
  <2>1. SUFFICES ASSUME FlightIInv, NEW p \in Readers, NEW q \in Readers, p # q,
                        reader[p].at \in {"load", "fill"}, reader[q].at \in {"load", "fill"}
                 PROVE  p \in unguarded \/ q \in unguarded
    BY DEF OneLoad
  <2> QED BY <2>1 DEF FlightIInv, LoaderHoldsLock
<1> QED BY <1>1, FlightStarts, FlightStep, PTL DEF FlightSpec

-----------------------------------------------------------------------------
(* A token's row.  Whoever has read the row and was not overtaken knows what it still holds.      *)

PassStates == {"new", "read", "ask", "write", "end"}

PassType == [at : PassStates, listed : SUBSET TokenFields, chain : SUBSET TokenFields, existing : SUBSET TokenFields]
KnowsRow ==
  \A x \in Passes : pass[x].at \in {"ask", "write"} => x \in overtaken \/ pass[x].existing = tokenRow

TokenIInv ==
  /\ pass \in [Passes -> PassType]
  /\ tokenRow \subseteq TokenFields
  /\ KnowsRow

(* One pass moves, the others stay; its row is the one it read, or it is only before or after.   *)
LEMMA PassMoves ==
  ASSUME TokenIInv, NEW x \in Passes, NEW r \in PassType, pass' = [pass EXCEPT ![x] = r],
         UNCHANGED <<tokenRow, overtaken>>,
         r.at \in {"ask", "write"} => x \in overtaken \/ r.existing = tokenRow
  PROVE  TokenIInv'
<1>1. pass' \in [Passes -> PassType] /\ pass'[x] = r /\ \A y \in Passes \ {x} : pass'[y] = pass[y]
  BY DEF TokenIInv
<1> QED BY <1>1 DEF TokenIInv, KnowsRow

LEMMA TokenStep == TokenIInv /\ [TokenNext]_tokenVars => TokenIInv'
<1> SUFFICES ASSUME TokenIInv, [TokenNext]_tokenVars PROVE TokenIInv'
  OBVIOUS
<1>0. \A x \in Passes : pass[x] \in PassType
  BY DEF TokenIInv
<1>1. ASSUME NEW x \in Passes, FetchList(x) PROVE TokenIInv'
  <2>1. PICK listed \in {ListHas, {}} : pass' = [pass EXCEPT ![x].at = "read", ![x].listed = listed]
    BY <1>1 DEF FetchList
  <2> DEFINE r == [pass[x] EXCEPT !.at = "read", !.listed = listed]
  <2>2. listed \in SUBSET TokenFields
    BY TokenAssumption
  <2>3. r \in PassType /\ r.at = "read"
    BY <1>0, <2>2 DEF PassType, PassStates
  <2>4. pass' = [pass EXCEPT ![x] = r]
    BY <2>1 DEF TokenIInv
  <2> QED BY <1>1, <2>3, <2>4, PassMoves DEF FetchList
<1>2. ASSUME NEW x \in Passes, ReadRow(x) PROVE TokenIInv'
  <2> DEFINE r == [pass[x] EXCEPT !.at = "ask", !.existing = tokenRow]
  <2>1. r \in PassType /\ r.existing = tokenRow
    BY <1>0 DEF PassType, PassStates, TokenIInv
  <2>2. pass' = [pass EXCEPT ![x] = r]
    BY <1>2 DEF ReadRow, TokenIInv
  <2> QED BY <1>2, <2>1, <2>2, PassMoves DEF ReadRow
<1>3. ASSUME NEW x \in Passes, AskChain(x) PROVE TokenIInv'
  <2>1. PICK chain \in {ChainHas, {}} : pass' = [pass EXCEPT ![x].at = "write", ![x].chain = chain]
    BY <1>3 DEF AskChain
  <2> DEFINE r == [pass[x] EXCEPT !.at = "write", !.chain = chain]
  <2>2. chain \in SUBSET TokenFields
    BY TokenAssumption DEF TokenFields
  <2>3. r \in PassType /\ r.existing = pass[x].existing
    BY <1>0, <2>2 DEF PassType, PassStates
  <2>4. pass' = [pass EXCEPT ![x] = r]
    BY <2>1 DEF TokenIInv
  <2>5. x \in overtaken \/ pass[x].existing = tokenRow
    BY <1>3 DEF AskChain, TokenIInv, KnowsRow
  <2> QED BY <1>3, <2>3, <2>4, <2>5, PassMoves DEF AskChain
<1>4. ASSUME NEW x \in Passes, WriteToken(x) PROVE TokenIInv'
  <2>1. KnownBy(x) \subseteq TokenFields
    BY <1>0 DEF KnownBy, PassType
  <2>2. pass' \in [Passes -> PassType] /\ pass'[x].at = "end" /\ \A y \in Passes \ {x} : pass'[y] = pass[y]
    BY <1>0, <1>4 DEF WriteToken, TokenIInv, PassType, PassStates
  <2>3. KnowsRow'
    BY <1>4, <2>2 DEF WriteToken, KnowsRow
  <2> QED BY <1>4, <2>1, <2>2, <2>3 DEF WriteToken, TokenIInv
<1>5. ASSUME NEW x \in Passes, PassFails(x) PROVE TokenIInv'
  <2> DEFINE r == [pass[x] EXCEPT !.at = "end"]
  <2>1. r \in PassType /\ r.at = "end"
    BY <1>0 DEF PassType, PassStates
  <2>2. pass' = [pass EXCEPT ![x] = r]
    BY <1>5 DEF PassFails, TokenIInv
  <2> QED BY <1>5, <2>1, <2>2, PassMoves DEF PassFails
<1>6. CASE UNCHANGED tokenVars
  BY <1>6 DEF tokenVars, TokenIInv, KnowsRow
<1> QED BY <1>1, <1>2, <1>3, <1>4, <1>5, <1>6 DEF TokenNext

LEMMA TokenStarts == TokenInit => TokenIInv
BY DEF TokenInit, TokenIInv, KnowsRow, PassStates, PassType
(* What a token's row has learned is lost only to a pass that another one overtook. *)
THEOREM TokenSound == TokenSpec => RegressOnlyWhenOvertaken
<1> DEFINE Step == tokenRow \subseteq tokenRow' \/ \E x \in overtaken : pass[x].at = "write" /\ pass'[x].at = "end"
<1>1. ASSUME TokenIInv, TokenNext PROVE Step
  <2>1. ASSUME NEW x \in Passes, WriteToken(x) PROVE Step
    <3>1. pass[x].at = "write" /\ pass'[x].at = "end" /\ tokenRow' = KnownBy(x)
      BY <1>1, <2>1 DEF WriteToken, TokenIInv, PassType
    <3>2. x \in overtaken \/ pass[x].existing = tokenRow
      BY <1>1, <3>1 DEF TokenIInv, KnowsRow
    <3> QED BY <3>1, <3>2 DEF KnownBy
  <2> QED BY <1>1, <2>1 DEF TokenNext, FetchList, ReadRow, AskChain, PassFails
<1>2. TokenIInv /\ [TokenNext]_tokenVars => [Step]_tokenVars
  BY <1>1
<1> QED BY <1>2, TokenStarts, TokenStep, PTL DEF TokenSpec, RegressOnlyWhenOvertaken

-----------------------------------------------------------------------------
(* Sign-in: the counter of failures.                                                             *)

VerifStates == {"none", "refused", "consume", "count", "ttl", "arm", "purge", "purge2", "clear", "token", "cut"}
VerifType == [at : VerifStates, nonce : Nat, ttl : Nat]

AuthTypes ==
  /\ nonce \in [id : Nat, ttl : Nat] /\ attempts \in [n : Nat, ttl : Nat] /\ lastNonce \in Nat
  /\ verif \in [Verifiers -> VerifType] /\ authLost \in BOOLEAN

ArmsForAWhile == \A v \in Verifiers : verif[v].at = "arm" => verif[v].ttl > 0

AuthIInv == AuthTypes /\ ArmsForAWhile /\ AuthInv

USE AuthAssumption

LEMMA AuthStarts == AuthInit => AuthIInv
<1> SUFFICES ASSUME AuthInit PROVE AuthIInv
  OBVIOUS
<1>1. AuthTypes
  BY DEF AuthInit, AuthTypes, VerifType, VerifStates, NoNonce, NoAttempts
<1>2. ArmsForAWhile
  BY DEF AuthInit, ArmsForAWhile
<1>3. AuthInv
  BY DEF AuthInit, AuthInv, LockoutPending, FailuresFade, NoAttempts
<1> QED BY <1>1, <1>2, <1>3 DEF AuthIInv

(* What Goes changes. *)
LEMMA GoesTypes ==
  ASSUME AuthTypes, NEW v \in Verifiers, NEW at \in VerifStates, Goes(v, at)
  PROVE  /\ verif' \in [Verifiers -> VerifType] /\ verif'[v].at = at
         /\ verif'[v].nonce = verif[v].nonce /\ verif'[v].ttl = verif[v].ttl
         /\ \A w \in Verifiers \ {v} : verif'[w] = verif[w]
BY DEF AuthTypes, Goes, VerifType

LEMMA ReadTtlTypes ==
  ASSUME AuthTypes, NEW v \in Verifiers, ReadNonceTtl(v)
  PROVE  /\ verif' \in [Verifiers -> VerifType] /\ verif'[v].at = "arm" /\ verif'[v].ttl > 0
         /\ verif'[v].nonce = verif[v].nonce /\ \A w \in Verifiers \ {v} : verif'[w] = verif[w]
<1> DEFINE t == IF nonce.ttl > 0 THEN nonce.ttl ELSE NonceTtl
<1>1. t \in Nat /\ t > 0
  BY DEF AuthTypes
<1>2. verif' = [verif EXCEPT ![v].at = "arm", ![v].ttl = t]
  BY DEF ReadNonceTtl
<1> HIDE DEF t
<1> QED BY <1>1, <1>2 DEF AuthTypes, VerifType, VerifStates

(* Types. *)
LEMMA AuthTypesStep == AuthTypes /\ [AuthNext]_authVars => AuthTypes'
<1> SUFFICES ASSUME AuthTypes, [AuthNext]_authVars PROVE AuthTypes'
  OBVIOUS
<1>1. CASE IssueNonce
  BY <1>1 DEF IssueNonce, AuthTypes
<1>2. CASE AuthTick
  <2>1. nonce' \in [id : Nat, ttl : Nat]
    BY <1>2 DEF AuthTick, AuthTypes, NoNonce
  <2>2. attempts' \in [n : Nat, ttl : Nat]
    BY <1>2 DEF AuthTick, AuthTypes, NoAttempts
  <2> QED BY <1>2, <2>1, <2>2 DEF AuthTick, AuthTypes
<1>3. ASSUME NEW v \in Verifiers, Present(v) PROVE AuthTypes'
  <2>1. PICK n \in 1..lastNonce, at \in {"refused", "consume", "count"} :
          verif' = [verif EXCEPT ![v] = [at |-> at, nonce |-> n, ttl |-> 0]]
    BY <1>3 DEF Present
  <2> QED BY <1>3, <2>1 DEF Present, AuthTypes, VerifType, VerifStates
<1>4. ASSUME NEW v \in Verifiers, CountFailure(v) PROVE AuthTypes'
  <2>1. PICK at \in {"ttl", "purge", "refused"} : Goes(v, at)
    BY <1>4 DEF CountFailure
  <2>2. verif' \in [Verifiers -> VerifType]
    BY <2>1, GoesTypes DEF VerifStates
  <2> QED BY <1>4, <2>2 DEF CountFailure, AuthTypes
<1>5. ASSUME NEW v \in Verifiers, ReadNonceTtl(v) PROVE AuthTypes'
  BY <1>5, ReadTtlTypes DEF ReadNonceTtl, AuthTypes
<1>6. ASSUME NEW v \in Verifiers, ArmAttempts(v) PROVE AuthTypes'
  <2>1. verif' \in [Verifiers -> VerifType]
    BY <1>6, GoesTypes DEF ArmAttempts, VerifStates
  <2>2. attempts' \in [n : Nat, ttl : Nat]
    BY <1>6 DEF ArmAttempts, AuthTypes, VerifType
  <2> QED BY <1>6, <2>1, <2>2 DEF ArmAttempts, AuthTypes
<1>7. ASSUME NEW v \in Verifiers, PurgeNonce(v) \/ PurgeAttempts(v) \/ ConsumeNonce(v) \/ ClearAttempts(v) PROVE AuthTypes'
  <2>1. verif' \in [Verifiers -> VerifType]
    BY <1>7, GoesTypes DEF PurgeNonce, PurgeAttempts, ConsumeNonce, ClearAttempts, VerifStates
  <2> QED BY <1>7, <2>1 DEF PurgeNonce, PurgeAttempts, ConsumeNonce, ClearAttempts, AuthTypes, NoNonce, NoAttempts
<1>8. ASSUME NEW v \in Verifiers, CutOff(v) PROVE AuthTypes'
  <2>1. verif' \in [Verifiers -> VerifType]
    BY <1>8, GoesTypes DEF CutOff, VerifStates
  <2> QED BY <1>8, <2>1 DEF CutOff, AuthTypes
<1>9. CASE UNCHANGED authVars
  BY <1>9 DEF authVars, AuthTypes
<1> QED BY <1>1, <1>2, <1>3, <1>4, <1>5, <1>6, <1>7, <1>8, <1>9 DEF AuthNext, VerifyStep

(* The failure counter.  Whoever leaves the wait for its expiry has set one. *)
LEMMA CounterStep == AuthIInv /\ [AuthNext]_authVars => (ArmsForAWhile /\ AuthInv)'
<1> SUFFICES ASSUME AuthIInv, [AuthNext]_authVars PROVE ArmsForAWhile' /\ LockoutPending' /\ FailuresFade'
  BY DEF AuthInv
<1> USE DEF ArmsForAWhile, LockoutPending, FailuresFade
<1>0. AuthTypes /\ ArmsForAWhile /\ LockoutPending /\ FailuresFade
  BY DEF AuthIInv, AuthInv
<1>1. CASE IssueNonce \/ UNCHANGED authVars
  BY <1>0, <1>1 DEF IssueNonce, authVars
<1>2. CASE AuthTick
  BY <1>0, <1>2 DEF AuthTick, AuthTypes, NoAttempts
<1>3. ASSUME NEW v \in Verifiers, Present(v) PROVE ArmsForAWhile' /\ LockoutPending' /\ FailuresFade'
  <2>1. PICK n \in 1..lastNonce, at \in {"refused", "consume", "count"} :
          verif' = [verif EXCEPT ![v] = [at |-> at, nonce |-> n, ttl |-> 0]]
    BY <1>3 DEF Present
  <2>2. verif'[v].at = at /\ \A w \in Verifiers \ {v} : verif'[w] = verif[w]
    BY <1>0, <2>1 DEF AuthTypes
  <2>3. verif[v].at = "none" /\ UNCHANGED <<attempts, authLost>>
    BY <1>3 DEF Present
  <2> QED BY <1>0, <2>2, <2>3
<1>4. ASSUME NEW v \in Verifiers, CountFailure(v) PROVE ArmsForAWhile' /\ LockoutPending' /\ FailuresFade'
  <2>1. verif[v].at = "count" /\ attempts' = [attempts EXCEPT !.n = @ + 1] /\ UNCHANGED authLost
    BY <1>4 DEF CountFailure
  <2>2. attempts'.n = attempts.n + 1 /\ attempts'.ttl = attempts.ttl /\ attempts.n \in Nat
    BY <1>0, <2>1 DEF AuthTypes
  <2>3. /\ \A w \in Verifiers \ {v} : verif'[w] = verif[w]
        /\ verif'[v].at = IF attempts.n = 0 THEN "ttl" ELSE IF attempts.n + 1 >= MaxAttempts THEN "purge" ELSE "refused"
    <3>1. CASE attempts.n = 0
      <4>1. Goes(v, "ttl")
        BY <1>4, <3>1 DEF CountFailure, IsFirst, AtLimit
      <4> QED BY <1>0, <3>1, <4>1, GoesTypes DEF VerifStates
    <3>2. CASE attempts.n # 0 /\ attempts.n + 1 >= MaxAttempts
      <4>1. Goes(v, "purge")
        BY <1>4, <2>2, <3>2 DEF CountFailure, IsFirst, AtLimit
      <4> QED BY <1>0, <3>2, <4>1, GoesTypes DEF VerifStates
    <3>3. CASE attempts.n # 0 /\ ~(attempts.n + 1 >= MaxAttempts)
      <4>1. Goes(v, "refused")
        BY <1>4, <2>2, <3>3 DEF CountFailure, IsFirst, AtLimit
      <4> QED BY <1>0, <3>3, <4>1, GoesTypes DEF VerifStates
    <3> QED BY <3>1, <3>2, <3>3
  <2>4. ArmsForAWhile'
    BY <1>0, <2>3
  <2>5. LockoutPending'
    BY <1>0, <2>1, <2>2, <2>3
  <2>6. FailuresFade'
    BY <1>0, <2>1, <2>2, <2>3
  <2> QED BY <2>4, <2>5, <2>6
<1>5. ASSUME NEW v \in Verifiers, ReadNonceTtl(v) PROVE ArmsForAWhile' /\ LockoutPending' /\ FailuresFade'
  <2>2. verif'[v].at = "arm" /\ verif'[v].ttl > 0 /\ \A w \in Verifiers \ {v} : verif'[w] = verif[w]
    BY <1>0, <1>5, ReadTtlTypes
  <2>3. verif[v].at = "ttl" /\ UNCHANGED <<attempts, authLost>>
    BY <1>5 DEF ReadNonceTtl
  <2> QED BY <1>0, <2>2, <2>3
<1>6. ASSUME NEW v \in Verifiers, ArmAttempts(v) PROVE ArmsForAWhile' /\ LockoutPending' /\ FailuresFade'
  <2>1. Goes(v, "refused") /\ verif[v].at = "arm" /\ UNCHANGED authLost
    BY <1>6 DEF ArmAttempts, AtLimit
  <2>2. verif'[v].at = "refused" /\ \A w \in Verifiers \ {v} : verif'[w] = verif[w]
    BY <1>0, <2>1, GoesTypes DEF VerifStates
  <2>3. verif[v].ttl > 0 /\ verif[v].ttl \in Nat
    BY <1>0, <2>1 DEF AuthTypes, VerifType
  <2>4. attempts'.n = attempts.n /\ (attempts.n # 0 => attempts'.ttl > 0) /\ attempts.n \in Nat
    BY <1>0, <1>6, <2>3 DEF ArmAttempts, AuthTypes
  <2> QED BY <1>0, <2>1, <2>2, <2>4
<1>7. ASSUME NEW v \in Verifiers, PurgeNonce(v) \/ ConsumeNonce(v) PROVE ArmsForAWhile' /\ LockoutPending' /\ FailuresFade'
  <2>1. \/ verif[v].at = "purge" /\ Goes(v, "purge2")
        \/ verif[v].at = "consume" /\ Goes(v, "clear")
    BY <1>7 DEF PurgeNonce, ConsumeNonce
  <2>2. /\ \A w \in Verifiers \ {v} : verif'[w] = verif[w]
        /\ \/ verif[v].at = "purge" /\ verif'[v].at = "purge2"
           \/ verif[v].at = "consume" /\ verif'[v].at = "clear"
    BY <1>0, <2>1, GoesTypes DEF VerifStates
  <2>3. UNCHANGED <<attempts, authLost>>
    BY <1>7 DEF PurgeNonce, ConsumeNonce
  <2> QED BY <1>0, <2>2, <2>3
<1>8. ASSUME NEW v \in Verifiers, PurgeAttempts(v) \/ ClearAttempts(v) PROVE ArmsForAWhile' /\ LockoutPending' /\ FailuresFade'
  <2>1. Goes(v, "refused") \/ Goes(v, "token")
    BY <1>8 DEF PurgeAttempts, ClearAttempts
  <2>2. verif'[v].at # "arm" /\ \A w \in Verifiers \ {v} : verif'[w] = verif[w]
    BY <1>0, <2>1, GoesTypes DEF VerifStates
  <2>3. attempts'.n = 0
    BY <1>8 DEF PurgeAttempts, ClearAttempts, NoAttempts
  <2> QED BY <1>0, <2>2, <2>3
<1>9. ASSUME NEW v \in Verifiers, CutOff(v) PROVE ArmsForAWhile' /\ LockoutPending' /\ FailuresFade'
  <2>1. verif'[v].at = "cut" /\ \A w \in Verifiers \ {v} : verif'[w] = verif[w]
    BY <1>0, <1>9, GoesTypes DEF CutOff, VerifStates
  <2>2. UNCHANGED attempts /\ authLost' = (authLost \/ verif[v].at \in {"ttl", "arm", "purge", "purge2"})
    BY <1>9 DEF CutOff
  <2> QED BY <1>0, <2>1, <2>2
<1> QED BY <1>1, <1>2, <1>3, <1>4, <1>5, <1>6, <1>7, <1>8, <1>9 DEF AuthNext, VerifyStep

(* With a limit of at least two, a failure counter at its limit has somebody about to remove the *)
(* nonce, and one without expiry somebody about to set it, unless a verification was cut off.   *)
THEOREM AuthSound == AuthSpec => []AuthInv
<1>1. AuthIInv /\ [AuthNext]_authVars => AuthIInv'
  BY AuthTypesStep, CounterStep DEF AuthIInv
<1>2. AuthIInv => AuthInv
  BY DEF AuthIInv
<1> QED BY <1>1, <1>2, AuthStarts, PTL DEF AuthSpec

-----------------------------------------------------------------------------
(* Rate limits.  The invariant follows every command of every request.                          *)

HIDE AuthAssumption
USE RateAssumption

GateStates == {"none", "counting", "passed", "429", "503", "uncounted", "dropped"}
Commanded  == UNION {[rules -> {"incr", "expire", "ttl", "done"}] : rules \in SUBSET RuleNames}
Totals     == UNION {[rules -> Nat] : rules \in SUBSET RuleNames}
GateType   == [at : GateStates, route : AllRoutes, who : Callers, step : Commanded, total : Totals]

RateTypes ==
  /\ gate \in [Requests -> GateType]
  /\ counts \in [Keys -> Nat] /\ expiry \in [Keys -> {NoExpiry} \cup (Nat \ {0})]

(* A request is counted under the rules of its route, or under none. *)
CountedByRoute ==
  \A r \in Requests :
    /\ DOMAIN gate[r].total = DOMAIN gate[r].step
    /\ DOMAIN gate[r].step = {} \/ (DOMAIN gate[r].step = RulesFor(gate[r].route) /\ gate[r].route \in Routes)
    /\ gate[r].at = "none" => DOMAIN gate[r].step = {}
    /\ gate[r].at = "counting" => DOMAIN gate[r].step # {}
    /\ Production => gate[r].at # "uncounted"

(* While it is being counted, what is past INCR has a total. *)
TotalsKnown ==
  \A r \in Requests : \A rule \in DOMAIN gate[r].step :
    gate[r].at = "counting" /\ gate[r].step[rule] # "incr" => gate[r].total[rule] >= 1

(* Whoever got through has no command under way. *)
PassedIsSettled ==
  \A r \in Requests : gate[r].at = "passed" =>
    /\ Commands(r) = {}
    /\ gate[r].route # "health" =>
         /\ DOMAIN gate[r].step = RulesFor(gate[r].route)
         /\ \A rule \in RulesFor(gate[r].route) : gate[r].total[rule] \in 1..LimitOf(RuleKey(r, rule))

RateIInv == RateTypes /\ CountedByRoute /\ TotalsKnown /\ PassedIsSettled /\ ExpiryArmed

LEMMA RateIImplies == RateIInv => RateInv
BY DEF RateIInv, RateInv, CountedByRoute, PassedIsSettled, PassMeansCounted

LEMMA EmptyFunctions == [rule \in {} |-> "incr"] \in Commanded /\ [rule \in {} |-> 0] \in Totals
<1>1. [rule \in {} |-> "incr"] \in [{} -> {"incr", "expire", "ttl", "done"}] /\ [rule \in {} |-> 0] \in [{} -> Nat]
  OBVIOUS
<1> QED BY <1>1 DEF Commanded, Totals

LEMMA RateStarts == RateInit => RateIInv
<1> SUFFICES ASSUME RateInit PROVE RateIInv
  OBVIOUS
<1>1. Waiting \in GateType
  BY EmptyFunctions DEF Waiting, GateType, GateStates, AllRoutes
<1>2. RateTypes
  BY <1>1 DEF RateInit, RateTypes, NoExpiry
<1>3. CountedByRoute /\ TotalsKnown /\ PassedIsSettled
  BY DEF RateInit, CountedByRoute, TotalsKnown, PassedIsSettled, Waiting
<1>4. ExpiryArmed
  BY DEF RateInit, ExpiryArmed
<1> QED BY <1>2, <1>3, <1>4 DEF RateIInv

(* A command of a request, and its key. *)
LEMMA CommandOf ==
  ASSUME RateTypes, CountedByRoute, NEW r \in Requests, NEW rule \in DOMAIN gate[r].step
  PROVE  /\ rule \in RuleNames /\ rule \in DOMAIN gate[r].total /\ RuleKey(r, rule) \in Keys
         /\ gate[r].step[rule] \in {"incr", "expire", "ttl", "done"} /\ gate[r].total[rule] \in Nat
<1>1. gate[r].step \in Commanded /\ gate[r].total \in Totals /\ gate[r].who \in Callers
  BY DEF RateTypes, GateType
<1>2. rule \in RuleNames /\ gate[r].step[rule] \in {"incr", "expire", "ttl", "done"}
  BY <1>1 DEF Commanded
<1>3. rule \in DOMAIN gate[r].total /\ gate[r].route \in Routes
  BY DEF CountedByRoute
<1>4. gate[r].total[rule] \in Nat
  BY <1>1, <1>3 DEF Totals
<1> QED BY <1>1, <1>2, <1>3, <1>4 DEF RuleKey, Keys

(* One command of one request moves on. *)
LEMMA StepMoves ==
  ASSUME NEW f \in Commanded, NEW rule \in DOMAIN f, NEW c \in {"incr", "expire", "ttl", "done"}
  PROVE  /\ [f EXCEPT ![rule] = c] \in Commanded /\ DOMAIN [f EXCEPT ![rule] = c] = DOMAIN f
         /\ [f EXCEPT ![rule] = c][rule] = c /\ \A u \in DOMAIN f \ {rule} : [f EXCEPT ![rule] = c][u] = f[u]
BY DEF Commanded

LEMMA TotalMoves ==
  ASSUME NEW f \in Totals, NEW rule \in DOMAIN f, NEW n \in Nat
  PROVE  /\ [f EXCEPT ![rule] = n] \in Totals /\ DOMAIN [f EXCEPT ![rule] = n] = DOMAIN f
         /\ [f EXCEPT ![rule] = n][rule] = n /\ \A u \in DOMAIN f \ {rule} : [f EXCEPT ![rule] = n][u] = f[u]
BY DEF Totals

(* The gate after one command: the request's place, its total and its step may change, nothing else. *)
GateMoved(r, rule, at, n, c) ==
  gate' = [gate EXCEPT ![r] = [gate[r] EXCEPT !.at = at, !.total = [gate[r].total EXCEPT ![rule] = n],
                                               !.step = [gate[r].step EXCEPT ![rule] = c]]]

LEMMA MovedTypes ==
  ASSUME RateTypes, CountedByRoute, NEW r \in Requests, NEW rule \in DOMAIN gate[r].step, NEW at \in GateStates, NEW n \in Nat,
         NEW c \in {"incr", "expire", "ttl", "done"}, GateMoved(r, rule, at, n, c)
  PROVE  /\ gate' \in [Requests -> GateType] /\ \A q \in Requests \ {r} : gate'[q] = gate[q]
         /\ gate'[r].at = at /\ gate'[r].route = gate[r].route /\ gate'[r].who = gate[r].who
         /\ DOMAIN gate'[r].step = DOMAIN gate[r].step /\ DOMAIN gate'[r].total = DOMAIN gate[r].total
         /\ gate'[r].step[rule] = c /\ gate'[r].total[rule] = n
         /\ \A u \in DOMAIN gate[r].step \ {rule} : gate'[r].step[u] = gate[r].step[u] /\ gate'[r].total[u] = gate[r].total[u]
<1>1. /\ gate[r].step \in Commanded /\ gate[r].total \in Totals /\ gate[r] \in GateType
      /\ rule \in DOMAIN gate[r].total /\ DOMAIN gate[r].total = DOMAIN gate[r].step
  BY DEF RateTypes, GateType, CountedByRoute
<1> DEFINE s == [gate[r].step EXCEPT ![rule] = c]
           t == [gate[r].total EXCEPT ![rule] = n]
<1>2. /\ s \in Commanded /\ DOMAIN s = DOMAIN gate[r].step /\ s[rule] = c
      /\ \A u \in DOMAIN gate[r].step \ {rule} : s[u] = gate[r].step[u]
  BY <1>1, StepMoves
<1>3. /\ t \in Totals /\ DOMAIN t = DOMAIN gate[r].total /\ t[rule] = n
      /\ \A u \in DOMAIN gate[r].step \ {rule} : t[u] = gate[r].total[u]
  BY <1>1, TotalMoves
<1>4. gate' = [gate EXCEPT ![r] = [gate[r] EXCEPT !.at = at, !.total = t, !.step = s]]
  BY DEF GateMoved
<1> HIDE DEF s, t
<1>5. gate'[r] = [at |-> at, route |-> gate[r].route, who |-> gate[r].who, step |-> s, total |-> t]
  <2>1. gate'[r] = [gate[r] EXCEPT !.at = at, !.total = t, !.step = s]
    BY <1>4 DEF RateTypes
  <2> QED BY <1>1, <2>1 DEF GateType
<1>6. gate'[r] \in GateType
  BY <1>1, <1>2, <1>3, <1>5 DEF GateType
<1>7. gate' \in [Requests -> GateType] /\ \A q \in Requests \ {r} : gate'[q] = gate[q]
  BY <1>4, <1>6 DEF RateTypes
<1> QED BY <1>2, <1>3, <1>5, <1>7

LEMMA CommandMoves ==
  ASSUME RateTypes, CountedByRoute, NEW r \in Requests, NEW rule \in Commands(r)
  PROVE  /\ Incr(r, rule) => GateMoved(r, rule, gate[r].at, counts[RuleKey(r, rule)] + 1, AfterIncr(counts[RuleKey(r, rule)]))
         /\ Expire(r, rule) => GateMoved(r, rule, gate[r].at, gate[r].total[rule], "ttl")
         /\ ReadTtl(r, rule) => GateMoved(r, rule, gate[r].at, gate[r].total[rule], "done")
         /\ CommandFails(r, rule) => GateMoved(r, rule, IF gate[r].at = "counting" THEN Unavailable ELSE gate[r].at,
                                           gate[r].total[rule], "done")
<1>1. /\ gate[r].step \in Commanded /\ gate[r].total \in Totals /\ gate[r] \in GateType
      /\ rule \in DOMAIN gate[r].total /\ rule \in DOMAIN gate[r].step
  BY DEF RateTypes, GateType, CountedByRoute, Commands
<1>2. [gate[r].total EXCEPT ![rule] = gate[r].total[rule]] = gate[r].total
  BY <1>1 DEF Totals
<1>3. ASSUME NEW at, NEW c, gate' = [gate EXCEPT ![r] = [gate[r] EXCEPT !.at = at, !.step = [gate[r].step EXCEPT ![rule] = c]]]
      PROVE  GateMoved(r, rule, at, gate[r].total[rule], c)
  BY <1>1, <1>2, <1>3 DEF GateMoved, GateType
<1>4. [gate[r] EXCEPT !.at = gate[r].at] = gate[r]
  BY <1>1 DEF GateType
<1>5. ASSUME Incr(r, rule)
      PROVE GateMoved(r, rule, gate[r].at, counts[RuleKey(r, rule)] + 1, AfterIncr(counts[RuleKey(r, rule)]))
  BY <1>1, <1>5 DEF Incr, GateMoved, GateType, RateTypes
<1>6. ASSUME Expire(r, rule) PROVE GateMoved(r, rule, gate[r].at, gate[r].total[rule], "ttl")
  BY <1>1, <1>3, <1>6 DEF Expire, GateType, RateTypes
<1>7. ASSUME ReadTtl(r, rule) PROVE GateMoved(r, rule, gate[r].at, gate[r].total[rule], "done")
  BY <1>1, <1>3, <1>7 DEF ReadTtl, GateType, RateTypes
<1>8. ASSUME CommandFails(r, rule)
      PROVE  GateMoved(r, rule, IF gate[r].at = "counting" THEN Unavailable ELSE gate[r].at, gate[r].total[rule], "done")
  BY <1>1, <1>3, <1>8 DEF CommandFails, GateType, RateTypes
<1> QED BY <1>5, <1>6, <1>7, <1>8

GateSound == CountedByRoute /\ TotalsKnown /\ PassedIsSettled

LEMMA MovedKeeps ==
  ASSUME RateTypes, GateSound, NEW r \in Requests, NEW rule \in Commands(r), NEW at \in GateStates, NEW n \in Nat,
         NEW c \in {"expire", "ttl", "done"}, GateMoved(r, rule, at, n, c),
         at = gate[r].at \/ at = Unavailable, at = "counting" => n >= 1
  PROVE  GateSound' /\ gate' \in [Requests -> GateType]
<1>1. rule \in DOMAIN gate[r].step /\ gate[r].at # "none" /\ gate[r].at # "passed"
  BY DEF GateSound, CountedByRoute, PassedIsSettled, Commands
<1>2. /\ gate' \in [Requests -> GateType] /\ \A q \in Requests \ {r} : gate'[q] = gate[q]
      /\ gate'[r].at = at /\ gate'[r].route = gate[r].route /\ gate'[r].who = gate[r].who
      /\ DOMAIN gate'[r].step = DOMAIN gate[r].step /\ DOMAIN gate'[r].total = DOMAIN gate[r].total
      /\ gate'[r].step[rule] = c /\ gate'[r].total[rule] = n
      /\ \A u \in DOMAIN gate[r].step \ {rule} : gate'[r].step[u] = gate[r].step[u] /\ gate'[r].total[u] = gate[r].total[u]
  BY <1>1, MovedTypes DEF GateSound
<1>3. at \notin {"none", "passed"} /\ (at = "counting" => gate[r].at = "counting") /\ (Production => at # "uncounted")
  BY <1>1 DEF Unavailable, GateSound, CountedByRoute
<1>4. CountedByRoute'
  BY <1>1, <1>2, <1>3 DEF GateSound, CountedByRoute
<1>5. TotalsKnown'
  BY <1>2, <1>3 DEF GateSound, TotalsKnown
<1>6. PassedIsSettled'
  BY <1>2, <1>3 DEF GateSound, PassedIsSettled, Commands, RuleKey
<1> QED BY <1>2, <1>4, <1>5, <1>6 DEF GateSound

(* Which counters have an expiry, or somebody about to set one. *)
Armed(k) ==
  \/ counts[k] = 0 \/ expiry[k] # NoExpiry \/ k \in orphaned
  \/ \E r \in Requests : \E rule \in Commands(r) : RuleKey(r, rule) = k /\ gate[r].step[rule] = "expire"

LEMMA ArmedMeans == RateTypes => (ExpiryArmed <=> \A k \in Keys : Armed(k))
BY DEF RateTypes, ExpiryArmed, Armed

LEMMA ArmedAgain == RateTypes' => (ExpiryArmed' <=> \A k \in Keys : Armed(k)')
BY DEF RateTypes, ExpiryArmed, Armed

(* After one command, a key whose counter, expiry and record are as they were is armed as it was, *)
(* unless the command was the EXPIRE of this key.                                               *)
LEMMA StaysArmed ==
  ASSUME RateTypes, CountedByRoute, NEW r \in Requests, NEW rule \in Commands(r), NEW at \in GateStates, NEW n \in Nat,
         NEW c \in {"expire", "ttl", "done"}, GateMoved(r, rule, at, n, c),
         NEW k \in Keys, Armed(k), counts'[k] = counts[k] \/ counts[k] # 0, expiry'[k] = expiry[k] \/ expiry'[k] # NoExpiry,
         orphaned \subseteq orphaned',
         k = RuleKey(r, rule) => gate[r].step[rule] # "expire"
  PROVE  Armed(k)'
<1>1. rule \in DOMAIN gate[r].step
  BY DEF Commands
<1>2. /\ \A q \in Requests \ {r} : gate'[q] = gate[q]
      /\ gate'[r].route = gate[r].route /\ gate'[r].who = gate[r].who
      /\ DOMAIN gate'[r].step = DOMAIN gate[r].step
      /\ \A u \in DOMAIN gate[r].step \ {rule} : gate'[r].step[u] = gate[r].step[u]
  BY <1>1, MovedTypes
<1>3. ASSUME NEW q \in Requests, NEW u \in Commands(q), RuleKey(q, u) = k, gate[q].step[u] = "expire"
      PROVE  u \in Commands(q)' /\ RuleKey(q, u)' = k /\ gate'[q].step[u] = "expire"
  BY <1>2, <1>3 DEF Commands, RuleKey
<1>4. CASE \E q \in Requests : \E u \in Commands(q) : RuleKey(q, u) = k /\ gate[q].step[u] = "expire"
  BY <1>3, <1>4 DEF Armed
<1>5. CASE counts[k] = 0 \/ expiry[k] # NoExpiry \/ k \in orphaned
  BY <1>5 DEF Armed
<1> QED BY <1>4, <1>5 DEF Armed

LEMMA CommandKeeps ==
  ASSUME RateIInv, NEW r \in Requests, NEW rule \in Commands(r),
         Incr(r, rule) \/ Expire(r, rule) \/ ReadTtl(r, rule) \/ CommandFails(r, rule)
  PROVE  RateIInv'
<1>0. RateTypes /\ GateSound /\ CountedByRoute /\ ExpiryArmed /\ \A k \in Keys : Armed(k)
  BY ArmedMeans DEF RateIInv, GateSound
<1> DEFINE key == RuleKey(r, rule)
<1>1. /\ rule \in DOMAIN gate[r].step /\ key \in Keys /\ gate[r].total[rule] \in Nat /\ gate[r].at \in GateStates
      /\ Unavailable \in GateStates /\ counts[key] \in Nat
  BY <1>0, CommandOf DEF Commands, RateTypes, GateType, Unavailable, GateStates
<1>2. gate[r].at = "counting" /\ gate[r].step[rule] # "incr" => gate[r].total[rule] >= 1
  BY <1>0, <1>1 DEF GateSound, TotalsKnown
<1> SUFFICES GateSound' /\ RateTypes' /\ \A k \in Keys : Armed(k)'
  BY ArmedAgain DEF RateIInv, GateSound
<1>3. CASE Incr(r, rule)
  <2>1. GateMoved(r, rule, gate[r].at, counts[key] + 1, AfterIncr(counts[key])) /\ AfterIncr(counts[key]) \in {"expire", "ttl", "done"}
    BY <1>0, <1>3, CommandMoves DEF AfterIncr
  <2>2. gate[r].step[rule] = "incr" /\ counts' = [counts EXCEPT ![key] = @ + 1] /\ UNCHANGED <<expiry, orphaned>>
    BY <1>3 DEF Incr
  <2>3. GateSound' /\ gate' \in [Requests -> GateType]
    BY <1>0, <1>1, <2>1, MovedKeeps
  <2>4. RateTypes'
    BY <1>0, <1>1, <2>2, <2>3 DEF RateTypes
  <2>5. ASSUME NEW k \in Keys PROVE Armed(k)'
    <3>1. CASE k = key /\ counts[key] = 0
      <4>1. rule \in Commands(r)' /\ RuleKey(r, rule)' = k /\ gate'[r].step[rule] = "expire"
        BY <1>0, <1>1, <2>1, <3>1, MovedTypes DEF Commands, RuleKey, AfterIncr
      <4> QED BY <4>1 DEF Armed
    <3>2. CASE ~(k = key /\ counts[key] = 0)
      <4>1. counts'[k] = counts[k] \/ counts[k] # 0
        BY <1>0, <2>2, <3>2 DEF RateTypes
      <4> QED BY <1>0, <1>1, <2>1, <2>2, <4>1, StaysArmed
    <3> QED BY <3>1, <3>2
  <2> QED BY <2>3, <2>4, <2>5
<1>4. CASE Expire(r, rule)
  <2>1. GateMoved(r, rule, gate[r].at, gate[r].total[rule], "ttl")
    BY <1>0, <1>4, CommandMoves
  <2>2. gate[r].step[rule] = "expire" /\ expiry' = [expiry EXCEPT ![key] = Window] /\ UNCHANGED <<counts, orphaned>>
    BY <1>4 DEF Expire
  <2>3. GateSound' /\ gate' \in [Requests -> GateType]
    BY <1>0, <1>1, <1>2, <2>1, <2>2, MovedKeeps
  <2>4. RateTypes'
    BY <1>0, <1>1, <2>2, <2>3 DEF RateTypes
  <2>5. ASSUME NEW k \in Keys PROVE Armed(k)'
    <3>1. CASE k = key
      BY <1>0, <1>1, <2>2, <3>1 DEF Armed, RateTypes, NoExpiry
    <3>2. CASE k # key
      <4>1. expiry'[k] = expiry[k]
        BY <1>0, <2>2, <3>2 DEF RateTypes
      <4> QED BY <1>0, <1>1, <2>1, <2>2, <3>2, <4>1, StaysArmed
    <3> QED BY <3>1, <3>2
  <2> QED BY <2>3, <2>4, <2>5
<1>5. CASE ReadTtl(r, rule)
  <2>1. GateMoved(r, rule, gate[r].at, gate[r].total[rule], "done")
    BY <1>0, <1>5, CommandMoves
  <2>2. gate[r].step[rule] = "ttl" /\ UNCHANGED <<counts, expiry, orphaned>>
    BY <1>5 DEF ReadTtl
  <2>3. GateSound' /\ gate' \in [Requests -> GateType]
    BY <1>0, <1>1, <1>2, <2>1, <2>2, MovedKeeps
  <2>4. RateTypes'
    BY <1>0, <2>2, <2>3 DEF RateTypes
  <2>5. ASSUME NEW k \in Keys PROVE Armed(k)'
    BY <1>0, <1>1, <2>1, <2>2, StaysArmed
  <2> QED BY <2>3, <2>4, <2>5
<1>6. CASE CommandFails(r, rule)
  <2> DEFINE at == IF gate[r].at = "counting" THEN Unavailable ELSE gate[r].at
  <2>1. GateMoved(r, rule, at, gate[r].total[rule], "done") /\ at \in GateStates /\ at # "counting"
    BY <1>0, <1>1, <1>6, CommandMoves DEF Unavailable
  <2>2. GateSound' /\ gate' \in [Requests -> GateType]
    BY <1>0, <1>1, <2>1, MovedKeeps
  <2>3. PICK ran \in BOOLEAN :
          /\ counts' = IF gate[r].step[rule] = "incr" /\ ran THEN [counts EXCEPT ![key] = @ + 1] ELSE counts
          /\ expiry' = IF gate[r].step[rule] = "expire" /\ ran THEN [expiry EXCEPT ![key] = Window] ELSE expiry
          /\ orphaned' = IF \/ gate[r].step[rule] = "incr" /\ ran /\ counts[key] = 0
                            \/ gate[r].step[rule] = "expire" /\ ~ran
                         THEN orphaned \cup {key} ELSE orphaned
    BY <1>6 DEF CommandFails
  <2>4. counts' \in [Keys -> Nat] /\ expiry' \in [Keys -> {NoExpiry} \cup (Nat \ {0})]
    BY <1>0, <1>1, <2>3 DEF RateTypes
  <2>5. ASSUME NEW k \in Keys PROVE Armed(k)'
    <3>1. CASE k = key /\ gate[r].step[rule] = "expire"
      BY <1>0, <1>1, <2>3, <3>1 DEF Armed, RateTypes, NoExpiry
    <3>2. CASE k = key /\ gate[r].step[rule] = "incr" /\ counts[key] = 0
      BY <1>0, <2>3, <3>2 DEF Armed
    <3>3. CASE ~(k = key /\ gate[r].step[rule] = "expire") /\ ~(k = key /\ gate[r].step[rule] = "incr" /\ counts[key] = 0)
      <4>1. counts'[k] = counts[k] \/ counts[k] # 0
        BY <1>0, <2>3, <3>3 DEF RateTypes
      <4>2. expiry'[k] = expiry[k]
        BY <1>0, <2>3, <3>3 DEF RateTypes
      <4>3. orphaned \subseteq orphaned'
        BY <2>3
      <4> HIDE DEF at
      <4> QED BY <1>0, <1>1, <2>1, <3>3, <4>1, <4>2, <4>3, StaysArmed
    <3> QED BY <3>1, <3>2, <3>3
  <2> QED BY <2>2, <2>4, <2>5 DEF RateTypes
<1> QED BY <1>3, <1>4, <1>5, <1>6

LEMMA RulesAreNames == \A route : RulesOf(route) \subseteq RuleNames /\ (RulesOf(route) = {} \/ RulesOf(route) = RulesFor(route))
BY DEF RulesOf, RulesFor, EndpointRuleFor, RuleNames

LEMMA UseKeeps == ASSUME RateIInv, NEW r \in Requests, Use(r) PROVE RateIInv'
<1>0. RateTypes /\ CountedByRoute /\ TotalsKnown /\ PassedIsSettled /\ ExpiryArmed
  BY DEF RateIInv
<1>1. PICK route \in Routes, who \in Callers :
        gate' = [gate EXCEPT ![r] =
          [at    |-> IF route = "health" THEN "passed" ELSE IF linked THEN "counting" ELSE Unavailable,
           route |-> route, who |-> who,
           step  |-> [rule \in RulesOf(route) |-> "incr"],
           total |-> [rule \in RulesOf(route) |-> 0]]]
  BY DEF Use
<1> DEFINE at == IF route = "health" THEN "passed" ELSE IF linked THEN "counting" ELSE Unavailable
           s == [rule \in RulesOf(route) |-> "incr"]
           t == [rule \in RulesOf(route) |-> 0]
<1>2. s \in Commanded /\ t \in Totals
  <2>1. s \in [RulesOf(route) -> {"incr", "expire", "ttl", "done"}] /\ t \in [RulesOf(route) -> Nat] /\ RulesOf(route) \in SUBSET RuleNames
    BY RulesAreNames
  <2> QED BY <2>1 DEF Commanded, Totals
<1>3. at \in GateStates /\ route \in AllRoutes
  BY DEF GateStates, Unavailable
<1>4. /\ gate'[r].at = at /\ gate'[r].route = route /\ gate'[r].who = who /\ gate'[r].step = s /\ gate'[r].total = t
      /\ gate'[r] \in GateType
  BY <1>0, <1>1, <1>2, <1>3 DEF RateTypes, GateType
<1>5. gate' \in [Requests -> GateType] /\ \A q \in Requests \ {r} : gate'[q] = gate[q]
  BY <1>0, <1>1, <1>4 DEF RateTypes
<1>6. UNCHANGED <<counts, expiry, linked, orphaned>> /\ gate[r].at = "none"
  BY DEF Use
<1>7. RateTypes'
  BY <1>0, <1>5, <1>6 DEF RateTypes
<1>8. CountedByRoute'
  <2>1. /\ DOMAIN gate'[r].total = RulesOf(route) /\ DOMAIN gate'[r].step = RulesOf(route)
        /\ RulesOf(route) = {} \/ RulesOf(route) = RulesFor(route)
        /\ at # "none" /\ (at = "counting" => RulesOf(route) = RulesFor(route)) /\ (Production => at # "uncounted")
    BY <1>4, RulesAreNames DEF RulesOf, Unavailable
  <2>2. RulesFor(route) # {}
    BY DEF RulesFor
  <2> HIDE DEF at
  <2> QED BY <1>0, <1>4, <1>5, <2>1, <2>2 DEF CountedByRoute
<1>9. TotalsKnown'
  BY <1>0, <1>4, <1>5 DEF TotalsKnown
<1>10. PassedIsSettled'
  <2>1. at = "passed" => route = "health"
    BY DEF Unavailable
  <2>2. route = "health" => s = [rule \in {} |-> "incr"]
    BY DEF RulesOf
  <2> HIDE DEF at, s
  <2> QED BY <1>0, <1>4, <1>5, <2>1, <2>2 DEF PassedIsSettled, Commands, RuleKey
<1>11. ExpiryArmed'
  <2>1. DOMAIN gate[r].step = {}
    BY <1>0, <1>6 DEF CountedByRoute
  <2> QED BY <1>0, <1>5, <1>6, <2>1 DEF ExpiryArmed, Commands, RuleKey
<1> QED BY <1>7, <1>8, <1>9, <1>10, <1>11 DEF RateIInv

LEMMA AnswerKeeps == ASSUME RateIInv, NEW r \in Requests, Answer(r) PROVE RateIInv'
<1>0. RateTypes /\ CountedByRoute /\ TotalsKnown /\ PassedIsSettled /\ ExpiryArmed
  BY DEF RateIInv
<1>1. /\ gate[r].at = "counting" /\ Commands(r) = {} /\ UNCHANGED <<counts, expiry, linked, orphaned>>
      /\ gate' = [gate EXCEPT ![r].at = IF Exceeded(r) THEN "429" ELSE "passed"]
  BY DEF Answer
<1>2. /\ gate' \in [Requests -> GateType] /\ \A q \in Requests \ {r} : gate'[q] = gate[q]
      /\ gate'[r].at = (IF Exceeded(r) THEN "429" ELSE "passed")
      /\ gate'[r].route = gate[r].route /\ gate'[r].who = gate[r].who /\ gate'[r].step = gate[r].step /\ gate'[r].total = gate[r].total
  BY <1>0, <1>1 DEF RateTypes, GateType, GateStates
<1>3. RateTypes' /\ CountedByRoute' /\ TotalsKnown' /\ ExpiryArmed'
  BY <1>0, <1>1, <1>2 DEF RateTypes, CountedByRoute, TotalsKnown, ExpiryArmed, Commands, RuleKey
<1>4. ASSUME ~Exceeded(r), NEW rule \in RulesFor(gate[r].route) PROVE gate[r].total[rule] \in 1..LimitOf(RuleKey(r, rule))
  <2>1. rule \in DOMAIN gate[r].step /\ rule \in DOMAIN gate[r].total
    BY <1>0, <1>1, <1>4 DEF CountedByRoute
  <2>2. rule \in RuleNames /\ gate[r].total[rule] \in Nat
    BY <1>0, <2>1, CommandOf
  <2>3. gate[r].step[rule] = "done"
    BY <1>1, <2>1 DEF Commands
  <2>4. gate[r].total[rule] >= 1
    BY <1>0, <1>1, <2>1, <2>3 DEF TotalsKnown
  <2>5. LimitOf(RuleKey(r, rule)) \in Nat
    <3>1. LimitOf(RuleKey(r, rule)) = Limit[<<rule, gate[r].who \in Internal>>]
      BY DEF LimitOf, RuleKey, KeyOf
    <3>2. (gate[r].who \in Internal) \in BOOLEAN
      OBVIOUS
    <3>3. ASSUME NEW b \in BOOLEAN PROVE Limit[<<rule, b>>] \in Nat
      BY <2>2
    <3> QED BY <3>1, <3>2, <3>3, Zenon
  <2> QED BY <1>4, <2>1, <2>2, <2>4, <2>5 DEF Exceeded
<1>5. PassedIsSettled'
  <2>1. ASSUME NEW q \in Requests, q # r, gate'[q].at = "passed"
        PROVE  /\ Commands(q)' = {}
               /\ gate'[q].route # "health" =>
                    /\ DOMAIN gate'[q].step = RulesFor(gate'[q].route)
                    /\ \A rule \in RulesFor(gate'[q].route) : gate'[q].total[rule] \in 1..LimitOf(RuleKey(q, rule)')
    BY <1>0, <1>2, <2>1 DEF PassedIsSettled, Commands, RuleKey
  <2>2. ASSUME gate'[r].at = "passed"
        PROVE  /\ Commands(r)' = {}
               /\ DOMAIN gate'[r].step = RulesFor(gate'[r].route)
               /\ \A rule \in RulesFor(gate'[r].route) : gate'[r].total[rule] \in 1..LimitOf(RuleKey(r, rule)')
    <3>1. ~Exceeded(r)
      BY <1>2, <2>2
    <3>2. \A rule \in RulesFor(gate'[r].route) : gate'[r].total[rule] \in 1..LimitOf(RuleKey(r, rule)')
      BY <1>2, <1>4, <3>1 DEF RuleKey
    <3> QED BY <1>0, <1>1, <1>2, <3>2 DEF Commands, CountedByRoute
  <2> QED BY <2>1, <2>2 DEF PassedIsSettled
<1> QED BY <1>3, <1>5 DEF RateIInv

LEMMA RestartKeeps == RateIInv /\ RateRestart => RateIInv'
<1> SUFFICES ASSUME RateIInv, RateRestart PROVE RateIInv'
  OBVIOUS
<1>0. RateTypes /\ CountedByRoute /\ TotalsKnown /\ PassedIsSettled /\ ExpiryArmed
  BY DEF RateIInv
<1>1. /\ UNCHANGED <<counts, expiry>>
      /\ gate' = [r \in Requests |->
           [gate[r] EXCEPT !.at = IF @ = "counting" THEN "dropped" ELSE @,
                           !.step = [rule \in DOMAIN @ |-> "done"]]]
      /\ orphaned' = orphaned \cup
           UNION {{RuleKey(r, rule) : rule \in {u \in Commands(r) : gate[r].step[u] = "expire"}} : r \in Requests}
  BY DEF RateRestart
<1>2. ASSUME NEW r \in Requests
      PROVE  /\ gate'[r] \in GateType /\ gate'[r].at = (IF gate[r].at = "counting" THEN "dropped" ELSE gate[r].at)
             /\ gate'[r].route = gate[r].route /\ gate'[r].who = gate[r].who /\ gate'[r].total = gate[r].total
             /\ gate'[r].step = [rule \in DOMAIN gate[r].step |-> "done"]
  <2> DEFINE s == [rule \in DOMAIN gate[r].step |-> "done"]
  <2>1. gate[r] \in GateType
    BY <1>0 DEF RateTypes
  <2>2. s \in Commanded
    <3>1. DOMAIN gate[r].step \in SUBSET RuleNames
      BY <2>1 DEF GateType, Commanded
    <3>2. s \in [DOMAIN gate[r].step -> {"incr", "expire", "ttl", "done"}]
      OBVIOUS
    <3> QED BY <3>1, <3>2 DEF Commanded
  <2>3. gate'[r] = [gate[r] EXCEPT !.at = IF gate[r].at = "counting" THEN "dropped" ELSE gate[r].at, !.step = s]
    BY <1>1
  <2> HIDE DEF s
  <2>4. gate'[r] = [at |-> IF gate[r].at = "counting" THEN "dropped" ELSE gate[r].at, route |-> gate[r].route,
                    who |-> gate[r].who, step |-> s, total |-> gate[r].total]
    BY <2>1, <2>3 DEF GateType
  <2> QED BY <2>1, <2>2, <2>4 DEF GateType, GateStates, s
<1>3. RateTypes'
  <2>1. gate' = [r \in Requests |-> gate'[r]]
    BY <1>1
  <2>2. gate' \in [Requests -> GateType]
    BY <1>2, <2>1
  <2> QED BY <1>0, <1>1, <2>2 DEF RateTypes
<1>4. CountedByRoute' /\ TotalsKnown'
  BY <1>0, <1>2 DEF CountedByRoute, TotalsKnown
<1>5. PassedIsSettled'
  <2> SUFFICES ASSUME NEW r \in Requests, gate'[r].at = "passed"
               PROVE  /\ Commands(r)' = {}
                      /\ gate'[r].route # "health" =>
                           /\ DOMAIN gate'[r].step = RulesFor(gate'[r].route)
                           /\ \A rule \in RulesFor(gate'[r].route) : gate'[r].total[rule] \in 1..LimitOf(RuleKey(r, rule)')
    BY DEF PassedIsSettled
  <2>1. Commands(r)' = {}
    BY <1>2 DEF Commands
  <2>2. gate[r].at = "passed"
    BY <1>2
  <2> QED BY <1>0, <1>2, <2>1, <2>2 DEF PassedIsSettled, RuleKey
<1>6. ExpiryArmed'
  <2> SUFFICES ASSUME NEW k \in Keys, counts[k] > 0, expiry[k] = NoExpiry PROVE k \in orphaned'
    BY <1>1 DEF ExpiryArmed
  <2>1. CASE k \in orphaned
    BY <1>1, <2>1
  <2>2. ASSUME NEW r \in Requests, NEW rule \in Commands(r), RuleKey(r, rule) = k, gate[r].step[rule] = "expire" PROVE k \in orphaned'
    <3>1. k \in {RuleKey(r, u) : u \in {u \in Commands(r) : gate[r].step[u] = "expire"}}
      BY <2>2
    <3> QED BY <1>1, <3>1
  <2> QED BY <1>0, <2>1, <2>2 DEF ExpiryArmed
<1> QED BY <1>3, <1>4, <1>5, <1>6 DEF RateIInv

LEMMA RateTickKeeps == RateIInv /\ RateTick => RateIInv'
<1> SUFFICES ASSUME RateIInv, RateTick PROVE RateIInv'
  OBVIOUS
<1>0. RateTypes /\ CountedByRoute /\ TotalsKnown /\ PassedIsSettled /\ ExpiryArmed
  BY DEF RateIInv
<1>1. UNCHANGED gate
  BY DEF RateTick
<1>2. ASSUME NEW k \in Keys
      PROVE  /\ counts'[k] \in {0, counts[k]} /\ expiry'[k] \in {NoExpiry} \cup (Nat \ {0})
             /\ expiry'[k] = NoExpiry /\ counts'[k] > 0 => expiry[k] = NoExpiry /\ counts'[k] = counts[k]
             /\ expiry[k] = NoExpiry => (k \in orphaned' <=> k \in orphaned)
  <2>1. /\ counts'[k] = (IF expiry[k] = 1 THEN 0 ELSE counts[k])
        /\ expiry'[k] = (IF expiry[k] = 1 \/ expiry[k] = NoExpiry THEN NoExpiry ELSE expiry[k] - 1)
        /\ k \in orphaned' <=> k \in orphaned /\ expiry[k] # 1
    BY DEF RateTick
  <2>2. expiry[k] \in {NoExpiry} \cup (Nat \ {0}) /\ counts[k] \in Nat
    BY <1>0 DEF RateTypes
  <2> QED BY <2>1, <2>2 DEF NoExpiry
<1>3. counts' \in [Keys -> Nat] /\ expiry' \in [Keys -> {NoExpiry} \cup (Nat \ {0})]
  <2>1. \A k \in Keys : counts'[k] \in Nat
    BY <1>0, <1>2 DEF RateTypes
  <2> QED BY <1>2, <2>1 DEF RateTick
<1>4. RateTypes' /\ CountedByRoute' /\ TotalsKnown' /\ PassedIsSettled'
  BY <1>0, <1>1, <1>3 DEF RateTypes, CountedByRoute, TotalsKnown, PassedIsSettled, Commands, RuleKey
<1>5. ExpiryArmed'
  BY <1>0, <1>1, <1>2 DEF ExpiryArmed, Commands, RuleKey
<1> QED BY <1>4, <1>5 DEF RateIInv

LEMMA RateSteps == RateIInv /\ [RateNext]_rateVars => RateIInv'
<1> SUFFICES ASSUME RateIInv, [RateNext]_rateVars PROVE RateIInv'
  OBVIOUS
<1>1. CASE UNCHANGED rateVars
  BY <1>1 DEF rateVars, RateIInv, RateTypes, CountedByRoute, TotalsKnown, PassedIsSettled, ExpiryArmed, Commands, RuleKey
<1> QED BY <1>1, UseKeeps, AnswerKeeps, CommandKeeps, RestartKeeps, RateTickKeeps DEF RateNext, RateStep

(* For any requests, routes, callers and limits: no counter is left without expiry but by a lost  *)
(* command, and in production nobody gets through uncounted or above a limit.                   *)
THEOREM RateSound == RateSpec => []RateInv
BY RateStarts, RateSteps, RateIImplies, PTL DEF RateSpec

HIDE RateAssumption
-----------------------------------------------------------------------------
(* The SDK's transactions.  An envelope carries what it was built from: the reading, the share and *)
(* the moment; one that the network applied removed just what it carries, of what it found; and    *)
(* every envelope but the last got an answer that was not a success.                              *)
Methods == {"burn", "remove_liquidity", "mint", "add_liquidity", "collect",
            "exact_input_single", "exact_output_single"}
ContractCalls == [contract : {"pool", "cl_pool", "router"}, method : Methods, args : Int, liquidity : Nat]
CallLists == {s \in Seq(ContractCalls) : Len(s) > 0}

ShareRange == 0..10000
Readings   == Nat \cup {Unread}
Fates      == {"built", "pending", "applied", "dropped"}
Verdicts   == {"none", "unknown", "success", "failed"}
Envelopes  == [calls : CallLists, until : Int, bps : ShareRange, read : Readings, built : Nat,
               at : Fates, answer : Verdicts, applied : Int, found : Int, left : Int]

TxTypes ==
  /\ deployed \in {"pool", "cl_pool"} /\ held \in Nat /\ seen \in Readings /\ txClock \in Nat
  /\ txs \in Seq(Envelopes)

(* What an envelope for the wish w carries. *)
Carries(w, t) ==
  /\ w \notin {"exactIn", "exactOut"} => t.until = t.built + TxTimeout
  /\ w = "burn" => /\ t.calls[1].method \in {"remove_liquidity", "burn"} /\ t.read \in Nat
                   /\ RemovedBy(t) = ShareOf(t.read, t.bps)
  /\ w = "rerange" => RemovedBy(t) = t.read /\ AddedBy(t) = t.read

TookEffect(w, t) ==
  t.at = "applied" => /\ t.applied <= t.until /\ t.left = t.found - RemovedBy(t)
                      /\ w = "burn" => RemovedBy(t) > 0

FailedIsDropped(t) == t.answer = "failed" => t.at = "dropped"

EnvelopesFit == \A i \in DOMAIN txs : Carries(wish, txs[i]) /\ TookEffect(wish, txs[i]) /\ FailedIsDropped(txs[i])
EarlierAnswered == \A i \in DOMAIN txs : i < Len(txs) => txs[i].answer \in {"unknown", "failed"}

TxIInv == TxTypes /\ EnvelopesFit /\ EarlierAnswered

LEMMA TxNumbers == Liquidities \subseteq Nat /\ Shares \subseteq ShareRange
<1>1. Liquidities \subseteq Nat
  BY TxAssumption, SMTT(20)
<1>2. Shares \subseteq ShareRange
  BY TxAssumption DEF ShareRange
<1> QED BY <1>1, <1>2

LEMMA EnvelopeFields ==
  ASSUME NEW t \in Envelopes
  PROVE  /\ t.calls \in CallLists /\ t.until \in Int /\ t.bps \in ShareRange /\ t.read \in Readings /\ t.built \in Nat
         /\ t.at \in Fates /\ t.answer \in Verdicts /\ t.applied \in Int /\ t.found \in Int /\ t.left \in Int
BY DEF Envelopes

SameOrder(s, t) == t.calls = s.calls /\ t.until = s.until /\ t.built = s.built /\ t.read = s.read /\ t.bps = s.bps

(* A share of less than all of something is less than it. *)
LEMMA ShareIsLess ==
  ASSUME NEW n \in Nat, NEW b \in ShareRange
  PROVE  ShareOf(n, b) \in Nat /\ (b < 10000 /\ ShareOf(n, b) > 0 => ShareOf(n, b) < n)
<1> USE DEF ShareRange
<1>1. n * b \in Nat
  OBVIOUS
<1>2. n * 10000 = n * b + n * (10000 - b)
  OBVIOUS
<1>3. b < 10000 /\ n > 0 => n * (10000 - b) > 0
  OBVIOUS
<1>4. n = 0 => n * b = 0
  OBVIOUS
<1> DEFINE p == n * b
           q == n * (10000 - b)
<1>5. p \in Nat /\ (b < 10000 /\ n > 0 => q > 0) /\ n * 10000 = p + q /\ (n = 0 => p = 0) /\ q \in Int
  BY <1>1, <1>2, <1>3, <1>4
<1> HIDE DEF p, q
<1>6. (p \div 10000) \in Nat /\ (b < 10000 /\ p \div 10000 > 0 => p \div 10000 < n)
  BY <1>5
<1> QED BY <1>6 DEF p, ShareOf

LEMMA TxIImplies == TxIInv => TxInv
<1> SUFFICES ASSUME TxIInv PROVE TxInv
  OBVIOUS
<1>1. \A i \in DOMAIN txs : txs[i] \in Envelopes
  BY DEF TxIInv, TxTypes
<1>2. NothingLate
  <2> SUFFICES ASSUME wish \notin {"exactIn", "exactOut"}, NEW i \in Applied
               PROVE  txs[i].applied <= txs[i].built + TxTimeout
    BY DEF NothingLate
  <2> QED BY DEF Applied, TxIInv, EnvelopesFit, Carries, TookEffect
<1>3. PartLeavesSome
  <2> SUFFICES ASSUME NEW i \in Applied, wish = "burn", txs[i].bps < 10000, txs[i].left = 0
               PROVE  txs[i].found < txs[i].read
    BY DEF PartLeavesSome
  <2>1. txs[i] \in Envelopes /\ txs[i].at = "applied" /\ Carries(wish, txs[i]) /\ TookEffect(wish, txs[i])
    BY <1>1 DEF Applied, TxIInv, EnvelopesFit
  <2>2. txs[i].bps \in ShareRange /\ txs[i].found \in Int
    BY <2>1, EnvelopeFields
  <2>3. /\ txs[i].read \in Nat /\ txs[i].left = txs[i].found - RemovedBy(txs[i]) /\ RemovedBy(txs[i]) > 0
        /\ RemovedBy(txs[i]) = ShareOf(txs[i].read, txs[i].bps)
    BY <2>1 DEF Carries, TookEffect
  <2>4. RemovedBy(txs[i]) \in Nat /\ RemovedBy(txs[i]) < txs[i].read
    <3> DEFINE n == txs[i].read
               b == txs[i].bps
    <3>1. n \in Nat /\ b \in ShareRange /\ b < 10000 /\ ShareOf(n, b) > 0 /\ RemovedBy(txs[i]) = ShareOf(n, b)
      BY <2>2, <2>3
    <3> HIDE DEF n, b
    <3>2. ShareOf(n, b) \in Nat /\ ShareOf(n, b) < n
      BY <3>1, ShareIsLess
    <3> QED BY <3>1, <3>2 DEF n
  <2> QED BY <2>2, <2>3, <2>4
<1>4. RerangeKeeps
  <2> SUFFICES ASSUME wish = "rerange", NEW i \in Applied
               PROVE  txs[i].found - txs[i].left = AddedBy(txs[i])
    BY DEF RerangeKeeps
  <2>1. txs[i] \in Envelopes /\ txs[i].at = "applied" /\ Carries(wish, txs[i]) /\ TookEffect(wish, txs[i])
    BY <1>1 DEF Applied, TxIInv, EnvelopesFit
  <2>2. txs[i].found \in Int /\ txs[i].read \in Int
    BY <2>1, EnvelopeFields DEF Readings, Unread
  <2>3. txs[i].left = txs[i].found - txs[i].read /\ AddedBy(txs[i]) = txs[i].read
    BY <2>1 DEF Carries, TookEffect
  <2> QED BY <2>2, <2>3
<1>5. TwiceOnlyBlind
  BY <1>1 DEF TwiceOnlyBlind, Applied, TxIInv, TxTypes, EnvelopesFit, EarlierAnswered, FailedIsDropped
<1> QED BY <1>2, <1>3, <1>4, <1>5 DEF TxInv

(* An envelope is added behind an answered one. *)
LEMMA AppendKeeps ==
  ASSUME TxIInv, MayBuild, NEW t \in Envelopes, txs' = Append(txs, t), wish' = wish,
         UNCHANGED <<deployed, held, seen, txClock>>,
         Carries(wish, t), t.at = "built", t.answer = "none"
  PROVE  TxIInv'
<1>1. txs \in Seq(Envelopes)
  BY DEF TxIInv, TxTypes
<1>2. txs' \in Seq(Envelopes) /\ Len(txs') = Len(txs) + 1
  BY <1>1
<1>3. \A i \in DOMAIN txs' : txs'[i] = IF i \in DOMAIN txs THEN txs[i] ELSE t
  BY <1>1
<1>4. EnvelopesFit'
  <2>1. TookEffect(wish, t) /\ FailedIsDropped(t)
    BY DEF TookEffect, FailedIsDropped
  <2> QED BY <1>3, <2>1 DEF TxIInv, EnvelopesFit
<1>5. EarlierAnswered'
  <2> SUFFICES ASSUME NEW i \in DOMAIN txs', i < Len(txs') PROVE txs'[i].answer \in {"unknown", "failed"}
    BY DEF EarlierAnswered
  <2>1. i \in DOMAIN txs /\ txs'[i] = txs[i] /\ txs[i] \in Envelopes /\ i \in 1..Len(txs)
    BY <1>1, <1>2, <1>3
  <2>2. CASE i < Len(txs)
    BY <2>1, <2>2 DEF TxIInv, EarlierAnswered
  <2>3. CASE i = Len(txs)
    <3>1. txs # <<>> /\ txs[i].answer \notin {"none", "success"}
      BY <1>1, <2>1, <2>3 DEF MayBuild
    <3> QED BY <2>1, <3>1, EnvelopeFields DEF Verdicts
  <2> QED BY <1>1, <2>1, <2>2, <2>3
<1> QED BY <1>2, <1>4, <1>5 DEF TxIInv, TxTypes

(* One envelope changes, and what it was built from does not. *)
LEMMA ChangeKeeps ==
  ASSUME TxIInv, NEW i \in DOMAIN txs, NEW t \in Envelopes, txs' = [txs EXCEPT ![i] = t], wish' = wish,
         UNCHANGED <<deployed, seen, txClock>>, held' \in Nat,
         Carries(wish, t), TookEffect(wish, t), FailedIsDropped(t),
         t.answer = txs[i].answer \/ t.answer = "unknown" \/ txs[i].answer = "none"
  PROVE  TxIInv'
<1>1. txs \in Seq(Envelopes)
  BY DEF TxIInv, TxTypes
<1>2. txs' \in Seq(Envelopes) /\ Len(txs') = Len(txs) /\ DOMAIN txs' = DOMAIN txs
  BY <1>1
<1>3. \A k \in DOMAIN txs : txs'[k] = IF k = i THEN t ELSE txs[k]
  BY <1>1
<1>4. EnvelopesFit'
  BY <1>2, <1>3 DEF TxIInv, EnvelopesFit
<1>5. EarlierAnswered'
  BY <1>2, <1>3 DEF TxIInv, EarlierAnswered
<1> QED BY <1>2, <1>4, <1>5 DEF TxIInv, TxTypes

(* What an envelope carries depends only on what it was built from. *)
LEMMA CarriesAgain ==
  ASSUME NEW w, NEW s, NEW t, SameOrder(s, t)
  PROVE  /\ Carries(w, s) => Carries(w, t)
         /\ RemovedBy(t) = RemovedBy(s)
BY DEF Carries, RemovedBy, AddedBy, SameOrder

LEMMA BuildKeeps ==
  ASSUME TxIInv, NEW kind, NEW calls \in CallLists, NEW until \in Int, NEW bps \in ShareRange,
         Build(kind, calls, until, bps), Carries(kind, Tx(calls, until, bps))
  PROVE  TxIInv'
<1> DEFINE t == Tx(calls, until, bps)
<1>1. t \in Envelopes /\ t.at = "built" /\ t.answer = "none"
  BY DEF Tx, Envelopes, Fates, Verdicts, TxIInv, TxTypes
<1>2. txs' = Append(txs, t) /\ wish = kind /\ MayBuild /\ UNCHANGED <<deployed, held, seen, wish, txClock>>
  BY DEF Build
<1> HIDE DEF t
<1> QED BY <1>1, <1>2, AppendKeeps DEF t

LEMMA BuildsKeep ==
  ASSUME TxIInv, NEW type,
         \/ \E bps \in Shares : BuildBurnTx(bps, type)
         \/ BuildCollectTx(type) \/ BuildRerangeTx(type)
         \/ \E n \in Liquidities : BuildAddLiquidityTx(n, type)
  PROVE  TxIInv'
<1>1. seen \in Readings /\ txClock + TxTimeout \in Int /\ 0 \in ShareRange /\ deployed \in {"pool", "cl_pool"}
  BY TxAssumption DEF TxIInv, TxTypes, ShareRange
<1>2. ASSUME NEW bps \in Shares, BuildBurnTx(bps, type) PROVE TxIInv'
  <2> DEFINE n == ShareOf(seen, bps)
             c == RemoveCall(type, n)
  <2>0. seen \in Nat /\ bps \in ShareRange
    <3>1. seen \in Nat
      BY <1>1, <1>2 DEF BuildBurnTx, Readings
    <3> QED BY <3>1, TxNumbers
  <2>1. n \in Nat
    BY <2>0, ShareIsLess
  <2> HIDE DEF n
  <2>2. c \in ContractCalls /\ c.liquidity = n /\ c.method \in {"remove_liquidity", "burn"}
    BY <1>1, <2>1 DEF RemoveCall, Call, ContractCalls, Methods
  <2> HIDE DEF c
  <2>3. <<c>> \in CallLists
    BY <2>2 DEF CallLists
  <2>4. Carries("burn", Tx(<<c>>, txClock + TxTimeout, bps))
    BY <2>0, <2>2 DEF Tx, Carries, RemovedBy, n
  <2>5. Build("burn", <<c>>, txClock + TxTimeout, bps)
    BY <1>2 DEF BuildBurnTx, c, n
  <2> QED BY <1>1, <2>0, <2>3, <2>4, <2>5, BuildKeeps
<1>3. ASSUME BuildCollectTx(type) PROVE TxIInv'
  <2> DEFINE c == CollectCall(type)
  <2>1. c \in ContractCalls
    BY <1>1 DEF CollectCall, Call, ContractCalls, Methods
  <2> HIDE DEF c
  <2>2. <<c>> \in CallLists
    BY <2>1 DEF CallLists
  <2>3. Carries("collect", Tx(<<c>>, txClock + TxTimeout, 0))
    BY DEF Tx, Carries
  <2>4. Build("collect", <<c>>, txClock + TxTimeout, 0)
    BY <1>3 DEF BuildCollectTx, c
  <2> QED BY <1>1, <2>2, <2>3, <2>4, BuildKeeps
<1>4. ASSUME BuildRerangeTx(type) PROVE TxIInv'
  <2> DEFINE c == RemoveCall(type, seen)
             d == AddCall(type, seen)
  <2>1. seen \in Nat
    BY <1>1, <1>4 DEF BuildRerangeTx, Readings, Unread
  <2>2. c \in ContractCalls /\ c.liquidity = seen /\ c.method \in {"remove_liquidity", "burn"}
    BY <1>1, <2>1 DEF RemoveCall, Call, ContractCalls, Methods
  <2>3. d \in ContractCalls /\ d.liquidity = seen /\ d.method \in {"add_liquidity", "mint"}
    BY <1>1, <2>1 DEF AddCall, Call, ContractCalls, Methods
  <2> HIDE DEF c, d
  <2>4. <<c, d>> \in CallLists /\ Len(<<c, d>>) = 2 /\ <<c, d>>[1] = c /\ <<c, d>>[2] = d
    BY <2>2, <2>3 DEF CallLists
  <2> DEFINE s == <<c, d>>
  <2> HIDE DEF s
  <2>5. s \in CallLists /\ Len(s) = 2 /\ s[1] = c /\ s[2] = d
    BY <2>4 DEF s
  <2>6. Carries("rerange", Tx(s, txClock + TxTimeout, 0))
    BY <2>2, <2>3, <2>5 DEF Tx, Carries, RemovedBy, AddedBy
  <2>7. Build("rerange", s, txClock + TxTimeout, 0)
    BY <1>4 DEF BuildRerangeTx, c, d, s
  <2> QED BY <1>1, <2>5, <2>6, <2>7, BuildKeeps
<1>5. ASSUME NEW n \in Liquidities, BuildAddLiquidityTx(n, type) PROVE TxIInv'
  <2> DEFINE c == AddCall(type, n)
  <2>0. n \in Nat
    BY TxNumbers
  <2>1. c \in ContractCalls
    BY <1>1, <2>0 DEF AddCall, Call, ContractCalls, Methods
  <2> HIDE DEF c
  <2>2. <<c>> \in CallLists
    BY <2>1 DEF CallLists
  <2>3. Carries("add", Tx(<<c>>, txClock + TxTimeout, 0))
    BY DEF Tx, Carries
  <2>4. Build("add", <<c>>, txClock + TxTimeout, 0)
    BY <1>5 DEF BuildAddLiquidityTx, c
  <2> QED BY <1>1, <2>2, <2>3, <2>4, BuildKeeps
<1> QED BY <1>2, <1>3, <1>4, <1>5

LEMMA SwapBuildsKeep ==
  ASSUME TxIInv, NEW deadline \in {txClock + SwapDeadline, MaxTxTime},
         BuildSwapTx(deadline) \/ BuildExactOutputSwapTx(deadline)
  PROVE  TxIInv'
<1>1. deadline \in Int /\ 0 \in ShareRange
  BY TxAssumption DEF TxIInv, TxTypes, ShareRange
<1> DEFINE c == Call("router", "exact_input_single", 8, 0)
           d == Call("router", "exact_output_single", 1, 0)
<1>2. c \in ContractCalls /\ d \in ContractCalls
  BY DEF Call, ContractCalls, Methods
<1> HIDE DEF c, d
<1>3. <<c>> \in CallLists /\ <<d>> \in CallLists
  BY <1>2 DEF CallLists
<1>4. CASE BuildSwapTx(deadline)
  <2>1. Build("exactIn", <<c>>, deadline, 0) /\ Carries("exactIn", Tx(<<c>>, deadline, 0))
    BY <1>4 DEF BuildSwapTx, Carries, c
  <2> QED BY <1>1, <1>3, <2>1, BuildKeeps
<1>5. CASE BuildExactOutputSwapTx(deadline)
  <2>1. Build("exactOut", <<d>>, deadline, 0) /\ Carries("exactOut", Tx(<<d>>, deadline, 0))
    BY <1>5 DEF BuildExactOutputSwapTx, Carries, d
  <2> QED BY <1>1, <1>3, <2>1, BuildKeeps
<1> QED BY <1>4, <1>5

(* The life of one envelope. *)
LEMMA FateKeeps ==
  ASSUME TxIInv, NEW i \in DOMAIN txs, Submit(i) \/ Include(i) \/ Refuse(i) \/ Respond(i)
  PROVE  TxIInv'
<1>0. PICK s : s = txs[i]
  OBVIOUS
<1>1. /\ s \in Envelopes /\ Carries(wish, s) /\ TookEffect(wish, s) /\ FailedIsDropped(s)
      /\ held \in Nat /\ txClock \in Nat /\ txs \in Seq(Envelopes)
  BY <1>0 DEF TxIInv, TxTypes, EnvelopesFit
<1>2. UNCHANGED <<deployed, seen, txClock, wish>>
  BY DEF Submit, Include, Refuse, Respond
<1>3. s.at \in Fates /\ s.answer \in Verdicts
  BY <1>1, EnvelopeFields
<1>4. ASSUME NEW at \in Fates, NEW answer \in Verdicts, s.at # "applied", at # "applied",
             txs' = [txs EXCEPT ![i] = [s EXCEPT !.at = at, !.answer = answer]], held' = held,
             answer \in {s.answer, "unknown"}, s.at # "dropped"
      PROVE  TxIInv'
  <2>0. PICK t : t = [s EXCEPT !.at = at, !.answer = answer]
    OBVIOUS
  <2>1. t \in Envelopes /\ SameOrder(s, t) /\ t.at = at /\ t.answer = answer
    <3>1. s \in Envelopes
      BY <1>1
    <3> QED BY <2>0, <3>1 DEF Envelopes, SameOrder
  <2>2. Carries(wish, t) /\ TookEffect(wish, t) /\ FailedIsDropped(t)
    BY <1>1, <1>4, <2>1, CarriesAgain DEF TookEffect, FailedIsDropped
  <2>3. txs' = [txs EXCEPT ![i] = t] /\ held' \in Nat
    BY <1>1, <1>4, <2>0
  <2> QED BY <1>0, <1>2, <1>4, <2>1, <2>2, <2>3, ChangeKeeps
<1>5. CASE Submit(i) \/ Refuse(i)
  <2>1. s.at \in {"built", "pending"} /\ held' = held /\ "pending" \in Fates /\ "dropped" \in Fates /\ "unknown" \in Verdicts
    BY <1>0, <1>5 DEF Submit, Refuse, Fates, Verdicts
  <2>2. ASSUME NEW at \in {"pending", "dropped"}, txs' = [txs EXCEPT ![i].at = at]
        PROVE  TxIInv'
    <3>1. txs' = [txs EXCEPT ![i] = [s EXCEPT !.at = at, !.answer = s.answer]]
      <4>1. [s EXCEPT !.at = at, !.answer = s.answer] = [s EXCEPT !.at = at]
        <5>1. s \in Envelopes
          BY <1>1
        <5> QED BY <5>1 DEF Envelopes
      <4> QED BY <1>0, <1>1, <2>2, <4>1
    <3> QED BY <1>3, <1>4, <2>1, <2>2, <3>1
  <2>3. ASSUME txs' = [txs EXCEPT ![i].at = "dropped", ![i].answer = "unknown"]
        PROVE  TxIInv'
    <3>1. txs' = [txs EXCEPT ![i] = [s EXCEPT !.at = "dropped", !.answer = "unknown"]]
      BY <1>0, <1>1, <2>3
    <3> QED BY <1>3, <1>4, <2>1, <3>1
  <2> QED BY <1>5, <2>2, <2>3 DEF Submit, Refuse
<1>6. CASE Respond(i)
  <2>1. PICK lost \in BOOLEAN : txs' = [txs EXCEPT ![i].answer = IF lost THEN "unknown" ELSE Verdict(txs[i])]
    BY <1>6 DEF Respond
  <2>10. PICK a : a = IF lost THEN "unknown" ELSE Verdict(s)
    OBVIOUS
  <2>11. PICK t : t = [s EXCEPT !.at = s.at, !.answer = a]
    OBVIOUS
  <2>2. a \in Verdicts /\ (a = "failed" => s.at = "dropped")
    BY <2>10 DEF Verdict, Verdicts
  <2>3. txs' = [txs EXCEPT ![i] = [s EXCEPT !.answer = a]]
    BY <1>0, <1>1, <2>1, <2>10
  <2>4. s.answer = "none" /\ held' = held
    BY <1>0, <1>6 DEF Respond
  <2>5. /\ t \in Envelopes /\ SameOrder(s, t) /\ t.at = s.at /\ t.answer = a
        /\ t.applied = s.applied /\ t.left = s.left /\ t.found = s.found /\ t = [s EXCEPT !.answer = a]
    <3>1. s \in Envelopes
      BY <1>1
    <3> QED BY <2>2, <2>11, <3>1 DEF Envelopes, SameOrder
  <2>6. Carries(wish, t) /\ TookEffect(wish, t) /\ FailedIsDropped(t)
    BY <1>1, <2>2, <2>5, CarriesAgain DEF TookEffect, FailedIsDropped, SameOrder
  <2>7. txs' = [txs EXCEPT ![i] = t] /\ held' \in Nat
    BY <1>1, <2>3, <2>4, <2>5
  <2> QED BY <1>0, <1>2, <2>4, <2>5, <2>6, <2>7, ChangeKeeps
<1>7. CASE Include(i)
  <2>0. PICK t : t = [s EXCEPT !.at = "applied", !.applied = txClock, !.found = held, !.left = held']
    OBVIOUS
  <2>1. txs' = [txs EXCEPT ![i] = t] /\ s.at = "pending" /\ txClock <= s.until /\ held' = held - RemovedBy(s)
    BY <1>0, <1>1, <1>7, <2>0 DEF Include
  <2>2. RemovedBy(s) \in 0..held /\ (wish = "burn" => RemovedBy(s) > 0)
    <3>1. s.calls \in CallLists
      BY <1>1, EnvelopeFields
    <3>2. 1 \in 1..Len(s.calls) /\ s.calls[1] \in ContractCalls
      BY <3>1 DEF CallLists
    <3>3. Accepted(s.calls[1])
      BY <1>0, <1>7, <3>2 DEF Include
    <3> QED BY <1>1, <3>3 DEF Accepted, RemovedBy, Carries
  <2>3. held' \in Nat
    BY <1>1, <2>1, <2>2
  <2>4. /\ t \in Envelopes /\ SameOrder(s, t) /\ t.at = "applied" /\ t.answer = s.answer
        /\ t.applied = txClock /\ t.found = held /\ t.left = held'
    <3>1. s \in Envelopes /\ held \in Int /\ held' \in Int /\ txClock \in Int /\ "applied" \in Fates
      BY <1>1, <2>3 DEF Fates
    <3> QED BY <2>0, <3>1 DEF Envelopes, SameOrder
  <2>5. Carries(wish, t) /\ TookEffect(wish, t) /\ FailedIsDropped(t)
    BY <1>1, <2>1, <2>2, <2>4, CarriesAgain DEF TookEffect, FailedIsDropped, SameOrder
  <2> QED BY <1>0, <1>2, <2>1, <2>3, <2>4, <2>5, ChangeKeeps
<1> QED BY <1>5, <1>6, <1>7

LEMMA WorldKeeps ==
  ASSUME TxIInv, Elsewhere \/ TxTick \/ \E raw \in RawPositions : ReadPosition(raw)
  PROVE  TxIInv'
<1>1. UNCHANGED <<txs, wish, deployed>>
  BY DEF Elsewhere, TxTick, ReadPosition
<1>2. held' \in Nat /\ seen' \in Readings /\ txClock' \in Nat
  <2>1. CASE \E raw \in RawPositions : ReadPosition(raw)
    BY <2>1 DEF ReadPosition, PositionOf, Readings, TxIInv, TxTypes
  <2>2. CASE Elsewhere
    <3>1. held' \in Nat /\ seen' = seen /\ txClock' = txClock + 1
      <4>1. held' \in Liquidities /\ seen' = seen /\ txClock' = txClock + 1
        BY <2>2 DEF Elsewhere
      <4> QED BY <4>1, TxNumbers
    <3> QED BY <3>1 DEF TxIInv, TxTypes
  <2>3. CASE TxTick
    BY <2>3 DEF TxTick, TxIInv, TxTypes
  <2> QED BY <2>1, <2>2, <2>3
<1> QED BY <1>1, <1>2 DEF TxIInv, TxTypes, EnvelopesFit, EarlierAnswered

(* However long the network holds an envelope back, whatever it answers and however often the user *)
(* tries again, a liquidity envelope has no effect after its timeout, a share leaves something of  *)
(* what was read, a move keeps all of it, and only an answer that said nothing lets an effect      *)
(* happen twice (packages/sdk/src/{swap,liquidity}.ts, transactions.service.ts).                   *)
THEOREM TxSound == TxSpec => []TxInv
<1>1. TxInit => TxIInv
  BY TxNumbers DEF TxInit, TxIInv, TxTypes, Readings, EnvelopesFit, EarlierAnswered
<1>2. TxIInv /\ [TxNext]_txVars => TxIInv'
  <2>1. TxIInv /\ UNCHANGED txVars => TxIInv'
    BY DEF txVars, TxIInv, TxTypes, EnvelopesFit, EarlierAnswered
  <2>2. TxIInv /\ TxNext => TxIInv'
    BY WorldKeeps, BuildsKeep, SwapBuildsKeep, FateKeeps DEF TxNext
  <2> QED BY <2>1, <2>2
<1> QED BY <1>1, <1>2, TxIImplies, PTL DEF TxSpec

-----------------------------------------------------------------------------
(* The TVL alerts.  A silenced threshold was dispatched, or cut off, or its job is about to        *)
(* dispatch it; and with one worker, whatever its job still has to tell is of thresholds that have *)
(* been silent for a day.                                                                         *)
JobStages  == {"rest", "price", "row", "cache", "snapshot", "find", "log", "mark", "dispatch"}
Alerting   == {"log", "mark", "dispatch"}
Worths     == Tvls \cup {0}
Levels     == Limits \cup {0}
Moments0   == Nat \cup {-1}
StatsJobs  == [at : JobStages, tvl : Worths, found : Seq(Owners), breach : Nat]
Thresholds == [limit : Levels, above : BOOLEAN, enabled : BOOLEAN, last : Moments0]

AlertTypes ==
  /\ statsTime \in Nat
  /\ job \in [Replicas -> StatsJobs]
  /\ threshold \in [Owners -> Thresholds]
  /\ dispatched \in [Owners -> SUBSET Nat]

FoundOnce(j) ==
  j.at \in Alerting => j.found # <<>> /\ \A m, n \in DOMAIN j.found : j.found[m] = j.found[n] => m = n

SentOrCut ==
  \A o \in Owners : threshold[o].last # -1 =>
    \/ threshold[o].last \in dispatched[o] \/ o \in statsLost
    \/ \E r \in Replicas : job[r].at = "dispatch" /\ Head(job[r].found) = o /\ job[r].breach = threshold[o].last

Rested(o, t) == o \in renewed \/ threshold[o].last = -1 \/ threshold[o].last + Day < t

ToldApart ==
  \A o \in Owners \ renewed : \A a \in dispatched[o] :
    /\ threshold[o].last # -1 /\ a <= threshold[o].last
    /\ \A b \in dispatched[o] : a < b => b - a > Day

JobKeepsDay(j) ==
  j.at \in Alerting =>
    /\ \A n \in DOMAIN j.found : n > 1 => Rested(j.found[n], statsTime)
    /\ j.at = "log" => Rested(Head(j.found), statsTime)
    /\ j.at = "mark" => Rested(Head(j.found), j.breach)
    /\ j.at = "dispatch" =>
         \/ Head(j.found) \in renewed
         \/ /\ threshold[Head(j.found)].last = j.breach
            /\ \A a \in dispatched[Head(j.found)] : a + Day < j.breach

Sole == \A r, s \in Replicas : r = s
DayKept == Sole => ToldApart /\ \A r \in Replicas : JobKeepsDay(job[r])

AlertIInv == AlertTypes /\ (\A r \in Replicas : FoundOnce(job[r])) /\ SentOrCut /\ DayKept

LEMMA AlertIImplies == AlertIInv => AlertInv
<1> SUFFICES ASSUME AlertIInv PROVE AlertInv
  OBVIOUS
<1>1. SilencedWasSent
  BY DEF AlertIInv, SentOrCut, SilencedWasSent
<1>2. OncePerDay
  <2> SUFFICES ASSUME Cardinality(Replicas) = 1, NEW o \in Owners \ renewed,
                      NEW a \in dispatched[o], NEW b \in dispatched[o], a < b
               PROVE  b - a > Day
    BY DEF OncePerDay
  <2>1. Sole
    <3>1. IsFiniteSet(Replicas)
      BY StatsAssumption
    <3>2. \E r : Replicas = {r}
      BY <3>1, FS_Singleton
    <3> QED BY <3>2 DEF Sole
  <2> QED BY <2>1 DEF AlertIInv, DayKept, ToldApart
<1> QED BY <1>1, <1>2 DEF AlertInv

LEMMA HeadIsFirst ==
  ASSUME NEW S, NEW s \in Seq(S), s # <<>>
  PROVE  Head(s) = s[1] /\ 1 \in DOMAIN s /\ Len(s) \in Nat /\ DOMAIN s = 1..Len(s) /\ Len(s) > 0
OBVIOUS

LEMMA TailIsRest ==
  ASSUME NEW S, NEW s \in Seq(S), s # <<>>, Len(s) # 1
  PROVE  /\ Tail(s) \in Seq(S) /\ Tail(s) # <<>>
         /\ \A n \in DOMAIN Tail(s) : n \in Nat /\ n + 1 \in DOMAIN s /\ n + 1 > 1 /\ Tail(s)[n] = s[n + 1]
<1>1. Len(s) \in Nat /\ Len(s) > 1
  <2>1. Len(s) \in Nat /\ Len(s) > 0
    BY HeadIsFirst
  <2>2. \A n \in Nat : n > 0 /\ n # 1 => n > 1
    OBVIOUS
  <2> QED BY <2>1, <2>2
<1>2. Tail(s) \in Seq(S) /\ Len(Tail(s)) = Len(s) - 1
  OBVIOUS
<1>3. \A n \in 1..Len(s) - 1 : Tail(s)[n] = s[n + 1]
  OBVIOUS
<1>4. DOMAIN s = 1..Len(s) /\ DOMAIN Tail(s) = 1..Len(s) - 1
  BY <1>2
<1>5. Tail(s) # <<>>
  <2>1. Len(Tail(s)) > 0
    BY <1>1, <1>2
  <2>2. ASSUME NEW t \in Seq(S), t = <<>> PROVE Len(t) = 0
    BY <2>2
  <2>3. Len(Tail(s)) # 0
    BY <2>1
  <2> QED BY <1>2, <2>2, <2>3
<1>6. \A n \in DOMAIN Tail(s) : n \in Nat /\ n + 1 \in DOMAIN s /\ n + 1 > 1
  BY <1>1, <1>4
<1> QED BY <1>2, <1>3, <1>4, <1>5, <1>6

LEMMA StatsNumbers == Day \in Nat
BY StatsAssumption

(* One job moves, and the others stay. *)
LEMMA SdkJobMoves ==
  ASSUME AlertIInv, NEW r \in Replicas, NEW j \in StatsJobs, job' = [job EXCEPT ![r] = j]
  PROVE  /\ job' \in [Replicas -> StatsJobs] /\ job'[r] = j
         /\ \A s \in Replicas : s # r => job'[s] = job[s]
         /\ Sole => Replicas = {r}
         /\ FoundOnce(j) => \A s \in Replicas : FoundOnce(job'[s])
BY DEF AlertIInv, AlertTypes, Sole

(* A job moves while nothing is marked or dispatched. *)
LEMMA QuietKeeps ==
  ASSUME AlertIInv, NEW r \in Replicas, NEW j \in StatsJobs, job' = [job EXCEPT ![r] = j],
         job[r].at # "dispatch", j.at # "dispatch", FoundOnce(j), Sole => JobKeepsDay(j),
         UNCHANGED <<statsTime, threshold, dispatched, statsLost, renewed>>
  PROVE  AlertIInv'
<1>2. AlertTypes' /\ \A s \in Replicas : FoundOnce(job'[s])
  BY SdkJobMoves DEF AlertIInv, AlertTypes
<1>3. SentOrCut'
  <2> SUFFICES ASSUME NEW o \in Owners, threshold[o].last # -1, threshold[o].last \notin dispatched[o], o \notin statsLost
               PROVE  \E s \in Replicas : job'[s].at = "dispatch" /\ Head(job'[s].found) = o /\ job'[s].breach = threshold[o].last
    BY DEF SentOrCut
  <2>1. PICK s \in Replicas : job[s].at = "dispatch" /\ Head(job[s].found) = o /\ job[s].breach = threshold[o].last
    BY DEF AlertIInv, SentOrCut
  <2> QED BY <2>1, SdkJobMoves
<1>4. DayKept'
  <2> SUFFICES ASSUME Sole PROVE ToldApart' /\ \A s \in Replicas : JobKeepsDay(job[s])'
    BY DEF DayKept, Sole
  <2>1. ToldApart'
    BY DEF AlertIInv, DayKept, ToldApart
  <2>2. \A s \in Replicas : job'[s] = j
    BY SdkJobMoves
  <2>3. JobKeepsDay(j)'
    BY DEF JobKeepsDay, Rested
  <2> QED BY <2>1, <2>2, <2>3 DEF JobKeepsDay, Rested
<1> QED BY <1>2, <1>3, <1>4 DEF AlertIInv

LEMMA FiguresKeep ==
  ASSUME AlertIInv, NEW r \in Replicas,
         TakeStatsJob(r) \/ ComputeTvl(r) \/ WriteRow(r) \/ WriteCache(r) \/ RecordTvlSnapshot(r) \/ PoolFails(r)
  PROVE  AlertIInv'
<1> DEFINE k == job[r]
<1>1. k \in StatsJobs /\ job \in [Replicas -> StatsJobs] /\ Resting \in StatsJobs
  BY DEF AlertIInv, AlertTypes, Resting, StatsJobs, JobStages, Worths
<1>2. UNCHANGED <<statsTime, threshold, dispatched, statsLost, renewed>>
  BY DEF TakeStatsJob, ComputeTvl, WriteRow, WriteCache, RecordTvlSnapshot, PoolFails, ownersUnchanged, worldUnchanged
<1>3. k.at \notin Alerting
  BY DEF TakeStatsJob, ComputeTvl, WriteRow, WriteCache, RecordTvlSnapshot, PoolFails, Alerting
<1>4. \E j \in StatsJobs : job' = [job EXCEPT ![r] = j] /\ j.at \notin Alerting
  <2>1. CASE TakeStatsJob(r)
    <3>1. [Resting EXCEPT !.at = "price"] \in StatsJobs /\ [Resting EXCEPT !.at = "price"].at = "price"
      <4>1. [Resting EXCEPT !.at = "price"] = [at |-> "price", tvl |-> 0, found |-> <<>>, breach |-> 0]
        BY DEF Resting
      <4>2. "price" \in JobStages /\ 0 \in Worths /\ <<>> \in Seq(Owners) /\ 0 \in Nat
        BY DEF JobStages, Worths
      <4> QED BY <4>1, <4>2 DEF StatsJobs
    <3> QED BY <2>1, <3>1 DEF TakeStatsJob, Alerting
  <2>2. CASE ComputeTvl(r)
    <3>1. PICK tvl \in Tvls : job' = [job EXCEPT ![r].at = "row", ![r].tvl = tvl]
      BY <2>2 DEF ComputeTvl
    <3> DEFINE j == [k EXCEPT !.at = "row", !.tvl = tvl]
    <3>2. job' = [job EXCEPT ![r] = j]
      BY <1>1, <3>1
    <3> HIDE DEF k
    <3>3. tvl \in Worths /\ "row" \in JobStages
      BY DEF Worths, JobStages
    <3>4. j \in StatsJobs /\ j.at = "row"
      BY <1>1, <3>3 DEF StatsJobs
    <3> QED BY <3>2, <3>4 DEF Alerting
  <2>3. ASSUME NEW at \in JobStages, at \notin Alerting, job' = [job EXCEPT ![r].at = at]
        PROVE  \E j \in StatsJobs : job' = [job EXCEPT ![r] = j] /\ j.at \notin Alerting
    <3> DEFINE j == [k EXCEPT !.at = at]
    <3>1. job' = [job EXCEPT ![r] = j]
      BY <1>1, <2>3
    <3> HIDE DEF k
    <3>2. j \in StatsJobs /\ j.at = at
      BY <1>1, <2>3 DEF StatsJobs
    <3> QED BY <2>3, <3>1, <3>2
  <2>4. CASE WriteRow(r) \/ WriteCache(r) \/ RecordTvlSnapshot(r)
    BY <2>3, <2>4 DEF WriteRow, WriteCache, RecordTvlSnapshot, JobStages, Alerting
  <2>5. CASE PoolFails(r)
    BY <1>1, <2>5 DEF PoolFails, Resting, Alerting
  <2> QED BY <2>1, <2>2, <2>4, <2>5
<1>5. PICK j \in StatsJobs : job' = [job EXCEPT ![r] = j] /\ j.at \notin Alerting
  BY <1>4
<1>6. FoundOnce(j) /\ JobKeepsDay(j) /\ j.at # "dispatch" /\ k.at # "dispatch"
  BY <1>3, <1>5 DEF FoundOnce, JobKeepsDay, Alerting
<1> QED BY <1>2, <1>5, <1>6, QuietKeeps

(* Owners and the cron change no job. *)
LEMMA OwnersKeep ==
  ASSUME AlertIInv, NEW o \in Owners, SetThreshold(o) \/ DisableThreshold(o) \/ DeleteThreshold(o)
  PROVE  AlertIInv'
<1>1. UNCHANGED <<statsTime, job, dispatched, statsLost>> /\ renewed \subseteq renewed'
  BY DEF SetThreshold, DisableThreshold, DeleteThreshold, ownersUnchanged, worldUnchanged
<1>2. threshold \in [Owners -> Thresholds]
  BY DEF AlertIInv, AlertTypes
<1>3. PICK t \in Thresholds : /\ threshold' = [threshold EXCEPT ![o] = t]
                              /\ t.last = threshold[o].last \/ (t.last = -1 /\ o \in renewed')
  <2>1. CASE SetThreshold(o)
    <3>1. PICK limit \in Limits, above \in BOOLEAN :
            threshold' = [threshold EXCEPT ![o] = [limit |-> limit, above |-> above, enabled |-> TRUE, last |-> KeepsLast(o)]]
      BY <2>1 DEF SetThreshold
    <3>2. KeepsLast(o) \in Moments0 /\ KeepsLast(o) = threshold[o].last /\ limit \in Levels
      BY <1>2 DEF KeepsLast, Thresholds, Levels
    <3> DEFINE t == [limit |-> limit, above |-> above, enabled |-> TRUE, last |-> KeepsLast(o)]
    <3>3. t \in Thresholds /\ t.last = KeepsLast(o)
      BY <3>2 DEF Thresholds
    <3>4. threshold' = [threshold EXCEPT ![o] = t]
      BY <3>1
    <3> HIDE DEF t
    <3> QED BY <3>2, <3>3, <3>4
  <2>2. CASE DisableThreshold(o)
    <3> DEFINE t == [threshold[o] EXCEPT !.enabled = FALSE]
    <3>1. threshold' = [threshold EXCEPT ![o] = t]
      BY <1>2, <2>2 DEF DisableThreshold
    <3>2. t \in Thresholds /\ t.last = threshold[o].last
      <4>1. threshold[o] \in Thresholds
        BY <1>2
      <4> QED BY <4>1 DEF Thresholds
    <3> QED BY <3>1, <3>2
  <2>3. CASE DeleteThreshold(o)
    <3>1. NoThreshold \in Thresholds /\ NoThreshold.last = -1
      BY DEF NoThreshold, Thresholds, Levels, Moments0
    <3> QED BY <2>3, <3>1 DEF DeleteThreshold
  <2> QED BY <2>1, <2>2, <2>3
<1>4. /\ threshold' \in [Owners -> Thresholds]
      /\ \A p \in Owners : threshold'[p].last = threshold[p].last \/ (threshold'[p].last = -1 /\ p \in renewed')
  BY <1>2, <1>3
<1>5. AlertTypes' /\ (\A r \in Replicas : FoundOnce(job[r]))'
  BY <1>1, <1>4 DEF AlertIInv, AlertTypes
<1>6. SentOrCut'
  BY <1>1, <1>4 DEF AlertIInv, SentOrCut
<1>7. DayKept'
  <2> SUFFICES ASSUME Sole PROVE ToldApart' /\ \A r \in Replicas : JobKeepsDay(job[r])'
    BY DEF DayKept, Sole
  <2>1. ToldApart'
    BY <1>1, <1>4 DEF AlertIInv, DayKept, ToldApart
  <2>2. ASSUME NEW r \in Replicas PROVE JobKeepsDay(job[r])'
    <3>0. PICK j : j = job[r]
      OBVIOUS
    <3>1. job'[r] = j /\ JobKeepsDay(j) /\ j.found \in Seq(Owners) /\ FoundOnce(j)
      BY <1>1, <3>0 DEF AlertIInv, AlertTypes, DayKept, StatsJobs
    <3>2. j.at \in Alerting => Head(j.found) \in Owners /\ \A n \in DOMAIN j.found : j.found[n] \in Owners
      BY <3>1 DEF FoundOnce
    <3>3. ASSUME NEW p \in Owners, NEW time, Rested(p, time) PROVE Rested(p, time)'
      BY <1>1, <1>4, <3>3 DEF Rested
    <3>4. JobKeepsDay(j)'
      BY <1>1, <1>4, <3>1, <3>2, <3>3 DEF JobKeepsDay
    <3> QED BY <3>1, <3>4
  <2> QED BY <2>1, <2>2
<1> QED BY <1>5, <1>6, <1>7 DEF AlertIInv

LEMMA CronKeeps ==
  ASSUME AlertIInv, ScheduleAggregation
  PROVE  AlertIInv'
<1>1. UNCHANGED <<job, threshold, dispatched, statsLost, renewed>> /\ statsTime' = statsTime + 1 /\ statsTime \in Nat
  BY DEF ScheduleAggregation, ownersUnchanged, AlertIInv, AlertTypes
<1>2. AlertTypes' /\ (\A r \in Replicas : FoundOnce(job[r]))' /\ SentOrCut'
  BY <1>1 DEF AlertIInv, AlertTypes, SentOrCut
<1>3. ASSUME NEW o \in Owners, Rested(o, statsTime) PROVE Rested(o, statsTime)'
  <2>1. threshold[o].last \in Moments0
    BY DEF AlertIInv, AlertTypes, Thresholds
  <2> QED BY <1>1, <1>3, <2>1, StatsNumbers DEF Rested, Moments0
<1>4. DayKept'
  <2> SUFFICES ASSUME Sole PROVE ToldApart' /\ \A r \in Replicas : JobKeepsDay(job[r])'
    BY DEF DayKept, Sole
  <2>1. ToldApart'
    BY <1>1 DEF AlertIInv, DayKept, ToldApart
  <2>2. ASSUME NEW r \in Replicas PROVE JobKeepsDay(job[r])'
    <3>0. PICK j : j = job[r]
      OBVIOUS
    <3>1. job'[r] = j /\ JobKeepsDay(j) /\ j.found \in Seq(Owners) /\ FoundOnce(j)
      BY <1>1, <3>0 DEF AlertIInv, AlertTypes, DayKept, StatsJobs
    <3>2. j.at \in Alerting => Head(j.found) \in Owners /\ \A n \in DOMAIN j.found : j.found[n] \in Owners
      BY <3>1 DEF FoundOnce
    <3>3. \A p \in Owners : Rested(p, j.breach)' <=> Rested(p, j.breach)
      BY <1>1 DEF Rested
    <3>4. JobKeepsDay(j)'
      BY <1>1, <1>3, <3>1, <3>2, <3>3 DEF JobKeepsDay
    <3> QED BY <3>1, <3>4
  <2> QED BY <2>1, <2>2
<1> QED BY <1>2, <1>4 DEF AlertIInv

(* The alerts of a job: the thresholds that are due, then one after the other. *)
LEMMA FindDueKeeps ==
  ASSUME AlertIInv, NEW r \in Replicas, FindDue(r)
  PROVE  AlertIInv'
<1> DEFINE found == {o \in Owners : IsDue(threshold[o], job[r].tvl)}
<1>1. PICK order \in [1..Cardinality(found) -> found] :
        /\ \A m, n \in DOMAIN order : order[m] = order[n] => m = n
        /\ job' = [job EXCEPT ![r] = IF order = <<>> THEN Resting ELSE [@ EXCEPT !.at = "log", !.found = order]]
  BY DEF FindDue
<1>2. Cardinality(found) \in Nat
  BY StatsAssumption, FS_Subset, FS_CardinalityType
<1>3. order \in Seq(Owners) /\ \A n \in DOMAIN order : order[n] \in found
  <2>1. found \subseteq Owners
    OBVIOUS
  <2>2. order \in [1..Cardinality(found) -> found]
    BY <1>1
  <2> HIDE DEF found
  <2>3. PICK n \in Nat : n = Cardinality(found)
    BY <1>2
  <2>4. order \in [1..n -> Owners]
    BY <2>1, <2>2, <2>3
  <2> QED BY <2>2, <2>4
<1>4. PICK k : k = job[r]
  OBVIOUS
<1>5. k \in StatsJobs /\ job \in [Replicas -> StatsJobs] /\ Resting \in StatsJobs /\ k.at = "find"
  BY <1>4 DEF AlertIInv, AlertTypes, Resting, StatsJobs, JobStages, Worths, FindDue
<1>6. UNCHANGED <<statsTime, threshold, dispatched, statsLost, renewed>>
  BY DEF FindDue, ownersUnchanged, worldUnchanged
<1>7. CASE order = <<>>
  <2>1. job' = [job EXCEPT ![r] = Resting]
    BY <1>1, <1>7
  <2>2. FoundOnce(Resting) /\ JobKeepsDay(Resting) /\ Resting.at # "dispatch"
    BY DEF Resting, FoundOnce, JobKeepsDay, Alerting
  <2> QED BY <1>4, <1>5, <1>6, <2>1, <2>2, QuietKeeps
<1>8. CASE order # <<>>
  <2>0. PICK j : j = [k EXCEPT !.at = "log", !.found = order]
    OBVIOUS
  <2>1. job' = [job EXCEPT ![r] = j]
    BY <1>1, <1>4, <1>5, <1>8, <2>0
  <2>2. j \in StatsJobs /\ j.at = "log" /\ j.found = order
    <3>1. "log" \in JobStages
      BY DEF JobStages
    <3> QED BY <1>3, <1>5, <2>0, <3>1 DEF StatsJobs
  <2>3. FoundOnce(j)
    BY <1>1, <1>8, <2>2 DEF FoundOnce
  <2>4. \A n \in DOMAIN order : Rested(order[n], statsTime)
    <3> SUFFICES ASSUME NEW n \in DOMAIN order PROVE Rested(order[n], statsTime)
      OBVIOUS
    <3>1. order[n] \in Owners /\ Silent(threshold[order[n]])
      BY <1>3 DEF IsDue
    <3>2. threshold[order[n]].last \in Moments0 /\ statsTime \in Nat
      BY <3>1 DEF AlertIInv, AlertTypes, Thresholds
    <3> QED BY <3>1, <3>2, StatsNumbers DEF Silent, Rested, Moments0
  <2>5. JobKeepsDay(j)
    <3>1. Head(order) = order[1] /\ 1 \in DOMAIN order
      <4>1. order \in Seq(Owners) /\ order # <<>>
        BY <1>3, <1>8
      <4> QED BY <4>1, HeadIsFirst
    <3> QED BY <2>2, <2>4, <3>1 DEF JobKeepsDay
  <2> QED BY <1>4, <1>5, <1>6, <2>1, <2>2, <2>3, <2>5, QuietKeeps
<1> QED BY <1>7, <1>8

LEMMA LogKeeps ==
  ASSUME AlertIInv, NEW r \in Replicas, LogAlert(r)
  PROVE  AlertIInv'
<1>1. PICK k : k = job[r]
  OBVIOUS
<1>2. /\ k \in StatsJobs /\ job \in [Replicas -> StatsJobs] /\ k.at = "log" /\ statsTime \in Nat
      /\ FoundOnce(k) /\ (Sole => JobKeepsDay(k))
  BY <1>1 DEF AlertIInv, AlertTypes, LogAlert, DayKept
<1>3. PICK j : j = [k EXCEPT !.at = "mark", !.breach = statsTime]
  OBVIOUS
<1>4. j \in StatsJobs /\ j.at = "mark" /\ j.breach = statsTime /\ j.found = k.found
  <2>1. "mark" \in JobStages
    BY DEF JobStages
  <2> QED BY <1>2, <1>3, <2>1 DEF StatsJobs
<1>5. job' = [job EXCEPT ![r] = j] /\ UNCHANGED <<statsTime, threshold, dispatched, statsLost, renewed>>
  BY <1>1, <1>2, <1>3 DEF LogAlert, worldUnchanged
<1>6. FoundOnce(j) /\ (Sole => JobKeepsDay(j))
  BY <1>2, <1>4 DEF FoundOnce, JobKeepsDay, Alerting
<1> QED BY <1>1, <1>2, <1>4, <1>5, <1>6, QuietKeeps

(* lastTriggeredAt is written: what the job dispatches next is of that moment. *)
LEMMA MarkKeeps ==
  ASSUME AlertIInv, NEW r \in Replicas, MarkTriggered(r)
  PROVE  AlertIInv'
<1>1. PICK k : k = job[r]
  OBVIOUS
<1>2. PICK o : o = Head(k.found)
  OBVIOUS
<1>3. /\ k \in StatsJobs /\ job \in [Replicas -> StatsJobs] /\ k.at = "mark"
      /\ FoundOnce(k) /\ (Sole => JobKeepsDay(k)) /\ threshold \in [Owners -> Thresholds]
  BY <1>1 DEF AlertIInv, AlertTypes, MarkTriggered, DayKept
<1>4. /\ k.found \in Seq(Owners) /\ k.found # <<>> /\ k.breach \in Nat
      /\ \A m, n \in DOMAIN k.found : k.found[m] = k.found[n] => m = n
  BY <1>3 DEF StatsJobs, FoundOnce, Alerting
<1>5. o \in Owners /\ o = k.found[1] /\ 1 \in DOMAIN k.found
  BY <1>2, <1>4
<1>6. PICK j : j = [k EXCEPT !.at = "dispatch"]
  OBVIOUS
<1>7. j \in StatsJobs /\ j.at = "dispatch" /\ j.breach = k.breach /\ j.found = k.found
  <2>1. "dispatch" \in JobStages
    BY DEF JobStages
  <2> QED BY <1>3, <1>6, <2>1 DEF StatsJobs
<1>8. job' = [job EXCEPT ![r] = j] /\ UNCHANGED <<statsTime, dispatched, statsLost, renewed>>
  BY <1>1, <1>3, <1>6 DEF MarkTriggered, ownersUnchanged, worldUnchanged
<1>9. /\ threshold' \in [Owners -> Thresholds] /\ threshold'[o].last = k.breach
      /\ \A p \in Owners : p # o => threshold'[p] = threshold[p]
  <2>1. PICK t : t = [threshold[o] EXCEPT !.last = k.breach]
    OBVIOUS
  <2>2. threshold' = [threshold EXCEPT ![o] = t]
    BY <1>1, <1>2, <1>3, <1>5, <2>1 DEF MarkTriggered
  <2>3. t \in Thresholds /\ t.last = k.breach
    <3>1. threshold[o] \in Thresholds /\ k.breach \in Moments0
      BY <1>3, <1>4, <1>5 DEF Moments0
    <3> QED BY <2>1, <3>1 DEF Thresholds
  <2> QED BY <1>3, <1>5, <2>2, <2>3
<1>10. FoundOnce(j)
  BY <1>3, <1>7 DEF FoundOnce, Alerting
<1>11. AlertTypes' /\ \A s \in Replicas : FoundOnce(job'[s])
  BY <1>7, <1>8, <1>9, <1>10, SdkJobMoves DEF AlertIInv, AlertTypes
<1>12. SentOrCut'
  <2> SUFFICES ASSUME NEW p \in Owners, threshold'[p].last # -1, threshold'[p].last \notin dispatched[p], p \notin statsLost
               PROVE  \E s \in Replicas : job'[s].at = "dispatch" /\ Head(job'[s].found) = p /\ job'[s].breach = threshold'[p].last
    BY <1>8 DEF SentOrCut
  <2>1. CASE p = o
    BY <1>2, <1>7, <1>8, <1>9, <2>1, SdkJobMoves
  <2>2. CASE p # o
    <3>1. PICK s \in Replicas : job[s].at = "dispatch" /\ Head(job[s].found) = p /\ job[s].breach = threshold[p].last
      BY <1>9, <2>2 DEF AlertIInv, SentOrCut
    <3> QED BY <1>1, <1>3, <1>7, <1>8, <1>9, <2>2, <3>1, SdkJobMoves
  <2> QED BY <2>1, <2>2
<1>13. DayKept'
  <2> SUFFICES ASSUME Sole PROVE ToldApart' /\ \A s \in Replicas : JobKeepsDay(job[s])'
    BY DEF DayKept, Sole
  <2>1. ToldApart /\ JobKeepsDay(k)
    BY <1>3 DEF AlertIInv, DayKept
  <2>2. Rested(o, k.breach)
    BY <1>2, <1>3, <2>1 DEF JobKeepsDay, Alerting
  <2>3. threshold[o].last \in Moments0 /\ dispatched[o] \subseteq Nat
    BY <1>3, <1>5 DEF AlertIInv, AlertTypes, Thresholds
  <2>4. o \notin renewed => \A a \in dispatched[o] : a + Day < k.breach /\ a <= k.breach
    BY <1>4, <1>5, <2>1, <2>2, <2>3, StatsNumbers DEF Rested, ToldApart, Moments0
  <2>5. ToldApart'
    <3> SUFFICES ASSUME NEW p \in Owners \ renewed, NEW a \in dispatched[p]
                 PROVE  /\ threshold'[p].last # -1 /\ a <= threshold'[p].last
                        /\ \A b \in dispatched[p] : a < b => b - a > Day
      BY <1>8 DEF ToldApart
    <3>1. CASE p = o
      BY <1>4, <1>9, <2>1, <2>4, <3>1 DEF ToldApart
    <3>2. CASE p # o
      BY <1>9, <2>1, <3>2 DEF ToldApart
    <3> QED BY <3>1, <3>2
  <2>6. JobKeepsDay(j)'
    <3>1. \A n \in DOMAIN k.found : n > 1 => k.found[n] \in Owners /\ k.found[n] # o /\ Rested(k.found[n], statsTime)
      BY <1>3, <1>4, <1>5, <2>1 DEF JobKeepsDay, Alerting
    <3>2. \A n \in DOMAIN k.found : n > 1 => Rested(k.found[n], statsTime)'
      BY <1>8, <1>9, <3>1 DEF Rested
    <3> QED BY <1>2, <1>7, <1>8, <1>9, <2>4, <3>2 DEF JobKeepsDay
  <2>7. \A s \in Replicas : job'[s] = j
    BY <1>7, <1>8, SdkJobMoves
  <2> QED BY <2>5, <2>6, <2>7
<1> QED BY <1>11, <1>12, <1>13 DEF AlertIInv

(* The job turns to the next threshold it found, or ends. *)
LEMMA NextOfJob ==
  ASSUME AlertIInv, NEW r \in Replicas, job[r].at \in Alerting, NextAlert(r)
  PROVE  \E j \in StatsJobs : /\ job' = [job EXCEPT ![r] = j] /\ j.at \in {"rest", "log"} /\ FoundOnce(j)
                              /\ Sole => \A n \in DOMAIN j.found : Rested(j.found[n], statsTime)
<1>1. PICK k : k = job[r]
  OBVIOUS
<1>2. /\ k \in StatsJobs /\ job \in [Replicas -> StatsJobs] /\ k.at \in Alerting
      /\ FoundOnce(k) /\ (Sole => JobKeepsDay(k))
  BY <1>1 DEF AlertIInv, AlertTypes, DayKept
<1>3. /\ k.found \in Seq(Owners) /\ k.found # <<>>
      /\ \A m, n \in DOMAIN k.found : k.found[m] = k.found[n] => m = n
      /\ Sole => \A n \in DOMAIN k.found : n > 1 => Rested(k.found[n], statsTime)
  BY <1>2 DEF StatsJobs, FoundOnce, JobKeepsDay
<1>4. CASE Len(k.found) = 1
  <2>1. job' = [job EXCEPT ![r] = Resting]
    BY <1>1, <1>2, <1>4 DEF NextAlert
  <2>2. Resting \in StatsJobs /\ Resting.at = "rest" /\ DOMAIN Resting.found = {}
    BY DEF Resting, StatsJobs, JobStages, Worths
  <2>3. FoundOnce(Resting)
    BY <2>2 DEF FoundOnce, Alerting
  <2> QED BY <2>1, <2>2, <2>3
<1>5. CASE Len(k.found) # 1
  <2>1. PICK rest : rest = Tail(k.found)
    OBVIOUS
  <2>2. /\ rest \in Seq(Owners) /\ rest # <<>>
        /\ \A n \in DOMAIN rest : n + 1 \in DOMAIN k.found /\ n + 1 > 1 /\ rest[n] = k.found[n + 1] /\ n \in Nat
    BY <1>3, <1>5, <2>1, TailIsRest
  <2>3. PICK j : j = [k EXCEPT !.at = "log", !.found = rest]
    OBVIOUS
  <2>4. job' = [job EXCEPT ![r] = j]
    <3>1. job' = [job EXCEPT ![r] = [k EXCEPT !.at = "log", !.found = Tail(k.found)]]
      <4>1. job' = [job EXCEPT ![r] = IF Len(k.found) = 1 THEN Resting ELSE [k EXCEPT !.at = "log", !.found = Tail(k.found)]]
        BY <1>1 DEF NextAlert
      <4> QED BY <1>5, <4>1
    <3> QED BY <2>1, <2>3, <3>1
  <2>5. j \in StatsJobs /\ j.at = "log" /\ j.found = rest
    <3>1. "log" \in JobStages
      BY DEF JobStages
    <3> QED BY <1>2, <2>2, <2>3, <3>1 DEF StatsJobs
  <2>6. FoundOnce(j)
    <3> SUFFICES ASSUME NEW m \in DOMAIN rest, NEW n \in DOMAIN rest, rest[m] = rest[n] PROVE m = n
      BY <2>2, <2>5 DEF FoundOnce
    <3>1. m + 1 = n + 1 /\ m \in Nat /\ n \in Nat
      BY <1>3, <2>2
    <3> QED BY <3>1
  <2>7. Sole => \A n \in DOMAIN rest : Rested(rest[n], statsTime)
    BY <1>3, <2>2
  <2> QED BY <2>4, <2>5, <2>6, <2>7
<1> QED BY <1>4, <1>5

(* A job whose next alert, if any, has rested for a day keeps the day. *)
LEMMA RestedKeepsDay ==
  ASSUME NEW j \in StatsJobs, j.at \in {"rest", "log"}, FoundOnce(j),
         \A n \in DOMAIN j.found : Rested(j.found[n], statsTime)
  PROVE  JobKeepsDay(j)
<1>1. j.at = "log" => Head(j.found) = j.found[1] /\ 1 \in DOMAIN j.found
  <2>1. j.found \in Seq(Owners) /\ (j.at = "log" => j.found # <<>>)
    BY DEF StatsJobs, FoundOnce, Alerting
  <2> QED BY <2>1
<1> QED BY <1>1 DEF JobKeepsDay, Alerting

LEMMA DispatchKeeps ==
  ASSUME AlertIInv, NEW r \in Replicas, DispatchAlert(r)
  PROVE  AlertIInv'
<1>1. PICK k : k = job[r]
  OBVIOUS
<1>2. PICK o : o = Head(k.found)
  OBVIOUS
<1>3. /\ k \in StatsJobs /\ k.at = "dispatch" /\ FoundOnce(k) /\ (Sole => JobKeepsDay(k))
      /\ dispatched \in [Owners -> SUBSET Nat]
  BY <1>1 DEF AlertIInv, AlertTypes, DispatchAlert, DayKept
<1>4. k.found \in Seq(Owners) /\ k.found # <<>> /\ k.breach \in Nat
  BY <1>3 DEF StatsJobs, FoundOnce, Alerting
<1>5. o \in Owners
  BY <1>2, <1>4
<1>6. UNCHANGED <<statsTime, threshold, statsLost, renewed>> /\ NextAlert(r)
      /\ dispatched' = [dispatched EXCEPT ![o] = @ \cup {k.breach}]
  BY <1>1, <1>2 DEF DispatchAlert, worldUnchanged
<1>7. /\ dispatched' \in [Owners -> SUBSET Nat] /\ dispatched'[o] = dispatched[o] \cup {k.breach}
      /\ \A p \in Owners : p # o => dispatched'[p] = dispatched[p]
  BY <1>3, <1>4, <1>5, <1>6
<1>8. PICK j \in StatsJobs : /\ job' = [job EXCEPT ![r] = j] /\ j.at \in {"rest", "log"} /\ FoundOnce(j)
                             /\ Sole => \A n \in DOMAIN j.found : Rested(j.found[n], statsTime)
  BY <1>1, <1>3, <1>6, NextOfJob DEF Alerting
<1>9. AlertTypes' /\ \A s \in Replicas : FoundOnce(job'[s])
  BY <1>6, <1>7, <1>8, SdkJobMoves DEF AlertIInv, AlertTypes
<1>10. SentOrCut'
  <2> SUFFICES ASSUME NEW p \in Owners, threshold[p].last # -1, threshold[p].last \notin dispatched'[p], p \notin statsLost
               PROVE  \E s \in Replicas : job'[s].at = "dispatch" /\ Head(job'[s].found) = p /\ job'[s].breach = threshold[p].last
    BY <1>6 DEF SentOrCut
  <2>1. PICK s \in Replicas : job[s].at = "dispatch" /\ Head(job[s].found) = p /\ job[s].breach = threshold[p].last
    BY <1>7 DEF AlertIInv, SentOrCut
  <2>2. s # r
    BY <1>1, <1>2, <1>7, <2>1
  <2> QED BY <1>8, <2>1, <2>2, SdkJobMoves
<1>11. DayKept'
  <2> SUFFICES ASSUME Sole PROVE ToldApart' /\ \A s \in Replicas : JobKeepsDay(job[s])'
    BY DEF DayKept, Sole
  <2>1. /\ ToldApart
        /\ o \in renewed \/ (threshold[o].last = k.breach /\ \A a \in dispatched[o] : a + Day < k.breach)
    BY <1>2, <1>3 DEF AlertIInv, DayKept, JobKeepsDay, Alerting
  <2>2. ToldApart'
    <3> SUFFICES ASSUME NEW p \in Owners \ renewed, NEW a \in dispatched'[p]
                 PROVE  /\ threshold[p].last # -1 /\ a <= threshold[p].last
                        /\ \A b \in dispatched'[p] : a < b => b - a > Day
      BY <1>6 DEF ToldApart
    <3>1. CASE p = o
      <4>1. /\ threshold[o].last = k.breach /\ dispatched[o] \subseteq Nat
            /\ \A b \in dispatched[o] : b + Day < k.breach
        BY <1>3, <1>5, <2>1, <3>1
      <4>2. \A b, c \in dispatched[o] : b < c => c - b > Day
        BY <2>1, <3>1 DEF ToldApart
      <4> QED BY <1>4, <1>7, <3>1, <4>1, <4>2, StatsNumbers
    <3>2. CASE p # o
      BY <1>7, <2>1, <3>2 DEF ToldApart
    <3> QED BY <3>1, <3>2
  <2>3. JobKeepsDay(j)'
    <3>1. JobKeepsDay(j)
      BY <1>8, RestedKeepsDay
    <3> QED BY <1>6, <1>8, <3>1 DEF JobKeepsDay, Rested
  <2>4. \A s \in Replicas : job'[s] = j
    BY <1>8, SdkJobMoves
  <2> QED BY <2>2, <2>3, <2>4
<1> QED BY <1>9, <1>10, <1>11 DEF AlertIInv

(* A step throws, or the process dies: who was about to be told may not be. *)
LEMMA CutKeeps ==
  ASSUME AlertIInv, NEW r \in Replicas, NEW j \in StatsJobs, job' = [job EXCEPT ![r] = j],
         j.at \in {"rest", "log"}, FoundOnce(j), Sole => \A n \in DOMAIN j.found : Rested(j.found[n], statsTime),
         UNCHANGED <<statsTime, threshold, dispatched, renewed>>, statsLost \subseteq statsLost',
         job[r].at = "dispatch" => Head(job[r].found) \in statsLost'
  PROVE  AlertIInv'
<1>1. AlertTypes' /\ \A s \in Replicas : FoundOnce(job'[s])
  BY SdkJobMoves DEF AlertIInv, AlertTypes
<1>2. SentOrCut'
  <2> SUFFICES ASSUME NEW p \in Owners, threshold[p].last # -1, threshold[p].last \notin dispatched[p], p \notin statsLost'
               PROVE  \E s \in Replicas : job'[s].at = "dispatch" /\ Head(job'[s].found) = p /\ job'[s].breach = threshold[p].last
    BY DEF SentOrCut
  <2>1. PICK s \in Replicas : job[s].at = "dispatch" /\ Head(job[s].found) = p /\ job[s].breach = threshold[p].last
    BY DEF AlertIInv, SentOrCut
  <2>2. s # r
    BY <2>1
  <2> QED BY <2>1, <2>2, SdkJobMoves
<1>3. DayKept'
  <2> SUFFICES ASSUME Sole PROVE ToldApart' /\ \A s \in Replicas : JobKeepsDay(job[s])'
    BY DEF DayKept, Sole
  <2>1. ToldApart'
    BY DEF AlertIInv, DayKept, ToldApart
  <2>2. JobKeepsDay(j)'
    <3>1. JobKeepsDay(j)
      BY RestedKeepsDay
    <3> QED BY <3>1 DEF JobKeepsDay, Rested
  <2>3. \A s \in Replicas : job'[s] = j
    BY SdkJobMoves
  <2> QED BY <2>1, <2>2, <2>3
<1> QED BY <1>1, <1>2, <1>3 DEF AlertIInv

LEMMA FailuresKeep ==
  ASSUME AlertIInv, NEW r \in Replicas, AlertThrows(r) \/ StatsCrash(r)
  PROVE  AlertIInv'
<1>1. CASE AlertThrows(r)
  <2>1. PICK j \in StatsJobs : /\ job' = [job EXCEPT ![r] = j] /\ j.at \in {"rest", "log"} /\ FoundOnce(j)
                               /\ Sole => \A n \in DOMAIN j.found : Rested(j.found[n], statsTime)
    BY <1>1, NextOfJob DEF AlertThrows, Alerting
  <2>2. /\ UNCHANGED <<statsTime, threshold, dispatched, renewed>>
        /\ statsLost' = statsLost \cup {Head(job[r].found)}
    BY <1>1 DEF AlertThrows, worldUnchanged
  <2> QED BY <2>1, <2>2, CutKeeps
<1>2. CASE StatsCrash(r)
  <2>1. Resting \in StatsJobs /\ Resting.at = "rest" /\ DOMAIN Resting.found = {}
    BY DEF Resting, StatsJobs, JobStages, Worths
  <2>2. FoundOnce(Resting)
    BY <2>1 DEF FoundOnce, Alerting
  <2>3. /\ UNCHANGED <<statsTime, threshold, dispatched, renewed>> /\ job' = [job EXCEPT ![r] = Resting]
        /\ statsLost \subseteq statsLost' /\ (job[r].at = "dispatch" => Head(job[r].found) \in statsLost')
    BY <1>2 DEF StatsCrash
  <2> QED BY <2>1, <2>2, <2>3, CutKeeps
<1> QED BY <1>1, <1>2

(* An owner is told once a day by one worker, and a silence has a reason whatever the number of     *)
(* workers, over crashes, retries and changes of the thresholds (tvl-alert.service.ts).            *)
THEOREM AlertSound == StatsSpec => []AlertInv
<1>1. StatsInit => AlertIInv
  <2> SUFFICES ASSUME StatsInit PROVE AlertIInv
    OBVIOUS
  <2>1. /\ Resting \in StatsJobs /\ Resting.at = "rest"
        /\ NoThreshold \in Thresholds /\ NoThreshold.last = -1
    BY DEF Resting, StatsJobs, JobStages, Worths, NoThreshold, Thresholds, Levels, Moments0
  <2>2. FoundOnce(Resting) /\ JobKeepsDay(Resting)
    BY <2>1 DEF FoundOnce, JobKeepsDay, Alerting
  <2>3. AlertTypes
    BY <2>1 DEF StatsInit, AlertTypes
  <2>4. SentOrCut /\ ToldApart
    BY <2>1 DEF StatsInit, SentOrCut, ToldApart
  <2> QED BY <2>2, <2>3, <2>4 DEF StatsInit, AlertIInv, DayKept
<1>2. AlertIInv /\ [StatsNext]_statsVars => AlertIInv'
  <2>1. AlertIInv /\ UNCHANGED statsVars => AlertIInv'
    BY DEF statsVars, AlertIInv, AlertTypes, FoundOnce, SentOrCut, DayKept, ToldApart, JobKeepsDay, Rested, Sole
  <2>2. AlertIInv /\ StatsNext => AlertIInv'
    <3> SUFFICES ASSUME AlertIInv, StatsNext PROVE AlertIInv'
      OBVIOUS
    <3>1. ASSUME NEW o \in Owners, SetThreshold(o) \/ DisableThreshold(o) \/ DeleteThreshold(o) PROVE AlertIInv'
      BY <3>1, OwnersKeep
    <3>2. ASSUME NEW r \in Replicas,
                 TakeStatsJob(r) \/ ComputeTvl(r) \/ WriteRow(r) \/ WriteCache(r) \/ RecordTvlSnapshot(r) \/ PoolFails(r)
          PROVE  AlertIInv'
      BY <3>2, FiguresKeep
    <3>3. ASSUME NEW r \in Replicas, FindDue(r) \/ LogAlert(r) \/ MarkTriggered(r) PROVE AlertIInv'
      BY <3>3, FindDueKeeps, LogKeeps, MarkKeeps
    <3>4. ASSUME NEW r \in Replicas, DispatchAlert(r) \/ AlertThrows(r) \/ StatsCrash(r) PROVE AlertIInv'
      BY <3>4, DispatchKeeps, FailuresKeep
    <3>5. CASE ScheduleAggregation
      BY <3>5, CronKeeps
    <3> QED BY <3>1, <3>2, <3>3, <3>4, <3>5 DEF StatsNext
  <2> QED BY <2>1, <2>2
<1> QED BY <1>1, <1>2, AlertIImplies, PTL DEF StatsSpec

-----------------------------------------------------------------------------
(* Live prices.  A watched pool has its channel, or a command under way restores it and none after *)
(* it gives the pool up; the last message about a pool carries its latest price, unless it is yet  *)
(* to be published or a publication was lost, and a client that has heard another one awaits it.   *)
FanoutCommands == [verb : {"subscribe", "unsubscribe"}, pools : SUBSET Pools]
PriceMessages == [pool : Pools, n : Nat]

FanoutTypes ==
  /\ socket \in [Clients -> {"new", "open", "closed"}]
  /\ subscriptions \in [Pools -> SUBSET Clients]
  /\ clientPools \in [Clients -> SUBSET Pools]
  /\ channels \subseteq Pools /\ pipe \in Seq(FanoutCommands)
  /\ latest \in [Pools -> Nat] /\ heard \in [Clients -> [Pools -> Nat]]
  /\ publishing \in Seq(PriceMessages) /\ inbox \in Seq(PriceMessages)
  /\ publishLost \subseteq Pools
  /\ \A c \in Clients : IsFiniteSet(clientPools[c])

Opens(m, p) == m.verb = "subscribe" /\ p \in m.pools
Drops(m, p) == m.verb # "subscribe" /\ p \in m.pools

(* Once the commands s have run, the connection listens to p.              *)
Covers(ch, s, p) ==
  \/ p \in ch /\ \A i \in 1..Len(s) : ~Drops(s[i], p)
  \/ \E k \in 1..Len(s) : Opens(s[k], p) /\ \A i \in (k + 1)..Len(s) : ~Drops(s[i], p)

(* A watched pool has its channel, or a command under way restores it.     *)
WatchedCovered == subscriberUp => \A p \in Watched : Covers(channels, pipe, p)

(* Messages about p in s, and what the last of them says.                  *)
Holds(s, p) == \E k \in 1..Len(s) : s[k].pool = p
LastSays(s, p, n) ==
  \A k \in 1..Len(s) :
    s[k].pool = p /\ (\A i \in (k + 1)..Len(s) : s[i].pool # p) => s[k].n = n

OnItsWay(p) == publishing # <<>> /\ Head(publishing).pool = p
Coming(p) == OnItsWay(p) \/ Holds(inbox, p)

(* Nobody heard a pool it does not watch; a price not yet published is the *)
(* latest; and, unless a publication was lost, the last message about a    *)
(* pool carries its latest price, and whoever has another waits for it.    *)
SilentOutside == \A c \in Clients, p \in Pools : c \notin subscriptions[p] => heard[c][p] = 0
PublishesLatest == publishing # <<>> => Head(publishing).n = latest[Head(publishing).pool]
LastIsLatest == \A p \in Pools \ publishLost : OnItsWay(p) \/ LastSays(inbox, p, latest[p])
HeardOrComing ==
  \A p \in Pools \ publishLost : \A c \in subscriptions[p] :
    heard[c][p] \in {0, latest[p]} \/ Coming(p)

PricesFit == SilentOutside /\ PublishesLatest /\ LastIsLatest /\ HeardOrComing
FanoutIInv == FanoutTypes /\ MapsAgree /\ WatchedCovered /\ PricesFit

LEMMA CoversAppend ==
  ASSUME NEW ch, NEW s \in Seq(FanoutCommands), NEW m \in FanoutCommands, NEW p,
         Opens(m, p) \/ (Covers(ch, s, p) /\ ~Drops(m, p))
  PROVE  Covers(ch, Append(s, m), p)
<1> DEFINE t == Append(s, m)
<1>1. /\ t \in Seq(FanoutCommands) /\ Len(t) = Len(s) + 1 /\ Len(s) \in Nat
      /\ t[Len(s) + 1] = m /\ \A i \in 1..Len(s) : t[i] = s[i]
  OBVIOUS
<1> HIDE DEF t
<1>2. CASE Opens(m, p)
  <2>1. Len(t) \in 1..Len(t) /\ Opens(t[Len(t)], p) /\ (Len(t) + 1)..Len(t) = {}
    BY <1>1, <1>2
  <2> QED BY <2>1 DEF Covers, t
<1>3. CASE Covers(ch, s, p) /\ ~Drops(m, p)
  <2>1. CASE p \in ch /\ \A i \in 1..Len(s) : ~Drops(s[i], p)
    <3>1. \A i \in 1..Len(t) : ~Drops(t[i], p)
      <4> TAKE i \in 1..Len(t)
      <4>1. i \in 1..Len(s) \/ i = Len(s) + 1
        BY <1>1
      <4> QED BY <4>1, <1>1, <1>3, <2>1
    <3> QED BY <2>1, <3>1 DEF Covers, t
  <2>2. ASSUME NEW k \in 1..Len(s), Opens(s[k], p), \A i \in (k + 1)..Len(s) : ~Drops(s[i], p)
        PROVE  Covers(ch, t, p)
    <3>1. k \in 1..Len(t) /\ Opens(t[k], p)
      BY <1>1, <2>2
    <3>2. \A i \in (k + 1)..Len(t) : ~Drops(t[i], p)
      <4> TAKE i \in (k + 1)..Len(t)
      <4>1. (i \in (k + 1)..Len(s) /\ i \in 1..Len(s)) \/ i = Len(s) + 1
        BY <1>1
      <4> QED BY <4>1, <1>1, <1>3, <2>2
    <3> QED BY <3>1, <3>2 DEF Covers
  <2> QED BY <2>1, <2>2, <1>3 DEF Covers, t
<1> QED BY <1>2, <1>3

LEMMA TailParts ==
  ASSUME NEW S, NEW s \in Seq(S), s # <<>>
  PROVE  /\ Head(s) \in S /\ Head(s) = s[1] /\ 1 \in 1..Len(s) /\ Len(s) \in Nat
         /\ Tail(s) \in Seq(S) /\ Len(Tail(s)) = Len(s) - 1
         /\ \A i \in 1..(Len(s) - 1) : Tail(s)[i] = s[i + 1]
OBVIOUS

LEMMA CoversTail ==
  ASSUME NEW ch, NEW s \in Seq(FanoutCommands), s # <<>>, NEW p, Covers(ch, s, p)
  PROVE  Covers(IF Head(s).verb = "subscribe" THEN ch \cup Head(s).pools
                ELSE ch \ Head(s).pools, Tail(s), p)
<1> DEFINE t == Tail(s)
           after == IF Head(s).verb = "subscribe" THEN ch \cup Head(s).pools ELSE ch \ Head(s).pools
<1>1. /\ Head(s) = s[1] /\ Len(s) \in Nat /\ Len(t) = Len(s) - 1 /\ 1 \in 1..Len(s)
      /\ \A i \in 1..Len(t) : t[i] = s[i + 1] /\ i + 1 \in 1..Len(s)
  BY TailParts
<1>2. Opens(s[1], p) \/ (p \in ch /\ ~Drops(s[1], p)) => p \in after
  BY <1>1 DEF Opens, Drops
<1> HIDE DEF t, after
<1>3. CASE p \in ch /\ \A i \in 1..Len(s) : ~Drops(s[i], p)
  <2>1. p \in after /\ \A i \in 1..Len(t) : ~Drops(t[i], p)
    BY <1>1, <1>2, <1>3
  <2> QED BY <2>1 DEF Covers, t, after
<1>4. ASSUME NEW k \in 1..Len(s), Opens(s[k], p), \A i \in (k + 1)..Len(s) : ~Drops(s[i], p)
      PROVE  Covers(after, t, p)
  <2>1. CASE k = 1
    <3>1. \A i \in 1..Len(t) : ~Drops(t[i], p)
      <4> TAKE i \in 1..Len(t)
      <4>1. i + 1 \in (k + 1)..Len(s)
        BY <1>1, <2>1
      <4> QED BY <4>1, <1>1, <1>4
    <3> QED BY <3>1, <2>1, <1>2, <1>4 DEF Covers
  <2>2. CASE k # 1
    <3>1. k - 1 \in 1..Len(t) /\ (k - 1) + 1 = k
      BY <1>1, <2>2
    <3>2. Opens(t[k - 1], p)
      BY <3>1, <1>1, <1>4
    <3>3. \A i \in ((k - 1) + 1)..Len(t) : ~Drops(t[i], p)
      <4> TAKE i \in ((k - 1) + 1)..Len(t)
      <4>1. i \in 1..Len(t) /\ i + 1 \in (k + 1)..Len(s)
        BY <1>1, <3>1
      <4> QED BY <4>1, <1>1, <1>4
    <3> QED BY <3>1, <3>2, <3>3 DEF Covers
  <2> QED BY <2>1, <2>2
<1> QED BY <1>3, <1>4 DEF Covers, t, after

LEMMA HoldsAppend ==
  ASSUME NEW s \in Seq(PriceMessages), NEW m \in PriceMessages, NEW p
  PROVE  Holds(Append(s, m), p) <=> Holds(s, p) \/ m.pool = p
<1> DEFINE t == Append(s, m)
<1>1. /\ Len(t) = Len(s) + 1 /\ Len(s) \in Nat
      /\ t[Len(s) + 1] = m /\ \A i \in 1..Len(s) : t[i] = s[i] /\ i \in 1..Len(t)
  OBVIOUS
<1> HIDE DEF t
<1>2. ASSUME NEW k \in 1..Len(t), t[k].pool = p PROVE Holds(s, p) \/ m.pool = p
  <2>1. k \in 1..Len(s) \/ k = Len(s) + 1
    BY <1>1
  <2> QED BY <2>1, <1>1, <1>2 DEF Holds
<1>3. ASSUME m.pool = p PROVE Holds(t, p)
  <2>1. Len(s) + 1 \in 1..Len(t)
    BY <1>1
  <2> QED BY <2>1, <1>1, <1>3 DEF Holds
<1>4. Holds(s, p) => Holds(t, p)
  BY <1>1 DEF Holds
<1> QED BY <1>2, <1>3, <1>4 DEF Holds, t

LEMMA LastAppend ==
  ASSUME NEW s \in Seq(PriceMessages), NEW m \in PriceMessages, NEW p, NEW n,
         (m.pool = p /\ m.n = n) \/ (m.pool # p /\ LastSays(s, p, n))
  PROVE  LastSays(Append(s, m), p, n)
<1> DEFINE t == Append(s, m)
<1>1. /\ Len(t) = Len(s) + 1 /\ Len(s) \in Nat
      /\ t[Len(s) + 1] = m /\ \A i \in 1..Len(s) : t[i] = s[i]
  OBVIOUS
<1> HIDE DEF t
<1>2. ASSUME NEW k \in 1..Len(t), t[k].pool = p, \A i \in (k + 1)..Len(t) : t[i].pool # p
      PROVE  t[k].n = n
  <2>1. CASE k = Len(s) + 1
    BY <2>1, <1>1, <1>2
  <2>2. CASE k # Len(s) + 1
    <3>1. k \in 1..Len(s) /\ Len(s) + 1 \in (k + 1)..Len(t)
      BY <1>1, <2>2
    <3>2. m.pool # p
      BY <3>1, <1>1, <1>2
    <3>3. \A i \in (k + 1)..Len(s) : s[i].pool # p
      <4> TAKE i \in (k + 1)..Len(s)
      <4>1. i \in 1..Len(s) /\ i \in (k + 1)..Len(t)
        BY <1>1
      <4> QED BY <4>1, <1>1, <1>2
    <3> QED BY <3>1, <3>2, <3>3, <1>1, <1>2 DEF LastSays
  <2> QED BY <2>1, <2>2
<1> QED BY <1>2 DEF LastSays, t

LEMMA HoldsTail ==
  ASSUME NEW s \in Seq(PriceMessages), s # <<>>, NEW p, Holds(s, p)
  PROVE  Head(s).pool = p \/ Holds(Tail(s), p)
<1>1. PICK k \in 1..Len(s) : s[k].pool = p
  BY DEF Holds
<1>2. Head(s) = s[1] /\ Len(s) \in Nat /\ Len(Tail(s)) = Len(s) - 1
      /\ \A i \in 1..(Len(s) - 1) : Tail(s)[i] = s[i + 1]
  BY TailParts
<1>3. CASE k = 1
  BY <1>1, <1>2, <1>3
<1>4. CASE k # 1
  <2>1. k - 1 \in 1..(Len(s) - 1) /\ (k - 1) + 1 = k
    BY <1>2, <1>4
  <2> QED BY <2>1, <1>1, <1>2 DEF Holds
<1> QED BY <1>3, <1>4

LEMMA LastTail ==
  ASSUME NEW s \in Seq(PriceMessages), s # <<>>, NEW p, NEW n, LastSays(s, p, n)
  PROVE  /\ LastSays(Tail(s), p, n)
         /\ Head(s).pool = p /\ ~Holds(Tail(s), p) => Head(s).n = n
<1> DEFINE t == Tail(s)
<1>1. /\ Head(s) = s[1] /\ Len(s) \in Nat /\ Len(t) = Len(s) - 1 /\ 1 \in 1..Len(s)
      /\ \A i \in 1..Len(t) : t[i] = s[i + 1]
  BY TailParts
<1> HIDE DEF t
<1>2. ASSUME NEW k \in 1..Len(t), t[k].pool = p, \A i \in (k + 1)..Len(t) : t[i].pool # p
      PROVE  t[k].n = n
  <2>1. k + 1 \in 1..Len(s) /\ t[k] = s[k + 1]
    BY <1>1
  <2>2. \A i \in ((k + 1) + 1)..Len(s) : s[i].pool # p
    <3> TAKE i \in ((k + 1) + 1)..Len(s)
    <3>1. i - 1 \in (k + 1)..Len(t) /\ i - 1 \in 1..Len(t) /\ (i - 1) + 1 = i
      BY <1>1
    <3>2. t[i - 1] = s[(i - 1) + 1]
      BY <3>1, <1>1
    <3> QED BY <3>1, <3>2, <1>2
  <2> QED BY <2>1, <2>2, <1>2 DEF LastSays
<1>3. ASSUME Head(s).pool = p, ~Holds(t, p) PROVE Head(s).n = n
  <2>1. \A i \in (1 + 1)..Len(s) : s[i].pool # p
    <3> TAKE i \in (1 + 1)..Len(s)
    <3>1. i - 1 \in 1..Len(t) /\ (i - 1) + 1 = i
      BY <1>1
    <3>2. t[i - 1] = s[(i - 1) + 1]
      BY <3>1, <1>1
    <3> QED BY <3>1, <3>2, <1>3 DEF Holds
  <2> QED BY <2>1, <1>1, <1>3 DEF LastSays
<1> QED BY <1>2, <1>3 DEF LastSays, t

LEMMA SuffixTyped ==
  ASSUME NEW S, NEW s \in Seq(S), NEW keep \in 0..Len(s)
  PROVE  SubSeq(s, Len(s) - keep + 1, Len(s)) \in Seq(S)
OBVIOUS

LEMMA FanoutInitHolds == FanoutInit => FanoutIInv
<1> SUFFICES ASSUME FanoutInit PROVE FanoutIInv
  OBVIOUS
<1>1. FanoutTypes
  BY FanoutAssumption, FS_EmptySet DEF FanoutInit, FanoutTypes
<1>2. MapsAgree
  BY FS_EmptySet, FanoutAssumption DEF FanoutInit, MapsAgree
<1>3. WatchedCovered
  BY DEF FanoutInit, WatchedCovered, Watched
<1>4. PricesFit
  BY DEF FanoutInit, PricesFit, SilentOutside, PublishesLatest, LastIsLatest, HeardOrComing, LastSays
<1> QED BY <1>1, <1>2, <1>3, <1>4 DEF FanoutIInv

(* Steps that leave the relation and the subscription's commands alone.    *)
LEMMA RelationStands ==
  ASSUME FanoutIInv, UNCHANGED <<subscriptions, clientPools>>,
         \A c \in Clients : socket'[c] # "open" => socket[c] # "open"
  PROVE  MapsAgree' /\ Watched' = Watched
BY DEF FanoutIInv, MapsAgree, Watched

LEMMA CoverStands ==
  ASSUME FanoutIInv, UNCHANGED <<subscriptions, channels, pipe, subscriberUp>>
  PROVE  WatchedCovered'
BY DEF FanoutIInv, WatchedCovered, Watched

LEMMA PricesStand ==
  ASSUME FanoutIInv, UNCHANGED <<subscriptions, heard>>, pricesUnchanged
  PROVE  PricesFit'
BY DEF FanoutIInv, PricesFit, SilentOutside, PublishesLatest, LastIsLatest, HeardOrComing,
       pricesUnchanged, OnItsWay, Coming

LEMMA ConnectKeeps ==
  ASSUME FanoutIInv, NEW c \in Clients, Connect(c) PROVE FanoutIInv'
<1>1. FanoutTypes'
  BY DEF FanoutIInv, FanoutTypes, Connect, pricesUnchanged
<1>2. MapsAgree'
  BY DEF FanoutIInv, FanoutTypes, Connect, MapsAgree
<1>3. WatchedCovered'
  BY CoverStands DEF Connect
<1>4. PricesFit'
  BY PricesStand DEF Connect
<1> QED BY <1>1, <1>2, <1>3, <1>4 DEF FanoutIInv

LEMMA OneMore ==
  ASSUME NEW S, IsFiniteSet(S), NEW x
  PROVE  /\ IsFiniteSet(S \cup {x}) /\ Cardinality(S \cup {x}) <= Cardinality(S) + 1
         /\ Cardinality(S) \in Nat /\ Cardinality(S \cup {x}) \in Nat
<1>1. IsFiniteSet(S \cup {x}) /\ (Cardinality(S \cup {x}) = Cardinality(S)
                                  \/ Cardinality(S \cup {x}) = Cardinality(S) + 1)
  BY FS_AddElement
<1>2. Cardinality(S) \in Nat
  BY FS_CardinalityType
<1> QED BY <1>1, <1>2

LEMMA SubscribeKeeps ==
  ASSUME FanoutIInv, NEW c \in Clients, NEW p \in Pools, Subscribe(c, p) PROVE FanoutIInv'
<1> DEFINE m == Command("subscribe", {p})
<1>1. m \in FanoutCommands /\ Opens(m, p) /\ \A q : ~Drops(m, q)
  BY DEF Command, FanoutCommands, Opens, Drops
<1> HIDE DEF m
<1>2. /\ subscriptions' = [subscriptions EXCEPT ![p] = subscriptions[p] \cup {c}]
      /\ clientPools' = [clientPools EXCEPT ![c] = clientPools[c] \cup {p}]
      /\ pipe' = IF p \in Watched THEN pipe ELSE Append(pipe, m)
      /\ socket[c] = "open" /\ Cardinality(clientPools[c]) < MaxSubscriptions
      /\ UNCHANGED <<socket, channels, subscriberUp, heard>> /\ pricesUnchanged
  BY DEF Subscribe, m
<1>3. /\ FanoutTypes /\ MapsAgree /\ WatchedCovered /\ PricesFit
      /\ pipe \in Seq(FanoutCommands) /\ subscriptions \in [Pools -> SUBSET Clients]
      /\ clientPools \in [Clients -> SUBSET Pools] /\ IsFiniteSet(clientPools[c])
  BY DEF FanoutIInv, FanoutTypes
<1>4. /\ IsFiniteSet(clientPools[c] \cup {p})
      /\ Cardinality(clientPools[c] \cup {p}) <= Cardinality(clientPools[c]) + 1
      /\ Cardinality(clientPools[c]) \in Nat
      /\ Cardinality(clientPools[c] \cup {p}) \in Nat
  BY <1>3, OneMore
<1>5. /\ subscriptions' \in [Pools -> SUBSET Clients] /\ clientPools' \in [Clients -> SUBSET Pools]
      /\ subscriptions'[p] = subscriptions[p] \cup {c} /\ clientPools'[c] = clientPools[c] \cup {p}
      /\ \A q \in Pools \ {p} : subscriptions'[q] = subscriptions[q]
      /\ \A d \in Clients \ {c} : clientPools'[d] = clientPools[d]
  BY <1>2, <1>3
<1>6. FanoutTypes'
  <2>1. pipe' \in Seq(FanoutCommands)
    BY <1>1, <1>2, <1>3
  <2>2. \A d \in Clients : IsFiniteSet(clientPools'[d])
    BY <1>3, <1>4, <1>5 DEF FanoutTypes
  <2> QED BY <2>1, <2>2, <1>2, <1>3, <1>5 DEF FanoutTypes, pricesUnchanged
<1>7. MapsAgree'
  <2> SUFFICES ASSUME NEW d \in Clients
               PROVE  /\ clientPools'[d] = {q \in Pools : d \in subscriptions'[q]}
                      /\ socket'[d] # "open" => clientPools'[d] = {}
                      /\ Cardinality(clientPools'[d]) <= MaxSubscriptions
    BY DEF MapsAgree
  <2>0. MaxSubscriptions \in Nat
    BY FanoutAssumption
  <2>1. CASE d = c
    <3>1. clientPools[c] = {q \in Pools : c \in subscriptions[q]}
      BY <1>3 DEF MapsAgree
    <3>2. clientPools'[c] = {q \in Pools : c \in subscriptions'[q]}
      BY <3>1, <1>5
    <3>3. Cardinality(clientPools'[c]) <= MaxSubscriptions
      BY <1>2, <1>4, <1>5, <2>0
    <3> QED BY <3>2, <3>3, <2>1, <1>2
  <2>2. CASE d # c
    <3>1. \A q \in Pools : d \in subscriptions'[q] <=> d \in subscriptions[q]
      BY <1>5, <2>2
    <3> QED BY <3>1, <2>2, <1>2, <1>3, <1>5 DEF MapsAgree
  <2> QED BY <2>1, <2>2
<1>8. WatchedCovered'
  <2> SUFFICES ASSUME subscriberUp, NEW q \in Watched' PROVE Covers(channels, pipe', q)
    BY <1>2 DEF WatchedCovered
  <2>1. q \in Watched \/ (q = p /\ p \notin Watched)
    BY <1>5 DEF Watched
  <2>2. q \in Watched => Covers(channels, pipe, q)
    BY <1>3 DEF WatchedCovered
  <2>3. CASE p \in Watched
    BY <2>1, <2>2, <2>3, <1>2
  <2>4. CASE p \notin Watched
    BY <2>1, <2>2, <2>4, <1>1, <1>2, <1>3, CoversAppend
  <2> QED BY <2>3, <2>4
<1>9. PricesFit'
  <2>1. SilentOutside'
    BY <1>2, <1>3, <1>5 DEF PricesFit, SilentOutside
  <2>2. PublishesLatest' /\ LastIsLatest'
    BY <1>2, <1>3 DEF PricesFit, PublishesLatest, LastIsLatest, OnItsWay, pricesUnchanged
  <2>3. HeardOrComing'
    <3> SUFFICES ASSUME NEW q \in Pools \ publishLost, NEW d \in subscriptions'[q]
                 PROVE  heard[d][q] \in {0, latest[q]} \/ Coming(q)
      BY <1>2 DEF HeardOrComing, Coming, OnItsWay, pricesUnchanged
    <3>1. CASE d \in subscriptions[q]
      BY <3>1, <1>3 DEF PricesFit, HeardOrComing
    <3>2. CASE d \notin subscriptions[q]
      <4>1. d \in Clients
        BY <1>5
      <4> QED BY <4>1, <3>2, <1>3 DEF PricesFit, SilentOutside
    <3> QED BY <3>1, <3>2
  <2> QED BY <2>1, <2>2, <2>3 DEF PricesFit
<1> QED BY <1>6, <1>7, <1>8, <1>9 DEF FanoutIInv

(* A client that leaves pools leaves the rest as it was.                   *)
LEMMA LeaveKeeps ==
  ASSUME FanoutIInv, NEW c \in Clients, NEW ps \in SUBSET Pools, Leave(c, ps),
         UNCHANGED <<channels, subscriberUp>>, pricesUnchanged,
         socket' \in [Clients -> {"new", "open", "closed"}],
         \A d \in Clients : socket'[d] # "open" => socket[d] # "open" \/ (d = c /\ ps = clientPools[c])
  PROVE  FanoutIInv'
<1> DEFINE gone == GivenUp(c, ps)
           m == Command("unsubscribe", gone)
<1>1. /\ m \in FanoutCommands /\ gone \subseteq Pools
      /\ \A q : ~(q \in gone) => ~Drops(m, q)
      /\ \A q \in Pools : q \in gone <=> q \in ps /\ subscriptions[q] = {c}
  BY DEF Command, FanoutCommands, Drops, GivenUp
<1>2. /\ subscriptions' = [q \in Pools |-> IF q \in ps THEN subscriptions[q] \ {c} ELSE subscriptions[q]]
      /\ clientPools' = [clientPools EXCEPT ![c] = clientPools[c] \ ps]
      /\ heard' = [heard EXCEPT ![c] = [q \in Pools |-> IF q \in ps THEN 0 ELSE heard[c][q]]]
      /\ pipe' = IF gone = {} THEN pipe ELSE Append(pipe, m)
  BY DEF Leave
<1> HIDE DEF m, gone
<1>3. /\ FanoutTypes /\ MapsAgree /\ WatchedCovered /\ PricesFit
      /\ pipe \in Seq(FanoutCommands) /\ subscriptions \in [Pools -> SUBSET Clients]
      /\ clientPools \in [Clients -> SUBSET Pools] /\ IsFiniteSet(clientPools[c])
      /\ heard \in [Clients -> [Pools -> Nat]]
  BY DEF FanoutIInv, FanoutTypes
<1>4. /\ IsFiniteSet(clientPools[c] \ ps)
      /\ Cardinality(clientPools[c] \ ps) <= Cardinality(clientPools[c])
      /\ Cardinality(clientPools[c]) \in Nat
      /\ Cardinality(clientPools[c] \ ps) \in Nat
  BY <1>3, FS_Subset, FS_CardinalityType
<1>5. /\ subscriptions' \in [Pools -> SUBSET Clients] /\ clientPools' \in [Clients -> SUBSET Pools]
      /\ clientPools'[c] = clientPools[c] \ ps
      /\ \A q \in Pools, d \in Clients :
           d \in subscriptions'[q] <=> d \in subscriptions[q] /\ ~(d = c /\ q \in ps)
      /\ \A d \in Clients \ {c} : clientPools'[d] = clientPools[d]
  BY <1>2, <1>3
<1>6. /\ heard' \in [Clients -> [Pools -> Nat]]
      /\ \A q \in Pools : heard'[c][q] = IF q \in ps THEN 0 ELSE heard[c][q]
      /\ \A d \in Clients \ {c} : heard'[d] = heard[d]
  BY <1>2, <1>3
<1>7. FanoutTypes'
  <2>1. pipe' \in Seq(FanoutCommands)
    BY <1>1, <1>2, <1>3
  <2>2. \A d \in Clients : IsFiniteSet(clientPools'[d])
    BY <1>3, <1>4, <1>5 DEF FanoutTypes
  <2> QED BY <2>1, <2>2, <1>3, <1>5, <1>6 DEF FanoutTypes, pricesUnchanged
<1>8. MapsAgree'
  <2> SUFFICES ASSUME NEW d \in Clients
               PROVE  /\ clientPools'[d] = {q \in Pools : d \in subscriptions'[q]}
                      /\ socket'[d] # "open" => clientPools'[d] = {}
                      /\ Cardinality(clientPools'[d]) <= MaxSubscriptions
    BY DEF MapsAgree
  <2>0. MaxSubscriptions \in Nat
    BY FanoutAssumption
  <2>1. /\ clientPools[d] = {q \in Pools : d \in subscriptions[q]}
        /\ socket[d] # "open" => clientPools[d] = {}
        /\ Cardinality(clientPools[d]) <= MaxSubscriptions
    BY <1>3 DEF MapsAgree
  <2>2. CASE d = c
    <3>1. clientPools'[c] = {q \in Pools : c \in subscriptions'[q]}
      BY <2>1, <2>2, <1>5
    <3>2. Cardinality(clientPools[c]) <= MaxSubscriptions /\ clientPools'[c] = clientPools[c] \ ps
      BY <1>5, <2>1, <2>2
    <3>4. Cardinality(clientPools[c] \ ps) <= MaxSubscriptions
      BY <3>2, <1>4, <2>0
    <3>3. socket'[c] # "open" => clientPools'[c] = {}
      BY <2>1, <2>2, <1>5
    <3> QED BY <3>1, <3>2, <3>3, <3>4, <2>2
  <2>3. CASE d # c
    <3>1. \A q \in Pools : d \in subscriptions'[q] <=> d \in subscriptions[q]
      BY <1>5, <2>3
    <3> QED BY <3>1, <2>1, <2>3, <1>5
  <2> QED BY <2>2, <2>3
<1>9. WatchedCovered'
  <2> SUFFICES ASSUME subscriberUp, NEW q \in Watched' PROVE Covers(channels, pipe', q)
    BY DEF WatchedCovered
  <2>1. PICK d \in Clients : q \in Pools /\ d \in subscriptions'[q]
    BY <1>5 DEF Watched
  <2>2. d \in subscriptions[q] /\ ~(d = c /\ q \in ps)
    BY <2>1, <1>5
  <2>3. q \in Watched /\ q \notin gone
    BY <2>1, <2>2, <1>1 DEF Watched
  <2>4. Covers(channels, pipe, q)
    BY <2>3, <1>3 DEF WatchedCovered
  <2> QED BY <2>3, <2>4, <1>1, <1>2, <1>3, CoversAppend
<1>10. PricesFit'
  <2>1. SilentOutside'
    <3> SUFFICES ASSUME NEW d \in Clients, NEW q \in Pools, d \notin subscriptions'[q]
                 PROVE  heard'[d][q] = 0
      BY DEF SilentOutside
    <3>1. d \in subscriptions[q] \/ heard[d][q] = 0
      BY <1>3 DEF PricesFit, SilentOutside
    <3>2. CASE d = c
      BY <3>1, <3>2, <1>5, <1>6
    <3>3. CASE d # c
      BY <3>1, <3>3, <1>5, <1>6
    <3> QED BY <3>2, <3>3
  <2>2. PublishesLatest' /\ LastIsLatest'
    BY <1>3 DEF PricesFit, PublishesLatest, LastIsLatest, OnItsWay, pricesUnchanged
  <2>3. HeardOrComing'
    <3> SUFFICES ASSUME NEW q \in Pools \ publishLost, NEW d \in subscriptions'[q]
                 PROVE  heard'[d][q] \in {0, latest[q]} \/ Coming(q)
      BY DEF HeardOrComing, Coming, OnItsWay, pricesUnchanged
    <3>1. d \in Clients /\ d \in subscriptions[q] /\ ~(d = c /\ q \in ps)
      BY <1>5
    <3>2. heard'[d][q] = heard[d][q]
      BY <3>1, <1>6
    <3> QED BY <3>1, <3>2, <1>3 DEF PricesFit, HeardOrComing
  <2> QED BY <2>1, <2>2, <2>3 DEF PricesFit
<1> QED BY <1>7, <1>8, <1>9, <1>10 DEF FanoutIInv

LEMMA UnsubscribeKeeps ==
  ASSUME FanoutIInv, NEW c \in Clients, NEW p \in Pools, Unsubscribe(c, p) PROVE FanoutIInv'
<1>1. socket \in [Clients -> {"new", "open", "closed"}]
  BY DEF FanoutIInv, FanoutTypes
<1> QED BY <1>1, LeaveKeeps DEF Unsubscribe

LEMMA DisconnectKeeps ==
  ASSUME FanoutIInv, NEW c \in Clients, Disconnect(c) PROVE FanoutIInv'
<1>1. /\ socket \in [Clients -> {"new", "open", "closed"}] /\ clientPools[c] \in SUBSET Pools
      /\ socket' = [socket EXCEPT ![c] = "closed"]
  BY DEF FanoutIInv, FanoutTypes, Disconnect
<1>2. /\ socket' \in [Clients -> {"new", "open", "closed"}]
      /\ \A d \in Clients : socket'[d] # "open" => socket[d] # "open" \/ d = c
  BY <1>1
<1> QED BY <1>1, <1>2, LeaveKeeps DEF Disconnect, AllOf

LEMMA RunCommandKeeps ==
  ASSUME FanoutIInv, RunCommand PROVE FanoutIInv'
<1>1. /\ FanoutTypes /\ WatchedCovered /\ pipe \in Seq(FanoutCommands) /\ pipe # <<>>
      /\ UNCHANGED <<socket, subscriptions, clientPools, subscriberUp, heard>> /\ pricesUnchanged
      /\ channels' = (IF Head(pipe).verb = "subscribe" THEN channels \cup Head(pipe).pools
                      ELSE channels \ Head(pipe).pools)
      /\ pipe' = Tail(pipe)
  BY DEF FanoutIInv, FanoutTypes, RunCommand
<1>2. Head(pipe) \in FanoutCommands /\ pipe' \in Seq(FanoutCommands)
  BY <1>1, TailParts
<1>3. Head(pipe).pools \subseteq Pools
  BY <1>2 DEF FanoutCommands
<1>4. FanoutTypes'
  BY <1>1, <1>2, <1>3 DEF FanoutTypes, pricesUnchanged
<1>5. MapsAgree'
  BY <1>1, RelationStands
<1>6. WatchedCovered'
  BY <1>1, CoversTail DEF WatchedCovered, Watched
<1>7. PricesFit'
  BY <1>1, PricesStand
<1> QED BY <1>4, <1>5, <1>6, <1>7 DEF FanoutIInv

LEMMA SubscriberReadyKeeps ==
  ASSUME FanoutIInv, SubscriberReady PROVE FanoutIInv'
<1> DEFINE m == Command("subscribe", Watched)
<1>1. m \in FanoutCommands /\ \A p \in Watched : Opens(m, p)
  BY DEF Command, FanoutCommands, Opens, Watched
<1> HIDE DEF m
<1>2. /\ UNCHANGED <<socket, subscriptions, clientPools, channels, heard>> /\ pricesUnchanged
      /\ pipe' = IF Watched = {} THEN pipe ELSE Append(pipe, m)
  BY DEF SubscriberReady, m
<1>3. FanoutTypes /\ pipe \in Seq(FanoutCommands)
  BY DEF FanoutIInv, FanoutTypes
<1>4. FanoutTypes'
  <2>1. pipe' \in Seq(FanoutCommands)
    BY <1>1, <1>2, <1>3
  <2> QED BY <2>1, <1>2, <1>3 DEF FanoutTypes, pricesUnchanged
<1>5. MapsAgree' /\ Watched' = Watched
  BY <1>2, RelationStands
<1>6. WatchedCovered'
  <2> SUFFICES ASSUME NEW p \in Watched PROVE Covers(channels, pipe', p)
    BY <1>2, <1>5 DEF WatchedCovered
  <2>1. Covers(channels, Append(pipe, m), p)
    BY <1>1, <1>3, CoversAppend
  <2> QED BY <2>1, <1>2
<1>7. PricesFit'
  BY <1>2, PricesStand
<1> QED BY <1>4, <1>5, <1>6, <1>7 DEF FanoutIInv

LEMMA SubscriberDownKeeps ==
  ASSUME FanoutIInv, SubscriberDown PROVE FanoutIInv'
<1>1. /\ FanoutTypes /\ PricesFit /\ pipe \in Seq(FanoutCommands) /\ inbox \in Seq(PriceMessages)
      /\ UNCHANGED <<socket, subscriptions, clientPools, latest, publishing, heard>>
      /\ subscriberUp' = FALSE /\ channels' = {} /\ inbox' = <<>>
      /\ publishLost' = publishLost \cup {m.pool : m \in ToSet(inbox)}
  BY DEF FanoutIInv, FanoutTypes, SubscriberDown
<1>2. PICK keep \in 0..Len(pipe) : pipe' = SubSeq(pipe, Len(pipe) - keep + 1, Len(pipe))
  BY DEF SubscriberDown
<1>3. pipe' \in Seq(FanoutCommands)
  BY <1>1, <1>2, SuffixTyped
<1>4. \A i \in 1..Len(inbox) : inbox[i] \in ToSet(inbox) /\ inbox[i] \in PriceMessages
  BY <1>1 DEF ToSet
<1>5. publishLost' \subseteq Pools /\ \A p \in Pools \ publishLost' : p \notin publishLost /\ ~Holds(inbox, p)
  <2>1. \A x \in ToSet(inbox) : x \in PriceMessages
    BY <1>1 DEF ToSet
  <2>2. \A x \in PriceMessages : x.pool \in Pools
    BY DEF PriceMessages
  <2>3. publishLost \subseteq Pools
    BY <1>1 DEF FanoutTypes
  <2> QED BY <2>1, <2>2, <2>3, <1>1, <1>4 DEF Holds
<1>6. FanoutTypes'
  BY <1>1, <1>3, <1>5 DEF FanoutTypes
<1>7. MapsAgree'
  BY <1>1, RelationStands
<1>8. WatchedCovered'
  BY <1>1 DEF WatchedCovered
<1>9. PricesFit'
  <2>1. SilentOutside' /\ PublishesLatest'
    BY <1>1 DEF PricesFit, SilentOutside, PublishesLatest
  <2>2. LastIsLatest'
    <3>1. \A p, n : LastSays(<<>>, p, n)
      BY DEF LastSays
    <3> QED BY <3>1, <1>1 DEF LastIsLatest
  <2>3. HeardOrComing'
    BY <1>1, <1>5 DEF PricesFit, HeardOrComing, Coming, OnItsWay
  <2> QED BY <2>1, <2>2, <2>3 DEF PricesFit
<1> QED BY <1>6, <1>7, <1>8, <1>9 DEF FanoutIInv

(* A broadcast reaches the clients of the pool, and no other price moves.  *)
LEMMA BroadcastReaches ==
  ASSUME FanoutTypes, NEW p \in Pools, NEW n \in Nat, Broadcast(p, n)
  PROVE  /\ heard' \in [Clients -> [Pools -> Nat]]
         /\ \A c \in subscriptions[p] : heard'[c][p] = n
         /\ \A c \in Clients, q \in Pools :
              q # p \/ c \notin subscriptions[p] => heard'[c][q] = heard[c][q]
<1>1. heard \in [Clients -> [Pools -> Nat]] /\ subscriptions[p] \subseteq Clients
  BY DEF FanoutTypes
<1>2. \A c \in Clients : [heard[c] EXCEPT ![p] = n] \in [Pools -> Nat]
  BY <1>1
<1>3. heard' \in [Clients -> [Pools -> Nat]]
  BY <1>1, <1>2 DEF Broadcast
<1>4. \A c \in Clients : heard'[c] = IF c \in subscriptions[p] THEN [heard[c] EXCEPT ![p] = n] ELSE heard[c]
  BY DEF Broadcast
<1> QED BY <1>1, <1>3, <1>4

LEMMA NewPriceKeeps ==
  ASSUME FanoutIInv, NEW p \in Pools, NewPrice(p) PROVE FanoutIInv'
<1> DEFINE m == [pool |-> p, n |-> latest[p] + 1]
<1>1. /\ FanoutTypes /\ PricesFit /\ latest \in [Pools -> Nat] /\ publishing = <<>>
      /\ latest' = [latest EXCEPT ![p] = latest[p] + 1] /\ latest[p] + 1 \in Nat
      /\ publishing' = <<m>> /\ Broadcast(p, latest[p] + 1)
      /\ UNCHANGED <<socket, subscriptions, clientPools, channels, pipe, subscriberUp, inbox, publishLost>>
  BY DEF FanoutIInv, FanoutTypes, NewPrice, PriceSent
<1>2. m \in PriceMessages /\ m.pool = p /\ m.n = latest[p] + 1
  BY <1>1 DEF PriceMessages
<1> HIDE DEF m
<1>3. publishing' \in Seq(PriceMessages) /\ publishing' # <<>> /\ Head(publishing') = m
  BY <1>1, <1>2
<1>4. /\ latest' \in [Pools -> Nat] /\ latest'[p] = latest[p] + 1
      /\ \A q \in Pools \ {p} : latest'[q] = latest[q]
  BY <1>1
<1>5. /\ heard' \in [Clients -> [Pools -> Nat]]
      /\ \A c \in Clients, q \in Pools :
              q # p \/ c \notin subscriptions[p] => heard'[c][q] = heard[c][q]
  BY <1>1, BroadcastReaches
<1>6. FanoutTypes'
  BY <1>1, <1>3, <1>4, <1>5 DEF FanoutTypes
<1>7. MapsAgree'
  BY <1>1, RelationStands
<1>8. WatchedCovered'
  BY <1>1, CoverStands
<1>9. PricesFit'
  <2>1. SilentOutside'
    BY <1>1, <1>5 DEF PricesFit, SilentOutside
  <2>2. PublishesLatest'
    BY <1>2, <1>3, <1>4 DEF PublishesLatest
  <2>3. OnItsWay(p)' /\ \A q \in Pools : ~OnItsWay(q)
    BY <1>1, <1>2, <1>3 DEF OnItsWay
  <2>4. LastIsLatest'
    <3> SUFFICES ASSUME NEW q \in Pools \ publishLost, q # p
                 PROVE  LastSays(inbox, q, latest'[q])
      BY <1>1, <2>3 DEF LastIsLatest
    <3> QED BY <1>1, <1>4, <2>3 DEF PricesFit, LastIsLatest
  <2>5. HeardOrComing'
    <3> SUFFICES ASSUME NEW q \in Pools \ publishLost, NEW c \in subscriptions[q], q # p
                 PROVE  heard'[c][q] \in {0, latest'[q]} \/ Holds(inbox, q)
      BY <1>1, <2>3 DEF HeardOrComing, Coming
    <3>1. c \in Clients
      BY <1>1 DEF FanoutTypes
    <3> QED BY <3>1, <1>1, <1>4, <1>5, <2>3 DEF PricesFit, HeardOrComing, Coming
  <2> QED BY <2>1, <2>2, <2>4, <2>5 DEF PricesFit
<1> QED BY <1>6, <1>7, <1>8, <1>9 DEF FanoutIInv

LEMMA PublishKeeps ==
  ASSUME FanoutIInv, Publish PROVE FanoutIInv'
<1> DEFINE m == Head(publishing)
<1>1. /\ FanoutTypes /\ PricesFit /\ publishing \in Seq(PriceMessages) /\ inbox \in Seq(PriceMessages)
      /\ publishing # <<>> /\ publishing' = <<>>
      /\ UNCHANGED <<socket, subscriptions, clientPools, channels, pipe, subscriberUp, latest, heard>>
  BY DEF FanoutIInv, FanoutTypes, Publish
<1>2. \/ inbox' = Append(inbox, m) /\ publishLost' = publishLost
      \/ inbox' = inbox /\ publishLost' = publishLost \cup {m.pool}
  BY DEF Publish
<1>3. m \in PriceMessages /\ m.n = latest[m.pool] /\ \A p \in Pools : OnItsWay(p) <=> m.pool = p
  BY <1>1, TailParts DEF OnItsWay, PricesFit, PublishesLatest
<1> HIDE DEF m
<1>4. m.pool \in Pools
  BY <1>3 DEF PriceMessages
<1>5. inbox' \in Seq(PriceMessages) /\ publishLost' \subseteq Pools /\ publishLost \subseteq publishLost'
  <2>1. publishLost \subseteq Pools
    BY <1>1 DEF FanoutTypes
  <2>2. publishLost' \subseteq Pools /\ publishLost \subseteq publishLost'
    BY <2>1, <1>2, <1>4
  <2>3. Append(inbox, m) \in Seq(PriceMessages)
    BY <1>1, <1>3
  <2> QED BY <2>2, <2>3, <1>1, <1>2
<1>6. FanoutTypes'
  BY <1>1, <1>5 DEF FanoutTypes
<1>7. MapsAgree'
  BY <1>1, RelationStands
<1>8. WatchedCovered'
  BY <1>1, CoverStands
<1>9. PricesFit'
  <2>1. SilentOutside' /\ PublishesLatest'
    BY <1>1 DEF PricesFit, SilentOutside, PublishesLatest
  <2>2. ASSUME NEW p \in Pools \ publishLost'
        PROVE  LastSays(inbox', p, latest[p]) /\ (Coming(p) => Holds(inbox', p))
    <3>1. p \in Pools \ publishLost /\ (m.pool = p \/ LastSays(inbox, p, latest[p]))
          /\ (Coming(p) <=> m.pool = p \/ Holds(inbox, p))
      BY <1>1, <1>3, <1>5, <2>2 DEF PricesFit, LastIsLatest, Coming
    <3>2. CASE inbox' = Append(inbox, m)
      BY <3>1, <3>2, <1>1, <1>3, LastAppend, HoldsAppend
    <3>3. CASE inbox' = inbox /\ publishLost' = publishLost \cup {m.pool}
      BY <3>1, <3>3, <2>2
    <3> QED BY <3>2, <3>3, <1>2
  <2>3. LastIsLatest'
    BY <2>2, <1>1 DEF LastIsLatest
  <2>4. HeardOrComing'
    BY <2>2, <1>1, <1>5 DEF PricesFit, HeardOrComing, Coming
  <2> QED BY <2>1, <2>3, <2>4 DEF PricesFit
<1> QED BY <1>6, <1>7, <1>8, <1>9 DEF FanoutIInv

LEMMA MessageKeeps ==
  ASSUME FanoutIInv, Message PROVE FanoutIInv'
<1>1. /\ FanoutTypes /\ PricesFit /\ inbox \in Seq(PriceMessages)
      /\ inbox # <<>> /\ inbox' = Tail(inbox) /\ Broadcast(Head(inbox).pool, Head(inbox).n)
      /\ UNCHANGED <<socket, subscriptions, clientPools, channels, pipe, subscriberUp, latest, publishing, publishLost>>
  BY DEF FanoutIInv, FanoutTypes, Message
<1>2. inbox' \in Seq(PriceMessages) /\ Head(inbox).pool \in Pools /\ Head(inbox).n \in Nat
  <2>1. Head(inbox) \in PriceMessages /\ inbox' \in Seq(PriceMessages)
    BY <1>1, TailParts
  <2> QED BY <2>1 DEF PriceMessages
<1>3. PICK p \in Pools : p = Head(inbox).pool
  BY <1>2
<1>4. PICK n \in Nat : n = Head(inbox).n
  BY <1>2
<1>5. /\ heard' \in [Clients -> [Pools -> Nat]]
      /\ \A c \in subscriptions[p] : heard'[c][p] = n
      /\ \A c \in Clients, q \in Pools :
              q # p \/ c \notin subscriptions[p] => heard'[c][q] = heard[c][q]
  BY <1>1, <1>3, <1>4, BroadcastReaches
<1>6. FanoutTypes'
  BY <1>1, <1>2, <1>5 DEF FanoutTypes
<1>7. MapsAgree'
  BY <1>1, RelationStands
<1>8. WatchedCovered'
  BY <1>1, CoverStands
<1>9. PricesFit'
  <2>1. SilentOutside'
    BY <1>1, <1>5 DEF PricesFit, SilentOutside
  <2>2. PublishesLatest'
    BY <1>1 DEF PricesFit, PublishesLatest
  <2>3. \A q : OnItsWay(q)' <=> OnItsWay(q)
    BY <1>1 DEF OnItsWay
  <2>4. \A q \in Pools \ publishLost : OnItsWay(q) \/ LastSays(inbox, q, latest[q])
    BY <1>1 DEF PricesFit, LastIsLatest
  <2>5. LastIsLatest'
    BY <2>3, <2>4, <1>1, LastTail DEF LastIsLatest
  <2>6. HeardOrComing'
    <3> SUFFICES ASSUME NEW q \in Pools \ publishLost, NEW c \in subscriptions[q],
                        ~OnItsWay(q), ~Holds(inbox', q)
                 PROVE  heard'[c][q] \in {0, latest[q]}
      BY <1>1, <2>3 DEF HeardOrComing, Coming
    <3>1. CASE q = p
      <4>1. n = latest[q]
        BY <3>1, <1>1, <1>3, <1>4, <2>4, LastTail
      <4> QED BY <4>1, <3>1, <1>5
    <3>2. CASE q # p
      <4>1. c \in Clients /\ ~Holds(inbox, q)
        BY <3>2, <1>1, <1>3, HoldsTail DEF FanoutTypes
      <4>2. heard[c][q] \in {0, latest[q]}
        BY <4>1, <1>1 DEF PricesFit, HeardOrComing, Coming
      <4> QED BY <4>1, <4>2, <3>2, <1>5
    <3> QED BY <3>1, <3>2
  <2> QED BY <2>1, <2>2, <2>5, <2>6 DEF PricesFit
<1> QED BY <1>6, <1>7, <1>8, <1>9 DEF FanoutIInv

LEMMA FanoutStutters ==
  ASSUME FanoutIInv, UNCHANGED fanoutVars PROVE FanoutIInv'
<1>1. FanoutTypes' /\ MapsAgree'
  BY DEF FanoutIInv, FanoutTypes, MapsAgree, fanoutVars
<1>2. WatchedCovered'
  BY CoverStands DEF fanoutVars
<1>3. PricesFit'
  BY PricesStand DEF fanoutVars, pricesUnchanged
<1> QED BY <1>1, <1>2, <1>3 DEF FanoutIInv

LEMMA FanoutIInvGives == FanoutIInv => FanoutInv
<1> SUFFICES ASSUME FanoutIInv PROVE FanoutInv
  OBVIOUS
<1>1. WatchedIsHeard
  <2> SUFFICES ASSUME subscriberUp, pipe = <<>>, NEW p \in Watched PROVE p \in channels
    BY DEF WatchedIsHeard
  <2>1. Covers(channels, <<>>, p)
    BY DEF FanoutIInv, WatchedCovered
  <2> QED BY <2>1 DEF Covers
<1>2. LatestHeardLast
  <2> SUFFICES ASSUME publishing = <<>>, inbox = <<>>,
                      NEW p \in Pools \ publishLost, NEW c \in subscriptions[p]
               PROVE  heard[c][p] \in {0, latest[p]}
    BY DEF LatestHeardLast
  <2>1. ~Holds(<<>>, p)
    BY DEF Holds
  <2> QED BY <2>1 DEF FanoutIInv, PricesFit, HeardOrComing, Coming, OnItsWay
<1> QED BY <1>1, <1>2 DEF FanoutIInv, FanoutInv

(* Live prices: the two maps of subscriptions mirror each other, with no   *)
(* closed socket in them and no client above the limit; a watched pool has *)
(* its channel as soon as the commands under way have run; and when all is *)
(* delivered a client's last price is the latest, unless a publication was *)
(* lost. For any clients, pools and limits.                                *)
THEOREM FanoutSound == FanoutSpec => []FanoutInv
<1>1. FanoutIInv /\ [FanoutNext]_fanoutVars => FanoutIInv'
  <2> SUFFICES ASSUME FanoutIInv, [FanoutNext]_fanoutVars PROVE FanoutIInv'
    OBVIOUS
  <2>1. CASE FanoutStep
    BY <2>1, RunCommandKeeps, SubscriberReadyKeeps, PublishKeeps, MessageKeeps DEF FanoutStep
  <2>2. CASE SubscriberDown
    BY <2>2, SubscriberDownKeeps
  <2>3. ASSUME NEW c \in Clients, Connect(c) \/ Disconnect(c) PROVE FanoutIInv'
    BY <2>3, ConnectKeeps, DisconnectKeeps
  <2>4. ASSUME NEW c \in Clients, NEW p \in Pools, Subscribe(c, p) \/ Unsubscribe(c, p)
        PROVE  FanoutIInv'
    BY <2>4, SubscribeKeeps, UnsubscribeKeeps
  <2>5. ASSUME NEW p \in Pools, NewPrice(p) PROVE FanoutIInv'
    BY <2>5, NewPriceKeeps
  <2>6. CASE UNCHANGED fanoutVars
    BY <2>6, FanoutStutters
  <2> QED BY <2>1, <2>2, <2>3, <2>4, <2>5, <2>6 DEF FanoutNext
<1> QED BY <1>1, FanoutInitHolds, FanoutIInvGives, PTL DEF FanoutSpec

-----------------------------------------------------------------------------
(* Candles.  Folding samples is associative, so that the candle of some periods can be split at any *)
(* point, and a swap of another period makes no difference.                                     *)

CandleRows == [open : Int, high : Int, low : Int, close : Int, volume : Int]
Cells == CandleRows \cup {NoCandle}

LEMMA RowIsThere == NoCandle \notin CandleRows
<1> SUFFICES ASSUME NoCandle \in CandleRows PROVE FALSE
  OBVIOUS
<1>1. DOMAIN NoCandle = {"open", "high", "low", "close", "volume"}
  BY DEF CandleRows
<1>2. "open" \notin DOMAIN NoCandle
  BY DEF NoCandle
<1> QED BY <1>1, <1>2

LEMMA Accumulates ==
  ASSUME NEW a \in Cells, NEW b \in Cells
  PROVE  Accumulate(a, b) \in Cells /\ (Accumulate(a, b) = NoCandle <=> a = NoCandle /\ b = NoCandle)
<1>1. CASE a \in CandleRows /\ b \in CandleRows
  <2>1. Accumulate(a, b) \in CandleRows
    BY <1>1, RowIsThere DEF Accumulate, CandleRows
  <2> QED BY <1>1, <2>1, RowIsThere DEF Cells
<1>2. CASE a = NoCandle \/ b = NoCandle
  BY <1>2 DEF Accumulate
<1> QED BY <1>1, <1>2 DEF Cells

LEMMA Associative ==
  ASSUME NEW a \in Cells, NEW b \in Cells, NEW c \in Cells
  PROVE  Accumulate(Accumulate(a, b), c) = Accumulate(a, Accumulate(b, c))
<1>1. CASE a = NoCandle
  BY <1>1 DEF Accumulate
<1>2. CASE b = NoCandle
  BY <1>2 DEF Accumulate
<1>3. CASE c = NoCandle
  BY <1>3 DEF Accumulate
<1>4. CASE a \in CandleRows /\ b \in CandleRows /\ c \in CandleRows
  <2>1. PICK ab \in CandleRows : ab = Accumulate(a, b)
    BY <1>4, Accumulates, RowIsThere DEF Cells
  <2>2. PICK bc \in CandleRows : bc = Accumulate(b, c)
    BY <1>4, Accumulates, RowIsThere DEF Cells
  <2>3. Accumulate(ab, c) = [open |-> ab.open, high |-> IF c.high > ab.high THEN c.high ELSE ab.high,
        low |-> IF c.low < ab.low THEN c.low ELSE ab.low, close |-> c.close, volume |-> ab.volume + c.volume]
    BY <1>4, RowIsThere DEF Accumulate
  <2>4. Accumulate(a, bc) = [open |-> a.open, high |-> IF bc.high > a.high THEN bc.high ELSE a.high,
        low |-> IF bc.low < a.low THEN bc.low ELSE a.low, close |-> bc.close, volume |-> a.volume + bc.volume]
    BY <1>4, RowIsThere DEF Accumulate
  <2>5. ab = [open |-> a.open, high |-> IF b.high > a.high THEN b.high ELSE a.high,
        low |-> IF b.low < a.low THEN b.low ELSE a.low, close |-> b.close, volume |-> a.volume + b.volume]
    BY <1>4, <2>1, RowIsThere DEF Accumulate
  <2>6. bc = [open |-> b.open, high |-> IF c.high > b.high THEN c.high ELSE b.high,
        low |-> IF c.low < b.low THEN c.low ELSE b.low, close |-> c.close, volume |-> b.volume + c.volume]
    BY <1>4, <2>2, RowIsThere DEF Accumulate
  <2>7. Accumulate(ab, c) = Accumulate(a, bc)
    BY <1>4, <2>3, <2>4, <2>5, <2>6 DEF CandleRows
  <2> QED BY <2>1, <2>2, <2>7
<1> QED BY <1>1, <1>2, <1>3, <1>4 DEF Cells

-----------------------------------------------------------------------------
(* Folding a sequence: what its first k members amount to. *)
Runs(f, n, s) == f = [k \in 0..n |-> IF k = 0 THEN NoCandle ELSE Accumulate(f[k - 1], s[k])]
Iterates(g, n, s) == g = [X \in SUBSET (1..n) |->
                            IF X = {} THEN NoCandle ELSE Accumulate(g[X \ {Max(X)}], s[Max(X)])]

LEMMA IteratesExtend ==
  ASSUME NEW n \in Nat, NEW s, NEW g, Iterates(g, n, s)
  PROVE  \E h : Iterates(h, n + 1, s)
<1> DEFINE h == [X \in SUBSET (1..(n + 1)) |->
                   IF X = {} THEN NoCandle ELSE Accumulate(g[X \ {Max(X)}], s[Max(X)])]
<1>1. \A X \in SUBSET (1..n) : h[X] = g[X]
  <2> SUFFICES ASSUME NEW X \in SUBSET (1..n) PROVE h[X] = g[X]
    OBVIOUS
  <2>1. X \in SUBSET (1..(n + 1))
    OBVIOUS
  <2>2. g[X] = IF X = {} THEN NoCandle ELSE Accumulate(g[X \ {Max(X)}], s[Max(X)])
    BY DEF Iterates
  <2> QED BY <2>1, <2>2
<1>2. \A X \in SUBSET (1..(n + 1)) : X # {} => X \ {Max(X)} \in SUBSET (1..n)
  <2> SUFFICES ASSUME NEW X \in SUBSET (1..(n + 1)), X # {}, NEW x \in X \ {Max(X)} PROVE x \in 1..n
    OBVIOUS
  <2>1. n + 1 \in Nat
    OBVIOUS
  <2>2. PICK m \in X : m = Max(X) /\ x <= m
    BY <2>1, MaxOf
  <2>3. m \in 1..(n + 1) /\ x \in 1..(n + 1) /\ x # m
    BY <2>2
  <2> QED BY <2>2, <2>3
<1>3. h = [X \in SUBSET (1..(n + 1)) |-> IF X = {} THEN NoCandle ELSE Accumulate(g[X \ {Max(X)}], s[Max(X)])]
  OBVIOUS
<1> HIDE DEF h
<1>4. \A X \in SUBSET (1..(n + 1)) : X # {} => h[X \ {Max(X)}] = g[X \ {Max(X)}]
  BY <1>1, <1>2
<1>5. h = [X \in SUBSET (1..(n + 1)) |-> IF X = {} THEN NoCandle ELSE Accumulate(h[X \ {Max(X)}], s[Max(X)])]
  BY <1>3, <1>4
<1> QED BY <1>5 DEF Iterates

LEMMA IteratesExist ==
  ASSUME NEW n \in Nat, NEW s
  PROVE  \E g : Iterates(g, n, s)
<1> DEFINE Bad == {k \in Nat : ~ \E g : Iterates(g, k, s)}
<1> SUFFICES ASSUME Bad # {} PROVE FALSE
  OBVIOUS
<1>1. PICK k \in Bad : \A j \in Bad : k <= j
  <2>1. Bad \subseteq Nat
    OBVIOUS
  <2> HIDE DEF Bad
  <2> QED BY <2>1, LeastNatural
<1>2. CASE k = 0
  <2>1. SUBSET (1..0) = {{}}
    OBVIOUS
  <2>2. Iterates([X \in SUBSET (1..0) |-> NoCandle], 0, s)
    BY <2>1 DEF Iterates
  <2> QED BY <1>1, <1>2, <2>2
<1>3. CASE k # 0
  <2>1. k - 1 \in Nat /\ k - 1 \notin Bad /\ (k - 1) + 1 = k
    BY <1>1, <1>3
  <2>2. PICK g : Iterates(g, k - 1, s)
    BY <2>1
  <2>3. \E h : Iterates(h, (k - 1) + 1, s)
    BY <2>1, <2>2, IteratesExtend
  <2> QED BY <1>1, <2>1, <2>3
<1> QED BY <1>2, <1>3

LEMMA FoldRuns ==
  ASSUME NEW n \in Nat, NEW s, DOMAIN s = 1..n
  PROVE  \E f : Runs(f, n, s) /\ FoldRows(s) = f[n]
<1> DEFINE it == CHOOSE g : Iterates(g, n, s)
<1>1. Iterates(it, n, s)
  BY IteratesExist
<1>2. FoldRows(s) = it[1..n]
  BY DEF FoldRows, FoldLeft, MapThenFoldSet, Iterates
<1> HIDE DEF it
<1>3. PICK f : f = [k \in 0..n |-> it[1..k]]
  OBVIOUS
<1>4. \A k \in 0..n : f[k] = IF k = 0 THEN NoCandle ELSE Accumulate(f[k - 1], s[k])
  <2> SUFFICES ASSUME NEW k \in 0..n PROVE f[k] = IF k = 0 THEN NoCandle ELSE Accumulate(f[k - 1], s[k])
    OBVIOUS
  <2>1. PICK X \in SUBSET (1..n) : X = 1..k
    OBVIOUS
  <2>2. it[X] = IF X = {} THEN NoCandle ELSE Accumulate(it[X \ {Max(X)}], s[Max(X)])
    BY <1>1 DEF Iterates
  <2>3. CASE k = 0
    BY <1>3, <2>1, <2>2, <2>3
  <2>4. CASE k # 0
    <3>1. k \in Nat /\ 1 <= k /\ k - 1 \in 0..n
      BY <2>4
    <3>2. k \in X /\ X # {} /\ \A x \in X : x \in Int /\ x <= k
      BY <2>1, <3>1
    <3>3. PICK m \in X : m = Max(X) /\ \A x \in X : x <= m
      BY <3>2, MaxOf
    <3>4. m = k
      BY <3>2, <3>3
    <3>5. X \ {k} = 1..(k - 1)
      BY <2>1, <3>1
    <3>6. f[k] = it[X] /\ f[k - 1] = it[1..(k - 1)]
      BY <1>3, <2>1, <3>1
    <3> QED BY <2>2, <2>4, <3>2, <3>3, <3>4, <3>5, <3>6
  <2> QED BY <2>3, <2>4
<1>5. Runs(f, n, s)
  BY <1>3, <1>4 DEF Runs
<1> QED BY <1>2, <1>3, <1>5

LEMMA RunsStep ==
  ASSUME NEW n \in Nat, NEW s, NEW f, Runs(f, n, s)
  PROVE  f[0] = NoCandle /\ \A k \in 0..(n - 1) : f[k + 1] = Accumulate(f[k], s[k + 1])
<1>1. \A k \in 0..n : f[k] = IF k = 0 THEN NoCandle ELSE Accumulate(f[k - 1], s[k])
  BY DEF Runs
<1>2. f[0] = NoCandle
  BY <1>1
<1>3. ASSUME NEW k \in 0..(n - 1) PROVE f[k + 1] = Accumulate(f[k], s[k + 1])
  <2>1. k + 1 \in 0..n /\ k + 1 # 0 /\ (k + 1) - 1 = k
    OBVIOUS
  <2> QED BY <1>1, <2>1
<1> QED BY <1>2, <1>3

LEMMA RunsTyped ==
  ASSUME NEW n \in Nat, NEW s \in [1..n -> Cells], NEW f, Runs(f, n, s)
  PROVE  \A k \in 0..n : f[k] \in Cells
<1>1. PICK G : G = {k \in 0..n : f[k] \in Cells}
  OBVIOUS
<1>2. 0 \in G
  BY <1>1, RunsStep DEF Cells
<1>3. \A k \in 0..(n - 1) : k \in G => k + 1 \in G
  <2> SUFFICES ASSUME NEW k \in 0..(n - 1), k \in G PROVE k + 1 \in G
    OBVIOUS
  <2>1. k + 1 \in 1..n /\ k + 1 \in 0..n
    OBVIOUS
  <2>2. s[k + 1] \in Cells /\ f[k] \in Cells
    BY <1>1, <2>1
  <2>3. f[k + 1] = Accumulate(f[k], s[k + 1])
    BY RunsStep
  <2> QED BY <1>1, <2>1, <2>2, <2>3, Accumulates
<1> QED BY <1>1, <1>2, <1>3, ByPrefix

LEMMA FoldTyped ==
  ASSUME NEW n \in Nat, NEW s \in [1..n -> Cells]
  PROVE  FoldRows(s) \in Cells
<1>1. PICK f : Runs(f, n, s) /\ FoldRows(s) = f[n]
  BY FoldRuns
<1> QED BY <1>1, RunsTyped

(* One member more. *)
LEMMA FoldLonger ==
  ASSUME NEW n \in Nat, NEW s \in [1..n -> Cells], NEW t \in [1..(n + 1) -> Cells],
         \A k \in 1..n : s[k] = t[k]
  PROVE  FoldRows(t) = Accumulate(FoldRows(s), t[n + 1])
<1>0. PICK m \in Nat : m = n + 1
  OBVIOUS
<1>1. PICK f : Runs(f, n, s) /\ FoldRows(s) = f[n]
  BY FoldRuns
<1>2. PICK g : Runs(g, m, t) /\ FoldRows(t) = g[m]
  BY <1>0, FoldRuns
<1>3. PICK G : G = {k \in 0..n : f[k] = g[k]}
  OBVIOUS
<1>4. 0 \in G
  BY <1>1, <1>2, <1>3, RunsStep
<1>5. \A k \in 0..(n - 1) : k \in G => k + 1 \in G
  <2> SUFFICES ASSUME NEW k \in 0..(n - 1), k \in G PROVE k + 1 \in G
    OBVIOUS
  <2>1. k + 1 \in 1..n /\ k + 1 \in 0..n /\ k \in 0..(m - 1)
    BY <1>0
  <2>2. s[k + 1] = t[k + 1] /\ f[k] = g[k]
    BY <1>3, <2>1
  <2>3. f[k + 1] = Accumulate(f[k], s[k + 1])
    BY <1>1, RunsStep
  <2>4. g[k + 1] = Accumulate(g[k], t[k + 1])
    BY <1>2, <2>1, RunsStep
  <2> QED BY <1>3, <2>1, <2>2, <2>3, <2>4
<1>6. f[n] = g[n]
  <2>1. \A k \in 0..n : k \in G
    BY <1>4, <1>5, ByPrefix
  <2> QED BY <1>3, <2>1
<1>7. g[n + 1] = Accumulate(g[n], t[n + 1])
  <2>1. n \in 0..(m - 1)
    BY <1>0
  <2> QED BY <1>2, <2>1, RunsStep
<1> QED BY <1>0, <1>1, <1>2, <1>6, <1>7

LEMMA FoldNothing ==
  ASSUME NEW n \in Nat, NEW s \in [1..n -> Cells], \A k \in 1..n : s[k] = NoCandle
  PROVE  FoldRows(s) = NoCandle
<1>1. PICK f : Runs(f, n, s) /\ FoldRows(s) = f[n]
  BY FoldRuns
<1>2. PICK G : G = {k \in 0..n : f[k] = NoCandle}
  OBVIOUS
<1>3. 0 \in G
  BY <1>1, <1>2, RunsStep
<1>4. \A k \in 0..(n - 1) : k \in G => k + 1 \in G
  <2> SUFFICES ASSUME NEW k \in 0..(n - 1), k \in G PROVE k + 1 \in G
    OBVIOUS
  <2>1. k + 1 \in 1..n /\ k + 1 \in 0..n
    OBVIOUS
  <2>2. f[k + 1] = Accumulate(f[k], s[k + 1]) /\ s[k + 1] = NoCandle /\ f[k] = NoCandle
    BY <1>1, <1>2, <2>1, RunsStep
  <2> QED BY <1>2, <2>1, <2>2 DEF Accumulate
<1>5. \A k \in 0..n : k \in G
  BY <1>3, <1>4, ByPrefix
<1> QED BY <1>1, <1>2, <1>5

(* Samples b that come after all the others, a, are folded after them. *)
Splits(n, a, b, c) ==
  /\ \A k \in 1..n : \/ b[k] = NoCandle /\ c[k] = a[k]
                     \/ a[k] = NoCandle /\ c[k] = b[k]
  /\ \A j, k \in 1..n : j < k /\ a[k] # NoCandle => b[j] = NoCandle

LEMMA FoldMerges ==
  ASSUME NEW n \in Nat, NEW a \in [1..n -> Cells], NEW b \in [1..n -> Cells], NEW c \in [1..n -> Cells],
         Splits(n, a, b, c)
  PROVE  FoldRows(c) = Accumulate(FoldRows(a), FoldRows(b))
<1>0. /\ \A k \in 1..n : \/ b[k] = NoCandle /\ c[k] = a[k]
                         \/ a[k] = NoCandle /\ c[k] = b[k]
      /\ \A j, k \in 1..n : j < k /\ a[k] # NoCandle => b[j] = NoCandle
  BY DEF Splits
<1>1. PICK fa : Runs(fa, n, a) /\ FoldRows(a) = fa[n]
  BY FoldRuns
<1>2. PICK fb : Runs(fb, n, b) /\ FoldRows(b) = fb[n]
  BY FoldRuns
<1>3. PICK fc : Runs(fc, n, c) /\ FoldRows(c) = fc[n]
  BY FoldRuns
<1>4. \A k \in 0..n : fa[k] \in Cells /\ fb[k] \in Cells
  BY <1>1, <1>2, RunsTyped
<1>5. PICK G : G = {k \in 0..n : /\ fc[k] = Accumulate(fa[k], fb[k])
                                 /\ (\A j \in 1..k : b[j] = NoCandle) => fb[k] = NoCandle}
  OBVIOUS
<1>6. 0 \in G
  BY <1>1, <1>2, <1>3, <1>5, RunsStep DEF Accumulate
<1>7. \A k \in 0..(n - 1) : k \in G => k + 1 \in G
  <2> SUFFICES ASSUME NEW k \in 0..(n - 1), k \in G PROVE k + 1 \in G
    OBVIOUS
  <2>1. PICK m \in 1..n : m = k + 1
    OBVIOUS
  <2>2. fa[m] = Accumulate(fa[k], a[m]) /\ fb[m] = Accumulate(fb[k], b[m]) /\ fc[m] = Accumulate(fc[k], c[m])
    BY <1>1, <1>2, <1>3, <2>1, RunsStep
  <2>3. fc[k] = Accumulate(fa[k], fb[k]) /\ ((\A j \in 1..k : b[j] = NoCandle) => fb[k] = NoCandle)
    BY <1>5
  <2>4. fa[k] \in Cells /\ fb[k] \in Cells /\ a[m] \in Cells /\ b[m] \in Cells
    BY <1>4
  <2>5. \A j \in 1..k : j \in 1..n /\ j < m
    BY <2>1
  <2>6. fc[m] = Accumulate(fa[m], fb[m])
    <3>1. CASE a[m] = NoCandle /\ c[m] = b[m]
      <4>1. fa[m] = fa[k]
        BY <2>2, <3>1 DEF Accumulate
      <4> QED BY <2>2, <2>3, <2>4, <3>1, <4>1, Associative
    <3>2. CASE a[m] # NoCandle /\ b[m] = NoCandle /\ c[m] = a[m]
      <4>1. fb[k] = NoCandle
        BY <1>0, <2>3, <2>5, <3>2
      <4>2. fb[m] = NoCandle
        BY <2>2, <3>2, <4>1 DEF Accumulate
      <4>3. fc[k] = fa[k]
        BY <2>3, <4>1 DEF Accumulate
      <4> QED BY <2>2, <3>2, <4>2, <4>3 DEF Accumulate
    <3>3. CASE a[m] = NoCandle /\ b[m] = NoCandle /\ c[m] = a[m]
      BY <3>1, <3>3
    <3> QED BY <1>0, <3>1, <3>2, <3>3
  <2>7. ASSUME \A j \in 1..m : b[j] = NoCandle PROVE fb[m] = NoCandle
    <3>1. \A j \in 1..k : j \in 1..m
      BY <2>1
    <3>2. m \in 1..m
      OBVIOUS
    <3> QED BY <2>2, <2>3, <2>7, <3>1, <3>2 DEF Accumulate
  <2> QED BY <1>5, <2>1, <2>6, <2>7
<1>8. \A k \in 0..n : k \in G
  BY <1>6, <1>7, ByPrefix
<1> QED BY <1>1, <1>2, <1>3, <1>5, <1>8

-----------------------------------------------------------------------------
(* The swaps of some periods, and their candle. *)
SwapRows == [at : Nat, price : Int]
PickedOf(sw, S) == [n \in 1..Len(sw) |-> IF sw[n].at \in S THEN SwapSample(sw[n]) ELSE NoCandle]
CandleOf(sw, S) == FoldRows(PickedOf(sw, S))
InOrder(sw) == \A j, k \in 1..Len(sw) : j < k => sw[j].at <= sw[k].at

LEMMA PickedTyped ==
  ASSUME NEW sw \in Seq(SwapRows), NEW S
  PROVE  /\ Len(sw) \in Nat /\ PickedOf(sw, S) \in [1..Len(sw) -> Cells]
         /\ CandleOf(sw, S) \in Cells
         /\ \A n \in 1..Len(sw) : SwapSample(sw[n]) \in CandleRows
<1>1. \A n \in 1..Len(sw) : SwapSample(sw[n]) \in CandleRows
  <2> SUFFICES ASSUME NEW n \in 1..Len(sw) PROVE SwapSample(sw[n]) \in CandleRows
    OBVIOUS
  <2>1. sw[n] \in SwapRows
    OBVIOUS
  <2> QED BY <2>1 DEF SwapSample, SwapRows, CandleRows
<1>2. PickedOf(sw, S) \in [1..Len(sw) -> Cells]
  BY <1>1 DEF PickedOf, Cells
<1> QED BY <1>1, <1>2, FoldTyped DEF CandleOf

LEMMA CandleOfNothing ==
  ASSUME NEW sw \in Seq(SwapRows), NEW S, \A n \in 1..Len(sw) : sw[n].at \notin S
  PROVE  CandleOf(sw, S) = NoCandle
<1>1. PICK a : a = PickedOf(sw, S)
  OBVIOUS
<1>2. Len(sw) \in Nat /\ a \in [1..Len(sw) -> Cells] /\ \A k \in 1..Len(sw) : a[k] = NoCandle
  <2>1. \A k \in 1..Len(sw) : a[k] = NoCandle
    BY <1>1 DEF PickedOf
  <2> QED BY <1>1, <2>1, PickedTyped
<1> QED BY <1>1, <1>2, FoldNothing DEF CandleOf

LEMMA CandleMerges ==
  ASSUME NEW sw \in Seq(SwapRows), InOrder(sw), NEW S, NEW q \in Int, \A x \in S : x \in Int /\ x < q
  PROVE  CandleOf(sw, S \cup {q}) = Accumulate(CandleOf(sw, S), CandleOf(sw, {q}))
<1>1. PICK a : a = PickedOf(sw, S)
  OBVIOUS
<1>2. PICK b : b = PickedOf(sw, {q})
  OBVIOUS
<1>3. PICK c : c = PickedOf(sw, S \cup {q})
  OBVIOUS
<1>4. PICK n \in Nat : n = Len(sw)
  BY PickedTyped
<1>5. a \in [1..n -> Cells] /\ b \in [1..n -> Cells] /\ c \in [1..n -> Cells]
  BY <1>1, <1>2, <1>3, <1>4, PickedTyped
<1>6. \A k \in 1..n : /\ a[k] = IF sw[k].at \in S THEN SwapSample(sw[k]) ELSE NoCandle
                      /\ b[k] = IF sw[k].at = q THEN SwapSample(sw[k]) ELSE NoCandle
                      /\ c[k] = IF sw[k].at \in S \/ sw[k].at = q THEN SwapSample(sw[k]) ELSE NoCandle
  BY <1>1, <1>2, <1>3, <1>4 DEF PickedOf
<1>7. q \notin S
  OBVIOUS
<1>8. \A k \in 1..n : \/ b[k] = NoCandle /\ c[k] = a[k]
                      \/ a[k] = NoCandle /\ c[k] = b[k]
  BY <1>6, <1>7
<1>9. ASSUME NEW j \in 1..n, NEW k \in 1..n, j < k, a[k] # NoCandle PROVE b[j] = NoCandle
  <2>1. sw[k].at \in S
    BY <1>6, <1>9
  <2>2. sw[j].at <= sw[k].at /\ sw[j] \in SwapRows
    BY <1>4, <1>9 DEF InOrder
  <2>3. sw[j].at # q
    BY <2>1, <2>2 DEF SwapRows
  <2> QED BY <1>6, <2>3
<1>10. FoldRows(c) = Accumulate(FoldRows(a), FoldRows(b))
  <2>1. \A j, k \in 1..n : j < k /\ a[k] # NoCandle => b[j] = NoCandle
    BY <1>9
  <2>2. Splits(n, a, b, c)
    BY <1>8, <2>1 DEF Splits
  <2> QED BY <1>5, <2>2, FoldMerges
<1> QED BY <1>1, <1>2, <1>3, <1>10 DEF CandleOf

(* A swap of another period makes no difference. *)
LEMMA CandleStays ==
  ASSUME NEW sw \in Seq(SwapRows), NEW x \in SwapRows, NEW S, x.at \notin S
  PROVE  CandleOf(Append(sw, x), S) = CandleOf(sw, S)
<1>1. PICK tw : tw = Append(sw, x)
  OBVIOUS
<1>2. PICK n \in Nat : n = Len(sw)
  BY PickedTyped
<1>3. tw \in Seq(SwapRows) /\ Len(tw) = n + 1 /\ tw[n + 1] = x /\ \A k \in 1..n : tw[k] = sw[k]
  BY <1>1, <1>2, AppendProperties
<1>4. PICK s : s = PickedOf(sw, S)
  OBVIOUS
<1>5. PICK t : t = PickedOf(tw, S)
  OBVIOUS
<1>6. s \in [1..n -> Cells] /\ t \in [1..(n + 1) -> Cells]
  BY <1>2, <1>3, <1>4, <1>5, PickedTyped
<1>7. \A k \in 1..n : s[k] = t[k]
  BY <1>2, <1>3, <1>4, <1>5 DEF PickedOf
<1>8. t[n + 1] = NoCandle
  <2>1. n + 1 \in 1..Len(tw)
    BY <1>3
  <2> QED BY <1>3, <1>5, <2>1 DEF PickedOf
<1>9. FoldRows(t) = Accumulate(FoldRows(s), t[n + 1])
  BY <1>6, <1>7, FoldLonger
<1> QED BY <1>1, <1>4, <1>5, <1>8, <1>9 DEF CandleOf, Accumulate

(* The candle of an hour is the candle of those of its periods that have one. *)
LEMMA HourOf ==
  ASSUME NEW sw \in Seq(SwapRows), InOrder(sw), NEW p \in Int, NEW n \in Nat, NEW s \in [1..n -> Cells],
         \A k \in 1..n : s[k] = NoCandle \/ s[k] = CandleOf(sw, {p + k - 1})
  PROVE  \E S \in SUBSET (p..(p + n - 1)) : FoldRows(s) = CandleOf(sw, S)
<1>1. PICK f : Runs(f, n, s) /\ FoldRows(s) = f[n]
  BY FoldRuns
<1>2. PICK G : G = {k \in 0..n : \E S \in SUBSET (p..(p + k - 1)) : f[k] = CandleOf(sw, S)}
  OBVIOUS
<1>3. 0 \in G
  <2>1. CandleOf(sw, {}) = NoCandle
    BY CandleOfNothing
  <2> QED BY <1>1, <1>2, <2>1, RunsStep
<1>4. \A k \in 0..(n - 1) : k \in G => k + 1 \in G
  <2> SUFFICES ASSUME NEW k \in 0..(n - 1), k \in G PROVE k + 1 \in G
    OBVIOUS
  <2>1. PICK m \in 1..n : m = k + 1 /\ m \in 0..n
    OBVIOUS
  <2>2. PICK S \in SUBSET (p..(p + k - 1)) : f[k] = CandleOf(sw, S)
    BY <1>2
  <2>3. PICK q \in Int : q = p + m - 1
    BY <2>1
  <2>4. f[m] = Accumulate(f[k], s[m])
    BY <1>1, <2>1, RunsStep
  <2>5. CASE s[m] = NoCandle
    <3>1. f[m] = CandleOf(sw, S)
      BY <2>2, <2>4, <2>5 DEF Accumulate
    <3>2. S \in SUBSET (p..(p + m - 1))
      BY <2>1
    <3> QED BY <1>2, <2>1, <3>1, <3>2
  <2>6. CASE s[m] = CandleOf(sw, {q})
    <3>1. \A x \in S : x \in Int /\ x < q
      BY <2>1, <2>3
    <3>2. CandleOf(sw, S \cup {q}) = Accumulate(CandleOf(sw, S), CandleOf(sw, {q}))
      BY <3>1, CandleMerges
    <3>3. S \cup {q} \in SUBSET (p..(p + m - 1))
      BY <2>1, <2>3
    <3>4. f[m] = CandleOf(sw, S \cup {q})
      BY <2>2, <2>4, <2>6, <3>2
    <3> QED BY <1>2, <2>1, <3>3, <3>4
  <2> QED BY <2>3, <2>5, <2>6
<1>5. \A k \in 0..n : k \in G
  BY <1>3, <1>4, ByPrefix
<1> QED BY <1>1, <1>2, <1>5

-----------------------------------------------------------------------------
BootPlaces == {"down", "backfill", "read", "write", "register", "up"}
DueJobs == [interval : Intervals, at : Periods]
BootType == [at : BootPlaces, interval : Intervals, period : Int, last : Int, row : Cells]
WorkType == [at : {"idle", "write"}, interval : Intervals, period : Int, row : Cells, job : Periods]

CandleTypes ==
  /\ now \in Periods
  /\ swaps \in Seq(SwapRows) /\ Len(swaps) <= Len(Prices)
  /\ InOrder(swaps) /\ \A n \in 1..Len(swaps) : swaps[n].at <= now
  /\ candle \in [Intervals -> [Periods -> Cells]]
  /\ due \subseteq DueJobs /\ repeating \subseteq Intervals
  /\ boot \in BootType /\ work \in WorkType
  /\ healed \in [Intervals -> Int] /\ healed["5m"] <= now

(* A row that is right for a period: of its own swaps, or of some of them for an hour. *)
Whole(i, p) == p \in Nat /\ (\E m \in Nat : p = m * IntervalLen(i)) /\ p + IntervalLen(i) <= now
Right(sw, i, p, row) ==
  IF i = "5m" THEN row = CandleOf(sw, {p})
  ELSE \E S \in SUBSET (p..(p + HourLen - 1)) : row = CandleOf(sw, S)
Sound(i, p, row) == Whole(i, p) /\ Right(swaps, i, p, row)
Exact(p) == candle["5m"][p] = CandleOf(swaps, {p})

RowsRight == \A i \in Intervals, p \in Periods : candle[i][p] = NoCandle \/ Sound(i, p, candle[i][p])

BootRight ==
  /\ boot.at = "backfill" => boot.last = 0
  /\ boot.at \in {"read", "write"} =>
       /\ boot.period \in Nat /\ \E m \in Nat : boot.period = m * IntervalLen(boot.interval)
       /\ boot.last + IntervalLen(boot.interval) <= now
  /\ boot.at = "write" => Sound(boot.interval, boot.period, boot.row)

WorkRight == work.at = "write" => Sound(work.interval, work.period, work.row)

(* What the backfill has passed is there. *)
Swept ==
  boot.at \in {"read", "write"} /\ boot.interval = "5m" =>
    \A p \in Periods : p < boot.period /\ p < boot.last => Exact(p)
HealedExact == \A p \in Periods : p < healed["5m"] => Exact(p)

(* A job is due from the end of its period on, and a late one is on record. *)
JobsDue ==
  \A j \in due : /\ IntervalLen(j.interval) <= j.at /\ j.at <= now
                 /\ j.interval = "5m" /\ j.at < now => j.at - 1 \in excused
JobTaken ==
  work.at = "write" =>
    /\ IntervalLen(work.interval) <= work.job /\ work.job <= now
    /\ work.interval = "5m" => work.period = work.job - 1 \/ work.job - 1 \in excused

GapsKnown ==
  \A p \in Periods : p < now /\ ~Exact(p) =>
    \/ p \in excused
    \/ [interval |-> "5m", at |-> p + 1] \in due
    \/ work.at = "write" /\ work.interval = "5m" /\ work.job = p + 1

CandleIInv ==
  /\ CandleTypes /\ RowsRight /\ BootRight /\ WorkRight /\ Swept /\ HealedExact
  /\ JobsDue /\ JobTaken /\ GapsKnown

LEMMA Lengths ==
  ASSUME NEW i \in Intervals
  PROVE  /\ IntervalLen(i) \in Nat \ {0} /\ IntervalLen("5m") = 1 /\ IntervalLen("1h") = HourLen
         /\ HourLen \in Nat \ {0} /\ Periods \subseteq Nat /\ i \in {"5m", "1h"}
BY CandleAssumption DEF IntervalLen, Intervals, Periods

LEMMA LastIsWhole ==
  ASSUME now \in Nat, NEW i \in Intervals, NEW lp, lp = LastPeriod(i)
  PROVE  /\ lp \in Int /\ lp + IntervalLen(i) <= now
         /\ IntervalLen(i) <= now => lp \in Nat /\ \E m \in Nat : lp = m * IntervalLen(i)
         /\ i = "5m" => lp = now - 1
<1>1. PICK n \in Nat \ {0} : n = IntervalLen(i)
  BY Lengths
<1>2. PICK a \in Int : a = now - n
  OBVIOUS
<1>3. PICK q \in Int : q = a \div n
  OBVIOUS
<1>4. lp = q * n
  BY <1>1, <1>2, <1>3 DEF LastPeriod
<1>5. q * n <= a /\ q * n \in Int
  BY <1>3, FitsIn
<1>6. ASSUME n <= now PROVE lp \in Nat /\ \E m \in Nat : lp = m * n
  <2>1. 0 * n <= a
    BY <1>2, <1>6
  <2>2. 0 <= q
    BY <1>3, <2>1, FitsIn
  <2>3. q \in Nat /\ q * n \in Nat
    BY <2>2
  <2> QED BY <1>4, <2>3
<1>7. ASSUME i = "5m" PROVE lp = now - 1
  <2>1. n = 1
    BY <1>1, <1>7 DEF IntervalLen
  <2>2. q = a
    BY <1>3, <2>1
  <2> QED BY <1>2, <1>4, <2>1, <2>2
<1> QED BY <1>1, <1>2, <1>4, <1>5, <1>6, <1>7

LEMMA FoldSwapsIs == ASSUME NEW S PROVE FoldSwaps(S) = CandleOf(swaps, S)
BY DEF FoldSwaps, CandleOf, PickedOf

(* What a reader of a whole period gets is right for it. *)
LEMMA ReadsRight ==
  ASSUME CandleTypes, RowsRight, NEW i \in Intervals, NEW p, Whole(i, p), NEW row, row = ReadPeriod(i, p)
  PROVE  Sound(i, p, row) /\ row \in Cells /\ p \in Periods
<1>0. /\ now \in Nat /\ p \in Nat /\ p + IntervalLen(i) <= now /\ IntervalLen(i) \in Nat \ {0} /\ p \in Periods
      /\ HourLen \in Nat \ {0} /\ now <= MaxCandleTime /\ MaxCandleTime \in Nat
  BY Lengths, CandleAssumption DEF CandleTypes, Whole, Periods
<1>1. swaps \in Seq(SwapRows) /\ InOrder(swaps)
  BY DEF CandleTypes
<1>2. CASE i = "5m"
  <2>1. row = CandleOf(swaps, {p})
    BY <1>2, FoldSwapsIs DEF ReadPeriod
  <2> QED BY <1>0, <1>1, <1>2, <2>1, PickedTyped DEF Sound, Right
<1>3. CASE i = "1h"
  <2>1. PICK s : s = [k \in 1..HourLen |-> candle["5m"][p + k - 1]]
    OBVIOUS
  <2>2. row = FoldRows(s)
    <3>1. (p + HourLen) - p = HourLen
      BY <1>0
    <3> QED BY <1>3, <2>1, <3>1 DEF ReadPeriod, FoldFives
  <2>3. \A k \in 1..HourLen : p + k - 1 \in Periods
    BY <1>0, <1>3 DEF IntervalLen, Periods
  <2>4. s \in [1..HourLen -> Cells]
    <3>1. \A k \in 1..HourLen : candle["5m"][p + k - 1] \in Cells
      BY <2>3 DEF CandleTypes, Intervals
    <3> QED BY <2>1, <3>1
  <2>5. \A k \in 1..HourLen : s[k] = NoCandle \/ s[k] = CandleOf(swaps, {p + k - 1})
    <3> SUFFICES ASSUME NEW k \in 1..HourLen, s[k] # NoCandle PROVE s[k] = CandleOf(swaps, {p + k - 1})
      OBVIOUS
    <3>1. s[k] = candle["5m"][p + k - 1] /\ p + k - 1 \in Periods
      BY <2>1, <2>3
    <3>2. Sound("5m", p + k - 1, candle["5m"][p + k - 1])
      BY <3>1 DEF RowsRight, Intervals
    <3> QED BY <3>1, <3>2 DEF Sound, Right
  <2>6. \E S \in SUBSET (p..(p + HourLen - 1)) : FoldRows(s) = CandleOf(swaps, S)
    <3>1. p \in Int /\ HourLen \in Nat
      BY <1>0
    <3> QED BY <3>1, <1>1, <2>4, <2>5, HourOf
  <2> QED BY <1>0, <1>3, <2>2, <2>4, <2>6, FoldTyped DEF Sound, Right
<1> QED BY <1>2, <1>3 DEF Intervals

(* What is right stays right as time passes and swaps happen. *)
LEMMA SoundStays ==
  ASSUME CandleTypes, NEW i \in Intervals, NEW p, NEW row, Sound(i, p, row), now' \in Int, now <= now',
         swaps' = swaps \/ \E x \in SwapRows : swaps' = Append(swaps, x) /\ x.at = now
  PROVE  Sound(i, p, row)'
<1>0. /\ now \in Nat /\ p \in Nat /\ p + IntervalLen(i) <= now /\ IntervalLen(i) \in Nat \ {0} /\ i \in {"5m", "1h"}
      /\ swaps \in Seq(SwapRows) /\ Right(swaps, i, p, row)
  BY Lengths DEF CandleTypes, Sound, Whole, Periods
<1>1. Whole(i, p)'
  BY <1>0 DEF Sound, Whole
<1>2. \A S \in SUBSET (p..(p + IntervalLen(i) - 1)) : CandleOf(swaps', S) = CandleOf(swaps, S)
  <2> SUFFICES ASSUME NEW S \in SUBSET (p..(p + IntervalLen(i) - 1)) PROVE CandleOf(swaps', S) = CandleOf(swaps, S)
    OBVIOUS
  <2>1. now \notin S
    BY <1>0
  <2> QED BY <1>0, <2>1, CandleStays
<1>3. Right(swaps', i, p, row)
  <2>1. CASE i = "5m"
    <3>1. {p} \in SUBSET (p..(p + IntervalLen(i) - 1))
      BY <1>0
    <3> QED BY <1>0, <1>2, <2>1, <3>1 DEF Right
  <2>2. CASE i = "1h"
    <3>1. IntervalLen(i) = HourLen
      BY <2>2 DEF IntervalLen
    <3> QED BY <1>0, <1>2, <2>2, <3>1 DEF Right
  <2> QED BY <1>0, <2>1, <2>2
<1> QED BY <1>1, <1>3 DEF Sound

LEMMA ExactStays ==
  ASSUME CandleTypes, UNCHANGED candle, NEW p \in Periods, p < now, Exact(p),
         swaps' = swaps \/ \E x \in SwapRows : swaps' = Append(swaps, x) /\ x.at = now
  PROVE  Exact(p)'
<1>1. CandleOf(swaps', {p}) = CandleOf(swaps, {p})
  <2>1. now \notin {p} /\ swaps \in Seq(SwapRows)
    BY DEF CandleTypes, Periods
  <2> QED BY <2>1, CandleStays
<1> QED BY <1>1 DEF Exact

(* A row that is right is written. *)
LEMMA UpsertRows ==
  ASSUME CandleTypes, RowsRight, UNCHANGED <<now, swaps>>,
         NEW i \in Intervals, NEW p, NEW row \in Cells, Sound(i, p, row), Upsert(i, p, row)
  PROVE  /\ candle' \in [Intervals -> [Periods -> Cells]] /\ RowsRight'
         /\ \A q \in Periods : Exact(q) => Exact(q)'
         /\ \A q \in Periods : candle["5m"][q] # NoCandle => candle'["5m"][q] = candle["5m"][q]
         /\ i = "5m" => Exact(p)'
<1>0. /\ candle \in [Intervals -> [Periods -> Cells]] /\ "5m" \in Intervals
      /\ swaps \in Seq(SwapRows) /\ swaps' = swaps
  BY DEF CandleTypes, Intervals
<1>1. p \in Periods
  BY Lengths, CandleAssumption DEF CandleTypes, Sound, Whole, Periods
<1>2. \A j \in Intervals, q \in Periods : Sound(j, q, candle[j][q])' <=> Whole(j, q) /\ Right(swaps, j, q, candle'[j][q])
  BY DEF Sound, Whole
<1>3. CASE row = NoCandle
  <2>1. candle' = candle
    BY <1>3 DEF Upsert
  <2>2. RowsRight'
    BY <2>1 DEF RowsRight, Sound, Whole
  <2>3. \A q \in Periods : Exact(q)' <=> Exact(q)
    BY <2>1 DEF Exact
  <2>4. ASSUME i = "5m" PROVE Exact(p)
    <3>1. CandleOf(swaps, {p}) = NoCandle
      BY <1>3, <2>4 DEF Sound, Right
    <3>2. candle["5m"][p] = NoCandle \/ candle["5m"][p] = CandleOf(swaps, {p})
      BY <1>0, <1>1 DEF RowsRight, Sound, Right
    <3> QED BY <3>1, <3>2 DEF Exact
  <2> QED BY <1>0, <1>1, <2>1, <2>2, <2>3, <2>4
<1>4. CASE row # NoCandle
  <2>1. candle' = [candle EXCEPT ![i][p] = row]
    BY <1>4 DEF Upsert
  <2>2. candle' \in [Intervals -> [Periods -> Cells]]
    BY <1>0, <1>1, <2>1
  <2>3. \A j \in Intervals, q \in Periods : candle'[j][q] = IF j = i /\ q = p THEN row ELSE candle[j][q]
    BY <1>0, <1>1, <2>1
  <2>4. RowsRight'
    <3> SUFFICES ASSUME NEW j \in Intervals, NEW q \in Periods, candle'[j][q] # NoCandle
                 PROVE  Whole(j, q) /\ Right(swaps, j, q, candle'[j][q])
      BY <1>2 DEF RowsRight, Periods, Intervals
    <3>1. CASE j = i /\ q = p
      BY <2>3, <3>1 DEF Sound
    <3>2. CASE ~(j = i /\ q = p)
      BY <2>3, <3>2 DEF RowsRight, Sound
    <3> QED BY <3>1, <3>2
  <2>5. ASSUME i = "5m" PROVE row = CandleOf(swaps, {p})
    BY <2>5 DEF Sound, Right
  <2>6. ASSUME NEW q \in Periods, candle["5m"][q] # NoCandle PROVE candle["5m"][q] = CandleOf(swaps, {q})
    BY <1>0, <2>6 DEF RowsRight, Sound, Right
  <2>7. \A q \in Periods : Exact(q) => Exact(q)'
    BY <1>0, <2>3, <2>5 DEF Exact
  <2>8. \A q \in Periods : candle["5m"][q] # NoCandle => candle'["5m"][q] = candle["5m"][q]
    BY <1>0, <2>3, <2>5, <2>6
  <2>9. i = "5m" => Exact(p)'
    BY <1>0, <1>1, <2>3, <2>5 DEF Exact
  <2> QED BY <2>2, <2>4, <2>7, <2>8, <2>9
<1> QED BY <1>3, <1>4

-----------------------------------------------------------------------------
LEMMA CandleStarts == CandleInit => CandleIInv
<1> SUFFICES ASSUME CandleInit PROVE CandleIInv
  OBVIOUS
<1>1. now = 0 /\ 0 \in Periods /\ swaps = <<>> /\ Len(swaps) = 0
  BY CandleAssumption DEF CandleInit, Periods
<1>2. CandleTypes
  <2>1. NoCandle \in Cells
    BY DEF Cells
  <2>2. Len(Prices) \in Nat /\ swaps \in Seq(SwapRows)
    BY <1>1, CandleAssumption
  <2>3. InOrder(swaps) /\ \A n \in 1..Len(swaps) : swaps[n].at <= now
    BY <1>1 DEF InOrder
  <2>4. boot \in BootType /\ work \in WorkType
    BY <1>1, <2>1 DEF CandleInit, Down, Idle, BootType, WorkType, BootPlaces, Intervals
  <2>5. candle \in [Intervals -> [Periods -> Cells]] /\ due \subseteq DueJobs
        /\ repeating \subseteq Intervals /\ healed \in [Intervals -> Int] /\ healed["5m"] <= now
    BY <1>1, <2>1 DEF CandleInit, Intervals
  <2> QED BY <1>1, <2>2, <2>3, <2>4, <2>5 DEF CandleTypes
<1>3. RowsRight
  BY DEF CandleInit, RowsRight
<1>4. BootRight /\ WorkRight /\ Swept /\ JobTaken /\ JobsDue
  BY DEF CandleInit, BootRight, WorkRight, Swept, JobTaken, JobsDue, Down, Idle
<1>5. HealedExact /\ GapsKnown
  BY <1>1 DEF CandleInit, HealedExact, GapsKnown, Periods, Intervals
<1> QED BY <1>2, <1>3, <1>4, <1>5 DEF CandleIInv

(* What stays of the invariant while the rows, the swaps and the clock stand still. *)
LEMMA RowsStand ==
  ASSUME UNCHANGED <<now, swaps, candle>>
  PROVE  /\ RowsRight' <=> RowsRight
         /\ \A i, p, row : Sound(i, p, row)' <=> Sound(i, p, row)
         /\ \A p : Exact(p)' <=> Exact(p)
BY DEF RowsRight, Sound, Whole, Exact

LEMMA BootStands ==
  ASSUME UNCHANGED <<now, swaps, candle, boot>>
  PROVE  (BootRight' <=> BootRight) /\ (Swept' <=> Swept)
BY DEF BootRight, Swept, Sound, Whole, Exact

LEMMA WorkStands ==
  ASSUME UNCHANGED <<now, swaps, work>>, JobTaken, excused \subseteq excused'
  PROVE  (WorkRight' <=> WorkRight) /\ JobTaken'
BY DEF WorkRight, JobTaken, Sound, Whole

LEMMA GapsStand ==
  ASSUME UNCHANGED <<now, due, work>>, GapsKnown, excused \subseteq excused',
         \A p \in Periods : p < now /\ Exact(p) => Exact(p)'
  PROVE  GapsKnown'
BY DEF GapsKnown

LEMMA SwapHappensKeeps ==
  ASSUME CandleIInv, SwapHappens PROVE CandleIInv'
<1>0. CandleTypes /\ RowsRight /\ UNCHANGED <<now, candle, due, repeating, boot, work, boots, excused, healed>>
  BY DEF CandleIInv, SwapHappens
<1>1. PICK x : x = [at |-> now, price |-> Prices[Len(swaps) + 1]]
  OBVIOUS
<1>2. PICK n \in Nat : n = Len(swaps) /\ n < Len(Prices) /\ swaps' = Append(swaps, x) /\ swaps \in Seq(SwapRows)
  BY <1>0, <1>1, PickedTyped DEF SwapHappens, CandleTypes
<1>3. now \in Nat
  BY <1>0, Lengths DEF CandleTypes, Periods
<1>4. x \in SwapRows /\ x.at = now
  <2>1. Prices \in Seq(Int) /\ Len(Prices) \in Nat
    BY CandleAssumption
  <2>2. n + 1 \in 1..Len(Prices)
    BY <1>2, <2>1
  <2>3. Prices[n + 1] \in Int
    BY <2>1, <2>2
  <2> QED BY <1>1, <1>2, <1>3, <2>3 DEF SwapRows
<1>5. /\ swaps' \in Seq(SwapRows) /\ Len(swaps') = n + 1 /\ swaps'[n + 1] = x
      /\ \A k \in 1..n : swaps'[k] = swaps[k]
  BY <1>2, <1>4, AppendProperties
<1>6. \A i \in Intervals : \A p, row : Sound(i, p, row) => Sound(i, p, row)'
  <2>1. now' \in Int /\ now <= now'
    BY <1>0, <1>3
  <2> QED BY <1>0, <1>2, <1>4, <2>1, SoundStays
<1>7. \A p \in Periods : p < now /\ Exact(p) => Exact(p)'
  BY <1>0, <1>2, <1>4, ExactStays
<1>8. CandleTypes'
  <2>1. \A k \in 1..(n + 1) : (k \in 1..n \/ k = n + 1)
    BY <1>2
  <2>2. \A k \in 1..Len(swaps') : swaps'[k].at <= now
    <3>1. \A k \in 1..n : swaps[k].at <= now
      BY <1>0, <1>2 DEF CandleTypes
    <3>2. x.at <= now
      BY <1>3, <1>4
    <3> QED BY <1>5, <2>1, <3>1, <3>2
  <2>3. InOrder(swaps')
    <3> SUFFICES ASSUME NEW j \in 1..(n + 1), NEW k \in 1..(n + 1), j < k PROVE swaps'[j].at <= swaps'[k].at
      BY <1>5 DEF InOrder
    <3>1. j \in 1..n
      BY <1>2
    <3>2. CASE k \in 1..n
      BY <1>0, <1>2, <1>5, <3>1, <3>2 DEF CandleTypes, InOrder
    <3>3. CASE k = n + 1
      BY <1>4, <1>5, <2>2, <3>3
    <3> QED BY <2>1, <3>2, <3>3
  <2>4. Len(swaps') <= Len(Prices)
    BY <1>2, <1>5, CandleAssumption
  <2> QED BY <1>0, <1>5, <2>2, <2>3, <2>4 DEF CandleTypes
<1>9. RowsRight'
  BY <1>0, <1>6 DEF RowsRight
<1>10. BootRight'
  <2>1. boot.interval \in Intervals
    BY <1>0 DEF CandleTypes, BootType
  <2>2. Sound(boot.interval, boot.period, boot.row) => Sound(boot.interval, boot.period, boot.row)'
    <3>1. PICK i, p, row : i \in Intervals /\ i = boot.interval /\ p = boot.period /\ row = boot.row
      BY <2>1
    <3>2. Sound(i, p, row) => Sound(i, p, row)'
      BY <1>6, <3>1
    <3> QED BY <1>0, <3>1, <3>2 DEF Sound, Whole
  <2> QED BY <1>0, <2>2 DEF CandleIInv, BootRight
<1>11. WorkRight' /\ JobTaken'
  <2>1. work.interval \in Intervals
    BY <1>0 DEF CandleTypes, WorkType
  <2>2. Sound(work.interval, work.period, work.row) => Sound(work.interval, work.period, work.row)'
    <3>1. PICK i, p, row : i \in Intervals /\ i = work.interval /\ p = work.period /\ row = work.row
      BY <2>1
    <3>2. Sound(i, p, row) => Sound(i, p, row)'
      BY <1>6, <3>1
    <3> QED BY <1>0, <3>1, <3>2 DEF Sound, Whole
  <2> QED BY <1>0, <2>2 DEF CandleIInv, WorkRight, JobTaken
<1>12. Swept'
  <2> SUFFICES ASSUME boot.at \in {"read", "write"}, boot.interval = "5m",
                      NEW p \in Periods, p < boot.period, p < boot.last
               PROVE  Exact(p)'
    BY <1>0 DEF Swept, Periods
  <2>1. p \in Nat /\ boot.last \in Int /\ boot.last + 1 <= now
    BY <1>0, Lengths DEF CandleIInv, BootRight, CandleTypes, BootType
  <2>2. p < now
    BY <1>3, <2>1
  <2>3. Exact(p)
    BY DEF CandleIInv, Swept
  <2> QED BY <1>7, <2>2, <2>3
<1>13. HealedExact'
  <2> SUFFICES ASSUME NEW p \in Periods, p < healed["5m"] PROVE Exact(p)'
    BY <1>0 DEF HealedExact, Periods
  <2>1. p \in Nat /\ healed["5m"] \in Int /\ healed["5m"] <= now
    BY <1>0, Lengths DEF CandleTypes, Intervals
  <2>2. p < now
    BY <1>3, <2>1
  <2> QED BY <1>7, <2>2 DEF CandleIInv, HealedExact
<1>14. JobsDue'
  BY <1>0 DEF CandleIInv, JobsDue
<1>15. GapsKnown'
  BY <1>0, <1>7, GapsStand DEF CandleIInv
<1> QED BY <1>8, <1>9, <1>10, <1>11, <1>12, <1>13, <1>14, <1>15 DEF CandleIInv

LEMMA TimePassesKeeps ==
  ASSUME CandleIInv, TimePasses PROVE CandleIInv'
<1>0. CandleTypes /\ RowsRight /\ UNCHANGED <<swaps, candle, repeating, boot, work, boots, healed>>
  BY DEF CandleIInv, TimePasses
<1>1. now \in Nat /\ now' = now + 1 /\ now' \in Periods /\ now' \in Int /\ now <= now' /\ now \in Periods
  BY <1>0, CandleAssumption DEF CandleTypes, Periods, TimePasses
<1>2. \A i \in Intervals : \A p, row : Sound(i, p, row) => Sound(i, p, row)'
  BY <1>0, <1>1, SoundStays
<1>3. \A p : Exact(p)' <=> Exact(p)
  BY <1>0 DEF Exact
<1>4. /\ \A j \in due' : \/ j \in due
                         \/ \E i \in Intervals : j = [interval |-> i, at |-> now + 1] /\ (now + 1) % IntervalLen(i) = 0
      /\ due \subseteq due'
      /\ \A i \in repeating : (now + 1) % IntervalLen(i) = 0 => [interval |-> i, at |-> now + 1] \in due'
  <2>1. repeating \subseteq Intervals
    BY <1>0 DEF CandleTypes
  <2> QED BY <2>1 DEF TimePasses
<1>5. /\ excused \subseteq excused' /\ ("5m" \notin repeating => now \in excused')
      /\ \A j \in due : j.interval = "5m" => j.at - 1 \in excused'
  BY DEF TimePasses
<1>6. CandleTypes'
  <2>1. due' \subseteq DueJobs
    <3> SUFFICES ASSUME NEW j \in due' PROVE j \in DueJobs
      OBVIOUS
    <3> QED BY <1>0, <1>1, <1>4 DEF CandleTypes, DueJobs
  <2>2. \A n \in 1..Len(swaps) : swaps[n].at <= now'
    <3> SUFFICES ASSUME NEW n \in 1..Len(swaps) PROVE swaps[n].at <= now'
      OBVIOUS
    <3>1. swaps[n].at <= now /\ swaps[n] \in SwapRows
      BY <1>0 DEF CandleTypes
    <3> QED BY <1>1, <3>1 DEF SwapRows
  <2>3. healed["5m"] <= now'
    BY <1>0, <1>1 DEF CandleTypes, Intervals
  <2> QED BY <1>0, <1>1, <2>1, <2>2, <2>3 DEF CandleTypes
<1>7. RowsRight'
  BY <1>0, <1>2 DEF RowsRight
<1>8. BootRight'
  <2>1. boot.interval \in Intervals /\ boot.last \in Int
    BY <1>0 DEF CandleTypes, BootType
  <2>2. Sound(boot.interval, boot.period, boot.row) => Sound(boot.interval, boot.period, boot.row)'
    <3>1. PICK i, p, row : i \in Intervals /\ i = boot.interval /\ p = boot.period /\ row = boot.row
      BY <2>1
    <3>2. Sound(i, p, row) => Sound(i, p, row)'
      BY <1>2, <3>1
    <3> QED BY <1>0, <3>1, <3>2 DEF Sound, Whole
  <2>3. PICK n \in Nat : n = IntervalLen(boot.interval)
    BY <2>1, Lengths
  <2>4. boot.last + n <= now => boot.last + n <= now'
    BY <1>1, <2>1
  <2> QED BY <1>0, <2>2, <2>3, <2>4 DEF CandleIInv, BootRight
<1>9. WorkRight' /\ JobTaken'
  <2>1. work.interval \in Intervals /\ work.job \in Nat
    BY <1>0, Lengths DEF CandleTypes, WorkType
  <2>2. Sound(work.interval, work.period, work.row) => Sound(work.interval, work.period, work.row)'
    <3>1. PICK i, p, row : i \in Intervals /\ i = work.interval /\ p = work.period /\ row = work.row
      BY <2>1
    <3>2. Sound(i, p, row) => Sound(i, p, row)'
      BY <1>2, <3>1
    <3> QED BY <1>0, <3>1, <3>2 DEF Sound, Whole
  <2>3. work.job <= now => work.job <= now'
    BY <1>1, <2>1
  <2> QED BY <1>0, <1>5, <2>2, <2>3 DEF CandleIInv, WorkRight, JobTaken
<1>10. Swept' /\ HealedExact'
  BY <1>0, <1>3 DEF CandleIInv, Swept, HealedExact
<1>11. JobsDue'
  <2> SUFFICES ASSUME NEW j \in due'
               PROVE  /\ IntervalLen(j.interval) <= j.at /\ j.at <= now'
                      /\ j.interval = "5m" /\ j.at < now' => j.at - 1 \in excused'
    BY DEF JobsDue
  <2>1. CASE j \in due
    <3>1. IntervalLen(j.interval) <= j.at /\ j.at <= now /\ j.at \in Nat
      BY <1>0, <2>1, Lengths DEF CandleIInv, JobsDue, CandleTypes, DueJobs
    <3>2. j.at <= now'
      BY <1>1, <3>1
    <3> QED BY <1>5, <2>1, <3>1, <3>2
  <2>2. CASE j \notin due
    <3>1. PICK i \in Intervals : j = [interval |-> i, at |-> now + 1] /\ (now + 1) % IntervalLen(i) = 0
      BY <1>4, <2>2
    <3>2. IntervalLen(i) <= now + 1
      <4>1. IntervalLen(i) \in Nat \ {0} /\ now + 1 \in Nat \ {0}
        BY <1>1, Lengths
      <4> QED BY <3>1, <4>1, MultipleReaches
    <3>3. j.interval = i /\ j.at = now' /\ ~(j.at < now') /\ j.at <= now'
      BY <1>1, <3>1
    <3> QED BY <1>1, <3>1, <3>2, <3>3
  <2> QED BY <2>1, <2>2
<1>12. GapsKnown'
  <2> SUFFICES ASSUME NEW p \in Periods, p < now', ~Exact(p)'
               PROVE  \/ p \in excused'
                      \/ [interval |-> "5m", at |-> p + 1] \in due'
                      \/ work.at = "write" /\ work.interval = "5m" /\ work.job = p + 1
    BY <1>0 DEF GapsKnown, Periods
  <2>1. CASE p < now
    BY <1>3, <1>4, <1>5, <2>1 DEF CandleIInv, GapsKnown
  <2>2. CASE p = now
    <3>1. CASE "5m" \notin repeating
      BY <1>5, <2>2, <3>1
    <3>2. CASE "5m" \in repeating
      <4>1. (now + 1) % IntervalLen("5m") = 0
        <5>1. IntervalLen("5m") = 1
          BY DEF IntervalLen
        <5>2. (now + 1) % 1 = 0
          BY <1>1
        <5> QED BY <5>1, <5>2
      <4> QED BY <1>4, <2>2, <3>2, <4>1
    <3> QED BY <3>1, <3>2
  <2>3. p \in Nat
    BY DEF Periods
  <2> QED BY <1>1, <2>1, <2>2, <2>3
<1> QED BY <1>6, <1>7, <1>8, <1>9, <1>10, <1>11, <1>12 DEF CandleIInv

LEMMA StartKeeps ==
  ASSUME CandleIInv, Start PROVE CandleIInv'
<1>0. CandleTypes /\ UNCHANGED <<now, swaps, candle, due, work, excused>>
  BY DEF CandleIInv, Start
<1>1. /\ boot' = [at |-> "backfill", interval |-> "5m", period |-> 0, last |-> 0, row |-> NoCandle]
      /\ repeating' = {} /\ healed' = [i \in Intervals |-> 0]
  BY DEF Start, Down
<1>2. CandleTypes'
  <2>1. boot' \in BootType
    <3>1. NoCandle \in Cells
      BY DEF Cells
    <3> QED BY <1>1, <3>1 DEF BootType, BootPlaces, Intervals
  <2>2. healed' \in [Intervals -> Int] /\ healed'["5m"] <= now
    <3>1. now \in Nat
      BY <1>0 DEF CandleTypes, Periods
    <3> QED BY <1>1, <3>1 DEF Intervals
  <2> QED BY <1>0, <1>1, <2>1, <2>2 DEF CandleTypes
<1>3. RowsRight' /\ \A p : Exact(p)' <=> Exact(p)
  BY <1>0, RowsStand DEF CandleIInv
<1>4. BootRight' /\ Swept'
  BY <1>1 DEF BootRight, Swept
<1>5. WorkRight' /\ JobTaken'
  BY <1>0, WorkStands DEF CandleIInv
<1>6. HealedExact'
  <2>1. \A p \in Periods : ~(p < healed'["5m"])
    BY <1>1, Lengths DEF Intervals
  <2> QED BY <2>1 DEF HealedExact, Periods
<1>7. JobsDue'
  BY <1>0 DEF CandleIInv, JobsDue
<1>8. GapsKnown'
  BY <1>0, <1>3, GapsStand DEF CandleIInv
<1> QED BY <1>2, <1>3, <1>4, <1>5, <1>6, <1>7, <1>8 DEF CandleIInv

(* A series is done, or there was nothing to sweep. *)
LEMMA BackfillEndsKeeps ==
  ASSUME CandleIInv, BackfillEnds, UNCHANGED <<now, swaps, candle, due, repeating, work, boots, excused>>,
         boot.last <= now, boot.interval = "5m" => \A p \in Periods : p < boot.last => Exact(p)
  PROVE  CandleIInv'
<1>0. CandleTypes
  BY DEF CandleIInv
<1>1. PICK i \in Intervals, x \in Int : i = boot.interval /\ x = boot.last
  BY <1>0 DEF CandleTypes, BootType
<1>2. \/ boot' = [at |-> "backfill", interval |-> "1h", period |-> 0, last |-> 0, row |-> NoCandle]
      \/ boot' = [at |-> "register", interval |-> "5m", period |-> 0, last |-> 0, row |-> NoCandle]
  BY DEF BackfillEnds, Down
<1>3. healed' = [healed EXCEPT ![i] = x]
  BY <1>1 DEF BackfillEnds
<1>4. CandleTypes'
  <2>1. boot' \in BootType
    <3>1. NoCandle \in Cells
      BY DEF Cells
    <3> QED BY <1>2, <3>1 DEF BootType, BootPlaces, Intervals
  <2>2. healed' \in [Intervals -> Int] /\ healed'["5m"] <= now
    BY <1>0, <1>1, <1>3 DEF CandleTypes, Intervals
  <2> QED BY <1>0, <2>1, <2>2 DEF CandleTypes
<1>5. RowsRight' /\ \A p : Exact(p)' <=> Exact(p)
  BY RowsStand DEF CandleIInv
<1>6. BootRight' /\ Swept'
  BY <1>2 DEF BootRight, Swept
<1>7. WorkRight' /\ JobTaken'
  BY WorkStands DEF CandleIInv
<1>8. HealedExact'
  <2>1. healed'["5m"] = IF i = "5m" THEN x ELSE healed["5m"]
    BY <1>0, <1>3 DEF CandleTypes, Intervals
  <2>2. \A p \in Periods : p < healed'["5m"] => Exact(p)
    BY <1>1, <2>1 DEF CandleIInv, HealedExact
  <2> QED BY <1>5, <2>2 DEF HealedExact, Periods
<1>9. JobsDue'
  BY DEF CandleIInv, JobsDue
<1>10. GapsKnown'
  BY <1>5, GapsStand DEF CandleIInv
<1> QED BY <1>4, <1>5, <1>6, <1>7, <1>8, <1>9, <1>10 DEF CandleIInv

(* Only the start-up moves, to a state that is right. *)
LEMMA BootMoves ==
  ASSUME CandleIInv, UNCHANGED <<now, swaps, candle, due, work, excused, healed>>,
         repeating' \subseteq Intervals, boot' \in BootType, BootRight', Swept'
  PROVE  CandleIInv'
<1>1. CandleTypes'
  BY DEF CandleIInv, CandleTypes
<1>2. RowsRight' /\ \A p : Exact(p)' <=> Exact(p)
  BY RowsStand DEF CandleIInv
<1>3. WorkRight' /\ JobTaken'
  BY WorkStands DEF CandleIInv
<1>4. HealedExact'
  BY <1>2 DEF CandleIInv, HealedExact
<1>5. JobsDue'
  BY DEF CandleIInv, JobsDue
<1>6. GapsKnown'
  BY <1>2, GapsStand DEF CandleIInv
<1> QED BY <1>1, <1>2, <1>3, <1>4, <1>5, <1>6 DEF CandleIInv

LEMMA BackfillBeginsKeeps ==
  ASSUME CandleIInv, BackfillBegins PROVE CandleIInv'
<1>0. CandleTypes /\ RowsRight /\ UNCHANGED <<now, swaps, candle, due, repeating, work, boots, excused>>
  BY DEF CandleIInv, BackfillBegins
<1>1. now \in Nat /\ boot.at = "backfill" /\ boot.last = 0
  BY <1>0 DEF CandleTypes, Periods, CandleIInv, BootRight, BackfillBegins
<1>2. CASE swaps = <<>>
  <2>1. BackfillEnds
    BY <1>2 DEF BackfillBegins
  <2>2. \A p \in Periods : ~(p < boot.last)
    BY <1>1 DEF Periods
  <2> QED BY <1>0, <1>1, <2>1, <2>2, BackfillEndsKeeps
<1>3. CASE swaps # <<>>
  <2>1. PICK i, x : i = boot.interval /\ x = LastPeriod(i)
    OBVIOUS
  <2>2. PICK y : y = FirstPeriod(i)
    OBVIOUS
  <2>3. i \in Intervals
    BY <1>0, <2>1 DEF CandleTypes, BootType
  <2>4. boot' = [boot EXCEPT !.at = "read", !.last = x, !.period = y] /\ UNCHANGED healed
    BY <1>3, <2>1, <2>2 DEF BackfillBegins
  <2>5. x \in Int /\ x + IntervalLen(i) <= now
    BY <1>1, <2>1, <2>3, LastIsWhole
  <2>6. PICK n \in Nat : n = Len(swaps) /\ 1 \in 1..n
    <3>1. Len(swaps) \in Nat /\ Len(swaps) # 0
      BY <1>0, <1>3, EmptySeq DEF CandleTypes
    <3> QED BY <3>1
  <2>7. PICK a \in Nat : a = swaps[1].at
    <3>1. swaps \in Seq(SwapRows) /\ 1 \in 1..Len(swaps)
      BY <1>0, <2>6 DEF CandleTypes
    <3>2. swaps[1] \in SwapRows
      BY <3>1
    <3> QED BY <3>2 DEF SwapRows
  <2>8. PICK l \in Nat \ {0} : l = IntervalLen(i)
    BY <2>3, Lengths
  <2>9. PICK q \in Nat : q = a \div l
    OBVIOUS
  <2>10. y = q * l /\ y \in Nat
    BY <2>2, <2>7, <2>8, <2>9 DEF FirstPeriod
  <2>11. boot' \in BootType /\ boot'.at = "read" /\ boot'.interval = i /\ boot'.period = y /\ boot'.last = x
    <3>1. x \in Int /\ y \in Int /\ "read" \in BootPlaces /\ boot \in BootType
      BY <1>0, <2>5, <2>10 DEF CandleTypes, BootPlaces
    <3>2. boot' \in BootType
      BY <2>4, <3>1 DEF BootType
    <3>3. boot'.at = "read" /\ boot'.interval = i /\ boot'.period = y /\ boot'.last = x
      BY <2>1, <2>4, <3>1 DEF BootType
    <3> QED BY <3>2, <3>3
  <2>12. BootRight'
    BY <1>0, <2>5, <2>8, <2>9, <2>10, <2>11 DEF BootRight
  <2>13. Swept'
    <3> SUFFICES ASSUME i = "5m", NEW p \in Periods, p < y PROVE Exact(p)'
      BY <2>11 DEF Swept, Periods
    <3>1. y = a
      <4>1. l = 1
        BY <2>8 DEF IntervalLen
      <4>2. q = a
        BY <2>9, <4>1
      <4> QED BY <2>10, <4>1, <4>2
    <3>2. \A k \in 1..n : swaps[k].at \notin {p}
      <4> SUFFICES ASSUME NEW k \in 1..n PROVE swaps[k].at # p
        OBVIOUS
      <4>1. a <= swaps[k].at
        <5>1. CASE k = 1
          BY <2>7, <5>1
        <5>2. CASE k # 1
          <6>1. 1 < k
            BY <5>2
          <6> QED BY <1>0, <2>6, <2>7, <6>1 DEF CandleTypes, InOrder
        <5> QED BY <5>1, <5>2
      <4>2. swaps[k].at \in Nat
        <5>1. swaps \in Seq(SwapRows) /\ k \in 1..Len(swaps)
          BY <1>0, <2>6 DEF CandleTypes
        <5>2. swaps[k] \in SwapRows
          BY <5>1
        <5> QED BY <5>2 DEF SwapRows
      <4> QED BY <3>1, <4>1, <4>2 DEF Periods
    <3>3. CandleOf(swaps, {p}) = NoCandle
      BY <1>0, <2>6, <3>2, CandleOfNothing DEF CandleTypes
    <3>4. candle["5m"][p] = NoCandle \/ candle["5m"][p] = CandleOf(swaps, {p})
      <4>1. "5m" \in Intervals
        BY DEF Intervals
      <4> QED BY <1>0, <4>1 DEF RowsRight, Sound, Right
    <3> QED BY <1>0, <3>3, <3>4 DEF Exact
  <2>14. repeating' \subseteq Intervals
    BY <1>0 DEF CandleTypes
  <2> QED BY <1>0, <2>4, <2>11, <2>12, <2>13, <2>14, BootMoves
<1> QED BY <1>2, <1>3

LEMMA BackfillReadsKeeps ==
  ASSUME CandleIInv, BackfillReads PROVE CandleIInv'
<1>0. CandleTypes /\ RowsRight /\ UNCHANGED <<now, swaps, candle, due, repeating, work, boots, excused>>
  BY DEF CandleIInv, BackfillReads
<1>1. PICK i, p, x : i = boot.interval /\ p = boot.period /\ x = boot.last
  OBVIOUS
<1>2. /\ now \in Nat /\ boot.at = "read" /\ p \in Nat /\ (\E m \in Nat : p = m * IntervalLen(i))
      /\ x \in Int /\ x + IntervalLen(i) <= now /\ i \in Intervals
  BY <1>0, <1>1 DEF CandleTypes, Periods, CandleIInv, BootRight, BackfillReads, BootType
<1>3. PICK l \in Nat \ {0} : l = IntervalLen(i)
  BY <1>2, Lengths
<1>4. CASE p >= x
  <2>1. BackfillEnds
    BY <1>1, <1>4 DEF BackfillReads
  <2>2. x <= now
    BY <1>2, <1>3
  <2>3. ASSUME i = "5m", NEW q \in Periods, q < x PROVE Exact(q)
    <3>1. q < p
      BY <1>2, <1>4, <2>3 DEF Periods
    <3> QED BY <1>1, <1>2, <2>3, <3>1 DEF CandleIInv, Swept
  <2> QED BY <1>0, <1>1, <2>1, <2>2, <2>3, BackfillEndsKeeps
<1>5. CASE p < x
  <2>1. PICK row : row = ReadPeriod(i, p)
    OBVIOUS
  <2>2. boot' = [boot EXCEPT !.at = "write", !.row = row] /\ UNCHANGED healed
    BY <1>1, <1>2, <1>5, <2>1 DEF BackfillReads
  <2>3. Whole(i, p)
    BY <1>2, <1>3, <1>5 DEF Whole
  <2>4. Sound(i, p, row) /\ row \in Cells
    BY <1>0, <1>2, <2>1, <2>3, ReadsRight
  <2>5. /\ boot' \in BootType /\ boot'.at = "write" /\ boot'.interval = i
        /\ boot'.period = p /\ boot'.last = x /\ boot'.row = row
    BY <1>0, <1>1, <2>2, <2>4 DEF CandleTypes, BootType, BootPlaces
  <2>6. BootRight'
    <3>1. Sound(i, p, row)'
      BY <1>0, <2>4 DEF Sound, Whole
    <3>2. Sound(boot.interval, boot.period, boot.row)'
      BY <2>5, <3>1 DEF Sound, Whole
    <3> QED BY <1>0, <1>2, <2>5, <3>2 DEF BootRight
  <2>7. Swept'
    <3>1. \A q : Exact(q)' <=> Exact(q)
      BY <1>0, RowsStand
    <3> QED BY <1>1, <1>2, <2>5, <3>1 DEF CandleIInv, Swept
  <2>8. repeating' \subseteq Intervals
    BY <1>0 DEF CandleTypes
  <2> QED BY <1>0, <2>2, <2>5, <2>6, <2>7, <2>8, BootMoves
<1> QED BY <1>2, <1>4, <1>5

LEMMA RegisterKeeps ==
  ASSUME CandleIInv, Register PROVE CandleIInv'
<1>1. /\ CandleTypes /\ UNCHANGED <<now, swaps, candle, due, work, excused, healed>>
      /\ boot.at = "register" /\ repeating' \subseteq Intervals
      /\ boot' = boot \/ boot' = [boot EXCEPT !.at = "up"]
  BY DEF CandleIInv, CandleTypes, Register
<1>2. boot' \in BootType /\ boot'.at \in {"register", "up"}
  BY <1>1 DEF CandleTypes, BootType, BootPlaces
<1>3. BootRight' /\ Swept'
  BY <1>2 DEF BootRight, Swept
<1> QED BY <1>1, <1>2, <1>3, BootMoves

LEMMA BackfillWritesKeeps ==
  ASSUME CandleIInv, BackfillWrites PROVE CandleIInv'
<1>0. CandleTypes /\ RowsRight /\ UNCHANGED <<now, swaps, due, repeating, work, boots, excused, healed>>
  BY DEF CandleIInv, BackfillWrites
<1>1. PICK i, p, x, row : i = boot.interval /\ p = boot.period /\ x = boot.last /\ row = boot.row
  OBVIOUS
<1>2. /\ now \in Nat /\ boot.at = "write" /\ p \in Nat /\ (\E m \in Nat : p = m * IntervalLen(i))
      /\ x \in Int /\ x + IntervalLen(i) <= now /\ i \in Intervals /\ row \in Cells /\ Sound(i, p, row)
  BY <1>0, <1>1 DEF CandleTypes, Periods, CandleIInv, BootRight, BackfillWrites, BootType
<1>3. PICK l \in Nat \ {0} : l = IntervalLen(i)
  BY <1>2, Lengths
<1>4. Upsert(i, p, row) /\ boot' = [boot EXCEPT !.at = "read", !.period = p + l]
  BY <1>1, <1>3 DEF BackfillWrites
<1>5. /\ candle' \in [Intervals -> [Periods -> Cells]] /\ RowsRight'
      /\ \A q \in Periods : Exact(q) => Exact(q)'
      /\ i = "5m" => Exact(p)'
  BY <1>0, <1>2, <1>4, UpsertRows
<1>6. /\ boot' \in BootType /\ boot'.at = "read" /\ boot'.interval = i
      /\ boot'.period = p + l /\ boot'.last = x
  <2>1. PICK z \in Int : z = p + l
    BY <1>2
  <2>2. boot' = [boot EXCEPT !.at = "read", !.period = z] /\ boot \in BootType /\ "read" \in BootPlaces
    BY <1>0, <1>4, <2>1 DEF CandleTypes, BootPlaces
  <2>3. boot' \in BootType
    BY <2>1, <2>2 DEF BootType
  <2>4. boot'.at = "read" /\ boot'.interval = i /\ boot'.period = z /\ boot'.last = x
    BY <1>1, <2>2 DEF BootType
  <2> QED BY <2>1, <2>3, <2>4
<1>7. CandleTypes'
  BY <1>0, <1>5, <1>6 DEF CandleTypes
<1>8. BootRight'
  <2>1. PICK m \in Nat : p = m * l
    BY <1>2, <1>3
  <2>2. p + l = (m + 1) * l /\ m + 1 \in Nat /\ p + l \in Nat
    BY <1>2, <2>1
  <2> QED BY <1>0, <1>2, <1>3, <1>6, <2>2 DEF BootRight
<1>9. WorkRight' /\ JobTaken'
  BY <1>0, WorkStands DEF CandleIInv
<1>10. Swept'
  <2> SUFFICES ASSUME i = "5m", NEW q \in Periods, q < p + l, q < x PROVE Exact(q)'
    BY <1>6 DEF Swept, Periods
  <2>1. l = 1 /\ q \in Nat
    BY <1>3 DEF IntervalLen, Periods
  <2>2. CASE q = p
    BY <1>5, <2>2
  <2>3. CASE q < p
    <3>1. Exact(q)
      BY <1>1, <1>2, <2>3 DEF CandleIInv, Swept
    <3> QED BY <1>5, <3>1
  <2> QED BY <1>2, <2>1, <2>2, <2>3
<1>11. HealedExact'
  <2>1. \A q \in Periods : q < healed["5m"] => Exact(q)
    BY DEF CandleIInv, HealedExact
  <2> QED BY <1>0, <1>5, <2>1 DEF HealedExact, Periods
<1>12. JobsDue'
  BY <1>0 DEF CandleIInv, JobsDue
<1>13. GapsKnown'
  BY <1>0, <1>5, GapsStand DEF CandleIInv
<1> QED BY <1>5, <1>7, <1>8, <1>9, <1>10, <1>11, <1>12, <1>13 DEF CandleIInv

LEMMA TakeJobKeeps ==
  ASSUME CandleIInv, TakeJob PROVE CandleIInv'
<1>0. CandleTypes /\ RowsRight /\ UNCHANGED <<now, swaps, candle, repeating, boot, boots, excused, healed>>
  BY DEF CandleIInv, TakeJob
<1>1. PICK j \in due :
        /\ due' = due \ {j}
        /\ work' = [at |-> "write", interval |-> j.interval, period |-> LastPeriod(j.interval),
                    row |-> ReadPeriod(j.interval, LastPeriod(j.interval)), job |-> j.at]
  BY DEF TakeJob
<1>2. PICK i, a : i = j.interval /\ a = j.at
  OBVIOUS
<1>3. /\ i \in Intervals /\ a \in Periods /\ j = [interval |-> i, at |-> a] /\ IntervalLen(i) <= a /\ a <= now
      /\ (i = "5m" /\ a < now => a - 1 \in excused) /\ now \in Nat /\ a \in Nat
  BY <1>0, <1>2 DEF CandleIInv, CandleTypes, JobsDue, DueJobs, Periods
<1>4. PICK p : p = LastPeriod(i)
  OBVIOUS
<1>5. PICK row : row = ReadPeriod(i, p)
  OBVIOUS
<1>6. PICK l \in Nat \ {0} : l = IntervalLen(i)
  BY <1>3, Lengths
<1>7. l <= now
  BY <1>3, <1>6
<1>8. /\ p \in Int /\ p + l <= now /\ p \in Nat /\ (\E m \in Nat : p = m * l)
      /\ (i = "5m" => p = now - 1)
  BY <1>3, <1>4, <1>6, <1>7, LastIsWhole
<1>9. Sound(i, p, row) /\ row \in Cells
  <2>1. Whole(i, p)
    BY <1>6, <1>8 DEF Whole
  <2> QED BY <1>0, <1>3, <1>5, <2>1, ReadsRight
<1>10. /\ work' = [at |-> "write", interval |-> i, period |-> p, row |-> row, job |-> a]
       /\ work' \in WorkType
  <2>1. work' = [at |-> "write", interval |-> i, period |-> p, row |-> row, job |-> a]
    BY <1>1, <1>2, <1>4, <1>5
  <2> QED BY <1>3, <1>8, <1>9, <2>1 DEF WorkType
<1>11. CandleTypes'
  BY <1>0, <1>1, <1>10 DEF CandleTypes
<1>12. RowsRight' /\ \A q : Exact(q)' <=> Exact(q)
  BY <1>0, RowsStand
<1>13. BootRight' /\ Swept'
  BY <1>0, BootStands DEF CandleIInv
<1>14. WorkRight'
  <2>1. Sound(i, p, row)'
    BY <1>0, <1>9 DEF Sound, Whole
  <2> QED BY <1>10, <2>1 DEF WorkRight, Sound, Whole
<1>15. JobTaken'
  <2>1. i = "5m" => p = a - 1 \/ a - 1 \in excused
    BY <1>3, <1>8
  <2> QED BY <1>0, <1>3, <1>10, <2>1 DEF JobTaken
<1>16. HealedExact'
  BY <1>0, <1>12 DEF CandleIInv, HealedExact
<1>17. JobsDue'
  BY <1>0, <1>1 DEF CandleIInv, JobsDue
<1>18. GapsKnown'
  <2> SUFFICES ASSUME NEW q \in Periods, q < now, ~Exact(q), q \notin excused, [interval |-> "5m", at |-> q + 1] \notin due'
               PROVE  work'.at = "write" /\ work'.interval = "5m" /\ work'.job = q + 1
    BY <1>0, <1>12 DEF GapsKnown, Periods
  <2>1. work.at = "idle"
    BY DEF TakeJob
  <2>2. [interval |-> "5m", at |-> q + 1] \in due
    BY <2>1 DEF CandleIInv, GapsKnown
  <2>3. j = [interval |-> "5m", at |-> q + 1]
    BY <1>1, <2>2
  <2>4. i = "5m" /\ a = q + 1
    BY <1>2, <2>3
  <2> QED BY <1>10, <2>4
<1> QED BY <1>11, <1>12, <1>13, <1>14, <1>15, <1>16, <1>17, <1>18 DEF CandleIInv

(* The worker is idle again, and what it did is done or on record. *)
LEMMA WorkerRests ==
  ASSUME CandleIInv, work' = Idle, UNCHANGED <<now, swaps, candle, boot, repeating, healed>>,
         due' \subseteq DueJobs, JobsDue', GapsKnown'
  PROVE  CandleIInv'
<1>1. CandleTypes'
  <2>1. Idle \in WorkType
    BY CandleAssumption DEF Idle, WorkType, Intervals, Cells, Periods
  <2> QED BY <2>1 DEF CandleIInv, CandleTypes
<1>2. RowsRight' /\ \A p : Exact(p)' <=> Exact(p)
  BY RowsStand DEF CandleIInv
<1>3. BootRight' /\ Swept'
  BY BootStands DEF CandleIInv
<1>4. WorkRight' /\ JobTaken'
  BY DEF WorkRight, JobTaken, Idle
<1>5. HealedExact'
  BY <1>2 DEF CandleIInv, HealedExact
<1> QED BY <1>1, <1>2, <1>3, <1>4, <1>5 DEF CandleIInv

LEMMA JobFailsKeeps ==
  ASSUME CandleIInv, JobFails PROVE CandleIInv'
<1>0. CandleTypes /\ UNCHANGED <<now, swaps, candle, due, repeating, boot, boots, healed>> /\ work' = Idle
  BY DEF CandleIInv, JobFails
<1>1. excused \subseteq excused' /\ (work.interval = "5m" => work.job - 1 \in excused')
  BY DEF JobFails
<1>2. JobsDue'
  BY <1>0, <1>1 DEF CandleIInv, JobsDue
<1>3. GapsKnown'
  <2> SUFFICES ASSUME NEW q \in Periods, q < now, ~Exact(q), q \notin excused', [interval |-> "5m", at |-> q + 1] \notin due
               PROVE  FALSE
    BY <1>0 DEF GapsKnown, Periods, Exact
  <2>1. work.interval = "5m" /\ work.job = q + 1
    BY <1>1 DEF CandleIInv, GapsKnown
  <2>2. work.job - 1 = q
    BY <2>1 DEF Periods
  <2> QED BY <1>1, <2>1, <2>2
<1>4. due' \subseteq DueJobs
  BY <1>0 DEF CandleTypes
<1> QED BY <1>0, <1>2, <1>3, <1>4, WorkerRests

LEMMA StopKeeps ==
  ASSUME CandleIInv, Stop PROVE CandleIInv'
<1>0. /\ CandleTypes /\ UNCHANGED <<now, swaps, candle, repeating, boots, healed>> /\ work' = Idle
      /\ boot' = [at |-> "down", interval |-> "5m", period |-> 0, last |-> 0, row |-> NoCandle]
  BY DEF CandleIInv, Stop, Down
<1>1. PICK j : j = [interval |-> work.interval, at |-> work.job]
  OBVIOUS
<1>2. /\ j \in DueJobs /\ j.interval = work.interval /\ j.at = work.job /\ work.job \in Nat /\ now \in Nat
      /\ work.at \in {"idle", "write"}
  BY <1>0, <1>1 DEF CandleTypes, WorkType, DueJobs, Periods
<1>3. /\ due' = IF work.at = "idle" THEN due ELSE due \cup {j}
      /\ excused \subseteq excused'
      /\ (work.at = "write" /\ work.interval = "5m" /\ work.job < now => work.job - 1 \in excused')
  BY <1>1 DEF Stop
<1>4. JobsDue'
  <2> SUFFICES ASSUME NEW k \in due'
               PROVE  /\ IntervalLen(k.interval) <= k.at /\ k.at <= now
                      /\ k.interval = "5m" /\ k.at < now => k.at - 1 \in excused'
    BY <1>0 DEF JobsDue
  <2>1. CASE k \in due
    BY <1>3, <2>1 DEF CandleIInv, JobsDue
  <2>2. CASE k = j /\ work.at = "write"
    BY <1>2, <1>3, <2>2 DEF CandleIInv, JobTaken
  <2> QED BY <1>2, <1>3, <2>1, <2>2
<1>5. GapsKnown'
  <2> SUFFICES ASSUME NEW q \in Periods, q < now, ~Exact(q), q \notin excused', [interval |-> "5m", at |-> q + 1] \notin due'
               PROVE  FALSE
    BY <1>0 DEF GapsKnown, Periods, Exact
  <2>1. work.at = "write" /\ work.interval = "5m" /\ work.job = q + 1
    BY <1>3 DEF CandleIInv, GapsKnown
  <2>2. j \in due' /\ j = [interval |-> "5m", at |-> q + 1]
    BY <1>1, <1>3, <2>1
  <2> QED BY <2>2
<1>6. CandleTypes'
  <2>1. boot' \in BootType
    BY <1>0 DEF BootType, BootPlaces, Intervals, Cells
  <2>2. work' \in WorkType
    BY <1>0, CandleAssumption DEF Idle, WorkType, Intervals, Cells, Periods
  <2>3. due' \subseteq DueJobs
    BY <1>0, <1>2, <1>3 DEF CandleTypes
  <2> QED BY <1>0, <2>1, <2>2, <2>3 DEF CandleTypes
<1>7. RowsRight' /\ \A p : Exact(p)' <=> Exact(p)
  BY <1>0, RowsStand DEF CandleIInv
<1>8. BootRight' /\ Swept'
  BY <1>0 DEF BootRight, Swept
<1>9. WorkRight' /\ JobTaken'
  BY <1>0 DEF WorkRight, JobTaken, Idle
<1>10. HealedExact'
  BY <1>0, <1>7 DEF CandleIInv, HealedExact
<1> QED BY <1>4, <1>5, <1>6, <1>7, <1>8, <1>9, <1>10 DEF CandleIInv

LEMMA JobWritesKeeps ==
  ASSUME CandleIInv, JobWrites PROVE CandleIInv'
<1>0. CandleTypes /\ RowsRight /\ UNCHANGED <<now, swaps, due, repeating, boot, boots, excused, healed>> /\ work' = Idle
  BY DEF CandleIInv, JobWrites
<1>1. PICK i, p, row : i = work.interval /\ p = work.period /\ row = work.row
  OBVIOUS
<1>2. now \in Nat /\ i \in Intervals /\ row \in Cells /\ Sound(i, p, row) /\ Upsert(i, p, row) /\ work.at = "write"
  BY <1>0, <1>1 DEF CandleTypes, Periods, CandleIInv, WorkRight, JobWrites, WorkType
<1>3. /\ candle' \in [Intervals -> [Periods -> Cells]] /\ RowsRight'
      /\ \A q \in Periods : Exact(q) => Exact(q)'
      /\ i = "5m" => Exact(p)'
  BY <1>0, <1>2, UpsertRows
<1>4. CandleTypes'
  <2>1. Idle \in WorkType
    BY CandleAssumption DEF Idle, WorkType, Intervals, Cells, Periods
  <2> QED BY <1>0, <1>3, <2>1 DEF CandleTypes
<1>5. BootRight'
  <2>1. Sound(boot.interval, boot.period, boot.row)' <=> Sound(boot.interval, boot.period, boot.row)
    BY <1>0 DEF Sound, Whole
  <2> QED BY <1>0, <2>1 DEF CandleIInv, BootRight
<1>6. WorkRight' /\ JobTaken'
  BY <1>0 DEF WorkRight, JobTaken, Idle
<1>7. Swept' /\ HealedExact'
  <2>1. Swept'
    <3> SUFFICES ASSUME boot.at \in {"read", "write"}, boot.interval = "5m",
                        NEW q \in Periods, q < boot.period, q < boot.last
                 PROVE  Exact(q)'
      BY <1>0 DEF Swept, Periods
    <3>1. Exact(q)
      BY DEF CandleIInv, Swept
    <3> QED BY <1>3, <3>1
  <2>2. \A q \in Periods : q < healed["5m"] => Exact(q)
    BY DEF CandleIInv, HealedExact
  <2>3. HealedExact'
    BY <1>0, <1>3, <2>2 DEF HealedExact, Periods
  <2> QED BY <2>1, <2>3
<1>8. JobsDue'
  BY <1>0 DEF CandleIInv, JobsDue
<1>9. GapsKnown'
  <2> SUFFICES ASSUME NEW q \in Periods, q < now, ~Exact(q)', q \notin excused, [interval |-> "5m", at |-> q + 1] \notin due
               PROVE  FALSE
    BY <1>0 DEF GapsKnown, Periods
  <2>1. ~Exact(q)
    BY <1>3
  <2>2. i = "5m" /\ work.job = q + 1
    BY <1>1, <2>1 DEF CandleIInv, GapsKnown
  <2>3. p = work.job - 1 \/ work.job - 1 \in excused
    BY <1>1, <1>2, <2>2 DEF CandleIInv, JobTaken
  <2>4. work.job - 1 = q
    BY <2>2 DEF Periods
  <2> QED BY <1>3, <2>2, <2>3, <2>4
<1> QED BY <1>3, <1>4, <1>5, <1>6, <1>7, <1>8, <1>9 DEF CandleIInv

LEMMA CandleStutters ==
  ASSUME CandleIInv, UNCHANGED candleVars PROVE CandleIInv'
<1>1. UNCHANGED <<now, swaps, candle, due, repeating, boot, work, boots, excused, healed>>
  BY DEF candleVars
<1>2. CandleTypes' /\ JobsDue'
  BY <1>1 DEF CandleIInv, CandleTypes, JobsDue
<1>3. RowsRight' /\ \A p : Exact(p)' <=> Exact(p)
  BY <1>1, RowsStand DEF CandleIInv
<1>4. BootRight' /\ Swept'
  BY <1>1, BootStands DEF CandleIInv
<1>5. WorkRight' /\ JobTaken'
  BY <1>1, WorkStands DEF CandleIInv
<1>6. HealedExact'
  BY <1>1, <1>3 DEF CandleIInv, HealedExact
<1>7. GapsKnown'
  BY <1>1, <1>3, GapsStand DEF CandleIInv
<1> QED BY <1>2, <1>3, <1>4, <1>5, <1>6, <1>7 DEF CandleIInv

LEMMA CandleKeeps ==
  ASSUME CandleIInv, CandleNext PROVE CandleIInv'
BY SwapHappensKeeps, TimePassesKeeps, StartKeeps, BackfillBeginsKeeps, BackfillReadsKeeps, BackfillWritesKeeps,
   RegisterKeeps, TakeJobKeeps, JobWritesKeeps, JobFailsKeeps, StopKeeps DEF CandleNext

LEMMA CandleIInvGives == CandleIInv => CandleInv
<1> SUFFICES ASSUME CandleIInv PROVE CandleInv
  OBVIOUS
<1>0. "5m" \in Intervals /\ "1h" \in Intervals
  BY DEF Intervals
<1>1. FivesFoldSwaps
  <2> SUFFICES ASSUME NEW p \in Periods, candle["5m"][p] # NoCandle PROVE candle["5m"][p] = FoldSwaps({p})
    BY DEF FivesFoldSwaps
  <2> QED BY <1>0, FoldSwapsIs DEF CandleIInv, RowsRight, Sound, Right
<1>2. HoursFoldFives
  <2> SUFFICES ASSUME NEW h \in Periods, candle["1h"][h] # NoCandle
               PROVE  \E S \in SUBSET (h..(h + HourLen - 1)) : candle["1h"][h] = FoldSwaps(S)
    BY DEF HoursFoldFives
  <2>1. Right(swaps, "1h", h, candle["1h"][h])
    BY <1>0 DEF CandleIInv, RowsRight, Sound
  <2>2. PICK S \in SUBSET (h..(h + HourLen - 1)) : candle["1h"][h] = CandleOf(swaps, S)
    BY <2>1 DEF Right
  <2> QED BY <2>2, FoldSwapsIs
<1>3. BackfillHeals
  BY FoldSwapsIs DEF CandleIInv, HealedExact, Exact, BackfillHeals
<1>4. GapsExplained
  <2> SUFFICES ASSUME NEW p \in Periods, p < now, candle["5m"][p] # FoldSwaps({p})
               PROVE  \/ p \in excused
                      \/ [interval |-> "5m", at |-> p + 1] \in due
                      \/ work.at # "idle" /\ work.interval = "5m" /\ work.job = p + 1
    BY DEF GapsExplained
  <2>1. ~Exact(p)
    BY FoldSwapsIs DEF Exact
  <2> QED BY <2>1 DEF CandleIInv, GapsKnown
<1> QED BY <1>1, <1>2, <1>3, <1>4 DEF CandleInv

-----------------------------------------------------------------------------
(* A 5m candle that is there is final. *)
LEMMA FivesStand ==
  ASSUME CandleIInv, CandleNext \/ UNCHANGED candleVars
  PROVE  \A q \in Periods : candle["5m"][q] # NoCandle => candle'["5m"][q] = candle["5m"][q]
<1>1. CASE UNCHANGED candle
  BY <1>1
<1>2. CASE BackfillWrites
  <2>1. PICK i, p, row : i = boot.interval /\ p = boot.period /\ row = boot.row
    OBVIOUS
  <2>2. /\ UNCHANGED <<now, swaps>> /\ CandleTypes /\ RowsRight /\ i \in Intervals /\ row \in Cells
        /\ Sound(i, p, row) /\ Upsert(i, p, row)
    BY <1>2, <2>1 DEF CandleIInv, CandleTypes, BootRight, BackfillWrites, BootType
  <2> QED BY <2>2, UpsertRows
<1>3. CASE JobWrites
  <2>1. PICK i, p, row : i = work.interval /\ p = work.period /\ row = work.row
    OBVIOUS
  <2>2. /\ UNCHANGED <<now, swaps>> /\ CandleTypes /\ RowsRight /\ i \in Intervals /\ row \in Cells
        /\ Sound(i, p, row) /\ Upsert(i, p, row)
    BY <1>3, <2>1 DEF CandleIInv, CandleTypes, WorkRight, JobWrites, WorkType
  <2> QED BY <2>2, UpsertRows
<1> QED BY <1>1, <1>2, <1>3 DEF CandleNext, candleVars, SwapHappens, TimePasses, Start, BackfillBegins,
           BackfillReads, Register, TakeJob, JobFails, Stop

CacheRight ==
  \A c \in candleCache : c.interval = "5m" =>
    \A t \in DOMAIN c.buckets : c.buckets[t] # NoCandle =>
      t \div Unit \in Periods /\ c.buckets[t] = candle["5m"][t \div Unit]

LEMMA CacheKeeps ==
  ASSUME CandleIInv, CacheRight, [ServedNext]_servedVars PROVE CacheRight'
<1>1. CASE UNCHANGED candleCache /\ (CandleNext \/ UNCHANGED candleVars)
  <2> SUFFICES ASSUME NEW c \in candleCache, c.interval = "5m", NEW t \in DOMAIN c.buckets, c.buckets[t] # NoCandle
               PROVE  t \div Unit \in Periods /\ c.buckets[t] = candle'["5m"][t \div Unit]
    BY <1>1 DEF CacheRight, Periods
  <2>1. t \div Unit \in Periods /\ c.buckets[t] = candle["5m"][t \div Unit]
    BY DEF CacheRight
  <2> QED BY <1>1, <2>1, FivesStand
<1>2. ASSUME NEW i \in Intervals, NEW limit \in CandleLimits, NEW e \in Explicit, GetCandles(i, e, limit)
      PROVE  CacheRight'
  <2>1. PICK b : b = FillCandleGaps(i, e, limit)
    OBVIOUS
  <2>2. /\ candleCache' = {[interval |-> i, from |-> e.from, to |-> e.to, limit |-> limit, buckets |-> b]}
        /\ candle' = candle
    BY <1>2, <2>1 DEF GetCandles, candleVars
  <2>3. \A t \in DOMAIN b : b[t] # NoCandle => t \div Unit \in Periods /\ b[t] = candle[i][t \div Unit]
    <3>1. \A t \in DOMAIN b : t \in BucketTimes(i, e, limit)
      BY <2>1 DEF FillCandleGaps
    <3>2. \A t \in BucketTimes(i, e, limit) : b[t] = IF t \div Unit \in RowsIn(i, e) THEN candle[i][t \div Unit] ELSE NoCandle
      BY <2>1 DEF FillCandleGaps
    <3>3. RowsIn(i, e) \subseteq Periods
      BY DEF RowsIn
    <3> QED BY <3>1, <3>2, <3>3
  <2> QED BY <2>2, <2>3 DEF CacheRight, Periods
<1>3. CASE ExpireCandles
  BY <1>3 DEF ExpireCandles, CacheRight
<1> QED BY <1>1, <1>2, <1>3 DEF ServedNext, servedVars

-----------------------------------------------------------------------------
(* A range: from, to and the interval's length in seconds are integers. *)
LEMMA RangeTyped ==
  ASSUME now \in Nat, NEW i \in Intervals
  PROVE  /\ Unit \in Nat \ {0} /\ LenOf(i) \in Nat \ {0} /\ Moments \subseteq Int
         /\ \A limit \in CandleLimits : limit \in Nat /\ \A e \in RangesOf(i, limit) : e.from \in Int /\ e.to \in Int
<1>1. PICK u \in Nat \ {0} : u = Unit
  BY CandleReadAssumption
<1>2. PICK l \in Nat \ {0} : l = IntervalLen(i)
  BY Lengths
<1>3. l * u \in Nat \ {0}
  <2>1. 1 * u <= l * u
    BY TimesGrows
  <2>2. l * u \in Nat
    OBVIOUS
  <2> QED BY <2>1, <2>2
<1>4. PICK m \in Nat \ {0} : m = LenOf(i)
  BY <1>1, <1>2, <1>3 DEF LenOf
<1>5. Moments \subseteq Int
  <2>1. now * u \in Int
    OBVIOUS
  <2> QED BY <1>1, <2>1 DEF Moments
<1>6. ASSUME NEW limit \in CandleLimits, NEW e \in RangesOf(i, limit)
      PROVE  e.from \in Int /\ e.to \in Int
  <2>1. limit \in Nat
    BY CandleReadAssumption
  <2>2. CASE e \in Explicit
    BY <2>2, CandleReadAssumption
  <2>3. ASSUME NEW t \in Moments, e = DefaultRange(i, t, limit) PROVE e.from \in Int /\ e.to \in Int
    <3>1. t \in Int /\ m * limit \in Int
      BY <1>5, <2>1
    <3> QED BY <1>4, <2>3, <3>1 DEF DefaultRange
  <2> QED BY <2>2, <2>3 DEF RangesOf
<1>7. \A limit \in CandleLimits : limit \in Nat
  BY CandleReadAssumption
<1> QED BY <1>1, <1>4, <1>5, <1>6, <1>7

(* The bucket of a candle is in the answer if it begins in the range and the limit reaches it. *)
LEMMA BucketShown ==
  ASSUME CandleIInv, NEW i \in Intervals, NEW limit \in CandleLimits, NEW e, e.from \in Int, e.to \in Int,
         NEW p \in Periods, candle[i][p] # NoCandle, e.from <= p * Unit, p * Unit <= e.to,
         (p * Unit - AlignedTo(i, e.from)) \div LenOf(i) < limit
  PROVE  /\ p * Unit \in DOMAIN FillCandleGaps(i, e, limit)
         /\ FillCandleGaps(i, e, limit)[p * Unit] = candle[i][p]
<1>0. now \in Nat
  BY DEF CandleIInv, CandleTypes, Periods
<1>1. PICK u \in Nat \ {0}, L \in Nat \ {0} : u = Unit /\ L = LenOf(i)
  BY <1>0, RangeTyped
<1>2. PICK t \in Int : t = p * u
  BY DEF Periods
<1>3. PICK k \in Nat : t = k * L
  <2>1. PICK k \in Nat : p = k * IntervalLen(i)
    BY DEF CandleIInv, RowsRight, Sound, Whole
  <2>2. PICK l \in Nat : l = IntervalLen(i)
    BY Lengths
  <2>3. L = l * u
    BY <1>1, <2>2 DEF LenOf
  <2>4. t = k * L
    BY <1>2, <2>1, <2>2, <2>3
  <2> QED BY <2>4
<1>4. PICK a \in Int, z \in Int : a = e.from \div L /\ z = e.to \div L
  OBVIOUS
<1>5. a * L <= t
  <2>1. a * L <= e.from
    BY <1>4, FitsIn
  <2>2. a * L \in Int
    OBVIOUS
  <2> QED BY <1>1, <1>2, <2>1, <2>2
<1>6. t <= z * L
  <2>1. k * L <= e.to
    BY <1>1, <1>2, <1>3
  <2>2. k <= z
    BY <1>4, <2>1, FitsIn
  <2> QED BY <1>3, <2>2, TimesGrows
<1>7. t % L = 0
  BY <1>3, MultipleDivides
<1>8. AlignedTo(i, e.from) = a * L /\ AlignedTo(i, e.to) = z * L
  BY <1>1, <1>4 DEF AlignedTo
<1>9. t \in BucketTimes(i, e, limit)
  <2>1. t \in (a * L)..(z * L)
    BY <1>5, <1>6
  <2> QED BY <1>1, <1>2, <1>7, <1>8, <2>1 DEF BucketTimes
<1>10. t \div u = p
  <2>1. p \in Int
    BY DEF Periods
  <2> QED BY <1>2, <2>1, MultipleDivides
<1>11. p \in RowsIn(i, e)
  BY DEF RowsIn
<1> QED BY <1>1, <1>2, <1>9, <1>10, <1>11 DEF FillCandleGaps

LEMMA ReadsAreRight ==
  ASSUME CandleIInv, CacheRight PROVE CandlesServed
<1>0. now \in Nat
  BY DEF CandleIInv, CandleTypes, Periods
<1>1. NoCandleHidden
  <2> SUFFICES ASSUME NEW i \in Intervals, NEW limit \in CandleLimits, NEW e \in RangesOf(i, limit),
                      NEW p \in Periods, candle[i][p] # NoCandle, p * Unit \in e.from..e.to,
                      ~ ((p * Unit - AlignedTo(i, e.from)) \div LenOf(i) >= limit)
               PROVE  /\ p * Unit \in DOMAIN FillCandleGaps(i, e, limit)
                      /\ FillCandleGaps(i, e, limit)[p * Unit] = candle[i][p]
    BY DEF NoCandleHidden
  <2>1. e.from \in Int /\ e.to \in Int /\ limit \in Nat
    BY <1>0, RangeTyped
  <2>2. PICK u \in Nat \ {0}, L \in Nat \ {0} : u = Unit /\ L = LenOf(i)
    BY <1>0, RangeTyped
  <2>3. PICK t \in Int, a \in Int : t = p * u /\ a = e.from \div L
    BY <2>1 DEF Periods
  <2>4. PICK y \in Int : y = a * L
    OBVIOUS
  <2>5. PICK d \in Int : d = (t - y) \div L
    OBVIOUS
  <2>6. (p * Unit - AlignedTo(i, e.from)) \div LenOf(i) = d
    BY <2>2, <2>3, <2>4, <2>5 DEF AlignedTo
  <2>7. d < limit
    BY <2>1, <2>6
  <2>8. e.from <= p * Unit /\ p * Unit <= e.to
    BY <2>1, <2>2, <2>3
  <2> QED BY <2>1, <2>6, <2>7, <2>8, BucketShown
<1>2. DefaultShowsComplete
  <2> SUFFICES ASSUME NEW i \in Intervals, NEW limit \in CandleLimits, NEW t \in Moments, NEW p \in Periods,
                      candle[i][p] # NoCandle, p * Unit + LenOf(i) <= t, p * Unit > t - LenOf(i) * limit
               PROVE  /\ p * Unit \in DOMAIN FillCandleGaps(i, DefaultRange(i, t, limit), limit)
                      /\ FillCandleGaps(i, DefaultRange(i, t, limit), limit)[p * Unit] = candle[i][p]
    BY DEF DefaultShowsComplete
  <2>1. t \in Int /\ limit \in Nat
    BY <1>0, RangeTyped
  <2>2. PICK u \in Nat \ {0}, L \in Nat \ {0} : u = Unit /\ L = LenOf(i)
    BY <1>0, RangeTyped
  <2>3. PICK e : e = DefaultRange(i, t, limit)
    OBVIOUS
  <2>4. PICK s \in Int, b \in Int : s = p * u /\ b = t - L * limit
    BY <2>1 DEF Periods
  <2>5. e.from = b /\ e.to = t
    BY <2>2, <2>3, <2>4 DEF DefaultRange
  <2>6. b < s /\ s + L <= t
    BY <2>2, <2>4
  <2>7. PICK a \in Int : a = b \div L
    OBVIOUS
  <2>8. ~ (a + 1 <= b \div L) /\ a + 1 \in Int
    BY <2>7
  <2>9. ~ ((a + 1) * L <= b)
    BY <2>8, FitsIn
  <2>10. PICK y \in Int : y = a * L
    OBVIOUS
  <2>11. b < y + L
    <3>1. (a + 1) * L = y + L
      BY <2>10
    <3> QED BY <2>9, <3>1
  <2>12. PICK d \in Int : d = (s - y) \div L
    OBVIOUS
  <2>13. d < limit
    <3> SUFFICES ASSUME limit <= d PROVE FALSE
      BY <2>1
    <3>1. limit * L <= s - y
      BY <2>1, <2>12, FitsIn
    <3>2. PICK n \in Int : n = limit * L
      BY <2>1
    <3>3. b = t - n
      BY <2>1, <2>4, <3>2
    <3> QED BY <2>1, <2>6, <2>11, <3>1, <3>2, <3>3
  <2>14. (p * Unit - AlignedTo(i, e.from)) \div LenOf(i) = d
    BY <2>2, <2>4, <2>5, <2>7, <2>10, <2>12 DEF AlignedTo
  <2>15. e.from <= p * Unit /\ p * Unit <= e.to /\ e.from \in Int /\ e.to \in Int
    BY <2>1, <2>2, <2>4, <2>5, <2>6
  <2>16. /\ p * Unit \in DOMAIN FillCandleGaps(i, e, limit)
         /\ FillCandleGaps(i, e, limit)[p * Unit] = candle[i][p]
    BY <2>13, <2>14, <2>15, BucketShown
  <2> QED BY <2>3, <2>16
<1>3. CachedFivesAreFinal
  BY DEF CachedFivesAreFinal, CacheRight
<1> QED BY <1>1, <1>2, <1>3, CandleIInvGives DEF CandlesServed

(* However jobs, swaps, failures and restarts interleave, and for any hour, prices and ranges: a 5m *)
(* candle is the fold of the swaps of its period, an hour's of some of its own, what the backfill   *)
(* passed is complete, and a gap is on record; an answer shows every candle it should, and a 5m     *)
(* candle in the cache stays true (candles.service.ts, candles.worker.ts, price.service.ts).       *)
THEOREM CandlesSound == ServedSpec => []CandlesServed
<1>1. ServedInit => CandleIInv /\ CacheRight
  BY CandleStarts DEF ServedInit, CacheRight
<1>2. CandleIInv /\ CacheRight /\ [ServedNext]_servedVars => CandleIInv' /\ CacheRight'
  <2> SUFFICES ASSUME CandleIInv, CacheRight, [ServedNext]_servedVars PROVE CandleIInv' /\ CacheRight'
    OBVIOUS
  <2>1. CandleNext \/ UNCHANGED candleVars
    BY DEF ServedNext, servedVars, GetCandles, ExpireCandles
  <2> QED BY <2>1, CandleKeeps, CandleStutters, CacheKeeps
<1> QED BY <1>1, <1>2, ReadsAreRight, PTL DEF ServedSpec

-----------------------------------------------------------------------------
(* The status and the lag.  A job that stands in the lists from the beginning to the end is either  *)
(* of a queue still to be read or was counted: it can pass the reader from "wait" to "active" only, *)
(* and "wait" is read first.  Ledger and checkpoint only grow, and what was read of either lies     *)
(* between what it was at the beginning and what it is.                                          *)

JobStates  == {"none", "wait", "active", "delayed", "done"}
AskingType == [queue : Nat \ {0}, next : {"wait", "active"}, waiting : Nat, total : Nat, missed : BOOLEAN]
QueueTypes ==
  /\ jobAt \in [WatchedJobs -> JobStates] /\ draining \in BOOLEAN
  /\ asking \in AskingType \cup {NotAsking} /\ steady \subseteq WatchedJobs

IsOf(j, i) == i \in 1..Len(QueueOrder) /\ QueueOrder[i] = QueueOfJob[j]

(* Job j, of the i-th queue, as the reader a that got to a's queue has seen it. *)
SeenBy(a, j, i) ==
  /\ i < a.queue => a.missed \/ a.total > 0
  /\ i = a.queue /\ a.next = "active" => a.waiting > 0 \/ jobAt[j] = "active"

StoodCounted ==
  asking # NotAsking =>
    \A j \in steady : jobAt[j] \in {"wait", "active"} /\ \A i \in 1..Len(QueueOrder) : IsOf(j, i) => SeenBy(asking, j, i)

QueueIInv == QueueTypes /\ StoodCounted /\ IdleMeansNothingStood

LEMMA AskingTold == NotAsking \notin AskingType
<1>1. DOMAIN NotAsking = {"queue"} /\ \A a \in AskingType : "next" \in DOMAIN a
  BY DEF NotAsking, AskingType
<1> QED BY <1>1

LEMMA HasQueue == ASSUME NEW j \in WatchedJobs PROVE \E i \in 1..Len(QueueOrder) : IsOf(j, i)
<1>1. QueueOrder \in Seq(STRING) /\ QueueOfJob[j] \in {QueueOrder[i] : i \in DOMAIN QueueOrder}
  BY MonitoringAssumption
<1>2. DOMAIN QueueOrder = 1..Len(QueueOrder)
  BY <1>1
<1> QED BY <1>1, <1>2 DEF IsOf

LEMMA LengthTyped ==
  ASSUME NEW q, NEW list
  PROVE  /\ Length(q, list) \in Nat
         /\ \A j \in WatchedJobs : QueueOfJob[j] = q /\ jobAt[j] = list => Length(q, list) > 0
<1> DEFINE S == {j \in WatchedJobs : QueueOfJob[j] = q /\ jobAt[j] = list}
<1>1. IsFiniteSet(S)
  BY MonitoringAssumption, FS_Subset
<1>2. Cardinality(S) \in Nat /\ (Cardinality(S) = 0 <=> S = {})
  BY <1>1, FS_CardinalityType, FS_EmptySet
<1> QED BY <1>2 DEF Length

LEMMA QueueStarts == MonitorInit => QueueIInv
<1>1. MonitorInit => QueueTypes
  BY DEF MonitorInit, QueueTypes, JobStates
<1>2. MonitorInit => StoodCounted /\ IdleMeansNothingStood
  BY DEF MonitorInit, StoodCounted, IdleMeansNothingStood, NothingSaid
<1> QED BY <1>1, <1>2 DEF QueueIInv

(* The answer, or the next queue, after the queue that a has read. *)
LEMMA AfterKeeps ==
  ASSUME QueueIInv, asking # NotAsking, NEW a \in AskingType, AfterQueue(a), UNCHANGED <<jobAt, jobMoves, draining, lagVars>>,
         a.queue = asking.queue,
         \A j \in steady : \A i \in 1..Len(QueueOrder) : IsOf(j, i) /\ i <= a.queue => a.missed \/ a.total > 0
  PROVE  QueueIInv'
<1>0. QueueTypes /\ jobAt' = jobAt /\ draining' = draining
  BY DEF QueueIInv
<1>1. Len(QueueOrder) \in Nat
  BY MonitoringAssumption
<1>2. CASE a.queue < Len(QueueOrder)
  <2>1. asking' = [a EXCEPT !.queue = @ + 1, !.next = "wait", !.waiting = 0] /\ UNCHANGED <<steady, said>>
    BY <1>2 DEF AfterQueue
  <2>2. PICK b : b = asking'
    OBVIOUS
  <2>3. b \in AskingType
    <3>1. a.queue + 1 \in Nat \ {0}
      BY DEF AskingType
    <3> QED BY <2>1, <2>2, <3>1 DEF AskingType
  <2>4. /\ b.queue = a.queue + 1 /\ b.next = "wait" /\ b.missed = a.missed
        /\ b.total = a.total /\ a.queue \in Nat
    BY <2>1, <2>2 DEF AskingType
  <2>5. QueueTypes'
    BY <1>0, <2>1, <2>2, <2>3 DEF QueueTypes
  <2>6. StoodCounted'
    <3>1. \A j \in steady : jobAt[j] \in {"wait", "active"}
      BY DEF QueueIInv, StoodCounted
    <3>2. ASSUME NEW j \in steady, NEW i \in 1..Len(QueueOrder), IsOf(j, i) PROVE SeenBy(b, j, i)'
      <4>1. i < a.queue + 1 => i <= a.queue
        BY <1>1, <2>4
      <4> QED BY <2>4, <3>2, <4>1 DEF SeenBy
    <3> QED BY <1>0, <2>1, <2>2, <3>1, <3>2 DEF StoodCounted, IsOf
  <2> QED BY <2>1, <2>5, <2>6 DEF QueueIInv, IdleMeansNothingStood
<1>3. CASE ~(a.queue < Len(QueueOrder))
  <2>1. Say(IF a.total > 0 THEN "processing" ELSE "idle", a.missed)
    BY <1>3 DEF AfterQueue
  <2>2. said'.status = "idle" => said'.stood = {} \/ said'.missed
    <3> SUFFICES ASSUME said'.status = "idle", said'.stood # {} PROVE said'.missed
      OBVIOUS
    <3>1. ~(a.total > 0) /\ said'.missed = a.missed
      BY <2>1 DEF Say
    <3>2. PICK j \in steady : TRUE
      BY <2>1 DEF Say
    <3>3. PICK i \in 1..Len(QueueOrder) : IsOf(j, i)
      BY <1>0, HasQueue DEF QueueTypes
    <3>4. i <= a.queue
      BY <1>1, <1>3 DEF AskingType
    <3> QED BY <3>1, <3>3, <3>4
  <2>3. QueueTypes' /\ StoodCounted'
    BY <1>0, <2>1 DEF QueueTypes, StoodCounted, Say
  <2> QED BY <2>2, <2>3 DEF QueueIInv, IdleMeansNothingStood
<1> QED BY <1>2, <1>3

LEMMA MovesKeep == ASSUME QueueIInv, NEW j \in WatchedJobs, NEW from \in JobStates, NEW to \in JobStates, GoesTo(j, from, to)
                   PROVE  QueueIInv'
<1>0. QueueTypes /\ asking' = asking /\ said' = said /\ steady' \subseteq steady /\ draining' = draining
  BY DEF QueueIInv, GoesTo
<1>1. jobAt' = [jobAt EXCEPT ![j] = to] /\ jobAt[j] = from
  BY DEF GoesTo
<1>2. QueueTypes'
  BY <1>0, <1>1 DEF QueueTypes
<1>3. \A k \in steady' : k # j \/ (from = "wait" /\ to = "active")
  BY DEF GoesTo
<1>4. \A k \in steady' : jobAt'[k] = jobAt[k] \/ (jobAt'[k] = "active")
  BY <1>0, <1>1, <1>3 DEF QueueTypes
<1>5. StoodCounted'
  <2> SUFFICES ASSUME asking # NotAsking, NEW k \in steady'
               PROVE  jobAt'[k] \in {"wait", "active"} /\ \A i \in 1..Len(QueueOrder) : IsOf(k, i) => SeenBy(asking, k, i)'
    BY <1>0 DEF StoodCounted, SeenBy, IsOf
  <2>1. jobAt[k] \in {"wait", "active"} /\ \A i \in 1..Len(QueueOrder) : IsOf(k, i) => SeenBy(asking, k, i)
    BY <1>0 DEF QueueIInv, StoodCounted
  <2> QED BY <1>0, <1>4, <2>1 DEF SeenBy
<1> QED BY <1>0, <1>2, <1>5 DEF QueueIInv, IdleMeansNothingStood

LEMMA AskKeeps == QueueIInv /\ AskStatus => QueueIInv'
<1> SUFFICES ASSUME QueueIInv, AskStatus PROVE QueueIInv'
  OBVIOUS
<1>0. QueueTypes /\ jobAt' = jobAt /\ draining' = draining
  BY DEF QueueIInv, AskStatus
<1>1. CASE draining
  BY <1>0, <1>1 DEF AskStatus, Say, QueueIInv, QueueTypes, StoodCounted, IdleMeansNothingStood
<1>2. CASE ~draining
  <2>1. /\ asking' = [queue |-> 1, next |-> "wait", waiting |-> 0, total |-> 0, missed |-> FALSE]
        /\ steady' = Listed /\ UNCHANGED said
    BY <1>2 DEF AskStatus
  <2>2. asking' \in AskingType /\ asking'.queue = 1 /\ asking'.next = "wait"
    BY <2>1 DEF AskingType
  <2>3. QueueTypes'
    BY <1>0, <2>1, <2>2 DEF QueueTypes, Listed
  <2>4. StoodCounted'
    BY <1>0, <2>1, <2>2 DEF StoodCounted, Listed, SeenBy
  <2> QED BY <2>1, <2>3, <2>4 DEF QueueIInv, IdleMeansNothingStood
<1> QED BY <1>1, <1>2

LEMMA ReadKeeps == QueueIInv /\ (ReadLength \/ RedisFails) => QueueIInv'
<1> SUFFICES ASSUME QueueIInv, ReadLength \/ RedisFails PROVE QueueIInv'
  OBVIOUS
<1>0. QueueTypes /\ asking \in AskingType /\ asking # NotAsking /\ UNCHANGED <<jobAt, jobMoves, draining, lagVars>>
  BY DEF QueueIInv, QueueTypes, ReadLength, RedisFails
<1>1. \A j \in steady : jobAt[j] \in {"wait", "active"} /\ \A i \in 1..Len(QueueOrder) : IsOf(j, i) => SeenBy(asking, j, i)
  BY <1>0 DEF QueueIInv, StoodCounted
<1>2. CASE RedisFails
  <2>1. PICK a : a = [asking EXCEPT !.missed = TRUE]
    OBVIOUS
  <2>2. a \in AskingType
    BY <1>0, <2>1 DEF AskingType
  <2>3. a.missed /\ a.queue = asking.queue
    BY <1>0, <2>1 DEF AskingType
  <2>4. AfterQueue(a)
    BY <1>2, <2>1 DEF RedisFails
  <2> QED BY <1>0, <2>2, <2>3, <2>4, AfterKeeps
<1>3. CASE ReadLength
  <2>1. PICK n \in Nat : n = Length(QueueOrder[asking.queue], ListRead(asking.next))
    BY LengthTyped
  <2>2. \A j \in steady : \A i \in 1..Len(QueueOrder) : IsOf(j, i) /\ i = asking.queue /\ jobAt[j] = asking.next => n > 0
    BY <1>0, <2>1, LengthTyped DEF IsOf, ListRead, QueueTypes
  <2>3. CASE asking.next = "wait" /\ asking' = [asking EXCEPT !.next = "active", !.waiting = n] /\ UNCHANGED <<steady, said>>
    <3>1. asking' \in AskingType
      BY <1>0, <2>3 DEF AskingType
    <3>2. /\ asking'.queue = asking.queue /\ asking'.next = "active" /\ asking'.waiting = n
          /\ asking'.missed = asking.missed /\ asking'.total = asking.total
      BY <1>0, <2>3 DEF AskingType
    <3>3. QueueTypes'
      BY <1>0, <2>3, <3>1 DEF QueueTypes
    <3>4. \A j \in steady : \A i \in 1..Len(QueueOrder) : IsOf(j, i) => SeenBy(asking', j, i)
      BY <1>1, <2>2, <2>3, <3>2 DEF SeenBy
    <3>5. StoodCounted'
      BY <1>0, <1>1, <2>3, <3>4 DEF StoodCounted, SeenBy, IsOf
    <3> QED BY <2>3, <3>3, <3>5 DEF QueueIInv, IdleMeansNothingStood
  <2>4. CASE asking.next = "active" /\ AfterQueue([asking EXCEPT !.total = @ + asking.waiting + n])
    <3>1. PICK a : a = [asking EXCEPT !.total = @ + asking.waiting + n]
      OBVIOUS
    <3>2. asking.total \in Nat /\ asking.waiting \in Nat
      BY <1>0 DEF AskingType
    <3>3. a \in AskingType
      BY <1>0, <3>1, <3>2 DEF AskingType
    <3>4. a.queue = asking.queue /\ a.missed = asking.missed /\ a.total = asking.total + asking.waiting + n
      BY <1>0, <3>1 DEF AskingType
    <3>5. ASSUME NEW j \in steady, NEW i \in 1..Len(QueueOrder), IsOf(j, i), i <= a.queue
          PROVE  a.missed \/ a.total > 0
      <4>1. SeenBy(asking, j, i)
        BY <1>1, <3>5
      <4>2. i < asking.queue \/ i = asking.queue
        BY <1>0, <3>4, <3>5 DEF AskingType
      <4>3. CASE i < asking.queue
        BY <3>2, <3>4, <4>1, <4>3 DEF SeenBy
      <4>4. CASE i = asking.queue
        <5>1. asking.waiting > 0 \/ n > 0
          BY <2>2, <2>4, <3>5, <4>1, <4>4 DEF SeenBy
        <5> QED BY <3>2, <3>4, <5>1
      <4> QED BY <4>2, <4>3, <4>4
    <3>6. AfterQueue(a)
      BY <2>4, <3>1
    <3> QED BY <1>0, <3>3, <3>4, <3>5, <3>6, AfterKeeps
  <2> QED BY <1>3, <2>1, <2>3, <2>4 DEF ReadLength
<1> QED BY <1>2, <1>3

LEMMA QueueStutters == QueueIInv /\ UNCHANGED queueVars => QueueIInv'
BY DEF QueueIInv, QueueTypes, StoodCounted, SeenBy, IsOf, IdleMeansNothingStood, queueVars

LEMMA QueueKeeps == QueueIInv /\ QueueNext => QueueIInv'
<1> SUFFICES ASSUME QueueIInv, QueueNext PROVE QueueIInv'
  OBVIOUS
<1>1. CASE JobMoves
  <2>1. \E j \in WatchedJobs : \E from, to \in JobStates : GoesTo(j, from, to)
    BY <1>1 DEF JobMoves, JobStates
  <2> QED BY <2>1, MovesKeep
<1>2. CASE ShutDown
  BY <1>2 DEF ShutDown, QueueIInv, QueueTypes, StoodCounted, SeenBy, IsOf, IdleMeansNothingStood
<1> QED BY <1>1, <1>2, AskKeeps, ReadKeeps DEF QueueNext

(***************************************************************************)
(* The lag                                                                 *)
(***************************************************************************)

Marks == Nat \cup {NoCheckpoint}
CheckingType == [latest : Nat \cup {NotRead}, indexed : Marks \cup {NotRead}, from : Nat, to : Marks]
LagTypes ==
  /\ ledgerNow \in Nat /\ indexedTo \in Marks /\ indexedTo <= ledgerNow
  /\ checking \in CheckingType \cup {NotChecking}

(* What was read is of the time of the check. *)
ReadWithin(c) ==
  /\ c.from <= ledgerNow /\ c.to <= indexedTo /\ c.to <= c.from
  /\ c.latest # NotRead => c.from <= c.latest /\ c.latest <= ledgerNow
  /\ c.indexed \notin {NotRead, NoCheckpoint} => c.to <= c.indexed /\ c.indexed <= indexedTo

LagIInv == LagTypes /\ (checking # NotChecking => ReadWithin(checking)) /\ LagIsBetween

LEMMA LagStarts == MonitorInit => LagIInv
BY MonitoringAssumption
DEF MonitorInit, LagIInv, LagTypes, Marks, NotChecking, NoMetrics, LagIsBetween, NoCheckpoint

LEMMA CheckingTold == \A c \in CheckingType : c # NotChecking
BY DEF CheckingType, NotChecking

(* The lag falls as the checkpoint moves and grows as ledgers close. *)
LEMMA LagMonotone ==
  ASSUME NEW l \in Nat, NEW m \in Nat, l <= m, NEW i \in Nat, NEW k \in Nat, k <= i
  PROVE  Lag(l, i) \in Nat /\ Lag(m, k) \in Nat /\ Lag(l, i) <= Lag(m, k)
BY DEF Lag, NoCheckpoint

LEMMA GetMetricsKeeps == LagIInv /\ GetMetrics => LagIInv'
<1> SUFFICES ASSUME LagIInv, GetMetrics PROVE LagIInv'
  OBVIOUS
<1>0. /\ LagTypes /\ checking \in CheckingType /\ ReadWithin(checking)
      /\ checking.latest # NotRead /\ checking.indexed # NotRead
  BY DEF LagIInv, LagTypes, GetMetrics
<1>1. PICK l \in Nat, i \in Marks, f \in Nat, t \in Marks :
        l = checking.latest /\ i = checking.indexed /\ f = checking.from /\ t = checking.to
  BY <1>0 DEF CheckingType
<1>2. /\ f <= l /\ l <= ledgerNow /\ t <= indexedTo /\ ledgerNow \in Nat /\ indexedTo \in Marks
      /\ i # NoCheckpoint => t <= i /\ i <= indexedTo
  BY <1>0, <1>1 DEF ReadWithin, LagTypes
<1>3. PICK lag : lag = Lag(l, i)
  OBVIOUS
<1>4. PICK t0 \in Nat : t0 = IF t = NoCheckpoint THEN 0 ELSE t
  BY DEF Marks
<1>5. PICK least : least = IF i = NoCheckpoint THEN 0 ELSE Lag(f, indexedTo)
  OBVIOUS
<1>6. PICK most : most = Lag(ledgerNow, t0)
  OBVIOUS
<1>7. least \in Nat /\ most \in Nat /\ lag \in Nat /\ least <= lag /\ lag <= most
  <2>1. CASE i = NoCheckpoint
    <3>1. lag = 0 /\ least = 0
      BY <1>3, <1>5, <2>1 DEF Lag
    <3>2. most \in Nat
      BY <1>2, <1>4, <1>6, LagMonotone
    <3> QED BY <3>1, <3>2
  <2>2. CASE i # NoCheckpoint
    <3>1. i \in Nat /\ indexedTo \in Nat /\ t0 <= i /\ i <= indexedTo
      BY <1>2, <1>4, <2>2 DEF Marks, NoCheckpoint
    <3>2. least <= lag /\ least \in Nat /\ lag \in Nat
      BY <1>2, <1>3, <1>5, <2>2, <3>1, LagMonotone
    <3>3. lag <= most /\ most \in Nat
      BY <1>2, <1>3, <1>6, <3>1, LagMonotone
    <3> QED BY <3>2, <3>3
  <2> QED BY <2>1, <2>2
<1>8. PICK st : st = ComputeStatus(lag, i)
  OBVIOUS
<1>9. (least > Critical => st = "critical") /\ (st = "critical" => most > Critical)
  <2>1. Degraded \in Nat /\ Critical \in Nat /\ Degraded <= Critical
    BY MonitoringAssumption
  <2>2. i = NoCheckpoint => least = 0
    BY <1>5
  <2> QED BY <1>7, <1>8, <2>1, <2>2 DEF ComputeStatus
<1>10. /\ metrics' = [lag |-> lag, status |-> st, least |-> least, most |-> most]
       /\ checking' = NotChecking /\ ledgerNow' = ledgerNow /\ indexedTo' = indexedTo
  BY <1>1, <1>3, <1>4, <1>5, <1>6, <1>8 DEF GetMetrics
<1>11. lag \in least..most
  BY <1>7
<1> QED BY <1>0, <1>9, <1>10, <1>11 DEF LagIInv, LagTypes, LagIsBetween

LEMMA LagStutters == LagIInv /\ UNCHANGED lagVars => LagIInv'
BY DEF LagIInv, LagTypes, ReadWithin, LagIsBetween, lagVars

LEMMA LagKeeps == LagIInv /\ LagNext => LagIInv'
<1> SUFFICES ASSUME LagIInv, LagNext PROVE LagIInv'
  OBVIOUS
<1>0. LagTypes /\ LagIsBetween /\ (checking # NotChecking => checking \in CheckingType /\ ReadWithin(checking))
  BY DEF LagIInv, LagTypes
<1>1. CASE LedgerCloses \/ CheckpointMoves
  <2>1. /\ ledgerNow' \in Nat /\ indexedTo' \in Marks /\ indexedTo' <= ledgerNow'
        /\ ledgerNow <= ledgerNow' /\ indexedTo <= indexedTo' /\ UNCHANGED <<checking, metrics>>
    BY <1>0, <1>1 DEF LagTypes, LedgerCloses, CheckpointMoves, Marks, NoCheckpoint
  <2>2. checking # NotChecking => ReadWithin(checking)'
    <3> SUFFICES ASSUME checking # NotChecking PROVE ReadWithin(checking)'
      OBVIOUS
    <3>1. PICK l \in Nat \cup {NotRead}, i \in Marks \cup {NotRead}, f \in Nat, t \in Marks :
            l = checking.latest /\ i = checking.indexed /\ f = checking.from /\ t = checking.to
      BY <1>0 DEF CheckingType
    <3> QED BY <1>0, <2>1, <3>1 DEF ReadWithin, LagTypes, Marks, NotRead, NoCheckpoint
  <2> QED BY <1>0, <2>1, <2>2 DEF LagIInv, LagTypes, LagIsBetween
<1>2. CASE StartCheck
  <2>1. /\ checking' = [latest |-> NotRead, indexed |-> NotRead, from |-> ledgerNow, to |-> indexedTo]
        /\ metrics' = NoMetrics /\ ledgerNow' = ledgerNow /\ indexedTo' = indexedTo
    BY <1>2 DEF StartCheck
  <2>2. PICK c1 : c1 = checking'
    OBVIOUS
  <2>3. c1 \in CheckingType
    BY <1>0, <2>1, <2>2 DEF CheckingType, LagTypes
  <2>4. ReadWithin(c1)'
    BY <1>0, <2>1, <2>2 DEF ReadWithin, LagTypes, Marks, NoCheckpoint
  <2> QED BY <1>0, <2>1, <2>2, <2>3, <2>4 DEF LagIInv, LagTypes, LagIsBetween, NoMetrics
<1>3. CASE HorizonAnswers
  <2>1. checking' = [checking EXCEPT !.latest = ledgerNow] /\ UNCHANGED <<ledgerNow, indexedTo, metrics>> /\ checking # NotChecking
    BY <1>3 DEF HorizonAnswers
  <2>2. PICK c1 : c1 = checking'
    OBVIOUS
  <2>3. c1 \in CheckingType
    BY <1>0, <2>1, <2>2 DEF CheckingType, LagTypes
  <2>4. c1.latest = ledgerNow /\ c1.indexed = checking.indexed /\ c1.from = checking.from /\ c1.to = checking.to
    BY <1>0, <2>1, <2>2 DEF CheckingType
  <2>5. ReadWithin(c1)'
    BY <1>0, <2>1, <2>4 DEF ReadWithin, LagTypes
  <2> QED BY <1>0, <2>1, <2>2, <2>5, <2>3 DEF LagIInv, LagTypes, LagIsBetween
<1>4. CASE CacheAnswers
  <2>1. PICK c \in {indexedTo, NoCheckpoint} :
          /\ checking' = [checking EXCEPT !.indexed = c] /\ UNCHANGED <<ledgerNow, indexedTo, metrics>>
          /\ checking # NotChecking
    BY <1>4 DEF CacheAnswers
  <2>2. PICK c1 : c1 = checking'
    OBVIOUS
  <2>3. c1 \in CheckingType
    BY <1>0, <2>1, <2>2 DEF CheckingType, LagTypes, Marks
  <2>4. c1.latest = checking.latest /\ c1.indexed = c /\ c1.from = checking.from /\ c1.to = checking.to
    BY <1>0, <2>1, <2>2 DEF CheckingType
  <2>5. ReadWithin(c1)'
    <3>1. c1.indexed \notin {NotRead, NoCheckpoint} => c1.indexed = indexedTo
      BY <2>1, <2>4
    <3> QED BY <1>0, <2>1, <2>4, <3>1 DEF ReadWithin, LagTypes, Marks, NoCheckpoint
  <2> QED BY <1>0, <2>1, <2>2, <2>5, <2>3 DEF LagIInv, LagTypes, LagIsBetween
<1>5. CASE HorizonFails
  BY <1>0, <1>5 DEF HorizonFails, LagIInv, LagTypes, LagIsBetween
<1> QED BY <1>1, <1>2, <1>3, <1>4, <1>5, GetMetricsKeeps DEF LagNext

LEMMA MonitorKeeps == QueueIInv /\ LagIInv /\ [MonitorNext]_monitorVars => QueueIInv' /\ LagIInv'
<1>1. UNCHANGED monitorVars => UNCHANGED queueVars /\ UNCHANGED lagVars
  BY DEF monitorVars, queueVars, lagVars
<1>2. QueueNext => UNCHANGED lagVars
  BY DEF QueueNext, JobMoves, GoesTo, ShutDown, AskStatus, ReadLength, RedisFails
<1>3. LagNext => UNCHANGED queueVars
  BY DEF LagNext, LedgerCloses, CheckpointMoves, StartCheck, HorizonAnswers, CacheAnswers, GetMetrics, HorizonFails
<1> QED BY <1>1, <1>2, <1>3, QueueKeeps, LagKeeps, QueueStutters, LagStutters DEF MonitorNext

(* However jobs move, the server drains, Redis fails, ledgers close and checkpoints advance between  *)
(* the reads: "idle" is never said while a job stood in the lists throughout, and the lag reported  *)
(* and its status lie between those of the beginning and of the end (indexer status, lag monitor). *)
THEOREM MonitorSound == MonitorInit /\ [][MonitorNext]_monitorVars => []MonitorInv
<1>1. QueueIInv /\ LagIInv => MonitorInv
  BY DEF QueueIInv, LagIInv, MonitorInv
<1> QED BY <1>1, QueueStarts, LagStarts, MonitorKeeps, PTL

-----------------------------------------------------------------------------
(* The figures of the admin pages.  What a computation has read of the time before it began is what  *)
(* there is, since a row is written at the time it is; and rows written after its first answer make *)
(* its answers differ.                                                                          *)

EventType == [no : Nat, kind : {"swap", "mint", "burn"}, at : Nat, size : Nat]
EventsTyped == IsFiniteSet(events) /\ events \subseteq EventType /\ (\A e \in events : e.at <= tick) /\ tick \in Nat /\ keys \in KeySlices

(* Every answer has the rows of its query that are older than the computation, and some that are not. *)
OnTime(c) ==
  \A q \in DOMAIN c.got : c.got[q] \subseteq Rows(c, q) /\ \A e \in Rows(c, q) : e.at < c.now => e \in c.got[q]

AtOnce(c) ==
  ~c.racing =>
    /\ DOMAIN c.got # Queries(c.key) => \A q \in DOMAIN c.got : c.got[q] = Rows(c, q)
    /\ {"day", "week"} \subseteq DOMAIN c.got => c.got["day"] \subseteq c.got["week"]

Begun(c) == /\ c = [key |-> c.key, now |-> c.now, got |-> c.got, racing |-> c.racing]
            /\ c.key \in keys /\ c.now \in Nat /\ c.now <= tick /\ c.racing \in BOOLEAN

Computed(c) == Begun(c) /\ OnTime(c) /\ AtOnce(c)

(* What is cached is of the rows before its time, which stay what they are. *)
Cached(k, f) ==
  /\ f.now \in Nat /\ f.now <= tick
  /\ k[1] # "overview" => DOMAIN f.value = StartsOf(k, f.now)
  /\ k[1] = "volume" => \A s \in StartsOf(k, f.now) : f.value[s] = Within("swap", s, s + 1)
  /\ k[1] \notin {"overview", "volume"} =>
       \A s \in StartsOf(k, f.now) : f.value[s] = Within("mint", s, s + 1) - Within("burn", s, s + 1)
  /\ k[1] = "overview" =>
       /\ f.racing \/ f.value.day <= f.value.week
       /\ Within("swap", f.now - ShortDay, f.now) <= f.value.day

AnalyticsIInv ==
  /\ EventsTyped
  /\ \A c \in computing : Computed(c)
  /\ DOMAIN figures = keys /\ \A k \in keys : figures[k] # NoFigures => Cached(k, figures[k])

LEMMA SizeIs == ASSUME NEW T, IsFiniteSet(T), NEW v, \A e \in T : v[e] = e.size PROVE SizeOf(T) = SumOf(v, T)
<1> DEFINE Adds(iter) == iter = [s \in SUBSET T |-> IF s = {} THEN 0 ELSE First(s).size + iter[s \ {First(s)}]]
           it == CHOOSE iter : Adds(iter)
<1>1. SizeOf(T) = it[T]
  BY DEF SizeOf, MapThenSumSet, MapThenFoldSet, First
<1>2. \A s \in SUBSET T : s # {} => v[First(s)] = First(s).size
  BY FirstIsMember
<1>3. ASSUME NEW iter PROVE Adds(iter) <=> Sums(v, T, iter)
  BY <1>2 DEF Sums, SumsUpTo
<1>4. \E iter : Adds(iter)
  BY <1>3, SumExists
<1> HIDE DEF Adds
<1>5. Adds(it)
  BY <1>4
<1> HIDE DEF it
<1> QED BY <1>1, <1>3, <1>5, SumIs

(* Sizes add up over a set and what is left of it, and grow with it. *)
LEMMA SizesAdd ==
  ASSUME NEW S, IsFiniteSet(S), S \subseteq EventType, NEW T, T \subseteq S
  PROVE  SizeOf(S) \in Nat /\ SizeOf(T) \in Nat /\ SizeOf(S) = SizeOf(T) + SizeOf(S \ T) /\ SizeOf(T) <= SizeOf(S)
<1>1. PICK v : v = [e \in S |-> e.size]
  OBVIOUS
<1>2. \A e \in S : v[e] = e.size /\ v[e] \in Nat
  BY <1>1 DEF EventType
<1>3. IsFiniteSet(T) /\ IsFiniteSet(S \ T)
  BY FS_Subset
<1>4. SizeOf(S) = SumOf(v, S) /\ SizeOf(T) = SumOf(v, T) /\ SizeOf(S \ T) = SumOf(v, S \ T)
  BY <1>2, <1>3, SizeIs
<1>5. SumOf(v, S) = SumOf(v, T) + SumOf(v, S \ T) /\ SumOf(v, T) <= SumOf(v, S)
  <2>1. \A e \in S : v[e] \in Int
    BY <1>2
  <2> QED BY <1>2, <2>1, SumUnion, SumGrows
<1>6. SumOf(v, S) \in Nat /\ SumOf(v, T) \in Nat
  BY <1>2, <1>3, SumTyped
<1> QED BY <1>4, <1>5, <1>6

LEMMA WithinSplits ==
  ASSUME EventsTyped, NEW kind, NEW a \in Int, NEW b \in Int, NEW d \in Int, a <= b, b <= d
  PROVE  Within(kind, a, b) \in Nat /\ Within(kind, a, d) = Within(kind, a, b) + Within(kind, b, d)
<1>1. PICK S : S = {e \in events : e.kind = kind /\ a <= e.at /\ e.at < d}
  OBVIOUS
<1>2. PICK T : T = {e \in events : e.kind = kind /\ a <= e.at /\ e.at < b}
  OBVIOUS
<1>3. \A e \in events : e.at \in Nat
  BY DEF EventsTyped, EventType
<1>4. T \subseteq S /\ S \subseteq events
  BY <1>1, <1>2, <1>3
<1>5. S \ T = {e \in events : e.kind = kind /\ b <= e.at /\ e.at < d}
  BY <1>1, <1>2, <1>3
<1>6. IsFiniteSet(S) /\ S \subseteq EventType
  BY <1>4, FS_Subset DEF EventsTyped
<1>7. SizeOf(T) \in Nat /\ SizeOf(S) = SizeOf(T) + SizeOf(S \ T)
  BY <1>4, <1>6, SizesAdd
<1> QED BY <1>1, <1>2, <1>5, <1>7 DEF Within

LEMMA WithinTyped ==
  ASSUME EventsTyped, NEW kind, NEW a \in Int, NEW b \in Int, a <= b
  PROVE  Within(kind, a, b) \in Nat
<1>1. b <= b
  OBVIOUS
<1> QED BY <1>1, WithinSplits

LEMMA WithinNone == ASSUME EventsTyped, NEW kind, NEW a \in Int PROVE Within(kind, a, a) = 0
<1>1. Within(kind, a, a) \in Nat /\ Within(kind, a, a) = Within(kind, a, a) + Within(kind, a, a)
  BY WithinSplits
<1>2. PICK w \in Nat : w = Within(kind, a, a)
  BY <1>1, Zenon
<1>3. w = w + w
  BY <1>1, <1>2, Zenon
<1>4. w = 0
  BY ONLY <1>3, w \in Nat
<1> QED BY <1>2, <1>4, Zenon

LEMMA BucketBefore ==
  ASSUME EventsTyped, NEW n \in Int, NEW kind, NEW x \in Int, x < n
  PROVE  /\ Within(kind, x, n) \in Nat /\ Within(kind, x + 1, n) \in Nat
         /\ Within(kind, x, x + 1) = Within(kind, x, n) - Within(kind, x + 1, n)
<1>1. PICK y \in Int : y = x + 1 /\ x <= y /\ y <= n /\ x <= n
  OBVIOUS
<1>2. Within(kind, x, y) \in Nat /\ Within(kind, x, n) = Within(kind, x, y) + Within(kind, y, n)
  BY <1>1, WithinSplits
<1>3. Within(kind, x, n) \in Nat /\ Within(kind, y, n) \in Nat
  <2>1. n <= n
    OBVIOUS
  <2> QED BY <1>1, <2>1, WithinSplits
<1> QED BY <1>1, <1>2, <1>3

(* The buckets of a series, one tick each, add up to what is within its time. *)
LEMMA SwapBuckets ==
  ASSUME EventsTyped, NEW n \in Int, NEW a \in Int, a <= n, NEW f,
         \A s \in a..(n - 1) : f[s] = Within("swap", s, s + 1)
  PROVE  SumOf(f, a..(n - 1)) = Within("swap", a, n)
<1>1. PICK w : w = [x \in a..n |-> Within("swap", x, n)]
  OBVIOUS
<1>2. w \in [a..n -> Int] /\ w[a] = Within("swap", a, n)
  <2>1. ASSUME NEW x \in a..n PROVE Within("swap", x, n) \in Int
    <3>1. x \in Int /\ x <= n
      OBVIOUS
    <3>2. Within("swap", x, n) \in Nat
      BY <3>1, WithinTyped
    <3> QED BY <3>2
  <2> QED BY <1>1, <2>1
<1>3. w[n] = 0
  BY <1>1, WithinNone
<1>4. ASSUME NEW x \in a..(n - 1) PROVE f[x] = w[x] - w[x + 1]
  <2>1. w[x] = Within("swap", x, n) /\ w[x + 1] = Within("swap", x + 1, n) /\ x \in Int /\ x < n
    BY <1>1
  <2>2. f[x] = Within("swap", x, x + 1)
    OBVIOUS
  <2>3. Within("swap", x, x + 1) = Within("swap", x, n) - Within("swap", x + 1, n)
    BY <2>1, BucketBefore
  <2> QED BY <2>1, <2>2, <2>3
<1>5. Differences(f, w, a, n)
  BY <1>2, <1>3, <1>4 DEF Differences
<1>6. SumOf(f, a..(n - 1)) = w[a]
  BY ONLY <1>5, Telescopes, a \in Int, n \in Int, a <= n
<1> QED BY <1>2, <1>6, Zenon

LEMMA LiquidityBuckets ==
  ASSUME EventsTyped, NEW n \in Int, NEW a \in Int, a <= n, NEW f,
         \A s \in a..(n - 1) : f[s] = Within("mint", s, s + 1) - Within("burn", s, s + 1)
  PROVE  SumOf(f, a..(n - 1)) = Within("mint", a, n) - Within("burn", a, n)
<1>1. PICK w : w = [x \in a..n |-> Within("mint", x, n) - Within("burn", x, n)]
  OBVIOUS
<1>2. w \in [a..n -> Int] /\ w[a] = Within("mint", a, n) - Within("burn", a, n)
  <2>1. ASSUME NEW x \in a..n PROVE Within("mint", x, n) \in Nat /\ Within("burn", x, n) \in Nat
    <3>1. x \in Int /\ x <= n
      OBVIOUS
    <3> QED BY <3>1, WithinTyped
  <2> QED BY <1>1, <2>1
<1>3. w[n] = 0
  <2>1. Within("mint", n, n) = 0 /\ Within("burn", n, n) = 0
    BY WithinNone
  <2> QED BY <1>1, <2>1
<1>4. ASSUME NEW x \in a..(n - 1) PROVE f[x] = w[x] - w[x + 1]
  <2>1. /\ w[x] = Within("mint", x, n) - Within("burn", x, n) /\ x \in Int /\ x < n
        /\ w[x + 1] = Within("mint", x + 1, n) - Within("burn", x + 1, n)
    BY <1>1
  <2>2. f[x] = Within("mint", x, x + 1) - Within("burn", x, x + 1)
    OBVIOUS
  <2>3. /\ Within("mint", x, x + 1) = Within("mint", x, n) - Within("mint", x + 1, n)
        /\ Within("burn", x, x + 1) = Within("burn", x, n) - Within("burn", x + 1, n)
        /\ Within("mint", x, n) \in Nat /\ Within("mint", x + 1, n) \in Nat
        /\ Within("burn", x, n) \in Nat /\ Within("burn", x + 1, n) \in Nat
    BY <2>1, BucketBefore
  <2> QED BY <2>1, <2>2, <2>3
<1>5. Differences(f, w, a, n)
  BY <1>2, <1>3, <1>4 DEF Differences
<1>6. SumOf(f, a..(n - 1)) = w[a]
  BY ONLY <1>5, Telescopes, a \in Int, n \in Int, a <= n
<1> QED BY <1>2, <1>6, Zenon

(* The buckets of an interval. *)
LEMMA StartsAre ==
  ASSUME keys \in KeySlices, NEW k \in keys, k[1] # "overview", NEW n \in Nat
  PROVE  Buckets[k[2]] \in Nat \ {0} /\ StartsOf(k, n) = (n - Buckets[k[2]])..(n - 1)
<1>1. PICK b \in Nat \ {0} : b = Buckets[k[2]]
  BY AnalyticsAssumption
<1>2. {n - i : i \in 1..b} \subseteq (n - b)..(n - 1)
  OBVIOUS
<1>3. ASSUME NEW x \in (n - b)..(n - 1) PROVE x \in {n - i : i \in 1..b}
  <2>1. n - x \in 1..b /\ n - (n - x) = x
    OBVIOUS
  <2> QED BY <2>1
<1> QED BY <1>1, <1>2, <1>3 DEF StartsOf

(* The rows of a query, by kind and time. *)
LEMMA RowsOfSeries ==
  ASSUME NEW c, c.key[1] # "overview", NEW q \in Queries(c.key)
  PROVE  /\ c.key[1] = "volume" => q = "swaps"
         /\ c.key[1] # "volume" => q \in {"mints", "burns"}
         /\ Rows(c, q) = OfKind(CASE q = "swaps" -> "swap" [] q = "burns" -> "burn" [] OTHER -> "mint", Since(c.key, c.now))
<1>1. q \in {"swaps", "mints", "burns"} /\ (c.key[1] = "volume" => q = "swaps") /\ (c.key[1] # "volume" => q \in {"mints", "burns"})
  BY DEF Queries
<1> QED BY <1>1 DEF Rows

LEMMA RowsAreEvents == ASSUME NEW c, NEW q PROVE Rows(c, q) \subseteq events
BY DEF Rows, OfKind

(* A row is written at the time it is: nothing older changes. *)
LEMMA WrittenKeeps ==
  ASSUME AnalyticsIInv, NEW kind \in KindsRead, NEW n \in EventSizes, EventWritten(kind, n)
  PROVE  AnalyticsIInv'
<1>0. EventsTyped /\ keys' = keys /\ tick' = tick /\ figures' = figures
  BY DEF AnalyticsIInv, EventWritten
<1>1. PICK e : e = [no |-> Cardinality(events) + 1, kind |-> kind, at |-> tick, size |-> n]
  OBVIOUS
<1>2. events' = events \cup {e} /\ e.at = tick
  BY <1>1 DEF EventWritten
<1>3. e \in EventType
  <2>1. Cardinality(events) \in Nat
    BY <1>0, FS_CardinalityType DEF EventsTyped
  <2>2. kind \in {"swap", "mint", "burn"}
    BY DEF KindsRead
  <2>3. n \in Nat /\ tick \in Nat
    BY <1>0, AnalyticsAssumption DEF EventsTyped
  <2> QED BY <1>1, <2>1, <2>2, <2>3 DEF EventType
<1>4. EventsTyped'
  <2>1. IsFiniteSet(events')
    BY <1>0, <1>2, FS_AddElement DEF EventsTyped
  <2> QED BY <1>0, <1>2, <1>3, <2>1 DEF EventsTyped
<1>5. ASSUME NEW k, NEW a \in Int, NEW b \in Int, b <= tick PROVE Within(k, a, b)' = Within(k, a, b)
  <2>1. {x \in events' : x.kind = k /\ a <= x.at /\ x.at < b} = {x \in events : x.kind = k /\ a <= x.at /\ x.at < b}
    <3>1. tick \in Nat
      BY <1>0 DEF EventsTyped
    <3>2. ~(e.at < b)
      BY <1>2, <1>5, <3>1
    <3> QED BY <1>2, <3>2
  <2> QED BY <2>1 DEF Within
<1>6. ASSUME NEW c \in computing, NEW c1, c1 = [c EXCEPT !.racing = @ \/ DOMAIN c.got \notin {{}, Queries(c.key)}]
      PROVE  Computed(c1)'
  <2>1. Begun(c) /\ OnTime(c) /\ AtOnce(c)
    BY DEF AnalyticsIInv, Computed
  <2>2. /\ c1.key = c.key /\ c1.now = c.now /\ c1.got = c.got
        /\ c1.racing = (c.racing \/ DOMAIN c.got \notin {{}, Queries(c.key)})
        /\ c1 = [key |-> c1.key, now |-> c1.now, got |-> c1.got, racing |-> c1.racing]
    BY <1>6, <2>1 DEF Begun
  <2>3. Begun(c1)'
    BY <1>0, <2>1, <2>2 DEF Begun
  <2>4. \A q : Rows(c, q) \subseteq Rows(c1, q)' /\ Rows(c1, q)' \subseteq Rows(c, q) \cup {e}
    BY <1>2, <2>2 DEF Rows, OfKind, Since
  <2>5. OnTime(c1)'
    <3>1. ~(e.at < c.now)
      BY <1>0, <1>2, <2>1 DEF Begun, EventsTyped
    <3> QED BY <2>1, <2>2, <2>4, <3>1 DEF OnTime
  <2>6. AtOnce(c1)'
    <3> SUFFICES ASSUME ~c1.racing
                 PROVE  /\ DOMAIN c1.got # Queries(c1.key) => \A q \in DOMAIN c1.got : c1.got[q] = Rows(c1, q)'
                        /\ {"day", "week"} \subseteq DOMAIN c1.got => c1.got["day"] \subseteq c1.got["week"]
      BY DEF AtOnce
    <3>1. ~c.racing /\ DOMAIN c.got \in {{}, Queries(c.key)}
      BY <2>1, <2>2 DEF Begun
    <3> QED BY <2>1, <2>2, <3>1 DEF AtOnce
  <2> QED BY <2>3, <2>5, <2>6 DEF Computed
<1>7. \A c1 \in computing' : Computed(c1)'
  BY <1>6 DEF EventWritten
<1>8. ASSUME NEW k \in keys, NEW f, f = figures[k], f # NoFigures PROVE Cached(k, f)'
  <2>1. Cached(k, f) /\ f.now \in Nat /\ f.now <= tick /\ tick \in Nat
    BY <1>0, <1>8 DEF AnalyticsIInv, Cached, EventsTyped
  <2>2. k[1] # "overview" => \A s \in StartsOf(k, f.now) : s \in Int /\ s + 1 \in Int /\ s + 1 <= tick
    <3>1. k[1] # "overview" => Buckets[k[2]] \in Nat \ {0} /\ StartsOf(k, f.now) = (f.now - Buckets[k[2]])..(f.now - 1)
      BY <1>0, <2>1, StartsAre DEF EventsTyped
    <3> QED BY <2>1, <3>1
  <2>3. k[1] # "overview" =>
          \A s \in StartsOf(k, f.now) : \A kd : Within(kd, s, s + 1)' = Within(kd, s, s + 1)
    BY <1>5, <2>2
  <2>4. k[1] = "overview" => Within("swap", f.now - ShortDay, f.now)' = Within("swap", f.now - ShortDay, f.now)
    <3>1. f.now - ShortDay \in Int /\ f.now \in Int
      BY <2>1, AnalyticsAssumption
    <3> QED BY <1>5, <2>1, <3>1
  <2>5. StartsOf(k, f.now)' = StartsOf(k, f.now)
    BY DEF StartsOf
  <2> QED BY <1>0, <2>1, <2>3, <2>4, <2>5 DEF Cached
<1>9. ASSUME NEW k \in keys, figures[k] # NoFigures PROVE Cached(k, figures[k])'
  <2>1. PICK f : f = figures[k]
    OBVIOUS
  <2>2. Cached(k, f)'
    BY <1>8, <1>9, <2>1
  <2> QED BY <1>0, <2>1, <2>2 DEF Cached
<1> QED BY <1>0, <1>4, <1>7, <1>9 DEF AnalyticsIInv

(* Time passes. *)
LEMMA HourKeeps == AnalyticsIInv /\ Hour => AnalyticsIInv'
<1> SUFFICES ASSUME AnalyticsIInv, Hour PROVE AnalyticsIInv'
  OBVIOUS
<1>0. /\ EventsTyped /\ UNCHANGED <<keys, events, computing, figures>>
      /\ tick' \in Nat /\ \A n \in Int : n <= tick => n <= tick'
  BY DEF AnalyticsIInv, Hour, EventsTyped
<1>1. EventsTyped'
  BY <1>0 DEF EventsTyped, EventType
<1>2. ASSUME NEW c \in computing PROVE Computed(c)'
  <2>1. Begun(c) /\ OnTime(c) /\ AtOnce(c)
    BY DEF AnalyticsIInv, Computed
  <2>2. Begun(c)'
    BY <1>0, <2>1 DEF Begun
  <2>3. (OnTime(c) => OnTime(c)') /\ (AtOnce(c) => AtOnce(c)')
    BY <1>0 DEF OnTime, AtOnce, Rows, OfKind
  <2> QED BY <2>1, <2>2, <2>3 DEF Computed
<1>3. ASSUME NEW k \in keys, figures[k] # NoFigures PROVE Cached(k, figures[k])'
  <2>1. PICK f : f = figures[k]
    OBVIOUS
  <2>2. Cached(k, f)
    BY <1>3, <2>1 DEF AnalyticsIInv
  <2>3. \A kd, a, b : Within(kd, a, b)' = Within(kd, a, b)
    BY <1>0 DEF Within
  <2>4. f.now <= tick'
    BY <1>0, <2>2 DEF Cached
  <2> QED BY <1>0, <2>1, <2>2, <2>3, <2>4 DEF Cached, StartsOf
<1> QED BY <1>0, <1>1, <1>2, <1>3 DEF AnalyticsIInv

(* Steps that write no row and take no time. *)
LEMMA QuietStands ==
  ASSUME UNCHANGED <<tick, keys, events>>
  PROVE  /\ EventsTyped' <=> EventsTyped
         /\ \A c : Computed(c)' <=> Computed(c)
         /\ \A k, f : Cached(k, f)' <=> Cached(k, f)
<1>1. EventsTyped' <=> EventsTyped
  BY DEF EventsTyped
<1>2. \A c : Computed(c)' <=> Computed(c)
  BY DEF Computed, Begun, OnTime, AtOnce, Rows, OfKind
<1>3. \A k, f : Cached(k, f)' <=> Cached(k, f)
  <2>1. \A kd, a, b : Within(kd, a, b)' = Within(kd, a, b)
    BY DEF Within
  <2> QED BY <2>1 DEF Cached, StartsOf
<1> QED BY <1>1, <1>2, <1>3

LEMMA ComputeStarts == ASSUME AnalyticsIInv, NEW K, K \subseteq keys, StartFigures(K) PROVE AnalyticsIInv'
<1>0. UNCHANGED <<tick, keys, events, figures>> /\ EventsTyped
  BY DEF StartFigures, AnalyticsIInv
<1>1. ASSUME NEW k \in K, NEW c, c = [key |-> k, now |-> tick, got |-> <<>>, racing |-> FALSE] PROVE Computed(c)
  <2>1. c.got = <<>> /\ c.key = k /\ c.now = tick /\ c.racing = FALSE /\ DOMAIN c.got = {}
    BY <1>1
  <2>2. Begun(c)
    BY <1>0, <1>1, <2>1 DEF Begun, EventsTyped
  <2> QED BY <2>1, <2>2 DEF Computed, OnTime, AtOnce
<1>2. \A c \in computing' : Computed(c)
  BY <1>1 DEF StartFigures
<1> QED BY <1>0, <1>2, QuietStands DEF AnalyticsIInv

LEMMA ReplyKeeps == ASSUME AnalyticsIInv, NEW c \in computing, NEW q \in Queries(c.key), QueryAnswers(c, q) PROVE AnalyticsIInv'
<1>0. UNCHANGED <<tick, keys, events, figures>> /\ EventsTyped /\ q \notin DOMAIN c.got
  BY DEF QueryAnswers, AnalyticsIInv
<1>1. PICK g : g = [p \in DOMAIN c.got \cup {q} |-> IF p = q THEN Rows(c, q) ELSE c.got[p]]
  OBVIOUS
<1>2. PICK c1 : c1 = [c EXCEPT !.got = g]
  OBVIOUS
<1>3. computing' = (computing \ {c}) \cup {c1}
  BY <1>1, <1>2 DEF QueryAnswers
<1>4. Begun(c) /\ OnTime(c) /\ AtOnce(c)
  BY DEF AnalyticsIInv, Computed
<1>5. /\ c1.key = c.key /\ c1.now = c.now /\ c1.got = g /\ c1.racing = c.racing
      /\ c1 = [key |-> c1.key, now |-> c1.now, got |-> c1.got, racing |-> c1.racing]
  BY <1>2, <1>4 DEF Begun
<1>6. \A p : Rows(c1, p) = Rows(c, p)
  BY <1>5 DEF Rows
<1>7. DOMAIN g = DOMAIN c.got \cup {q} /\ g[q] = Rows(c, q) /\ \A p \in DOMAIN c.got : g[p] = c.got[p]
  BY <1>0, <1>1
<1>8. OnTime(c1)
  <2> SUFFICES ASSUME NEW p \in DOMAIN g
               PROVE  g[p] \subseteq Rows(c, p) /\ \A e \in Rows(c, p) : e.at < c.now => e \in g[p]
    BY <1>5, <1>6 DEF OnTime
  <2> QED BY <1>4, <1>7 DEF OnTime
<1>9. AtOnce(c1)
  <2> SUFFICES ASSUME ~c.racing
               PROVE  /\ DOMAIN g # Queries(c.key) => \A p \in DOMAIN g : g[p] = Rows(c, p)
                      /\ {"day", "week"} \subseteq DOMAIN g => g["day"] \subseteq g["week"]
    BY <1>5, <1>6 DEF AtOnce
  <2>1. \A p \in DOMAIN g : g[p] = Rows(c, p)
    BY <1>0, <1>4, <1>7 DEF AtOnce
  <2>2. Rows(c, "day") \subseteq Rows(c, "week")
    <3>1. c.now - ShortWeek <= c.now - ShortDay /\ c.now - ShortWeek \in Int /\ c.now - ShortDay \in Int
      BY <1>4, AnalyticsAssumption DEF Begun
    <3>2. \A e \in events : e.at \in Nat
      BY <1>0 DEF EventsTyped, EventType
    <3> QED BY <3>1, <3>2 DEF Rows, OfKind
  <2> QED BY <2>1, <2>2
<1>10. Computed(c1)
  BY <1>4, <1>5, <1>8, <1>9 DEF Computed, Begun
<1> QED BY <1>0, <1>3, <1>10, QuietStands DEF AnalyticsIInv

(* A bucket of what a query answered is what happened in its tick. *)
LEMMA BucketIs ==
  ASSUME AnalyticsIInv, NEW c \in computing, c.key[1] # "overview", NEW q \in DOMAIN c.got, NEW kind,
         Rows(c, q) = OfKind(kind, Since(c.key, c.now)), NEW s \in StartsOf(c.key, c.now)
  PROVE  BucketSize(c.got[q], s) = Within(kind, s, s + 1)
<1>0. EventsTyped /\ Begun(c) /\ OnTime(c)
  BY DEF AnalyticsIInv, Computed
<1>1. PICK b \in Nat, n \in Nat : b = Buckets[c.key[2]] /\ n = c.now /\ s \in (n - b)..(n - 1)
  BY <1>0, StartsAre DEF Begun, EventsTyped
<1>2. Since(c.key, c.now) = n - b
  BY <1>1 DEF Since
<1>3. \A e \in events : e.at \in Nat
  BY <1>0 DEF EventsTyped, EventType
<1>4. c.got[q] \subseteq OfKind(kind, n - b) /\ \A e \in OfKind(kind, n - b) : e.at < n => e \in c.got[q]
  BY <1>0, <1>1, <1>2 DEF OnTime
<1>5. {e \in c.got[q] : s <= e.at /\ e.at < s + 1} = {e \in events : e.kind = kind /\ s <= e.at /\ e.at < s + 1}
  <2>1. ASSUME NEW e \in events, e.kind = kind, s <= e.at, e.at < s + 1 PROVE e \in c.got[q]
    <3>1. n - b <= e.at /\ e.at < n
      BY <1>1, <1>3, <2>1
    <3> QED BY <1>4, <2>1, <3>1 DEF OfKind
  <2>2. \A e \in c.got[q] : e \in events /\ e.kind = kind
    BY <1>4 DEF OfKind
  <2> QED BY <2>1, <2>2
<1> QED BY <1>5 DEF BucketSize, InBucket, Within

(* What a computation that has all its answers caches. *)
LEMMA FiguresRight ==
  ASSUME AnalyticsIInv, NEW c \in computing, DOMAIN c.got = Queries(c.key), NEW f,
         f = [now |-> c.now, value |-> Figures(c), racing |-> c.racing]
  PROVE  Cached(c.key, f)
<1>0. EventsTyped /\ Begun(c) /\ OnTime(c) /\ AtOnce(c)
  BY DEF AnalyticsIInv, Computed
<1>1. f.now = c.now /\ f.value = Figures(c) /\ f.racing = c.racing /\ c.now \in Nat /\ c.now <= tick
  BY <1>0 DEF Begun
<1>2. CASE c.key[1] = "volume"
  <2>1. "swaps" \in DOMAIN c.got /\ Rows(c, "swaps") = OfKind("swap", Since(c.key, c.now))
    BY <1>2 DEF Queries, Rows
  <2>2. f.value = [s \in StartsOf(c.key, c.now) |-> BucketSize(c.got["swaps"], s)]
    BY <1>1, <1>2 DEF Figures
  <2>3. \A s \in StartsOf(c.key, c.now) : BucketSize(c.got["swaps"], s) = Within("swap", s, s + 1)
    BY <1>2, <2>1, BucketIs
  <2> QED BY <1>1, <1>2, <2>2, <2>3 DEF Cached
<1>3. CASE c.key[1] \notin {"overview", "volume"}
  <2>1. /\ "mints" \in DOMAIN c.got /\ Rows(c, "mints") = OfKind("mint", Since(c.key, c.now))
        /\ "burns" \in DOMAIN c.got /\ Rows(c, "burns") = OfKind("burn", Since(c.key, c.now))
    BY <1>3 DEF Queries, Rows
  <2>2. f.value = [s \in StartsOf(c.key, c.now) |-> BucketSize(c.got["mints"], s) - BucketSize(c.got["burns"], s)]
    BY <1>1, <1>3 DEF Figures
  <2>3. \A s \in StartsOf(c.key, c.now) : /\ BucketSize(c.got["mints"], s) = Within("mint", s, s + 1)
                                          /\ BucketSize(c.got["burns"], s) = Within("burn", s, s + 1)
    BY <1>3, <2>1, BucketIs
  <2> QED BY <1>1, <1>3, <2>2, <2>3 DEF Cached
<1>4. CASE c.key[1] = "overview"
  <2>1. {"day", "week"} \subseteq DOMAIN c.got /\ "overview" # "volume" /\ DOMAIN c.got = Queries(c.key)
    BY <1>4 DEF Queries
  <2>2. PICK D, W : D = c.got["day"] /\ W = c.got["week"]
    OBVIOUS
  <2>3. f.value.day = SizeOf(D) /\ f.value.week = SizeOf(W)
    BY <1>1, <1>4, <2>2 DEF Figures
  <2>4. /\ D \subseteq OfKind("swap", c.now - ShortDay) /\ W \subseteq events
        /\ \A e \in OfKind("swap", c.now - ShortDay) : e.at < c.now => e \in D
    BY <1>0, <2>1, <2>2 DEF OnTime, Rows, OfKind
  <2>5. IsFiniteSet(D) /\ D \subseteq EventType /\ IsFiniteSet(W) /\ W \subseteq EventType
    <3>1. D \subseteq events
      BY <2>4 DEF OfKind
    <3> QED BY <1>0, <2>4, <3>1, FS_Subset DEF EventsTyped
  <2>6. Within("swap", c.now - ShortDay, c.now) <= SizeOf(D)
    <3>1. PICK T : T = {e \in events : e.kind = "swap" /\ c.now - ShortDay <= e.at /\ e.at < c.now}
      OBVIOUS
    <3>2. \A e \in events : e.at \in Nat
      BY <1>0 DEF EventsTyped, EventType
    <3>3. T \subseteq D
      BY <1>1, <2>4, <3>1, <3>2, AnalyticsAssumption DEF OfKind
    <3>4. SizeOf(T) <= SizeOf(D)
      BY <2>5, <3>3, SizesAdd
    <3> QED BY <3>1, <3>4 DEF Within
  <2>7. c.racing \/ SizeOf(D) <= SizeOf(W)
    <3>1. ~c.racing => D \subseteq W
      BY <1>0, <2>1, <2>2 DEF AtOnce
    <3> QED BY <2>5, <3>1, SizesAdd
  <2> QED BY <1>1, <1>4, <2>3, <2>6, <2>7 DEF Cached
<1> QED BY <1>2, <1>3, <1>4

LEMMA CacheKeepsFigures == ASSUME AnalyticsIInv, NEW c \in computing, CacheFigures(c) PROVE AnalyticsIInv'
<1>0. UNCHANGED <<tick, keys, events>> /\ computing' \subseteq computing /\ DOMAIN c.got = Queries(c.key)
  BY DEF CacheFigures
<1>1. PICK f : f = [now |-> c.now, value |-> Figures(c), racing |-> c.racing]
  OBVIOUS
<1>2. figures' = [figures EXCEPT ![c.key] = f]
  BY <1>1 DEF CacheFigures
<1>3. Cached(c.key, f)
  BY <1>0, <1>1, FiguresRight
<1>4. \A k \in keys : figures'[k] # NoFigures => Cached(k, figures'[k])
  BY <1>2, <1>3 DEF AnalyticsIInv
<1>5. DOMAIN figures' = keys
  BY <1>2 DEF AnalyticsIInv
<1> QED BY <1>0, <1>4, <1>5, QuietStands DEF AnalyticsIInv

LEMMA ExpireKeepsFigures == AnalyticsIInv /\ ExpireFigures => AnalyticsIInv'
<1> SUFFICES ASSUME AnalyticsIInv, ExpireFigures PROVE AnalyticsIInv'
  OBVIOUS
<1>0. UNCHANGED <<tick, keys, events, computing>>
  BY DEF ExpireFigures
<1>1. PICK k \in keys : figures' = [figures EXCEPT ![k] = NoFigures]
  BY DEF ExpireFigures
<1>2. (\A j \in keys : figures'[j] # NoFigures => Cached(j, figures'[j])) /\ DOMAIN figures' = keys
  BY <1>1 DEF AnalyticsIInv
<1> QED BY <1>0, <1>2, QuietStands DEF AnalyticsIInv

LEMMA AnalyticsKeeps == AnalyticsIInv /\ [AnalyticsNext]_analyticsVars => AnalyticsIInv'
<1> SUFFICES ASSUME AnalyticsIInv, [AnalyticsNext]_analyticsVars PROVE AnalyticsIInv'
  OBVIOUS
<1>1. CASE UNCHANGED analyticsVars
  <2>1. UNCHANGED <<tick, keys, events>> /\ computing' = computing /\ figures' = figures
    BY <1>1 DEF analyticsVars
  <2> QED BY <2>1, QuietStands DEF AnalyticsIInv
<1>2. ASSUME NEW k \in KindsRead, NEW n \in EventSizes, EventWritten(k, n) PROVE AnalyticsIInv'
  BY <1>2, WrittenKeeps
<1>3. CASE Missed \/ RecomputeAll
  <2>1. \E K : K \subseteq keys /\ StartFigures(K)
    BY <1>3 DEF Missed, RecomputeAll
  <2> QED BY <2>1, ComputeStarts
<1>4. ASSUME NEW c \in computing, CacheFigures(c) \/ \E q \in Queries(c.key) : QueryAnswers(c, q) PROVE AnalyticsIInv'
  BY <1>4, CacheKeepsFigures, ReplyKeeps
<1> QED BY <1>1, <1>2, <1>3, <1>4, HourKeeps, ExpireKeepsFigures DEF AnalyticsNext

LEMMA AnalyticsStarts == AnalyticsInit => AnalyticsIInv
<1> SUFFICES ASSUME AnalyticsInit PROVE AnalyticsIInv
  OBVIOUS
<1>1. EventsTyped
  BY FS_EmptySet DEF AnalyticsInit, EventsTyped
<1>2. DOMAIN figures = keys /\ \A k \in keys : figures[k] = NoFigures
  BY DEF AnalyticsInit
<1> QED BY <1>1, <1>2 DEF AnalyticsInit, AnalyticsIInv

(* The total of a cached series. *)
LEMMA SeriesTotal ==
  ASSUME AnalyticsIInv, NEW k \in keys, k[1] # "overview", figures[k] # NoFigures
  PROVE  LET n == figures[k].now  from == n - Buckets[k[2]]
         IN  Total(figures[k].value) = IF k[1] = "volume" THEN Within("swap", from, n)
                                       ELSE Within("mint", from, n) - Within("burn", from, n)
<1>0. EventsTyped /\ Cached(k, figures[k])
  BY DEF AnalyticsIInv
<1>1. PICK v : v = figures[k].value
  OBVIOUS
<1>2. PICK n \in Nat : n = figures[k].now
  BY <1>0 DEF Cached
<1>3. PICK b \in Nat \ {0} : b = Buckets[k[2]] /\ StartsOf(k, n) = (n - b)..(n - 1)
  BY <1>0, StartsAre DEF EventsTyped
<1>4. PICK a \in Int : a = n - b /\ a <= n
  OBVIOUS
<1>5. Total(v) = SumOf(v, a..(n - 1))
  <2>1. DOMAIN v = a..(n - 1)
    BY <1>0, <1>2, <1>1, <1>3, <1>4 DEF Cached
  <2> QED BY <2>1 DEF Total, SumOf
<1>6. CASE k[1] = "volume"
  <2>1. \A s \in a..(n - 1) : v[s] = Within("swap", s, s + 1)
    BY <1>0, <1>2, <1>1, <1>3, <1>4, <1>6 DEF Cached
  <2>2. SumOf(v, a..(n - 1)) = Within("swap", a, n)
    BY <1>0, <1>4, <2>1, SwapBuckets
  <2> QED BY <1>2, <1>1, <1>3, <1>4, <1>5, <1>6, <2>2
<1>7. CASE k[1] # "volume"
  <2>1. \A s \in a..(n - 1) : v[s] = Within("mint", s, s + 1) - Within("burn", s, s + 1)
    BY <1>0, <1>2, <1>1, <1>3, <1>4, <1>7 DEF Cached
  <2>2. SumOf(v, a..(n - 1)) = Within("mint", a, n) - Within("burn", a, n)
    BY <1>0, <1>4, <2>1, LiquidityBuckets
  <2> QED BY <1>2, <1>1, <1>3, <1>4, <1>5, <1>7, <2>2
<1> QED BY <1>6, <1>7

LEMMA FiguresAgree == AnalyticsIInv => AnalyticsInv
<1> SUFFICES ASSUME AnalyticsIInv PROVE AnalyticsInv
  OBVIOUS
<1>1. SeriesAddUp
  BY SeriesTotal DEF SeriesAddUp
<1>2. OverviewAddsUp
  <2> SUFFICES ASSUME NEW k \in keys, NEW l \in keys, k[1] = "overview", figures[k] # NoFigures, ~figures[k].racing
               PROVE  /\ figures[k].value.day <= figures[k].value.week
                      /\ l[1] = "volume" /\ figures[l] # NoFigures /\ figures[l].now = figures[k].now /\ Buckets[l[2]] = ShortDay
                           => Total(figures[l].value) <= figures[k].value.day
    BY DEF OverviewAddsUp
  <2>1. Cached(k, figures[k])
    BY DEF AnalyticsIInv
  <2>2. ASSUME l[1] = "volume", figures[l] # NoFigures, figures[l].now = figures[k].now, Buckets[l[2]] = ShortDay
        PROVE  Total(figures[l].value) = Within("swap", figures[k].now - ShortDay, figures[k].now)
    BY <2>2, SeriesTotal
  <2> QED BY <2>1, <2>2 DEF Cached
<1> QED BY <1>1, <1>2 DEF AnalyticsInv

(* However rows are written between the queries of a computation, and caches expire: the buckets of   *)
(* a cached series add up to what happened in its time, and an overview that no row interrupted     *)
(* agrees with itself and with the series of the same time (apps/api analytics).                   *)
THEOREM AnalyticsSound == AnalyticsInit /\ [][AnalyticsNext]_analyticsVars => []AnalyticsInv
BY AnalyticsStarts, AnalyticsKeeps, FiguresAgree, PTL

-----------------------------------------------------------------------------
(* The positions of a wallet.  A row has what one of its handled events left, and is closed as soon  *)
(* as one of them left nothing; what a request shows it took from the rows, from a price that was   *)
(* current while it ran, and from sums that only grow.                                           *)

ChainEventType == [nft : Nfts, kind : {"mint", "burn"}, leaves : Nat]
NftRowType == [liquidity : Nat, closed : BOOLEAN]

EventsOk ==
  /\ onChain \in Seq(ChainEventType) /\ handled \subseteq DOMAIN onChain
  /\ \A i \in DOMAIN onChain : onChain[i].kind = "mint" => onChain[i].leaves # 0

LeftBy(t, n) == \E i \in Handled(t) : onChain[i].leaves = n

RowsOk ==
  /\ nftRow \in [Nfts -> NftRowType \cup {NoNft}]
  /\ \A t \in Nfts : /\ nftRow[t].closed <=> LeftBy(t, 0)
                     /\ nftRow[t] # NoNft => LeftBy(t, nftRow[t].liquidity)

PricesOk == rowPrice \in Nat /\ spot \in Nat \cup {NoSpot} /\ toCache \in Seq(Nat)
SumsOk   == swapped \in Nat /\ collected \in Nat /\ collected <= swapped

(* The fields of a request. *)
Shaped(l) ==
  l = [at |-> l.at, wanted |-> l.wanted, rows |-> l.rows, price |-> l.price, vol |-> l.vol, fees |-> l.fees,
       shown |-> l.shown, since |-> l.since, begin |-> l.begin, end |-> l.end]

OfRows(l) ==
  /\ DOMAIN l.rows \subseteq Nfts
  /\ \A t \in DOMAIN l.rows : /\ l.rows[t] \in NftRowType /\ Wanted(l.wanted, l.rows[t])
                              /\ LeftBy(t, l.rows[t].liquidity)

OfPrices(l) ==
  /\ IsFiniteSet(l.since) /\ l.since \subseteq Nat /\ l.price \in l.since
  /\ l.at # "shown" => Current \subseteq l.since

OfSums(l) ==
  /\ l.at \in {"fees", "range", "shown"}
  /\ l.begin \in [swapped : Nat, collected : Nat] /\ l.end \in [swapped : Nat, collected : Nat]
  /\ l.begin.swapped <= swapped /\ l.begin.collected <= collected /\ l.begin.collected <= l.begin.swapped
  /\ l.vol = NotYet \/ (l.vol \in Nat /\ l.begin.swapped <= l.vol /\ l.vol <= swapped)
  /\ l.fees = NotYet \/ (l.fees \in Nat /\ l.begin.collected <= l.fees /\ l.fees <= collected)
  /\ l.at # "fees" => l.vol # NotYet /\ l.fees # NotYet
  /\ l.at = "shown" => l.vol <= l.end.swapped /\ l.fees <= l.end.collected

(* An item, as toResponse makes it of its row. *)
ItemOf(l, t) ==
  LET item == l.shown[t]  row == l.rows[t]
  IN  /\ item.status = (IF row.closed THEN "closed" ELSE "active")
      /\ row.closed => item.range = "none"
      /\ ~row.closed => \E p \in l.since : item.range = (IF InRange(t, p) THEN "in" ELSE "out")
      /\ item.fees0 = row.liquidity * Unclaimed0(l)

OfShown(l) ==
  /\ DOMAIN l.shown \subseteq DOMAIN l.rows
  /\ l.at = "fees" => DOMAIN l.shown = {}
  /\ l.at = "shown" => DOMAIN l.shown = DOMAIN l.rows
  /\ \A t \in DOMAIN l.shown : ItemOf(l, t)

RequestOk(l) == Shaped(l) /\ OfRows(l) /\ OfPrices(l) /\ OfSums(l) /\ OfShown(l)
ListingOk == listing # NoListing => RequestOk(listing)

ViewsIInv == EventsOk /\ RowsOk /\ PricesOk /\ SumsOk /\ ListingOk

LEMMA NoListingAt == NoListing.at = "none"
BY DEF NoListing

LEMMA ListingTold == ASSUME NEW l, Shaped(l) PROVE l # NoListing
<1>1. "wanted" \in DOMAIN l
  BY DEF Shaped
<1> QED BY <1>1 DEF NoListing

(***************************************************************************)
(* Events and rows                                                         *)
(***************************************************************************)

LEMMA EventTyped ==
  ASSUME EventsOk, NEW i \in DOMAIN onChain
  PROVE  onChain[i] \in ChainEventType /\ onChain[i].nft \in Nfts /\ onChain[i].leaves \in Nat
<1>1. onChain[i] \in ChainEventType
  BY DEF EventsOk
<1> QED BY <1>1 DEF ChainEventType

LEMMA LeftTyped == ASSUME EventsOk, NEW t PROVE Left(t) \in Nat
<1>1. CASE Of(t) = {}
  BY <1>1 DEF Left
<1>2. CASE Of(t) # {}
  <2>1. PICK n \in Nat : n = Len(onChain) /\ DOMAIN onChain = 1..n
    BY DEF EventsOk
  <2>2. Of(t) \in SUBSET (1..n)
    BY <2>1 DEF Of
  <2>3. Max(Of(t)) \in Of(t)
    BY <1>2, <2>2, MaxOf
  <2>4. Max(Of(t)) \in DOMAIN onChain
    BY <2>1, <2>2, <2>3
  <2> QED BY <1>2, <2>4, EventTyped DEF Left
<1> QED BY <1>1, <1>2

LEMMA MintedBefore ==
  ASSUME NEW c, c = [i \in 1..Cardinality(Nfts) |-> [nft |-> SetToSeq(Nfts)[i], kind |-> "mint", leaves |-> 1]]
  PROVE  /\ c \in Seq(ChainEventType) /\ \A i \in DOMAIN c : c[i].leaves = 1
         /\ \A t \in Nfts : \E i \in DOMAIN c : c[i].nft = t
<1>1. Cardinality(Nfts) \in Nat /\ ExistsBijection(1..Cardinality(Nfts), Nfts)
  BY PositionViewsAssumption, FS_CardinalityType
<1>2. PICK f \in Bijection(1..Cardinality(Nfts), Nfts) : TRUE
  BY <1>1 DEF ExistsBijection
<1>3. f \in [1..Cardinality(Nfts) -> Nfts] /\ IsInjective(f)
  BY <1>2 DEF Bijection, Injection, IsInjective
<1>4. PICK g : g = SetToSeq(Nfts)
  OBVIOUS
<1>5. g \in [1..Cardinality(Nfts) -> Nfts] /\ IsInjective(g)
  BY <1>3, <1>4 DEF SetToSeq
<1>6. c \in [1..Cardinality(Nfts) -> ChainEventType] /\ (\A i \in DOMAIN c : c[i].leaves = 1 /\ c[i].nft = g[i])
  <2>1. c = [i \in 1..Cardinality(Nfts) |-> [nft |-> g[i], kind |-> "mint", leaves |-> 1]]
    BY <1>4, Zenon
  <2>2. ASSUME NEW i \in 1..Cardinality(Nfts)
        PROVE  /\ [nft |-> g[i], kind |-> "mint", leaves |-> 1] \in ChainEventType
               /\ c[i] = [nft |-> g[i], kind |-> "mint", leaves |-> 1]
    <3>1. g[i] \in Nfts
      BY <1>5
    <3> QED BY <2>1, <3>1 DEF ChainEventType
  <2> QED BY <2>1, <2>2
<1>7. c \in Seq(ChainEventType)
  <2>1. PICK n \in Nat : n = Cardinality(Nfts)
    BY <1>1
  <2>2. c \in [1..n -> ChainEventType]
    BY <1>6, <2>1, Zenon
  <2> QED BY ONLY <2>2, n \in Nat
<1>8. \A t \in Nfts : \E i \in 1..Cardinality(Nfts) : g[i] = t
  <2>1. PICK R : R = {g[i] : i \in 1..Cardinality(Nfts)}
    OBVIOUS
  <2>2. g \in Bijection(1..Cardinality(Nfts), R)
    BY <1>5, <2>1 DEF Bijection, Injection, Surjection, IsInjective
  <2>3. Cardinality(R) = Cardinality(Nfts)
    BY <1>1, <2>2, FS_CountingElements DEF ExistsBijection
  <2>4. R \in SUBSET Nfts
    BY <1>5, <2>1
  <2>5. R = Nfts
    BY <2>3, <2>4, FS_Subset, PositionViewsAssumption
  <2> QED BY <2>1, <2>5
<1>9. DOMAIN c = 1..Cardinality(Nfts)
  BY <1>6, Zenon
<1>10. \A i \in DOMAIN c : c[i].leaves = 1 /\ c[i].nft = g[i]
  BY <1>6, Zenon
<1>11. \A t \in Nfts : \E i \in DOMAIN c : c[i].nft = t
  <2> TAKE t \in Nfts
  <2>1. PICK i \in 1..Cardinality(Nfts) : g[i] = t
    BY <1>8, Zenon
  <2>2. i \in DOMAIN c /\ c[i].nft = t
    BY <1>9, <1>10, <2>1, Zenon
  <2> QED BY <2>2, Zenon
<1> QED BY <1>7, <1>10, <1>11, Zenon

(* What stands of a request when its rows and sums only grow. *)
LEMMA NftRowsStand ==
  ASSUME \A t \in Nfts, n \in Nat : LeftBy(t, n) => LeftBy(t, n)', NEW l, OfRows(l)
  PROVE  OfRows(l)'
<1>1. ASSUME NEW t \in DOMAIN l.rows PROVE LeftBy(t, l.rows[t].liquidity)'
  <2>1. PICK n \in Nat : n = l.rows[t].liquidity /\ t \in Nfts /\ LeftBy(t, n)
    BY DEF OfRows, NftRowType
  <2> QED BY <2>1
<1> QED BY <1>1 DEF OfRows

LEMMA ChainEventKeeps ==
  ASSUME ViewsIInv, NEW t \in Nfts, NEW n \in Leaves, NEW kind \in {"mint", "burn"}, ChainEvent(t, kind, n)
  PROVE  ViewsIInv'
<1>0. /\ EventsOk /\ RowsOk /\ n \in Nat /\ handled' = handled /\ nftRow' = nftRow
      /\ UNCHANGED <<priceVars, feeVars, listing>>
  BY PositionViewsAssumption DEF ViewsIInv, ChainEvent
<1>1. PICK e : e = [nft |-> t, kind |-> kind, leaves |-> n]
  OBVIOUS
<1>2. onChain' = Append(onChain, e) /\ e \in ChainEventType
  BY <1>0, <1>1 DEF ChainEvent, ChainEventType
<1>3. kind = "mint" => n # 0
  <2>1. Left(t) \in Nat
    BY <1>0, LeftTyped
  <2> QED BY <1>0, <2>1 DEF ChainEvent
<1>4. PICK k \in Nat : k = Len(onChain) /\ DOMAIN onChain = 1..k
  BY <1>0 DEF EventsOk
<1>5. /\ onChain' \in Seq(ChainEventType) /\ DOMAIN onChain' = 1..(k + 1)
      /\ onChain'[k + 1] = e /\ \A i \in 1..k : onChain'[i] = onChain[i]
  BY <1>0, <1>2, <1>4, AppendProperties DEF EventsOk
<1>6. EventsOk'
  <2>1. \A i \in DOMAIN onChain' : onChain'[i].kind = "mint" => onChain'[i].leaves # 0
    BY <1>0, <1>1, <1>3, <1>4, <1>5 DEF EventsOk
  <2> QED BY <1>0, <1>4, <1>5, <2>1 DEF EventsOk
<1>7. \A u \in Nfts, m \in Nat : LeftBy(u, m)' <=> LeftBy(u, m)
  BY <1>0, <1>4, <1>5 DEF LeftBy, Handled, Of, EventsOk
<1>8. RowsOk'
  <2>1. \A u \in Nfts : nftRow[u] # NoNft => nftRow[u].liquidity \in Nat
    BY <1>0 DEF RowsOk, NftRowType
  <2> QED BY <1>0, <1>7, <2>1 DEF RowsOk
<1>9. ListingOk'
  <2>1. PICK l : l = listing
    OBVIOUS
  <2>2. OfRows(l) => OfRows(l)'
    BY <1>7, NftRowsStand
  <2>3. OfPrices(l)' <=> OfPrices(l)
    BY <1>0 DEF OfPrices, Current, priceVars
  <2>4. OfSums(l)' <=> OfSums(l)
    BY <1>0 DEF OfSums, feeVars
  <2>5. (Shaped(l) => Shaped(l)') /\ (OfShown(l) => OfShown(l)')
    BY DEF Shaped, OfShown, ItemOf
  <2>6. RequestOk(l) => RequestOk(l)'
    BY <2>2, <2>3, <2>4, <2>5 DEF RequestOk
  <2> QED BY <1>0, <2>1, <2>6 DEF ViewsIInv, ListingOk, RequestOk
<1> QED BY <1>0, <1>6, <1>8, <1>9 DEF ViewsIInv, PricesOk, SumsOk, priceVars, feeVars

LEMMA UpsertKeeps ==
  ASSUME ViewsIInv, NEW i \in DOMAIN onChain, HandlePositionMinted(i) \/ HandlePositionBurned(i)
  PROVE  ViewsIInv'
<1>0. EventsOk /\ RowsOk
  BY DEF ViewsIInv
<1>1. PICK e : e = onChain[i] /\ e \in ChainEventType /\ e.nft \in Nfts /\ e.leaves \in Nat
  BY <1>0, EventTyped
<1>2. PICK closes \in BOOLEAN : Upserted(i, closes) /\ (closes <=> e.leaves = 0)
  BY <1>0, <1>1 DEF HandlePositionMinted, HandlePositionBurned, Closes, EventsOk
<1>3. PICK r : r = [liquidity |-> e.leaves, closed |-> nftRow[e.nft].closed \/ closes]
  OBVIOUS
<1>4. /\ nftRow' = [nftRow EXCEPT ![e.nft] = r] /\ handled' = handled \cup {i}
      /\ onChain' = onChain /\ UNCHANGED <<priceVars, feeVars, listing>>
  BY <1>1, <1>2, <1>3 DEF Upserted
<1>5. r \in NftRowType /\ r.liquidity = e.leaves /\ (r.closed <=> nftRow[e.nft].closed \/ e.leaves = 0)
  <2>1. nftRow[e.nft].closed \in BOOLEAN
    <3>1. PICK q : q = nftRow[e.nft]
      OBVIOUS
    <3>2. q \in NftRowType \/ q = NoNft
      BY <1>0, <1>1, <3>1 DEF RowsOk
    <3>3. NoNft.closed = FALSE /\ \A x \in NftRowType : x.closed \in BOOLEAN
      BY DEF NftRowType, NoNft
    <3>4. q.closed \in BOOLEAN
      BY <3>2, <3>3
    <3> QED BY <3>1, <3>4
  <2> QED BY <1>1, <1>2, <1>3, <2>1 DEF NftRowType
<1>6. EventsOk'
  BY <1>0, <1>4 DEF EventsOk
<1>7. \A u, m : LeftBy(u, m)' <=> LeftBy(u, m) \/ (u = e.nft /\ m = e.leaves)
  BY <1>1, <1>4 DEF LeftBy, Handled, Of
<1>8. RowsOk'
  <2>1. nftRow' \in [Nfts -> NftRowType \cup {NoNft}]
    BY <1>0, <1>4, <1>5 DEF RowsOk
  <2>2. ASSUME NEW u \in Nfts, NEW q, q = nftRow'[u]
        PROVE  (q.closed <=> LeftBy(u, 0)') /\ (q # NoNft => LeftBy(u, q.liquidity)')
    <3>1. CASE u = e.nft
      <4>1. q = r
        BY <1>0, <1>4, <2>2, <3>1 DEF RowsOk
      <4>2. r.closed <=> LeftBy(u, 0)'
        BY <1>0, <1>1, <1>5, <1>7, <3>1 DEF RowsOk
      <4>3. LeftBy(u, r.liquidity)'
        BY <1>5, <1>7, <3>1
      <4> QED BY <4>1, <4>2, <4>3
    <3>2. CASE u # e.nft
      <4>1. q = nftRow[u]
        BY <1>0, <1>4, <2>2, <3>2 DEF RowsOk
      <4> QED BY <1>0, <1>7, <3>2, <4>1 DEF RowsOk
    <3> QED BY <3>1, <3>2
  <2> QED BY <2>1, <2>2 DEF RowsOk, LeftBy
<1>9. ListingOk'
  <2>1. PICK l : l = listing
    OBVIOUS
  <2>2. OfRows(l) => OfRows(l)'
    BY <1>7, NftRowsStand
  <2>3. OfPrices(l)' <=> OfPrices(l)
    BY <1>4 DEF OfPrices, Current, priceVars
  <2>4. OfSums(l)' <=> OfSums(l)
    BY <1>4 DEF OfSums, feeVars
  <2>5. (Shaped(l) => Shaped(l)') /\ (OfShown(l) => OfShown(l)')
    BY DEF Shaped, OfShown, ItemOf
  <2>6. RequestOk(l) => RequestOk(l)'
    BY <2>2, <2>3, <2>4, <2>5 DEF RequestOk
  <2> QED BY <1>4, <2>1, <2>6 DEF ViewsIInv, ListingOk, RequestOk
<1> QED BY <1>4, <1>6, <1>8, <1>9 DEF ViewsIInv, PricesOk, SumsOk, priceVars, feeVars

(***************************************************************************)
(* Sums and prices                                                         *)
(***************************************************************************)

(* Steps of which neither the events nor the rows know. *)
LEMMA RowsStay ==
  ASSUME ViewsIInv, UNCHANGED nftVars
  PROVE  /\ EventsOk' /\ RowsOk'
         /\ \A l : OfRows(l)' <=> OfRows(l)
<1>1. EventsOk' /\ RowsOk'
  BY DEF ViewsIInv, EventsOk, RowsOk, LeftBy, Handled, Of, nftVars
<1>2. \A l : OfRows(l)' <=> OfRows(l)
  BY DEF OfRows, LeftBy, Handled, Of, nftVars
<1> QED BY <1>1, <1>2

LEMMA SumsKeep == ViewsIInv /\ SwapOrCollect => ViewsIInv'
<1> SUFFICES ASSUME ViewsIInv, SwapOrCollect PROVE ViewsIInv'
  OBVIOUS
<1>0. UNCHANGED <<nftVars, priceVars, listing>> /\ SumsOk
  BY DEF SwapOrCollect, ViewsIInv
<1>1. SumsOk' /\ swapped <= swapped' /\ collected <= collected'
  BY <1>0 DEF SwapOrCollect, SumsOk
<1>2. PICK l : l = listing
  OBVIOUS
<1>3. OfSums(l) => OfSums(l)'
  <2> SUFFICES ASSUME OfSums(l) PROVE OfSums(l)'
    OBVIOUS
  <2>1. PICK bs \in Nat, bc \in Nat : bs = l.begin.swapped /\ bc = l.begin.collected
    BY DEF OfSums
  <2>2. bs <= swapped' /\ bc <= collected'
    BY <1>0, <1>1, <2>1 DEF OfSums, SumsOk
  <2>3. l.vol = NotYet \/ (l.vol \in Nat /\ bs <= l.vol /\ l.vol <= swapped')
    BY <1>0, <1>1, <2>1 DEF OfSums, SumsOk
  <2>4. l.fees = NotYet \/ (l.fees \in Nat /\ bc <= l.fees /\ l.fees <= collected')
    BY <1>0, <1>1, <2>1 DEF OfSums, SumsOk
  <2> QED BY <2>1, <2>2, <2>3, <2>4 DEF OfSums
<1>4. (OfPrices(l)' <=> OfPrices(l)) /\ (Shaped(l) => Shaped(l)') /\ (OfShown(l) => OfShown(l)')
  BY <1>0 DEF OfPrices, Current, Shaped, OfShown, ItemOf, priceVars
<1>5. RequestOk(l) => RequestOk(l)'
  BY <1>0, <1>3, <1>4, RowsStay DEF RequestOk
<1>6. ListingOk'
  BY <1>0, <1>2, <1>5 DEF ViewsIInv, ListingOk, RequestOk
<1> QED BY <1>0, <1>1, <1>6, RowsStay DEF ViewsIInv, PricesOk, priceVars

(* What is of another price: the rest of a request stands. *)
LEMMA PricesMove ==
  ASSUME ViewsIInv, UNCHANGED <<nftVars, feeVars>>, PricesOk',
         NEW l, l = listing, NEW m, m = listing',
         l = NoListing => m = NoListing,
         l # NoListing => /\ m = [l EXCEPT !.since = m.since]
                          /\ l.since \subseteq m.since /\ OfPrices(m)'
  PROVE  ViewsIInv'
<1>1. SumsOk'
  BY DEF ViewsIInv, SumsOk, feeVars
<1>2. ASSUME l # NoListing PROVE RequestOk(m)'
  <2>1. RequestOk(l)
    BY <1>2 DEF ViewsIInv, ListingOk
  <2>2. /\ m.at = l.at /\ m.wanted = l.wanted /\ m.rows = l.rows /\ m.price = l.price /\ m.vol = l.vol /\ m.fees = l.fees
        /\ m.shown = l.shown /\ m.begin = l.begin /\ m.end = l.end /\ Shaped(m)
    BY <1>2, <2>1 DEF RequestOk, Shaped
  <2>3. OfRows(m)'
    <3>1. OfRows(m)
      BY <2>1, <2>2 DEF RequestOk, OfRows
    <3> QED BY <3>1, RowsStay
  <2>4. OfSums(m)'
    BY <2>1, <2>2 DEF RequestOk, OfSums, feeVars
  <2>5. OfShown(m)'
    <3>1. l.since \subseteq m.since
      BY <1>2
    <3>2. \A t \in DOMAIN l.shown : ItemOf(l, t)
      BY <2>1 DEF RequestOk, OfShown
    <3>3. Unclaimed0(m) = Unclaimed0(l)
      BY <2>2 DEF Unclaimed0
    <3>4. \A t \in DOMAIN l.shown : ItemOf(m, t)
      BY <2>2, <3>1, <3>2, <3>3 DEF ItemOf
    <3> QED BY <2>1, <2>2, <3>4 DEF RequestOk, OfShown, ItemOf
  <2> QED BY <1>2, <2>2, <2>3, <2>4, <2>5 DEF RequestOk, Shaped
<1>3. ListingOk'
  BY <1>2 DEF ListingOk, RequestOk
<1> QED BY <1>1, <1>3, RowsStay DEF ViewsIInv

LEMMA PriceEventKeeps ==
  ASSUME ViewsIInv, NEW price \in SpotPrices, PriceEvent(price)
  PROVE  ViewsIInv'
<1>0. PricesOk /\ price \in Nat /\ UNCHANGED <<nftVars, feeVars>> /\ spot' = spot /\ rowPrice' = price
      /\ toCache' = Append(toCache, price) /\ listing.at # "shown"
  BY PositionViewsAssumption DEF ViewsIInv, PriceEvent, Happens
<1>1. PICK n \in Nat : n = Len(toCache) /\ DOMAIN toCache = 1..n
  BY <1>0 DEF PricesOk
<1>2. /\ toCache' \in Seq(Nat) /\ DOMAIN toCache' = 1..(n + 1)
      /\ toCache'[n + 1] = price /\ \A i \in 1..n : toCache'[i] = toCache[i]
  BY <1>0, <1>1, AppendProperties DEF PricesOk
<1>3. PricesOk'
  BY <1>0, <1>2 DEF PricesOk
<1>4. Current' \subseteq Current \cup {price}
  <2>1. \A i \in DOMAIN toCache' : toCache'[i] \in Current \cup {price}
    BY <1>1, <1>2 DEF Current
  <2> QED BY <1>0, <2>1 DEF Current
<1>5. PICK l : l = listing
  OBVIOUS
<1>6. PICK m : m = listing'
  OBVIOUS
<1>7. l = NoListing => m = NoListing
  BY <1>5, <1>6 DEF PriceEvent
<1>8. ASSUME l # NoListing
      PROVE  m = [l EXCEPT !.since = m.since] /\ l.since \subseteq m.since /\ OfPrices(m)'
  <2>1. PICK S : S = l.since \cup {price}
    OBVIOUS
  <2>2. m = [l EXCEPT !.since = S]
    BY <1>5, <1>6, <1>8, <2>1 DEF PriceEvent
  <2>3. RequestOk(l)
    BY <1>5, <1>8 DEF ViewsIInv, ListingOk
  <2>4. m.since = S /\ m.at = l.at /\ m.price = l.price
    BY <2>2, <2>3 DEF RequestOk, Shaped
  <2>5. IsFiniteSet(S)
    BY <2>1, <2>3, FS_AddElement DEF RequestOk, OfPrices
  <2>6. Current \subseteq l.since
    BY <1>0, <1>5, <2>3 DEF RequestOk, OfPrices
  <2>7. OfPrices(m)'
    BY <1>0, <1>4, <2>1, <2>3, <2>4, <2>5, <2>6 DEF RequestOk, OfPrices
  <2> QED BY <2>1, <2>2, <2>4, <2>7
<1> QED BY <1>0, <1>3, <1>5, <1>6, <1>7, <1>8, PricesMove

(* The cache takes a price that was on its way, or loses one. *)
LEMMA PriceCacheKeeps == ViewsIInv /\ (SpotArrives \/ SpotExpires) => ViewsIInv'
<1> SUFFICES ASSUME ViewsIInv, SpotArrives \/ SpotExpires PROVE ViewsIInv'
  OBVIOUS
<1>0. PricesOk /\ UNCHANGED <<nftVars, feeVars>> /\ rowPrice' = rowPrice /\ listing' = listing /\ listing.at # "shown"
  BY DEF ViewsIInv, SpotArrives, SpotExpires
<1>1. PricesOk' /\ Current' \subseteq Current
  <2>1. CASE SpotExpires
    BY <1>0, <2>1 DEF PricesOk, Current, SpotExpires
  <2>2. CASE SpotArrives
    <3>1. toCache \in Seq(Nat) /\ toCache # <<>> /\ toCache' = Tail(toCache) /\ spot' \in {Head(toCache), spot}
      BY <1>0, <2>2 DEF PricesOk, SpotArrives
    <3>2. PICK n \in Nat : n = Len(toCache) /\ DOMAIN toCache = 1..n /\ n >= 1
      BY <3>1, EmptySeq
    <3>3. PICK a \in Nat : a = Head(toCache) /\ a = toCache[1] /\ a \in Current
      BY <3>1, <3>2 DEF Current
    <3>4. toCache' \in Seq(Nat) /\ DOMAIN toCache' = 1..(n - 1) /\ \A i \in 1..(n - 1) : toCache'[i] = toCache[i + 1]
      BY <3>1, <3>2, HeadTailProperties
    <3>5. ASSUME NEW i \in DOMAIN toCache' PROVE toCache'[i] \in Current
      <4>1. PICK j \in DOMAIN toCache : toCache'[i] = toCache[j]
        <5>1. i \in 1..(n - 1) /\ i + 1 \in 1..n
          BY <3>2, <3>4
        <5> QED BY <3>2, <3>4, <5>1
      <4> QED BY <4>1 DEF Current
    <3>6. spot' \in {a, spot}
      BY <3>1, <3>3
    <3>7. PricesOk'
      BY <1>0, <3>4, <3>6 DEF PricesOk
    <3> QED BY <1>0, <3>3, <3>5, <3>6, <3>7 DEF Current
  <2> QED BY <2>1, <2>2
<1>2. PICK l : l = listing
  OBVIOUS
<1>3. l # NoListing => OfPrices(l) /\ l = [l EXCEPT !.since = l.since]
  <2> SUFFICES ASSUME l # NoListing PROVE OfPrices(l) /\ l = [l EXCEPT !.since = l.since]
    OBVIOUS
  <2>1. RequestOk(l)
    BY <1>2 DEF ViewsIInv, ListingOk
  <2> QED BY <2>1 DEF RequestOk, Shaped
<1>4. OfPrices(l) => OfPrices(l)'
  BY <1>1 DEF OfPrices
<1> QED BY <1>0, <1>1, <1>2, <1>3, <1>4, PricesMove

(***************************************************************************)
(* The request                                                             *)
(***************************************************************************)

LEMMA CurrentTyped == ASSUME PricesOk PROVE IsFiniteSet(Current) /\ Current \subseteq Nat
<1>1. PICK R : R = {toCache[i] : i \in DOMAIN toCache}
  OBVIOUS
<1>2. PICK n \in Nat : n = Len(toCache) /\ DOMAIN toCache = 1..n
  BY DEF PricesOk
<1>3. PICK f : f = [i \in 1..n |-> toCache[i]]
  OBVIOUS
<1>4. f \in Surjection(1..n, R)
  BY <1>1, <1>2, <1>3 DEF Surjection
<1>5. IsFiniteSet(R) /\ R \subseteq Nat
  <2>1. IsFiniteSet(1..n)
    BY FS_Interval
  <2>2. IsFiniteSet(R)
    BY <1>4, <2>1, FS_Surjection
  <2> QED BY <1>1, <2>2 DEF PricesOk
<1>6. PICK T : T = {spot} \ {NoSpot}
  OBVIOUS
<1>7. IsFiniteSet(T) /\ IsFiniteSet({rowPrice})
  <2>1. IsFiniteSet({spot}) /\ T \in SUBSET {spot}
    BY <1>6, FS_Singleton
  <2> QED BY <2>1, FS_Subset, FS_Singleton
<1>8. IsFiniteSet({rowPrice} \cup T)
  BY <1>7, FS_Union
<1>9. IsFiniteSet(({rowPrice} \cup T) \cup R)
  BY <1>5, <1>8, FS_Union
<1> QED BY <1>1, <1>5, <1>6, <1>9 DEF Current, PricesOk

(* A step of the request alone. *)
LEMMA RequestMoves ==
  ASSUME ViewsIInv, UNCHANGED <<nftVars, priceVars, feeVars>>,
         listing' = NoListing \/ RequestOk(listing')
  PROVE  ViewsIInv'
<1>1. PICK l : l = listing'
  OBVIOUS
<1>2. /\ OfPrices(l)' <=> OfPrices(l)
      /\ OfSums(l)' <=> OfSums(l)
      /\ OfShown(l)' <=> OfShown(l)
      /\ Shaped(l)' <=> Shaped(l)
  BY DEF OfPrices, Current, OfSums, OfShown, ItemOf, Shaped, priceVars, feeVars
<1>3. RequestOk(l) => RequestOk(l)'
  BY <1>2, RowsStay DEF RequestOk
<1>4. ListingOk'
  BY <1>1, <1>3 DEF ListingOk, RequestOk
<1> QED BY <1>4, RowsStay DEF ViewsIInv, PricesOk, SumsOk, priceVars, feeVars

LEMMA GetKeeps ==
  ASSUME ViewsIInv, NEW w \in {"all", "active", "closed"}, GetPositions(w)
  PROVE  ViewsIInv'
<1>0. UNCHANGED <<nftVars, priceVars, feeVars>> /\ RowsOk /\ PricesOk /\ SumsOk
  BY DEF ViewsIInv, GetPositions
<1>1. PICK wanted : wanted = [t \in {u \in Nfts : Wanted(w, nftRow[u])} |-> nftRow[t]]
  OBVIOUS
<1>2. PICK l : l = listing'
  OBVIOUS
<1>3. l = [at |-> "fees", wanted |-> w, rows |-> wanted, price |-> rowPrice, vol |-> NotYet, fees |-> NotYet,
           shown |-> <<>>, since |-> Current, begin |-> PoolSums, end |-> PoolSums]
  BY <1>1, <1>2 DEF GetPositions
<1>4. Shaped(l)
  BY <1>3 DEF Shaped
<1>5. OfRows(l)
  <2>1. ASSUME NEW t \in DOMAIN wanted
        PROVE  t \in Nfts /\ wanted[t] = nftRow[t] /\ Wanted(w, nftRow[t]) /\ nftRow[t] # NoNft
    BY <1>1, <2>1 DEF Wanted
  <2>2. \A t \in DOMAIN wanted : wanted[t] \in NftRowType /\ LeftBy(t, wanted[t].liquidity)
    BY <1>0, <2>1 DEF RowsOk
  <2> QED BY <1>3, <2>1, <2>2 DEF OfRows
<1>6. OfPrices(l)
  BY <1>0, <1>3, CurrentTyped DEF OfPrices, Current
<1>7. OfSums(l)
  BY <1>0, <1>3 DEF OfSums, PoolSums, SumsOk, NotYet
<1>8. OfShown(l)
  <2>1. DOMAIN l.shown = {}
    BY <1>3
  <2> QED BY <1>3, <2>1 DEF OfShown
<1> QED BY <1>0, <1>2, <1>4, <1>5, <1>6, <1>7, <1>8, RequestMoves DEF RequestOk

LEMMA AnswersKeep == ViewsIInv /\ (SwapsAnswer \/ CollectedAnswer) => ViewsIInv'
<1> SUFFICES ASSUME ViewsIInv, SwapsAnswer \/ CollectedAnswer PROVE ViewsIInv'
  OBVIOUS
<1>0. UNCHANGED <<nftVars, priceVars, feeVars>> /\ SumsOk /\ listing.at = "fees"
  BY DEF ViewsIInv, SwapsAnswer, CollectedAnswer
<1>1. PICK l : l = listing
  OBVIOUS
<1>2. RequestOk(l) /\ l.at = "fees"
  BY <1>0, <1>1, NoListingAt DEF ViewsIInv, ListingOk
<1>3. PICK m : m = listing'
  OBVIOUS
<1>4. \/ m = [l EXCEPT !.vol = swapped]
      \/ m = [l EXCEPT !.fees = collected]
  BY <1>1, <1>3 DEF SwapsAnswer, CollectedAnswer
<1>5. /\ m.at = l.at /\ m.wanted = l.wanted /\ m.rows = l.rows /\ m.price = l.price
      /\ m.shown = l.shown /\ m.since = l.since /\ m.begin = l.begin /\ m.end = l.end
      /\ m.vol \in {l.vol, swapped} /\ m.fees \in {l.fees, collected} /\ Shaped(m)
  BY <1>2, <1>4 DEF RequestOk, Shaped
<1>6. OfRows(m) /\ OfPrices(m)
  BY <1>2, <1>5 DEF RequestOk, OfRows, OfPrices
<1>7. OfSums(m)
  <2>1. OfSums(l)
    BY <1>2 DEF RequestOk
  <2>2. m.vol = NotYet \/ (m.vol \in Nat /\ m.begin.swapped <= m.vol /\ m.vol <= swapped)
    BY <1>0, <1>5, <2>1 DEF OfSums, SumsOk
  <2>3. m.fees = NotYet \/ (m.fees \in Nat /\ m.begin.collected <= m.fees /\ m.fees <= collected)
    BY <1>0, <1>5, <2>1 DEF OfSums, SumsOk
  <2> QED BY <1>2, <1>5, <2>1, <2>2, <2>3 DEF OfSums
<1>8. OfShown(m)
  BY <1>2, <1>5 DEF RequestOk, OfShown
<1> QED BY <1>0, <1>3, <1>5, <1>6, <1>7, <1>8, RequestMoves DEF RequestOk

LEMMA SnapshotsKeep == ViewsIInv /\ Snapshots => ViewsIInv'
<1> SUFFICES ASSUME ViewsIInv, Snapshots PROVE ViewsIInv'
  OBVIOUS
<1>0. UNCHANGED <<nftVars, priceVars, feeVars>> /\ listing.at = "fees" /\ listing.vol # NotYet /\ listing.fees # NotYet
  BY DEF Snapshots
<1>1. PICK l : l = listing
  OBVIOUS
<1>2. RequestOk(l) /\ l.at = "fees"
  BY <1>0, <1>1, NoListingAt DEF ViewsIInv, ListingOk
<1>3. PICK m : m = listing'
  OBVIOUS
<1>4. m = [l EXCEPT !.at = "range"]
  BY <1>1, <1>3 DEF Snapshots
<1>5. /\ m.at = "range" /\ m.wanted = l.wanted /\ m.rows = l.rows /\ m.price = l.price
      /\ m.shown = l.shown /\ m.since = l.since /\ m.begin = l.begin /\ m.end = l.end
      /\ m.vol = l.vol /\ m.fees = l.fees /\ Shaped(m)
  BY <1>2, <1>4 DEF RequestOk, Shaped
<1>6. OfRows(m) /\ OfPrices(m)
  BY <1>2, <1>5 DEF RequestOk, OfRows, OfPrices
<1>7. OfSums(m)
  BY <1>0, <1>1, <1>2, <1>5 DEF RequestOk, OfSums
<1>8. OfShown(m)
  BY <1>2, <1>5 DEF RequestOk, OfShown
<1> QED BY <1>0, <1>3, <1>5, <1>6, <1>7, <1>8, RequestMoves DEF RequestOk

LEMMA ToResponseKeeps ==
  ASSUME ViewsIInv, NEW t \in Nfts, ToResponse(t)
  PROVE  ViewsIInv'
<1>0. UNCHANGED <<nftVars, priceVars, feeVars>> /\ PricesOk /\ listing.at = "range"
      /\ t \in DOMAIN listing.rows \ DOMAIN listing.shown
  BY DEF ViewsIInv, ToResponse
<1>1. PICK l : l = listing
  OBVIOUS
<1>2. RequestOk(l) /\ l.at = "range" /\ t \in DOMAIN l.rows \ DOMAIN l.shown
  BY <1>0, <1>1, NoListingAt DEF ViewsIInv, ListingOk
<1>3. PICK m : m = listing'
  OBVIOUS
<1>4. PICK row : row = l.rows[t]
  OBVIOUS
<1>5. PICK price : price = (IF spot = NoSpot THEN l.price ELSE spot)
  OBVIOUS
<1>6. PICK item : item = [status |-> IF row.closed THEN "closed" ELSE "active",
                          range  |-> IF row.closed THEN "none" ELSE IF InRange(t, price) THEN "in" ELSE "out",
                          fees0  |-> row.liquidity * Unclaimed0(l),
                          fees1  |-> row.liquidity * Unclaimed1(l)]
  OBVIOUS
<1>7. PICK old : old = l.shown
  OBVIOUS
<1>8. PICK shown : shown = [u \in DOMAIN old \cup {t} |-> IF u = t THEN item ELSE old[u]]
  OBVIOUS
<1>9. m = [l EXCEPT !.shown = shown]
  BY <1>1, <1>3, <1>4, <1>5, <1>6, <1>7, <1>8 DEF ToResponse
<1>10. /\ m.at = l.at /\ m.wanted = l.wanted /\ m.rows = l.rows /\ m.price = l.price
       /\ m.shown = shown /\ m.since = l.since /\ m.begin = l.begin /\ m.end = l.end
       /\ m.vol = l.vol /\ m.fees = l.fees /\ Shaped(m)
  BY <1>2, <1>9 DEF RequestOk, Shaped
<1>11. OfRows(m) /\ OfPrices(m) /\ OfSums(m)
  BY <1>2, <1>10 DEF RequestOk, OfRows, OfPrices, OfSums
<1>12. price \in l.since
  BY <1>2, <1>5 DEF RequestOk, OfPrices, Current
<1>13. Unclaimed0(m) = Unclaimed0(l)
  BY <1>10 DEF Unclaimed0
<1>14. ItemOf(m, t)
  <2>1. m.shown[t] = item /\ m.rows[t] = row
    BY <1>4, <1>8, <1>10
  <2>2. item.range = IF row.closed THEN "none" ELSE IF InRange(t, price) THEN "in" ELSE "out"
    BY <1>6
  <2>3. item.status = (IF row.closed THEN "closed" ELSE "active") /\ item.fees0 = row.liquidity * Unclaimed0(m)
    BY <1>6, <1>13
  <2> QED BY <1>10, <1>12, <2>1, <2>2, <2>3 DEF ItemOf
<1>15. ASSUME NEW u \in DOMAIN l.shown PROVE ItemOf(m, u)
  <2>1. ItemOf(l, u) /\ u # t /\ m.shown[u] = l.shown[u]
    BY <1>2, <1>7, <1>8, <1>10 DEF RequestOk, OfShown
  <2> QED BY <1>10, <1>13, <2>1 DEF ItemOf
<1>16. OfShown(m)
  BY <1>2, <1>7, <1>8, <1>10, <1>14, <1>15 DEF RequestOk, OfShown
<1> QED BY <1>0, <1>3, <1>10, <1>11, <1>16, RequestMoves DEF RequestOk

LEMMA ShowKeeps == ViewsIInv /\ (ShowPositions \/ NextListing) => ViewsIInv'
<1> SUFFICES ASSUME ViewsIInv, ShowPositions \/ NextListing PROVE ViewsIInv'
  OBVIOUS
<1>0. UNCHANGED <<nftVars, priceVars, feeVars>> /\ SumsOk
  BY DEF ViewsIInv, ShowPositions, NextListing
<1>1. CASE NextListing
  BY <1>0, <1>1, RequestMoves DEF NextListing
<1>2. CASE ShowPositions
  <2>0. listing.at = "range" /\ DOMAIN listing.shown = DOMAIN listing.rows
    BY <1>2 DEF ShowPositions
  <2>1. PICK l : l = listing
    OBVIOUS
  <2>2. RequestOk(l) /\ l.at = "range" /\ DOMAIN l.shown = DOMAIN l.rows
    BY <2>0, <2>1, NoListingAt DEF ViewsIInv, ListingOk
  <2>3. PICK m : m = listing'
    OBVIOUS
  <2>4. PICK sums : sums = PoolSums
    OBVIOUS
  <2>5. m = [l EXCEPT !.at = "shown", !.end = sums]
    BY <1>2, <2>1, <2>3, <2>4 DEF ShowPositions
  <2>6. /\ m.at = "shown" /\ m.wanted = l.wanted /\ m.rows = l.rows /\ m.price = l.price
        /\ m.shown = l.shown /\ m.since = l.since /\ m.begin = l.begin /\ m.end = sums
        /\ m.vol = l.vol /\ m.fees = l.fees /\ Shaped(m)
    BY <2>2, <2>5 DEF RequestOk, Shaped
  <2>7. OfRows(m) /\ OfPrices(m)
    BY <2>2, <2>6 DEF RequestOk, OfRows, OfPrices
  <2>8. OfSums(m)
    <3>1. sums.swapped = swapped /\ sums.collected = collected /\ sums \in [swapped : Nat, collected : Nat]
      BY <1>0, <2>4 DEF PoolSums, SumsOk
    <3> QED BY <2>2, <2>6, <3>1 DEF RequestOk, OfSums
  <2>9. OfShown(m)
    <3>1. Unclaimed0(m) = Unclaimed0(l)
      BY <2>6 DEF Unclaimed0
    <3>2. \A t \in DOMAIN l.shown : ItemOf(l, t)
      BY <2>2 DEF RequestOk, OfShown
    <3>3. \A t \in DOMAIN l.shown : ItemOf(m, t)
      BY <2>6, <3>1, <3>2 DEF ItemOf
    <3> QED BY <2>2, <2>6, <3>3 DEF RequestOk, OfShown
  <2> QED BY <1>0, <2>3, <2>6, <2>7, <2>8, <2>9, RequestMoves DEF RequestOk
<1> QED BY <1>1, <1>2

(***************************************************************************)
(* Every step, and what follows                                            *)
(***************************************************************************)

LEMMA ViewsStart == PositionViewsInit => ViewsIInv
<1> SUFFICES ASSUME PositionViewsInit PROVE ViewsIInv
  OBVIOUS
<1>1. PricesOk /\ SumsOk /\ ListingOk
  BY DEF PositionViewsInit, PricesOk, SumsOk, ListingOk
<1>2. CASE onChain = <<>> /\ handled = {} /\ nftRow = [t \in Nfts |-> NoNft]
  <2>1. DOMAIN onChain = {} /\ onChain \in Seq(ChainEventType)
    BY <1>2
  <2>2. \A t \in Nfts : \A n : ~LeftBy(t, n)
    BY <2>1 DEF LeftBy, Handled, Of
  <2>3. NoNft.closed = FALSE
    BY DEF NoNft
  <2>4. EventsOk
    BY <1>2, <2>1 DEF EventsOk
  <2>5. RowsOk
    BY <1>2, <2>2, <2>3 DEF RowsOk
  <2> QED BY <1>1, <2>4, <2>5 DEF ViewsIInv
<1>3. CASE /\ onChain = [i \in 1..Cardinality(Nfts) |-> [nft |-> SetToSeq(Nfts)[i], kind |-> "mint", leaves |-> 1]]
           /\ handled = DOMAIN onChain /\ nftRow = [t \in Nfts |-> [liquidity |-> 1, closed |-> FALSE]]
  <2>1. PICK c : c = onChain
    OBVIOUS
  <2>2. /\ c \in Seq(ChainEventType) /\ \A i \in DOMAIN c : c[i].leaves = 1
        /\ \A t \in Nfts : \E i \in DOMAIN c : c[i].nft = t
    BY <1>3, <2>1, MintedBefore
  <2>3. EventsOk
    BY <1>3, <2>1, <2>2 DEF EventsOk
  <2>4. \A t \in Nfts : \A n : LeftBy(t, n) <=> n = 1
    BY <1>3, <2>1, <2>2 DEF LeftBy, Handled, Of
  <2>5. PICK r : r = [liquidity |-> 1, closed |-> FALSE]
    OBVIOUS
  <2>6. r \in NftRowType /\ r.liquidity = 1 /\ r.closed = FALSE /\ \A t \in Nfts : nftRow[t] = r
    BY <1>3, <2>5 DEF NftRowType
  <2>7. RowsOk
    <3>1. nftRow \in [Nfts -> NftRowType \cup {NoNft}]
      BY <1>3, <2>5, <2>6
    <3> QED BY <2>4, <2>6, <3>1 DEF RowsOk
  <2> QED BY <1>1, <2>3, <2>7 DEF ViewsIInv
<1> QED BY <1>2, <1>3 DEF PositionViewsInit

LEMMA ViewsStutter == ViewsIInv /\ UNCHANGED viewVars => ViewsIInv'
<1> SUFFICES ASSUME ViewsIInv, UNCHANGED viewVars PROVE ViewsIInv'
  OBVIOUS
<1>1. UNCHANGED <<nftVars, priceVars, feeVars>> /\ listing' = listing
  BY DEF viewVars
<1>2. listing' = NoListing \/ RequestOk(listing')
  BY <1>1 DEF ViewsIInv, ListingOk
<1> QED BY <1>1, <1>2, RequestMoves

LEMMA ViewsKeep == ViewsIInv /\ [PositionViewsNext]_viewVars => ViewsIInv'
<1> SUFFICES ASSUME ViewsIInv, PositionViewsNext PROVE ViewsIInv'
  BY ViewsStutter
<1>1. ASSUME NEW t \in Nfts, NEW n \in Leaves, ChainEvent(t, "mint", n) \/ ChainEvent(t, "burn", n) PROVE ViewsIInv'
  BY <1>1, ChainEventKeeps
<1>2. ASSUME NEW i \in DOMAIN onChain, HandlePositionMinted(i) \/ HandlePositionBurned(i) PROVE ViewsIInv'
  BY <1>2, UpsertKeeps
<1>3. ASSUME NEW p \in SpotPrices, PriceEvent(p) PROVE ViewsIInv'
  BY <1>3, PriceEventKeeps
<1>4. ASSUME NEW w \in {"all", "active", "closed"}, GetPositions(w) PROVE ViewsIInv'
  BY <1>4, GetKeeps
<1>5. ASSUME NEW t \in Nfts, ToResponse(t) PROVE ViewsIInv'
  BY <1>5, ToResponseKeeps
<1> QED BY <1>1, <1>2, <1>3, <1>4, <1>5, SumsKeep, PriceCacheKeeps, AnswersKeep, SnapshotsKeep, ShowKeeps
        DEF PositionViewsNext

LEMMA ClosedRight == ViewsIInv => ClosedIffEmptied
<1> SUFFICES ASSUME ViewsIInv, NEW t \in Nfts
             PROVE  /\ nftRow[t].closed <=> Emptied(t)
                    /\ Handled(t) = Of(t) /\ Of(t) # {} /\ ~Refilled(t) => (nftRow[t].closed <=> Left(t) = 0)
  BY DEF ClosedIffEmptied
<1>1. nftRow[t].closed <=> Emptied(t)
  BY DEF ViewsIInv, RowsOk, Emptied, LeftBy
<1>2. ASSUME Handled(t) = Of(t), Of(t) # {}, ~Refilled(t) PROVE Emptied(t) <=> Left(t) = 0
  <2>1. PICK n \in Nat : n = Len(onChain) /\ DOMAIN onChain = 1..n
    BY DEF ViewsIInv, EventsOk
  <2>2. Of(t) \in SUBSET (1..n)
    BY <2>1 DEF Of
  <2>3. PICK last \in 1..n : last = Max(Of(t)) /\ last \in Of(t) /\ \A i \in Of(t) : i <= last
    BY <1>2, <2>2, MaxOf
  <2>4. Left(t) = onChain[last].leaves
    BY <1>2, <2>3 DEF Left
  <2>5. \A i \in Of(t) : onChain[i].leaves = 0 => i = last
    BY <1>2, <2>2, <2>3 DEF Refilled
  <2> QED BY <1>2, <2>3, <2>4, <2>5 DEF Emptied
<1> QED BY <1>1, <1>2

LEMMA ShownOk == ASSUME ViewsIInv, listing.at = "shown", NEW l, l = listing
                 PROVE  RequestOk(l) /\ DOMAIN l.shown = DOMAIN l.rows /\ \A t \in DOMAIN l.rows : ItemOf(l, t)
<1>1. RequestOk(l)
  BY NoListingAt DEF ViewsIInv, ListingOk
<1> QED BY <1>1 DEF RequestOk, OfShown

LEMMA ListsRight == ViewsIInv => ListsPartition
<1> SUFFICES ASSUME ViewsIInv, listing.at = "shown", NEW t \in DOMAIN listing.rows
             PROVE  /\ listing.wanted \in {"all", listing.shown[t].status}
                    /\ \E i \in Handled(t) : onChain[i].leaves = listing.rows[t].liquidity
                    /\ listing.shown[t].status = "closed" <=> listing.shown[t].range = "none"
  BY DEF ListsPartition
<1>1. PICK l : l = listing
  OBVIOUS
<1>2. RequestOk(l) /\ ItemOf(l, t) /\ t \in DOMAIN l.rows
  BY <1>1, ShownOk
<1>3. PICK row : row = l.rows[t] /\ row \in NftRowType /\ Wanted(l.wanted, row) /\ LeftBy(t, row.liquidity)
  BY <1>2 DEF RequestOk, OfRows
<1>4. /\ l.shown[t].status = (IF row.closed THEN "closed" ELSE "active")
      /\ row.closed => l.shown[t].range = "none"
      /\ ~row.closed => l.shown[t].range \in {"in", "out"}
  BY <1>2, <1>3 DEF ItemOf
<1> QED BY <1>1, <1>3, <1>4 DEF Wanted, LeftBy

LEMMA RangeRight == ViewsIInv => RangeOfTheTime
<1> SUFFICES ASSUME ViewsIInv, listing.at = "shown" PROVE RangeOfTheTime
  BY DEF RangeOfTheTime
<1>1. PICK l : l = listing
  OBVIOUS
<1>2. RequestOk(l) /\ DOMAIN l.shown = DOMAIN l.rows /\ \A t \in DOMAIN l.rows : ItemOf(l, t) /\ t \in Nfts
  BY <1>1, ShownOk DEF RequestOk, OfRows
<1>3. ASSUME NEW t \in DOMAIN l.shown, l.shown[t].range # "none"
      PROVE  \E p \in l.since : l.shown[t].range = (IF InRange(t, p) THEN "in" ELSE "out")
  BY <1>2, <1>3 DEF ItemOf
<1>4. ASSUME NEW t \in DOMAIN l.shown, NEW u \in DOMAIN l.shown, RangeOfNft[t].upper <= RangeOfNft[u].lower,
             l.shown[t].range = "in", l.shown[u].range = "in"
      PROVE  Cardinality(l.since) > 1
  <2>1. l.shown[t].range # "none" /\ l.shown[u].range # "none"
    BY <1>4
  <2>2. PICK p \in l.since : InRange(t, p)
    BY <1>3, <1>4, <2>1
  <2>3. PICK q \in l.since : InRange(u, q)
    BY <1>3, <1>4, <2>1
  <2>4. IsFiniteSet(l.since) /\ p \in Nat /\ q \in Nat
    BY <1>2 DEF RequestOk, OfPrices
  <2>5. t \in Nfts /\ u \in Nfts
    BY <1>2
  <2>6. /\ RangeOfNft[t].lower \in Nat /\ RangeOfNft[t].upper \in Nat
        /\ RangeOfNft[u].lower \in Nat /\ RangeOfNft[u].upper \in Nat
    BY <2>5, PositionViewsAssumption
  <2>7. p # q
    BY <1>4, <2>2, <2>3, <2>4, <2>6 DEF InRange
  <2>8. PICK S : S = l.since \ {p}
    OBVIOUS
  <2>9. IsFiniteSet(S) /\ Cardinality(S) = Cardinality(l.since) - 1
    BY <2>4, <2>8, FS_RemoveElement
  <2>10. Cardinality(S) \in Nat /\ Cardinality(l.since) \in Nat
    BY <2>4, <2>9, FS_CardinalityType
  <2>11. q \in S
    BY <2>3, <2>7, <2>8
  <2>12. Cardinality(S) # 0
    BY <2>9, <2>11, FS_EmptySet
  <2> QED BY <2>9, <2>10, <2>12
<1>5. ASSUME NEW t \in DOMAIN l.shown, l.shown[t].range # "none"
      PROVE  \E p \in l.since : (l.shown[t].range = "in") = InRange(t, p)
  <2>1. PICK p \in l.since : l.shown[t].range = (IF InRange(t, p) THEN "in" ELSE "out")
    BY <1>3, <1>5
  <2>2. InRange(t, p) \in BOOLEAN
    BY DEF InRange
  <2> QED BY <2>1, <2>2
<1>6. ASSUME NEW t \in DOMAIN listing.shown, NEW u \in DOMAIN listing.shown,
             RangeOfNft[t].upper <= RangeOfNft[u].lower, {listing.shown[v].range : v \in {t, u}} = {"in"}
      PROVE  Cardinality(listing.since) > 1
  <2>1. listing.shown[t].range = "in" /\ listing.shown[u].range = "in"
    BY <1>6
  <2> QED BY <1>1, <1>4, <1>6, <2>1
<1>7. \A t \in DOMAIN listing.shown :
        listing.shown[t].range # "none" => \E p \in listing.since : (listing.shown[t].range = "in") = InRange(t, p)
  BY <1>1, <1>5
<1> QED BY <1>6, <1>7 DEF RangeOfTheTime

LEMMA FeesRight == ViewsIInv => FeesOfTheTime
<1> SUFFICES ASSUME ViewsIInv, listing.at = "shown", NEW t \in DOMAIN listing.shown
             PROVE  /\ listing.shown[t].fees0 <= listing.rows[t].liquidity * (listing.end.swapped - listing.begin.collected)
                    /\ listing.shown[t].fees0 >= listing.rows[t].liquidity * (listing.begin.swapped - listing.end.collected)
  BY DEF FeesOfTheTime
<1>1. PICK l : l = listing
  OBVIOUS
<1>2. RequestOk(l) /\ ItemOf(l, t) /\ t \in DOMAIN l.rows /\ l.at = "shown"
  BY <1>1, ShownOk
<1>3. PICK liq \in Nat : liq = l.rows[t].liquidity
  BY <1>2 DEF RequestOk, OfRows, NftRowType
<1>4. PICK bs \in Nat, bc \in Nat, es \in Nat, ec \in Nat :
        bs = l.begin.swapped /\ bc = l.begin.collected /\ es = l.end.swapped /\ ec = l.end.collected
  BY <1>2 DEF RequestOk, OfSums
<1>5. PICK v \in Nat, c \in Nat : v = l.vol /\ c = l.fees
  BY <1>2 DEF RequestOk, OfSums
<1>6. bc <= bs /\ bs <= v /\ v <= es /\ bc <= c /\ c <= ec
  BY <1>2, <1>4, <1>5 DEF RequestOk, OfSums, NotYet
<1>7. PICK unpaid \in Nat : unpaid = Unclaimed0(l) /\ unpaid = (IF v > c THEN v - c ELSE 0)
  BY <1>5 DEF Unclaimed0
<1>8. PICK most \in Int, least \in Int : most = es - bc /\ least = bs - ec
  OBVIOUS
<1>9. unpaid <= most /\ least <= unpaid
  BY <1>6, <1>7, <1>8
<1>10. unpaid * liq <= most * liq /\ least * liq <= unpaid * liq
  BY <1>9, TimesGrows
<1>11. unpaid * liq = liq * unpaid /\ most * liq = liq * most /\ least * liq = liq * least
  OBVIOUS
<1>12. l.shown[t].fees0 = liq * unpaid
  BY <1>2, <1>3, <1>7 DEF ItemOf
<1>13. liq * unpaid <= liq * most /\ liq * least <= liq * unpaid
  BY <1>10, <1>11
<1>14. PICK x \in Int, y \in Int, z \in Int : x = liq * unpaid /\ y = liq * most /\ z = liq * least
  OBVIOUS
<1>15. x <= y /\ z <= x
  BY <1>13, <1>14
<1> QED BY <1>1, <1>3, <1>4, <1>8, <1>12, <1>14, <1>15

LEMMA ViewsRight == ViewsIInv => PositionViewsInv
BY ClosedRight, ListsRight, RangeRight, FeesRight DEF PositionViewsInv

(* GET /positions: the two lists partition the positions of the wallet by whether an event that was *)
(* handled emptied them, the range is that of a price of the request, and the fees are no more and   *)
(* no less than was due at moments of it, whatever the positions, the prices and the order of       *)
(* events, jobs and reads (positions.service.ts, positions.repository.ts, position.handler.ts).     *)
THEOREM ViewsSound == PositionViewsInit /\ [][PositionViewsNext]_viewVars => []PositionViewsInv
<1>1. PositionViewsInit => ViewsIInv
  BY ViewsStart
<1>2. ViewsIInv /\ [PositionViewsNext]_viewVars => ViewsIInv'
  BY ViewsKeep
<1>3. ViewsIInv => PositionViewsInv
  BY ViewsRight
<1> QED BY <1>1, <1>2, <1>3, PTL

-----------------------------------------------------------------------------
(* The paged feeds.  Until a row that was there when a walk began is shown, as many rows are ahead of *)
(* it as the pages before had: a row that is added may push it back, and nothing moves it forward   *)
(* that is not an excuse.                                                                        *)

FeedRowType == [id : FeedRows, type : Types, time : Nat, open : BOOLEAN, rank : Nat]
WalkPlaces  == {"idle", "asked", "counted", "items", "between", "done", "merging", "loaded"}
WalkType    == [at : WalkPlaces, page : PageNos, total : Nat, got : SUBSET FeedRowType, read : SUBSET Types]

FeedRowsOk ==
  /\ IsFiniteSet(rows) /\ rows \subseteq FeedRowType /\ dueRows \subseteq Ids(rows)
  /\ \A q, r \in rows : q.id = r.id => q = r
  /\ \A r \in rows, n \in FeedRows : n < r.id => n \in Ids(rows)
  /\ feed # "swaps" => \A r \in rows : r.time = r.id

WalkTyped ==
  /\ walkAt \in WalkType
  /\ walkAt.at = "counted" => feed \in {"swaps", "positions", "bulk"}
  /\ walkAt.at = "items" => feed = "bulk"
  /\ walkAt.at = "loaded" => feed = "pools"
  /\ walkAt.at = "loaded" <=> loading # NoList
  /\ walkAt.at = "merging" => feed = "activity"
  /\ walkAt.read # {} => walkAt.at = "merging"

(* The rows ahead of a row in a list, and in what a page will be cut from: of the activity that is   *)
(* what was fetched of a type, or would be now.                                                  *)
AheadIn(S, r) == {q \in S : Precedes(q, r)}
NewerIn(S, r) == {q \in S : q.time > r.time}
OfType(type)  == {r \in rows : r.type = type}
Fetched(type) == IF type \in walkAt.read THEN {q \in walkAt.got : q.type = type} ELSE Newest(OfType(type), FetchCap)
AheadOf(r) ==
  IF feed = "activity"
  THEN Cardinality(NewerIn(Fetched("mint"), r)) + Cardinality(NewerIn(Fetched("burn"), r))
  ELSE Cardinality(AheadIn(Matching, r))

PagesSeen == IF walkAt.at = "between" THEN walkAt.page ELSE walkAt.page - 1

Excused(r) ==
  CASE feed = "swaps"     -> "raced" \in excuses \/ \E q \in rows : q.id # r.id /\ q.time = r.time
    [] feed = "positions" -> excuses \cap {"raced", "closed"} # {}
    [] feed = "activity"  -> Cardinality(NewerIn(OfType(r.type), r)) >= FetchCap
    [] OTHER              -> excuses \cap {"reranked", "outdated"} # {}

Owed(r) == r \in Matching /\ r.id \in dueRows /\ r.id \notin shownRows /\ ~Excused(r)

WalkOk ==
  feed # "bulk" =>
    \A r \in rows : Owed(r) =>
      /\ walkAt.at # "done"
      /\ Walking => PagesSeen * FeedLimit <= AheadOf(r)
      /\ walkAt.at = "loaded" => \/ r.id \in loading.ids
                                 \/ walkAt.page * FeedLimit <= AheadOf(r) /\ walkAt.page * FeedLimit < loading.total

CountOk ==
  walkAt.at = "counted" =>
    \/ walkAt.total = Cardinality(Matching) \/ "raced" \in excuses
    \/ feed # "swaps" /\ "closed" \in excuses

FetchedOk ==
  feed = "activity" =>
    /\ walkAt.got \subseteq rows /\ \A q \in walkAt.got : q.type \in walkAt.read
    /\ \A type \in walkAt.read, r \in rows :
         Cardinality(NewerIn(Fetched(type), r)) <= Cardinality(NewerIn(Newest(OfType(type), FetchCap), r))
    /\ \A r \in rows : Owed(r) /\ r.type \in walkAt.read => r \in walkAt.got

ItemsOk == walkAt.at = "items" => excuses # {} \/ walkAt.got = Newest(Matching, FetchCap)

ListOk(l, p) ==
  l # NoList =>
    /\ l = [ids |-> l.ids, total |-> l.total, price |-> l.price, outdated |-> l.outdated, missed |-> l.missed]
    /\ feed = "pools" /\ l.total \in Nat /\ l.outdated \in BOOLEAN
    /\ ~l.outdated => l.total = Cardinality(Matching) /\ \E s \in Orders(Matching) : l.ids = PageOf(s, p)
    /\ l.price = listPrice \/ updating \/ l.missed

ListsOk ==
  /\ listCache = [p \in PageNos |-> listCache[p]]
  /\ \A p \in PageNos : ListOk(listCache[p], p)
  /\ ListOk(loading, walkAt.page)

FeedIInv == FeedRowsOk /\ WalkTyped /\ WalkOk /\ CountOk /\ FetchedOk /\ ItemsOk /\ BulkAddsUp /\ ListsOk

(***************************************************************************)
(* Pages of a list, and the newest of a set                                *)
(***************************************************************************)

(* The index of a row in an ordered list is the number of rows ahead of it. *)
LEMMA RowsAhead ==
  ASSUME NEW S, IsFiniteSet(S), NEW s \in Orders(S), NEW r \in S,
         ~Precedes(r, r), \A q \in S : q # r => (Precedes(q, r) <=> ~Precedes(r, q))
  PROVE  \E n \in Nat : \E j \in 1..n :
           /\ n = Cardinality(S) /\ DOMAIN s = 1..n /\ s[j] = r /\ Cardinality(AheadIn(S, r)) = j - 1
           /\ \A i \in 1..n : s[i] \in S /\ \A k \in 1..n : i # k => s[i] # s[k]
<1>1. PICK n \in Nat : n = Cardinality(S)
  BY FS_CardinalityType
<1>2. s \in [1..n -> S] /\ (\A i, k \in 1..n : i # k => s[i] # s[k]) /\ (\A i, k \in 1..n : i < k => ~Precedes(s[k], s[i]))
  BY <1>1 DEF Orders, SetToSeqs
<1>3. s \in Injection(1..n, S)
  BY <1>2 DEF Injection, IsInjective
<1>4. Cardinality(1..n) = n
  BY FS_Interval
<1>5. s \in Surjection(1..n, S)
  BY <1>1, <1>3, <1>4, FS_Injection
<1>6. PICK j \in 1..n : s[j] = r
  BY <1>5 DEF Surjection
<1>7. PICK A : A = AheadIn(S, r)
  OBVIOUS
<1>8. \A i \in 1..n : s[i] \in A <=> i < j
  <2> SUFFICES ASSUME NEW i \in 1..n PROVE s[i] \in A <=> i < j
    OBVIOUS
  <2>1. i = j => s[i] \notin A
    BY <1>6, <1>7 DEF AheadIn
  <2>2. i < j => s[i] \in A
    BY <1>2, <1>6, <1>7 DEF AheadIn
  <2>3. j < i => s[i] \notin A
    BY <1>2, <1>6, <1>7 DEF AheadIn
  <2> QED BY <2>1, <2>2, <2>3
<1>9. PICK m \in Nat : m = j - 1
  OBVIOUS
<1>10. PICK f : f = [i \in 1..m |-> s[i]]
  OBVIOUS
<1>11. \A i \in 1..m : i \in 1..n /\ i < j
  BY <1>9
<1>12. f \in [1..m -> A] /\ \A i, k \in 1..m : f[i] = f[k] => i = k
  BY <1>2, <1>8, <1>10, <1>11
<1>13. \A q \in A : \E i \in 1..m : f[i] = q
  <2> SUFFICES ASSUME NEW q \in A PROVE \E i \in 1..m : f[i] = q
    OBVIOUS
  <2>1. PICK i \in 1..n : s[i] = q
    BY <1>5, <1>7 DEF Surjection, AheadIn
  <2>2. i \in 1..m
    BY <1>8, <1>9, <2>1
  <2> QED BY <1>10, <2>1, <2>2
<1>14. ExistsBijection(1..m, A)
  <2>1. f \in Bijection(1..m, A)
    BY <1>12, <1>13 DEF Bijection, Injection, Surjection, IsInjective
  <2> QED BY <2>1 DEF ExistsBijection
<1>15. Cardinality(A) = m
  BY <1>14, FS_CountingElements
<1> QED BY <1>1, <1>2, <1>6, <1>7, <1>9, <1>15

(* A row that the pages before did not have is on the page, or the page is full of rows ahead of it. *)
LEMMA PageTaken ==
  ASSUME NEW S, IsFiniteSet(S), NEW s \in Orders(S), NEW r \in S,
         \A q, u \in S : q.id = u.id => q = u,
         ~Precedes(r, r), \A q \in S : q # r => (Precedes(q, r) <=> ~Precedes(r, q)),
         NEW p \in Nat \ {0}, (p - 1) * FeedLimit <= Cardinality(AheadIn(S, r))
  PROVE  \/ r.id \in PageOf(s, p)
         \/ /\ p * FeedLimit <= Cardinality(AheadIn(S, r)) /\ p * FeedLimit < Cardinality(S)
            /\ Cardinality(PageOf(s, p)) = FeedLimit
<1>0. PICK n \in Nat : \E j \in 1..n :
        /\ n = Cardinality(S) /\ DOMAIN s = 1..n /\ s[j] = r /\ Cardinality(AheadIn(S, r)) = j - 1
        /\ \A i \in 1..n : s[i] \in S /\ \A k \in 1..n : i # k => s[i] # s[k]
  BY RowsAhead
<1>1. PICK j \in 1..n :
        /\ n = Cardinality(S) /\ DOMAIN s = 1..n /\ s[j] = r /\ Cardinality(AheadIn(S, r)) = j - 1
        /\ \A i \in 1..n : s[i] \in S /\ \A k \in 1..n : i # k => s[i] # s[k]
  BY <1>0
<1>2. PICK L \in Nat \ {0} : L = FeedLimit
  BY FeedAssumption
<1>3. PICK x \in Nat : x = (p - 1) * L
  <2>1. PICK y \in Nat : y = p - 1
    OBVIOUS
  <2>2. y * L \in Nat
    BY <1>2
  <2> QED BY <2>1, <2>2
<1>4. p * L = x + L
  BY <1>2, <1>3
<1>5. x < j
  BY <1>1, <1>2, <1>3
<1>6. PICK I : I = {i \in 1..n : x < i /\ i <= x + L}
  OBVIOUS
<1>7. PageOf(s, p) = Ids({s[i] : i \in I})
  BY <1>1, <1>2, <1>3, <1>6 DEF PageOf, FirstOf
<1>8. PICK P : P = PageOf(s, p)
  OBVIOUS
<1>9. P = {s[i].id : i \in I}
  BY <1>7, <1>8 DEF Ids
<1>10. CASE j <= x + L
  <2>1. j \in I
    BY <1>1, <1>5, <1>6, <1>10
  <2> QED BY <1>1, <1>8, <1>9, <2>1
<1>11. CASE x + L < j
  <2>1. \A i \in 1..L : x + i \in I /\ x + i \in 1..n
    BY <1>1, <1>2, <1>6, <1>11
  <2>2. PICK f : f = [i \in 1..L |-> s[x + i].id]
    OBVIOUS
  <2>3. f \in [1..L -> P]
    BY <1>9, <2>1, <2>2
  <2>4. ASSUME NEW i \in 1..L, NEW k \in 1..L, f[i] = f[k] PROVE i = k
    <3>1. PICK a \in 1..n, b \in 1..n : a = x + i /\ b = x + k
      BY <2>1
    <3>2. s[a].id = s[b].id
      BY <2>2, <2>4, <3>1
    <3>3. s[a] = s[b]
      BY <1>1, <3>2
    <3>4. a = b
      BY <1>1, <3>3
    <3> QED BY <3>1, <3>4
  <2>5. ASSUME NEW id \in P PROVE \E k \in 1..L : f[k] = id
    <3>1. PICK i \in I : id = s[i].id
      BY <1>9
    <3>2. PICK k \in 1..L : i = x + k
      <4>1. i - x \in 1..L /\ i = x + (i - x)
        BY <1>2, <1>6
      <4> QED BY <4>1
    <3> QED BY <2>2, <3>1, <3>2
  <2>6. f \in Bijection(1..L, P)
    BY <2>3, <2>4, <2>5 DEF Bijection, Injection, Surjection, IsInjective
  <2>7. Cardinality(P) = L
    BY <2>6, FS_CountingElements DEF ExistsBijection
  <2> QED BY <1>1, <1>2, <1>4, <1>8, <1>11, <2>7
<1> QED BY <1>1, <1>2, <1>3, <1>10, <1>11

(* Of the newest rows of a set at most one is not among them any more when a newer one is added. *)
LEMMA OneDropsOut ==
  ASSUME NEW S, IsFiniteSet(S), NEW c \in Nat \ {0}, NEW x, x.time \in Nat,
         \A q \in S : q.time \in Nat /\ q.time < x.time, \A q, r \in S : q.time = r.time => q = r
  PROVE  /\ x \in Newest(S \cup {x}, c)
         /\ \E y : \A q \in Newest(S, c) : q # y => q \in Newest(S \cup {x}, c)
<1>1. PICK T : T = S \cup {x}
  OBVIOUS
<1>2. x \in Newest(T, c)
  <2>1. {q \in T : q.time > x.time} = {}
    BY <1>1
  <2>2. Cardinality({q \in T : q.time > x.time}) = 0
    BY <2>1, FS_EmptySet
  <2> QED BY <1>1, <2>2 DEF Newest
<1>3. \A r \in S : IsFiniteSet(NewerIn(S, r)) /\ Cardinality(NewerIn(S, r)) \in Nat
  <2> SUFFICES ASSUME NEW r \in S PROVE IsFiniteSet(NewerIn(S, r)) /\ Cardinality(NewerIn(S, r)) \in Nat
    OBVIOUS
  <2>1. NewerIn(S, r) \in SUBSET S
    BY DEF NewerIn
  <2>2. IsFiniteSet(NewerIn(S, r))
    BY <2>1, FS_Subset
  <2> QED BY <2>2, FS_CardinalityType
<1>4. ASSUME NEW r \in S PROVE Cardinality(NewerIn(T, r)) = Cardinality(NewerIn(S, r)) + 1
  <2>1. NewerIn(T, r) = NewerIn(S, r) \cup {x} /\ x \notin NewerIn(S, r)
    BY <1>1 DEF NewerIn
  <2> QED BY <1>3, <2>1, FS_AddElement
<1>5. \A q : /\ q \in Newest(S, c) <=> q \in S /\ Cardinality(NewerIn(S, q)) < c
             /\ q \in Newest(T, c) <=> q \in T /\ Cardinality(NewerIn(T, q)) < c
  BY DEF Newest, NewerIn
<1>6. ASSUME NEW a \in S, NEW b \in S, Cardinality(NewerIn(S, a)) = Cardinality(NewerIn(S, b)), a.time > b.time
      PROVE  FALSE
  <2>1. PICK A : A = NewerIn(S, a)
    OBVIOUS
  <2>2. PICK B : B = NewerIn(S, b)
    OBVIOUS
  <2>3. A \in SUBSET B /\ a \in B /\ a \notin A
    BY <1>6, <2>1, <2>2 DEF NewerIn
  <2>4. IsFiniteSet(B) /\ Cardinality(B) = Cardinality(A)
    BY <1>3, <1>6, <2>1, <2>2
  <2> QED BY <2>3, <2>4, FS_Subset
<1>7. \A a, b \in S : Cardinality(NewerIn(S, a)) = Cardinality(NewerIn(S, b)) => a = b
  <2> SUFFICES ASSUME NEW a \in S, NEW b \in S, Cardinality(NewerIn(S, a)) = Cardinality(NewerIn(S, b)) PROVE a = b
    OBVIOUS
  <2>1. a.time = b.time
    BY <1>6
  <2> QED BY <2>1
<1>8. ASSUME NEW q \in Newest(S, c), q \notin Newest(T, c) PROVE q \in S /\ Cardinality(NewerIn(S, q)) = c - 1
  <2>1. q \in S /\ q \in T /\ Cardinality(NewerIn(S, q)) < c
    BY <1>1, <1>5, <1>8
  <2>2. PICK k \in Nat : k = Cardinality(NewerIn(S, q)) /\ Cardinality(NewerIn(T, q)) = k + 1
    BY <1>3, <1>4, <2>1
  <2>3. ~(k + 1 < c)
    BY <1>5, <1>8, <2>1, <2>2
  <2>4. k = c - 1
    BY <2>1, <2>2, <2>3
  <2> QED BY <2>1, <2>2, <2>4
<1>9. \E y : \A q \in Newest(S, c) : q # y => q \in Newest(T, c)
  <2>1. CASE \E y \in Newest(S, c) : y \notin Newest(T, c)
    <3>1. PICK y \in Newest(S, c) : y \notin Newest(T, c)
      BY <2>1
    <3>2. \A q \in Newest(S, c) : q # y => q \in Newest(T, c)
      BY <1>7, <1>8, <3>1
    <3> QED BY <3>2
  <2>2. CASE ~ \E y \in Newest(S, c) : y \notin Newest(T, c)
    BY <2>2
  <2> QED BY <2>1, <2>2
<1> QED BY <1>1, <1>2, <1>9

LEMMA NewestGrows ==
  ASSUME NEW S, IsFiniteSet(S), NEW c \in Nat \ {0}, NEW x, x.time \in Nat,
         \A q \in S : q.time \in Nat /\ q.time < x.time, \A q, r \in S : q.time = r.time => q = r,
         NEW t \in Nat, NEW r, r.time = t, t < x.time
  PROVE  Cardinality(NewerIn(Newest(S, c), r)) <= Cardinality(NewerIn(Newest(S \cup {x}, c), r))
<1>1. PICK y : x \in Newest(S \cup {x}, c) /\ \A q \in Newest(S, c) : q # y => q \in Newest(S \cup {x}, c)
  BY OneDropsOut
<1>2. PICK A : A = NewerIn(Newest(S, c), r)
  OBVIOUS
<1>3. PICK B : B = NewerIn(Newest(S \cup {x}, c), r)
  OBVIOUS
<1>4. A \in SUBSET S /\ B \in SUBSET (S \cup {x}) /\ x \notin A
  BY <1>2, <1>3 DEF NewerIn, Newest
<1>5. IsFiniteSet(A) /\ IsFiniteSet(B) /\ Cardinality(A) \in Nat /\ Cardinality(B) \in Nat
  <2>1. IsFiniteSet(S \cup {x})
    BY FS_AddElement
  <2>2. IsFiniteSet(A) /\ IsFiniteSet(B)
    BY <1>4, <2>1, FS_Subset
  <2> QED BY <2>2, FS_CardinalityType
<1>6. PICK C : C = (A \ {y}) \cup {x}
  OBVIOUS
<1>7. C \in SUBSET B
  BY <1>1, <1>2, <1>3, <1>6 DEF NewerIn
<1>8. Cardinality(A) <= Cardinality(C)
  <2>1. PICK D : D = A \ {y}
    OBVIOUS
  <2>2. IsFiniteSet(D) /\ Cardinality(D) \in {Cardinality(A), Cardinality(A) - 1} /\ x \notin D
    BY <1>4, <1>5, <2>1, FS_RemoveElement
  <2>3. Cardinality(C) = Cardinality(D) + 1
    BY <1>6, <2>1, <2>2, FS_AddElement
  <2> QED BY <1>5, <2>2, <2>3
<1>9. Cardinality(C) <= Cardinality(B) /\ Cardinality(C) \in Nat
  <2>1. IsFiniteSet(C) /\ Cardinality(C) <= Cardinality(B)
    BY <1>5, <1>7, FS_Subset
  <2> QED BY <2>1, FS_CardinalityType
<1> QED BY <1>2, <1>3, <1>5, <1>8, <1>9

(* Rows of a set that is not more than the cap are all of them among the newest. *)
LEMMA AllAreNewest ==
  ASSUME NEW S, IsFiniteSet(S), NEW c \in Nat, Cardinality(S) <= c, \A q \in S : q.time \in Nat
  PROVE  Newest(S, c) = S
<1>1. ASSUME NEW r \in S PROVE r \in Newest(S, c)
  <2>1. PICK A : A = {q \in S : q.time > r.time}
    OBVIOUS
  <2>2. A \in SUBSET S /\ r \notin A
    BY <2>1
  <2>3. IsFiniteSet(A) /\ Cardinality(A) <= Cardinality(S) /\ Cardinality(A) # Cardinality(S)
    BY <2>2, FS_Subset
  <2>4. Cardinality(A) \in Nat /\ Cardinality(S) \in Nat
    BY <2>3, FS_CardinalityType
  <2> QED BY <2>1, <2>3, <2>4 DEF Newest
<1> QED BY <1>1 DEF Newest

(***************************************************************************)
(* What stands when the rows do                                            *)
(***************************************************************************)

LEMMA PagesAre == PageNos \subseteq Nat \ {0} /\ 1 \in PageNos
<1>1. Cardinality(FeedRows) \in Nat /\ Cardinality(FeedRows) # 0
  BY FeedAssumption, FS_CardinalityType, FS_EmptySet
<1> QED BY <1>1 DEF PageNos

LEMMA RowsFrame ==
  ASSUME UNCHANGED <<feed, rows>>
  PROVE  /\ Matching' = Matching
         /\ \A type : OfType(type)' = OfType(type)
         /\ \A S, r : AheadIn(S, r)' = AheadIn(S, r)
         /\ \A S : Orders(S)' = Orders(S)
<1>1. Matching' = Matching
  BY DEF Matching
<1>2. \A type : OfType(type)' = OfType(type)
  BY DEF OfType
<1>3. \A a, b : Precedes(a, b)' <=> Precedes(a, b)
  BY DEF Precedes
<1>4. \A S, r : AheadIn(S, r)' = AheadIn(S, r)
  BY <1>3 DEF AheadIn
<1>5. \A S : Orders(S)' = Orders(S)
  BY <1>3 DEF Orders
<1> QED BY <1>1, <1>2, <1>4, <1>5

LEMMA ExcusedFrame ==
  ASSUME UNCHANGED <<feed, rows>>, excuses \subseteq excuses', NEW r, Excused(r)
  PROVE  Excused(r)'
<1>1. OfType(r.type)' = OfType(r.type)
  BY DEF OfType
<1> QED BY <1>1 DEF Excused

LEMMA MatchingFinite == ASSUME FeedRowsOk PROVE IsFiniteSet(Matching) /\ Matching \subseteq rows /\ Cardinality(Matching) \in Nat
<1>1. Matching \in SUBSET rows
  BY DEF Matching
<1>2. IsFiniteSet(Matching)
  BY <1>1, FS_Subset DEF FeedRowsOk
<1> QED BY <1>1, <1>2, FS_CardinalityType

LEMMA NewerFinite == ASSUME NEW S, IsFiniteSet(S), NEW r PROVE IsFiniteSet(NewerIn(S, r)) /\ Cardinality(NewerIn(S, r)) \in Nat
<1>1. NewerIn(S, r) \in SUBSET S
  BY DEF NewerIn
<1>2. IsFiniteSet(NewerIn(S, r))
  BY <1>1, FS_Subset
<1> QED BY <1>2, FS_CardinalityType

LEMMA NewestFinite == ASSUME NEW S, IsFiniteSet(S), NEW c PROVE IsFiniteSet(Newest(S, c)) /\ Newest(S, c) \subseteq S
<1>1. Newest(S, c) \in SUBSET S
  BY DEF Newest
<1> QED BY <1>1, FS_Subset

LEMMA TypeFinite == ASSUME FeedRowsOk, NEW type PROVE IsFiniteSet(OfType(type)) /\ OfType(type) \subseteq rows
<1>1. OfType(type) \in SUBSET rows
  BY DEF OfType
<1> QED BY <1>1, FS_Subset DEF FeedRowsOk

(* Nothing but what is loaded into the cache and taken out of it. *)
LEMMA WalkStays ==
  ASSUME FeedIInv, UNCHANGED <<feed, rows, walkAt, shownRows, dueRows, excuses>>, ListsOk',
         NEW l, l = loading, NEW m, m = loading', m = NoList <=> l = NoList,
         l # NoList => m.ids = l.ids /\ m.total = l.total
  PROVE  FeedIInv'
<1>1. FeedRowsOk'
  BY DEF FeedIInv, FeedRowsOk
<1>2. WalkTyped'
  BY DEF FeedIInv, WalkTyped
<1>3. \A r : AheadOf(r)' = AheadOf(r)
  BY RowsFrame DEF AheadOf, Fetched
<1>4. \A r : Owed(r)' => Owed(r)
  BY RowsFrame, ExcusedFrame DEF Owed
<1>5. WalkOk'
  BY <1>3, <1>4 DEF FeedIInv, WalkOk, WalkTyped, PagesSeen, Walking
<1>6. CountOk'
  BY RowsFrame DEF FeedIInv, CountOk
<1>7. FetchedOk'
  <2>1. \A type : Fetched(type)' = Fetched(type)
    BY RowsFrame DEF Fetched
  <2> QED BY <1>4, <2>1, RowsFrame DEF FeedIInv, FetchedOk
<1>8. ItemsOk' /\ BulkAddsUp'
  BY RowsFrame DEF FeedIInv, ItemsOk, BulkAddsUp
<1> QED BY <1>1, <1>2, <1>5, <1>6, <1>7, <1>8 DEF FeedIInv

(***************************************************************************)
(* The lists of pools                                                      *)
(***************************************************************************)

LEMMA ListIsSome ==
  ASSUME NEW l, NEW i, NEW t, NEW c, NEW o, NEW m, l = [ids |-> i, total |-> t, price |-> c, outdated |-> o, missed |-> m]
  PROVE  l # NoList
<1>1. "ids" \in DOMAIN l
  OBVIOUS
<1> QED BY <1>1 DEF NoList

LEMMA ListStays ==
  ASSUME UNCHANGED <<feed, rows, listPrice, updating>>, NEW l, NEW p, ListOk(l, p)
  PROVE  ListOk(l, p)'
BY RowsFrame DEF ListOk

LEMMA OldKeeps ==
  ASSUME UNCHANGED <<feed, listPrice, updating>>, NEW l, NEW p, ListOk(l, p), NEW m, m = Old(l)
  PROVE  /\ ListOk(m, p)'
         /\ m = NoList <=> l = NoList
         /\ l # NoList => m.ids = l.ids /\ m.total = l.total
<1>1. CASE l = NoList
  BY <1>1 DEF Old, ListOk
<1>2. CASE l # NoList
  <2>1. /\ l = [ids |-> l.ids, total |-> l.total, price |-> l.price, outdated |-> l.outdated, missed |-> l.missed]
        /\ feed = "pools" /\ l.total \in Nat /\ (l.price = listPrice \/ updating \/ l.missed)
    BY <1>2 DEF ListOk
  <2>2. m = [ids |-> l.ids, total |-> l.total, price |-> l.price, outdated |-> TRUE, missed |-> l.missed]
    BY <1>2, <2>1 DEF Old
  <2>3. m # NoList
    BY <2>2, ListIsSome
  <2>4. m.ids = l.ids /\ m.total = l.total /\ m.price = l.price /\ m.outdated = TRUE /\ m.missed = l.missed
    BY <2>2
  <2>5. ListOk(m, p)'
    BY <2>1, <2>2, <2>4 DEF ListOk
  <2> QED BY <1>2, <2>3, <2>4, <2>5
<1> QED BY <1>1, <1>2

LEMMA MissKeeps ==
  ASSUME UNCHANGED <<feed, rows>>, NEW l, NEW p, ListOk(l, p), NEW m, m = Miss(l)
  PROVE  /\ ListOk(m, p)'
         /\ m = NoList <=> l = NoList
         /\ l # NoList => m.ids = l.ids /\ m.total = l.total
<1>1. CASE l = NoList
  BY <1>1 DEF Miss, ListOk
<1>2. CASE l # NoList
  <2>1. /\ l = [ids |-> l.ids, total |-> l.total, price |-> l.price, outdated |-> l.outdated, missed |-> l.missed]
        /\ feed = "pools" /\ l.total \in Nat /\ l.outdated \in BOOLEAN
        /\ ~l.outdated => l.total = Cardinality(Matching) /\ \E s \in Orders(Matching) : l.ids = PageOf(s, p)
    BY <1>2 DEF ListOk
  <2>2. m = [ids |-> l.ids, total |-> l.total, price |-> l.price, outdated |-> l.outdated, missed |-> TRUE]
    BY <1>2, <2>1 DEF Miss
  <2>3. m # NoList
    BY <2>2, ListIsSome
  <2>4. m.ids = l.ids /\ m.total = l.total /\ m.price = l.price /\ m.outdated = l.outdated /\ m.missed = TRUE
    BY <2>2
  <2>5. ListOk(m, p)'
    BY <2>1, <2>2, <2>4, RowsFrame DEF ListOk
  <2> QED BY <1>2, <2>3, <2>4, <2>5
<1> QED BY <1>1, <1>2

LEMMA OutdateKeeps ==
  ASSUME FeedIInv, UNCHANGED <<feed, listPrice, updating, walkAt>>, Outdate
  PROVE  /\ ListsOk'
         /\ loading' = NoList <=> loading = NoList
         /\ loading # NoList => loading'.ids = loading.ids /\ loading'.total = loading.total
<1>1. PICK l : l = loading
  OBVIOUS
<1>2. PICK m : m = loading'
  OBVIOUS
<1>3. ListOk(l, walkAt.page) /\ m = Old(l)
  BY <1>1, <1>2 DEF FeedIInv, ListsOk, Outdate
<1>4. PICK page : page = walkAt.page
  OBVIOUS
<1>5. /\ ListOk(m, page)' /\ (m = NoList <=> l = NoList)
      /\ l # NoList => m.ids = l.ids /\ m.total = l.total
  BY <1>3, <1>4, OldKeeps
<1>6. PICK c : c = listCache
  OBVIOUS
<1>7. PICK d : d = listCache'
  OBVIOUS
<1>8. d = [p \in PageNos |-> Old(c[p])]
  BY <1>6, <1>7 DEF Outdate
<1>9. ASSUME NEW p \in PageNos PROVE ListOk(d[p], p)'
  <2>1. PICK a : a = c[p]
    OBVIOUS
  <2>2. PICK b : b = d[p]
    OBVIOUS
  <2>3. ListOk(a, p) /\ b = Old(a)
    BY <1>6, <1>8, <2>1, <2>2 DEF FeedIInv, ListsOk
  <2>4. ListOk(b, p)'
    BY <2>3, OldKeeps
  <2> QED BY <2>2, <2>4
<1>10. ListsOk'
  <2>1. d = [p \in PageNos |-> d[p]]
    BY <1>8
  <2> QED BY <1>2, <1>4, <1>5, <1>7, <1>9, <2>1 DEF ListsOk, ListOk
<1> QED BY <1>1, <1>2, <1>5, <1>10

LEMMA UpdateKeeps == ASSUME FeedIInv, UpsertPoolState PROVE FeedIInv'
<1>0. UNCHANGED <<feed, rows, walkAt, shownRows, dueRows, excuses, loading, listCache>> /\ updating' = TRUE
  BY DEF UpsertPoolState
<1>1. ASSUME NEW l, NEW p, ListOk(l, p) PROVE ListOk(l, p)'
  BY <1>0, <1>1, RowsFrame DEF ListOk
<1>2. ListsOk'
  <2>1. PICK c : c = listCache /\ c = listCache'
    BY <1>0
  <2>2. PICK l, page : l = loading /\ l = loading' /\ page = walkAt.page /\ page = walkAt'.page
    BY <1>0
  <2>3. c = [p \in PageNos |-> c[p]] /\ (\A p \in PageNos : ListOk(c[p], p)) /\ ListOk(l, page)
    BY <2>1, <2>2 DEF FeedIInv, ListsOk
  <2>4. (\A p \in PageNos : ListOk(c[p], p)') /\ ListOk(l, page)'
    BY <1>1, <2>3
  <2> QED BY <2>1, <2>2, <2>3, <2>4 DEF ListsOk, ListOk
<1> QED BY <1>0, <1>2, WalkStays

LEMMA DropKeeps == ASSUME FeedIInv, InvalidateListCache PROVE FeedIInv'
<1>0. UNCHANGED <<feed, rows, walkAt, shownRows, dueRows, excuses>> /\ loading' = Miss(loading)
  BY DEF InvalidateListCache
<1>1. PICK c, d : c = listCache /\ d = listCache'
  OBVIOUS
<1>2. PICK dropped \in BOOLEAN : d = [p \in PageNos |-> IF dropped THEN NoList ELSE Miss(c[p])]
  BY <1>1 DEF InvalidateListCache
<1>3. PICK l, m, page : l = loading /\ m = loading' /\ page = walkAt.page /\ page = walkAt'.page
  BY <1>0
<1>4. (\A p \in PageNos : ListOk(c[p], p)) /\ ListOk(l, page) /\ m = Miss(l)
  BY <1>0, <1>1, <1>3 DEF FeedIInv, ListsOk
<1>5. /\ ListOk(m, page)' /\ (m = NoList <=> l = NoList)
      /\ l # NoList => m.ids = l.ids /\ m.total = l.total
  BY <1>0, <1>4, MissKeeps
<1>6. ASSUME NEW p \in PageNos PROVE ListOk(d[p], p)'
  <2>1. PICK a, b : a = c[p] /\ b = d[p]
    OBVIOUS
  <2>2. CASE b = NoList
    BY <2>1, <2>2 DEF ListOk
  <2>3. CASE b = Miss(a)
    <3>1. ListOk(b, p)'
      BY <1>0, <1>4, <2>1, <2>3, MissKeeps
    <3> QED BY <2>1, <3>1
  <2> QED BY <1>2, <2>1, <2>2, <2>3
<1>7. ListsOk'
  <2>1. d = [p \in PageNos |-> d[p]]
    BY <1>2
  <2> QED BY <1>1, <1>3, <1>5, <1>6, <2>1 DEF ListsOk, ListOk
<1> QED BY <1>0, <1>3, <1>5, <1>7, WalkStays

LEMMA ExpireKeeps == ASSUME FeedIInv, NEW q \in PageNos, ExpireList(q) PROVE FeedIInv'
<1>0. /\ UNCHANGED <<feed, rows, walkAt, shownRows, dueRows, excuses, loading, listPrice, updating>>
      /\ listCache' = [listCache EXCEPT ![q] = NoList]
  BY DEF ExpireList
<1>1. PICK c, d : c = listCache /\ d = listCache'
  OBVIOUS
<1>2. PICK l, page : l = loading /\ l = loading' /\ page = walkAt.page /\ page = walkAt'.page
  BY <1>0
<1>3. c = [p \in PageNos |-> c[p]] /\ (\A p \in PageNos : ListOk(c[p], p)) /\ ListOk(l, page)
  BY <1>1, <1>2 DEF FeedIInv, ListsOk
<1>4. d = [p \in PageNos |-> IF p = q THEN NoList ELSE c[p]]
  BY <1>0, <1>1, <1>3
<1>5. ASSUME NEW p \in PageNos PROVE ListOk(d[p], p)'
  <2>1. PICK b : b = d[p] /\ b \in {NoList, c[p]}
    BY <1>4
  <2>2. ListOk(b, p)
    BY <1>3, <2>1 DEF ListOk
  <2>3. ListOk(b, p)'
    BY <1>0, <2>2, ListStays
  <2> QED BY <2>1, <2>3
<1>6. ListOk(l, page)'
  BY <1>0, <1>3, ListStays
<1>7. ListsOk'
  <2>1. d = [p \in PageNos |-> d[p]]
    BY <1>4
  <2> QED BY <1>1, <1>2, <1>5, <1>6, <2>1 DEF ListsOk, ListOk
<1> QED BY <1>0, <1>7, WalkStays

(***************************************************************************)
(* The writers                                                             *)
(***************************************************************************)

LEMMA RowTyped == ASSUME FeedRowsOk, NEW r \in rows PROVE r.id \in Nat /\ r.time \in Nat /\ r.rank \in Nat /\ r.type \in Types
<1>1. r \in FeedRowType
  BY DEF FeedRowsOk
<1> QED BY <1>1, FeedAssumption DEF FeedRowType

(* A row that is added is the last by id. *)
LEMMA RowAdded ==
  ASSUME FeedIInv, NEW id \in FeedRows, NEW type \in Types, NEW t \in FeedRows, NEW k \in FeedRanks, AddRow(id, type, t, k),
         NEW x, x = [id |-> id, type |-> type, time |-> t, open |-> TRUE, rank |-> k]
  PROVE  /\ x \in FeedRowType /\ rows' = rows \cup {x} /\ x \notin rows /\ x.id \notin dueRows
         /\ \A r \in rows : r.id < x.id /\ (feed # "swaps" => r.time < x.time)
         /\ feed # "swaps" => x.time = x.id
         /\ FeedRowsOk'
<1>0. FeedRowsOk /\ feed' = feed /\ dueRows' = dueRows
  BY DEF FeedIInv, AddRow
<1>1. id \in Nat /\ k \in Nat /\ t \in Nat
  BY FeedAssumption
<1>2. x \in FeedRowType /\ x.id = id /\ x.time = t
  BY <1>1 DEF FeedRowType
<1>3. rows' = rows \cup {x} /\ id \notin Ids(rows) /\ (\A n \in FeedRows : n < id => n \in Ids(rows))
      /\ t \in (IF feed = "swaps" THEN 1..id ELSE {id})
  BY DEF AddRow
<1>4. ASSUME NEW r \in rows PROVE r.id < id
  <2>1. r.id \in Nat /\ r.id \in Ids(rows)
    BY <1>0, RowTyped DEF Ids
  <2>2. id < r.id => id \in Ids(rows)
    BY <1>0 DEF FeedRowsOk
  <2> QED BY <1>1, <1>3, <2>1, <2>2
<1>5. feed # "swaps" => t = id
  BY <1>3
<1>6. \A r \in rows : feed # "swaps" => r.time = r.id
  BY <1>0 DEF FeedRowsOk
<1>7. x \notin rows /\ id \notin dueRows
  BY <1>0, <1>2, <1>3 DEF Ids, FeedRowsOk
<1>8. Ids(rows') = Ids(rows) \cup {id}
  BY <1>2, <1>3 DEF Ids
<1>9. FeedRowsOk'
  <2>1. IsFiniteSet(rows')
    BY <1>0, <1>3, FS_AddElement DEF FeedRowsOk
  <2>2. \A q, r \in rows' : q.id = r.id => q = r
    <3>1. \A r \in rows : r.id # id
      BY <1>3 DEF Ids
    <3>2. \A q, r \in rows : q.id = r.id => q = r
      BY <1>0 DEF FeedRowsOk
    <3>3. \A r \in rows' : r \in rows \/ r = x
      BY <1>3
    <3>4. ASSUME NEW q \in rows', NEW r \in rows', q.id = r.id PROVE q = r
      <4>1. CASE q \in rows /\ r \in rows
        BY <3>2, <3>4, <4>1, Zenon
      <4>2. CASE q = x /\ r \in rows
        BY <1>2, <3>1, <3>4, <4>2, Zenon
      <4>3. CASE q \in rows /\ r = x
        BY <1>2, <3>1, <3>4, <4>3, Zenon
      <4> QED BY <3>3, <4>1, <4>2, <4>3, Zenon
    <3> QED BY <3>4, Zenon
  <2>3. \A r \in rows', n \in FeedRows : n < r.id => n \in Ids(rows')
    BY <1>0, <1>2, <1>3, <1>8 DEF FeedRowsOk
  <2>4. rows' \subseteq FeedRowType /\ dueRows' \subseteq Ids(rows')
    BY <1>0, <1>2, <1>3, <1>8 DEF FeedRowsOk
  <2>5. Ids(rows)' = Ids(rows')
    BY DEF Ids
  <2>6. feed' # "swaps" => \A r \in rows' : r.time = r.id
    BY <1>0, <1>2, <1>3, <1>5, <1>6
  <2> QED BY <2>1, <2>2, <2>3, <2>4, <2>5, <2>6 DEF FeedRowsOk
<1> QED BY <1>2, <1>3, <1>4, <1>5, <1>6, <1>7, <1>9

(* A row may be pushed back by it. *)
LEMMA PushedBack ==
  ASSUME FeedIInv, NEW x \in FeedRowType, rows' = rows \cup {x}, UNCHANGED <<feed, walkAt>>,
         feed # "swaps" => \A r \in rows : r.time < x.time,
         NEW r \in rows
  PROVE  /\ AheadOf(r) <= AheadOf(r)' /\ AheadOf(r) \in Nat /\ AheadOf(r)' \in Nat
         /\ \A type : Cardinality(NewerIn(Newest(OfType(type), FetchCap), r))
                        <= Cardinality(NewerIn(Newest(OfType(type)', FetchCap), r)) \/ feed = "swaps"
<1>0. FeedRowsOk /\ x.time \in Nat /\ r.time \in Nat /\ FetchCap \in Nat \ {0}
  BY RowTyped, FeedAssumption DEF FeedIInv, FeedRowType
<1>1. ASSUME feed # "swaps", NEW type
      PROVE  Cardinality(NewerIn(Newest(OfType(type), FetchCap), r)) <= Cardinality(NewerIn(Newest(OfType(type)', FetchCap), r))
  <2>1. PICK S : S = OfType(type)
    OBVIOUS
  <2>2. PICK T : T = OfType(type)'
    OBVIOUS
  <2>3. IsFiniteSet(S) /\ S \subseteq rows
    BY <1>0, <2>1, TypeFinite
  <2>4. T = S \/ T = S \cup {x}
    BY <2>1, <2>2 DEF OfType
  <2>5. \A q \in S : q.time \in Nat /\ q.time < x.time
    BY <1>0, <1>1, <2>3, RowTyped
  <2>6. \A q, u \in S : q.time = u.time => q = u
    BY <1>0, <1>1, <2>3 DEF FeedRowsOk
  <2>7. r.time < x.time
    BY <1>1
  <2>8. CASE T = S
    <3>1. IsFiniteSet(Newest(S, FetchCap))
      BY <2>3, NewestFinite
    <3>2. Cardinality(NewerIn(Newest(S, FetchCap), r)) \in Nat
      BY <3>1, NewerFinite
    <3> QED BY <2>1, <2>2, <2>8, <3>2
  <2>9. CASE T = S \cup {x}
    <3>1. Cardinality(NewerIn(Newest(S, FetchCap), r)) <= Cardinality(NewerIn(Newest(S \cup {x}, FetchCap), r))
      BY <1>0, <2>3, <2>5, <2>6, <2>7, NewestGrows
    <3> QED BY <2>1, <2>2, <2>9, <3>1
  <2> QED BY <2>4, <2>8, <2>9
<1>2. CASE feed = "activity"
  <2>1. ASSUME NEW type PROVE /\ Cardinality(NewerIn(Fetched(type), r)) \in Nat
                              /\ Cardinality(NewerIn(Fetched(type)', r)) \in Nat
                              /\ Cardinality(NewerIn(Fetched(type), r)) <= Cardinality(NewerIn(Fetched(type)', r))
    <3>1. PICK F, G : F = Fetched(type) /\ G = Fetched(type)'
      OBVIOUS
    <3>2. IsFiniteSet(OfType(type)) /\ IsFiniteSet(OfType(type)')
      <4>1. IsFiniteSet(rows')
        BY <1>0, FS_AddElement DEF FeedRowsOk
      <4>2. OfType(type)' \in SUBSET rows'
        BY DEF OfType
      <4>3. IsFiniteSet(OfType(type)')
        BY <4>1, <4>2, FS_Subset
      <4> QED BY <1>0, <4>3, TypeFinite
    <3>3. CASE type \in walkAt.read
      <4>1. F = {q \in walkAt.got : q.type = type} /\ G = F
        BY <3>1, <3>3 DEF Fetched
      <4>2. F \in SUBSET rows
        BY <1>2, <4>1 DEF FeedIInv, FetchedOk
      <4>3. IsFiniteSet(F)
        BY <1>0, <4>2, FS_Subset DEF FeedRowsOk
      <4>4. Cardinality(NewerIn(F, r)) \in Nat
        BY <4>3, NewerFinite
      <4> QED BY <3>1, <4>1, <4>4
    <3>4. CASE type \notin walkAt.read
      <4>1. F = Newest(OfType(type), FetchCap) /\ G = Newest(OfType(type)', FetchCap)
        BY <3>1, <3>4 DEF Fetched
      <4>2. IsFiniteSet(F) /\ IsFiniteSet(G)
        BY <3>2, <4>1, NewestFinite
      <4>3. Cardinality(NewerIn(F, r)) \in Nat /\ Cardinality(NewerIn(G, r)) \in Nat
        BY <4>2, NewerFinite
      <4> QED BY <1>1, <1>2, <3>1, <4>1, <4>3
    <3> QED BY <3>3, <3>4
  <2>2. AheadOf(r) = Cardinality(NewerIn(Fetched("mint"), r)) + Cardinality(NewerIn(Fetched("burn"), r))
    BY <1>2 DEF AheadOf
  <2>3. AheadOf(r)' = Cardinality(NewerIn(Fetched("mint")', r)) + Cardinality(NewerIn(Fetched("burn")', r))
    BY <1>2 DEF AheadOf, NewerIn
  <2>4. PICK a \in Nat, b \in Nat, c \in Nat, d \in Nat :
          /\ a = Cardinality(NewerIn(Fetched("mint"), r)) /\ b = Cardinality(NewerIn(Fetched("mint")', r))
          /\ c = Cardinality(NewerIn(Fetched("burn"), r)) /\ d = Cardinality(NewerIn(Fetched("burn")', r))
          /\ a <= b /\ c <= d
    BY <2>1
  <2>5. AheadOf(r) <= AheadOf(r)' /\ AheadOf(r) \in Nat /\ AheadOf(r)' \in Nat
    BY <2>2, <2>3, <2>4
  <2> QED BY <1>1, <1>2, <2>5
<1>3. CASE feed # "activity"
  <2>1. PICK S : S = AheadIn(Matching, r)
    OBVIOUS
  <2>2. PICK T : T = AheadIn(Matching, r)'
    OBVIOUS
  <2>3. S \in SUBSET T
    BY <2>1, <2>2 DEF AheadIn, Matching, Precedes
  <2>4. IsFiniteSet(T)
    <3>1. IsFiniteSet(rows')
      BY <1>0, FS_AddElement DEF FeedRowsOk
    <3>2. T \in SUBSET rows'
      BY <2>2 DEF AheadIn, Matching
    <3> QED BY <3>1, <3>2, FS_Subset
  <2>5. Cardinality(S) <= Cardinality(T) /\ Cardinality(S) \in Nat /\ Cardinality(T) \in Nat
    <3>1. IsFiniteSet(S) /\ Cardinality(S) <= Cardinality(T)
      BY <2>3, <2>4, FS_Subset
    <3> QED BY <2>4, <3>1, FS_CardinalityType
  <2>6. AheadOf(r) = Cardinality(S) /\ AheadOf(r)' = Cardinality(T)
    BY <1>3, <2>1, <2>2 DEF AheadOf
  <2> QED BY <1>1, <2>5, <2>6
<1> QED BY <1>2, <1>3

LEMMA AddRowKeeps ==
  ASSUME FeedIInv, NEW id \in FeedRows, NEW type \in Types, NEW t \in FeedRows, NEW k \in FeedRanks, AddRow(id, type, t, k)
  PROVE  FeedIInv'
<1>0. /\ UNCHANGED <<feed, walkAt, shownRows, dueRows, listPrice, updating>> /\ Outdate
      /\ excuses' = IF walkAt.at \in {"counted", "items"} THEN excuses \cup {"raced"} ELSE excuses
  BY DEF AddRow
<1>1. PICK x : x = [id |-> id, type |-> type, time |-> t, open |-> TRUE, rank |-> k]
  OBVIOUS
<1>2. /\ x \in FeedRowType /\ rows' = rows \cup {x} /\ x \notin rows /\ x.id \notin dueRows
      /\ \A r \in rows : r.id < x.id /\ (feed # "swaps" => r.time < x.time)
      /\ FeedRowsOk'
  BY <1>1, RowAdded
<1>3. \A r \in rows : /\ AheadOf(r) <= AheadOf(r)' /\ AheadOf(r) \in Nat /\ AheadOf(r)' \in Nat
                      /\ \A y : Cardinality(NewerIn(Newest(OfType(y), FetchCap), r))
                                  <= Cardinality(NewerIn(Newest(OfType(y)', FetchCap), r)) \/ feed = "swaps"
  BY <1>0, <1>2, PushedBack
<1>4. ListsOk' /\ (loading' = NoList <=> loading = NoList)
      /\ (loading # NoList => loading'.ids = loading.ids /\ loading'.total = loading.total)
  BY <1>0, OutdateKeeps
<1>5. ASSUME NEW r \in rows, Excused(r) PROVE Excused(r)'
  <2>1. CASE feed = "swaps"
    BY <1>0, <1>2, <1>5, <2>1 DEF Excused
  <2>2. CASE feed = "activity"
    <3>1. PICK A, B : A = NewerIn(OfType(r.type), r) /\ B = NewerIn(OfType(r.type)', r)
      OBVIOUS
    <3>2. A \in SUBSET B /\ B \in SUBSET rows'
      BY <1>2, <3>1 DEF NewerIn, OfType
    <3>3. IsFiniteSet(B)
      BY <1>2, <3>2, FS_Subset DEF FeedRowsOk
    <3>4. Cardinality(A) <= Cardinality(B) /\ IsFiniteSet(A)
      BY <3>2, <3>3, FS_Subset
    <3>5. Cardinality(A) \in Nat /\ Cardinality(B) \in Nat
      BY <3>3, <3>4, FS_CardinalityType
    <3>6. Cardinality(A) >= FetchCap
      BY <1>5, <2>2, <3>1 DEF Excused
    <3>7. Cardinality(B) >= FetchCap
      BY <3>4, <3>5, <3>6, FeedAssumption
    <3>8. NewerIn(OfType(r.type), r)' = B
      BY <3>1 DEF NewerIn
    <3> QED BY <1>0, <2>2, <3>7, <3>8 DEF Excused
  <2>3. CASE feed \notin {"swaps", "activity"}
    BY <1>0, <1>5, <2>3 DEF Excused
  <2> QED BY <2>1, <2>2, <2>3
<1>6. ASSUME NEW r \in rows', Owed(r)' PROVE r \in rows /\ Owed(r)
  <2>1. r \in rows
    BY <1>0, <1>2, <1>6 DEF Owed
  <2>2. r \in Matching' => r \in Matching
    BY <1>0, <2>1 DEF Matching
  <2> QED BY <1>0, <1>5, <1>6, <2>1, <2>2 DEF Owed
<1>7. WalkTyped'
  BY <1>0, <1>4 DEF FeedIInv, WalkTyped
<1>8. WalkOk'
  <2> SUFFICES ASSUME feed # "bulk", NEW r \in rows', Owed(r)'
               PROVE  /\ walkAt.at # "done"
                      /\ Walking => PagesSeen * FeedLimit <= AheadOf(r)'
                      /\ walkAt.at = "loaded" =>
                           \/ r.id \in loading'.ids
                           \/ walkAt.page * FeedLimit <= AheadOf(r)' /\ walkAt.page * FeedLimit < loading'.total
    BY <1>0 DEF WalkOk, Walking, PagesSeen
  <2>1. r \in rows /\ Owed(r)
    BY <1>6
  <2>2. PICK p \in Nat : p = walkAt.page
    BY PagesAre DEF FeedIInv, WalkTyped, WalkType
  <2>3. FeedLimit \in Nat /\ PagesSeen \in Int
    BY <2>2, FeedAssumption DEF PagesSeen
  <2>4. p * FeedLimit \in Int /\ PagesSeen * FeedLimit \in Int
    BY <2>3
  <2>5. /\ walkAt.at # "done"
        /\ Walking => PagesSeen * FeedLimit <= AheadOf(r)
        /\ walkAt.at = "loaded" => \/ r.id \in loading.ids
                                   \/ p * FeedLimit <= AheadOf(r) /\ p * FeedLimit < loading.total
    BY <2>1, <2>2 DEF FeedIInv, WalkOk
  <2>6. AheadOf(r) \in Nat /\ AheadOf(r)' \in Nat
    BY <1>3, <2>1
  <2>7. walkAt.at = "loaded" => loading # NoList
    BY DEF FeedIInv, WalkTyped
  <2> QED BY <1>3, <1>4, <2>1, <2>2, <2>4, <2>5, <2>6, <2>7
<1>9. CountOk'
  BY <1>0 DEF CountOk
<1>10. FetchedOk'
  <2> SUFFICES ASSUME feed = "activity" PROVE FetchedOk'
    BY <1>0 DEF FetchedOk
  <2>1. FetchedOk
    BY DEF FeedIInv
  <2>2. \A y \in walkAt.read : Fetched(y)' = Fetched(y)
    BY <1>0 DEF Fetched
  <2>3. ASSUME NEW y \in walkAt.read, NEW r \in rows'
        PROVE  Cardinality(NewerIn(Fetched(y)', r)) <= Cardinality(NewerIn(Newest(OfType(y)', FetchCap), r))
    <3>1. PICK F, N : F = Fetched(y) /\ N = Newest(OfType(y)', FetchCap) /\ F = Fetched(y)'
      BY <2>2
    <3>2. F \in SUBSET rows
      BY <2>1, <3>1 DEF FetchedOk, Fetched
    <3>3. IsFiniteSet(N)
      <4>1. OfType(y)' \in SUBSET rows'
        BY DEF OfType
      <4>2. IsFiniteSet(OfType(y)')
        BY <1>2, <4>1, FS_Subset DEF FeedRowsOk
      <4> QED BY <3>1, <4>2, NewestFinite
    <3>4. IsFiniteSet(F)
      BY <3>2, FS_Subset DEF FeedIInv, FeedRowsOk
    <3>5. Cardinality(NewerIn(F, r)) \in Nat /\ Cardinality(NewerIn(N, r)) \in Nat
      BY <3>3, <3>4, NewerFinite
    <3>6. CASE r \in rows
      <4>1. PICK O : O = Newest(OfType(y), FetchCap)
        OBVIOUS
      <4>2. IsFiniteSet(O)
        <5>1. IsFiniteSet(OfType(y))
          BY TypeFinite DEF FeedIInv
        <5> QED BY <4>1, <5>1, NewestFinite
      <4>3. Cardinality(NewerIn(O, r)) \in Nat
        BY <4>2, NewerFinite
      <4>4. Cardinality(NewerIn(F, r)) <= Cardinality(NewerIn(O, r))
        BY <2>1, <3>1, <3>6, <4>1 DEF FetchedOk
      <4>5. Cardinality(NewerIn(O, r)) <= Cardinality(NewerIn(N, r))
        BY <1>3, <3>1, <3>6, <4>1
      <4>6. Cardinality(NewerIn(F, r)) <= Cardinality(NewerIn(N, r))
        BY <3>5, <4>3, <4>4, <4>5
      <4> QED BY <3>1, <4>6
    <3>7. CASE r = x
      <4>1. ASSUME NEW q \in F PROVE ~(q.time > x.time)
        <5>1. q \in rows /\ q.time \in Nat /\ x.time \in Nat
          BY <1>2, <3>2, RowTyped DEF FeedIInv, FeedRowType
        <5> QED BY <1>2, <5>1
      <4>2. NewerIn(F, r) = {}
        BY <3>7, <4>1 DEF NewerIn
      <4>3. Cardinality(NewerIn(F, r)) = 0
        BY <4>2, FS_EmptySet
      <4>4. Cardinality(NewerIn(F, r)) <= Cardinality(NewerIn(N, r))
        BY <3>5, <4>3
      <4> QED BY <3>1, <4>4
    <3> QED BY <1>2, <3>6, <3>7
  <2>4. \A y, r : NewerIn(Fetched(y), r)' = NewerIn(Fetched(y)', r)
    BY DEF NewerIn
  <2>5. \A y, r : NewerIn(Newest(OfType(y), FetchCap), r)' = NewerIn(Newest(OfType(y)', FetchCap), r)
    BY DEF NewerIn, Newest
  <2> QED BY <1>0, <1>2, <1>6, <2>1, <2>2, <2>3, <2>4, <2>5 DEF FetchedOk
<1>11. ItemsOk' /\ BulkAddsUp'
  BY <1>0 DEF FeedIInv, ItemsOk, BulkAddsUp
<1> QED BY <1>2, <1>4, <1>7, <1>8, <1>9, <1>10, <1>11 DEF FeedIInv

LEMMA CloseRowKeeps ==
  ASSUME FeedIInv, NEW r \in rows, CloseRow(r)
  PROVE  FeedIInv'
<1>0. /\ UNCHANGED <<feed, walkAt, shownRows, dueRows, loading, listCache, listPrice, updating>>
      /\ feed \in {"positions", "bulk"} /\ FeedRowsOk
      /\ excuses' = IF Walking THEN excuses \cup {"closed"} ELSE excuses
  BY DEF CloseRow, FeedIInv
<1>1. PICK x : x = [r EXCEPT !.open = FALSE]
  OBVIOUS
<1>2. rows' = (rows \ {r}) \cup {x}
  BY <1>1 DEF CloseRow
<1>3. x \in FeedRowType /\ x.id = r.id /\ x.time = r.time /\ x.open = FALSE
  <2>1. r \in FeedRowType
    BY <1>0 DEF FeedRowsOk
  <2> QED BY <1>1, <2>1 DEF FeedRowType
<1>4. FeedRowsOk'
  <2>1. Ids(rows') = Ids(rows) /\ Ids(rows)' = Ids(rows')
    BY <1>2, <1>3 DEF Ids
  <2>2. IsFiniteSet(rows')
    <3>1. IsFiniteSet(rows \ {r})
      BY <1>0, FS_RemoveElement DEF FeedRowsOk
    <3> QED BY <1>2, <3>1, FS_AddElement
  <2>3. \A q, u \in rows' : q.id = u.id => q = u
    BY <1>0, <1>2, <1>3 DEF FeedRowsOk
  <2>4. \A q \in rows', n \in FeedRows : n < q.id => n \in Ids(rows')
    BY <1>0, <1>2, <1>3, <2>1 DEF FeedRowsOk
  <2>5. rows' \subseteq FeedRowType /\ (feed' # "swaps" => \A q \in rows' : q.time = q.id)
    BY <1>0, <1>2, <1>3 DEF FeedRowsOk
  <2> QED BY <1>0, <2>1, <2>2, <2>3, <2>4, <2>5 DEF FeedRowsOk
<1>5. WalkTyped'
  BY <1>0 DEF FeedIInv, WalkTyped
<1>6. ASSUME feed = "positions", NEW q \in rows', Owed(q)' PROVE ~Walking /\ q \in rows /\ Owed(q)
  <2>1. ~Excused(q)'
    BY <1>6 DEF Owed
  <2>2. "closed" \notin excuses'
    BY <1>0, <1>6, <2>1 DEF Excused
  <2>3. ~Walking /\ excuses' = excuses
    BY <1>0, <2>2
  <2>4. q \in rows /\ q \in Matching
    BY <1>0, <1>2, <1>3, <1>6 DEF Owed, Matching
  <2>5. ~Excused(q)
    BY <1>0, <1>6, <2>1, <2>3 DEF Excused
  <2> QED BY <1>0, <1>6, <2>3, <2>4, <2>5 DEF Owed
<1>7. WalkOk'
  <2> SUFFICES ASSUME feed = "positions", NEW q \in rows', Owed(q)' PROVE ~Walking /\ walkAt.at # "done"
    BY <1>0 DEF WalkOk, Walking
  <2> QED BY <1>6 DEF FeedIInv, WalkOk
<1>8. CountOk' /\ ItemsOk'
  BY <1>0 DEF CountOk, ItemsOk, Walking
<1>9. FetchedOk' /\ BulkAddsUp'
  BY <1>0 DEF FeedIInv, FetchedOk, BulkAddsUp, Walking
<1>10. \A l, p : ListOk(l, p) => ListOk(l, p)'
  BY <1>0 DEF ListOk
<1>11. ListsOk'
  <2>1. PICK c, l, page : c = listCache /\ c = listCache' /\ l = loading /\ l = loading' /\ page = walkAt.page /\ page = walkAt'.page
    BY <1>0
  <2>2. c = [p \in PageNos |-> c[p]] /\ (\A p \in PageNos : ListOk(c[p], p)) /\ ListOk(l, page)
    BY <2>1 DEF FeedIInv, ListsOk
  <2>3. (\A p \in PageNos : ListOk(c[p], p)') /\ ListOk(l, page)'
    BY <1>10, <2>2
  <2> QED BY <2>1, <2>2, <2>3 DEF ListsOk, ListOk
<1> QED BY <1>4, <1>5, <1>7, <1>8, <1>9, <1>11 DEF FeedIInv

LEMMA RerankKeeps ==
  ASSUME FeedIInv, NEW r \in rows, NEW k \in FeedRanks, Rerank(r, k)
  PROVE  FeedIInv'
<1>0. /\ UNCHANGED <<feed, walkAt, shownRows, dueRows, listPrice, updating>> /\ Outdate
      /\ feed \in {"pools", "search"} /\ FeedRowsOk
      /\ excuses' = IF Walking THEN excuses \cup {"reranked"} ELSE excuses
  BY DEF Rerank, FeedIInv
<1>1. PICK x : x = [r EXCEPT !.rank = k]
  OBVIOUS
<1>2. rows' = (rows \ {r}) \cup {x}
  BY <1>1 DEF Rerank
<1>3. x \in FeedRowType /\ x.id = r.id /\ x.time = r.time
  <2>1. r \in FeedRowType /\ k \in Nat
    BY <1>0, FeedAssumption DEF FeedRowsOk
  <2> QED BY <1>1, <2>1 DEF FeedRowType
<1>4. FeedRowsOk'
  <2>1. Ids(rows') = Ids(rows) /\ Ids(rows)' = Ids(rows')
    BY <1>2, <1>3 DEF Ids
  <2>2. IsFiniteSet(rows')
    <3>1. IsFiniteSet(rows \ {r})
      BY <1>0, FS_RemoveElement DEF FeedRowsOk
    <3> QED BY <1>2, <3>1, FS_AddElement
  <2>3. \A q, u \in rows' : q.id = u.id => q = u
    BY <1>0, <1>2, <1>3 DEF FeedRowsOk
  <2>4. \A q \in rows', n \in FeedRows : n < q.id => n \in Ids(rows')
    BY <1>0, <1>2, <1>3, <2>1 DEF FeedRowsOk
  <2>5. rows' \subseteq FeedRowType /\ (feed' # "swaps" => \A q \in rows' : q.time = q.id)
    BY <1>0, <1>2, <1>3 DEF FeedRowsOk
  <2> QED BY <1>0, <2>1, <2>2, <2>3, <2>4, <2>5 DEF FeedRowsOk
<1>5. ListsOk' /\ (loading' = NoList <=> loading = NoList)
  BY <1>0, OutdateKeeps
<1>6. WalkTyped'
  BY <1>0, <1>5 DEF FeedIInv, WalkTyped
<1>7. ASSUME NEW q \in rows', Owed(q)' PROVE ~Walking /\ walkAt.at # "done"
  <2>1. ~Excused(q)'
    BY <1>7 DEF Owed
  <2>2. "reranked" \notin excuses'
    BY <1>0, <2>1 DEF Excused
  <2>3. ~Walking /\ excuses' = excuses
    BY <1>0, <2>2
  <2>4. PICK u \in rows : u.id = q.id
    BY <1>2, <1>3
  <2>5. u \in Matching
    BY <1>0, <2>4 DEF Matching
  <2>6. ~Excused(u)
    BY <1>0, <2>1, <2>3 DEF Excused
  <2>7. Owed(u)
    BY <1>0, <1>7, <2>4, <2>5, <2>6 DEF Owed
  <2> QED BY <1>0, <2>3, <2>4, <2>7 DEF FeedIInv, WalkOk
<1>8. WalkOk'
  BY <1>0, <1>7 DEF WalkOk, Walking
<1>9. CountOk' /\ ItemsOk'
  BY <1>0 DEF CountOk, ItemsOk, FeedIInv, WalkTyped
<1>10. FetchedOk' /\ BulkAddsUp'
  BY <1>0 DEF FetchedOk, BulkAddsUp
<1> QED BY <1>4, <1>5, <1>6, <1>8, <1>9, <1>10 DEF FeedIInv

(***************************************************************************)
(* The reader                                                              *)
(***************************************************************************)

(* A step of the walk that reads nothing into the cache. *)
LEMMA ListsStay ==
  ASSUME FeedIInv, UNCHANGED <<feed, rows, listPrice, updating, listCache, loading>>,
         walkAt'.page = walkAt.page \/ loading = NoList
  PROVE  ListsOk'
<1>1. PICK c, l, old, new : c = listCache /\ c = listCache' /\ l = loading /\ l = loading' /\ old = walkAt.page /\ new = walkAt'.page
  OBVIOUS
<1>2. c = [p \in PageNos |-> c[p]] /\ (\A p \in PageNos : ListOk(c[p], p)) /\ ListOk(l, new)
  BY <1>1 DEF FeedIInv, ListsOk, ListOk
<1>3. \A k, p : ListOk(k, p) => ListOk(k, p)'
  BY ListStays
<1>4. (\A p \in PageNos : ListOk(c[p], p)') /\ ListOk(l, new)'
  BY <1>2, <1>3
<1> QED BY <1>1, <1>2, <1>4 DEF ListsOk, ListOk

LEMMA FetchedFinite ==
  ASSUME FeedRowsOk, FetchedOk, feed = "activity", NEW type
  PROVE  IsFiniteSet(Fetched(type)) /\ Fetched(type) \subseteq rows
<1>1. Fetched(type) \in SUBSET rows
  BY TypeFinite, NewestFinite DEF Fetched, FetchedOk
<1> QED BY <1>1, FS_Subset DEF FeedRowsOk

LEMMA WalkStartKeeps == ASSUME FeedIInv, StartWalk PROVE FeedIInv'
<1>0. /\ UNCHANGED <<feed, rows, feedWrites, loading, listCache, listPrice, updating>> /\ FeedRowsOk
      /\ dueRows' = Ids(Matching) /\ walkAt' = [NoWalk EXCEPT !.at = "asked"] /\ walkAt.at \in {"idle", "done"}
  BY DEF StartWalk, FeedIInv
<1>1. walkAt' = [at |-> "asked", page |-> 1, total |-> 0, got |-> {}, read |-> {}]
  BY <1>0 DEF NoWalk
<1>2. PICK w : w = walkAt' /\ w.at = "asked" /\ w.page = 1 /\ w.got = {} /\ w.read = {} /\ w \in WalkType
  BY <1>1, PagesAre DEF WalkType, WalkPlaces
<1>3. loading = NoList
  BY <1>0 DEF FeedIInv, WalkTyped
<1>4. FeedRowsOk'
  <2>1. Ids(Matching) \subseteq Ids(rows)
    BY DEF Ids, Matching
  <2> QED BY <1>0, <2>1 DEF FeedRowsOk, Ids
<1>5. WalkTyped'
  BY <1>0, <1>2, <1>3 DEF WalkTyped, WalkType
<1>6. ASSUME NEW r PROVE AheadOf(r)' \in Nat
  <2>1. ASSUME NEW type PROVE Cardinality(NewerIn(Fetched(type)', r)) \in Nat
    <3>1. Fetched(type)' = Newest(OfType(type), FetchCap)
      <4>1. Fetched(type)' = Newest(OfType(type), FetchCap)'
        BY <1>2 DEF Fetched
      <4>2. Newest(OfType(type), FetchCap)' = Newest(OfType(type)', FetchCap)
        BY DEF Newest
      <4>3. OfType(type)' = OfType(type)
        BY <1>0, RowsFrame
      <4> QED BY <4>1, <4>2, <4>3
    <3>2. IsFiniteSet(Fetched(type)')
      BY <1>0, <3>1, TypeFinite, NewestFinite
    <3> QED BY <3>2, NewerFinite
  <2>2. CASE feed = "activity"
    <3>1. AheadOf(r)' = Cardinality(NewerIn(Fetched("mint")', r)) + Cardinality(NewerIn(Fetched("burn")', r))
      BY <1>0, <2>2 DEF AheadOf, NewerIn
    <3> QED BY <2>1, <3>1
  <2>3. CASE feed # "activity"
    <3>1. AheadOf(r)' = Cardinality(AheadIn(Matching, r))
      BY <1>0, <2>3, RowsFrame DEF AheadOf
    <3>2. AheadIn(Matching, r) \in SUBSET Matching
      BY DEF AheadIn
    <3>3. IsFiniteSet(AheadIn(Matching, r))
      BY <1>0, <3>2, MatchingFinite, FS_Subset
    <3> QED BY <3>1, <3>3, FS_CardinalityType
  <2> QED BY <2>2, <2>3
<1>7. WalkOk'
  <2>1. PagesSeen' = 0 /\ 0 * FeedLimit = 0
    BY <1>2, FeedAssumption DEF PagesSeen
  <2> QED BY <1>2, <1>6, <2>1 DEF WalkOk
<1>8. CountOk' /\ ItemsOk' /\ BulkAddsUp' /\ FetchedOk'
  BY <1>2 DEF CountOk, ItemsOk, BulkAddsUp, FetchedOk
<1>9. ListsOk'
  BY <1>0, <1>3, ListsStay
<1> QED BY <1>4, <1>5, <1>7, <1>8, <1>9 DEF FeedIInv

LEMMA NextPageKeeps == ASSUME FeedIInv, NextPage PROVE FeedIInv'
<1>0. /\ UNCHANGED <<feed, rows, feedWrites, shownRows, dueRows, excuses, loading, listCache, listPrice, updating>>
      /\ walkAt.at = "between" /\ walkAt.page + 1 \in PageNos
      /\ walkAt' = [walkAt EXCEPT !.at = "asked", !.page = walkAt.page + 1]
  BY DEF NextPage
<1>1. PICK u : u = walkAt /\ u \in WalkType /\ u.at = "between" /\ u.read = {}
  BY <1>0 DEF FeedIInv, WalkTyped
<1>2. PICK w : w = walkAt'
  OBVIOUS
<1>3. w \in WalkType /\ w.at = "asked" /\ w.page = u.page + 1 /\ w.total = u.total /\ w.got = u.got /\ w.read = {}
  BY <1>0, <1>1, <1>2 DEF WalkType, WalkPlaces
<1>4. loading = NoList
  BY <1>0 DEF FeedIInv, WalkTyped
<1>5. FeedRowsOk'
  BY <1>0 DEF FeedIInv, FeedRowsOk
<1>6. WalkTyped'
  BY <1>0, <1>2, <1>3, <1>4 DEF WalkTyped
<1>7. \A r : AheadOf(r)' = AheadOf(r)
  BY <1>0, <1>1, <1>2, <1>3, RowsFrame DEF AheadOf, Fetched
<1>8. \A r : Owed(r)' => Owed(r)
  BY <1>0, RowsFrame, ExcusedFrame DEF Owed
<1>9. PagesSeen' = PagesSeen
  <2>1. u.page \in Nat
    BY <1>1, PagesAre DEF WalkType
  <2> QED BY <1>1, <1>2, <1>3, <2>1 DEF PagesSeen
<1>10. WalkOk'
  BY <1>0, <1>2, <1>3, <1>7, <1>8, <1>9 DEF FeedIInv, WalkOk, Walking
<1>11. CountOk' /\ ItemsOk' /\ BulkAddsUp'
  BY <1>2, <1>3 DEF CountOk, ItemsOk, BulkAddsUp
<1>12. FetchedOk'
  BY <1>0, <1>1, <1>2, <1>3 DEF FeedIInv, FetchedOk
<1>13. ListsOk'
  BY <1>0, <1>4, ListsStay
<1> QED BY <1>5, <1>6, <1>10, <1>11, <1>12, <1>13 DEF FeedIInv

(* The steps that count, or read the rows of the bulk answer. *)
LEMMA ToKeeps ==
  ASSUME FeedIInv, NEW at \in {"counted", "items", "done"}, NEW total \in Nat, NEW got \in SUBSET FeedRowType, To(at, total, got),
         feed \in {"swaps", "positions", "bulk"},
         walkAt.at \in {"asked", "counted", "items"},
         at \in {"items", "done"} => feed = "bulk",
         at = "counted" => walkAt.at = "asked" /\ total = Cardinality(Matching),
         at = "items" => got = Newest(Matching, FetchCap),
         at = "done" => total = Cardinality(got) \/ excuses # {} \/ total > FetchCap
  PROVE  FeedIInv'
<1>0. /\ UNCHANGED <<feed, rows, feedWrites, shownRows, dueRows, excuses, loading, listCache, listPrice, updating>>
      /\ walkAt' = [walkAt EXCEPT !.at = at, !.total = total, !.got = got]
  BY DEF To
<1>1. PICK u : u = walkAt /\ u \in WalkType /\ u.at \in {"asked", "counted", "items"} /\ u.read = {}
  BY DEF FeedIInv, WalkTyped
<1>2. PICK w : w = walkAt'
  OBVIOUS
<1>3. w \in WalkType /\ w.at = at /\ w.page = u.page /\ w.total = total /\ w.got = got /\ w.read = {}
  BY <1>0, <1>1, <1>2 DEF WalkType, WalkPlaces
<1>4. loading = NoList
  BY DEF FeedIInv, WalkTyped
<1>5. FeedRowsOk'
  BY <1>0 DEF FeedIInv, FeedRowsOk
<1>6. WalkTyped'
  BY <1>0, <1>2, <1>3, <1>4 DEF WalkTyped
<1>7. feed # "bulk" => WalkOk'
  <2> SUFFICES ASSUME feed # "bulk" PROVE WalkOk'
    OBVIOUS
  <2>1. at = "counted" /\ u.at = "asked"
    BY <1>1
  <2>2. \A r : AheadOf(r)' = AheadOf(r)
    BY <1>0, RowsFrame DEF AheadOf
  <2>3. \A r : Owed(r)' => Owed(r)
    BY <1>0, RowsFrame, ExcusedFrame DEF Owed
  <2>4. PagesSeen' = PagesSeen
    BY <1>1, <1>2, <1>3, <2>1 DEF PagesSeen
  <2> QED BY <1>0, <1>1, <1>2, <1>3, <2>1, <2>2, <2>3, <2>4 DEF FeedIInv, WalkOk, Walking
<1>8. feed = "bulk" => WalkOk'
  BY <1>0 DEF WalkOk
<1>9. CountOk' /\ ItemsOk'
  BY <1>0, <1>2, <1>3, RowsFrame DEF CountOk, ItemsOk
<1>10. BulkAddsUp' /\ FetchedOk'
  BY <1>0, <1>2, <1>3 DEF BulkAddsUp, FetchedOk
<1>11. ListsOk'
  BY <1>0, <1>4, ListsStay
<1> QED BY <1>5, <1>6, <1>7, <1>8, <1>9, <1>10, <1>11 DEF FeedIInv

LEMMA CountKeeps == FeedIInv /\ (CountSwaps \/ CountPositions) => FeedIInv'
<1> SUFFICES ASSUME FeedIInv, CountSwaps \/ CountPositions PROVE FeedIInv'
  OBVIOUS
<1>1. feed \in {"swaps", "positions"} /\ walkAt.at = "asked" /\ To("counted", Cardinality(Matching), {})
  BY DEF CountSwaps, CountPositions
<1>2. Cardinality(Matching) \in Nat
  BY MatchingFinite DEF FeedIInv
<1> QED BY <1>1, <1>2, ToKeeps

LEMMA BulkKeeps == FeedIInv /\ ListPositionsByWallets => FeedIInv'
<1> SUFFICES ASSUME FeedIInv, ListPositionsByWallets PROVE FeedIInv'
  OBVIOUS
<1>0. feed = "bulk" /\ FeedRowsOk
  BY DEF ListPositionsByWallets, FeedIInv
<1>1. IsFiniteSet(Matching) /\ Cardinality(Matching) \in Nat /\ Matching \subseteq rows
  BY <1>0, MatchingFinite
<1>2. PICK N : N = Newest(Matching, FetchCap)
  OBVIOUS
<1>3. N \in SUBSET FeedRowType
  BY <1>0, <1>1, <1>2, NewestFinite DEF FeedRowsOk
<1>4. Cardinality(Matching) <= FetchCap => N = Matching
  <2>1. \A q \in Matching : q.time \in Nat
    BY <1>0, <1>1, RowTyped
  <2> QED BY <1>1, <1>2, <2>1, AllAreNewest, FeedAssumption
<1>5. Cardinality(Matching) = Cardinality(N) \/ Cardinality(Matching) > FetchCap
  BY <1>1, <1>4, FeedAssumption
<1>6. walkAt \in WalkType
  BY DEF FeedIInv, WalkTyped
<1>7. CASE walkAt.at = "asked" /\ To("counted", Cardinality(Matching), {})
  BY <1>0, <1>1, <1>7, ToKeeps
<1>8. CASE walkAt.at = "asked" /\ To("items", 0, N)
  BY <1>0, <1>2, <1>3, <1>8, ToKeeps
<1>9. CASE walkAt.at = "counted" /\ To("done", walkAt.total, N)
  <2>1. walkAt.total = Cardinality(Matching) \/ excuses # {}
    BY <1>9 DEF FeedIInv, CountOk
  <2>2. walkAt.total \in Nat
    BY <1>6 DEF WalkType
  <2>3. walkAt.total = Cardinality(N) \/ excuses # {} \/ walkAt.total > FetchCap
    BY <1>5, <2>1
  <2> QED BY <1>0, <1>3, <1>9, <2>2, <2>3, ToKeeps
<1>10. CASE walkAt.at = "items" /\ To("done", Cardinality(Matching), walkAt.got)
  <2>1. walkAt.got = N \/ excuses # {}
    BY <1>2, <1>10 DEF FeedIInv, ItemsOk
  <2>2. walkAt.got \in SUBSET FeedRowType
    BY <1>6 DEF WalkType
  <2>3. Cardinality(Matching) = Cardinality(walkAt.got) \/ excuses # {} \/ Cardinality(Matching) > FetchCap
    BY <1>5, <2>1
  <2> QED BY <1>0, <1>1, <1>10, <2>2, <2>3, ToKeeps
<1> QED BY <1>2, <1>7, <1>8, <1>9, <1>10 DEF ListPositionsByWallets

LEMMA ReadActivityKeeps == ASSUME FeedIInv, NEW type \in Types, ReadActivity(type) PROVE FeedIInv'
<1>0. /\ UNCHANGED <<feed, rows, feedWrites, shownRows, dueRows, excuses, loading, listCache, listPrice, updating>>
      /\ feed = "activity" /\ walkAt.at \in {"asked", "merging"} /\ type \notin walkAt.read
      /\ FeedRowsOk /\ FetchedOk
  BY DEF ReadActivity, FeedIInv
<1>1. PICK N : N = Newest(OfType(type), FetchCap)
  OBVIOUS
<1>2. N \subseteq rows /\ IsFiniteSet(N) /\ \A q \in N : q.type = type
  BY <1>0, <1>1, TypeFinite, NewestFinite DEF OfType
<1>3. PICK u, w : u = walkAt /\ w = walkAt'
  OBVIOUS
<1>4. u \in WalkType /\ w = [u EXCEPT !.at = "merging", !.read = u.read \cup {type}, !.got = u.got \cup N]
  <2>1. N = Newest({r \in rows : r.type = type}, FetchCap)
    BY <1>1 DEF OfType
  <2> QED BY <1>3, <2>1 DEF ReadActivity, FeedIInv, WalkTyped
<1>5. N \subseteq FeedRowType
  BY <1>0, <1>2 DEF FeedRowsOk
<1>6. /\ w.at = "merging" /\ w.page = u.page /\ w.total = u.total
      /\ w.got = u.got \cup N /\ w.read = u.read \cup {type} /\ w \in WalkType
  BY <1>4, <1>5 DEF WalkType, WalkPlaces
<1>7. loading = NoList
  BY <1>0 DEF FeedIInv, WalkTyped
<1>8. FeedRowsOk'
  BY <1>0 DEF FeedRowsOk
<1>9. WalkTyped'
  BY <1>0, <1>3, <1>6, <1>7 DEF WalkTyped
<1>10. \A y : Fetched(y)' = Fetched(y)
  <2> SUFFICES ASSUME NEW y PROVE Fetched(y)' = Fetched(y)
    OBVIOUS
  <2>1. u.got \subseteq rows /\ \A q \in u.got : q.type \in u.read
    BY <1>0, <1>3 DEF FetchedOk
  <2>2. Newest(OfType(y), FetchCap)' = Newest(OfType(y), FetchCap)
    <3>1. Newest(OfType(y), FetchCap)' = Newest(OfType(y)', FetchCap)
      BY DEF Newest
    <3>2. OfType(y)' = OfType(y)
      BY <1>0, RowsFrame
    <3> QED BY <3>1, <3>2
  <2>3. CASE y = type
    <3>1. Fetched(y)' = {q \in u.got \cup N : q.type = y}
      BY <1>3, <1>6, <2>3 DEF Fetched
    <3>2. {q \in u.got \cup N : q.type = y} = N
      BY <1>0, <1>2, <1>3, <2>1, <2>3
    <3> QED BY <1>0, <1>1, <2>3, <3>1, <3>2 DEF Fetched
  <2>4. CASE y # type /\ y \in u.read
    <3>1. Fetched(y)' = {q \in u.got \cup N : q.type = y}
      BY <1>3, <1>6, <2>4 DEF Fetched
    <3>2. {q \in u.got \cup N : q.type = y} = {q \in u.got : q.type = y}
      BY <1>2, <2>4
    <3> QED BY <1>3, <2>4, <3>1, <3>2 DEF Fetched
  <2>5. CASE y # type /\ y \notin u.read
    BY <1>3, <1>6, <2>2, <2>5 DEF Fetched
  <2> QED BY <2>3, <2>4, <2>5
<1>11. \A r : AheadOf(r)' = AheadOf(r)
  BY <1>0, <1>10 DEF AheadOf, NewerIn
<1>12. \A r : Owed(r)' => Owed(r)
  BY <1>0, RowsFrame, ExcusedFrame DEF Owed
<1>13. PagesSeen' = PagesSeen
  BY <1>0, <1>3, <1>6 DEF PagesSeen
<1>14. WalkOk'
  BY <1>0, <1>3, <1>6, <1>11, <1>12, <1>13 DEF FeedIInv, WalkOk, Walking
<1>15. CountOk' /\ ItemsOk' /\ BulkAddsUp'
  BY <1>3, <1>6 DEF CountOk, ItemsOk, BulkAddsUp
<1>16. FetchedOk'
  <2>1. w.got \subseteq rows /\ \A q \in w.got : q.type \in w.read
    BY <1>0, <1>2, <1>3, <1>6 DEF FetchedOk
  <2>2. ASSUME NEW y \in w.read, NEW r \in rows
        PROVE  Cardinality(NewerIn(Fetched(y), r)) <= Cardinality(NewerIn(Newest(OfType(y), FetchCap), r))
    <3>1. CASE y \in u.read
      BY <1>0, <1>3, <3>1 DEF FetchedOk
    <3>2. CASE y = type
      <4>1. Fetched(y) = N
        BY <1>0, <1>1, <3>2 DEF Fetched
      <4>2. Cardinality(NewerIn(N, r)) \in Nat
        BY <1>2, NewerFinite
      <4> QED BY <1>1, <3>2, <4>1, <4>2
    <3> QED BY <1>6, <2>2, <3>1, <3>2
  <2>3. ASSUME NEW r \in rows, Owed(r), r.type \in w.read PROVE r \in w.got
    <3>1. CASE r.type \in u.read
      BY <1>0, <1>3, <1>6, <2>3, <3>1 DEF FetchedOk
    <3>2. CASE r.type = type
      <4>1. ~(Cardinality(NewerIn(OfType(type), r)) >= FetchCap)
        BY <1>0, <2>3, <3>2 DEF Owed, Excused
      <4>2. Cardinality(NewerIn(OfType(type), r)) \in Nat
        BY <1>0, TypeFinite, NewerFinite
      <4>3. Cardinality(NewerIn(OfType(type), r)) < FetchCap
        BY <4>1, <4>2, FeedAssumption
      <4>4. r \in N
        BY <1>1, <3>2, <4>3 DEF Newest, NewerIn, OfType
      <4> QED BY <1>6, <4>4
    <3> QED BY <1>6, <2>3, <3>1, <3>2
  <2>4. \A y, r : NewerIn(Fetched(y), r)' = NewerIn(Fetched(y), r)
    BY <1>10 DEF NewerIn
  <2>5. \A y, r : NewerIn(Newest(OfType(y), FetchCap), r)' = NewerIn(Newest(OfType(y), FetchCap), r)
    BY <1>0, RowsFrame DEF NewerIn, Newest
  <2> QED BY <1>0, <1>3, <1>12, <2>1, <2>2, <2>3, <2>4, <2>5 DEF FetchedOk
<1>17. ListsOk'
  BY <1>0, <1>7, ListsStay
<1> QED BY <1>8, <1>9, <1>14, <1>15, <1>16, <1>17 DEF FeedIInv

(***************************************************************************)
(* Pages are shown                                                         *)
(***************************************************************************)

(* Whatever is still owed when a page was shown is behind the page, and there is another one. *)
LEMMA PageShowKeeps ==
  ASSUME FeedIInv, NEW ids, NEW total \in Nat, NEW why, Show(ids, total, why),
         feed # "bulk", walkAt.at # "done", Walking, loading' = NoList, ListsOk',
         \A r \in rows : Owed(r) /\ r.id \notin ids /\ ~Excused(r)' =>
                           walkAt.page * FeedLimit <= AheadOf(r)' /\ walkAt.page * FeedLimit < total
  PROVE  FeedIInv'
<1>0. /\ UNCHANGED <<feed, rows, feedWrites, dueRows, listPrice, updating>>
      /\ shownRows' = shownRows \cup ids /\ excuses' = excuses \cup why
      /\ walkAt' = [walkAt EXCEPT !.at = IF walkAt.page * FeedLimit < total THEN "between" ELSE "done",
                                  !.total = total, !.got = {}, !.read = {}]
  BY DEF Show
<1>1. PICK u, w : u = walkAt /\ w = walkAt' /\ u \in WalkType
  BY DEF FeedIInv, WalkTyped
<1>2. /\ w \in WalkType /\ w.at = (IF u.page * FeedLimit < total THEN "between" ELSE "done")
      /\ w.page = u.page /\ w.total = total /\ w.got = {} /\ w.read = {}
  BY <1>0, <1>1 DEF WalkType, WalkPlaces
<1>3. FeedRowsOk'
  BY <1>0 DEF FeedIInv, FeedRowsOk
<1>4. WalkTyped'
  BY <1>0, <1>1, <1>2 DEF WalkTyped
<1>5. ASSUME NEW r \in rows, Owed(r)'
      PROVE  u.page * FeedLimit <= AheadOf(r)' /\ u.page * FeedLimit < total
  <2>1. ~Excused(r)' /\ r.id \notin ids
    BY <1>0, <1>5 DEF Owed
  <2>2. ~Excused(r)
    BY <1>0, <2>1, ExcusedFrame
  <2>3. Owed(r)
    BY <1>0, <1>5, <2>2, RowsFrame DEF Owed
  <2> QED BY <1>1, <2>1, <2>3
<1>6. WalkOk'
  <2> SUFFICES ASSUME NEW r \in rows, Owed(r)'
               PROVE  w.at = "between" /\ PagesSeen' = u.page /\ u.page * FeedLimit <= AheadOf(r)'
    BY <1>0, <1>1 DEF WalkOk
  <2>1. w.at = "between"
    BY <1>2, <1>5
  <2> QED BY <1>1, <1>2, <1>5, <2>1 DEF PagesSeen
<1>7. CountOk' /\ ItemsOk' /\ BulkAddsUp' /\ FetchedOk'
  BY <1>0, <1>1, <1>2 DEF CountOk, ItemsOk, BulkAddsUp, FetchedOk
<1> QED BY <1>3, <1>4, <1>6, <1>7 DEF FeedIInv

(* In a list of which nothing is tied with the row. *)
LEMMA RowsCompare ==
  ASSUME FeedRowsOk, NEW r \in rows, NEW q \in rows, q # r, feed = "swaps" => q.time # r.time
  PROVE  Precedes(q, r) <=> ~Precedes(r, q)
<1>1. q.id # r.id
  BY DEF FeedRowsOk
<1>2. /\ q.id \in Nat /\ q.time \in Nat /\ q.rank \in Nat /\ r.id \in Nat /\ r.time \in Nat /\ r.rank \in Nat
  BY RowTyped
<1>3. feed # "swaps" => q.time = q.id /\ r.time = r.id
  BY DEF FeedRowsOk
<1>4. CASE feed \in {"pools", "search"}
  BY <1>1, <1>2, <1>4 DEF Precedes, RankedBefore
<1>5. CASE feed \notin {"pools", "search"}
  BY <1>1, <1>2, <1>3, <1>5 DEF Precedes, NewerFirst
<1> QED BY <1>4, <1>5

LEMMA NoneBeforeItself == ASSUME FeedRowsOk, NEW r \in rows PROVE ~Precedes(r, r)
<1>1. r.id \in Nat /\ r.time \in Nat /\ r.rank \in Nat
  BY RowTyped
<1> QED BY <1>1 DEF Precedes, RankedBefore, NewerFirst

(* A page that is cut from the rows that match. *)
LEMMA OwedBehind ==
  ASSUME FeedIInv, feed \notin {"bulk", "activity"}, Walking, walkAt.at # "between",
         NEW s \in Orders(Matching), NEW r \in rows, Owed(r)
  PROVE  \/ r.id \in PageOf(s, walkAt.page)
         \/ /\ walkAt.page * FeedLimit <= AheadOf(r) /\ walkAt.page * FeedLimit < Cardinality(Matching)
            /\ Cardinality(PageOf(s, walkAt.page)) = FeedLimit
<1>0. FeedRowsOk
  BY DEF FeedIInv
<1>1. IsFiniteSet(Matching) /\ Matching \subseteq rows /\ r \in Matching
  BY <1>0, MatchingFinite DEF Owed
<1>2. PICK p \in Nat \ {0} : p = walkAt.page
  BY PagesAre DEF FeedIInv, WalkTyped, WalkType
<1>3. (p - 1) * FeedLimit <= Cardinality(AheadIn(Matching, r))
  BY <1>2 DEF FeedIInv, WalkOk, PagesSeen, AheadOf
<1>4. \A q \in Matching : q # r => (Precedes(q, r) <=> ~Precedes(r, q))
  <2> SUFFICES ASSUME NEW q \in Matching, q # r PROVE Precedes(q, r) <=> ~Precedes(r, q)
    OBVIOUS
  <2>1. q \in rows /\ q.id # r.id
    BY <1>0, <1>1 DEF FeedRowsOk
  <2>2. feed = "swaps" => q.time # r.time
    BY <2>1 DEF Owed, Excused
  <2> QED BY <1>0, <2>1, <2>2, RowsCompare
<1>5. \A q, u \in Matching : q.id = u.id => q = u
  BY <1>0, <1>1 DEF FeedRowsOk
<1>6. ~Precedes(r, r)
  BY <1>0, NoneBeforeItself
<1>7. \/ r.id \in PageOf(s, p)
      \/ /\ p * FeedLimit <= Cardinality(AheadIn(Matching, r)) /\ p * FeedLimit < Cardinality(Matching)
         /\ Cardinality(PageOf(s, p)) = FeedLimit
  BY <1>1, <1>3, <1>4, <1>5, <1>6, PageTaken
<1> QED BY <1>2, <1>7 DEF AheadOf

LEMMA AheadStays == ASSUME feed # "activity", UNCHANGED <<feed, rows>>, NEW r PROVE AheadOf(r)' = AheadOf(r)
BY RowsFrame DEF AheadOf

LEMMA PageKeeps == FeedIInv /\ (ListSwaps \/ ListPositionsByWallet) => FeedIInv'
<1> SUFFICES ASSUME FeedIInv, ListSwaps \/ ListPositionsByWallet PROVE FeedIInv'
  OBVIOUS
<1>0. feed \in {"swaps", "positions"} /\ walkAt.at = "counted" /\ UNCHANGED <<loading, listCache>> /\ FeedRowsOk
  BY DEF ListSwaps, ListPositionsByWallet, FeedIInv
<1>1. PICK s \in Orders(Matching) : Show(PageOf(s, walkAt.page), walkAt.total, {})
  BY DEF ListSwaps, ListPositionsByWallet
<1>2. PICK ids, total : ids = PageOf(s, walkAt.page) /\ total = walkAt.total /\ Show(ids, total, {})
  BY <1>1
<1>3. UNCHANGED <<feed, rows, listPrice, updating>> /\ loading = NoList
  BY <1>0, <1>2 DEF Show, FeedIInv, WalkTyped
<1>4. ListsOk'
  BY <1>0, <1>3, ListsStay
<1>5. total \in Nat /\ Walking
  BY <1>0, <1>2 DEF FeedIInv, WalkTyped, WalkType, Walking
<1>6. ASSUME NEW r \in rows, Owed(r), r.id \notin ids
      PROVE  walkAt.page * FeedLimit <= AheadOf(r)' /\ walkAt.page * FeedLimit < total
  <2>1. walkAt.page * FeedLimit <= AheadOf(r) /\ walkAt.page * FeedLimit < Cardinality(Matching)
    BY <1>0, <1>2, <1>5, <1>6, OwedBehind
  <2>2. total = Cardinality(Matching)
    BY <1>0, <1>2, <1>6 DEF FeedIInv, CountOk, Owed, Excused
  <2>3. AheadOf(r)' = AheadOf(r)
    BY <1>0, <1>3, AheadStays
  <2> QED BY <2>1, <2>2, <2>3
<1> QED BY <1>0, <1>2, <1>3, <1>4, <1>5, <1>6, PageShowKeeps

LEMMA SearchKeeps == FeedIInv /\ SearchPools => FeedIInv'
<1> SUFFICES ASSUME FeedIInv, SearchPools PROVE FeedIInv'
  OBVIOUS
<1>0. feed = "search" /\ walkAt.at = "asked" /\ UNCHANGED <<loading, listCache>> /\ FeedRowsOk
  BY DEF SearchPools, FeedIInv
<1>1. PICK s \in Orders(Matching) :
        Show(PageOf(s, walkAt.page),
             IF Cardinality(PageOf(s, walkAt.page)) < FeedLimit THEN 0 ELSE walkAt.page * FeedLimit + 1, {})
  BY DEF SearchPools
<1>2. PICK ids, total : /\ ids = PageOf(s, walkAt.page)
                        /\ total = (IF Cardinality(ids) < FeedLimit THEN 0 ELSE walkAt.page * FeedLimit + 1)
                        /\ Show(ids, total, {})
  BY <1>1
<1>3. UNCHANGED <<feed, rows, listPrice, updating>> /\ loading = NoList
  BY <1>0, <1>2 DEF Show, FeedIInv, WalkTyped
<1>4. ListsOk'
  BY <1>0, <1>3, ListsStay
<1>5. PICK taken \in Nat : taken = walkAt.page * FeedLimit
  <2>1. PICK p \in Nat : p = walkAt.page
    BY PagesAre DEF FeedIInv, WalkTyped, WalkType
  <2>2. p * FeedLimit \in Nat
    BY FeedAssumption
  <2> QED BY <2>1, <2>2
<1>6. total \in Nat /\ Walking
  BY <1>0, <1>2, <1>5 DEF Walking
<1>7. ASSUME NEW r \in rows, Owed(r), r.id \notin ids
      PROVE  walkAt.page * FeedLimit <= AheadOf(r)' /\ walkAt.page * FeedLimit < total
  <2>1. walkAt.page * FeedLimit <= AheadOf(r) /\ Cardinality(ids) = FeedLimit
    BY <1>0, <1>2, <1>6, <1>7, OwedBehind
  <2>2. total = taken + 1
    BY <1>2, <1>5, <2>1, FeedAssumption
  <2>3. AheadOf(r)' = AheadOf(r)
    BY <1>0, <1>3, AheadStays
  <2> QED BY <1>5, <2>1, <2>2, <2>3
<1> QED BY <1>0, <1>2, <1>3, <1>4, <1>6, <1>7, PageShowKeeps

LEMMA GetPoolsKeeps == FeedIInv /\ GetPools => FeedIInv'
<1> SUFFICES ASSUME FeedIInv, GetPools PROVE FeedIInv'
  OBVIOUS
<1>0. feed = "pools" /\ walkAt.at = "asked" /\ UNCHANGED <<loading, listCache>> /\ FeedRowsOk /\ Walking
  BY DEF GetPools, FeedIInv, Walking
<1>1. PICK c, p : c = listCache[p] /\ p = walkAt.page /\ c # NoList
  BY DEF GetPools
<1>2. PICK why : why = (IF c.outdated THEN {"outdated"} ELSE {}) /\ Show(c.ids, c.total, why)
  BY <1>1 DEF GetPools
<1>3. UNCHANGED <<feed, rows, listPrice, updating>> /\ loading = NoList /\ excuses' = excuses \cup why
  BY <1>0, <1>2 DEF Show, FeedIInv, WalkTyped
<1>4. ListsOk'
  BY <1>0, <1>3, ListsStay
<1>5. ListOk(c, p)
  <2>1. p \in PageNos
    BY <1>1 DEF FeedIInv, WalkTyped, WalkType
  <2> QED BY <1>1, <2>1 DEF FeedIInv, ListsOk
<1>6. c.total \in Nat /\ (~c.outdated => c.total = Cardinality(Matching) /\ \E s \in Orders(Matching) : c.ids = PageOf(s, p))
  BY <1>1, <1>5 DEF ListOk
<1>7. ASSUME NEW r \in rows, Owed(r), r.id \notin c.ids, ~Excused(r)'
      PROVE  walkAt.page * FeedLimit <= AheadOf(r)' /\ walkAt.page * FeedLimit < c.total
  <2>1. ~c.outdated
    BY <1>0, <1>2, <1>3, <1>7 DEF Excused
  <2>2. PICK s \in Orders(Matching) : c.ids = PageOf(s, p)
    BY <1>6, <2>1
  <2>3. walkAt.page * FeedLimit <= AheadOf(r) /\ walkAt.page * FeedLimit < Cardinality(Matching)
    BY <1>0, <1>1, <1>7, <2>2, OwedBehind
  <2>4. AheadOf(r)' = AheadOf(r)
    BY <1>0, <1>3, AheadStays
  <2> QED BY <1>6, <2>1, <2>3, <2>4
<1> QED BY <1>0, <1>2, <1>3, <1>4, <1>6, <1>7, PageShowKeeps

LEMMA CacheListKeeps == FeedIInv /\ CacheList => FeedIInv'
<1> SUFFICES ASSUME FeedIInv, CacheList PROVE FeedIInv'
  OBVIOUS
<1>0. feed = "pools" /\ walkAt.at = "loaded" /\ loading' = NoList /\ FeedRowsOk /\ Walking
      /\ listCache' = [listCache EXCEPT ![walkAt.page] = loading] /\ Show(loading.ids, loading.total, {})
  BY DEF CacheList, FeedIInv, Walking
<1>1. PICK l, p : l = loading /\ p = walkAt.page /\ p \in PageNos /\ l # NoList /\ Show(l.ids, l.total, {})
  BY <1>0 DEF FeedIInv, WalkTyped, WalkType
<1>2. UNCHANGED <<feed, rows, listPrice, updating>>
  BY <1>0 DEF Show
<1>3. PICK c, d : c = listCache /\ d = listCache'
  OBVIOUS
<1>4. c = [q \in PageNos |-> c[q]] /\ (\A q \in PageNos : ListOk(c[q], q)) /\ ListOk(l, p)
  BY <1>1, <1>3 DEF FeedIInv, ListsOk
<1>5. d = [q \in PageNos |-> IF q = p THEN l ELSE c[q]]
  BY <1>0, <1>1, <1>3, <1>4
<1>6. ASSUME NEW q \in PageNos PROVE ListOk(d[q], q)'
  <2>1. PICK b : b = d[q] /\ ListOk(b, q)
    BY <1>4, <1>5
  <2>2. ListOk(b, q)'
    BY <1>2, <2>1, ListStays
  <2> QED BY <2>1, <2>2
<1>7. ListsOk'
  <2>1. d = [q \in PageNos |-> d[q]]
    BY <1>5
  <2> QED BY <1>0, <1>3, <1>6, <2>1 DEF ListsOk, ListOk
<1>8. l.total \in Nat
  BY <1>1, <1>4 DEF ListOk
<1>9. ASSUME NEW r \in rows, Owed(r), r.id \notin l.ids
      PROVE  walkAt.page * FeedLimit <= AheadOf(r)' /\ walkAt.page * FeedLimit < l.total
  <2>1. AheadOf(r)' = AheadOf(r)
    BY <1>0, <1>2, AheadStays
  <2> QED BY <1>0, <1>1, <1>9, <2>1 DEF FeedIInv, WalkOk
<1> QED BY <1>0, <1>1, <1>7, <1>8, <1>9, PageShowKeeps

LEMMA PageLoadKeeps == FeedIInv /\ ListActivePools => FeedIInv'
<1> SUFFICES ASSUME FeedIInv, ListActivePools PROVE FeedIInv'
  OBVIOUS
<1>0. /\ UNCHANGED <<feed, rows, feedWrites, shownRows, dueRows, excuses, listCache, listPrice, updating>>
      /\ feed = "pools" /\ walkAt.at = "asked" /\ walkAt' = [walkAt EXCEPT !.at = "loaded"] /\ FeedRowsOk /\ Walking
  BY DEF ListActivePools, FeedIInv, Walking
<1>1. PICK u, w : u = walkAt /\ w = walkAt' /\ u \in WalkType /\ u.read = {} /\ u.at = "asked"
  BY <1>0 DEF FeedIInv, WalkTyped
<1>2. w \in WalkType /\ w.at = "loaded" /\ w.page = u.page /\ w.total = u.total /\ w.got = u.got /\ w.read = {}
  BY <1>0, <1>1 DEF WalkType, WalkPlaces
<1>3. PICK s \in Orders(Matching) :
        loading' = [ids |-> PageOf(s, u.page), total |-> Len(s), price |-> listPrice, outdated |-> FALSE, missed |-> FALSE]
  BY <1>1 DEF ListActivePools
<1>4. PICK n \in Nat : n = Cardinality(Matching) /\ n = Len(s)
  <2>1. PICK n \in Nat : n = Cardinality(Matching)
    BY <1>0, MatchingFinite
  <2>2. s \in [1..n -> Matching]
    BY <2>1 DEF Orders, SetToSeqs
  <2>3. Len(s) = n
    BY <2>1, <2>2
  <2> QED BY <2>1, <2>3
<1>5. PICK m : m = loading'
  OBVIOUS
<1>6. /\ m = [ids |-> PageOf(s, u.page), total |-> n, price |-> listPrice, outdated |-> FALSE, missed |-> FALSE]
      /\ m # NoList
  <2>1. m = [ids |-> PageOf(s, u.page), total |-> n, price |-> listPrice, outdated |-> FALSE, missed |-> FALSE]
    BY <1>3, <1>4, <1>5
  <2> QED BY <2>1, ListIsSome
<1>7. m.ids = PageOf(s, u.page) /\ m.total = n
  BY <1>6
<1>8. FeedRowsOk'
  BY <1>0 DEF FeedRowsOk
<1>9. WalkTyped'
  BY <1>0, <1>1, <1>2, <1>5, <1>6 DEF WalkTyped
<1>10. ASSUME NEW r \in rows, Owed(r)'
       PROVE  /\ PagesSeen' * FeedLimit <= AheadOf(r)'
              /\ r.id \in m.ids \/ (u.page * FeedLimit <= AheadOf(r)' /\ u.page * FeedLimit < m.total)
  <2>1. Owed(r)
    BY <1>0, <1>10, RowsFrame, ExcusedFrame DEF Owed
  <2>2. AheadOf(r)' = AheadOf(r)
    BY <1>0, AheadStays
  <2>3. PagesSeen' = PagesSeen
    BY <1>1, <1>2 DEF PagesSeen
  <2>4. PagesSeen * FeedLimit <= AheadOf(r)
    BY <1>0, <2>1 DEF FeedIInv, WalkOk
  <2>5. r.id \in PageOf(s, u.page) \/ (u.page * FeedLimit <= AheadOf(r) /\ u.page * FeedLimit < n)
    BY <1>0, <1>1, <1>4, <2>1, OwedBehind
  <2> QED BY <1>7, <2>2, <2>3, <2>4, <2>5
<1>11. WalkOk'
  BY <1>0, <1>1, <1>2, <1>5, <1>10 DEF WalkOk
<1>12. CountOk' /\ ItemsOk' /\ BulkAddsUp' /\ FetchedOk'
  BY <1>0, <1>1, <1>2 DEF CountOk, ItemsOk, BulkAddsUp, FetchedOk
<1>13. ListsOk'
  <2>1. PICK c : c = listCache /\ c = listCache'
    BY <1>0
  <2>2. c = [p \in PageNos |-> c[p]] /\ (\A p \in PageNos : ListOk(c[p], p))
    BY <2>1 DEF FeedIInv, ListsOk
  <2>3. \A p \in PageNos : ListOk(c[p], p)'
    BY <1>0, <2>2, ListStays
  <2>4. ListOk(m, u.page)
    BY <1>0, <1>4, <1>6 DEF ListOk
  <2>5. ListOk(m, u.page)'
    BY <1>0, <2>4, ListStays
  <2> QED BY <1>1, <1>2, <1>5, <2>1, <2>2, <2>3, <2>5 DEF ListsOk, ListOk
<1> QED BY <1>8, <1>9, <1>11, <1>12, <1>13 DEF FeedIInv

(* The page of a merged list: ahead of a row are those of its own type and of the other. *)
LEMMA MergeKeeps == FeedIInv /\ MergeActivity => FeedIInv'
<1> SUFFICES ASSUME FeedIInv, MergeActivity PROVE FeedIInv'
  OBVIOUS
<1>0. feed = "activity" /\ walkAt.read = Types /\ UNCHANGED <<loading, listCache>> /\ FeedRowsOk /\ FetchedOk
  BY DEF MergeActivity, FeedIInv
<1>1. walkAt.at = "merging" /\ loading = NoList /\ walkAt \in WalkType /\ Walking
  BY <1>0 DEF FeedIInv, WalkTyped, Types, Walking
<1>2. PICK got : got = walkAt.got /\ got \subseteq rows
  BY <1>0 DEF FetchedOk
<1>3. PICK s \in Orders(got) : Show(PageOf(s, walkAt.page), Cardinality(got), {})
  BY <1>2 DEF MergeActivity
<1>4. PICK ids, total : ids = PageOf(s, walkAt.page) /\ total = Cardinality(got) /\ Show(ids, total, {})
  BY <1>3
<1>5. UNCHANGED <<feed, rows, listPrice, updating>>
  BY <1>4 DEF Show
<1>6. IsFiniteSet(got) /\ total \in Nat
  <2>1. got \in SUBSET rows
    BY <1>2
  <2>2. IsFiniteSet(got)
    BY <1>0, <2>1, FS_Subset DEF FeedRowsOk
  <2> QED BY <1>4, <2>2, FS_CardinalityType
<1>7. ListsOk'
  BY <1>0, <1>1, <1>5, ListsStay
<1>8. PICK p \in Nat \ {0} : p = walkAt.page
  BY <1>1, PagesAre DEF WalkType
<1>9. walkAt'.read = {}
  BY <1>1, <1>4 DEF Show, WalkType
<1>10. ASSUME NEW r \in rows, Owed(r), r.id \notin ids
       PROVE  walkAt.page * FeedLimit <= AheadOf(r)' /\ walkAt.page * FeedLimit < total
  <2>1. r \in got
    <3>1. r.type \in Types
      BY <1>0, RowTyped
    <3> QED BY <1>0, <1>2, <1>10, <3>1 DEF FetchedOk
  <2>2. \A q \in got : q # r => (Precedes(q, r) <=> ~Precedes(r, q))
    BY <1>0, <1>2, RowsCompare
  <2>3. (\A q, u \in got : q.id = u.id => q = u) /\ ~Precedes(r, r)
    BY <1>0, <1>2, NoneBeforeItself DEF FeedRowsOk
  <2>4. PICK M, B : M = NewerIn(Fetched("mint"), r) /\ B = NewerIn(Fetched("burn"), r)
    OBVIOUS
  <2>5. M = {q \in got : q.type = "mint" /\ q.time > r.time} /\ B = {q \in got : q.type = "burn" /\ q.time > r.time}
    BY <1>0, <1>2, <2>4 DEF NewerIn, Fetched, Types
  <2>6. AheadIn(got, r) = M \cup B /\ M \cap B = {}
    <3>1. \A q \in got : q.type = "mint" \/ q.type = "burn"
      BY <1>0, <1>2, RowTyped DEF Types
    <3>2. \A q \in got : Precedes(q, r) <=> q.time > r.time
      BY <1>0 DEF Precedes, NewerFirst
    <3> QED BY <2>5, <3>1, <3>2 DEF AheadIn
  <2>7. IsFiniteSet(M) /\ IsFiniteSet(B)
    BY <1>0, <2>4, FetchedFinite, NewerFinite
  <2>8. PICK m \in Nat, b \in Nat : m = Cardinality(M) /\ b = Cardinality(B)
    BY <2>7, FS_CardinalityType
  <2>9. Cardinality(AheadIn(got, r)) = m + b
    <3>1. Cardinality(M \cap B) = 0
      BY <2>6, FS_EmptySet
    <3>2. Cardinality(M \cup B) = m + b - Cardinality(M \cap B)
      BY <2>7, <2>8, FS_Union
    <3> QED BY <2>6, <2>8, <3>1, <3>2
  <2>10. AheadOf(r) = m + b
    BY <1>0, <2>4, <2>8 DEF AheadOf
  <2>11. (p - 1) * FeedLimit <= Cardinality(AheadIn(got, r))
    <3>1. PagesSeen = p - 1
      BY <1>1, <1>8 DEF PagesSeen
    <3> QED BY <1>0, <1>1, <1>10, <2>9, <2>10, <3>1 DEF FeedIInv, WalkOk
  <2>12. p * FeedLimit <= m + b /\ p * FeedLimit < Cardinality(got)
    <3>1. \/ r.id \in PageOf(s, p)
          \/ p * FeedLimit <= Cardinality(AheadIn(got, r)) /\ p * FeedLimit < Cardinality(got)
      BY <1>6, <2>1, <2>2, <2>3, <2>11, PageTaken
    <3> QED BY <1>4, <1>8, <1>10, <2>9, <3>1
  <2>13. PICK N, O : N = NewerIn(Newest(OfType("mint"), FetchCap), r) /\ O = NewerIn(Newest(OfType("burn"), FetchCap), r)
    OBVIOUS
  <2>14. PICK n \in Nat, o \in Nat : n = Cardinality(N) /\ o = Cardinality(O)
    BY <1>0, <2>13, TypeFinite, NewestFinite, NewerFinite
  <2>15. m <= n /\ b <= o
    BY <1>0, <2>4, <2>8, <2>13, <2>14 DEF FetchedOk, Types
  <2>16. AheadOf(r)' = n + o
    <3>1. Fetched("mint")' = Newest(OfType("mint"), FetchCap)' /\ Fetched("burn")' = Newest(OfType("burn"), FetchCap)'
      BY <1>9 DEF Fetched
    <3>2. /\ Newest(OfType("mint"), FetchCap)' = Newest(OfType("mint")', FetchCap)
          /\ Newest(OfType("burn"), FetchCap)' = Newest(OfType("burn")', FetchCap)
      BY DEF Newest
    <3>3. OfType("mint")' = OfType("mint") /\ OfType("burn")' = OfType("burn")
      BY <1>5, RowsFrame
    <3>4. /\ NewerIn(Fetched("mint"), r)' = NewerIn(Fetched("mint")', r)
          /\ NewerIn(Fetched("burn"), r)' = NewerIn(Fetched("burn")', r)
      BY DEF NewerIn
    <3>5. NewerIn(Fetched("mint"), r)' = N /\ NewerIn(Fetched("burn"), r)' = O
      BY <2>13, <3>1, <3>2, <3>3, <3>4
    <3>6. AheadOf(r)' = Cardinality(NewerIn(Fetched("mint"), r)') + Cardinality(NewerIn(Fetched("burn"), r)')
      BY <1>0, <1>5 DEF AheadOf
    <3> QED BY <2>14, <3>5, <3>6
  <2>17. PICK x \in Int : x = p * FeedLimit
    BY FeedAssumption
  <2>18. x <= n + o
    BY <2>12, <2>15, <2>17
  <2> QED BY <1>4, <1>8, <2>12, <2>16, <2>17, <2>18
<1> QED BY <1>0, <1>1, <1>4, <1>6, <1>7, <1>10, PageShowKeeps

(***************************************************************************)
(* Every step, and what follows                                            *)
(***************************************************************************)

LEMMA FeedStarts == FeedInit => FeedIInv
<1> SUFFICES ASSUME FeedInit PROVE FeedIInv
  OBVIOUS
<1>1. FeedRowsOk
  BY FS_EmptySet DEF FeedInit, FeedRowsOk
<1>2. walkAt = [at |-> "idle", page |-> 1, total |-> 0, got |-> {}, read |-> {}]
  BY DEF FeedInit, NoWalk
<1>3. WalkTyped
  BY <1>2, PagesAre DEF FeedInit, WalkTyped, WalkType, WalkPlaces
<1>4. WalkOk /\ CountOk /\ FetchedOk /\ ItemsOk /\ BulkAddsUp
  BY <1>2 DEF FeedInit, WalkOk, CountOk, FetchedOk, ItemsOk, BulkAddsUp
<1>5. ListsOk
  BY DEF FeedInit, ListsOk, ListOk
<1> QED BY <1>1, <1>3, <1>4, <1>5 DEF FeedIInv

LEMMA FeedStutters == FeedIInv /\ UNCHANGED feedVars => FeedIInv'
<1> SUFFICES ASSUME FeedIInv, UNCHANGED feedVars PROVE FeedIInv'
  OBVIOUS
<1>1. UNCHANGED <<feed, rows, walkAt, shownRows, dueRows, excuses, listPrice, updating, listCache, loading>>
  BY DEF feedVars
<1>2. ListsOk'
  BY <1>1, ListsStay
<1> QED BY <1>1, <1>2, WalkStays

LEMMA FeedKeeps == FeedIInv /\ [FeedNext]_feedVars => FeedIInv'
<1> SUFFICES ASSUME FeedIInv, FeedNext PROVE FeedIInv'
  BY FeedStutters
<1>1. ASSUME NEW id \in FeedRows, NEW type \in Types, NEW t \in FeedRows, NEW k \in FeedRanks, AddRow(id, type, t, k)
      PROVE  FeedIInv'
  BY <1>1, AddRowKeeps
<1>2. ASSUME NEW r \in rows, CloseRow(r) PROVE FeedIInv'
  BY <1>2, CloseRowKeeps
<1>3. ASSUME NEW r \in rows, NEW k \in FeedRanks, Rerank(r, k) PROVE FeedIInv'
  BY <1>3, RerankKeeps
<1>4. ASSUME NEW type \in Types, ReadActivity(type) PROVE FeedIInv'
  BY <1>4, ReadActivityKeeps
<1>5. ASSUME NEW p \in PageNos, ExpireList(p) PROVE FeedIInv'
  BY <1>5, ExpireKeeps
<1>6. UpsertPoolState \/ InvalidateListCache \/ StartWalk \/ NextPage => FeedIInv'
  BY UpdateKeeps, DropKeeps, WalkStartKeeps, NextPageKeeps
<1>7. CASE \/ CountSwaps \/ ListSwaps \/ CountPositions \/ ListPositionsByWallet \/ ListPositionsByWallets
           \/ MergeActivity \/ GetPools \/ ListActivePools \/ CacheList \/ SearchPools
  BY <1>7, CountKeeps, PageKeeps, BulkKeeps, MergeKeeps, GetPoolsKeeps, PageLoadKeeps, CacheListKeeps, SearchKeeps
<1>8. CASE \/ \E id \in FeedRows, type \in Types, t \in FeedRows, k \in FeedRanks : AddRow(id, type, t, k)
           \/ \E r \in rows : CloseRow(r) \/ \E k \in FeedRanks : Rerank(r, k)
  BY <1>1, <1>2, <1>3, <1>8
<1>9. CASE (\E type \in Types : ReadActivity(type)) \/ (\E p \in PageNos : ExpireList(p))
  BY <1>4, <1>5, <1>9
<1> QED BY <1>6, <1>7, <1>8, <1>9 DEF FeedNext

LEMMA FeedRight == FeedIInv => FeedInv
<1> SUFFICES ASSUME FeedIInv PROVE FeedInv
  OBVIOUS
<1>1. NoRowSkipped
  <2> SUFFICES ASSUME walkAt.at = "done", feed # "bulk", NEW id \in dueRows \cap Ids(Matching)
               PROVE  id \in shownRows \/ Explained(id)
    BY DEF NoRowSkipped
  <2>1. PICK r \in Matching : r.id = id
    BY DEF Ids
  <2>2. r \in rows
    BY <2>1 DEF Matching
  <2>3. ~Owed(r)
    BY <2>2 DEF FeedIInv, WalkOk
  <2>4. Row(id) = r
    BY <2>1, <2>2 DEF Row, FeedIInv, FeedRowsOk
  <2>5. ASSUME Excused(r) PROVE Explained(id)
    <3>1. CASE feed = "swaps"
      BY <2>1, <2>4, <2>5, <3>1 DEF Excused, Explained, Tied
    <3>2. CASE feed = "activity"
      <4>1. {q \in rows : q.type = r.type /\ q.time > r.time} = NewerIn(OfType(r.type), r)
        BY DEF NewerIn, OfType
      <4> QED BY <2>4, <2>5, <3>2, <4>1 DEF Excused, Explained, Capped
    <3>3. CASE feed \notin {"swaps", "activity"}
      BY <2>5, <3>3 DEF Excused, Explained
    <3> QED BY <3>1, <3>2, <3>3
  <2> QED BY <2>1, <2>3, <2>5 DEF Owed
<1>2. ListIsFresh
  BY DEF FeedIInv, ListsOk, ListOk, ListIsFresh
<1> QED BY <1>1, <1>2 DEF FeedIInv, FeedInv

(* Paging: a row that was there when a walk began and still is when it ends was on a page, or one of *)
(* the excuses holds; the bulk answer adds up; and a cached page has the price of its pools: for any *)
(* feeds, rows, page length, cap and ranks, and however writers, counts, queries and the cache        *)
(* interleave (swaps.service.ts, positions.repository.ts, activity.repository.ts, pools.service.ts). *)
THEOREM FeedsSound == FeedInit /\ [][FeedNext]_feedVars => []FeedInv
<1>1. FeedInit => FeedIInv
  BY FeedStarts
<1>2. FeedIInv /\ [FeedNext]_feedVars => FeedIInv'
  BY FeedKeeps
<1>3. FeedIInv => FeedInv
  BY FeedRight
<1> QED BY <1>1, <1>2, <1>3, PTL

-----------------------------------------------------------------------------
(* Each of these next to the services that share the run with it: a step is one of its own, or      *)
(* changes nothing of it.                                                                        *)
ReadsIInv == FeedIInv /\ ViewsIInv /\ QueueIInv /\ LagIInv /\ AnalyticsIInv

LEMMA ReadsKeep == ReadsIInv /\ [Next]_vars => ReadsIInv'
<1> SUFFICES ASSUME ReadsIInv, [Next]_vars PROVE ReadsIInv'
  OBVIOUS
<1>1. [FeedNext]_feedVars
  BY DEF Next, vars, readVars, OnRequest, OnJob, OnRead, OnAdmin, Rate, Auth, Flight, Fanout, Candle, Stats, Token, Send,
         Quote, Page, Views, Status, LagOf, Admin
<1>2. [PositionViewsNext]_viewVars
  BY DEF Next, vars, readVars, OnRequest, OnJob, OnRead, OnAdmin, Rate, Auth, Flight, Fanout, Candle, Stats, Token, Send,
         Quote, Page, Views, Status, LagOf, Admin
<1>3. [MonitorNext]_monitorVars
  BY DEF Next, vars, adminVars, OnRequest, OnJob, OnRead, OnAdmin, Rate, Auth, Flight, Fanout, Candle, Stats, Token, Send,
         Quote, Page, Views, Status, LagOf, Admin, MonitorNext
<1>4. [AnalyticsNext]_analyticsVars
  BY DEF Next, vars, adminVars, OnRequest, OnJob, OnRead, OnAdmin, Rate, Auth, Flight, Fanout, Candle, Stats, Token, Send,
         Quote, Page, Views, Status, LagOf, Admin
<1> QED BY <1>1, <1>2, <1>3, <1>4, FeedKeeps, ViewsKeep, MonitorKeeps, AnalyticsKeeps DEF ReadsIInv

(* What the read-only endpoints and the operators' views say is what the rows, the queues, the     *)
(* ledgers and the events of the time say, whatever is written while they read.                   *)
THEOREM ReadsSound == Spec => []ReadsAreHonest
<1>1. Init => ReadsIInv
  BY FeedStarts, ViewsStart, QueueStarts, LagStarts, AnalyticsStarts DEF Init, ReadsIInv
<1>2. QueueIInv /\ LagIInv => MonitorInv
  BY DEF QueueIInv, LagIInv, MonitorInv
<1>3. ReadsIInv => ReadsAreHonest
  BY <1>2, FeedRight, ViewsRight, FiguresAgree DEF ReadsIInv, ReadsAreHonest
<1> QED BY <1>1, <1>3, ReadsKeep, PTL DEF Spec
=============================================================================
