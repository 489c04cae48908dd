--------------------------- MODULE Delivery_proofs ---------------------------
(***************************************************************************)
(* What holds of the two ends of the event pipeline for every value of     *)
(* their constants.                                                        *)
(*                                                                         *)
(* The poller: no effect behind a cursor was skipped.  That needs that the *)
(* page in hand has every effect between the cursor and its last record,   *)
(* and that a pool found in it is tracked from before all its effects.     *)
(*                                                                         *)
(* The webhooks, for every set of webhooks, processes and jobs.  The bound *)
(* on the attempts needs that a job is in the hands of one handler at      *)
(* most, and that the log is complete needs sums over the jobs of a        *)
(* webhook.  That a done job was delivered, and that counter and log       *)
(* agree, needs beside it that nobody else writes a webhook's counter      *)
(* between a handler's read and its write: one process.                    *)
(***************************************************************************)
EXTENDS HorizonPoller, Webhooks, Sums, SequenceTheorems, TLAPS

----------------------------------------------------------------------------
(* The poller *)

(* A poll at rest holds no account; one in progress is at a tracked account. *)
RoundTracked ==
    /\ mode = "down" => pc = "idle" /\ tracked = <<>>
    /\ pc # "idle" => round # <<>>
    /\ ToSet(round) \subseteq ToSet(tracked)

(* Every effect of the account between its cursor and a record in hand is in *)
(* hand.                                                                     *)
PageComplete ==
    \A id \in page : \A o \in EffectIds :
        o[1] = Account /\ cursors[Account] < Token(o) /\ Token(o) <= Token(id) => o \in page

(* The records in hand are ahead of the account's cursor, which was not 'now', *)
(* and the pools created by those already looked at are tracked.             *)
PageInHand ==
    pc \in {"record", "enqueue"} =>
        /\ page # {} /\ pageStart # Now /\ cursors[Account] # Now
        /\ \A id \in page : /\ id[1] = Account
                            /\ Token(id) > pageStart /\ Token(id) > cursors[Account]
        /\ PageComplete
        /\ seen \subseteq Window
        /\ \A id \in seen : EffectOf(id).creates # NoAccount
                               => EffectOf(id).creates \in ToSet(tracked)
        /\ pc = "enqueue" <=> seen = Window

PollerIInv == PollerInv /\ RoundTracked /\ PageInHand

----------------------------------------------------------------------------
(* Effects and tokens *)

LEMMA NextMultiple ==
    ASSUME NEW l \in Nat, NEW m \in Nat, NEW s \in Nat, l < m
    PROVE  l * s + s <= m * s
  <1>1. (l + 1) * s <= m * s
    BY TimesGrows
  <1>2. (l + 1) * s = l * s + s
    OBVIOUS
  <1> QED BY <1>1, <1>2

LEMMA EffectFacts ==
    ASSUME NEW id \in EffectIds
    PROVE  /\ id[1] \in Accounts /\ EffectOf(id) \in Effect
           /\ EffectOf(id).ledger \in Nat /\ EffectOf(id).ledger >= 1
           /\ EffectOf(id).place \in Nat /\ EffectOf(id).place < LedgerSpan
           /\ Token(id) \in Nat /\ Token(id) >= LedgerSpan
  <1>1. PICK a \in Accounts : id \in {a} \X (1 .. Len(Chain[a]))
    BY DEF EffectIds
  <1>2. id[1] = a /\ id[2] \in 1 .. Len(Chain[a])
    BY <1>1
  <1>3. Chain[a] \in Seq(Effect)
    BY PollerAssumption
  <1>4. EffectOf(id) \in Effect
    BY <1>2, <1>3 DEF EffectOf
  <1>5. /\ EffectOf(id).ledger \in Nat /\ EffectOf(id).ledger >= 1
        /\ EffectOf(id).place \in Nat /\ EffectOf(id).place < LedgerSpan
    BY <1>4, PollerAssumption DEF Effect
  <1>6. PICK l \in Nat : l = EffectOf(id).ledger
    BY <1>5
  <1>7. 0 * LedgerSpan + LedgerSpan <= l * LedgerSpan
    <2>1. 0 \in Nat /\ 0 < l /\ LedgerSpan \in Nat
      BY <1>5, <1>6, PollerAssumption
    <2> QED BY ONLY <2>1, l \in Nat, NextMultiple
  <1>8. l * LedgerSpan \in Nat
    BY PollerAssumption
  <1>9. Token(id) \in Nat /\ Token(id) >= LedgerSpan
    <2>1. PICK x \in Nat, p \in Nat : x = l * LedgerSpan /\ p = EffectOf(id).place
      BY <1>5, <1>8
    <2>2. Token(id) = x + p /\ LedgerSpan <= x
      BY <1>6, <1>7, <2>1, PollerAssumption DEF Token
    <2> QED BY <2>2, PollerAssumption
  <1> QED BY <1>2, <1>4, <1>5, <1>9

(* The order of tokens is the order of ledgers. *)
LEMMA LaterLedger ==
    ASSUME NEW id \in EffectIds, NEW o \in EffectIds, EffectOf(id).ledger < EffectOf(o).ledger
    PROVE  Token(id) < Token(o)
  <1>1. PICK l \in Nat : l = EffectOf(id).ledger
    BY EffectFacts
  <1>2. PICK m \in Nat : m = EffectOf(o).ledger
    BY EffectFacts
  <1>3. l * LedgerSpan + LedgerSpan <= m * LedgerSpan
    BY <1>1, <1>2, NextMultiple, PollerAssumption
  <1>4. l * LedgerSpan \in Nat /\ m * LedgerSpan \in Nat
    BY PollerAssumption
  <1>5. /\ EffectOf(id).place \in Nat /\ EffectOf(id).place < LedgerSpan
        /\ EffectOf(o).place \in Nat
    BY EffectFacts
  <1>6. Token(id) = l * LedgerSpan + EffectOf(id).place /\ Token(o) = m * LedgerSpan + EffectOf(o).place
    BY <1>1, <1>2 DEF Token
  <1>7. PICK p \in Nat, q \in Nat : p = EffectOf(id).place /\ q = EffectOf(o).place /\ p < LedgerSpan
    BY <1>5
  <1>8. Token(id) = l * LedgerSpan + p /\ Token(o) = m * LedgerSpan + q
    BY <1>6, <1>7
  <1>9. PICK x \in Nat, y \in Nat : x = l * LedgerSpan /\ y = m * LedgerSpan
    BY <1>4
  <1>10. x + LedgerSpan <= y /\ Token(id) = x + p /\ Token(o) = y + q
    BY <1>3, <1>8, <1>9
  <1> QED BY <1>7, <1>10, PollerAssumption

LEMMA LedgerOrder ==
    ASSUME NEW id \in EffectIds, NEW o \in EffectIds, Token(id) <= Token(o)
    PROVE  EffectOf(id).ledger <= EffectOf(o).ledger
  BY LaterLedger, EffectFacts

(* The oldest of some effects. *)
LEMMA OldestOf ==
    ASSUME NEW R, R \subseteq EffectIds, R # {}
    PROVE  Oldest(R) \in R /\ \A o \in R : Token(Oldest(R)) <= Token(o)
  <1>1. {Token(id) : id \in R} \subseteq Nat /\ {Token(id) : id \in R} # {}
    BY EffectFacts
  <1>2. PICK n \in {Token(id) : id \in R} : \A m \in {Token(id) : id \in R} : n <= m
    BY <1>1, LeastNatural
  <1>3. PICK id \in R : \A o \in R : Token(id) <= Token(o)
    BY <1>2
  <1> QED BY <1>3 DEF Oldest

(* The newest of some effects of one ledger. *)
LEMMA NewestOf ==
    ASSUME NEW R, R \subseteq EffectIds, R # {},
           NEW l \in Nat, \A id \in R : EffectOf(id).ledger = l
    PROVE  Newest(R) \in R /\ \A o \in R : Token(o) <= Token(Newest(R))
  <1>1. PICK top \in Nat : top = l * LedgerSpan + LedgerSpan
    BY PollerAssumption
  <1>2. ASSUME NEW id \in R PROVE top - Token(id) \in Nat
    <2>1. EffectOf(id).place \in Nat /\ EffectOf(id).place < LedgerSpan /\ EffectOf(id).ledger = l
      BY EffectFacts
    <2>2. l * LedgerSpan \in Nat
      BY PollerAssumption
    <2>3. Token(id) = l * LedgerSpan + EffectOf(id).place
      BY <2>1 DEF Token
    <2> QED BY <1>1, <2>1, <2>2, <2>3, PollerAssumption
  <1>3. {top - Token(id) : id \in R} \subseteq Nat /\ {top - Token(id) : id \in R} # {}
    BY <1>2
  <1>4. PICK n \in {top - Token(id) : id \in R} : \A m \in {top - Token(id) : id \in R} : n <= m
    BY <1>3, LeastNatural
  <1>5. PICK id \in R : n = top - Token(id)
    BY <1>4
  <1>6. ASSUME NEW o \in R PROVE Token(o) <= Token(id)
    <2>1. top - Token(id) <= top - Token(o)
      BY <1>4, <1>5
    <2>2. Token(id) \in Nat /\ Token(o) \in Nat
      BY EffectFacts
    <2> QED BY <2>1, <2>2
  <1> QED BY <1>5, <1>6 DEF Newest

(* A window is of one ledger, and what is older than one of its effects is   *)
(* in it or in no window to come.                                            *)
LEMMA WindowFacts ==
    ASSUME NEW R, R \subseteq EffectIds, R # {}
    PROVE  /\ WindowOf(R) \subseteq R /\ WindowOf(R) # {}
           /\ \E l \in Nat : /\ \A id \in WindowOf(R) : EffectOf(id).ledger = l
                             /\ \A id \in R \ WindowOf(R) : EffectOf(id).ledger > l
  <1>1. Oldest(R) \in R /\ \A o \in R : Token(Oldest(R)) <= Token(o)
    BY OldestOf
  <1>2. PICK first \in R : first = Oldest(R)
    BY <1>1
  <1>3. \A o \in R : EffectOf(first).ledger <= EffectOf(o).ledger
    BY <1>1, <1>2, LedgerOrder
  <1>4. first \in WindowOf(R)
    BY <1>3 DEF WindowOf
  <1>5. PICK l \in Nat : l = EffectOf(first).ledger
    BY EffectFacts
  <1>6. \A id \in R : EffectOf(id).ledger \in Nat
    BY EffectFacts
  <1>7. ASSUME NEW id \in WindowOf(R) PROVE EffectOf(id).ledger = l
    <2>1. id \in R /\ EffectOf(id).ledger <= EffectOf(first).ledger
      BY DEF WindowOf
    <2> QED BY <2>1, <1>3, <1>5, <1>6
  <1>8. ASSUME NEW id \in R \ WindowOf(R) PROVE EffectOf(id).ledger > l
    <2>1. PICK o \in R : ~(EffectOf(id).ledger <= EffectOf(o).ledger)
      BY DEF WindowOf
    <2>2. EffectOf(o).ledger >= l
      BY <1>3, <1>5
    <2> QED BY <2>1, <2>2, <1>6
  <1>9. WindowOf(R) \subseteq R
    BY DEF WindowOf
  <1> QED BY <1>4, <1>7, <1>8, <1>9

LEMMA AfterFinite ==
    ASSUME NEW a \in Accounts, NEW c
    PROVE  IsFiniteSet(After(a, c)) /\ After(a, c) \subseteq EffectIds
  <1>1. Len(Chain[a]) \in Nat
    BY PollerAssumption
  <1>2. IsFiniteSet(1 .. Len(Chain[a]))
    <2>1. 1 \in Int /\ Len(Chain[a]) \in Int
      BY <1>1
    <2> QED BY <2>1, FS_Interval
  <1>3. IsFiniteSet({a})
    BY FS_Singleton
  <1>4. IsFiniteSet({a} \X (1 .. Len(Chain[a])))
    BY <1>2, <1>3, FS_Product
  <1>5. After(a, c) \subseteq {a} \X (1 .. Len(Chain[a]))
    BY DEF After
  <1>6. IsFiniteSet(After(a, c))
    BY <1>4, <1>5, FS_Subset
  <1> QED BY <1>5, <1>6 DEF EffectIds

(* Horizon's page: effects of the account after the cursor, with every       *)
(* effect between the cursor and one of them.                                *)
LEMMA PageFacts ==
    ASSUME NEW a \in Accounts, NEW c \in Nat \cup {Now}, closed \in Nat
    PROVE  /\ Page(a, c) \subseteq EffectIds
           /\ Page(a, c) # {} => c # Now
           /\ \A id \in Page(a, c) : id[1] = a /\ Token(id) > c
           /\ \A id \in Page(a, c) : \A o \in EffectIds :
                  o[1] = a /\ c < Token(o) /\ Token(o) <= Token(id) => o \in Page(a, c)
  <1>1. IsFiniteSet(After(a, c)) /\ After(a, c) \subseteq EffectIds
    BY AfterFinite
  <1>2. Page(a, c) \subseteq After(a, c)
    BY DEF Page
  <1>3. \A id \in After(a, c) : id[1] = a /\ Token(id) > c /\ EffectOf(id).ledger <= closed
    BY DEF After
  <1>4. ASSUME NEW id \in Page(a, c), NEW o \in EffectIds,
               o[1] = a, c < Token(o), Token(o) <= Token(id)
        PROVE  o \in Page(a, c)
    <2>1. id \in After(a, c) /\ c # Now
      BY <1>2 DEF Page
    <2>2. EffectOf(o).ledger <= closed
      <3>1. EffectOf(o).ledger <= EffectOf(id).ledger
        BY <1>1, <1>4, <2>1, LedgerOrder
      <3> QED BY <3>1, <2>1, <1>3, <1>1, EffectFacts
    <2>3. o \in After(a, c)
      <3>1. PICK b \in Accounts : o \in {b} \X (1 .. Len(Chain[b]))
        BY DEF EffectIds
      <3>2. b = a
        BY <3>1, <1>4
      <3> QED BY <3>1, <3>2, <2>2, <1>4 DEF After
    <2> DEFINE Upto(e) == {n \in After(a, c) : Token(n) <= Token(e)}
    <2>4. Upto(o) \subseteq Upto(id)
      <3>1. \A n \in After(a, c) : Token(n) \in Nat
        BY <1>1, EffectFacts
      <3>2. Token(o) \in Nat /\ Token(id) \in Nat
        BY <2>1, <1>1, EffectFacts
      <3> QED BY <3>1, <3>2, <1>4
    <2>5. IsFiniteSet(Upto(id))
      BY <1>1, FS_Subset
    <2>6. IsFiniteSet(Upto(o)) /\ Cardinality(Upto(o)) <= Cardinality(Upto(id))
      BY <2>4, <2>5, FS_Subset
    <2>7. Cardinality(Upto(id)) \in Nat /\ Cardinality(Upto(o)) \in Nat
      BY <2>5, <2>6, FS_CardinalityType
    <2>8. Cardinality(Upto(id)) <= PageLimit
      BY <2>1 DEF Page
    <2>9. Cardinality(Upto(o)) <= PageLimit
      BY <2>6, <2>7, <2>8, PollerAssumption
    <2> QED BY <2>1, <2>3, <2>9 DEF Page
  <1>5. Page(a, c) # {} => c # Now
    BY DEF Page
  <1> QED BY <1>1, <1>2, <1>3, <1>4, <1>5

----------------------------------------------------------------------------
(* Steps *)

(* Any set of finitely many accounts can be put in order.                    *)
LEMMA InOrder ==
    ASSUME NEW S, IsFiniteSet(S)
    PROVE  /\ SetToSeq(S) \in Seq(S) /\ IsInjective(SetToSeq(S))
           /\ ToSet(SetToSeq(S)) \subseteq S
  <1>1. Cardinality(S) \in Nat /\ ExistsBijection(1 .. Cardinality(S), S)
    BY FS_CardinalityType
  <1>2. PICK f \in Bijection(1 .. Cardinality(S), S) : TRUE
    BY <1>1 DEF ExistsBijection
  <1>3. f \in [1 .. Cardinality(S) -> S] /\ IsInjective(f)
    BY <1>2 DEF Bijection, Injection, IsInjective
  <1>4. PICK g : g = SetToSeq(S)
    OBVIOUS
  <1>5. g \in [1 .. Cardinality(S) -> S] /\ IsInjective(g)
    BY <1>3, <1>4 DEF SetToSeq
  <1>6. g \in Seq(S)
    BY <1>1, <1>5
  <1>7. ToSet(g) \subseteq S
    BY <1>5 DEF ToSet
  <1> QED BY <1>4, <1>5, <1>6, <1>7

(* The next account of the round, or the end of the round.                   *)
LEMMA RoundGoesOn ==
    ASSUME PollerTypeOK, RoundTracked, pc # "idle", NEW f \in BOOLEAN, NextAccount(f),
           mode' = mode, tracked' = tracked
    PROVE  /\ round' \in Seq(Accounts) /\ pc' \in {"idle", "fetch"}
           /\ page' = {} /\ seen' = {} /\ pageStart' = Now
           /\ failing' \in BOOLEAN /\ waiting' \in BOOLEAN
           /\ RoundTracked'
  <1>1. round \in Seq(Accounts) /\ round # <<>>
    BY DEF PollerTypeOK, RoundTracked
  <1>2. page' = {} /\ seen' = {} /\ pageStart' = Now
    BY DEF NextAccount
  <1>3. mode # "down"
    BY DEF RoundTracked
  <1>4. CASE Len(round) > 1
    <2>1. pc' = "fetch" /\ round' = Tail(round) /\ failing' = f /\ waiting' = waiting
      BY <1>4 DEF NextAccount
    <2>2. /\ Tail(round) \in Seq(Accounts) /\ Tail(round) # <<>>
          /\ \A i \in DOMAIN Tail(round) : i + 1 \in DOMAIN round /\ Tail(round)[i] = round[i + 1]
      <3>1. /\ Tail(round) \in Seq(Accounts) /\ Len(Tail(round)) = Len(round) - 1
            /\ \A i \in 1 .. Len(Tail(round)) : Tail(round)[i] = round[i + 1]
        BY <1>1, HeadTailProperties
      <3>2. Tail(round) # <<>>
        <4>1. PICK t \in Seq(Accounts) : t = Tail(round)
          BY <3>1
        <4>2. PICK n \in Nat : n = Len(round)
          BY <1>1
        <4>3. n > 1 /\ Len(t) = n - 1
          BY <1>4, <3>1, <4>1, <4>2
        <4>4. t # << >>
          BY <4>3
        <4> QED BY <4>1, <4>4
      <3>3. DOMAIN Tail(round) = 1 .. Len(round) - 1 /\ DOMAIN round = 1 .. Len(round)
        BY <1>1, <3>1
      <3>4. Len(round) \in Nat
        BY <1>1
      <3> QED BY <3>1, <3>2, <3>3, <3>4
    <2>3. ToSet(Tail(round)) \subseteq ToSet(round)
      BY <2>2 DEF ToSet
    <2>4. RoundTracked'
      BY <1>3, <2>1, <2>2, <2>3 DEF RoundTracked
    <2> QED BY <1>2, <2>1, <2>2, <2>4 DEF PollerTypeOK
  <1>5. CASE ~(Len(round) > 1)
    <2>1. pc' = "idle" /\ round' = <<>> /\ failing' = FALSE /\ waiting' = f
      BY <1>5 DEF NextAccount
    <2>2. ToSet(<< >>) = {}
      BY DEF ToSet
    <2>3. RoundTracked'
      BY <1>3, <2>1, <2>2 DEF RoundTracked
    <2>4. << >> \in Seq(Accounts)
      OBVIOUS
    <2> QED BY <1>2, <2>1, <2>3, <2>4
  <1> QED BY <1>4, <1>5

LEMMA SkipFrame ==
    ASSUME NothingSkipped, tracked' = tracked, cursors' = cursors, enqueued \subseteq enqueued'
    PROVE  NothingSkipped'
  BY DEF NothingSkipped, Token, EffectOf, Indexable

LEMMA HandFrame ==
    ASSUME PageInHand, UNCHANGED <<tracked, cursors, pc, round, page, seen, pageStart>>
    PROVE  PageInHand'
  BY DEF PageInHand, PageComplete, Account, Window, WindowOf, Token, EffectOf

LEMMA DurableFrame ==
    ASSUME durable \subseteq {EffectOf(id).ledger : id \in enqueued}, durable' = durable,
           enqueued \subseteq enqueued'
    PROVE  (durable \subseteq {EffectOf(id).ledger : id \in enqueued})'
  BY DEF EffectOf

LEMMA InitStep == PollerInit => PollerIInv
  <1> SUFFICES ASSUME PollerInit PROVE PollerIInv
    OBVIOUS
  <1>1. IsInjective(<< >>) /\ ToSet(<< >>) = {}
    BY DEF IsInjective, ToSet
  <1>2. PollerTypeOK
    <2>1. << >> \in Seq(Accounts)
      OBVIOUS
    <2>2. cursors \in [Accounts -> Nat \cup {Now}]
      BY DEF PollerInit
    <2> QED BY <1>1, <2>1, <2>2 DEF PollerInit, PollerTypeOK
  <1>3. NothingSkipped
    BY <1>1 DEF PollerInit, NothingSkipped
  <1>4. RoundTracked
    BY <1>1 DEF PollerInit, RoundTracked
  <1>5. PageInHand
    BY DEF PollerInit, PageInHand
  <1> QED BY <1>2, <1>3, <1>4, <1>5 DEF PollerIInv, PollerInv

(* A start reads the roots from a ledger below every token, or from now on.  *)
LEMMA StartStep == PollerIInv /\ Start => PollerIInv'
  <1> SUFFICES ASSUME PollerIInv, Start PROVE PollerIInv'
    OBVIOUS
  <1>1. PollerTypeOK /\ NothingSkipped /\ RoundTracked /\ PageInHand
    BY DEF PollerIInv, PollerInv
  <1>2. mode = "down" /\ mode' = "up" /\ tracked' = SetToSeq(Roots)
        /\ UNCHANGED <<closed, pollVars, enqueued, durable, faults, crashes>>
    BY DEF Start
  <1>3. UNCHANGED <<closed, pc, round, page, seen, pageStart, failing, waiting, enqueued, durable>>
    BY <1>2 DEF pollVars, pageVars
  <1>4. pc = "idle" /\ tracked = << >>
    BY <1>1, <1>2 DEF RoundTracked
  <1>5. /\ SetToSeq(Roots) \in Seq(Roots) /\ IsInjective(SetToSeq(Roots))
        /\ ToSet(SetToSeq(Roots)) \subseteq Roots
    BY InOrder, PollerAssumption
  <1>6. PICK t : t = SetToSeq(Roots)
    OBVIOUS
  <1>7. t \in Seq(Accounts) /\ IsInjective(t) /\ ToSet(t) \subseteq Roots
    BY <1>5, <1>6, PollerAssumption
  <1>8. PICK ledger \in Checkpoints :
            cursors' = [a \in Accounts |-> IF a \in Roots THEN StartCursor(ledger) ELSE Now]
    BY DEF Start
  <1>9. ledger \in Nat /\ ledger < LedgerSpan
    <2>1. CASE ledger = FirstCheckpoint
      BY <2>1, PollerAssumption, ChainAssumption
    <2>2. CASE ledger \in durable
      <3>1. PICK id \in enqueued : ledger = EffectOf(id).ledger
        BY <1>1, <2>2 DEF PollerTypeOK
      <3>2. id \in EffectIds
        BY <1>1 DEF PollerTypeOK
      <3> QED BY <3>1, <3>2, EffectFacts, ChainAssumption
    <2> QED BY <2>1, <2>2 DEF Checkpoints
  <1>10. StartCursor(ledger) \in Nat \cup {Now} /\ StartCursor(ledger) < LedgerSpan
    BY <1>9, PollerAssumption DEF StartCursor, Now
  <1>11. cursors' \in [Accounts -> Nat \cup {Now}]
    BY <1>8, <1>10 DEF Now
  <1>12. PollerTypeOK'
    BY <1>1, <1>2, <1>3, <1>6, <1>7, <1>11, DurableFrame DEF PollerTypeOK
  <1>13. NothingSkipped'
    <2>1. ASSUME NEW id \in EffectIds, id[1] \in Roots PROVE ~(Token(id) <= cursors'[id[1]])
      <3>1. Token(id) \in Nat /\ Token(id) >= LedgerSpan /\ id[1] \in Accounts
        BY EffectFacts
      <3>2. cursors'[id[1]] = StartCursor(ledger)
        BY <1>8, <2>1, <3>1
      <3> QED BY <3>1, <3>2, <1>10, PollerAssumption DEF Now
    <2>2. ToSet(tracked') \subseteq Roots
      BY <1>2, <1>6, <1>7
    <2> QED BY <2>1, <2>2 DEF NothingSkipped, Token, EffectOf
  <1>14. RoundTracked'
    <2>1. round = << >> => ToSet(round) = {}
      BY DEF ToSet
    <2>2. ToSet(round) \subseteq {}
      <3>1. ToSet(<< >>) = {}
        BY DEF ToSet
      <3> QED BY <3>1, <1>1, <1>4 DEF RoundTracked
    <2> QED BY <2>2, <1>2, <1>3, <1>4 DEF RoundTracked
  <1>15. PageInHand'
    BY <1>3, <1>4 DEF PageInHand
  <1> QED BY <1>12, <1>13, <1>14, <1>15 DEF PollerIInv, PollerInv

LEMMA ExitStep == PollerIInv /\ Exit => PollerIInv'
  <1> SUFFICES ASSUME PollerIInv, Exit PROVE PollerIInv'
    OBVIOUS
  <1>1. IsInjective(<< >>) /\ ToSet(<< >>) = {}
    BY DEF IsInjective, ToSet
  <1>2. PollerTypeOK'
    <2>1. << >> \in Seq(Accounts)
      OBVIOUS
    <2>2. cursors' \in [Accounts -> Nat \cup {Now}]
      BY DEF Exit
    <2>3. (durable \subseteq {EffectOf(id).ledger : id \in enqueued})'
      BY DurableFrame DEF Exit, PollerIInv, PollerInv, PollerTypeOK
    <2> QED BY <1>1, <2>1, <2>2, <2>3 DEF Exit, PollerIInv, PollerInv, PollerTypeOK
  <1>3. NothingSkipped'
    BY <1>1 DEF Exit, NothingSkipped
  <1>4. RoundTracked'
    BY <1>1 DEF Exit, RoundTracked
  <1>5. PageInHand'
    BY DEF Exit, PageInHand
  <1> QED BY <1>2, <1>3, <1>4, <1>5 DEF PollerIInv, PollerInv

LEMMA PollStep == PollerIInv /\ Poll => PollerIInv'
  <1> SUFFICES ASSUME PollerIInv, Poll PROVE PollerIInv'
    OBVIOUS
  <1>1. PollerTypeOK /\ NothingSkipped /\ RoundTracked
    BY DEF PollerIInv, PollerInv
  <1>2. PollerTypeOK'
    BY <1>1, DurableFrame DEF Poll, PollerTypeOK, trackVars, pageVars
  <1>3. NothingSkipped'
    BY <1>1, SkipFrame DEF Poll, trackVars
  <1>4. RoundTracked'
    BY <1>1 DEF Poll, RoundTracked, trackVars
  <1>5. PageInHand'
    BY DEF Poll, PageInHand
  <1> QED BY <1>2, <1>3, <1>4, <1>5 DEF PollerIInv, PollerInv

(* A page in hand reaches from the account's cursor on.                      *)
LEMMA FetchStep == PollerIInv /\ Fetch => PollerIInv'
  <1> SUFFICES ASSUME PollerIInv, Fetch PROVE PollerIInv'
    OBVIOUS
  <1>1. PollerTypeOK /\ NothingSkipped /\ RoundTracked
    BY DEF PollerIInv, PollerInv
  <1>2. /\ pc = "fetch"
        /\ UNCHANGED <<closed, mode, tracked, cursors, enqueued, durable>>
    BY DEF Fetch, trackVars
  <1>3. NothingSkipped'
    BY <1>1, <1>2, SkipFrame
  <1>4. Account \in Accounts
    BY <1>1, <1>2 DEF PollerTypeOK, RoundTracked, Account
  <1>5. cursors[Account] \in Nat \cup {Now}
    BY <1>1, <1>4 DEF PollerTypeOK
  <1>6. PICK a \in Accounts, c \in Nat \cup {Now} : a = Account /\ c = cursors[Account]
    BY <1>4, <1>5
  <1>7. CASE Page(a, c) = {}
    <2>1. NextAccount(failing)
      BY <1>6, <1>7 DEF Fetch
    <2>2. failing \in BOOLEAN
      BY <1>1 DEF PollerTypeOK
    <2>3. /\ round' \in Seq(Accounts) /\ pc' \in {"idle", "fetch"}
          /\ page' = {} /\ seen' = {} /\ pageStart' = Now
          /\ failing' \in BOOLEAN /\ waiting' \in BOOLEAN
          /\ RoundTracked'
      BY <1>1, <1>2, <2>1, <2>2, RoundGoesOn
    <2>4. PollerTypeOK'
      BY <1>1, <1>2, <2>3, DurableFrame DEF PollerTypeOK
    <2>5. PageInHand'
      BY <2>3 DEF PageInHand
    <2> QED BY <1>3, <2>3, <2>4, <2>5 DEF PollerIInv, PollerInv
  <1>8. CASE Page(a, c) # {}
    <2>1. page' = Page(a, c) /\ seen' = {} /\ pageStart' = c /\ pc' = "record"
          /\ UNCHANGED <<round, failing, waiting>>
      BY <1>6, <1>8 DEF Fetch
    <2>2. closed \in Nat
      BY <1>1 DEF PollerTypeOK
    <2>3. /\ page' \subseteq EffectIds /\ c # Now
          /\ \A id \in page' : id[1] = a /\ Token(id) > c
          /\ \A id \in page' : \A o \in EffectIds :
                o[1] = a /\ c < Token(o) /\ Token(o) <= Token(id) => o \in page'
      BY <1>8, <2>1, <2>2, PageFacts
    <2>4. PollerTypeOK'
      BY <1>1, <1>2, <2>1, <2>3, DurableFrame DEF PollerTypeOK
    <2>5. RoundTracked'
      BY <1>1, <1>2, <2>1 DEF RoundTracked
    <2>6. Account' = a /\ cursors'[a] = c
      BY <1>2, <1>6, <2>1 DEF Account
    <2>7. PageComplete'
      BY <2>3, <2>6 DEF PageComplete, Token, EffectOf
    <2>8. WindowOf(page') # {}
      BY <1>8, <2>1, <2>3, WindowFacts
    <2>9. Window' # {}
      BY <2>8 DEF Window, WindowOf, EffectOf
    <2>10. PageInHand'
      BY <1>8, <2>1, <2>3, <2>6, <2>7, <2>9 DEF PageInHand, Token, EffectOf
    <2> QED BY <1>3, <2>4, <2>5, <2>10 DEF PollerIInv, PollerInv
  <1> QED BY <1>7, <1>8

(* Leaving an account moves no cursor, and hands nothing over but effects.   *)
LEMMA LeaveAccount ==
    ASSUME PollerIInv, pc # "idle", NEW f \in BOOLEAN, NextAccount(f),
           UNCHANGED <<closed, mode, tracked, cursors, durable>>,
           enqueued \subseteq enqueued', enqueued' \subseteq EffectIds
    PROVE  PollerIInv'
  <1>1. PollerTypeOK /\ NothingSkipped /\ RoundTracked
    BY DEF PollerIInv, PollerInv
  <1>2. /\ round' \in Seq(Accounts) /\ pc' \in {"idle", "fetch"}
        /\ page' = {} /\ seen' = {} /\ pageStart' = Now
        /\ failing' \in BOOLEAN /\ waiting' \in BOOLEAN
        /\ RoundTracked'
    BY <1>1, RoundGoesOn
  <1>3. EffectIds' = EffectIds
    BY DEF EffectIds
  <1>4. PollerTypeOK'
    BY <1>1, <1>2, <1>3, DurableFrame DEF PollerTypeOK
  <1>5. NothingSkipped'
    BY <1>1, SkipFrame
  <1>6. PageInHand'
    BY <1>2 DEF PageInHand
  <1> QED BY <1>2, <1>4, <1>5, <1>6 DEF PollerIInv, PollerInv

LEMMA FailedStep == PollerIInv /\ (FetchFails \/ PriceFails) => PollerIInv'
  <1> SUFFICES ASSUME PollerIInv, FetchFails \/ PriceFails PROVE PollerIInv'
    OBVIOUS
  <1>1. /\ pc # "idle" /\ NextAccount(TRUE)
        /\ UNCHANGED <<closed, mode, tracked, cursors, durable, enqueued>>
    BY DEF FetchFails, PriceFails, AbandonAccount, trackVars
  <1>2. enqueued' \subseteq EffectIds
    BY <1>1 DEF PollerIInv, PollerInv, PollerTypeOK
  <1> QED BY <1>1, <1>2, LeaveAccount

LEMMA WindowOfEffects == PollerTypeOK => \A r : HandOver(r) =>
                            enqueued \subseteq enqueued' /\ enqueued' \subseteq EffectIds
  BY DEF PollerTypeOK, HandOver, JobsFor, Window, WindowOf

LEMMA RefusedStep == PollerIInv /\ EnqueueFails => PollerIInv'
  <1> SUFFICES ASSUME PollerIInv, EnqueueFails PROVE PollerIInv'
    OBVIOUS
  <1>1. /\ pc # "idle" /\ NextAccount(TRUE)
        /\ UNCHANGED <<closed, mode, tracked, durable>>
    BY DEF EnqueueFails, AbandonAccount
  <1>2. PICK refused \in (SUBSET BusyQueues(Window)) \ {{}} : HandOver(refused) /\ MoveCursor(refused)
    BY DEF EnqueueFails
  <1>3. cursors' = cursors
    <2>1. refused # {}
      BY Zenon
    <2>2. ~Advances(refused)
      BY <2>1 DEF Advances
    <2> QED BY <1>2, <2>2 DEF MoveCursor
  <1>4. enqueued \subseteq enqueued' /\ enqueued' \subseteq EffectIds
    BY <1>2, WindowOfEffects DEF PollerIInv, PollerInv
  <1> QED BY <1>1, <1>3, <1>4, LeaveAccount

(* A record looked at was the oldest left, and the pool it creates is        *)
(* tracked from a place before all its effects.                              *)
LEMMA LookStep == PollerIInv /\ LookAtRecord => PollerIInv'
  <1> SUFFICES ASSUME PollerIInv, LookAtRecord PROVE PollerIInv'
    OBVIOUS
  <1>1. PollerTypeOK /\ NothingSkipped /\ RoundTracked /\ PageInHand
    BY DEF PollerIInv, PollerInv
  <1>2. /\ pc = "record" /\ mode # "down"
        /\ UNCHANGED <<closed, mode, round, page, pageStart, failing, waiting, enqueued, durable>>
    BY DEF LookAtRecord, Running
  <1>3. /\ page # {} /\ pageStart # Now /\ cursors[Account] # Now
        /\ \A id \in page : /\ id[1] = Account
                            /\ Token(id) > pageStart /\ Token(id) > cursors[Account]
        /\ PageComplete
        /\ seen \subseteq Window /\ seen # Window
        /\ \A id \in seen : EffectOf(id).creates # NoAccount
                               => EffectOf(id).creates \in ToSet(tracked)
    BY <1>1, <1>2 DEF PageInHand
  <1>4. page \subseteq EffectIds /\ Window \subseteq page
    BY <1>1 DEF PollerTypeOK, Window, WindowOf
  <1>5. Window \ seen # {} /\ Window \ seen \subseteq EffectIds
    BY <1>3, <1>4
  <1>6. CurrentRecord \in Window \ seen
    BY <1>5, OldestOf DEF CurrentRecord
  <1>7. PICK rec \in Window \ seen : rec = CurrentRecord
    BY <1>6
  <1>8. rec \in page /\ rec \in EffectIds
    BY <1>4
  <1>9. PICK pool : pool = EffectOf(rec).creates
    OBVIOUS
  <1>10. pool \in Accounts \cup {NoAccount}
    BY <1>8, <1>9, EffectFacts DEF Effect, NoAccount
  <1>11. seen' = seen \cup {rec} /\ pc' = IF seen' = Window THEN "enqueue" ELSE "record"
    BY <1>7 DEF LookAtRecord
  <1>12. IF Discovers(pool)
         THEN tracked' = Append(tracked, pool) /\ cursors' = [cursors EXCEPT ![pool] = pageStart]
         ELSE UNCHANGED <<tracked, cursors>>
    BY <1>7, <1>9 DEF LookAtRecord, NewPoolCursor, trackVars
  <1>13. /\ tracked' \in Seq(Accounts) /\ IsInjective(tracked')
         /\ ToSet(tracked') = ToSet(tracked) \cup (IF Discovers(pool) THEN {pool} ELSE {})
    <2>1. CASE ~Discovers(pool)
      BY <1>1, <1>12, <2>1 DEF PollerTypeOK
    <2>2. CASE Discovers(pool)
      <3>1. pool \in Accounts /\ tracked \in Seq(Accounts) /\ IsInjective(tracked)
        BY <1>1, <1>10, <2>2 DEF Discovers, PollerTypeOK
      <3>2. PICK n \in Nat : n = Len(tracked)
        BY <3>1
      <3>9. Append(tracked, pool) \in Seq(Accounts)
        BY <3>1, AppendProperties
      <3>3. PICK t \in Seq(Accounts) : t = Append(tracked, pool)
        BY <3>9, Zenon
      <3>4. /\ DOMAIN t = 1 .. n + 1 /\ t[n + 1] = pool
            /\ DOMAIN tracked = 1 .. n /\ \A i \in 1 .. n : t[i] = tracked[i]
        BY <3>1, <3>2, <3>3
      <3>5. \A i \in 1 .. n : tracked[i] # pool
        BY <2>2, <3>4 DEF Discovers, ToSet
      <3>6. IsInjective(t)
        <4> SUFFICES ASSUME NEW i \in 1 .. n + 1, NEW j \in 1 .. n + 1, t[i] = t[j]
                     PROVE  i = j
          BY <3>4 DEF IsInjective
        <4>1. CASE i \in 1 .. n /\ j \in 1 .. n
          BY <3>1, <3>4, <4>1 DEF IsInjective
        <4>2. CASE i = n + 1 /\ j \in 1 .. n
          BY <3>4, <3>5, <4>2
        <4>3. CASE j = n + 1 /\ i \in 1 .. n
          BY <3>4, <3>5, <4>3
        <4>4. CASE i = n + 1 /\ j = n + 1
          BY <4>4
        <4> QED BY <4>1, <4>2, <4>3, <4>4
      <3>7. ToSet(t) = ToSet(tracked) \cup {pool}
        <4>1. ASSUME NEW x \in ToSet(t) PROVE x \in ToSet(tracked) \cup {pool}
          <5>1. PICK i \in 1 .. n + 1 : x = t[i]
            BY <3>4 DEF ToSet
          <5> QED BY <3>4, <5>1 DEF ToSet
        <4>2. pool \in ToSet(t)
          BY <3>4 DEF ToSet
        <4>3. ASSUME NEW x \in ToSet(tracked) PROVE x \in ToSet(t)
          <5>1. PICK i \in 1 .. n : x = tracked[i]
            BY <3>4 DEF ToSet
          <5>2. i \in 1 .. n + 1
            BY <5>1
          <5> QED BY <3>4, <5>1, <5>2 DEF ToSet
        <4> QED BY <4>1, <4>2, <4>3
      <3> QED BY <1>12, <2>2, <3>3, <3>6, <3>7
    <2> QED BY <2>1, <2>2
  <1>14. /\ cursors' \in [Accounts -> Nat \cup {Now}]
         /\ \A a \in Accounts : a # pool \/ ~Discovers(pool) => cursors'[a] = cursors[a]
         /\ Discovers(pool) => cursors'[pool] = pageStart
    <2>1. cursors \in [Accounts -> Nat \cup {Now}] /\ pageStart \in Nat \cup {Now}
      BY <1>1 DEF PollerTypeOK
    <2>2. Discovers(pool) => pool \in Accounts
      BY <1>10 DEF Discovers
    <2> QED BY <1>12, <2>1, <2>2
  <1>15. PollerTypeOK'
    <2>1. seen' \subseteq page'
      BY <1>2, <1>4, <1>8, <1>11 , <1>3
    <2>2. pc' \in {"record", "enqueue"}
      BY <1>11
    <2>3. (durable \subseteq {EffectOf(id).ledger : id \in enqueued})'
      BY <1>1, <1>2, DurableFrame DEF PollerTypeOK
    <2> QED BY <1>1, <1>2, <1>13, <1>14, <2>1, <2>2, <2>3 DEF PollerTypeOK
  <1>16. NothingSkipped'
    <2> SUFFICES ASSUME NEW id \in EffectIds, id[1] \in ToSet(tracked'), Token(id) <= cursors'[id[1]]
                 PROVE  /\ Indexable(id) => id \in enqueued'
                        /\ EffectOf(id).creates # NoAccount => EffectOf(id).creates \in ToSet(tracked')
      BY DEF NothingSkipped, Token, EffectOf, Indexable
    <2>1. id[1] \in Accounts
      BY EffectFacts
    <2>2. CASE Discovers(pool) /\ id[1] = pool
      <3>1. Token(rec) < Token(id)
        BY <1>8, <1>9, <2>2, ChainAssumption
      <3>2. Token(rec) > pageStart /\ pageStart \in Nat
        BY <1>1, <1>3, <1>8 DEF PollerTypeOK
      <3>3. cursors'[id[1]] = pageStart
        BY <1>14, <2>2
      <3>4. Token(rec) \in Nat /\ Token(id) \in Nat
        BY <1>8, EffectFacts
      <3>5. FALSE
        BY <3>1, <3>2, <3>3, <3>4
      <3> QED BY <3>5
    <2>3. CASE ~(Discovers(pool) /\ id[1] = pool)
      <3>1. id[1] \in ToSet(tracked) /\ Token(id) <= cursors[id[1]]
        BY <1>13, <1>14, <2>1, <2>3
      <3> QED BY <1>1, <1>2, <1>13, <3>1 DEF NothingSkipped
    <2> QED BY <2>2, <2>3
  <1>17. RoundTracked'
    <2>1. ToSet(round) \subseteq ToSet(tracked')
      BY <1>1, <1>13 DEF RoundTracked
    <2> QED BY <1>1, <1>2, <2>1 DEF RoundTracked
  <1>18. PageInHand'
    <2>1. Account \in ToSet(tracked) /\ Account \in Accounts
      <3>1. round \in Seq(Accounts) /\ round # << >>
        BY <1>1, <1>2 DEF PollerTypeOK, RoundTracked
      <3>2. round[1] = Account /\ 1 \in DOMAIN round /\ Account \in Accounts
        BY <3>1 DEF Account
      <3>3. Account \in ToSet(round)
        BY <3>2 DEF ToSet
      <3> QED BY <1>1, <3>2, <3>3 DEF RoundTracked
    <2>2. Account' = Account /\ Window' = Window
      BY <1>2 DEF Account, Window, WindowOf, EffectOf
    <2>3. cursors'[Account] = cursors[Account]
      BY <1>14, <2>1 DEF Discovers
    <2>4. PageComplete'
      BY <1>2, <1>3, <2>2, <2>3 DEF PageComplete, Token, EffectOf
    <2>5. seen' \subseteq Window
      BY <1>3, <1>7, <1>11
    <2>6. \A id \in seen' : EffectOf(id).creates # NoAccount
                               => EffectOf(id).creates \in ToSet(tracked')
      BY <1>3, <1>9, <1>11, <1>13 DEF Discovers
    <2>7. pc' = "enqueue" <=> seen' = Window
      BY <1>11
    <2>8. \A id \in page : id[1] = Account /\ Token(id) > pageStart /\ Token(id) > cursors'[Account]
      BY <1>3, <2>3
    <2> QED BY <1>2, <1>3, <2>2, <2>3, <2>4, <2>5, <2>6, <2>7, <2>8 DEF PageInHand, Token, EffectOf
  <1> QED BY <1>15, <1>16, <1>17, <1>18 DEF PollerIInv, PollerInv

(* When a window is handed over the cursor passes the effects of the window  *)
(* and, of the account's others, only what it had passed already.            *)
LEMMA EnqueueStep == PollerIInv /\ Enqueue => PollerIInv'
  <1> SUFFICES ASSUME PollerIInv, Enqueue PROVE PollerIInv'
    OBVIOUS
  <1>1. PollerTypeOK /\ NothingSkipped /\ RoundTracked /\ PageInHand
    BY DEF PollerIInv, PollerInv
  <1>2. /\ pc = "enqueue" /\ HandOver({}) /\ MoveCursor({})
        /\ UNCHANGED <<closed, mode, tracked, durable>>
    BY DEF Enqueue
  <1>3. /\ page # {} /\ pageStart # Now
        /\ \A id \in page : /\ id[1] = Account
                            /\ Token(id) > pageStart /\ Token(id) > cursors[Account]
        /\ PageComplete /\ seen = Window
        /\ \A id \in seen : EffectOf(id).creates # NoAccount
                               => EffectOf(id).creates \in ToSet(tracked)
    BY <1>1, <1>2 DEF PageInHand
  <1>4. page \subseteq EffectIds
    BY <1>1 DEF PollerTypeOK
  <1>5. PICK W : W = Window
    OBVIOUS
  <1>6. W \subseteq page /\ W # {} /\ W \subseteq EffectIds
    BY <1>3, <1>4, <1>5, WindowFacts DEF Window
  <1>7. PICK l \in Nat : /\ \A id \in W : EffectOf(id).ledger = l
                         /\ \A id \in page \ W : EffectOf(id).ledger > l
    BY <1>3, <1>4, <1>5, WindowFacts DEF Window
  <1>8. Newest(W) \in W /\ \A o \in W : Token(o) <= Token(Newest(W))
    BY <1>6, <1>7, NewestOf
  <1>9. PICK last \in W : last = Newest(W)
    BY <1>8
  <1>10. last \in EffectIds /\ \A o \in W : Token(o) <= Token(last)
    BY <1>6, <1>8, <1>9
  <1>11. PICK a \in Accounts : a = Account
    <2>1. round \in Seq(Accounts) /\ round # << >>
      BY <1>1, <1>2 DEF PollerTypeOK, RoundTracked
    <2>2. Account \in Accounts
      BY <2>1 DEF Account
    <2> QED BY <2>2
  <1>12. PICK k \in Nat : k = Token(last)
    BY <1>10, EffectFacts
  <1>13. cursors' = [cursors EXCEPT ![a] = k]
    BY <1>2, <1>5, <1>9, <1>11, <1>12 DEF MoveCursor, Advances
  <1>14. /\ cursors' \in [Accounts -> Nat \cup {Now}] /\ cursors'[a] = k
         /\ \A b \in Accounts : b # a => cursors'[b] = cursors[b]
    BY <1>1, <1>13 DEF PollerTypeOK
  <1>15. enqueued' = enqueued \cup UNION {JobsFor(W, q) : q \in BusyQueues(W)}
    BY <1>2, <1>5 DEF HandOver
  <1>16. enqueued \subseteq enqueued' /\ enqueued' \subseteq EffectIds
    BY <1>1, <1>2, WindowOfEffects
  <1>17. \A id \in W : Indexable(id) => id \in enqueued'
    <2> SUFFICES ASSUME NEW id \in W, Indexable(id) PROVE id \in enqueued'
      OBVIOUS
    <2>1. EffectOf(id).queue \in Queues /\ id \in JobsFor(W, EffectOf(id).queue)
      BY DEF Indexable, JobsFor
    <2>2. EffectOf(id).queue \in BusyQueues(W)
      BY <2>1 DEF BusyQueues
    <2> QED BY <1>15, <2>1, <2>2
  <1>18. \A id \in page : Token(id) \in Nat
    BY <1>4, EffectFacts
  <1>19. cursors[a] \in Nat \cup {Now}
    BY <1>1 DEF PollerTypeOK
  <1>20. ASSUME NEW id \in page \ W PROVE Token(id) > k
    <2>1. id \in EffectIds /\ EffectOf(last).ledger = l /\ EffectOf(id).ledger > l
      BY <1>4, <1>7, <1>9
    <2>2. EffectOf(last).ledger < EffectOf(id).ledger
      BY <2>1, <1>10, EffectFacts
    <2> QED BY <2>1, <2>2, <1>10, <1>12, <1>18, LaterLedger
  <1>21. NothingSkipped'
    <2> SUFFICES ASSUME NEW id \in EffectIds, id[1] \in ToSet(tracked), Token(id) <= cursors'[id[1]]
                 PROVE  /\ Indexable(id) => id \in enqueued'
                        /\ EffectOf(id).creates # NoAccount => EffectOf(id).creates \in ToSet(tracked)
      BY <1>2 DEF NothingSkipped, Token, EffectOf, Indexable
    <2>1. id[1] \in Accounts /\ Token(id) \in Nat
      BY EffectFacts
    <2>2. CASE Token(id) <= cursors[id[1]]
      BY <1>1, <1>16, <2>2 DEF NothingSkipped
    <2>3. CASE ~(Token(id) <= cursors[id[1]])
      <3>1. id[1] = a
        BY <1>14, <2>1, <2>3
      <3>2. cursors[a] < Token(id) /\ Token(id) <= k
        BY <3>1, <2>1, <2>3, <1>14, <1>19 DEF Now
      <3>3. last \in page /\ Token(id) <= Token(last)
        BY <3>2, <1>6, <1>12
      <3>4. id \in page
        BY <1>3, <1>11, <3>1, <3>2, <3>3 DEF PageComplete
      <3>5. id \in W
        BY <3>2, <3>4, <1>18, <1>20
      <3> QED BY <3>5, <1>3, <1>5, <1>17
    <2> QED BY <2>2, <2>3
  <1>22. CASE page = W
    <2>1. NextAccount(failing)
      BY <1>5, <1>22 DEF Enqueue
    <2>2. failing \in BOOLEAN /\ pc # "idle"
      BY <1>1, <1>2 DEF PollerTypeOK
    <2>3. /\ round' \in Seq(Accounts) /\ pc' \in {"idle", "fetch"}
          /\ page' = {} /\ seen' = {} /\ pageStart' = Now
          /\ failing' \in BOOLEAN /\ waiting' \in BOOLEAN
          /\ RoundTracked'
      BY <1>1, <1>2, <2>1, <2>2, RoundGoesOn
    <2>4. (durable \subseteq {EffectOf(id).ledger : id \in enqueued})'
      BY <1>1, <1>2, <1>16, DurableFrame DEF PollerTypeOK
    <2>5. PollerTypeOK'
      BY <1>1, <1>2, <1>14, <1>16, <2>3, <2>4 DEF PollerTypeOK, EffectIds
    <2>6. PageInHand'
      BY <2>3 DEF PageInHand
    <2> QED BY <1>21, <2>3, <2>5, <2>6 DEF PollerIInv, PollerInv
  <1>23. CASE page # W
    <2>1. page' = page \ W /\ seen' = {} /\ pc' = "record"
          /\ UNCHANGED <<round, pageStart, failing, waiting>>
      BY <1>5, <1>23 DEF Enqueue
    <2>2. page' # {} /\ page' \subseteq page /\ page' \subseteq EffectIds
      BY <1>4, <1>6, <1>23, <2>1
    <2>3. (durable \subseteq {EffectOf(id).ledger : id \in enqueued})'
      BY <1>1, <1>2, <1>16, DurableFrame DEF PollerTypeOK
    <2>4. PollerTypeOK'
      BY <1>1, <1>2, <1>14, <1>16, <2>1, <2>2, <2>3 DEF PollerTypeOK, EffectIds
    <2>5. RoundTracked'
      BY <1>1, <1>2, <2>1 DEF RoundTracked
    <2>6. Account' = a
      BY <1>11, <2>1 DEF Account
    <2>7. PageComplete'
      <3> SUFFICES ASSUME NEW id \in page', NEW o \in EffectIds,
                          o[1] = a, k < Token(o), Token(o) <= Token(id)
                   PROVE  o \in page'
        BY <1>14, <2>6 DEF PageComplete, Token, EffectOf, EffectIds
      <3>1. Token(last) \in Nat /\ Token(o) \in Nat /\ cursors[a] < Token(last)
        BY <1>3, <1>6, <1>10, <1>11, EffectFacts
      <3>2. cursors[a] < Token(o)
        BY <3>1, <1>12, <1>19 DEF Now
      <3>3. o \in page
        BY <1>3, <1>11, <2>2, <3>2 DEF PageComplete
      <3>4. o \notin W
        BY <1>10, <1>12, <3>1
      <3> QED BY <2>1, <3>3, <3>4
    <2>8. WindowOf(page') # {}
      BY <2>2, WindowFacts
    <2>9. Window' # {}
      BY <2>8 DEF Window, WindowOf, EffectOf
    <2>10. \A id \in page' : id[1] = a /\ Token(id) > pageStart /\ Token(id) > k
      BY <1>3, <1>11, <1>20, <2>1
    <2>11. k # Now
      BY <1>12 DEF Now
    <2>12. PageInHand'
      BY <1>3, <1>14, <2>1, <2>2, <2>6, <2>7, <2>9, <2>10, <2>11 DEF PageInHand, Token, EffectOf
    <2> QED BY <1>21, <2>4, <2>5, <2>12 DEF PollerIInv, PollerInv
  <1> QED BY <1>22, <1>23

(* The other steps leave the poll alone.                                     *)
LEMMA OtherSteps ==
    PollerIInv /\ (Stop \/ AttemptDue \/ CloseLedger \/ IndexerPersists \/ UNCHANGED pollerVars)
    => PollerIInv'
  <1> SUFFICES ASSUME PollerIInv,
                      Stop \/ AttemptDue \/ CloseLedger \/ IndexerPersists \/ UNCHANGED pollerVars
               PROVE  PollerIInv'
    OBVIOUS
  <1> USE DEF trackVars, pollVars, pageVars
  <1>1. PollerTypeOK /\ NothingSkipped /\ RoundTracked /\ PageInHand
    BY DEF PollerIInv, PollerInv
  <1>2. UNCHANGED <<tracked, cursors, pc, round, page, seen, pageStart, enqueued>>
    BY DEF Stop, AttemptDue, CloseLedger, IndexerPersists, pollerVars
  <1>3. NothingSkipped'
    BY <1>1, <1>2, SkipFrame
  <1>4. PageInHand'
    BY <1>1, <1>2, HandFrame
  <1>5. mode' = "down" => mode = "down"
    BY DEF Stop, AttemptDue, CloseLedger, IndexerPersists, pollerVars
  <1>6. RoundTracked'
    BY <1>1, <1>2, <1>5 DEF RoundTracked
  <1>7. closed' \in Nat /\ mode' \in {"up", "stopping", "down"} /\ failing' \in BOOLEAN /\ waiting' \in BOOLEAN
    <2>1. closed \in Nat /\ mode \in {"up", "stopping", "down"} /\ failing \in BOOLEAN /\ waiting \in BOOLEAN
      BY <1>1 DEF PollerTypeOK
    <2>2. closed' \in {closed, closed + 1}
      BY DEF Stop, AttemptDue, CloseLedger, IndexerPersists, pollerVars
    <2>3. mode' \in {mode, "stopping"}
      BY DEF Stop, AttemptDue, CloseLedger, IndexerPersists, pollerVars
    <2>4. failing' = failing /\ waiting' \in {waiting, FALSE}
      BY DEF Stop, AttemptDue, CloseLedger, IndexerPersists, pollerVars
    <2>5. failing' \in BOOLEAN /\ waiting' \in BOOLEAN
      BY <2>1, <2>4, Zenon
    <2> QED BY <2>1, <2>2, <2>3, <2>5
  <1>8. durable \subseteq durable' /\ durable' \subseteq {EffectOf(id).ledger : id \in enqueued}
    <2>1. durable \subseteq {EffectOf(id).ledger : id \in enqueued}
      BY <1>1 DEF PollerTypeOK
    <2>2. CASE IndexerPersists
      BY <2>1, <2>2 DEF IndexerPersists
    <2>3. CASE ~IndexerPersists
      BY <2>1, <2>3 DEF Stop, AttemptDue, CloseLedger, pollerVars
    <2> QED BY <2>2, <2>3
  <1>9. (durable \subseteq {EffectOf(id).ledger : id \in enqueued})'
    BY <1>2, <1>8 DEF EffectOf
  <1>10. PollerTypeOK'
    BY <1>1, <1>2, <1>7, <1>9 DEF PollerTypeOK, EffectIds
  <1> QED BY <1>3, <1>4, <1>6, <1>10 DEF PollerIInv, PollerInv

(* No effect is skipped, whatever failed and whenever the process ended:     *)
(* what a tracked account's cursor has passed was handed to its queue, and   *)
(* the pools created there are tracked; for every chain, page size and       *)
(* number of failures and restarts.                                          *)
THEOREM PollerSound == PollerSpec => []PollerInv
  <1>1. PollerInit => PollerIInv
    BY InitStep
  <1>2. PollerIInv /\ [PollerNext]_pollerVars => PollerIInv'
    <2> SUFFICES ASSUME PollerIInv, [PollerNext]_pollerVars PROVE PollerIInv'
      OBVIOUS
    <2>1. CASE Start
      BY <2>1, StartStep
    <2>2. CASE Exit
      BY <2>2, ExitStep
    <2>3. CASE Poll
      BY <2>3, PollStep
    <2>4. CASE Fetch
      BY <2>4, FetchStep
    <2>5. CASE FetchFails \/ PriceFails
      BY <2>5, FailedStep
    <2>6. CASE LookAtRecord
      BY <2>6, LookStep
    <2>7. CASE Enqueue
      BY <2>7, EnqueueStep
    <2>8. CASE EnqueueFails
      BY <2>8, RefusedStep
    <2>9. CASE Stop \/ AttemptDue \/ CloseLedger \/ IndexerPersists \/ UNCHANGED pollerVars
      BY <2>9, OtherSteps
    <2> QED BY <2>1, <2>2, <2>3, <2>4, <2>5, <2>6, <2>7, <2>8, <2>9 DEF PollerNext
  <1>3. PollerIInv => PollerInv
    BY DEF PollerIInv
  <1> QED BY <1>1, <1>2, <1>3, PTL DEF PollerSpec

----------------------------------------------------------------------------
(* The webhooks *)

(* A webhook that is not disabled is below the limit. *)
BelowLimit == \A w \in Hooks : ~hooks[w].disabled => hooks[w].consecutiveFails < MaxFails

(* A handler at work holds an active job, of a webhook, and no other does. *)
Held ==
    /\ \A p \in Processes :
          IF handler[p].pc = "idle" THEN handler[p].job = 0
          ELSE handler[p].job \in JobIds /\ jobs[handler[p].job].state = "active"
    /\ \A p, q \in Processes :
          handler[p].pc # "idle" /\ handler[p].job = handler[q].job => p = q
    /\ \A j \in JobIds : jobs[j].state # "none" => jobs[j].hook \in Hooks

TypeInv == TypeOK /\ BelowLimit /\ Held

USE WebhooksAssumption

LEMMA TypeInit == Init => TypeInv
BY DEF Init, TypeInv, TypeOK, BelowLimit, Held, Hook, Job, Handler, NoJob, Idle, JobIds

(* What a step does to one job, to a handler or to a webhook keeps the types. *)
LEMMA JobPut ==
    ASSUME TypeInv, NEW j \in JobIds, NEW m \in Nat, NEW k \in Nat,
           NEW s \in {"none", "wait", "active", "delayed", "failed", "done"},
           PutJob(j, s, m, k)
    PROVE  /\ jobs' \in [JobIds -> Job]
           /\ jobs'[j] = [state |-> s, hook |-> jobs[j].hook, made |-> m, stalls |-> k]
           /\ \A i \in JobIds : i # j => jobs'[i] = jobs[i]
BY DEF TypeInv, TypeOK, PutJob, Job

LEMMA JobAdd ==
    ASSUME TypeInv, NEW w \in Hooks, AddJob(w)
    PROVE  \E j \in JobIds :
              /\ jobs[j].state = "none"
              /\ jobs' \in [JobIds -> Job]
              /\ jobs'[j] = [state |-> "wait", hook |-> w, made |-> 0, stalls |-> 0]
              /\ \A i \in JobIds : i # j => jobs'[i] = jobs[i]
BY DEF TypeInv, TypeOK, AddJob, JobsIn, Job

(* A job that no handler holds may be put anywhere, and handlers that are    *)
(* left alone go on holding theirs.                                          *)
LEMMA FreeJobMoves ==
    ASSUME TypeInv, NEW j \in JobIds, UNCHANGED handler,
           \A p \in Processes : handler[p].job # j,
           \A i \in JobIds : i # j => jobs'[i] = jobs[i],
           jobs'[j].hook \in Hooks
    PROVE  Held'
BY DEF TypeInv, Held

LEMMA HookPut ==
    ASSUME TypeInv, NEW w \in Hooks, NEW s \in {"new", "live", "removed"},
           NEW d \in BOOLEAN, NEW n \in 0 .. MaxFails, hooks' = PutHook(w, s, d, n)
    PROVE  /\ hooks' \in [Hooks -> Hook]
           /\ hooks'[w] = [status |-> s, disabled |-> d, consecutiveFails |-> n]
           /\ \A v \in Hooks : v # w => hooks'[v] = hooks[v]
BY DEF TypeInv, TypeOK, PutHook, Hook

LEMMA WorkPut ==
    ASSUME TypeInv, NEW p \in Processes, NEW j \in JobIds \cup {0}, NEW b \in BOOLEAN,
           NEW c \in {"idle", "lookup", "post", "log", "record"},
           NEW n \in 0 .. MaxFails - 1, Work(p, c, j, n, b)
    PROVE  /\ handler' \in [Processes -> Handler]
           /\ handler'[p] = [pc |-> c, job |-> j, fails |-> n, ok |-> b]
           /\ \A q \in Processes : q # p => handler'[q] = handler[q]
BY DEF TypeInv, TypeOK, Work, Handler

(* The steps of the service and of the queue. *)
LEMMA TypeService == TypeInv /\ (ServiceStep \/ BackoffOver \/ Stalled) => TypeInv'
<1>. SUFFICES ASSUME TypeInv, ServiceStep \/ BackoffOver \/ Stalled PROVE TypeInv'
  OBVIOUS
<1>1. ASSUME NEW w \in Hooks, Create(w) PROVE TypeInv'
  <2>1. hooks' = PutHook(w, "live", FALSE, 0)
    BY <1>1 DEF Create
  <2>. 0 \in 0 .. MaxFails /\ FALSE \in BOOLEAN /\ "live" \in {"new", "live", "removed"}
    OBVIOUS
  <2>2. /\ hooks' \in [Hooks -> Hook]
        /\ hooks'[w] = [status |-> "live", disabled |-> FALSE, consecutiveFails |-> 0]
        /\ \A v \in Hooks : v # w => hooks'[v] = hooks[v]
    BY ONLY <2>1, HookPut, TypeInv, w \in Hooks,
            0 \in 0 .. MaxFails, FALSE \in BOOLEAN, "live" \in {"new", "live", "removed"}
  <2>3. BelowLimit'
    BY <2>2 DEF TypeInv, BelowLimit
  <2>. QED BY <1>1, <2>2, <2>3 DEF Create, Held, TypeInv, TypeOK, queueVars, worldVars
<1>2. ASSUME NEW w \in Hooks, RemoveHook(w) PROVE TypeInv'
  <2>1. hooks' = PutHook(w, "removed", hooks[w].disabled, hooks[w].consecutiveFails)
    BY <1>2 DEF RemoveHook
  <2>2. hooks[w].disabled \in BOOLEAN /\ hooks[w].consecutiveFails \in 0 .. MaxFails
    BY DEF TypeInv, TypeOK, Hook
  <2>3. /\ hooks' \in [Hooks -> Hook]
        /\ hooks'[w] = [status |-> "removed", disabled |-> hooks[w].disabled,
                        consecutiveFails |-> hooks[w].consecutiveFails]
        /\ \A v \in Hooks : v # w => hooks'[v] = hooks[v]
    BY <2>1, <2>2, HookPut
  <2>4. BelowLimit'
    BY <2>3 DEF TypeInv, BelowLimit
  <2>5. log' \in [Hooks -> Seq(BOOLEAN)]
    BY <1>2 DEF RemoveHook, TypeInv, TypeOK
  <2>. QED BY <1>2, <2>3, <2>4, <2>5 DEF RemoveHook, Held, TypeInv, TypeOK, queueVars, worldVars
<1>3. ASSUME NEW w \in Hooks, AddJob(w), UNCHANGED handler
      PROVE jobs' \in [JobIds -> Job] /\ Held'
  <2>1. PICK j \in JobIds :
              /\ jobs[j].state = "none"
              /\ jobs' \in [JobIds -> Job]
              /\ jobs'[j] = [state |-> "wait", hook |-> w, made |-> 0, stalls |-> 0]
              /\ \A i \in JobIds : i # j => jobs'[i] = jobs[i]
    BY <1>3, JobAdd
  <2>2. \A p \in Processes : handler[p].job # j
    BY <2>1 DEF TypeInv, Held, JobIds
  <2>3. jobs'[j].hook \in Hooks
    BY <2>1
  <2>. QED BY <1>3, <2>1, <2>2, <2>3, FreeJobMoves
<1>4. ASSUME NEW w \in Hooks, Ping(w) PROVE TypeInv'
  BY <1>3, <1>4 DEF Ping, BelowLimit, TypeInv, TypeOK, queueVars, worldVars
<1>5. ASSUME NEW w \in Hooks, Retry(w) PROVE TypeInv'
  <2>1. jobs' \in [JobIds -> Job]
    BY <1>5 DEF Retry, Job, TypeInv, TypeOK
  <2>2. retried' \in [JobIds -> 0 .. MaxRetries]
    BY <1>5 DEF Retry, TypeInv, TypeOK
  <2>3. \A j \in JobIds : /\ jobs'[j].hook = jobs[j].hook
                          /\ jobs[j].state # "failed" => jobs'[j].state = jobs[j].state
                          /\ jobs[j].state = "failed" => jobs'[j].state # "none"
    BY <1>5 DEF Retry, JobsIn
  <2>4. Held'
    BY <1>5, <2>3 DEF Retry, Held, TypeInv
  <2>. QED BY <1>5, <2>1, <2>2, <2>4 DEF Retry, BelowLimit, TypeInv, TypeOK, worldVars
<1>6. ASSUME NEW p \in Processes, NEW e \in Events, Dispatch(p, e) PROVE TypeInv'
  BY <1>6 DEF Dispatch, Subscribers, BelowLimit, Held, TypeInv, TypeOK, queueVars, worldVars
<1>7. ASSUME NEW p \in Processes, Queue(p) PROVE TypeInv'
  <2>1. PICK w \in fanout[p] : AddJob(w) /\ fanout' = [fanout EXCEPT ![p] = @ \ {w}]
    BY <1>7 DEF Queue
  <2>2. w \in Hooks /\ fanout' \in [Processes -> SUBSET Hooks]
    BY <2>1 DEF TypeInv, TypeOK
  <2>. QED BY <1>3, <1>7, <2>1, <2>2 DEF Queue, BelowLimit, TypeInv, TypeOK, worldVars
<1>8. ASSUME NEW p \in Processes, QueueFails(p) PROVE TypeInv'
  BY <1>8 DEF QueueFails, Lose, BelowLimit, Held, TypeInv, TypeOK, queueVars, worldVars
<1>9. ASSUME NEW j \in JobIds, NEW s \in {"wait", "failed"}, NEW k \in Nat,
             PutJob(j, s, jobs[j].made, k), UNCHANGED handler,
             \A p \in Processes : handler[p].job # j, jobs[j].state # "none"
      PROVE jobs' \in [JobIds -> Job] /\ Held'
  <2>1. jobs[j].made \in Nat /\ jobs[j].hook \in Hooks
    BY <1>9 DEF Job, Held, TypeInv, TypeOK
  <2>s. s \in {"none", "wait", "active", "delayed", "failed", "done"}
    BY <1>9
  <2>2. /\ jobs' \in [JobIds -> Job]
        /\ jobs'[j] = [state |-> s, hook |-> jobs[j].hook, made |-> jobs[j].made,
                       stalls |-> k]
        /\ \A i \in JobIds : i # j => jobs'[i] = jobs[i]
    BY <1>9, <2>1, <2>s, JobPut DEF PutJob
  <2>3. jobs'[j].hook \in Hooks
    BY <2>1, <2>2
  <2>. QED BY <1>9, <2>2, <2>3, FreeJobMoves
<1>10. CASE BackoffOver
  <2>1. PICK j \in JobsIn("delayed") : Move(j, "wait")
    BY <1>10 DEF BackoffOver
  <2>2. j \in JobIds /\ jobs[j].state = "delayed" /\ jobs[j].stalls \in Nat
    BY DEF JobsIn, Job, TypeInv, TypeOK
  <2>3. \A p \in Processes : handler[p].job # j
    BY <2>2 DEF Held, JobIds, TypeInv
  <2>4. jobs' \in [JobIds -> Job] /\ Held'
    BY <1>9, <1>10, <2>1, <2>2, <2>3 DEF BackoffOver, Move
  <2>. QED BY <1>10, <2>4 DEF BackoffOver, BelowLimit, TypeInv, TypeOK, worldVars
<1>11. CASE Stalled
  <2>1. PICK j \in JobsIn("active") :
              /\ \A p \in Processes : handler[p].job # j
              /\ PutJob(j, IF jobs[j].stalls < MaxStalled THEN "wait" ELSE "failed",
                        jobs[j].made, jobs[j].stalls + 1)
    BY <1>11 DEF Stalled
  <2>2. j \in JobIds /\ jobs[j].state = "active" /\ jobs[j].stalls + 1 \in Nat
    BY DEF JobsIn, Job, TypeInv, TypeOK
  <2>3. (IF jobs[j].stalls < MaxStalled THEN "wait" ELSE "failed") \in {"wait", "failed"}
    OBVIOUS
  <2>4. UNCHANGED handler /\ jobs[j].state # "none"
    BY <1>11, <2>2 DEF Stalled
  <2>5. jobs' \in [JobIds -> Job] /\ Held'
    BY <1>9, <2>1, <2>2, <2>3, <2>4
  <2>. QED BY <1>11, <2>5 DEF Stalled, BelowLimit, TypeInv, TypeOK, worldVars
<1>. QED BY <1>1, <1>2, <1>4, <1>5, <1>6, <1>7, <1>8, <1>10, <1>11 DEF ServiceStep

(* A handler that goes on keeps its job; one that ends lets it go. *)
LEMMA HandlerGoes ==
    ASSUME TypeInv, NEW p \in Processes, handler[p].pc # "idle", UNCHANGED jobs,
           NEW c \in {"lookup", "post", "log", "record"}, NEW n \in 0 .. MaxFails - 1,
           NEW b \in BOOLEAN,
           handler' = [handler EXCEPT ![p] = [pc |-> c, job |-> handler[p].job,
                                              fails |-> n, ok |-> b]]
    PROVE  handler' \in [Processes -> Handler] /\ Held'
<1>1. handler' \in [Processes -> Handler]
  BY DEF TypeInv, TypeOK, Handler
<1>2. /\ handler'[p] = [pc |-> c, job |-> handler[p].job, fails |-> n, ok |-> b]
      /\ \A q \in Processes : q # p => handler'[q] = handler[q]
  BY DEF TypeInv, TypeOK
<1>3. Held'
  BY <1>2 DEF Held, TypeInv
<1>. QED BY <1>1, <1>3

LEMMA HandlerEnds ==
    ASSUME TypeInv, NEW p \in Processes, handler[p].pc # "idle",
           NEW s \in {"wait", "delayed", "failed", "done"}, NEW m \in Nat,
           jobs' = [jobs EXCEPT ![handler[p].job] =
                       [state |-> s, hook |-> jobs[handler[p].job].hook, made |-> m,
                        stalls |-> jobs[handler[p].job].stalls]],
           handler' = [handler EXCEPT ![p] = Idle]
    PROVE  /\ jobs' \in [JobIds -> Job] /\ handler' \in [Processes -> Handler] /\ Held'
           /\ handler[p].job \in JobIds
           /\ jobs'[handler[p].job] = [state |-> s, hook |-> jobs[handler[p].job].hook,
                                       made |-> m, stalls |-> jobs[handler[p].job].stalls]
           /\ \A i \in JobIds : i # handler[p].job => jobs'[i] = jobs[i]
<1>1. handler[p].job \in JobIds
  BY DEF TypeInv, Held
<1>2. /\ jobs[handler[p].job].hook \in Hooks /\ jobs[handler[p].job].stalls \in Nat
      /\ jobs[handler[p].job].state = "active"
  BY <1>1 DEF TypeInv, TypeOK, Held, Job
<1>3. jobs' \in [JobIds -> Job]
  BY <1>1, <1>2 DEF TypeInv, TypeOK, Job
<1>4. /\ jobs'[handler[p].job] = [state |-> s, hook |-> jobs[handler[p].job].hook,
                                  made |-> m, stalls |-> jobs[handler[p].job].stalls]
      /\ \A i \in JobIds : i # handler[p].job => jobs'[i] = jobs[i]
  BY <1>1 DEF TypeInv, TypeOK
<1>5. handler' \in [Processes -> Handler]
  BY DEF TypeInv, TypeOK, Handler, Idle
<1>6. /\ handler'[p].pc = "idle" /\ handler'[p].job = 0
      /\ \A q \in Processes : q # p => handler'[q] = handler[q]
  BY DEF TypeInv, TypeOK, Idle
<1>7. Held'
  <2>1. \A q \in Processes : q # p /\ handler[q].pc # "idle" => handler[q].job # handler[p].job
    BY DEF TypeInv, Held
  <2>2. \A q \in Processes :
           IF handler'[q].pc = "idle" THEN handler'[q].job = 0
           ELSE handler'[q].job \in JobIds /\ jobs'[handler'[q].job].state = "active"
    BY <1>4, <1>6, <2>1 DEF TypeInv, Held
  <2>3. \A q, r \in Processes :
           handler'[q].pc # "idle" /\ handler'[q].job = handler'[r].job => q = r
    BY <1>6 DEF TypeInv, Held, JobIds
  <2>4. \A i \in JobIds : jobs'[i].state # "none" => jobs'[i].hook \in Hooks
    BY <1>2, <1>4 DEF TypeInv, Held
  <2>. QED BY <2>2, <2>3, <2>4 DEF Held
<1>. QED BY <1>1, <1>3, <1>4, <1>5, <1>7

(* The two ways in which a handler ends. *)
LEMMA AttemptFails ==
    ASSUME TypeInv, NEW p \in Processes, handler[p].pc # "idle", FailAttempt(p)
    PROVE  /\ jobs' \in [JobIds -> Job] /\ handler' \in [Processes -> Handler] /\ Held'
           /\ handler[p].job \in JobIds
           /\ jobs'[handler[p].job] =
                 [state |-> IF jobs[handler[p].job].made + 1 < Attempts
                            THEN "delayed" ELSE "failed",
                  hook |-> jobs[handler[p].job].hook,
                  made |-> jobs[handler[p].job].made + 1,
                  stalls |-> jobs[handler[p].job].stalls]
           /\ \A i \in JobIds : i # handler[p].job => jobs'[i] = jobs[i]
<1>1. jobs[handler[p].job].made + 1 \in Nat
  BY DEF TypeInv, TypeOK, Held, Job
<1>2. (IF jobs[handler[p].job].made + 1 < Attempts THEN "delayed" ELSE "failed")
         \in {"wait", "delayed", "failed", "done"}
  OBVIOUS
<1>. QED BY <1>1, <1>2, HandlerEnds DEF FailAttempt, PutJob

LEMMA JobFinishes ==
    ASSUME TypeInv, NEW p \in Processes, handler[p].pc # "idle", Finish(p)
    PROVE  /\ jobs' \in [JobIds -> Job] /\ handler' \in [Processes -> Handler] /\ Held'
           /\ handler[p].job \in JobIds
           /\ jobs'[handler[p].job] =
                 [state |-> "done", hook |-> jobs[handler[p].job].hook,
                  made |-> jobs[handler[p].job].made,
                  stalls |-> jobs[handler[p].job].stalls]
           /\ \A i \in JobIds : i # handler[p].job => jobs'[i] = jobs[i]
<1>1. jobs[handler[p].job].made \in Nat
  BY DEF TypeInv, TypeOK, Held, Job
<1>2. "done" \in {"wait", "delayed", "failed", "done"}
  OBVIOUS
<1>. QED BY <1>1, <1>2, HandlerEnds DEF Finish, Move, PutJob

LEMMA TypeTake == ASSUME TypeInv, NEW p \in Processes, Take(p) PROVE TypeInv'
<1>1. PICK j \in JobsIn("wait") : Move(j, "active") /\ Work(p, "lookup", j, 0, FALSE)
  BY DEF Take
<1>2. j \in JobIds /\ jobs[j].state = "wait" /\ handler[p].pc = "idle"
  BY DEF Take, JobsIn
<1>3. jobs[j].hook \in Hooks /\ jobs[j].made \in Nat /\ jobs[j].stalls \in Nat
  BY <1>2 DEF TypeInv, TypeOK, Held, Job
<1>4. jobs' \in [JobIds -> Job]
  BY <1>1, <1>2, <1>3 DEF Move, PutJob, TypeInv, TypeOK, Job
<1>5. /\ jobs'[j].state = "active" /\ jobs'[j].hook = jobs[j].hook
      /\ \A i \in JobIds : i # j => jobs'[i] = jobs[i]
  BY <1>1, <1>2 DEF Move, PutJob, TypeInv, TypeOK
<1>6. /\ handler' \in [Processes -> Handler]
      /\ handler'[p].pc = "lookup" /\ handler'[p].job = j
      /\ \A q \in Processes : q # p => handler'[q] = handler[q]
  BY <1>1, <1>2 DEF Work, TypeInv, TypeOK, Handler
<1>7. Held'
  <2>1. \A q \in Processes : handler[q].job # j
    BY <1>2 DEF Held, TypeInv, JobIds
  <2>2. \A q \in Processes :
           IF handler'[q].pc = "idle" THEN handler'[q].job = 0
           ELSE handler'[q].job \in JobIds /\ jobs'[handler'[q].job].state = "active"
    BY <1>2, <1>5, <1>6, <2>1 DEF TypeInv, Held
  <2>3. \A q, r \in Processes :
           handler'[q].pc # "idle" /\ handler'[q].job = handler'[r].job => q = r
    BY <1>6, <2>1 DEF TypeInv, Held
  <2>4. \A i \in JobIds : jobs'[i].state # "none" => jobs'[i].hook \in Hooks
    BY <1>3, <1>5 DEF TypeInv, Held
  <2>. QED BY <2>2, <2>3, <2>4 DEF Held
<1>. QED BY <1>4, <1>6, <1>7 DEF Take, BelowLimit, TypeInv, TypeOK, worldVars

(* What a handler read is below the limit, and what it writes is a counter. *)
LEMMA TypeDeliver == ASSUME TypeInv, NEW p \in Processes, DeliverStep(p) PROVE TypeInv'
<1>. handler[p] \in Handler
  BY DEF TypeInv, TypeOK
<1>1. CASE Lookup(p)
  <2>1. handler[p].pc # "idle" /\ HookOf(p) \in Hooks
    BY <1>1 DEF Lookup, At, HookOf, TypeInv, Held
  <2>2. jobs' \in [JobIds -> Job] /\ handler' \in [Processes -> Handler] /\ Held'
    <3>1. CASE Finish(p)
      BY <2>1, <3>1, JobFinishes
    <3>2. CASE /\ ~hooks[HookOf(p)].disabled /\ UNCHANGED jobs
               /\ Work(p, "post", handler[p].job, hooks[HookOf(p)].consecutiveFails, FALSE)
      <4>1. hooks[HookOf(p)].consecutiveFails \in 0 .. MaxFails - 1
        BY <2>1, <3>2 DEF TypeInv, TypeOK, BelowLimit, Hook
      <4>2. handler' \in [Processes -> Handler] /\ Held'
        BY <2>1, <3>2, <4>1, HandlerGoes DEF Work
      <4>. QED BY <3>2, <4>2 DEF TypeInv, TypeOK
    <3>. QED BY <1>1, <3>1, <3>2 DEF Lookup
  <2>3. blurred' \subseteq Hooks
    BY <1>1, <2>1 DEF Lookup, TypeInv, TypeOK
  <2>. QED BY <1>1, <2>2, <2>3 DEF Lookup, BelowLimit, TypeInv, TypeOK, worldVars
<1>2. CASE Post(p)
  <2>1. handler[p].pc # "idle" /\ handler[p].fails \in 0 .. MaxFails - 1
    BY <1>2 DEF Post, At, Handler
  <2>2. PICK ok \in BOOLEAN :
           /\ Work(p, "log", handler[p].job, handler[p].fails, ok)
           /\ accepted' = IF ok THEN accepted \cup {handler[p].job} ELSE accepted
    BY <1>2 DEF Post
  <2>3. handler' \in [Processes -> Handler] /\ Held'
    BY <1>2, <2>1, <2>2, HandlerGoes DEF Work, Post, queueVars
  <2>4. handler[p].job \in JobIds
    BY <2>1 DEF TypeInv, Held
  <2>5. accepted' \subseteq JobIds /\ posts' \in [JobIds -> Nat]
    BY <1>2, <2>2, <2>4 DEF Post, TypeInv, TypeOK
  <2>. QED BY <1>2, <2>3, <2>5 DEF Post, BelowLimit, TypeInv, TypeOK, queueVars
<1>3. CASE Log(p)
  <2>1. /\ handler[p].pc # "idle" /\ handler[p].fails \in 0 .. MaxFails - 1
        /\ handler[p].ok \in BOOLEAN
    BY <1>3 DEF Log, At, Handler
  <2>2. /\ jobs' \in [JobIds -> Job] /\ handler' \in [Processes -> Handler] /\ Held'
        /\ log' \in [Hooks -> Seq(BOOLEAN)]
    <3>1. CASE Live(HookOf(p))
      <4>1. /\ log' = LogRow(HookOf(p), handler[p].ok) /\ UNCHANGED jobs
            /\ Work(p, "record", handler[p].job, handler[p].fails, handler[p].ok)
        BY <1>3, <3>1 DEF Log
      <4>2. log' \in [Hooks -> Seq(BOOLEAN)]
        <5>1. log[HookOf(p)] \in Seq(BOOLEAN) /\ log \in [Hooks -> Seq(BOOLEAN)]
          BY <2>1 DEF HookOf, TypeInv, TypeOK, Held
        <5>2. Append(log[HookOf(p)], handler[p].ok) \in Seq(BOOLEAN)
          BY <2>1, <5>1
        <5>. QED BY <4>1, <5>1, <5>2 DEF LogRow
      <4>3. handler' \in [Processes -> Handler] /\ Held'
        BY <2>1, <4>1, HandlerGoes DEF Work
      <4>. QED BY <4>1, <4>2, <4>3 DEF TypeInv, TypeOK
    <3>2. CASE ~Live(HookOf(p))
      <4>1. FailAttempt(p) /\ UNCHANGED log
        BY <1>3, <3>2 DEF Log
      <4>2. jobs' \in [JobIds -> Job] /\ handler' \in [Processes -> Handler] /\ Held'
        BY <2>1, <4>1, AttemptFails
      <4>. QED BY <4>1, <4>2 DEF TypeInv, TypeOK
    <3>. QED BY <3>1, <3>2
  <2>. QED BY <1>3, <2>2 DEF Log, BelowLimit, TypeInv, TypeOK, worldVars
<1>4. CASE Record(p)
  <2>1. /\ handler[p].pc # "idle" /\ handler[p].fails \in 0 .. MaxFails - 1
        /\ HookOf(p) \in Hooks
    BY <1>4 DEF Record, At, Handler, HookOf, TypeInv, Held
  <2>2. hooks[HookOf(p)] \in Hook
    BY <2>1 DEF TypeInv, TypeOK
  <2>3. \/ FailAttempt(p) /\ UNCHANGED hooks
        \/ Finish(p) /\ hooks' = ResetFails(HookOf(p))
        \/ FailAttempt(p) /\ hooks' = CountFailure(HookOf(p), handler[p].fails)
    BY <1>4 DEF Record, FailedDelivery
  <2>4. jobs' \in [JobIds -> Job] /\ handler' \in [Processes -> Handler] /\ Held'
    BY <2>1, <2>3, AttemptFails, JobFinishes
  <2>5. hooks' \in [Hooks -> Hook] /\ BelowLimit'
    <3>1. ASSUME NEW d \in BOOLEAN, NEW n \in 0 .. MaxFails, ~d => n < MaxFails,
                 hooks' = [hooks EXCEPT ![HookOf(p)] =
                              [status |-> hooks[HookOf(p)].status, disabled |-> d,
                               consecutiveFails |-> n]]
          PROVE  hooks' \in [Hooks -> Hook] /\ BelowLimit'
      <4>1. /\ hooks' \in [Hooks -> Hook]
            /\ hooks'[HookOf(p)].disabled = d /\ hooks'[HookOf(p)].consecutiveFails = n
            /\ \A v \in Hooks : v # HookOf(p) => hooks'[v] = hooks[v]
        BY <2>1, <2>2, <3>1 DEF Hook, TypeInv, TypeOK
      <4>. QED BY <3>1, <4>1 DEF BelowLimit, TypeInv
    <3>2. CASE UNCHANGED hooks
      BY <3>2 DEF BelowLimit, TypeInv, TypeOK
    <3>3. CASE hooks' = ResetFails(HookOf(p))
      <4>1. /\ hooks[HookOf(p)].disabled \in BOOLEAN /\ 0 \in 0 .. MaxFails
            /\ ~hooks[HookOf(p)].disabled => 0 < MaxFails
        BY <2>2 DEF Hook
      <4>. QED BY <3>1, <3>3, <4>1 DEF ResetFails, PutHook
    <3>4. CASE hooks' = CountFailure(HookOf(p), handler[p].fails)
      <4>1. /\ Out(handler[p].fails + 1) \in BOOLEAN
            /\ handler[p].fails + 1 \in 0 .. MaxFails
            /\ ~Out(handler[p].fails + 1) => handler[p].fails + 1 < MaxFails
        BY <2>1 DEF Out
      <4>. QED BY <3>1, <3>4, <4>1 DEF CountFailure, PutHook
    <3>. QED BY <2>3, <3>2, <3>3, <3>4
  <2>. QED BY <1>4, <2>4, <2>5 DEF Record, TypeInv, TypeOK, worldVars
<1>. QED BY <1>1, <1>2, <1>3, <1>4 DEF DeliverStep

LEMMA UncountedIsHook == ASSUME TypeInv, NEW p \in Processes PROVE Uncounted(p) \subseteq Hooks
<1>1. CASE handler[p].pc = "record"
  BY <1>1 DEF Uncounted, HookOf, TypeInv, Held
<1>2. CASE handler[p].pc # "record"
  BY <1>2 DEF Uncounted
<1>. QED BY <1>1, <1>2

LEMMA TypeInterrupt == ASSUME TypeInv, NEW p \in Processes, Interrupt(p) PROVE TypeInv'
<1>1. handler[p].pc # "idle"
  BY DEF Interrupt
<1>2. jobs' \in [JobIds -> Job] /\ handler' \in [Processes -> Handler] /\ Held'
  BY <1>1, AttemptFails DEF Interrupt
<1>3. blurred' \subseteq Hooks
  BY UncountedIsHook DEF Interrupt, TypeInv, TypeOK
<1>. QED BY <1>2, <1>3 DEF Interrupt, Lose, BelowLimit, TypeInv, TypeOK, worldVars

LEMMA TypeCrash == ASSUME TypeInv, NEW p \in Processes, Crash(p) PROVE TypeInv'
<1>1. /\ handler' \in [Processes -> Handler] /\ handler'[p].pc = "idle" /\ handler'[p].job = 0
      /\ \A q \in Processes : q # p => handler'[q] = handler[q]
  BY DEF Crash, Idle, Handler, TypeInv, TypeOK
<1>2. Held'
  BY <1>1 DEF Crash, queueVars, Held, TypeInv, JobIds
<1>3. fanout' \in [Processes -> SUBSET Hooks] /\ up' \subseteq Processes
  BY DEF Crash, TypeInv, TypeOK
<1>4. blurred' \subseteq Hooks
  BY UncountedIsHook DEF Crash, TypeInv, TypeOK
<1>. QED BY <1>1, <1>2, <1>3, <1>4 DEF Crash, Lose, BelowLimit, TypeInv, TypeOK, queueVars, worldVars

LEMMA TypeStep == TypeInv /\ [Next]_vars => TypeInv'
<1>. SUFFICES ASSUME TypeInv, [Next]_vars PROVE TypeInv'
  OBVIOUS
<1>1. CASE UNCHANGED vars
  BY <1>1 DEF vars, queueVars, worldVars, TypeInv, TypeOK, BelowLimit, Held
<1>2. ASSUME NEW p \in Processes, Restart(p) PROVE TypeInv'
  BY <1>2 DEF Restart, queueVars, worldVars, TypeInv, TypeOK, BelowLimit, Held
<1>. QED BY <1>1, <1>2, TypeService, TypeTake, TypeDeliver, TypeInterrupt, TypeCrash DEF Next

(* Every reachable state is well typed: whoever shares the queue and         *)
(* whatever is lost, no counter leaves its range, no handler works on a job  *)
(* another one holds and none on a webhook that had reached the limit.       *)
THEOREM TypeCorrect == Spec => []TypeOK
<1>1. Spec => []TypeInv
  BY TypeInit, TypeStep, PTL DEF Spec
<1>2. TypeInv => TypeOK
  BY DEF TypeInv
<1>. QED BY <1>1, <1>2, PTL

----------------------------------------------------------------------------
(* The POSTs of a job.  An attempt is counted when its handler throws, a     *)
(* stall when the job of a dead handler is given back: between the POST and  *)
(* either of them one POST is not counted yet.                               *)
Unasked(j) == \E p \in Processes : handler[p].job = j /\ handler[p].pc \in {"lookup", "post"}

PostOK(j) ==
    /\ jobs[j].state = "none" => posts[j] = 0
    /\ jobs[j].state \in {"wait", "active", "delayed"} => jobs[j].made < Attempts + retried[j]
    /\ jobs[j].made <= Attempts + retried[j]
    /\ jobs[j].state # "done" => posts[j] <= jobs[j].made + jobs[j].stalls + 1
    /\ jobs[j].state \notin {"active", "done"} \/ Unasked(j)
          => posts[j] <= jobs[j].made + jobs[j].stalls
    /\ jobs[j].state = "done" => posts[j] <= Attempts + retried[j] + jobs[j].stalls

PostsInv == \A j \in JobIds : PostOK(j)

LEMMA CountersAreNat ==
    TypeInv => \A j \in JobIds : /\ posts[j] \in Nat /\ retried[j] \in Nat
                                 /\ jobs[j].made \in Nat /\ jobs[j].stalls \in Nat
BY DEF TypeInv, TypeOK, Job

LEMMA PostsInit == Init => PostsInv
BY DEF Init, PostsInv, PostOK, Unasked, NoJob, Idle, JobIds

(* A job whose handler, if any, does not move and whose counters stay. *)
LEMMA PostsFrame ==
    ASSUME NEW j \in JobIds, PostOK(j),
           jobs'[j] = jobs[j], posts'[j] = posts[j], retried'[j] = retried[j],
           \A p \in Processes : handler'[p].job = j => handler'[p] = handler[p]
    PROVE  PostOK(j)'
BY DEF PostOK, Unasked

(* The handler of a job throws, or completes it. *)
LEMMA PostsFail ==
    ASSUME TypeInv, PostsInv, NEW p \in Processes, handler[p].pc # "idle", FailAttempt(p),
           UNCHANGED <<posts, retried>>
    PROVE  PostsInv'
<1>. PICK j \in JobIds : j = handler[p].job
  BY DEF TypeInv, Held
<1>1. /\ j \in JobIds /\ Held' /\ handler'[p] = Idle
      /\ jobs'[j].state = (IF jobs[j].made + 1 < Attempts THEN "delayed" ELSE "failed")
      /\ jobs'[j].made = jobs[j].made + 1 /\ jobs'[j].stalls = jobs[j].stalls
      /\ \A i \in JobIds : i # j => jobs'[i] = jobs[i]
      /\ \A q \in Processes : q # p => handler'[q] = handler[q]
  <2>1. /\ handler'[p] = Idle
        /\ \A q \in Processes : q # p => handler'[q] = handler[q]
    BY DEF FailAttempt, TypeInv, TypeOK
  <2>2. /\ j \in JobIds /\ Held'
        /\ jobs'[j] = [state |-> IF jobs[j].made + 1 < Attempts THEN "delayed" ELSE "failed",
                       hook |-> jobs[j].hook, made |-> jobs[j].made + 1,
                       stalls |-> jobs[j].stalls]
        /\ \A i \in JobIds : i # j => jobs'[i] = jobs[i]
    BY AttemptFails
  <2>. QED BY <2>1, <2>2
<1>2. jobs[j].state = "active" /\ PostOK(j)
  BY <1>1 DEF TypeInv, Held, PostsInv
<1>3. PostOK(j)'
  <2>1. \A q \in Processes : handler'[q].job # j
    BY <1>1 DEF TypeInv, Held, Idle, JobIds
  <2>2. /\ posts[j] \in Nat /\ retried[j] \in Nat /\ jobs[j].made \in Nat /\ jobs[j].stalls \in Nat
        /\ jobs[j].made < Attempts + retried[j] /\ posts[j] <= jobs[j].made + jobs[j].stalls + 1
    BY <1>1, <1>2, CountersAreNat DEF PostOK
  <2>. QED BY <1>1, <2>1, <2>2 DEF PostOK, Unasked
<1>4. ASSUME NEW i \in JobIds, i # j PROVE PostOK(i)'
  <2>1. \A q \in Processes : handler'[q].job = i => handler'[q] = handler[q]
    BY <1>1, <1>4 DEF Idle, JobIds
  <2>2. PostOK(i) /\ jobs'[i] = jobs[i]
    BY <1>1, <1>4 DEF PostsInv
  <2>. QED BY <1>4, <2>1, <2>2, PostsFrame
<1>. QED BY <1>3, <1>4 DEF PostsInv

LEMMA PostsFinish ==
    ASSUME TypeInv, PostsInv, NEW p \in Processes, handler[p].pc # "idle", Finish(p),
           UNCHANGED <<posts, retried>>
    PROVE  PostsInv'
<1>. PICK j \in JobIds : j = handler[p].job
  BY DEF TypeInv, Held
<1>1. /\ j \in JobIds /\ Held' /\ handler'[p] = Idle
      /\ jobs'[j].state = "done"
      /\ jobs'[j].made = jobs[j].made /\ jobs'[j].stalls = jobs[j].stalls
      /\ \A i \in JobIds : i # j => jobs'[i] = jobs[i]
      /\ \A q \in Processes : q # p => handler'[q] = handler[q]
  <2>1. /\ handler'[p] = Idle
        /\ \A q \in Processes : q # p => handler'[q] = handler[q]
    BY DEF Finish, TypeInv, TypeOK
  <2>2. /\ j \in JobIds /\ Held'
        /\ jobs'[j] = [state |-> "done",
                       hook |-> jobs[j].hook, made |-> jobs[j].made,
                       stalls |-> jobs[j].stalls]
        /\ \A i \in JobIds : i # j => jobs'[i] = jobs[i]
    BY JobFinishes
  <2>. QED BY <2>1, <2>2
<1>2. jobs[j].state = "active" /\ PostOK(j)
  BY <1>1 DEF TypeInv, Held, PostsInv
<1>3. PostOK(j)'
  <2>1. \A q \in Processes : handler'[q].job # j
    BY <1>1 DEF TypeInv, Held, Idle, JobIds
  <2>2. /\ posts[j] \in Nat /\ retried[j] \in Nat /\ jobs[j].made \in Nat /\ jobs[j].stalls \in Nat
        /\ jobs[j].made < Attempts + retried[j] /\ posts[j] <= jobs[j].made + jobs[j].stalls + 1
    BY <1>1, <1>2, CountersAreNat DEF PostOK
  <2>. QED BY <1>1, <2>1, <2>2 DEF PostOK, Unasked
<1>4. ASSUME NEW i \in JobIds, i # j PROVE PostOK(i)'
  <2>1. \A q \in Processes : handler'[q].job = i => handler'[q] = handler[q]
    BY <1>1, <1>4 DEF Idle, JobIds
  <2>2. PostOK(i) /\ jobs'[i] = jobs[i]
    BY <1>1, <1>4 DEF PostsInv
  <2>. QED BY <1>4, <2>1, <2>2, PostsFrame
<1>. QED BY <1>3, <1>4 DEF PostsInv

(* A job that nobody holds is queued, waits again or is given up. *)
LEMMA PostsFree ==
    ASSUME TypeInv, PostsInv, NEW j \in JobIds, UNCHANGED <<posts, handler>>,
           \A p \in Processes : handler[p].job # j,
           \A i \in JobIds : i # j => jobs'[i] = jobs[i] /\ retried'[i] = retried[i],
           PostOK(j)'
    PROVE  PostsInv'
BY PostsFrame DEF PostsInv

LEMMA PostsService ==
    ASSUME TypeInv, PostsInv, ServiceStep \/ BackoffOver \/ Stalled PROVE PostsInv'
<1>. UNCHANGED <<posts, handler>>
  BY DEF ServiceStep, BackoffOver, Stalled, Create, RemoveHook, Ping, Retry, Dispatch, Queue,
         QueueFails, worldVars
<1>1. CASE UNCHANGED <<jobs, retried>>
  BY <1>1, PostsFrame DEF PostsInv
<1>2. ASSUME NEW w \in Hooks, AddJob(w), UNCHANGED retried PROVE PostsInv'
  <2>1. PICK j \in JobIds :
              /\ jobs[j].state = "none"
              /\ jobs'[j] = [state |-> "wait", hook |-> w, made |-> 0, stalls |-> 0]
              /\ \A i \in JobIds : i # j => jobs'[i] = jobs[i]
    BY <1>2, JobAdd
  <2>2. \A p \in Processes : handler[p].job # j
    BY <2>1 DEF TypeInv, Held, JobIds
  <2>3. posts[j] = 0 /\ retried[j] \in Nat
    BY <2>1, CountersAreNat DEF PostsInv, PostOK
  <2>4. PostOK(j)'
    BY <1>2, <2>1, <2>2, <2>3 DEF PostOK, Unasked
  <2>. QED BY <1>2, <2>1, <2>2, <2>4, PostsFree
<1>3. ASSUME NEW w \in Hooks, Retry(w) PROVE PostsInv'
  <2>. SUFFICES ASSUME NEW j \in JobIds PROVE PostOK(j)'
    BY DEF PostsInv
  <2>1. CASE jobs[j].state = "failed" /\ jobs[j].hook = w
    <3>1. /\ jobs'[j].state = "wait" /\ jobs'[j].made = jobs[j].made
          /\ jobs'[j].stalls = jobs[j].stalls /\ retried'[j] = retried[j] + 1
      BY <1>3, <2>1 DEF Retry, JobsIn
    <3>2. PostOK(j)
      BY DEF PostsInv
    <3>. QED BY <2>1, <3>1, <3>2, CountersAreNat DEF PostOK
  <2>2. CASE ~(jobs[j].state = "failed" /\ jobs[j].hook = w)
    <3>1. /\ jobs'[j].state = jobs[j].state /\ jobs'[j].made = jobs[j].made
          /\ jobs'[j].stalls = jobs[j].stalls /\ retried'[j] = retried[j]
      BY <1>3, <2>2 DEF Retry, JobsIn
    <3>2. PostOK(j)
      BY DEF PostsInv
    <3>. QED BY <3>1, <3>2 DEF PostOK, Unasked
  <2>. QED BY <2>1, <2>2
<1>4. CASE BackoffOver
  <2>1. PICK j \in JobsIn("delayed") : Move(j, "wait")
    BY <1>4 DEF BackoffOver
  <2>2. /\ j \in JobIds /\ jobs[j].state = "delayed" /\ jobs'[j].state = "wait"
        /\ jobs'[j].made = jobs[j].made /\ jobs'[j].stalls = jobs[j].stalls
        /\ \A i \in JobIds : i # j => jobs'[i] = jobs[i]
    BY <2>1 DEF JobsIn, Move, PutJob, TypeInv, TypeOK
  <2>3. \A p \in Processes : handler[p].job # j
    BY <2>2 DEF Held, JobIds, TypeInv
  <2>4. UNCHANGED retried /\ PostOK(j)
    BY <1>4, <2>2 DEF BackoffOver, PostsInv
  <2>5. PostOK(j)'
    BY <2>2, <2>3, <2>4, CountersAreNat DEF PostOK, Unasked
  <2>. QED BY <2>2, <2>3, <2>4, <2>5, PostsFree
<1>5. CASE Stalled
  <2>1. PICK j \in JobsIn("active") :
              /\ \A p \in Processes : handler[p].job # j
              /\ PutJob(j, IF jobs[j].stalls < MaxStalled THEN "wait" ELSE "failed",
                        jobs[j].made, jobs[j].stalls + 1)
    BY <1>5 DEF Stalled
  <2>2. /\ j \in JobIds /\ jobs[j].state = "active" /\ jobs'[j].state \in {"wait", "failed"}
        /\ jobs'[j].made = jobs[j].made /\ jobs'[j].stalls = jobs[j].stalls + 1
        /\ \A i \in JobIds : i # j => jobs'[i] = jobs[i]
    BY <2>1 DEF JobsIn, PutJob, TypeInv, TypeOK
  <2>3. UNCHANGED retried /\ PostOK(j)
    BY <1>5, <2>2 DEF Stalled, PostsInv
  <2>4. PostOK(j)'
    BY <2>1, <2>2, <2>3, CountersAreNat DEF PostOK, Unasked
  <2>. QED BY <2>1, <2>2, <2>3, <2>4, PostsFree
<1>. QED
  BY <1>1, <1>2, <1>3, <1>4, <1>5
  DEF ServiceStep, Create, RemoveHook, Ping, Dispatch, Queue, QueueFails, queueVars,
      TypeInv, TypeOK

(* The steps of a handler. *)
LEMMA PostsHandler ==
    ASSUME TypeInv, PostsInv, NEW p \in Processes,
           Take(p) \/ DeliverStep(p) \/ Interrupt(p) \/ Crash(p) \/ Restart(p)
    PROVE  PostsInv'
<1>1. CASE Take(p)
  <2>1. PICK j \in JobsIn("wait") : Move(j, "active") /\ Work(p, "lookup", j, 0, FALSE)
    BY <1>1 DEF Take
  <2>2. /\ j \in JobIds /\ jobs[j].state = "wait" /\ jobs'[j].state = "active"
        /\ jobs'[j].made = jobs[j].made /\ jobs'[j].stalls = jobs[j].stalls
        /\ \A i \in JobIds : i # j => jobs'[i] = jobs[i]
    BY <2>1 DEF JobsIn, Move, PutJob, TypeInv, TypeOK
  <2>3. /\ handler'[p].job = j /\ \A q \in Processes : q # p => handler'[q] = handler[q]
        /\ UNCHANGED <<posts, retried>>
    BY <1>1, <2>1 DEF Work, Take, TypeInv, TypeOK, worldVars
  <2>4. PostOK(j)
    BY <2>2 DEF PostsInv
  <2>5. PostOK(j)'
    BY <2>2, <2>3, <2>4, CountersAreNat DEF PostOK
  <2>6. ASSUME NEW i \in JobIds, i # j PROVE PostOK(i)'
    <3>1. \A q \in Processes : handler'[q].job = i => handler'[q] = handler[q]
      BY <2>3, <2>6
    <3>2. /\ PostOK(i) /\ jobs'[i] = jobs[i] /\ posts'[i] = posts[i]
          /\ retried'[i] = retried[i]
      BY <2>2, <2>3, <2>6 DEF PostsInv
    <3>. QED BY <3>1, <3>2, PostsFrame
  <2>. QED BY <2>5, <2>6 DEF PostsInv
<1>2. CASE Post(p)
  <2>. PICK j \in JobIds : j = handler[p].job
    BY <1>2 DEF Post, At, TypeInv, Held
  <2>1. /\ handler[p].pc = "post" /\ handler'[p].job = j
        /\ handler'[p].pc = "log"
        /\ \A q \in Processes : q # p => handler'[q] = handler[q]
    BY <1>2 DEF Post, At, Work, TypeInv, TypeOK
  <2>2. /\ posts'[j] = posts[j] + 1 /\ UNCHANGED <<jobs, retried>>
        /\ \A i \in JobIds : i # j => posts'[i] = posts[i]
    BY <1>2 DEF Post, queueVars, TypeInv, TypeOK
  <2>3. jobs[j].state = "active" /\ PostOK(j) /\ Unasked(j)
    BY <2>1 DEF TypeInv, Held, PostsInv, Unasked
  <2>4. ~Unasked(j)'
    BY <2>1 DEF TypeInv, Held, Unasked
  <2>5. PostOK(j)'
    BY <2>2, <2>3, <2>4, CountersAreNat DEF PostOK
  <2>6. ASSUME NEW i \in JobIds, i # j PROVE PostOK(i)'
    <3>1. \A q \in Processes : handler'[q].job = i => handler'[q] = handler[q]
      BY <2>1, <2>6
    <3>2. /\ PostOK(i) /\ jobs'[i] = jobs[i] /\ posts'[i] = posts[i]
          /\ retried'[i] = retried[i]
      BY <2>2, <2>6 DEF PostsInv
    <3>. QED BY <3>1, <3>2, PostsFrame
  <2>. QED BY <2>5, <2>6 DEF PostsInv
<1>3. CASE handler[p].pc # "idle" /\ FailAttempt(p) /\ UNCHANGED <<posts, retried>>
  BY <1>3, PostsFail
<1>4. CASE handler[p].pc # "idle" /\ Finish(p) /\ UNCHANGED <<posts, retried>>
  BY <1>4, PostsFinish
<1>5. ASSUME UNCHANGED <<jobs, posts, retried>>,
             \A q \in Processes : q # p => handler'[q] = handler[q],
             \/ handler'[p].job = 0
             \/ /\ handler'[p].job = handler[p].job
                /\ handler'[p].pc \in {"lookup", "post"} => handler[p].pc \in {"lookup", "post"}
      PROVE  PostsInv'
  <2>. SUFFICES ASSUME NEW j \in JobIds PROVE PostOK(j)'
    BY DEF PostsInv
  <2>1. Unasked(j)' => Unasked(j)
    BY <1>5 DEF Unasked, JobIds
  <2>2. PostOK(j)
    BY DEF PostsInv
  <2>. QED BY <1>5, <2>1, <2>2 DEF PostOK
<1>6. CASE Lookup(p)
  <2>1. CASE Finish(p)
    BY <1>4, <1>6, <2>1 DEF Lookup, At, worldVars
  <2>2. CASE /\ Work(p, "post", handler[p].job, hooks[HookOf(p)].consecutiveFails, FALSE)
             /\ UNCHANGED jobs
    BY <1>5, <1>6, <2>2 DEF Lookup, At, Work, worldVars, TypeInv, TypeOK
  <2>. QED BY <1>6, <2>1, <2>2 DEF Lookup
<1>7. CASE Log(p)
  <2>1. CASE FailAttempt(p)
    BY <1>3, <1>7, <2>1 DEF Log, At, worldVars
  <2>2. CASE /\ Work(p, "record", handler[p].job, handler[p].fails, handler[p].ok)
             /\ UNCHANGED jobs
    BY <1>5, <1>7, <2>2 DEF Log, At, Work, worldVars, TypeInv, TypeOK
  <2>. QED BY <1>7, <2>1, <2>2 DEF Log
<1>8. CASE Record(p)
  BY <1>3, <1>4, <1>8 DEF Record, FailedDelivery, At, worldVars
<1>9. CASE Interrupt(p)
  BY <1>3, <1>9 DEF Interrupt, worldVars
<1>10. CASE Crash(p)
  BY <1>5, <1>10 DEF Crash, Idle, queueVars, worldVars, TypeInv, TypeOK
<1>11. CASE Restart(p)
  BY <1>5, <1>11 DEF Restart, queueVars, worldVars
<1>. QED BY <1>1, <1>2, <1>6, <1>7, <1>8, <1>9, <1>10, <1>11 DEF DeliverStep

LEMMA PostsStep == TypeInv /\ PostsInv /\ [Next]_vars => PostsInv'
<1>. SUFFICES ASSUME TypeInv, PostsInv, [Next]_vars PROVE PostsInv'
  OBVIOUS
<1>1. CASE UNCHANGED vars
  BY <1>1, PostsFrame DEF vars, queueVars, worldVars, PostsInv
<1>2. CASE ServiceStep \/ BackoffOver \/ Stalled
  BY <1>2, PostsService
<1>. QED BY <1>1, <1>2, PostsHandler DEF Next

(* However many processes work on the queue, and however often one dies      *)
(* between its POST and the end of its handler: an endpoint is asked at most *)
(* Attempts times, once more for each retry by its owner and once for each   *)
(* handler that died.                                                        *)
THEOREM AttemptsBounded == Spec => []PostsBounded
<1>1. Init => TypeInv /\ PostsInv
  BY TypeInit, PostsInit
<1>2. TypeInv /\ PostsInv /\ [Next]_vars => TypeInv' /\ PostsInv'
  BY TypeStep, PostsStep
<1>3. TypeInv /\ PostsInv => PostsBounded
  <2>. SUFFICES ASSUME TypeInv, PostsInv, NEW j \in JobIds
                PROVE  posts[j] <= Attempts + retried[j] + jobs[j].stalls
                         + (IF jobs[j].state = "active" /\ \A p \in Processes : handler[p].job # j
                            THEN 1 ELSE 0)
    BY DEF PostsBounded
  <2>1. PostOK(j) /\ jobs[j] \in Job
    BY DEF PostsInv, TypeInv, TypeOK
  <2>. QED BY <2>1, CountersAreNat DEF PostOK, Job
<1>. QED BY <1>1, <1>2, <1>3, PTL DEF Spec

----------------------------------------------------------------------------
(* Deliveries.  A handler that saw a success is the handler of a job that    *)
(* was accepted, and only a handler completes a job.                         *)
AnsweredInv ==
    \A p \in Processes : handler[p].pc \in {"log", "record"} /\ handler[p].ok =>
        handler[p].job \in accepted

JustDone(j) == jobs[j].state # "done" /\ jobs'[j].state = "done"
OffBefore(j) == ~Live(jobs[j].hook) \/ hooks[jobs[j].hook].disabled

LEMMA AnsweredFrame ==
    ASSUME AnsweredInv, accepted \subseteq accepted',
           \A p \in Processes :
              \/ handler'[p].pc \notin {"log", "record"} \/ ~handler'[p].ok
              \/ handler'[p].job \in accepted'
              \/ /\ handler'[p].job = handler[p].job /\ handler'[p].ok = handler[p].ok
                 /\ handler[p].pc \in {"log", "record"}
    PROVE  AnsweredInv'
BY DEF AnsweredInv

LEMMA AnsweredStep == TypeInv /\ AnsweredInv /\ [Next]_vars => AnsweredInv'
<1>. SUFFICES ASSUME TypeInv, AnsweredInv, [Next]_vars PROVE AnsweredInv'
  OBVIOUS
<1>1. CASE UNCHANGED <<handler, accepted>>
  BY <1>1 DEF AnsweredInv
<1>2. ASSUME NEW p \in Processes, accepted \subseteq accepted',
             \A q \in Processes : q # p => handler'[q] = handler[q],
             \/ handler'[p].pc \in {"idle", "lookup", "post"}
             \/ ~handler'[p].ok \/ handler'[p].job \in accepted'
             \/ /\ handler'[p].job = handler[p].job /\ handler'[p].ok = handler[p].ok
                /\ handler[p].pc = "log"
      PROVE  AnsweredInv'
  <2>. SUFFICES ASSUME NEW q \in Processes
                PROVE  \/ handler'[q].pc \notin {"log", "record"} \/ ~handler'[q].ok
                       \/ handler'[q].job \in accepted'
                       \/ /\ handler'[q].job = handler[q].job /\ handler'[q].ok = handler[q].ok
                          /\ handler[q].pc \in {"log", "record"}
    BY <1>2, AnsweredFrame
  <2>. QED BY <1>2
<1>3. ASSUME NEW p \in Processes, Finish(p) \/ FailAttempt(p), UNCHANGED accepted
      PROVE  AnsweredInv'
  <2>1. handler'[p].pc = "idle" /\ \A q \in Processes : q # p => handler'[q] = handler[q]
    BY <1>3 DEF Finish, FailAttempt, Idle, TypeInv, TypeOK
  <2>. QED BY <1>2, <1>3, <2>1
<1>4. ASSUME NEW p \in Processes, NEW c, NEW j, NEW n, NEW b, Work(p, c, j, n, b)
      PROVE  /\ handler'[p].pc = c /\ handler'[p].job = j /\ handler'[p].ok = b
             /\ \A q \in Processes : q # p => handler'[q] = handler[q]
  BY <1>4 DEF Work, TypeInv, TypeOK
<1>5. ASSUME NEW p \in Processes, Take(p) PROVE AnsweredInv'
  <2>1. PICK j : Work(p, "lookup", j, 0, FALSE)
    BY <1>5 DEF Take
  <2>2. handler'[p].pc = "lookup" /\ \A q \in Processes : q # p => handler'[q] = handler[q]
    BY <1>4, <2>1
  <2>3. UNCHANGED accepted
    BY <1>5 DEF Take, worldVars
  <2>. QED BY <1>2, <2>2, <2>3
<1>6. ASSUME NEW p \in Processes, Lookup(p) PROVE AnsweredInv'
  <2>1. CASE Finish(p)
    BY <1>3, <1>6, <2>1 DEF Lookup, worldVars
  <2>2. CASE Work(p, "post", handler[p].job, hooks[HookOf(p)].consecutiveFails, FALSE)
    <3>1. handler'[p].pc = "post" /\ \A q \in Processes : q # p => handler'[q] = handler[q]
      BY <1>4, <2>2
    <3>2. UNCHANGED accepted
      BY <1>6 DEF Lookup, worldVars
    <3>. QED BY <1>2, <3>1, <3>2
  <2>. QED BY <1>6, <2>1, <2>2 DEF Lookup
<1>7. ASSUME NEW p \in Processes, Post(p) PROVE AnsweredInv'
  <2>1. PICK ok \in BOOLEAN :
           /\ Work(p, "log", handler[p].job, handler[p].fails, ok)
           /\ accepted' = IF ok THEN accepted \cup {handler[p].job} ELSE accepted
    BY <1>7 DEF Post
  <2>2. accepted \subseteq accepted' /\ (~ok \/ handler[p].job \in accepted')
    BY <2>1
  <2>3. /\ handler'[p].job = handler[p].job /\ handler'[p].ok = ok
        /\ \A q \in Processes : q # p => handler'[q] = handler[q]
    BY <1>4, <2>1
  <2>4. ~handler'[p].ok \/ handler'[p].job \in accepted'
    BY <2>2, <2>3
  <2>. QED BY <1>2, <2>2, <2>3, <2>4
<1>8. ASSUME NEW p \in Processes, Log(p) PROVE AnsweredInv'
  <2>1. CASE FailAttempt(p)
    BY <1>3, <1>8, <2>1 DEF Log, worldVars
  <2>2. CASE Work(p, "record", handler[p].job, handler[p].fails, handler[p].ok)
    <3>1. /\ handler'[p].job = handler[p].job /\ handler'[p].ok = handler[p].ok
          /\ \A q \in Processes : q # p => handler'[q] = handler[q]
      BY <1>4, <2>2
    <3>2. UNCHANGED accepted /\ handler[p].pc = "log"
      BY <1>8 DEF Log, At, worldVars
    <3>. QED BY <1>2, <3>1, <3>2
  <2>. QED BY <1>8, <2>1, <2>2 DEF Log
<1>9. ASSUME NEW p \in Processes, Record(p) \/ Interrupt(p) PROVE AnsweredInv'
  BY <1>3, <1>9 DEF Record, FailedDelivery, Interrupt, worldVars
<1>10. ASSUME NEW p \in Processes, Crash(p) PROVE AnsweredInv'
  <2>1. handler'[p].pc = "idle" /\ \A q \in Processes : q # p => handler'[q] = handler[q]
    BY <1>10 DEF Crash, Idle, TypeInv, TypeOK
  <2>. QED BY <1>2, <1>10, <2>1 DEF Crash, worldVars
<1>11. ASSUME NEW p \in Processes, Restart(p) PROVE AnsweredInv'
  BY <1>1, <1>11 DEF Restart, worldVars
<1>12. CASE ServiceStep \/ BackoffOver \/ Stalled \/ UNCHANGED vars
  BY <1>1, <1>12
  DEF ServiceStep, Create, RemoveHook, Ping, Retry, Dispatch, Queue, QueueFails, BackoffOver,
      Stalled, vars, worldVars
<1>. QED BY <1>5, <1>6, <1>7, <1>8, <1>9, <1>10, <1>11, <1>12 DEF Next, DeliverStep

LEMMA HandlerJob ==
    ASSUME TypeInv, NEW p \in Processes, handler[p].pc # "idle", FailAttempt(p) \/ Finish(p)
    PROVE  /\ jobs'[handler[p].job].hook = jobs[handler[p].job].hook
           /\ FailAttempt(p) => jobs'[handler[p].job].state \in {"delayed", "failed"}
           /\ Finish(p) => jobs'[handler[p].job].state = "done"
           /\ \A i \in JobIds : i # handler[p].job => jobs'[i] = jobs[i]
<1>1. ASSUME FailAttempt(p)
      PROVE  /\ jobs'[handler[p].job].hook = jobs[handler[p].job].hook
             /\ jobs'[handler[p].job].state \in {"delayed", "failed"}
             /\ \A i \in JobIds : i # handler[p].job => jobs'[i] = jobs[i]
  <2>1. /\ jobs'[handler[p].job] =
             [state |-> IF jobs[handler[p].job].made + 1 < Attempts
                        THEN "delayed" ELSE "failed",
              hook |-> jobs[handler[p].job].hook,
              made |-> jobs[handler[p].job].made + 1,
              stalls |-> jobs[handler[p].job].stalls]
        /\ \A i \in JobIds : i # handler[p].job => jobs'[i] = jobs[i]
    BY <1>1, AttemptFails
  <2>. QED BY <2>1
<1>2. ASSUME Finish(p)
      PROVE  /\ jobs'[handler[p].job].hook = jobs[handler[p].job].hook
             /\ jobs'[handler[p].job].state = "done"
             /\ \A i \in JobIds : i # handler[p].job => jobs'[i] = jobs[i]
  <2>1. /\ jobs'[handler[p].job] =
             [state |-> "done",
              hook |-> jobs[handler[p].job].hook,
              made |-> jobs[handler[p].job].made,
              stalls |-> jobs[handler[p].job].stalls]
        /\ \A i \in JobIds : i # handler[p].job => jobs'[i] = jobs[i]
    BY <1>2, JobFinishes
  <2>. QED BY <2>1
<1>. QED BY <1>1, <1>2

(* Only a lookup that finds its webhook off and the end of a delivery that   *)
(* was accepted complete a job.                                              *)
LEMMA DoneStep ==
    ASSUME TypeInv, AnsweredInv, [Next]_vars, NEW j \in JobIds, JustDone(j)
    PROVE  j \in accepted \/ OffBefore(j)
<1>1. ASSUME NEW i \in JobIds, NEW s \in {"wait", "active", "failed"}, NEW m, NEW k,
             PutJob(i, s, m, k)
      PROVE  FALSE
  BY <1>1 DEF PutJob, JustDone, TypeInv, TypeOK
<1>2. ASSUME NEW w, AddJob(w) PROVE FALSE
  BY <1>2 DEF AddJob, JobsIn, JustDone, TypeInv, TypeOK
<1>3. ASSUME NEW p \in Processes, handler[p].pc # "idle", FailAttempt(p) PROVE FALSE
  <2>1. /\ jobs'[handler[p].job].state \in {"delayed", "failed"}
        /\ \A i \in JobIds : i # handler[p].job => jobs'[i] = jobs[i]
    BY <1>3, HandlerJob
  <2>. QED BY <2>1 DEF JustDone
<1>4. ASSUME NEW p \in Processes, handler[p].pc # "idle", Finish(p) PROVE j = handler[p].job
  BY <1>4, HandlerJob DEF JustDone
<1>5. ASSUME NEW p \in Processes, Lookup(p) PROVE OffBefore(j)
  <2>1. handler[p].pc # "idle" /\ Finish(p)
    BY <1>5 DEF Lookup, At, JustDone
  <2>2. j = handler[p].job
    BY <1>4, <2>1
  <2>3. ~UNCHANGED jobs
    BY DEF JustDone
  <2>4. ~Live(HookOf(p)) \/ hooks[HookOf(p)].disabled
    BY <1>5, <2>3 DEF Lookup
  <2>. QED BY <2>2, <2>4 DEF OffBefore, HookOf
<1>6. ASSUME NEW p \in Processes, Record(p) PROVE j \in accepted
  <2>1. handler[p].pc = "record" /\ handler[p].ok /\ Finish(p)
    BY <1>3, <1>6 DEF Record, At, FailedDelivery
  <2>2. j = handler[p].job
    BY <1>4, <2>1
  <2>. QED BY <2>1, <2>2 DEF AnsweredInv
<1>7. ASSUME NEW p \in Processes, Log(p) \/ Interrupt(p) PROVE FALSE
  BY <1>3, <1>7 DEF Log, At, Interrupt, JustDone
<1>8. ASSUME NEW p \in Processes, Take(p) PROVE FALSE
  BY <1>1, <1>8 DEF Take, Move, JobsIn
<1>9. CASE BackoffOver \/ Stalled
  <2>1. CASE BackoffOver
    BY <1>1, <2>1 DEF BackoffOver, Move, JobsIn
  <2>2. CASE Stalled
    <3>1. PICK i \in JobIds : PutJob(i, IF jobs[i].stalls < MaxStalled THEN "wait" ELSE "failed",
                                     jobs[i].made, jobs[i].stalls + 1)
      BY <2>2 DEF Stalled, JobsIn
    <3>2. (IF jobs[i].stalls < MaxStalled THEN "wait" ELSE "failed") \in {"wait", "active", "failed"}
      OBVIOUS
    <3>. QED BY <1>1, <3>1, <3>2
  <2>. QED BY <1>9, <2>1, <2>2
<1>10. ASSUME NEW w \in Hooks, Retry(w) PROVE FALSE
  BY <1>10 DEF Retry, JobsIn, JustDone
<1>11. ASSUME NEW w \in Hooks, Ping(w) PROVE FALSE
  BY <1>2, <1>11 DEF Ping
<1>12. ASSUME NEW p \in Processes, Queue(p) PROVE FALSE
  BY <1>2, <1>12 DEF Queue
<1>13. CASE UNCHANGED jobs
  BY <1>13 DEF JustDone
<1>. QED
  BY <1>5, <1>6, <1>7, <1>8, <1>9, <1>10, <1>11, <1>12, <1>13
  DEF Next, ServiceStep, DeliverStep, Create, RemoveHook, Dispatch, QueueFails, Post, Crash,
      Restart, vars, queueVars

(* Whatever crash, lost call, retry or removal comes between and however     *)
(* many processes deliver: a job BullMQ counts as completed was taken by its *)
(* endpoint, or its webhook was gone or disabled when it was completed.      *)
THEOREM DeliveredSound == Spec => DoneIsDelivered
<1>1. Init => TypeInv /\ AnsweredInv
  BY TypeInit DEF Init, AnsweredInv, Idle
<1>2. TypeInv /\ AnsweredInv /\ [Next]_vars => TypeInv' /\ AnsweredInv'
  BY TypeStep, AnsweredStep
<1>3. TypeInv /\ AnsweredInv /\ [Next]_vars =>
        [\A j \in JobIds :
            jobs[j].state # "done" /\ jobs'[j].state = "done" =>
                j \in accepted \/ ~Live(jobs[j].hook) \/ hooks[jobs[j].hook].disabled]_vars
  BY DoneStep DEF JustDone, OffBefore
<1>. QED BY <1>1, <1>2, <1>3, PTL DEF Spec, DoneIsDelivered

----------------------------------------------------------------------------
(* The log of a webhook, with any number of processes.  A queued job stays   *)
(* with its webhook, which exists or is gone.                                *)
KnownInv ==
    /\ \A j \in JobIds : jobs[j].state # "none" => hooks[jobs[j].hook].status # "new"
    /\ \A p \in Processes : \A w \in fanout[p] : hooks[w].status # "new"

HooksStay ==
    \A j \in JobIds : jobs[j].state # "none" =>
        jobs'[j].state # "none" /\ jobs'[j].hook = jobs[j].hook

LEMMA KnownFrame ==
    ASSUME TypeInv, KnownInv,
           \A w \in Hooks : hooks[w].status # "new" => hooks'[w].status # "new",
           \A j \in JobIds :
              \/ jobs'[j].state = jobs[j].state /\ jobs'[j].hook = jobs[j].hook
              \/ jobs[j].state # "none" /\ jobs'[j].state # "none" /\ jobs'[j].hook = jobs[j].hook
              \/ /\ jobs[j].state = "none" /\ jobs'[j].hook \in Hooks
                 /\ hooks[jobs'[j].hook].status # "new",
           \A p \in Processes : \A w \in fanout'[p] : w \in Hooks /\ hooks[w].status # "new"
    PROVE  KnownInv' /\ HooksStay
<1>1. \A j \in JobIds : jobs[j].state # "none" => jobs[j].hook \in Hooks
  BY DEF TypeInv, Held
<1>2. \A j \in JobIds : jobs'[j].state # "none" =>
         jobs'[j].hook \in Hooks /\ hooks[jobs'[j].hook].status # "new"
  BY <1>1 DEF KnownInv
<1>. QED BY <1>2 DEF KnownInv, HooksStay

LEMMA KnownStep ==
    ASSUME TypeInv, KnownInv, [Next]_vars PROVE KnownInv' /\ HooksStay
<1>. DEFINE Aged == \A w \in Hooks : hooks[w].status # "new" => hooks'[w].status # "new"
            Fan == \A p \in Processes : \A w \in fanout'[p] : w \in Hooks /\ hooks[w].status # "new"
<1>0. /\ \A p \in Processes : \A w \in fanout[p] : w \in Hooks /\ hooks[w].status # "new"
      /\ \A j \in JobIds : jobs[j].state # "none" => jobs[j].hook \in Hooks
      /\ \A p \in Processes : handler[p].pc # "idle" =>
            /\ handler[p].job \in JobIds /\ jobs[handler[p].job].state = "active"
            /\ HookOf(p) \in Hooks
  BY DEF KnownInv, TypeInv, TypeOK, Held, HookOf
<1>1. CASE UNCHANGED jobs /\ Aged /\ Fan
  BY <1>1, KnownFrame
<1>2. ASSUME NEW j \in JobIds, jobs[j].state # "none", jobs'[j].state # "none",
             jobs'[j].hook = jobs[j].hook, \A i \in JobIds : i # j => jobs'[i] = jobs[i],
             Aged, Fan
      PROVE  KnownInv' /\ HooksStay
  BY <1>2, KnownFrame
<1>3. ASSUME NEW w \in Hooks, AddJob(w), hooks[w].status # "new", UNCHANGED hooks, Fan
      PROVE  KnownInv' /\ HooksStay
  <2>1. PICK j \in JobIds :
              /\ jobs[j].state = "none"
              /\ jobs'[j] = [state |-> "wait", hook |-> w, made |-> 0, stalls |-> 0]
              /\ \A i \in JobIds : i # j => jobs'[i] = jobs[i]
    BY <1>3, JobAdd
  <2>. QED BY <1>3, <2>1, KnownFrame
<1>4. ASSUME NEW w \in Hooks, Create(w) \/ RemoveHook(w) PROVE KnownInv' /\ HooksStay
  <2>a. PICK s \in {"live", "removed"} : \E d, n : hooks' = PutHook(w, s, d, n)
    BY <1>4 DEF Create, RemoveHook
  <2>b. hooks'[w].status # "new" /\ \A v \in Hooks : v # w => hooks'[v] = hooks[v]
    BY <2>a DEF PutHook, TypeInv, TypeOK
  <2>1. UNCHANGED <<jobs, fanout>> /\ Aged
    BY <1>4, <2>b DEF Create, RemoveHook, queueVars
  <2>2. Fan
    BY <1>0, <2>1
  <2>. QED BY <1>1, <2>1, <2>2
<1>5. ASSUME NEW w \in Hooks, Ping(w) PROVE KnownInv' /\ HooksStay
  <2>1. Fan /\ AddJob(w) /\ hooks[w].status # "new" /\ UNCHANGED hooks
    BY <1>0, <1>5 DEF Ping, Live
  <2>. QED BY <1>3, <2>1
<1>6. ASSUME NEW p \in Processes, Queue(p) PROVE KnownInv' /\ HooksStay
  <2>1. PICK w \in fanout[p] : AddJob(w) /\ fanout' = [fanout EXCEPT ![p] = @ \ {w}]
    BY <1>6 DEF Queue
  <2>2. w \in Hooks /\ hooks[w].status # "new" /\ UNCHANGED hooks
    BY <1>0, <1>6, <2>1 DEF Queue
  <2>3. Fan
    BY <1>0, <2>1 DEF TypeInv, TypeOK
  <2>. QED BY <1>3, <2>1, <2>2, <2>3
<1>7. ASSUME NEW p \in Processes, NEW e \in Events, Dispatch(p, e) PROVE KnownInv' /\ HooksStay
  <2>1. UNCHANGED <<jobs, hooks>> /\ Fan
    BY <1>0, <1>7 DEF Dispatch, Subscribers, Live, queueVars, TypeInv, TypeOK
  <2>. QED BY <1>1, <2>1
<1>8. ASSUME NEW p \in Processes, QueueFails(p) PROVE KnownInv' /\ HooksStay
  <2>1. UNCHANGED <<jobs, hooks>> /\ Fan
    BY <1>0, <1>8 DEF QueueFails, queueVars, TypeInv, TypeOK
  <2>. QED BY <1>1, <2>1
<1>9. ASSUME NEW w \in Hooks, Retry(w) PROVE KnownInv' /\ HooksStay
  <2>1. \A j \in JobIds : /\ jobs'[j].hook = jobs[j].hook
                          /\ \/ jobs'[j].state = jobs[j].state
                             \/ jobs[j].state = "failed" /\ jobs'[j].state = "wait"
    BY <1>9 DEF Retry, JobsIn
  <2>2. Aged /\ Fan
    BY <1>0, <1>9 DEF Retry
  <2>. QED BY <2>1, <2>2, KnownFrame
<1>10. CASE BackoffOver \/ Stalled
  <2>1. PICK j \in JobIds : /\ jobs[j].state # "none" /\ jobs'[j].state # "none"
                            /\ jobs'[j].hook = jobs[j].hook
                            /\ \A i \in JobIds : i # j => jobs'[i] = jobs[i]
    <3>1. CASE BackoffOver
      BY <3>1 DEF BackoffOver, JobsIn, Move, PutJob, TypeInv, TypeOK
    <3>2. CASE Stalled
      BY <3>2 DEF Stalled, JobsIn, PutJob, TypeInv, TypeOK
    <3>. QED BY <1>10, <3>1, <3>2
  <2>2. Aged /\ Fan
    BY <1>0, <1>10 DEF BackoffOver, Stalled
  <2>. QED BY <1>2, <2>1, <2>2
<1>11. ASSUME NEW p \in Processes, Take(p) PROVE KnownInv' /\ HooksStay
  <2>1. PICK j \in JobsIn("wait") : Move(j, "active")
    BY <1>11 DEF Take
  <2>2. /\ j \in JobIds /\ jobs[j].state = "wait" /\ jobs'[j].state = "active"
        /\ jobs'[j].hook = jobs[j].hook
        /\ \A i \in JobIds : i # j => jobs'[i] = jobs[i]
    BY <2>1 DEF JobsIn, Move, PutJob, TypeInv, TypeOK
  <2>3. Aged /\ Fan
    BY <1>0, <1>11 DEF Take
  <2>. QED BY <1>2, <2>2, <2>3
<1>12. ASSUME NEW p \in Processes, handler[p].pc # "idle", FailAttempt(p) \/ Finish(p), Aged, Fan
       PROVE  KnownInv' /\ HooksStay
  <2>1. /\ jobs'[handler[p].job].hook = jobs[handler[p].job].hook
        /\ jobs'[handler[p].job].state # "none"
        /\ \A i \in JobIds : i # handler[p].job => jobs'[i] = jobs[i]
    BY <1>12, HandlerJob
  <2>. QED BY <1>0, <1>2, <1>12, <2>1
<1>13. ASSUME NEW p \in Processes,
              DeliverStep(p) \/ Interrupt(p) \/ Crash(p) \/ Restart(p)
       PROVE  KnownInv' /\ HooksStay
  <2>1. Fan
    <3>1. fanout'[p] \subseteq fanout[p] /\ \A q \in Processes : q # p => fanout'[q] = fanout[q]
      BY <1>13 DEF DeliverStep, Lookup, Post, Log, Record, Interrupt, Crash, Restart, TypeInv, TypeOK
    <3>. QED BY <1>0, <3>1
  <2>2. Aged
    <3>1. ASSUME NEW d \in BOOLEAN, NEW n \in Nat,
                 HookOf(p) \in Hooks, hooks' = PutHook(HookOf(p), hooks[HookOf(p)].status, d, n)
          PROVE  Aged
      BY <3>1 DEF PutHook, TypeInv, TypeOK
    <3>2. CASE Record(p)
      <4>1. /\ HookOf(p) \in Hooks /\ handler[p].fails + 1 \in Nat /\ 0 \in Nat
            /\ hooks[HookOf(p)].disabled \in BOOLEAN /\ Out(handler[p].fails + 1) \in BOOLEAN
        BY <1>0, <3>2 DEF Record, At, TypeInv, TypeOK, Hook, Handler, Out
      <4>2. \/ UNCHANGED hooks \/ hooks' = ResetFails(HookOf(p))
            \/ hooks' = CountFailure(HookOf(p), handler[p].fails)
        BY <3>2 DEF Record
      <4>. QED BY <3>1, <4>1, <4>2 DEF ResetFails, CountFailure
    <3>3. CASE UNCHANGED hooks
      BY <3>3
    <3>. QED BY <1>13, <3>2, <3>3 DEF DeliverStep, Lookup, Post, Log, Interrupt, Crash, Restart
  <2>3. CASE UNCHANGED jobs
    BY <1>1, <2>1, <2>2, <2>3
  <2>4. CASE handler[p].pc # "idle" /\ (FailAttempt(p) \/ Finish(p))
    BY <1>12, <2>1, <2>2, <2>4
  <2>. QED
    BY <1>13, <2>3, <2>4
    DEF DeliverStep, Lookup, Post, Log, Record, FailedDelivery, Interrupt, Crash, Restart, At, queueVars
<1>14. CASE UNCHANGED vars
  <2>1. UNCHANGED <<jobs, hooks, fanout>>
    BY <1>14 DEF vars, queueVars
  <2>2. Aged /\ Fan
    BY <1>0, <2>1
  <2>. QED BY <1>1, <2>1, <2>2
<1>. QED
  BY <1>4, <1>5, <1>6, <1>7, <1>8, <1>9, <1>10, <1>11, <1>13, <1>14 DEF Next, ServiceStep

(* The rows of a webhook that is not gone, with the attempts about to write  *)
(* theirs, are the POSTs of its jobs, less at most what was lost.            *)
Of(w) == {j \in JobIds : jobs[j].hook = w}
Logging(w) == {p \in Processes : handler[p].pc = "log" /\ HookOf(p) = w}

Within(rows, ahead, made, lost) == rows + ahead <= made /\ made <= rows + ahead + lost

LoggedInv ==
    \A w \in Hooks : hooks[w].status # "removed" =>
        Within(Len(log[w]), Cardinality(Logging(w)), SumOf(posts, Of(w)), losses)

(* The numbers are numbers; and a row or a POST more, a row instead of an    *)
(* attempt about to write one, or a loss more.                               *)
LEMMA WithinMoves ==
    ASSUME NEW n \in Nat, NEW c \in Nat, NEW s \in Int, NEW k \in Nat, Within(n, c, s, k)
    PROVE  /\ Within(n, c + 1, s + 1, k)
           /\ Within(n, c, s, k + 1)
           /\ \A b \in Nat : c = b + 1 => Within(n + 1, b, s, k) /\ Within(n, b, s, k + 1)
BY DEF Within

LEMMA JobsFinite ==
    ASSUME TypeInv, NEW S, S \subseteq JobIds
    PROVE  IsFiniteSet(S) /\ \A j \in S : posts[j] \in Int
<1>1. IsFiniteSet(JobIds)
  BY FS_Interval DEF JobIds
<1>. QED BY <1>1, FS_Subset DEF TypeInv, TypeOK

LEMMA LoggingFinite ==
    ASSUME NEW w PROVE IsFiniteSet(Logging(w)) /\ Cardinality(Logging(w)) \in Nat
<1>1. IsFiniteSet(Logging(w))
  BY FS_Subset DEF Logging
<1>. QED BY <1>1, FS_CardinalityType

LEMMA LoggedTyped ==
    ASSUME TypeInv, NEW w \in Hooks
    PROVE  /\ Len(log[w]) \in Nat /\ Cardinality(Logging(w)) \in Nat
           /\ SumOf(posts, Of(w)) \in Int /\ losses \in Nat
<1>1. PICK S \in SUBSET JobIds : S = Of(w)
  BY DEF Of
<1>2. PICK v : v = posts
  OBVIOUS
<1>3. IsFiniteSet(S) /\ \A j \in S : v[j] \in Int
  BY <1>2, JobsFinite
<1>4. SumOf(v, S) \in Int
  BY <1>3, SumTyped
<1>5. Len(log[w]) \in Nat /\ losses \in Nat
  BY DEF TypeInv, TypeOK
<1>. QED BY <1>1, <1>2, <1>4, <1>5, LoggingFinite

(* A job that is queued adds nothing yet. *)
LEMMA PostsOfHook ==
    ASSUME TypeInv, TypeInv', PostsInv, HooksStay, UNCHANGED posts, NEW w \in Hooks
    PROVE  SumOf(posts', Of(w)') = SumOf(posts, Of(w))
<1>1. PICK A \in SUBSET JobIds : A = Of(w)
  BY DEF Of
<1>2. PICK B \in SUBSET JobIds : B = Of(w)'
  BY DEF Of
<1>3. PICK S \in SUBSET JobIds : S = A \cup B
  OBVIOUS
<1>4. \A j \in JobIds : jobs[j].state = "none" => posts[j] = 0
  BY DEF PostsInv, PostOK
<1>5. \A j \in S \ A : posts[j] = 0
  BY <1>1, <1>2, <1>3, <1>4 DEF Of, HooksStay
<1>6. \A j \in S \ B : posts[j] = 0
  BY <1>1, <1>2, <1>3, <1>4 DEF Of, HooksStay
<1>7. IsFiniteSet(S) /\ \A j \in S : posts[j] \in Int
  BY JobsFinite
<1>8. PICK v : v = posts
  OBVIOUS
<1>9. SumOf(v, S) = SumOf(v, A)
  BY <1>3, <1>5, <1>7, <1>8, SumWithin
<1>10. SumOf(v, S) = SumOf(v, B)
  BY <1>3, <1>6, <1>7, <1>8, SumWithin
<1>. QED BY <1>1, <1>2, <1>8, <1>9, <1>10

LEMMA LoggedFrame ==
    ASSUME TypeInv, TypeInv', PostsInv, LoggedInv, HooksStay, UNCHANGED posts,
           losses' = losses \/ losses' = losses + 1,
           \A w \in Hooks : hooks'[w].status # "removed" =>
              /\ hooks[w].status # "removed" /\ Len(log'[w]) = Len(log[w])
              /\ Logging(w)' = Logging(w)
    PROVE  LoggedInv'
<1>. SUFFICES ASSUME NEW w \in Hooks, hooks'[w].status # "removed"
              PROVE  Within(Len(log'[w]), Cardinality(Logging(w)'), SumOf(posts', Of(w)'), losses')
  BY DEF LoggedInv
<1>1. PICK n \in Nat, c \in Nat, s \in Int, k \in Nat :
            /\ n = Len(log[w]) /\ c = Cardinality(Logging(w)) /\ s = SumOf(posts, Of(w))
            /\ k = losses
  BY LoggedTyped
<1>2. Within(n, c, s, k) /\ Within(n, c, s, k + 1)
  BY <1>1, WithinMoves DEF LoggedInv
<1>3. SumOf(posts', Of(w)') = s
  BY <1>1, PostsOfHook
<1>4. Len(log'[w]) = n /\ Cardinality(Logging(w)') = c /\ (losses' = k \/ losses' = k + 1)
  BY <1>1
<1>. QED BY <1>2, <1>3, <1>4

(* A handler that is cut off before its row leaves a POST without one. *)
LEMMA LoggedLost ==
    ASSUME TypeInv, TypeInv', PostsInv, LoggedInv, HooksStay, NEW p \in Processes,
           UNCHANGED <<hooks, log, posts>>, losses' = losses + 1, handler'[p].pc = "idle",
           \A q \in Processes : q # p => handler'[q] = handler[q]
    PROVE  LoggedInv'
<1>. SUFFICES ASSUME NEW w \in Hooks, hooks[w].status # "removed"
              PROVE  Within(Len(log[w]), Cardinality(Logging(w)'), SumOf(posts', Of(w)'), losses')
  BY DEF LoggedInv
<1>1. PICK n \in Nat, c \in Nat, s \in Int, k \in Nat :
            /\ n = Len(log[w]) /\ c = Cardinality(Logging(w)) /\ s = SumOf(posts, Of(w))
            /\ k = losses
  BY LoggedTyped
<1>2. Within(n, c, s, k)
  BY <1>1 DEF LoggedInv
<1>3. SumOf(posts', Of(w)') = s
  BY <1>1, PostsOfHook
<1>4. \A q \in Processes : handler[q].pc = "log" => jobs'[handler[q].job].hook = HookOf(q)
  BY DEF HookOf, HooksStay, TypeInv, Held
<1>5. Logging(w)' = Logging(w) \ {p}
  BY <1>4 DEF Logging, HookOf
<1>6. CASE p \in Logging(w)
  <2>1. PICK b \in Nat : Cardinality(Logging(w)') = b /\ c = b + 1
    <3>1. Cardinality(Logging(w) \ {p}) = c - 1
      BY <1>1, <1>6, LoggingFinite, FS_RemoveElement
    <3>2. PICK D : D = Logging(w) \ {p}
      OBVIOUS
    <3>3. c - 1 \in Nat
      <4>1. IsFiniteSet(D)
        BY <3>2, LoggingFinite, FS_Subset
      <4>2. Cardinality(D) \in Nat
        BY <4>1, FS_CardinalityType
      <4>. QED BY <3>1, <3>2, <4>2
    <3>. QED BY <1>5, <3>1, <3>3
  <2>2. Within(n, b, s, k + 1)
    BY <1>2, <2>1, WithinMoves
  <2>. QED BY <1>1, <1>3, <2>1, <2>2
<1>7. CASE p \notin Logging(w)
  <2>1. Logging(w)' = Logging(w)
    BY <1>5, <1>7
  <2>. QED BY <1>1, <1>2, <1>3, <2>1, WithinMoves
<1>. QED BY <1>6, <1>7

(* A handler that comes to its log row has made one POST more. *)
LEMMA LoggedPost ==
    ASSUME TypeInv, LoggedInv, NEW p \in Processes, Post(p)
    PROVE  LoggedInv'
<1>. PICK j \in JobIds : j = handler[p].job
  BY DEF Post, At, TypeInv, Held
<1>1. /\ handler[p].pc = "post" /\ handler'[p].job = j /\ handler'[p].pc = "log"
      /\ \A q \in Processes : q # p => handler'[q] = handler[q]
      /\ UNCHANGED <<jobs, hooks, log, losses>>
  BY DEF Post, At, Work, queueVars, TypeInv, TypeOK
<1>2. /\ posts'[j] = posts[j] + 1 /\ posts[j] \in Int /\ posts'[j] \in Int
      /\ \A i \in JobIds : i # j => posts'[i] = posts[i]
  BY DEF Post, TypeInv, TypeOK
<1>. SUFFICES ASSUME NEW w \in Hooks, hooks[w].status # "removed"
              PROVE  Within(Len(log[w]), Cardinality(Logging(w)'), SumOf(posts', Of(w)'), losses)
  BY <1>1 DEF LoggedInv
<1>3. PICK n \in Nat, c \in Nat, s \in Int, k \in Nat :
            /\ n = Len(log[w]) /\ c = Cardinality(Logging(w)) /\ s = SumOf(posts, Of(w))
            /\ k = losses /\ Within(n, c, s, k)
  BY LoggedTyped DEF LoggedInv
<1>4. PICK S \in SUBSET JobIds : S = Of(w) /\ S = Of(w)'
  BY <1>1 DEF Of
<1>5. PICK v, u : v = posts /\ u = posts'
  OBVIOUS
<1>6. IsFiniteSet(S) /\ \A i \in S : v[i] \in Int
  BY <1>5, JobsFinite
<1>7. CASE j \in S
  <2>1. SumOf(u, S) = SumOf(v, S) + (u[j] - v[j])
    <3>1. \A i \in S \ {j} : u[i] = v[i]
      BY <1>2, <1>5
    <3>. QED BY <1>2, <1>5, <1>6, <1>7, <3>1, SumChanges
  <2>2. Logging(w)' = Logging(w) \cup {p} /\ p \notin Logging(w)
    BY <1>1, <1>4, <1>7 DEF Logging, HookOf, Of
  <2>3. Cardinality(Logging(w) \cup {p}) = Cardinality(Logging(w)) + 1
    BY <2>2, LoggingFinite, FS_AddElement
  <2>4. u[j] - v[j] = 1
    BY <1>2, <1>5
  <2>5. SumOf(u, S) = s + 1 /\ Cardinality(Logging(w)') = c + 1
    BY <1>3, <1>4, <1>5, <2>1, <2>2, <2>3, <2>4
  <2>6. Within(n, c + 1, s + 1, k)
    BY <1>3, WithinMoves
  <2>. QED BY <1>3, <1>4, <1>5, <2>5, <2>6
<1>8. CASE j \notin S
  <2>1. \A i \in S : v[i] = u[i]
    BY <1>2, <1>5, <1>8
  <2>2. SumOf(v, S) = SumOf(u, S)
    BY <1>6, <2>1, SumSame
  <2>3. Logging(w)' = Logging(w)
    BY <1>1, <1>4, <1>8 DEF Logging, HookOf, Of
  <2>. QED BY <1>3, <1>4, <1>5, <2>2, <2>3
<1>. QED BY <1>7, <1>8

(* Its row takes its place; without a row the webhook is gone. *)
LEMMA LoggedRow ==
    ASSUME TypeInv, TypeInv', PostsInv, KnownInv, HooksStay, LoggedInv, NEW p \in Processes, Log(p)
    PROVE  LoggedInv'
<1>1. /\ handler[p].pc = "log" /\ handler[p].job \in JobIds /\ HookOf(p) \in Hooks
      /\ jobs[handler[p].job].state = "active" /\ UNCHANGED <<hooks, posts, losses>>
      /\ hooks[HookOf(p)].status # "new" /\ handler[p].ok \in BOOLEAN
  BY DEF Log, At, HookOf, worldVars, TypeInv, TypeOK, Held, KnownInv, Handler
<1>2. /\ handler'[p].pc # "log" /\ \A q \in Processes : q # p => handler'[q] = handler[q]
      /\ \A q \in Processes : handler[q].pc = "log" =>
            jobs'[handler[q].job].hook = jobs[handler[q].job].hook
  <2>1. handler'[p].pc # "log" /\ \A q \in Processes : q # p => handler'[q] = handler[q]
    BY DEF Log, Work, FailAttempt, Idle, TypeInv, TypeOK
  <2>. QED BY <2>1 DEF HooksStay, TypeInv, Held
<1>3. \A w \in Hooks : Logging(w)' = Logging(w) \ {p}
  BY <1>2 DEF Logging, HookOf
<1>4. \A w \in Hooks : w # HookOf(p) => Logging(w)' = Logging(w)
  BY <1>3 DEF Logging
<1>5. CASE Live(HookOf(p))
  <2>1. /\ log'[HookOf(p)] = Append(log[HookOf(p)], handler[p].ok)
        /\ \A w \in Hooks : w # HookOf(p) => log'[w] = log[w]
    BY <1>1, <1>5 DEF Log, LogRow, TypeInv, TypeOK
  <2>. SUFFICES ASSUME NEW w \in Hooks, hooks[w].status # "removed"
                PROVE  Within(Len(log'[w]), Cardinality(Logging(w)'), SumOf(posts', Of(w)'), losses)
    BY <1>1 DEF LoggedInv
  <2>2. PICK n \in Nat, c \in Nat, s \in Int, k \in Nat :
            /\ n = Len(log[w]) /\ c = Cardinality(Logging(w)) /\ s = SumOf(posts, Of(w))
            /\ k = losses /\ Within(n, c, s, k)
    BY LoggedTyped DEF LoggedInv
  <2>3. SumOf(posts', Of(w)') = s
    BY <1>1, <2>2, PostsOfHook
  <2>4. CASE w = HookOf(p)
    <3>1. Len(log'[w]) = Len(log[w]) + 1 /\ Len(log[w]) \in Nat
      BY <1>1, <2>1, <2>4 DEF TypeInv, TypeOK
    <3>2. p \in Logging(w)
      BY <1>1, <2>4 DEF Logging
    <3>3. Cardinality(Logging(w) \ {p}) = c - 1 /\ Cardinality(Logging(w) \ {p}) \in Nat
      <4>1. Cardinality(Logging(w) \ {p}) = c - 1
        BY <2>2, <3>2, LoggingFinite, FS_RemoveElement
      <4>2. PICK D : D = Logging(w) \ {p}
        OBVIOUS
      <4>3. IsFiniteSet(D)
        BY <4>2, LoggingFinite, FS_Subset
      <4>4. Cardinality(D) \in Nat
        BY <4>3, FS_CardinalityType
      <4>. QED BY <4>1, <4>2, <4>4
    <3>4. PICK b \in Nat : Cardinality(Logging(w)') = b /\ c = b + 1
      <4>1. PICK b \in Nat : b = c - 1
        BY <3>3
      <4>2. Logging(w)' = Logging(w) \ {p}
        BY <1>3
      <4>3. Cardinality(Logging(w)') = b
        BY <3>3, <4>1, <4>2
      <4>. QED BY <4>1, <4>3
    <3>5. Within(n, c, s, k)
      BY <2>2
    <3>6. Within(n + 1, b, s, k)
      BY <3>4, <3>5, WithinMoves
    <3>7. Len(log'[w]) = n + 1 /\ losses = k
      BY <2>2, <3>1
    <3>. QED BY <2>3, <3>4, <3>6, <3>7
  <2>5. CASE w # HookOf(p)
    BY <1>4, <2>1, <2>2, <2>3, <2>5
  <2>. QED BY <2>4, <2>5
<1>6. CASE ~Live(HookOf(p))
  <2>1. hooks[HookOf(p)].status = "removed"
    BY <1>1, <1>6 DEF Live, TypeInv, TypeOK, Hook
  <2>2. UNCHANGED log
    BY <1>6 DEF Log
  <2>. QED BY <1>1, <1>4, <2>1, <2>2, LoggedFrame
<1>. QED BY <1>5, <1>6

(* No other step touches a log, but a removal. *)
LEMMA LoggedStep ==
    ASSUME TypeInv, TypeInv', PostsInv, KnownInv, HooksStay, LoggedInv, [Next]_vars
    PROVE  LoggedInv'
<1>0. /\ \A p \in Processes : handler[p].pc # "idle" =>
            handler[p].job \in JobIds /\ jobs'[handler[p].job].hook = HookOf(p)
      /\ losses \in Nat
  <2>1. \A p \in Processes : handler[p].pc # "idle" =>
            handler[p].job \in JobIds /\ jobs[handler[p].job].state # "none"
    BY DEF TypeInv, Held
  <2>. QED BY <2>1 DEF TypeInv, TypeOK, HooksStay, HookOf
<1>1. ASSUME NEW p \in Processes, FailAttempt(p)
      PROVE  handler'[p].pc = "idle" /\ \A q \in Processes : q # p => handler'[q] = handler[q]
  BY <1>1 DEF FailAttempt, Idle, TypeInv, TypeOK
<1>2. ASSUME UNCHANGED <<handler, posts>>, losses' = losses \/ losses' = losses + 1,
             \A w \in Hooks : hooks'[w].status # "removed" =>
                hooks[w].status # "removed" /\ log'[w] = log[w]
      PROVE  LoggedInv'
  <2>1. \A w \in Hooks : Logging(w)' = Logging(w)
    BY <1>0, <1>2 DEF Logging, HookOf
  <2>. QED BY <1>2, <2>1, LoggedFrame
<1>3. ASSUME NEW p \in Processes, handler[p].pc # "log", handler'[p].pc # "log",
             \A q \in Processes : q # p => handler'[q] = handler[q],
             \A w \in Hooks : hooks'[w].status = hooks[w].status,
             UNCHANGED <<log, posts, losses>>
      PROVE  LoggedInv'
  <2>1. \A w \in Hooks : Logging(w)' = Logging(w)
    BY <1>0, <1>3 DEF Logging, HookOf
  <2>. QED BY <1>3, <2>1, LoggedFrame
<1>4. ASSUME NEW w \in Hooks, Create(w) \/ RemoveHook(w) PROVE LoggedInv'
  <2>1. /\ \A v \in Hooks : v # w => hooks'[v] = hooks[v] /\ log'[v] = log[v]
        /\ UNCHANGED <<handler, posts, losses>>
    BY <1>4 DEF Create, RemoveHook, PutHook, worldVars, TypeInv, TypeOK
  <2>2. CASE Create(w)
    BY <1>2, <2>1, <2>2 DEF Create
  <2>3. CASE RemoveHook(w)
    <3>1. hooks'[w].status = "removed"
      BY <2>3 DEF RemoveHook, PutHook, TypeInv, TypeOK
    <3>. QED BY <1>2, <2>1, <3>1
  <2>. QED BY <1>4, <2>2, <2>3
<1>5. CASE BackoffOver \/ Stalled \/ UNCHANGED vars
  BY <1>2, <1>5 DEF BackoffOver, Stalled, vars, worldVars
<1>6. ASSUME NEW w \in Hooks, Ping(w) \/ Retry(w) PROVE LoggedInv'
  BY <1>2, <1>6 DEF Ping, Retry, worldVars
<1>7. ASSUME NEW p \in Processes, NEW e \in Events, Dispatch(p, e) PROVE LoggedInv'
  BY <1>2, <1>7 DEF Dispatch, worldVars
<1>8. ASSUME NEW p \in Processes, Queue(p) \/ QueueFails(p) \/ Restart(p) PROVE LoggedInv'
  BY <1>2, <1>8 DEF Queue, QueueFails, Restart, Lose, worldVars
<1>9. ASSUME NEW p \in Processes, Interrupt(p) \/ Crash(p) PROVE LoggedInv'
  <2>1. UNCHANGED <<hooks, log, posts>> /\ losses' = losses + 1
    BY <1>9 DEF Interrupt, Crash, Lose, worldVars
  <2>2. handler'[p].pc = "idle" /\ \A q \in Processes : q # p => handler'[q] = handler[q]
    BY <1>1, <1>9 DEF Interrupt, Crash, Idle, TypeInv, TypeOK
  <2>. QED BY <2>1, <2>2, LoggedLost
<1>10. ASSUME NEW p \in Processes, Take(p) \/ Lookup(p) PROVE LoggedInv'
  <2>1. /\ handler[p].pc # "log" /\ UNCHANGED <<hooks, log, posts, losses>>
    BY <1>10 DEF Take, Lookup, At, worldVars
  <2>2. handler'[p].pc # "log" /\ \A q \in Processes : q # p => handler'[q] = handler[q]
    BY <1>10 DEF Take, Lookup, Work, Finish, Idle, TypeInv, TypeOK
  <2>. QED BY <1>3, <2>1, <2>2
<1>11. ASSUME NEW p \in Processes, Record(p) PROVE LoggedInv'
  <2>1. handler[p].pc = "record" /\ UNCHANGED <<log, posts, losses>>
    BY <1>11 DEF Record, At, worldVars
  <2>2. handler'[p].pc # "log" /\ \A q \in Processes : q # p => handler'[q] = handler[q]
    BY <1>11 DEF Record, FailedDelivery, FailAttempt, Finish, Idle, TypeInv, TypeOK
  <2>3. \A w \in Hooks : hooks'[w].status = hooks[w].status
    <3>1. \/ UNCHANGED hooks
          \/ \E d, n : hooks' = PutHook(HookOf(p), hooks[HookOf(p)].status, d, n)
      BY <1>11 DEF Record, ResetFails, CountFailure
    <3>2. ASSUME NEW v \in Hooks, NEW d, NEW n, hooks' = PutHook(v, hooks[v].status, d, n)
          PROVE  \A w \in Hooks : hooks'[w].status = hooks[w].status
      BY <3>2 DEF PutHook, TypeInv, TypeOK
    <3>3. HookOf(p) \in Hooks
      BY <2>1 DEF HookOf, TypeInv, Held
    <3>. QED BY <3>1, <3>2, <3>3
  <2>. QED BY <1>3, <2>1, <2>2, <2>3
<1>. QED
  BY <1>4, <1>5, <1>6, <1>7, <1>8, <1>9, <1>10, <1>11, LoggedPost, LoggedRow
  DEF Next, ServiceStep, DeliverStep

(* However many processes post and whatever is lost: the log of a webhook    *)
(* never has a row without a POST, and of the POSTs a worker is done with it *)
(* lacks at most one for each call or process that was lost.                 *)
THEOREM LogComplete == Spec => []EveryPostLogged
<1>1. Init => TypeInv /\ PostsInv /\ KnownInv /\ LoggedInv
  <2>. SUFFICES ASSUME Init PROVE TypeInv /\ PostsInv /\ KnownInv /\ LoggedInv
    OBVIOUS
  <2>1. TypeInv /\ PostsInv
    BY TypeInit, PostsInit
  <2>2. KnownInv
    BY DEF Init, KnownInv, NoJob
  <2>3. ASSUME NEW w \in Hooks
        PROVE  Within(Len(log[w]), Cardinality(Logging(w)), SumOf(posts, Of(w)), losses)
    <3>1. Len(log[w]) = 0 /\ Logging(w) = {}
      BY DEF Init, Logging, Idle
    <3>2. Cardinality({}) = 0
      BY FS_EmptySet
    <3>3. PICK S \in SUBSET JobIds : S = Of(w)
      BY DEF Of
    <3>4. PICK v : v = posts
      OBVIOUS
    <3>5. IsFiniteSet(S) /\ \A j \in S : v[j] = 0
      BY <2>1, <3>4, JobsFinite DEF Init
    <3>6. SumOf(v, S) = 0
      BY <3>5, SumZero
    <3>7. losses = 0
      BY DEF Init
    <3>. QED BY <3>1, <3>2, <3>3, <3>4, <3>6, <3>7 DEF Within
  <2>. QED BY <2>1, <2>2, <2>3 DEF LoggedInv
<1>2. TypeInv /\ PostsInv /\ KnownInv /\ LoggedInv /\ [Next]_vars
        => TypeInv' /\ PostsInv' /\ KnownInv' /\ LoggedInv'
  BY TypeStep, PostsStep, KnownStep, LoggedStep
<1>3. TypeInv /\ LoggedInv => EveryPostLogged
  <2>. SUFFICES ASSUME TypeInv, LoggedInv, NEW w \in Hooks, Live(w)
                PROVE  /\ Len(log[w]) <= SumOf(posts, Of(w)) - Cardinality(Logging(w))
                       /\ SumOf(posts, Of(w)) - Cardinality(Logging(w)) <= Len(log[w]) + losses
    BY DEF EveryPostLogged, SumOf, Of, Logging
  <2>1. Within(Len(log[w]), Cardinality(Logging(w)), SumOf(posts, Of(w)), losses)
    BY DEF LoggedInv, Live
  <2>2. PICK n \in Nat, c \in Nat, s \in Int, k \in Nat :
            /\ n = Len(log[w]) /\ c = Cardinality(Logging(w)) /\ s = SumOf(posts, Of(w))
            /\ k = losses
    BY LoggedTyped
  <2>. QED BY <2>1, <2>2 DEF Within
<1>. QED BY <1>1, <1>2, <1>3, PTL DEF Spec

----------------------------------------------------------------------------
(* The counter and the switch of a webhook are what its log says.  The end   *)
(* of a log, row by row.                                                     *)
LEMMA FailsNone == FailsInARow(<<>>) = 0
<1>1. {i \in 1 .. 0 : \A k \in i .. 0 : ~(<<>>[k])} = {}
  OBVIOUS
<1>. QED BY <1>1, FS_EmptySet DEF FailsInARow

LEMMA FailsMore ==
    ASSUME NEW rows \in Seq(BOOLEAN)
    PROVE  /\ FailsInARow(rows) \in Nat
           /\ FailsInARow(Append(rows, FALSE)) = FailsInARow(rows) + 1
           /\ FailsInARow(Append(rows, TRUE)) = 0
<1>1. PICK n \in Nat : n = Len(rows)
  OBVIOUS
<1>2. PICK S \in SUBSET (1 .. n) : S = {i \in 1 .. n : \A k \in i .. n : ~rows[k]}
  OBVIOUS
<1>3. IsFiniteSet(S) /\ Cardinality(S) \in Nat /\ FailsInARow(rows) = Cardinality(S)
  <2>1. IsFiniteSet(1 .. n)
    BY FS_Interval
  <2>2. IsFiniteSet(S)
    BY <1>2, <2>1, FS_Subset
  <2>. QED BY <1>1, <1>2, <2>2, FS_CardinalityType DEF FailsInARow
<1>4. ASSUME NEW b \in BOOLEAN, NEW next, next = Append(rows, b)
      PROVE  /\ Len(next) = n + 1 /\ next[n + 1] = b
             /\ \A k \in 1 .. n : next[k] = rows[k]
  BY <1>1, <1>4
<1>5. FailsInARow(Append(rows, FALSE)) = FailsInARow(rows) + 1
  <2>1. PICK next : next = Append(rows, FALSE)
    OBVIOUS
  <2>2. /\ Len(next) = n + 1 /\ next[n + 1] = FALSE
        /\ \A k \in 1 .. n : next[k] = rows[k]
    BY <1>4, <2>1
  <2>3. {i \in 1 .. n + 1 : \A k \in i .. n + 1 : ~next[k]} = S \cup {n + 1}
    <3>1. ASSUME NEW i \in 1 .. n
          PROVE  (\A k \in i .. n + 1 : ~next[k]) <=> (\A k \in i .. n : ~rows[k])
      <4>1. \A k \in i .. n + 1 : k \in i .. n \/ k = n + 1
        OBVIOUS
      <4>2. \A k \in i .. n : k \in i .. n + 1 /\ k \in 1 .. n
        OBVIOUS
      <4>. QED BY <2>2, <4>1, <4>2
    <3>2. \A k \in (n + 1) .. (n + 1) : ~next[k]
      BY <2>2
    <3>3. \A i \in 1 .. n + 1 : i \in 1 .. n \/ i = n + 1
      OBVIOUS
    <3>4. \A i \in 1 .. n : i \in 1 .. n + 1
      OBVIOUS
    <3>5. n + 1 \in 1 .. n + 1
      OBVIOUS
    <3>. QED BY <1>2, <3>1, <3>2, <3>3, <3>4, <3>5
  <2>4. n + 1 \notin S
    BY <1>2
  <2>5. Cardinality(S \cup {n + 1}) = Cardinality(S) + 1
    BY <1>3, <2>4, FS_AddElement
  <2>. QED BY <1>3, <2>1, <2>2, <2>3, <2>5 DEF FailsInARow
<1>6. FailsInARow(Append(rows, TRUE)) = 0
  <2>1. PICK next : next = Append(rows, TRUE)
    OBVIOUS
  <2>2. Len(next) = n + 1 /\ next[n + 1] = TRUE
    BY <1>4, <2>1
  <2>3. \A i \in 1 .. n + 1 : n + 1 \in i .. n + 1
    OBVIOUS
  <2>4. {i \in 1 .. n + 1 : \A k \in i .. n + 1 : ~next[k]} = {}
    BY <2>2, <2>3
  <2>. QED BY <2>1, <2>2, <2>4, FS_EmptySet DEF FailsInARow
<1>. QED BY <1>3, <1>5, <1>6

(* A webhook that is new has no past.  While no two deliveries of a webhook  *)
(* overlapped and none was cut off before its count, a handler that has read *)
(* the counter is the only one under way to the webhook, has read the        *)
(* present one of a webhook that is on, and between its row and its count    *)
(* the log is one row ahead of the counter.                                  *)
Settled(w) ==
    /\ hooks[w].consecutiveFails = FailsInARow(log[w])
    /\ hooks[w].disabled <=> FailsInARow(log[w]) >= MaxFails

Following(p, w) ==
    ~hooks[w].disabled
    /\ CASE handler[p].pc \in {"post", "log"} -> handler[p].fails = hooks[w].consecutiveFails
         [] handler[p].pc = "record" ->
              FailsInARow(log[w]) = IF handler[p].ok THEN 0 ELSE handler[p].fails + 1
         [] OTHER -> TRUE

Past == {"post", "log", "record"}

CountsInv ==
    /\ \A w \in Hooks : hooks[w].status = "new" => Settled(w) /\ log[w] = <<>>
    /\ \A w \in Hooks : Live(w) /\ ~Recording(w) /\ w \notin blurred => Settled(w)
    /\ \A p \in Processes :
          handler[p].pc \in Past /\ Live(HookOf(p)) /\ HookOf(p) \notin blurred =>
              Following(p, HookOf(p))
    /\ \A p, q \in Processes :
          handler[p].pc \in Past /\ handler[q].pc \in Past
          /\ HookOf(p) = HookOf(q) /\ HookOf(p) \notin blurred => p = q

LEMMA HandlersBusy ==
    ASSUME TypeInv, HooksStay
    PROVE  \A p \in Processes : handler[p].pc # "idle" =>
              /\ handler[p].job \in JobIds /\ jobs[handler[p].job].state = "active"
              /\ HookOf(p) \in Hooks /\ jobs'[handler[p].job].hook = HookOf(p)
<1>1. \A p \in Processes : handler[p].pc # "idle" =>
         handler[p].job \in JobIds /\ jobs[handler[p].job].state = "active"
  BY DEF TypeInv, Held
<1>2. \A j \in JobIds : jobs[j].state = "active" =>
         jobs[j].hook \in Hooks /\ jobs'[j].hook = jobs[j].hook
  BY DEF TypeInv, Held, HooksStay
<1>. QED BY <1>1, <1>2 DEF HookOf

(* Steps that leave the webhooks that are not gone, their logs and whoever   *)
(* is past the lookup alone.                                                 *)
LEMMA CountsFrame ==
    ASSUME TypeInv, HooksStay, CountsInv, blurred \subseteq blurred',
           \A w \in Hooks : hooks'[w].status # "removed" =>
              hooks'[w] = hooks[w] /\ log'[w] = log[w],
           \A p \in Processes :
              \/ handler'[p] = handler[p]
              \/ /\ handler'[p].pc \in {"idle", "lookup"}
                 /\ \/ handler[p].pc # "record" \/ ~Live(HookOf(p))
                    \/ HookOf(p) \in blurred'
    PROVE  CountsInv'
<1>0. \A p \in Processes : handler'[p].pc \in Past =>
         /\ handler'[p] = handler[p] /\ handler[p].pc \in Past
         /\ HookOf(p)' = HookOf(p) /\ HookOf(p) \in Hooks
  BY HandlersBusy DEF HookOf, Past
<1>1. ASSUME NEW w \in Hooks, hooks'[w].status # "removed", Settled(w) PROVE Settled(w)'
  BY <1>1 DEF Settled
<1>2. ASSUME NEW w \in Hooks, hooks'[w].status = "new" PROVE Settled(w)' /\ log'[w] = <<>>
  BY <1>1, <1>2 DEF CountsInv
<1>3. ASSUME NEW w \in Hooks, Live(w)', ~Recording(w)', w \notin blurred' PROVE Settled(w)'
  <2>1. Live(w) /\ w \notin blurred
    BY <1>3 DEF Live
  <2>2. ASSUME NEW p \in Processes, handler[p].pc = "record", HookOf(p) = w PROVE FALSE
    <3>1. handler'[p] = handler[p]
      BY <1>3, <2>1, <2>2
    <3>2. HookOf(p)' = w /\ handler'[p].pc = "record"
      BY <1>0, <2>2, <3>1 DEF Past
    <3>. QED BY <1>3, <3>2 DEF Recording
  <2>3. Settled(w)
    BY <2>1, <2>2 DEF CountsInv, Recording
  <2>. QED BY <1>1, <1>3, <2>3 DEF Live
<1>4. ASSUME NEW p \in Processes, handler'[p].pc \in Past, Live(HookOf(p))',
             HookOf(p)' \notin blurred'
      PROVE  Following(p, HookOf(p))'
  <2>1. handler'[p] = handler[p] /\ handler[p].pc \in Past
    BY <1>0, <1>4
  <2>2. PICK w \in Hooks : w = HookOf(p) /\ w = HookOf(p)'
    BY <1>0, <1>4
  <2>3. hooks'[w] = hooks[w] /\ log'[w] = log[w] /\ Live(w) /\ w \notin blurred
    BY <1>4, <2>2 DEF Live
  <2>4. Following(p, w)
    BY <2>1, <2>2, <2>3 DEF CountsInv
  <2>5. Following(p, w)'
    BY <2>1, <2>3, <2>4 DEF Following
  <2>. QED BY <2>2, <2>5 DEF Following
<1>5. ASSUME NEW p \in Processes, NEW q \in Processes, handler'[p].pc \in Past,
             handler'[q].pc \in Past, HookOf(p)' = HookOf(q)', HookOf(p)' \notin blurred'
      PROVE  p = q
  BY <1>0, <1>5 DEF CountsInv
<1>. QED BY <1>2, <1>3, <1>4, <1>5 DEF CountsInv

(* A handler moves on with one webhook. *)
LEMMA CountsMoves ==
    ASSUME TypeInv, HooksStay, CountsInv, blurred \subseteq blurred',
           NEW p \in Processes, handler[p].pc # "idle",
           \A q \in Processes : q # p => handler'[q] = handler[q],
           NEW h \in Hooks, h = HookOf(p), hooks[h].status # "new",
           \A w \in Hooks : w # h => hooks'[w] = hooks[w] /\ log'[w] = log[w],
           hooks'[h].status = hooks[h].status,
           handler'[p].pc = "idle" \/ handler'[p].job = handler[p].job,
           h \notin blurred' =>
              \A q \in Processes : q # p /\ handler[q].pc \in Past => HookOf(q) # h,
           Live(h) /\ h \notin blurred' =>
              \/ handler'[p].pc = "idle" /\ Settled(h)'
              \/ handler'[p].pc \in {"post", "log"} /\ Settled(h)' /\ Following(p, h)'
              \/ handler'[p].pc = "record" /\ Following(p, h)'
    PROVE  CountsInv'
<1>0. /\ handler'[p].pc # "idle" => HookOf(p)' = h
      /\ \A q \in Processes : q # p /\ handler[q].pc # "idle" =>
            HookOf(q)' = HookOf(q) /\ HookOf(q) \in Hooks
  BY HandlersBusy DEF HookOf
<1>1. ASSUME NEW w \in Hooks, w # h, Settled(w) PROVE Settled(w)'
  BY <1>1 DEF Settled
<1>2. ASSUME NEW w \in Hooks, hooks'[w].status = "new" PROVE Settled(w)' /\ log'[w] = <<>>
  <2>1. w # h
    BY <1>2
  <2>. QED BY <1>1, <1>2, <2>1 DEF CountsInv
<1>3. ASSUME NEW w \in Hooks, Live(w)', ~Recording(w)', w \notin blurred' PROVE Settled(w)'
  <2>1. CASE w = h
    <3>1. handler'[p].pc # "record"
      BY <1>0, <1>3, <2>1 DEF Recording
    <3>2. Live(h) /\ h \notin blurred'
      BY <1>3, <2>1 DEF Live
    <3>3. Settled(h)'
      BY <3>1, <3>2
    <3>. QED BY <2>1, <3>3 DEF Settled
  <2>2. CASE w # h
    <3>1. Live(w) /\ w \notin blurred
      BY <1>3, <2>2 DEF Live
    <3>2. ASSUME NEW q \in Processes, handler[q].pc = "record", HookOf(q) = w PROVE FALSE
      <4>1. q # p
        BY <2>2, <3>2
      <4>2. handler'[q].pc = "record" /\ HookOf(q)' = w
        BY <1>0, <3>2, <4>1
      <4>. QED BY <1>3, <4>2 DEF Recording
    <3>3. Settled(w)
      BY <3>1, <3>2 DEF CountsInv, Recording
    <3>. QED BY <1>1, <2>2, <3>3
  <2>. QED BY <2>1, <2>2
<1>4. ASSUME NEW q \in Processes, handler'[q].pc \in Past, Live(HookOf(q))',
             HookOf(q)' \notin blurred'
      PROVE  Following(q, HookOf(q))'
  <2>1. CASE q = p
    <3>1. HookOf(p)' = h /\ h \notin blurred' /\ handler'[p].pc # "idle"
      BY <1>0, <1>4, <2>1 DEF Past
    <3>2. Live(h)
      BY <1>4, <2>1, <3>1 DEF Live
    <3>3. Following(p, h)'
      BY <3>1, <3>2
    <3>. QED BY <2>1, <3>1, <3>3 DEF Following
  <2>2. CASE q # p
    <3>1. handler'[q] = handler[q] /\ handler[q].pc \in Past /\ handler[q].pc # "idle"
      BY <1>4, <2>2 DEF Past
    <3>2. PICK w \in Hooks : w = HookOf(q) /\ w = HookOf(q)'
      BY <1>0, <2>2, <3>1
    <3>3. w # h
      BY <1>4, <2>2, <3>1, <3>2
    <3>4. hooks'[w] = hooks[w] /\ log'[w] = log[w] /\ Live(w) /\ w \notin blurred
      BY <1>4, <3>2, <3>3 DEF Live
    <3>5. Following(q, w)
      BY <3>1, <3>2, <3>4 DEF CountsInv
    <3>6. Following(q, w)'
      BY <3>1, <3>4, <3>5 DEF Following
    <3>. QED BY <3>2, <3>6 DEF Following
  <2>. QED BY <2>1, <2>2
<1>5. ASSUME NEW q \in Processes, NEW r \in Processes, handler'[q].pc \in Past,
             handler'[r].pc \in Past, HookOf(q)' = HookOf(r)', HookOf(q)' \notin blurred'
      PROVE  q = r
  <2>1. \A x \in Processes : x # p /\ handler'[x].pc \in Past =>
           handler[x].pc \in Past /\ HookOf(x)' = HookOf(x)
    BY <1>0 DEF Past
  <2>2. handler'[p].pc \in Past => HookOf(p)' = h
    BY <1>0 DEF Past
  <2>3. CASE q # p /\ r # p
    BY <1>5, <2>1, <2>3 DEF CountsInv
  <2>4. CASE q = p \/ r = p
    BY <1>5, <2>1, <2>2, <2>4
  <2>. QED BY <2>3, <2>4
<1>. QED BY <1>2, <1>3, <1>4, <1>5 DEF CountsInv

(* The handler under way to a webhook that is not blurred. *)
LEMMA OneUnderWay ==
    ASSUME TypeInv, CountsInv, NEW p \in Processes, handler[p].pc \in Past,
           HookOf(p) \in Hooks, HookOf(p) \notin blurred
    PROVE  /\ \A q \in Processes : q # p /\ handler[q].pc \in Past => HookOf(q) # HookOf(p)
           /\ Live(HookOf(p)) => Following(p, HookOf(p))
           /\ Live(HookOf(p)) /\ handler[p].pc # "record" => Settled(HookOf(p))
<1>1. \A q \in Processes : q # p /\ handler[q].pc \in Past => HookOf(q) # HookOf(p)
  BY DEF CountsInv
<1>2. handler[p].pc # "record" => ~Recording(HookOf(p))
  BY <1>1 DEF Recording, Past
<1>. QED BY <1>1, <1>2 DEF CountsInv

LEMMA CountsCreate ==
    ASSUME TypeInv, KnownInv, HooksStay, CountsInv, NEW w \in Hooks, Create(w)
    PROVE  CountsInv'
<1>1. /\ UNCHANGED <<handler, log, jobs, blurred>> /\ hooks[w].status = "new"
      /\ hooks'[w] = [status |-> "live", disabled |-> FALSE, consecutiveFails |-> 0]
      /\ \A v \in Hooks : v # w => hooks'[v] = hooks[v]
  BY DEF Create, PutHook, queueVars, TypeInv, TypeOK
<1>2. log[w] = <<>>
  BY <1>1 DEF CountsInv
<1>3. FailsInARow(log'[w]) = 0 /\ ~(0 >= MaxFails)
  BY <1>1, <1>2, FailsNone
<1>4. Settled(w)'
  BY <1>1, <1>3 DEF Settled
<1>5. ASSUME NEW v \in Hooks, v # w, Settled(v) PROVE Settled(v)'
  BY <1>1, <1>5 DEF Settled
<1>6. \A p \in Processes : handler[p].pc # "idle" =>
         HookOf(p) \in Hooks /\ HookOf(p) # w /\ HookOf(p)' = HookOf(p)
  BY <1>1, HandlersBusy DEF KnownInv, HookOf
<1>7. ASSUME NEW p \in Processes, handler[p].pc \in Past, Live(HookOf(p))', HookOf(p)' \notin blurred
      PROVE  Following(p, HookOf(p))'
  <2>1. PICK v \in Hooks : v = HookOf(p) /\ v = HookOf(p)' /\ v # w
    BY <1>6, <1>7 DEF Past
  <2>2. Live(v)
    BY <1>1, <1>7, <2>1 DEF Live
  <2>3. Following(p, v)
    BY <1>7, <2>1, <2>2 DEF CountsInv
  <2>4. Following(p, v)'
    BY <1>1, <2>1, <2>3 DEF Following
  <2>. QED BY <2>1, <2>4 DEF Following
<1>8. ASSUME NEW v \in Hooks, v # w, Live(v)', ~Recording(v)', v \notin blurred PROVE Settled(v)'
  <2>1. Live(v) /\ ~Recording(v)
    BY <1>1, <1>8 DEF Live, Recording, HookOf
  <2>. QED BY <1>5, <1>8, <2>1 DEF CountsInv
<1>9. ASSUME NEW v \in Hooks, hooks'[v].status = "new" PROVE Settled(v)' /\ log'[v] = <<>>
  <2>1. v # w /\ hooks[v].status = "new"
    BY <1>1, <1>9
  <2>. QED BY <1>1, <1>5, <2>1 DEF CountsInv
<1>10. ASSUME NEW p \in Processes, NEW q \in Processes, handler[p].pc \in Past,
              handler[q].pc \in Past, HookOf(p)' = HookOf(q)', HookOf(p)' \notin blurred
       PROVE  p = q
  BY <1>6, <1>10 DEF CountsInv, Past
<1>. QED BY <1>1, <1>4, <1>7, <1>8, <1>9, <1>10 DEF CountsInv

(* The steps of a handler past its lookup. *)
LEMMA CountsLookup ==
    ASSUME TypeInv, KnownInv, HooksStay, CountsInv, NEW p \in Processes, Lookup(p),
           HookOf(p) \in Hooks, hooks[HookOf(p)].status # "new"
    PROVE  CountsInv'
<1>1. handler[p].pc = "lookup" /\ UNCHANGED <<hooks, log>>
  BY DEF Lookup, At
<1>2. CASE Finish(p) /\ UNCHANGED blurred
  <2>1. handler'[p].pc = "idle" /\ \A q \in Processes : q # p => handler'[q] = handler[q]
    BY <1>2 DEF Finish, Idle, TypeInv, TypeOK
  <2>. QED BY <1>1, <1>2, <2>1, CountsFrame
<1>3. CASE /\ Live(HookOf(p)) /\ ~hooks[HookOf(p)].disabled /\ UNCHANGED jobs
           /\ Work(p, "post", handler[p].job, hooks[HookOf(p)].consecutiveFails, FALSE)
           /\ blurred' = blurred \cup ({HookOf(p)} \cap UNION {Delivering(q) : q \in Processes})
  <2>1. PICK h \in Hooks : h = HookOf(p)
    OBVIOUS
  <2>2. /\ handler'[p].pc = "post" /\ handler'[p].job = handler[p].job
        /\ handler'[p].fails = hooks[h].consecutiveFails
        /\ \A q \in Processes : q # p => handler'[q] = handler[q]
    BY <1>3, <2>1 DEF Work, TypeInv, TypeOK
  <2>3. ASSUME h \notin blurred'
        PROVE  \A q \in Processes : handler[q].pc \in Past => HookOf(q) # h
    <3>1. \A q \in Processes : h \notin Delivering(q)
      BY <1>3, <2>1, <2>3
    <3>. QED BY <3>1 DEF Delivering, Past
  <2>4. ASSUME h \notin blurred' PROVE Settled(h)' /\ Following(p, h)'
    <3>1. ~Recording(h)
      BY <2>3, <2>4 DEF Recording, Past
    <3>2. Live(h) /\ h \notin blurred
      BY <1>3, <2>1, <2>4
    <3>3. Settled(h)
      BY <3>1, <3>2 DEF CountsInv
    <3>4. Settled(h)'
      BY <1>1, <3>3 DEF Settled
    <3>5. Following(p, h)'
      BY <1>1, <1>3, <2>1, <2>2 DEF Following
    <3>. QED BY <3>4, <3>5
  <2>. QED BY <1>1, <1>3, <2>1, <2>2, <2>3, <2>4, CountsMoves
<1>. QED BY <1>2, <1>3 DEF Lookup

LEMMA CountsPost ==
    ASSUME TypeInv, KnownInv, HooksStay, CountsInv, NEW p \in Processes, Post(p),
           HookOf(p) \in Hooks, hooks[HookOf(p)].status # "new"
    PROVE  CountsInv'
<1>1. /\ handler[p].pc = "post" /\ UNCHANGED <<hooks, log, jobs, blurred>>
  BY DEF Post, At, queueVars
<1>2. /\ handler'[p].pc = "log" /\ handler'[p].job = handler[p].job
      /\ handler'[p].fails = handler[p].fails
      /\ \A q \in Processes : q # p => handler'[q] = handler[q]
  BY DEF Post, Work, TypeInv, TypeOK
<1>3. PICK h \in Hooks : h = HookOf(p)
  OBVIOUS
<1>4. ASSUME h \notin blurred
      PROVE  \A q \in Processes : q # p /\ handler[q].pc \in Past => HookOf(q) # h
  BY <1>1, <1>3, <1>4, OneUnderWay DEF Past
<1>5. ASSUME h \notin blurred, Live(h) PROVE Settled(h)' /\ Following(p, h)'
  <2>1. Settled(h) /\ Following(p, h)
    BY <1>1, <1>3, <1>5, OneUnderWay DEF Past
  <2>2. Settled(h)'
    BY <1>1, <2>1 DEF Settled
  <2>3. Following(p, h)'
    BY <1>1, <1>2, <2>1 DEF Following
  <2>. QED BY <2>2, <2>3
<1>. QED BY <1>1, <1>2, <1>3, <1>4, <1>5, CountsMoves

LEMMA CountsLog ==
    ASSUME TypeInv, KnownInv, HooksStay, CountsInv, NEW p \in Processes, Log(p),
           HookOf(p) \in Hooks, hooks[HookOf(p)].status # "new"
    PROVE  CountsInv'
<1>1. /\ handler[p].pc = "log" /\ UNCHANGED <<hooks, blurred>> /\ handler[p].ok \in BOOLEAN
  BY DEF Log, At, TypeInv, TypeOK, Handler
<1>2. PICK h \in Hooks : h = HookOf(p)
  OBVIOUS
<1>3. CASE ~Live(h)
  <2>1. FailAttempt(p) /\ UNCHANGED log
    BY <1>2, <1>3 DEF Log
  <2>2. handler'[p].pc = "idle" /\ \A q \in Processes : q # p => handler'[q] = handler[q]
    BY <2>1 DEF FailAttempt, Idle, TypeInv, TypeOK
  <2>. QED BY <1>1, <2>1, <2>2, CountsFrame
<1>4. CASE Live(h)
  <2>1. /\ log' = LogRow(h, handler[p].ok)
        /\ Work(p, "record", handler[p].job, handler[p].fails, handler[p].ok)
    BY <1>2, <1>4 DEF Log
  <2>2. /\ log'[h] = Append(log[h], handler[p].ok)
        /\ \A w \in Hooks : w # h => log'[w] = log[w]
    BY <2>1 DEF LogRow, TypeInv, TypeOK
  <2>3. /\ handler'[p].pc = "record" /\ handler'[p].job = handler[p].job
        /\ handler'[p].fails = handler[p].fails /\ handler'[p].ok = handler[p].ok
        /\ \A q \in Processes : q # p => handler'[q] = handler[q]
    BY <2>1 DEF Work, TypeInv, TypeOK
  <2>4. ASSUME h \notin blurred
        PROVE  \A q \in Processes : q # p /\ handler[q].pc \in Past => HookOf(q) # h
    BY <1>1, <1>2, <2>4, OneUnderWay DEF Past
  <2>5. ASSUME h \notin blurred PROVE Following(p, h)'
    <3>1. Settled(h) /\ Following(p, h)
      BY <1>1, <1>2, <1>4, <2>5, OneUnderWay DEF Past
    <3>2. FailsInARow(log[h]) = handler[p].fails /\ ~hooks[h].disabled
      BY <1>1, <3>1 DEF Settled, Following
    <3>3. FailsInARow(log'[h]) = IF handler[p].ok THEN 0 ELSE handler[p].fails + 1
      <4>1. log[h] \in Seq(BOOLEAN)
        BY DEF TypeInv, TypeOK
      <4>2. CASE handler[p].ok = TRUE
        BY <2>2, <4>1, <4>2, FailsMore
      <4>3. CASE handler[p].ok = FALSE
        BY <2>2, <3>2, <4>1, <4>3, FailsMore
      <4>. QED BY <1>1, <4>2, <4>3
    <3>. QED BY <1>1, <2>3, <3>2, <3>3 DEF Following
  <2>. QED BY <1>1, <1>2, <2>2, <2>3, <2>4, <2>5, CountsMoves
<1>. QED BY <1>3, <1>4

LEMMA CountsRecord ==
    ASSUME TypeInv, KnownInv, HooksStay, CountsInv, NEW p \in Processes, Record(p),
           HookOf(p) \in Hooks, hooks[HookOf(p)].status # "new"
    PROVE  CountsInv'
<1>1. /\ handler[p].pc = "record" /\ UNCHANGED <<log, blurred>>
      /\ handler[p].fails \in 0 .. MaxFails - 1 /\ handler[p].ok \in BOOLEAN
  BY DEF Record, At, TypeInv, TypeOK, Handler
<1>2. PICK h \in Hooks : h = HookOf(p)
  OBVIOUS
<1>3. ASSUME Finish(p) \/ FailAttempt(p)
      PROVE  handler'[p].pc = "idle" /\ \A q \in Processes : q # p => handler'[q] = handler[q]
  BY <1>3 DEF Finish, FailAttempt, Idle, TypeInv, TypeOK
<1>4. CASE ~Live(h)
  <2>1. FailAttempt(p) /\ UNCHANGED hooks
    BY <1>2, <1>4 DEF Record
  <2>. QED BY <1>1, <1>2, <1>3, <1>4, <2>1, CountsFrame
<1>5. CASE Live(h)
  <2>1. ASSUME h \notin blurred
        PROVE  /\ \A q \in Processes : q # p /\ handler[q].pc \in Past => HookOf(q) # h
               /\ Following(p, h)
    BY <1>1, <1>2, <1>5, <2>1, OneUnderWay DEF Past
  <2>2. ASSUME NEW d \in BOOLEAN, NEW n \in Nat, hooks' = PutHook(h, hooks[h].status, d, n),
               h \notin blurred => FailsInARow(log[h]) = n /\ (d <=> n >= MaxFails),
               Finish(p) \/ FailAttempt(p)
        PROVE  CountsInv'
    <3>1. /\ hooks'[h].status = hooks[h].status /\ hooks'[h].disabled = d
          /\ hooks'[h].consecutiveFails = n
          /\ \A w \in Hooks : w # h => hooks'[w] = hooks[w]
      BY <2>2 DEF PutHook, TypeInv, TypeOK
    <3>2. h \notin blurred => Settled(h)'
      BY <1>1, <2>2, <3>1 DEF Settled
    <3>3. handler'[p].pc = "idle" /\ \A q \in Processes : q # p => handler'[q] = handler[q]
      BY <1>3, <2>2
    <3>. QED BY <1>1, <1>2, <2>1, <3>1, <3>2, <3>3, CountsMoves
  <2>3. CASE handler[p].ok = TRUE
    <3>0. PICK d \in BOOLEAN, n \in Nat : d = hooks[h].disabled /\ n = 0
      BY DEF TypeInv, TypeOK, Hook
    <3>1. Finish(p) /\ hooks' = PutHook(h, hooks[h].status, d, n)
      BY <1>2, <1>5, <2>3, <3>0 DEF Record, ResetFails
    <3>2. h \notin blurred => FailsInARow(log[h]) = 0 /\ hooks[h].disabled = FALSE
      BY <1>1, <2>1, <2>3, <3>0 DEF Following
    <3>3. h \notin blurred => FailsInARow(log[h]) = n /\ (d <=> n >= MaxFails)
      BY <3>0, <3>2
    <3>. QED BY <2>2, <3>1, <3>3
  <2>4. CASE handler[p].ok = FALSE
    <3>1. PICK n \in Nat : n = handler[p].fails + 1
      BY <1>1
    <3>2. Out(n) \in BOOLEAN
      BY <3>1 DEF Out
    <3>3. PICK d \in BOOLEAN : d = Out(n)
      BY <3>2
    <3>4. FailAttempt(p) /\ hooks' = PutHook(h, hooks[h].status, d, n)
      BY <1>2, <1>5, <2>4, <3>1, <3>3 DEF Record, FailedDelivery, CountFailure
    <3>5. d <=> n >= MaxFails
      BY <3>3 DEF Out
    <3>6. h \notin blurred => FailsInARow(log[h]) = n
      BY <1>1, <2>1, <2>4, <3>1 DEF Following
    <3>. QED BY <2>2, <3>4, <3>5, <3>6
  <2>. QED BY <1>1, <2>3, <2>4
<1>. QED BY <1>4, <1>5

LEMMA CountsStep ==
    ASSUME TypeInv, KnownInv, HooksStay, CountsInv, [Next]_vars PROVE CountsInv'
<1>1. ASSUME UNCHANGED <<handler, hooks, log, blurred>> PROVE CountsInv'
  BY <1>1, CountsFrame
<1>2. ASSUME NEW w \in Hooks, RemoveHook(w) PROVE CountsInv'
  <2>1. /\ UNCHANGED <<handler, blurred>> /\ hooks'[w].status = "removed"
        /\ \A v \in Hooks : v # w => hooks'[v] = hooks[v] /\ log'[v] = log[v]
    BY <1>2 DEF RemoveHook, PutHook, TypeInv, TypeOK
  <2>. QED BY <2>1, CountsFrame
<1>3. ASSUME NEW w \in Hooks, Ping(w) \/ Retry(w) PROVE CountsInv'
  BY <1>1, <1>3 DEF Ping, Retry
<1>4. ASSUME NEW p \in Processes, NEW e \in Events, Dispatch(p, e) PROVE CountsInv'
  BY <1>1, <1>4 DEF Dispatch
<1>5. ASSUME NEW p \in Processes, Queue(p) \/ QueueFails(p) \/ Restart(p) PROVE CountsInv'
  BY <1>1, <1>5 DEF Queue, QueueFails, Restart
<1>6. CASE BackoffOver \/ Stalled \/ UNCHANGED vars
  BY <1>1, <1>6 DEF BackoffOver, Stalled, vars
<1>7. ASSUME NEW p \in Processes, Take(p) PROVE CountsInv'
  <2>1. /\ UNCHANGED <<hooks, log, blurred>> /\ handler'[p].pc = "lookup" /\ handler[p].pc # "record"
        /\ \A q \in Processes : q # p => handler'[q] = handler[q]
    BY <1>7 DEF Take, Work, TypeInv, TypeOK
  <2>. QED BY <2>1, CountsFrame
<1>8. ASSUME NEW p \in Processes, Interrupt(p) \/ Crash(p) PROVE CountsInv'
  <2>1. /\ UNCHANGED <<hooks, log>> /\ blurred' = blurred \cup Uncounted(p)
    BY <1>8 DEF Interrupt, Crash
  <2>2. handler'[p].pc = "idle" /\ \A q \in Processes : q # p => handler'[q] = handler[q]
    BY <1>8 DEF Interrupt, Crash, FailAttempt, Idle, TypeInv, TypeOK
  <2>3. handler[p].pc = "record" => HookOf(p) \in blurred'
    BY <2>1 DEF Uncounted
  <2>. QED BY <2>1, <2>2, <2>3, CountsFrame
<1>9. \A p \in Processes : handler[p].pc # "idle" =>
         HookOf(p) \in Hooks /\ hooks[HookOf(p)].status # "new"
  BY HandlersBusy DEF KnownInv, HookOf
<1>10. ASSUME NEW p \in Processes, DeliverStep(p) PROVE CountsInv'
  <2>1. HookOf(p) \in Hooks /\ hooks[HookOf(p)].status # "new"
    BY <1>9, <1>10 DEF DeliverStep, Lookup, Post, Log, Record, At
  <2>. QED BY <1>10, <2>1, CountsLookup, CountsPost, CountsLog, CountsRecord DEF DeliverStep
<1>. QED
  BY <1>2, <1>3, <1>4, <1>5, <1>6, <1>7, <1>8, <1>10, CountsCreate DEF Next, ServiceStep

(* However many processes deliver and whatever is lost: the log of a webhook *)
(* has its rows, and unless two of its deliveries overlapped or one was cut  *)
(* off between its row and its count, the counter is the number of failures  *)
(* at the end of the log, and the webhook is off exactly when they have      *)
(* reached the limit (ARCHITECTURE.md).                                      *)
THEOREM LogAgreesSound == Spec => []LogAgrees
<1>1. Init => TypeInv /\ KnownInv /\ CountsInv
  <2>. SUFFICES ASSUME Init PROVE TypeInv /\ KnownInv /\ CountsInv
    OBVIOUS
  <2>1. KnownInv
    BY DEF Init, KnownInv, NoJob
  <2>2. ASSUME NEW w \in Hooks PROVE Settled(w) /\ log[w] = <<>> /\ ~Live(w)
    <3>1. /\ hooks[w].consecutiveFails = 0 /\ hooks[w].disabled = FALSE /\ log[w] = <<>>
          /\ hooks[w].status = "new"
      BY DEF Init
    <3>2. FailsInARow(log[w]) = 0 /\ ~(0 >= MaxFails)
      BY <3>1, FailsNone
    <3>. QED BY <3>1, <3>2 DEF Settled, Live
  <2>3. \A p \in Processes : handler[p].pc = "idle"
    BY DEF Init, Idle
  <2>. QED BY <2>1, <2>2, <2>3, TypeInit DEF CountsInv, Past
<1>2. TypeInv /\ KnownInv /\ CountsInv /\ [Next]_vars => TypeInv' /\ KnownInv' /\ CountsInv'
  BY TypeStep, KnownStep, CountsStep
<1>3. TypeInv /\ CountsInv => TypeOK /\ CountsConsecutive
  BY DEF TypeInv, CountsInv, CountsConsecutive, Settled
<1>4. Spec => []EveryPostLogged
  BY LogComplete
<1>. QED BY <1>1, <1>2, <1>3, <1>4, PTL DEF Spec, LogAgrees

=============================================================================
