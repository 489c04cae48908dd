--------------------------- MODULE Contracts_proofs ---------------------------
(***************************************************************************)
(* The contracts, for any users, tokens, ticks, ids and bounds: the         *)
(* concentrated-liquidity pool first, then those beside it and the five     *)
(* together as MCContracts runs them.                                       *)
(*                                                                         *)
(* The pool: every position owns a token of its own; the books agree,      *)
(* which is that the storage keeps its types, a tick's entry is the sum    *)
(* over the positions that begin or end there, the bitmap marks the ticks  *)
(* that have one, and the search a swap makes finds the nearest; a fee is  *)
(* collected once; a swap charges at most what was offered; and the        *)
(* oracle's search for the start of a window finds it.  Sums over sets are *)
(* folds, the swap's loop and the oracle's search recursive functions;     *)
(* what is proved about them is proved for the least counterexample        *)
(* (module Sums).                                                          *)
(***************************************************************************)
EXTENDS MCContracts, Sums

(***************************************************************************)
(* Positions and their tokens.  PositionsOwnTokens alone is not inductive: *)
(* a token minted next must be new, so every token alive has been minted   *)
(* before (its id is below nextTokenId), and so for positions.             *)
(***************************************************************************)
IdsIssued ==
    /\ nextTokenId \in Nat /\ nextPositionId \in Nat
    /\ \A t \in DOMAIN tokens : t \in Nat /\ t < nextTokenId
    /\ \A id \in DOMAIN positions : id \in Nat /\ id < nextPositionId

TokenInv == IdsIssued /\ PositionsOwnTokens

(* Reading a function after one key was removed. *)
LEMMA DropReads ==
    ASSUME NEW f, NEW k
    PROVE  /\ DOMAIN Drop(f, k) = DOMAIN f \ {k}
           /\ \A x \in DOMAIN f \ {k} : Drop(f, k)[x] = f[x]
  BY DEF Drop

LEMMA TokenInit == Init => TokenInv
  BY DEF Init, TokenInv, IdsIssued, PositionsOwnTokens, Empty

LEMMA TokenAdd ==
    ASSUME TokenInv, NEW u, NEW lower, NEW upper, NEW liq,
           AddLiquidity(u, lower, upper, liq)
    PROVE  TokenInv'
  <1> DEFINE p == NewPosition(u, lower, upper, liq)
             m == Metadata(p.owner, p)
  <1>1. /\ positions' = Put(positions, nextPositionId, p)
        /\ tokens' = Put(tokens, nextTokenId, m)
        /\ nextPositionId' = nextPositionId + 1 /\ nextTokenId' = nextTokenId + 1
    BY DEF AddLiquidity, Minted
  <1>2. p.nft = nextTokenId /\ m.lower = p.lower /\ m.upper = p.upper
    BY DEF NewPosition, Metadata
  <1> HIDE DEF p, m
  <1>3. /\ DOMAIN positions' = DOMAIN positions \cup {nextPositionId}
        /\ positions'[nextPositionId] = p
        /\ \A x \in DOMAIN positions \ {nextPositionId} : positions'[x] = positions[x]
    BY <1>1 DEF Put
  <1>4. /\ DOMAIN tokens' = DOMAIN tokens \cup {nextTokenId}
        /\ tokens'[nextTokenId] = m
        /\ \A x \in DOMAIN tokens \ {nextTokenId} : tokens'[x] = tokens[x]
    BY <1>1 DEF Put
  <1>5. /\ nextPositionId \notin DOMAIN positions
        /\ nextTokenId \notin DOMAIN tokens
        /\ \A id \in DOMAIN positions : positions[id].nft \in DOMAIN tokens
    BY DEF TokenInv, IdsIssued, PositionsOwnTokens
  <1>6. IdsIssued'
    BY <1>1, <1>3, <1>4 DEF TokenInv, IdsIssued
  <1>7. PositionsOwnTokens'
    BY <1>2, <1>3, <1>4, <1>5 DEF TokenInv, PositionsOwnTokens
  <1> QED BY <1>6, <1>7 DEF TokenInv

LEMMA TokenRemoveAll ==
    ASSUME TokenInv, NEW u, NEW id \in DOMAIN positions, RemoveAll(u, id)
    PROVE  TokenInv'
  <1>1. /\ positions' = Drop(positions, id)
        /\ tokens' = Drop(tokens, positions[id].nft)
        /\ nextPositionId' = nextPositionId /\ nextTokenId' = nextTokenId
    BY DEF RemoveAll, TakeOut
  <1>2. /\ DOMAIN positions' = DOMAIN positions \ {id}
        /\ \A q \in DOMAIN positions \ {id} : positions'[q] = positions[q]
    BY <1>1, DropReads, Zenon
  <1>3. /\ DOMAIN tokens' = DOMAIN tokens \ {positions[id].nft}
        /\ \A t \in DOMAIN tokens \ {positions[id].nft} : tokens'[t] = tokens[t]
    BY <1>1, DropReads, Zenon
  <1>4. IdsIssued'
    BY <1>1, <1>2, <1>3 DEF TokenInv, IdsIssued
  <1>5. PositionsOwnTokens'
    BY <1>2, <1>3 DEF TokenInv, PositionsOwnTokens
  <1> QED BY <1>4, <1>5 DEF TokenInv

(* A call that only rewrites a stored position, keeping its range and its    *)
(* token, keeps the invariant, whether or not it mints a token.              *)
LEMMA TokenRewrite ==
    ASSUME TokenInv, NEW id \in DOMAIN positions, NEW p,
           p.lower = positions[id].lower, p.upper = positions[id].upper,
           p.nft = positions[id].nft,
           positions' = Put(positions, id, p),
           nextPositionId' = nextPositionId,
           \/ tokens' = tokens /\ nextTokenId' = nextTokenId
           \/ /\ \E m : tokens' = Put(tokens, nextTokenId, m)
              /\ nextTokenId' = nextTokenId + 1
    PROVE  TokenInv'
  <1>1. /\ DOMAIN positions' = DOMAIN positions \cup {id}
        /\ positions'[id] = p
        /\ \A q \in DOMAIN positions \ {id} : positions'[q] = positions[q]
    BY DEF Put
  <1>2. \A q \in DOMAIN positions :
              /\ positions'[q].lower = positions[q].lower
              /\ positions'[q].upper = positions[q].upper
              /\ positions'[q].nft = positions[q].nft
    BY <1>1
  <1>3. DOMAIN positions' = DOMAIN positions
    BY <1>1
  <1>4. CASE tokens' = tokens /\ nextTokenId' = nextTokenId
    BY <1>2, <1>3, <1>4 DEF TokenInv, IdsIssued, PositionsOwnTokens
  <1>5. CASE (\E m : tokens' = Put(tokens, nextTokenId, m)) /\ nextTokenId' = nextTokenId + 1
    <2>1. PICK m : tokens' = Put(tokens, nextTokenId, m)
      BY <1>5
    <2>2. /\ DOMAIN tokens' = DOMAIN tokens \cup {nextTokenId}
          /\ \A x \in DOMAIN tokens \ {nextTokenId} : tokens'[x] = tokens[x]
      BY <2>1 DEF Put
    <2>3. nextTokenId \notin DOMAIN tokens
      BY DEF TokenInv, IdsIssued
    <2>4. IdsIssued'
      BY <1>3, <1>5, <2>2 DEF TokenInv, IdsIssued
    <2>5. PositionsOwnTokens'
      BY <1>2, <1>3, <2>2, <2>3 DEF TokenInv, PositionsOwnTokens
    <2> QED BY <2>4, <2>5 DEF TokenInv
  <1> QED BY <1>4, <1>5

LEMMA TokenRemovePart ==
    ASSUME TokenInv, NEW u, NEW id \in DOMAIN positions, NEW liq, RemovePart(u, id, liq)
    PROVE  TokenInv'
  <1> DEFINE left == Rewritten(positions[id], positions[id].liquidity - liq,
                               positions[id].inside)
  <1>1. left.lower = positions[id].lower /\ left.upper = positions[id].upper
        /\ left.nft = positions[id].nft
    BY DEF Rewritten
  <1>2. /\ positions' = Put(positions, id, left)
        /\ \E m : tokens' = Put(tokens, nextTokenId, m)
        /\ nextTokenId' = nextTokenId + 1 /\ nextPositionId' = nextPositionId
    BY DEF RemovePart, TakeOut, TokensAfterPart, Minted
  <1> HIDE DEF left
  <1> QED BY <1>1, <1>2, TokenRewrite

LEMMA TokenCollect ==
    ASSUME TokenInv, NEW u, NEW id \in DOMAIN positions, Collect(u, id)
    PROVE  TokenInv'
  <1> DEFINE p == Settled(positions[id])
  <1>1. p.lower = positions[id].lower /\ p.upper = positions[id].upper
        /\ p.nft = positions[id].nft
    BY DEF Settled, Rewritten
  <1>2. /\ positions' = Put(positions, id, p)
        /\ tokens' = tokens /\ nextTokenId' = nextTokenId
        /\ nextPositionId' = nextPositionId
    BY DEF Collect, nftVars
  <1> HIDE DEF p
  <1> QED BY <1>1, <1>2, TokenRewrite

(* A transfer changes the owner of one token, and nothing else about it. *)
LEMMA TokenTransfer ==
    ASSUME TokenInv, NEW from, NEW to, NEW t \in DOMAIN tokens,
           TransferToken(from, to, t)
    PROVE  TokenInv'
  <1>1. /\ DOMAIN tokens' = DOMAIN tokens
        /\ \A x \in DOMAIN tokens : /\ tokens'[x].lower = tokens[x].lower
                                    /\ tokens'[x].upper = tokens[x].upper
        /\ positions' = positions /\ nextPositionId' = nextPositionId
        /\ nextTokenId' = nextTokenId
    BY DEF TransferToken, bookVars, Metadata
  <1> QED BY <1>1 DEF TokenInv, IdsIssued, PositionsOwnTokens

LEMMA TokenUnchanged ==
    TokenInv /\ UNCHANGED <<positions, nextPositionId, nftVars>> => TokenInv'
  BY DEF TokenInv, IdsIssued, PositionsOwnTokens, nftVars

LEMMA TokenStep == TokenInv /\ [Next]_vars => TokenInv'
  <1> SUFFICES ASSUME TokenInv, [Next]_vars PROVE TokenInv'
    OBVIOUS
  <1>1. CASE AddStep
    BY <1>1, TokenAdd DEF AddStep
  <1>2. CASE RemoveStep
    BY <1>2, TokenRemoveAll, TokenRemovePart DEF RemoveStep
  <1>3. CASE CollectStep
    BY <1>3, TokenCollect DEF CollectStep
  <1>4. CASE SwapStep
    BY <1>4, TokenUnchanged DEF SwapStep, Swap, bookVars
  <1>5. CASE TransferStep
    BY <1>5, TokenTransfer DEF TransferStep
  <1>6. CASE SetOracle
    BY <1>6, TokenUnchanged DEF SetOracle, bookVars
  <1>7. CASE CloseLedger
    BY <1>7, TokenUnchanged DEF CloseLedger, bookVars
  <1>8. CASE UNCHANGED vars
    BY <1>8, TokenUnchanged DEF vars, bookVars
  <1> QED
    BY <1>1, <1>2, <1>3, <1>4, <1>5, <1>6, <1>7, <1>8 DEF Next

(* In every reachable state each stored position owns a token that is alive  *)
(* and carries its range, and no two share one (add_liquidity, collect,      *)
(* remove_liquidity and position-nft's mint, burn and transfer).             *)
THEOREM TokensBackPositions == Spec => []PositionsOwnTokens
  <1>1. TokenInv => PositionsOwnTokens
    BY DEF TokenInv
  <1> QED
    BY <1>1, TokenInit, TokenStep, PTL DEF Spec

(***************************************************************************)
(* The bitmap.  A flip changes the bit of its own tick and no other,       *)
(* because word and bit determine a tick; UpdateTick makes or drops an     *)
(* entry exactly when Flipped says so, because entries have a nonzero      *)
(* gross liquidity.                                                        *)
(***************************************************************************)
LEMMA DivMod ==
    ASSUME NEW a \in Int, NEW n \in Nat \ {0}
    PROVE  a \div n \in Int /\ a % n \in Int /\ a = n * (a \div n) + (a % n)
  OBVIOUS

LEMMA TickDetermined ==
    ASSUME NEW t \in TickRange, NEW u \in TickRange,
           WordOf(Compressed(t)) = WordOf(Compressed(u)),
           BitOf(Compressed(t)) = BitOf(Compressed(u))
    PROVE  t = u
  <1>1. t \in Int /\ u \in Int /\ t % Spacing = 0 /\ u % Spacing = 0
    BY TickBitmapAssumption DEF TickRange, ValidTick
  <1>2. Compressed(t) \in Int /\ Compressed(u) \in Int
    BY <1>1, DivMod, TickBitmapAssumption DEF Compressed
  <1>3. Compressed(t) = Compressed(u)
    BY <1>2, DivMod, TickBitmapAssumption DEF WordOf, BitOf
  <1> QED
    BY <1>1, <1>3, DivMod, TickBitmapAssumption DEF Compressed

LEMMA FlipOne ==
    ASSUME NEW bm, DOMAIN bm = Words, NEW t \in TickRange
    PROVE  /\ DOMAIN Flip(bm, t) = Words
           /\ BitSet(Flip(bm, t), t) <=> ~BitSet(bm, t)
           /\ \A u \in TickRange \ {t} : BitSet(Flip(bm, t), u) <=> BitSet(bm, u)
  <1> DEFINE w(u) == WordOf(Compressed(u))
             b(u) == BitOf(Compressed(u))
  <1>1. \A u \in TickRange : w(u) \in Words
    BY DEF Words, TickRange
  <1>2. \A u \in TickRange : w(u) = w(t) /\ b(u) = b(t) => u = t
    BY TickDetermined
  <1> HIDE DEF w, b
  <1>3. Flip(bm, t) = [bm EXCEPT ![w(t)] = IF b(t) \in bm[w(t)] THEN bm[w(t)] \ {b(t)}
                                           ELSE bm[w(t)] \cup {b(t)}]
    BY DEF Flip, w, b
  <1>4. \A bn, u : BitSet(bn, u) <=> b(u) \in bn[w(u)]
    BY DEF BitSet, w, b
  <1> DEFINE fl == Flip(bm, t)
  <1>5. /\ DOMAIN fl = Words
        /\ fl[w(t)] = IF b(t) \in bm[w(t)] THEN bm[w(t)] \ {b(t)} ELSE bm[w(t)] \cup {b(t)}
        /\ \A v \in Words \ {w(t)} : fl[v] = bm[v]
    BY <1>1, <1>3
  <1> HIDE DEF fl
  <1>6. b(t) \in fl[w(t)] <=> b(t) \notin bm[w(t)]
    BY <1>5
  <1>7. ASSUME NEW u \in TickRange \ {t} PROVE b(u) \in fl[w(u)] <=> b(u) \in bm[w(u)]
    <2>1. CASE w(u) = w(t)
      BY <2>1, <1>2, <1>5
    <2>2. CASE w(u) # w(t)
      BY <2>2, <1>1, <1>5
    <2> QED BY <2>1, <2>2
  <1> QED BY <1>4, <1>5, <1>6, <1>7 DEF fl

(* The invariant of ticks and bitmap, over their values.                    *)
Marks(bm, tk) ==
    /\ DOMAIN bm = Words
    /\ \A t \in TickRange : BitSet(bm, t) <=> t \in DOMAIN tk
    /\ \A t \in DOMAIN tk : tk[t].gross \in Int \ {0}

(* One call of update_tick and the flip it asks for. *)
LEMMA UpdateMarks ==
    ASSUME NEW bm, NEW tk, Marks(bm, tk), NEW t \in TickRange, NEW d \in Int,
           NEW upper \in BOOLEAN
    PROVE  /\ Marks(FlipIf(bm, t, Flipped(tk, t, d)), UpdateTick(tk, t, d, upper))
           /\ \A u \in TickRange \ {t} :
                 ReadTick(UpdateTick(tk, t, d, upper), u) = ReadTick(tk, u)
  <1> DEFINE g == ReadTick(tk, t).gross
             info == Moved(tk, t, d, upper)
             tn == UpdateTick(tk, t, d, upper)
             bn == FlipIf(bm, t, Flipped(tk, t, d))
  <1>1. g \in Int /\ (g = 0 <=> t \notin DOMAIN tk)
    BY DEF ReadTick, Marks
  <1>2. info.gross = g + d
    BY DEF Moved
  <1>3. Flipped(tk, t, d) <=> ((g + d = 0) # (g = 0))
    BY DEF Flipped
  <1>4. CASE g + d = 0
    <2>1. tn = Drop(tk, t)
      BY <1>2, <1>4 DEF UpdateTick
    <2>2. /\ DOMAIN tn = DOMAIN tk \ {t}
          /\ \A u \in DOMAIN tn : tn[u] = tk[u]
      BY <2>1 DEF Drop
    <2>3. bn = IF t \in DOMAIN tk THEN Flip(bm, t) ELSE bm
      BY <1>1, <1>3, <1>4 DEF FlipIf
    <2> HIDE DEF tn, bn
    <2>4. Marks(bn, tn)
      BY <2>2, <2>3, FlipOne DEF Marks
    <2>5. \A u \in TickRange \ {t} : ReadTick(tn, u) = ReadTick(tk, u)
      BY <2>2 DEF ReadTick
    <2> QED BY <2>4, <2>5 DEF tn, bn
  <1>5. CASE g + d # 0
    <2>1. tn = Put(tk, t, info)
      BY <1>2, <1>5 DEF UpdateTick
    <2>2. /\ DOMAIN tn = DOMAIN tk \cup {t}
          /\ tn[t] = info
          /\ \A u \in DOMAIN tk \ {t} : tn[u] = tk[u]
      BY <2>1 DEF Put
    <2>3. bn = IF t \in DOMAIN tk THEN bm ELSE Flip(bm, t)
      BY <1>1, <1>3, <1>5 DEF FlipIf
    <2>4. info.gross \in Int \ {0}
      BY <1>1, <1>2, <1>5
    <2> HIDE DEF tn, bn, info
    <2>5. Marks(bn, tn)
      BY <2>2, <2>3, <2>4, FlipOne DEF Marks
    <2>6. \A u \in TickRange \ {t} : ReadTick(tn, u) = ReadTick(tk, u)
      BY <2>2 DEF ReadTick
    <2> QED BY <2>5, <2>6 DEF tn, bn
  <1> QED BY <1>4, <1>5

(* Both ends of a range: the update of the lower end leaves the upper one's  *)
(* counters, hence its flip, as they were.                                   *)
LEMMA RangeMarks ==
    ASSUME NEW bm, NEW tk, Marks(bm, tk), NEW lower \in TickRange, NEW upper \in TickRange,
           lower # upper, NEW d \in Int
    PROVE  Marks(FlipRange(bm, tk, lower, upper, d), MoveRange(tk, lower, upper, d))
  <1> DEFINE tn == UpdateTick(tk, lower, d, FALSE)
             bn == FlipIf(bm, lower, Flipped(tk, lower, d))
  <1>1. Marks(bn, tn) /\ ReadTick(tn, upper) = ReadTick(tk, upper)
    BY UpdateMarks
  <1>2. Flipped(tn, upper, d) = Flipped(tk, upper, d)
    BY <1>1 DEF Flipped
  <1> HIDE DEF tn, bn
  <1>3. Marks(FlipIf(bn, upper, Flipped(tn, upper, d)), UpdateTick(tn, upper, d, TRUE))
    BY <1>1, UpdateMarks
  <1> QED BY <1>2, <1>3 DEF FlipRange, MoveRange, tn, bn

BookInv ==
    /\ Marks(bitmap, ticks)
    /\ \A id \in DOMAIN positions :
          /\ positions[id].lower \in TickRange /\ positions[id].upper \in TickRange
          /\ positions[id].lower # positions[id].upper
          /\ positions[id].liquidity \in Int

LEMMA BookInit == Init => BookInv
  <1> SUFFICES ASSUME Init PROVE BookInv
    OBVIOUS
  <1>1. /\ bitmap = [w \in Words |-> {}]
        /\ DOMAIN ticks = {} /\ DOMAIN positions = {}
    BY DEF Init, Empty, EmptyBitmap
  <1>2. \A t \in TickRange : WordOf(Compressed(t)) \in Words
    BY DEF Words, TickRange
  <1> QED BY <1>1, <1>2 DEF BookInv, Marks, BitSet

LEMMA BookAdd ==
    ASSUME BookInv, NEW u, NEW lower \in TickRange, NEW upper \in TickRange,
           NEW liq \in Liquidities, AddLiquidity(u, lower, upper, liq)
    PROVE  BookInv'
  <1> DEFINE p == NewPosition(u, lower, upper, liq)
  <1>1. lower # upper /\ liq \in Int
    BY ClPoolAssumption DEF AddLiquidity, TickRange
  <1>2. Marks(bitmap, ticks)'
    <2>1. ticks' = MoveRange(ticks, lower, upper, liq)
          /\ bitmap' = FlipRange(bitmap, ticks, lower, upper, liq)
      BY DEF AddLiquidity
    <2>2. Marks(bitmap', ticks')
      BY <1>1, <2>1, RangeMarks DEF BookInv
    <2> QED BY <2>2 DEF Marks, BitSet
  <1>3. p.lower = lower /\ p.upper = upper /\ p.liquidity = liq
    BY DEF NewPosition
  <1>4. positions' = Put(positions, nextPositionId, p)
    BY DEF AddLiquidity
  <1> HIDE DEF p
  <1>5. \A id \in DOMAIN positions' :
            positions'[id] = p \/ (id \in DOMAIN positions /\ positions'[id] = positions[id])
    BY <1>4 DEF Put
  <1> QED BY <1>1, <1>2, <1>3, <1>5 DEF BookInv

LEMMA BookTakeOut ==
    ASSUME BookInv, NEW u, NEW id \in DOMAIN positions, NEW liq \in Int,
           TakeOut(u, id, liq)
    PROVE  Marks(bitmap, ticks)'
  <1>1. /\ ticks' = MoveRange(ticks, positions[id].lower, positions[id].upper, -liq)
        /\ bitmap' = FlipRange(bitmap, ticks, positions[id].lower, positions[id].upper, -liq)
    BY DEF TakeOut
  <1>2. -liq \in Int
    OBVIOUS
  <1>3. Marks(bitmap', ticks')
    BY <1>1, <1>2, RangeMarks DEF BookInv
  <1> QED BY <1>3 DEF Marks, BitSet

LEMMA BookRemoveAll ==
    ASSUME BookInv, NEW u, NEW id \in DOMAIN positions, RemoveAll(u, id)
    PROVE  BookInv'
  <1>1. Marks(bitmap, ticks)'
    <2>1. TakeOut(u, id, positions[id].liquidity)
      BY DEF RemoveAll
    <2> QED BY <2>1, BookTakeOut DEF BookInv
  <1>2. \A q \in DOMAIN positions' : q \in DOMAIN positions /\ positions'[q] = positions[q]
    BY DEF RemoveAll, Drop
  <1> QED BY <1>1, <1>2 DEF BookInv

(* Storing a position again with its range and an integer liquidity. *)
LEMMA BookRewrite ==
    ASSUME BookInv, Marks(bitmap, ticks)', NEW id \in DOMAIN positions, NEW liq \in Int,
           NEW inside, positions' = Put(positions, id, Rewritten(positions[id], liq, inside))
    PROVE  BookInv'
  <1> DEFINE p == Rewritten(positions[id], liq, inside)
  <1>1. p.lower = positions[id].lower /\ p.upper = positions[id].upper /\ p.liquidity = liq
    BY DEF Rewritten
  <1> HIDE DEF p
  <1>2. \A q \in DOMAIN positions' :
            positions'[q] = p \/ (q \in DOMAIN positions /\ positions'[q] = positions[q])
    BY DEF Put, p
  <1> QED BY <1>1, <1>2 DEF BookInv

LEMMA BookRemovePart ==
    ASSUME BookInv, NEW u, NEW id \in DOMAIN positions, NEW liq \in Liquidities,
           RemovePart(u, id, liq)
    PROVE  BookInv'
  <1>1. liq \in Int /\ positions[id].liquidity - liq \in Int
    BY ClPoolAssumption DEF BookInv
  <1>2. Marks(bitmap, ticks)'
    BY <1>1, BookTakeOut DEF RemovePart
  <1>3. positions' = Put(positions, id, Rewritten(positions[id], positions[id].liquidity - liq,
                                                  positions[id].inside))
    BY DEF RemovePart
  <1> QED BY <1>1, <1>2, <1>3, BookRewrite

LEMMA BookUnchanged ==
    BookInv /\ UNCHANGED <<positions, ticks, bitmap>> => BookInv'
  BY DEF BookInv, Marks, BitSet

LEMMA BookCollect ==
    ASSUME BookInv, NEW u, NEW id \in DOMAIN positions, Collect(u, id)
    PROVE  BookInv'
  <1>1. Marks(bitmap, ticks)'
    BY DEF Collect, BookInv, Marks, BitSet
  <1>2. positions[id].liquidity \in Int
    BY DEF BookInv
  <1>3. PICK inside :
          positions' = Put(positions, id, Rewritten(positions[id], positions[id].liquidity, inside))
    BY DEF Collect, Settled
  <1> QED BY <1>1, <1>2, <1>3, BookRewrite

LEMMA BookStep == BookInv /\ [Next]_vars => BookInv'
  <1> SUFFICES ASSUME BookInv, [Next]_vars PROVE BookInv'
    OBVIOUS
  <1>1. CASE AddStep
    BY <1>1, BookAdd DEF AddStep
  <1>2. CASE RemoveStep
    BY <1>2, BookRemoveAll, BookRemovePart DEF RemoveStep
  <1>3. CASE CollectStep
    BY <1>3, BookCollect DEF CollectStep
  <1>4. CASE SwapStep
    BY <1>4, BookUnchanged DEF SwapStep, Swap, bookVars
  <1>5. CASE TransferStep
    BY <1>5, BookUnchanged DEF TransferStep, TransferToken, bookVars
  <1>6. CASE SetOracle
    BY <1>6, BookUnchanged DEF SetOracle, bookVars
  <1>7. CASE CloseLedger
    BY <1>7, BookUnchanged DEF CloseLedger, bookVars
  <1>8. CASE UNCHANGED vars
    BY <1>8, BookUnchanged DEF vars, bookVars
  <1> QED
    BY <1>1, <1>2, <1>3, <1>4, <1>5, <1>6, <1>7, <1>8 DEF Next

(* In every reachable state the bitmap has the bit of a tick exactly when    *)
(* the tick has an entry, and no entry is left with no liquidity             *)
(* (update_tick and flip_bitmap under add_liquidity and remove_liquidity),   *)
(* for every spacing, word size and sign of tick.                            *)
THEOREM BitmapMarks == Spec => []BitmapMarksTicks
  <1>1. BookInv => BitmapMarksTicks
    BY DEF BookInv, Marks, BitmapMarksTicks
  <1> QED
    BY <1>1, BookInit, BookStep, PTL DEF Spec


(***************************************************************************)
(* The liquidity of the positions S of the map f, as a sum over a function.*)
(***************************************************************************)
LiquidityIn(f, S) == MapThenSumSet(LAMBDA id : f[id].liquidity, S)
LiquidityUpTo(f, S, iter) ==
    iter = [s \in SUBSET S |->
               IF s = {} THEN 0 ELSE f[First(s)].liquidity + iter[s \ {First(s)}]]

LEMMA LiquidityUnfolds ==
    ASSUME NEW f, NEW S
    PROVE  LiquidityIn(f, S) = (CHOOSE iter : LiquidityUpTo(f, S, iter))[S]
  BY DEF LiquidityIn, LiquidityUpTo, First, MapThenSumSet, MapThenFoldSet

LEMMA LiquidityIs ==
    ASSUME NEW f, NEW S, IsFiniteSet(S), NEW v, \A x \in S : v[x] = f[x].liquidity
    PROVE  LiquidityIn(f, S) = SumOf(v, S)
  <1>1. \A s \in SUBSET S : s # {} => v[First(s)] = f[First(s)].liquidity
    BY FirstIsMember
  <1>2. ASSUME NEW iter PROVE LiquidityUpTo(f, S, iter) <=> Sums(v, S, iter)
    BY <1>1 DEF LiquidityUpTo, Sums, SumsUpTo
  <1> DEFINE it == CHOOSE iter : LiquidityUpTo(f, S, iter)
  <1>3. LiquidityUpTo(f, S, it)
    <2>1. PICK iter : Sums(v, S, iter)
      BY SumExists
    <2> QED BY <1>2, <2>1
  <1>4. LiquidityIn(f, S) = it[S]
    BY LiquidityUnfolds
  <1> HIDE DEF it
  <1> QED BY <1>2, <1>3, <1>4, SumIs

LEMMA LiquidityEmpty == ASSUME NEW f PROVE LiquidityIn(f, {}) = 0
  BY LiquidityIs, SumEmpty, FS_EmptySet

LEMMA LiquidityTyped ==
    ASSUME NEW f, NEW S, IsFiniteSet(S), \A x \in S : f[x].liquidity \in Nat
    PROVE  LiquidityIn(f, S) \in Nat
  <1>1. PICK v : v = [x \in S |-> f[x].liquidity]
    OBVIOUS
  <1>2. LiquidityIn(f, S) = SumOf(v, S) /\ \A x \in S : v[x] \in Nat
    BY <1>1, LiquidityIs
  <1> QED BY <1>2, SumTyped

LEMMA LiquidityTakes ==
    ASSUME NEW f, NEW S, IsFiniteSet(S), \A x \in S : f[x].liquidity \in Nat, NEW y \in S
    PROVE  LiquidityIn(f, S) = f[y].liquidity + LiquidityIn(f, S \ {y})
  <1>1. PICK v : v = [x \in S |-> f[x].liquidity]
    OBVIOUS
  <1>2. PICK T : T = S \ {y}
    OBVIOUS
  <1>3. LiquidityIn(f, S) = SumOf(v, S)
    BY <1>1, LiquidityIs
  <1>4. LiquidityIn(f, T) = SumOf(v, T)
    <2>1. IsFiniteSet(T) /\ \A x \in T : v[x] = f[x].liquidity
      BY <1>1, <1>2, FS_RemoveElement
    <2> QED BY <2>1, LiquidityIs
  <1>5. SumOf(v, S) = v[y] + SumOf(v, S \ {y})
    <2>1. \A x \in S : v[x] \in Int
      BY <1>1
    <2> QED BY <2>1, SumTakes
  <1> QED BY <1>1, <1>2, <1>3, <1>4, <1>5

LEMMA LiquiditySame ==
    ASSUME NEW f, NEW g, NEW S, IsFiniteSet(S), \A x \in S : f[x].liquidity = g[x].liquidity
    PROVE  LiquidityIn(f, S) = LiquidityIn(g, S)
  <1>1. PICK v : v = [x \in S |-> f[x].liquidity]
    OBVIOUS
  <1>2. \A x \in S : v[x] = f[x].liquidity /\ v[x] = g[x].liquidity
    BY <1>1
  <1> QED BY <1>2, LiquidityIs

(***************************************************************************)
(* The book of ticks.  A change of one position changes the two sums at    *)
(* its own ends by its liquidity, and update_tick the two entries.         *)
(***************************************************************************)
Starting(f, t) == {id \in DOMAIN f : f[id].lower = t}
Ending(f, t)   == {id \in DOMAIN f : f[id].upper = t}
StartSum(f, t) == LiquidityIn(f, Starting(f, t))
EndSum(f, t)   == LiquidityIn(f, Ending(f, t))

(* What is asked of a position in the map. *)
Fits(p) == /\ p.lower \in TickRange /\ p.upper \in TickRange /\ p.lower < p.upper
           /\ p.liquidity \in Nat \ {0}
Booked(f) == IsFiniteSet(DOMAIN f) /\ \A id \in DOMAIN f : Fits(f[id])

SumsHold(tk, f) ==
    \A t \in TickRange : /\ ReadTick(tk, t).gross = StartSum(f, t) + EndSum(f, t)
                         /\ ReadTick(tk, t).net = StartSum(f, t) - EndSum(f, t)

At(b, n) == IF b THEN n ELSE 0

LEMMA BookedSums ==
    ASSUME NEW f, Booked(f), NEW t
    PROVE  /\ StartSum(f, t) \in Nat /\ EndSum(f, t) \in Nat
           /\ IsFiniteSet(Starting(f, t)) /\ IsFiniteSet(Ending(f, t))
  <1>1. IsFiniteSet(Starting(f, t)) /\ IsFiniteSet(Ending(f, t))
    BY FS_Subset DEF Booked, Starting, Ending
  <1>2. /\ \A x \in Starting(f, t) : f[x].liquidity \in Nat
        /\ \A x \in Ending(f, t) : f[x].liquidity \in Nat
    BY DEF Booked, Fits, Starting, Ending
  <1> QED BY <1>1, <1>2, LiquidityTyped DEF StartSum, EndSum

LEMMA BookedDrop == ASSUME NEW f, Booked(f), NEW k PROVE Booked(Drop(f, k))
  <1> DEFINE g == Drop(f, k)
  <1>1. DOMAIN g = DOMAIN f \ {k} /\ \A x \in DOMAIN f \ {k} : g[x] = f[x]
    BY DropReads
  <1> HIDE DEF g
  <1>2. IsFiniteSet(DOMAIN f \ {k})
    BY FS_Subset DEF Booked
  <1>3. IsFiniteSet(DOMAIN g)
    BY <1>1, <1>2
  <1>4. \A id \in DOMAIN g : Fits(g[id])
    BY <1>1 DEF Booked
  <1> QED BY <1>3, <1>4 DEF Booked, g

LEMMA BookedPut == ASSUME NEW f, Booked(f), NEW k, NEW p, Fits(p) PROVE Booked(Put(f, k, p))
  <1> DEFINE g == Put(f, k, p)
  <1>1. /\ DOMAIN g = DOMAIN f \cup {k} /\ g[k] = p
        /\ \A x \in DOMAIN f \ {k} : g[x] = f[x]
    BY DEF Put
  <1> HIDE DEF g
  <1>2. IsFiniteSet(DOMAIN f \cup {k})
    BY FS_AddElement DEF Booked
  <1>3. IsFiniteSet(DOMAIN g)
    BY <1>1, <1>2
  <1>4. \A id \in DOMAIN g : Fits(g[id])
    BY <1>1 DEF Booked
  <1> QED BY <1>3, <1>4 DEF Booked, g

LEMMA SumsOfDrop ==
    ASSUME NEW f, Booked(f), NEW k \in DOMAIN f, NEW t
    PROVE  /\ StartSum(f, t) = StartSum(Drop(f, k), t) + At(f[k].lower = t, f[k].liquidity)
           /\ EndSum(f, t) = EndSum(Drop(f, k), t) + At(f[k].upper = t, f[k].liquidity)
  <1> DEFINE g == Drop(f, k)
  <1>1. DOMAIN g = DOMAIN f \ {k} /\ \A x \in DOMAIN f \ {k} : g[x] = f[x]
    BY DropReads
  <1>2. Booked(g)
    BY BookedDrop
  <1> HIDE DEF g
  <1>3. Starting(g, t) = Starting(f, t) \ {k} /\ Ending(g, t) = Ending(f, t) \ {k}
    BY <1>1 DEF Starting, Ending
  <1>4. /\ StartSum(g, t) = LiquidityIn(f, Starting(f, t) \ {k})
        /\ EndSum(g, t) = LiquidityIn(f, Ending(f, t) \ {k})
    <2>1. /\ \A x \in Starting(g, t) : g[x].liquidity = f[x].liquidity
          /\ \A x \in Ending(g, t) : g[x].liquidity = f[x].liquidity
      BY <1>1 DEF Starting, Ending
    <2>2. /\ LiquidityIn(g, Starting(g, t)) = LiquidityIn(f, Starting(g, t))
          /\ LiquidityIn(g, Ending(g, t)) = LiquidityIn(f, Ending(g, t))
      BY <1>2, <2>1, BookedSums, LiquiditySame
    <2> QED BY <1>3, <2>2 DEF StartSum, EndSum
  <1>5. /\ StartSum(g, t) \in Nat /\ EndSum(g, t) \in Nat /\ f[k].liquidity \in Nat
        /\ IsFiniteSet(Starting(f, t)) /\ IsFiniteSet(Ending(f, t))
        /\ \A x \in DOMAIN f : f[x].liquidity \in Nat
    BY <1>2, BookedSums DEF Booked, Fits
  <1>6. StartSum(f, t) = StartSum(g, t) + At(f[k].lower = t, f[k].liquidity)
    <2>1. CASE f[k].lower = t
      <3>1. k \in Starting(f, t) /\ \A x \in Starting(f, t) : f[x].liquidity \in Nat
        BY <1>5, <2>1 DEF Starting
      <3>2. StartSum(f, t) = f[k].liquidity + StartSum(g, t)
        BY <1>4, <1>5, <3>1, LiquidityTakes DEF StartSum
      <3> QED BY <2>1, <3>2, <1>5 DEF At
    <2>2. CASE f[k].lower # t
      <3>1. Starting(f, t) \ {k} = Starting(f, t)
        BY <2>2 DEF Starting
      <3>2. StartSum(f, t) = StartSum(g, t)
        BY <1>4, <3>1 DEF StartSum
      <3> QED BY <2>2, <3>2, <1>5 DEF At
    <2> QED BY <2>1, <2>2
  <1>7. EndSum(f, t) = EndSum(g, t) + At(f[k].upper = t, f[k].liquidity)
    <2>1. CASE f[k].upper = t
      <3>1. k \in Ending(f, t) /\ \A x \in Ending(f, t) : f[x].liquidity \in Nat
        BY <1>5, <2>1 DEF Ending
      <3>2. EndSum(f, t) = f[k].liquidity + EndSum(g, t)
        BY <1>4, <1>5, <3>1, LiquidityTakes DEF EndSum
      <3> QED BY <2>1, <3>2, <1>5 DEF At
    <2>2. CASE f[k].upper # t
      <3>1. Ending(f, t) \ {k} = Ending(f, t)
        BY <2>2 DEF Ending
      <3>2. EndSum(f, t) = EndSum(g, t)
        BY <1>4, <3>1 DEF EndSum
      <3> QED BY <2>2, <3>2, <1>5 DEF At
    <2> QED BY <2>1, <2>2
  <1> QED BY <1>6, <1>7 DEF g

LEMMA DropAfterPut ==
    ASSUME NEW f, NEW k, NEW p
    PROVE  Drop(Put(f, k, p), k) = Drop(f, k)
  <1> DEFINE g == Put(f, k, p)
  <1>1. DOMAIN g = DOMAIN f \cup {k} /\ \A x \in DOMAIN f \ {k} : g[x] = f[x]
    BY DEF Put
  <1> HIDE DEF g
  <1>2. DOMAIN g \ {k} = DOMAIN f \ {k}
    BY <1>1
  <1>3. [x \in DOMAIN g \ {k} |-> g[x]] = [x \in DOMAIN f \ {k} |-> f[x]]
    BY <1>1, <1>2
  <1> QED BY <1>3 DEF Drop, g

LEMMA SumsOfPut ==
    ASSUME NEW f, Booked(f), NEW k, NEW p, Fits(p), NEW t
    PROVE  /\ StartSum(Put(f, k, p), t) = StartSum(Drop(f, k), t) + At(p.lower = t, p.liquidity)
           /\ EndSum(Put(f, k, p), t) = EndSum(Drop(f, k), t) + At(p.upper = t, p.liquidity)
  <1> DEFINE h == Put(f, k, p)
  <1>1. Booked(h) /\ k \in DOMAIN h /\ h[k] = p /\ Drop(h, k) = Drop(f, k)
    <2>1. Booked(h) /\ Drop(h, k) = Drop(f, k)
      BY BookedPut, DropAfterPut
    <2>2. k \in DOMAIN h /\ h[k] = p
      BY DEF Put
    <2> QED BY <2>1, <2>2
  <1> HIDE DEF h
  <1>2. /\ StartSum(h, t) = StartSum(Drop(h, k), t) + At(h[k].lower = t, h[k].liquidity)
        /\ EndSum(h, t) = EndSum(Drop(h, k), t) + At(h[k].upper = t, h[k].liquidity)
    BY <1>1, SumsOfDrop
  <1> QED BY <1>1, <1>2 DEF h

LEMMA SumsOfNew ==
    ASSUME NEW f, Booked(f), NEW k, k \notin DOMAIN f, NEW t
    PROVE  StartSum(Drop(f, k), t) = StartSum(f, t) /\ EndSum(Drop(f, k), t) = EndSum(f, t)
  <1> DEFINE g == Drop(f, k)
  <1>1. DOMAIN g = DOMAIN f /\ \A x \in DOMAIN f : g[x] = f[x]
    <2>1. DOMAIN f \ {k} = DOMAIN f
      OBVIOUS
    <2> QED BY <2>1, DropReads, Zenon
  <1> HIDE DEF g
  <1>2. Starting(g, t) = Starting(f, t) /\ Ending(g, t) = Ending(f, t)
    BY <1>1 DEF Starting, Ending
  <1>3. /\ \A x \in Starting(f, t) : g[x].liquidity = f[x].liquidity
        /\ \A x \in Ending(f, t) : g[x].liquidity = f[x].liquidity
    BY <1>1 DEF Starting, Ending
  <1>4. /\ LiquidityIn(g, Starting(f, t)) = LiquidityIn(f, Starting(f, t))
        /\ LiquidityIn(g, Ending(f, t)) = LiquidityIn(f, Ending(f, t))
    BY <1>3, BookedSums, LiquiditySame
  <1> QED BY <1>2, <1>4 DEF StartSum, EndSum, g

(* Reading an entry after update_tick: an entry that is emptied reads as none. *)
EntryMoved(tk, tn, t, d, upper) ==
    ReadTick(tn, t) = IF ReadTick(tk, t).gross + d = 0 THEN [gross |-> 0, net |-> 0]
                      ELSE Moved(tk, t, d, upper)

LEMMA UpdateReads ==
    ASSUME NEW tk, NEW t, NEW d, NEW upper
    PROVE  /\ EntryMoved(tk, UpdateTick(tk, t, d, upper), t, d, upper)
           /\ \A u : u # t => ReadTick(UpdateTick(tk, t, d, upper), u) = ReadTick(tk, u)
           /\ DOMAIN UpdateTick(tk, t, d, upper) \subseteq DOMAIN tk \cup {t}
  <1> DEFINE info == Moved(tk, t, d, upper)
             tn == UpdateTick(tk, t, d, upper)
  <1>1. info.gross = ReadTick(tk, t).gross + d
    BY DEF Moved
  <1>2. tn = IF info.gross = 0 THEN Drop(tk, t) ELSE Put(tk, t, info)
    BY DEF UpdateTick
  <1> HIDE DEF tn, info
  <1>3. CASE info.gross = 0
    <2>1. DOMAIN tn = DOMAIN tk \ {t} /\ \A x \in DOMAIN tk \ {t} : tn[x] = tk[x]
      BY <1>2, <1>3, DropReads
    <2>2. ReadTick(tn, t) = [gross |-> 0, net |-> 0] /\ \A u : u # t => ReadTick(tn, u) = ReadTick(tk, u)
      BY <2>1 DEF ReadTick
    <2> QED BY <2>1, <2>2, <1>1, <1>3 DEF tn, EntryMoved
  <1>4. CASE info.gross # 0
    <2>1. /\ DOMAIN tn = DOMAIN tk \cup {t} /\ tn[t] = info
          /\ \A x \in DOMAIN tk \ {t} : tn[x] = tk[x]
      BY <1>2, <1>4 DEF Put
    <2>2. ReadTick(tn, t) = info /\ \A u : u # t => ReadTick(tn, u) = ReadTick(tk, u)
      BY <2>1 DEF ReadTick
    <2> QED BY <2>1, <2>2, <1>1, <1>4 DEF tn, info, EntryMoved
  <1> QED BY <1>3, <1>4

LowerMoved(tk, tn, t, d) == EntryMoved(tk, tn, t, d, FALSE)
UpperMoved(tk, tn, t, d) == EntryMoved(tk, tn, t, d, TRUE)

LEMMA RangeReads ==
    ASSUME NEW tk, NEW lower, NEW upper, lower # upper, NEW d
    PROVE  \E tn : /\ tn = MoveRange(tk, lower, upper, d)
                   /\ LowerMoved(tk, tn, lower, d) /\ UpperMoved(tk, tn, upper, d)
                   /\ \A u : u # lower /\ u # upper => ReadTick(tn, u) = ReadTick(tk, u)
                   /\ DOMAIN tn \subseteq DOMAIN tk \cup {lower, upper}
  <1> DEFINE tm == UpdateTick(tk, lower, d, FALSE)
             tn == UpdateTick(tm, upper, d, TRUE)
  <1>1. /\ EntryMoved(tk, tm, lower, d, FALSE)
        /\ \A u : u # lower => ReadTick(tm, u) = ReadTick(tk, u)
        /\ DOMAIN tm \subseteq DOMAIN tk \cup {lower}
    BY UpdateReads
  <1>2. tn = MoveRange(tk, lower, upper, d)
    BY DEF MoveRange
  <1> HIDE DEF tm
  <1>3. /\ EntryMoved(tm, tn, upper, d, TRUE)
        /\ \A u : u # upper => ReadTick(tn, u) = ReadTick(tm, u)
        /\ DOMAIN tn \subseteq DOMAIN tm \cup {upper}
    BY UpdateReads
  <1> HIDE DEF tn
  <1>4. EntryMoved(tk, tn, upper, d, TRUE)
    BY <1>1, <1>3 DEF EntryMoved, Moved
  <1>5. EntryMoved(tk, tn, lower, d, FALSE)
    BY <1>1, <1>3 DEF EntryMoved
  <1>6. /\ \A u : u # lower /\ u # upper => ReadTick(tn, u) = ReadTick(tk, u)
        /\ DOMAIN tn \subseteq DOMAIN tk \cup {lower, upper}
    BY <1>1, <1>3
  <1> QED BY <1>2, <1>4, <1>5, <1>6 DEF LowerMoved, UpperMoved

(* Sums that move by d at the two ends, and entries moved by d there.      *)
LEMMA SumsMove ==
    ASSUME NEW tk, NEW f, NEW h, Booked(f), Booked(h), SumsHold(tk, f), NEW d \in Int,
           NEW lower \in TickRange, NEW upper \in TickRange, lower # upper,
           \A t \in TickRange : /\ StartSum(h, t) = StartSum(f, t) + At(t = lower, d)
                                /\ EndSum(h, t) = EndSum(f, t) + At(t = upper, d)
    PROVE  SumsHold(MoveRange(tk, lower, upper, d), h)
  <1>1. PICK tn : /\ tn = MoveRange(tk, lower, upper, d)
                  /\ LowerMoved(tk, tn, lower, d) /\ UpperMoved(tk, tn, upper, d)
                  /\ \A u : u # lower /\ u # upper => ReadTick(tn, u) = ReadTick(tk, u)
    BY RangeReads
  <1> SUFFICES ASSUME NEW t \in TickRange
               PROVE  /\ ReadTick(tn, t).gross = StartSum(h, t) + EndSum(h, t)
                      /\ ReadTick(tn, t).net = StartSum(h, t) - EndSum(h, t)
    BY <1>1 DEF SumsHold
  <1>2. PICK s \in Nat, e \in Nat : s = StartSum(f, t) /\ e = EndSum(f, t)
    BY BookedSums
  <1>3. PICK hs \in Nat, he \in Nat : hs = StartSum(h, t) /\ he = EndSum(h, t)
    BY BookedSums
  <1>4. ReadTick(tk, t).gross = s + e /\ ReadTick(tk, t).net = s - e
    BY <1>2 DEF SumsHold
  <1>5. hs = s + At(t = lower, d) /\ he = e + At(t = upper, d)
    BY <1>2, <1>3
  <1>6. CASE t = lower
    <2>1. hs = s + d /\ he = e
      BY <1>5, <1>6 DEF At
    <2>2. CASE s + e + d = 0
      <3>1. hs = 0 /\ he = 0
        BY <2>1, <2>2
      <3>2. ReadTick(tn, t) = [gross |-> 0, net |-> 0]
        BY <1>1, <1>4, <1>6, <2>2 DEF LowerMoved, UpperMoved, EntryMoved
      <3> QED BY <3>1, <3>2, <1>3
    <2>3. CASE s + e + d # 0
      <3>1. ReadTick(tn, t) = Moved(tk, t, d, FALSE)
        BY <1>1, <1>4, <1>6, <2>3 DEF LowerMoved, UpperMoved, EntryMoved
      <3>2. ReadTick(tn, t).gross = s + e + d /\ ReadTick(tn, t).net = s - e + d
        BY <3>1, <1>4 DEF Moved
      <3> QED BY <3>2, <2>1, <1>3
    <2> QED BY <2>2, <2>3
  <1>7. CASE t = upper
    <2>1. hs = s /\ he = e + d
      BY <1>5, <1>7 DEF At
    <2>2. CASE s + e + d = 0
      <3>1. hs = 0 /\ he = 0
        BY <2>1, <2>2
      <3>2. ReadTick(tn, t) = [gross |-> 0, net |-> 0]
        BY <1>1, <1>4, <1>7, <2>2 DEF LowerMoved, UpperMoved, EntryMoved
      <3> QED BY <3>1, <3>2, <1>3
    <2>3. CASE s + e + d # 0
      <3>1. ReadTick(tn, t) = Moved(tk, t, d, TRUE)
        BY <1>1, <1>4, <1>7, <2>3 DEF LowerMoved, UpperMoved, EntryMoved
      <3>2. ReadTick(tn, t).gross = s + e + d /\ ReadTick(tn, t).net = s - e + (-d)
        BY <3>1, <1>4 DEF Moved
      <3> QED BY <3>2, <2>1, <1>3
    <2> QED BY <2>2, <2>3
  <1>8. CASE t # lower /\ t # upper
    <2>1. hs = s /\ he = e
      BY <1>5, <1>8 DEF At
    <2> QED BY <2>1, <1>1, <1>3, <1>4, <1>8
  <1> QED BY <1>6, <1>7, <1>8

SumInv == Booked(positions) /\ SumsHold(ticks, positions) /\ DOMAIN ticks \subseteq TickRange

LEMMA RangeDomain ==
    ASSUME NEW tk, DOMAIN tk \subseteq TickRange, NEW d,
           NEW lower \in TickRange, NEW upper \in TickRange, lower # upper
    PROVE  DOMAIN MoveRange(tk, lower, upper, d) \subseteq TickRange
  <1>1. PICK tn : /\ tn = MoveRange(tk, lower, upper, d)
                  /\ DOMAIN tn \subseteq DOMAIN tk \cup {lower, upper}
    BY RangeReads
  <1>2. DOMAIN tn \subseteq TickRange
    BY <1>1
  <1> QED BY <1>1, <1>2

LEMMA SumInit == Init => SumInv
  <1> SUFFICES ASSUME Init PROVE SumInv
    OBVIOUS
  <1>1. DOMAIN positions = {} /\ DOMAIN ticks = {}
    BY DEF Init, Empty
  <1>2. Booked(positions)
    BY <1>1, FS_EmptySet DEF Booked
  <1>3. SumsHold(ticks, positions)
    <2> SUFFICES ASSUME NEW t \in TickRange
                 PROVE  /\ ReadTick(ticks, t).gross = StartSum(positions, t) + EndSum(positions, t)
                        /\ ReadTick(ticks, t).net = StartSum(positions, t) - EndSum(positions, t)
      BY DEF SumsHold
    <2>1. Starting(positions, t) = {} /\ Ending(positions, t) = {}
      BY <1>1 DEF Starting, Ending
    <2>2. StartSum(positions, t) = 0 /\ EndSum(positions, t) = 0
      BY <2>1, LiquidityEmpty DEF StartSum, EndSum
    <2>3. ReadTick(ticks, t) = [gross |-> 0, net |-> 0]
      BY <1>1 DEF ReadTick
    <2> QED BY <2>2, <2>3
  <1> QED BY <1>1, <1>2, <1>3 DEF SumInv

LEMMA SumAdd ==
    ASSUME SumInv, TokenInv, NEW u, NEW lower \in TickRange, NEW upper \in TickRange,
           NEW liq \in Liquidities, AddLiquidity(u, lower, upper, liq)
    PROVE  SumInv'
  <1>1. PICK p : p = NewPosition(u, lower, upper, liq)
    OBVIOUS
  <1>2. p.lower = lower /\ p.upper = upper /\ p.liquidity = liq
    BY <1>1 DEF NewPosition
  <1>3. liq \in Nat \ {0} /\ liq \in Int /\ lower < upper /\ lower # upper
    BY ClPoolAssumption DEF AddLiquidity, TickRange
  <1>4. Fits(p)
    BY <1>2, <1>3 DEF Fits
  <1>5. PICK f : f = positions
    OBVIOUS
  <1>6. PICK k : k = nextPositionId
    OBVIOUS
  <1>7. k \notin DOMAIN f
    BY <1>5, <1>6 DEF TokenInv, IdsIssued
  <1>8. PICK h : h = Put(f, k, p)
    OBVIOUS
  <1>9. positions' = h /\ ticks' = MoveRange(ticks, lower, upper, liq)
    BY <1>1, <1>5, <1>6, <1>8 DEF AddLiquidity
  <1>10. Booked(f) /\ SumsHold(ticks, f) /\ DOMAIN ticks \subseteq TickRange
    BY <1>5 DEF SumInv
  <1>11. Booked(h)
    BY <1>4, <1>8, <1>10, BookedPut
  <1>12. ASSUME NEW t \in TickRange
         PROVE  /\ StartSum(h, t) = StartSum(f, t) + At(t = lower, liq)
                /\ EndSum(h, t) = EndSum(f, t) + At(t = upper, liq)
    <2>1. /\ StartSum(h, t) = StartSum(Drop(f, k), t) + At(p.lower = t, p.liquidity)
          /\ EndSum(h, t) = EndSum(Drop(f, k), t) + At(p.upper = t, p.liquidity)
      BY <1>4, <1>8, <1>10, SumsOfPut
    <2>2. StartSum(Drop(f, k), t) = StartSum(f, t) /\ EndSum(Drop(f, k), t) = EndSum(f, t)
      BY <1>7, <1>10, SumsOfNew
    <2>3. At(p.lower = t, p.liquidity) = At(t = lower, liq) /\ At(p.upper = t, p.liquidity) = At(t = upper, liq)
      BY <1>2 DEF At
    <2> QED BY <2>1, <2>2, <2>3
  <1>13. SumsHold(MoveRange(ticks, lower, upper, liq), h)
    BY <1>3, <1>10, <1>11, <1>12, SumsMove
  <1>14. DOMAIN MoveRange(ticks, lower, upper, liq) \subseteq TickRange
    BY <1>3, <1>10, RangeDomain
  <1>15. Booked(positions') /\ SumsHold(ticks', positions') /\ DOMAIN ticks' \subseteq TickRange
    BY <1>9, <1>11, <1>13, <1>14
  <1> QED BY <1>15 DEF SumInv

LEMMA SumRemoveAll ==
    ASSUME SumInv, NEW u, NEW id \in DOMAIN positions, RemoveAll(u, id)
    PROVE  SumInv'
  <1>1. PICK f : f = positions
    OBVIOUS
  <1>2. PICK h : h = Drop(f, id)
    OBVIOUS
  <1>3. PICK p : p = f[id]
    OBVIOUS
  <1>4. Booked(f) /\ SumsHold(ticks, f) /\ DOMAIN ticks \subseteq TickRange /\ id \in DOMAIN f
    BY <1>1 DEF SumInv
  <1>5. /\ p.lower \in TickRange /\ p.upper \in TickRange /\ p.lower < p.upper /\ p.lower # p.upper
        /\ p.liquidity \in Nat
    BY <1>3, <1>4 DEF Booked, Fits, TickRange
  <1>6. PICK d \in Int : d = -p.liquidity
    BY <1>5
  <1>7. positions' = h /\ ticks' = MoveRange(ticks, p.lower, p.upper, d)
    BY <1>1, <1>2, <1>3, <1>6 DEF RemoveAll, TakeOut
  <1>8. Booked(h)
    BY <1>2, <1>4, BookedDrop
  <1>9. ASSUME NEW t \in TickRange
        PROVE  /\ StartSum(h, t) = StartSum(f, t) + At(t = p.lower, d)
               /\ EndSum(h, t) = EndSum(f, t) + At(t = p.upper, d)
    <2>1. /\ StartSum(f, t) = StartSum(h, t) + At(p.lower = t, p.liquidity)
          /\ EndSum(f, t) = EndSum(h, t) + At(p.upper = t, p.liquidity)
      BY <1>2, <1>3, <1>4, SumsOfDrop
    <2>2. PICK s \in Nat, e \in Nat : s = StartSum(h, t) /\ e = EndSum(h, t)
      BY <1>8, BookedSums
    <2> QED BY <2>1, <2>2, <1>5, <1>6 DEF At
  <1>10. SumsHold(MoveRange(ticks, p.lower, p.upper, d), h)
    BY <1>4, <1>5, <1>8, <1>9, SumsMove
  <1>11. DOMAIN MoveRange(ticks, p.lower, p.upper, d) \subseteq TickRange
    BY <1>4, <1>5, RangeDomain
  <1>12. Booked(positions') /\ SumsHold(ticks', positions') /\ DOMAIN ticks' \subseteq TickRange
    BY <1>7, <1>8, <1>10, <1>11
  <1> QED BY <1>12 DEF SumInv

(* A position stored again with d less: also with d = 0, at a collect.      *)
LEMMA SumsOfRewritten ==
    ASSUME NEW f, Booked(f), NEW k \in DOMAIN f, NEW d \in Nat, d < f[k].liquidity,
           NEW p, p.lower = f[k].lower, p.upper = f[k].upper, p.liquidity = f[k].liquidity - d,
           NEW h, h = Put(f, k, p)
    PROVE  /\ Booked(h)
           /\ \A t : /\ StartSum(h, t) = StartSum(f, t) + At(t = p.lower, -d)
                     /\ EndSum(h, t) = EndSum(f, t) + At(t = p.upper, -d)
  <1>1. Fits(f[k])
    BY DEF Booked
  <1>2. Fits(p) /\ p.liquidity \in Nat /\ f[k].liquidity \in Nat
    BY <1>1 DEF Fits
  <1>3. Booked(h)
    BY <1>2, BookedPut
  <1>4. ASSUME NEW t
        PROVE  /\ StartSum(h, t) = StartSum(f, t) + At(t = p.lower, -d)
               /\ EndSum(h, t) = EndSum(f, t) + At(t = p.upper, -d)
    <2>1. PICK g : g = Drop(f, k)
      OBVIOUS
    <2>2. /\ StartSum(h, t) = StartSum(g, t) + At(p.lower = t, p.liquidity)
          /\ EndSum(h, t) = EndSum(g, t) + At(p.upper = t, p.liquidity)
      BY <1>2, <2>1, SumsOfPut
    <2>3. /\ StartSum(f, t) = StartSum(g, t) + At(f[k].lower = t, f[k].liquidity)
          /\ EndSum(f, t) = EndSum(g, t) + At(f[k].upper = t, f[k].liquidity)
      BY <2>1, SumsOfDrop
    <2>4. PICK s \in Nat, e \in Nat : s = StartSum(g, t) /\ e = EndSum(g, t)
      BY <2>1, BookedDrop, BookedSums
    <2> QED BY <2>2, <2>3, <2>4, <1>2 DEF At
  <1> QED BY <1>3, <1>4

LEMMA SumRemovePart ==
    ASSUME SumInv, NEW u, NEW id \in DOMAIN positions, NEW liq \in Liquidities,
           RemovePart(u, id, liq)
    PROVE  SumInv'
  <1>1. PICK f : f = positions
    OBVIOUS
  <1>2. PICK p : p = Rewritten(positions[id], positions[id].liquidity - liq, positions[id].inside)
    OBVIOUS
  <1>3. PICK h : h = Put(f, id, p)
    OBVIOUS
  <1>4. Booked(f) /\ SumsHold(ticks, f) /\ DOMAIN ticks \subseteq TickRange /\ id \in DOMAIN f
    BY <1>1 DEF SumInv
  <1>5. /\ p.lower = f[id].lower /\ p.upper = f[id].upper /\ p.liquidity = f[id].liquidity - liq
        /\ liq \in Nat /\ -liq \in Int /\ liq < f[id].liquidity
    BY <1>1, <1>2, ClPoolAssumption DEF Rewritten, RemovePart
  <1>6. /\ p.lower \in TickRange /\ p.upper \in TickRange /\ p.lower # p.upper
    BY <1>4, <1>5 DEF Booked, Fits, TickRange
  <1>7. positions' = h /\ ticks' = MoveRange(ticks, p.lower, p.upper, -liq)
    BY <1>1, <1>2, <1>3, <1>5 DEF RemovePart, TakeOut
  <1>8. /\ Booked(h)
        /\ \A t : /\ StartSum(h, t) = StartSum(f, t) + At(t = p.lower, -liq)
                  /\ EndSum(h, t) = EndSum(f, t) + At(t = p.upper, -liq)
    BY <1>3, <1>4, <1>5, SumsOfRewritten
  <1>9. SumsHold(MoveRange(ticks, p.lower, p.upper, -liq), h)
    BY <1>4, <1>5, <1>6, <1>8, SumsMove
  <1>10. DOMAIN MoveRange(ticks, p.lower, p.upper, -liq) \subseteq TickRange
    BY <1>4, <1>6, RangeDomain
  <1>11. Booked(positions') /\ SumsHold(ticks', positions') /\ DOMAIN ticks' \subseteq TickRange
    BY <1>7, <1>8, <1>9, <1>10
  <1> QED BY <1>11 DEF SumInv

LEMMA SumCollect ==
    ASSUME SumInv, NEW u, NEW id \in DOMAIN positions, Collect(u, id)
    PROVE  SumInv'
  <1>1. PICK f : f = positions
    OBVIOUS
  <1>2. PICK p : p = Settled(positions[id])
    OBVIOUS
  <1>3. PICK h : h = Put(f, id, p)
    OBVIOUS
  <1>4. Booked(f) /\ SumsHold(ticks, f) /\ DOMAIN ticks \subseteq TickRange /\ id \in DOMAIN f
    BY <1>1 DEF SumInv
  <1>5. p.lower = f[id].lower /\ p.upper = f[id].upper /\ p.liquidity = f[id].liquidity
    BY <1>1, <1>2 DEF Settled, Rewritten
  <1>6. f[id].liquidity \in Nat \ {0}
    BY <1>4 DEF Booked, Fits
  <1>7. PICK z \in Nat : z = 0 /\ z < f[id].liquidity /\ p.liquidity = f[id].liquidity - z
    BY <1>5, <1>6
  <1>8. positions' = h /\ ticks' = ticks
    BY <1>1, <1>2, <1>3 DEF Collect
  <1>9. /\ Booked(h)
        /\ \A t : /\ StartSum(h, t) = StartSum(f, t) + At(t = p.lower, -z)
                  /\ EndSum(h, t) = EndSum(f, t) + At(t = p.upper, -z)
    <2>1. z \in Nat /\ z < f[id].liquidity /\ p.liquidity = f[id].liquidity - z
      BY <1>7
    <2>2. p.lower = f[id].lower /\ p.upper = f[id].upper
      BY <1>5
    <2> QED BY <2>1, <2>2, <1>3, <1>4, SumsOfRewritten
  <1>10. SumsHold(ticks, h)
    <2> SUFFICES ASSUME NEW t \in TickRange
                 PROVE  StartSum(h, t) = StartSum(f, t) /\ EndSum(h, t) = EndSum(f, t)
      BY <1>4 DEF SumsHold
    <2>1. PICK s \in Nat, e \in Nat : s = StartSum(f, t) /\ e = EndSum(f, t)
      BY <1>4, BookedSums
    <2> QED BY <2>1, <1>7, <1>9 DEF At
  <1>11. Booked(positions') /\ SumsHold(ticks', positions') /\ DOMAIN ticks' \subseteq TickRange
    BY <1>4, <1>8, <1>9, <1>10
  <1> QED BY <1>11 DEF SumInv

LEMMA SumUnchanged ==
    SumInv /\ UNCHANGED <<positions, ticks>> => SumInv'
  BY DEF SumInv

LEMMA SumStep == SumInv /\ TokenInv /\ [Next]_vars => SumInv'
  <1> SUFFICES ASSUME SumInv, TokenInv, [Next]_vars PROVE SumInv'
    OBVIOUS
  <1>1. CASE AddStep
    BY <1>1, SumAdd DEF AddStep
  <1>2. CASE RemoveStep
    BY <1>2, SumRemoveAll, SumRemovePart DEF RemoveStep
  <1>3. CASE CollectStep
    BY <1>3, SumCollect DEF CollectStep
  <1>4. CASE SwapStep
    BY <1>4, SumUnchanged DEF SwapStep, Swap, bookVars
  <1>5. CASE TransferStep
    BY <1>5, SumUnchanged DEF TransferStep, TransferToken, bookVars
  <1>6. CASE SetOracle
    BY <1>6, SumUnchanged DEF SetOracle, bookVars
  <1>7. CASE CloseLedger
    BY <1>7, SumUnchanged DEF CloseLedger, bookVars
  <1>8. CASE UNCHANGED vars
    BY <1>8, SumUnchanged DEF vars, bookVars
  <1> QED
    BY <1>1, <1>2, <1>3, <1>4, <1>5, <1>6, <1>7, <1>8 DEF Next

LEMMA SumInvGives == SumInv /\ BookInv => TicksAreSums
  <1> SUFFICES ASSUME SumInv, BookInv PROVE TicksAreSums
    OBVIOUS
  <1>1. \A t : /\ LiquidityOf(StartingAt(t)) = StartSum(positions, t)
               /\ LiquidityOf(EndingAt(t)) = EndSum(positions, t)
    BY DEF LiquidityOf, StartingAt, EndingAt, StartSum, EndSum, LiquidityIn, Starting, Ending
  <1>2. ASSUME NEW t \in DOMAIN ticks
        PROVE  /\ t \in TickRange /\ ReadTick(ticks, t) = ticks[t] /\ ticks[t].gross # 0
               /\ ticks[t].gross = StartSum(positions, t) + EndSum(positions, t)
               /\ ticks[t].net = StartSum(positions, t) - EndSum(positions, t)
    BY DEF SumInv, SumsHold, ReadTick, BookInv, Marks
  <1>3. ASSUME NEW t \in DOMAIN ticks PROVE t \in Boundaries
    <2>1. PICK id \in DOMAIN positions : positions[id].lower = t \/ positions[id].upper = t
      <3>1. StartSum(positions, t) + EndSum(positions, t) # 0
        BY <1>2
      <3>2. StartSum(positions, t) # 0 \/ EndSum(positions, t) # 0
        BY <3>1, 0 + 0 = 0
      <3>3. Starting(positions, t) # {} \/ Ending(positions, t) # {}
        BY <3>2, LiquidityEmpty DEF StartSum, EndSum
      <3> QED BY <3>3 DEF Starting, Ending
    <2> QED BY <2>1 DEF Boundaries
  <1>4. ASSUME NEW t \in Boundaries PROVE t \in DOMAIN ticks
    <2>1. PICK id \in DOMAIN positions : positions[id].lower = t \/ positions[id].upper = t
      BY DEF Boundaries
    <2>2. PICK p : p = positions[id]
      OBVIOUS
    <2>3. Booked(positions) /\ Fits(p)
      BY <2>2 DEF SumInv, Booked
    <2>4. t \in TickRange /\ p.liquidity \in Nat \ {0} /\ (p.lower = t \/ p.upper = t)
      BY <2>1, <2>2, <2>3 DEF Fits
    <2>5. PICK g : g = Drop(positions, id)
      OBVIOUS
    <2>6. /\ StartSum(positions, t) = StartSum(g, t) + At(p.lower = t, p.liquidity)
          /\ EndSum(positions, t) = EndSum(g, t) + At(p.upper = t, p.liquidity)
      BY <2>2, <2>3, <2>5, SumsOfDrop
    <2>7. PICK s \in Nat, e \in Nat : s = StartSum(g, t) /\ e = EndSum(g, t)
      BY <2>3, <2>5, BookedDrop, BookedSums
    <2>8. StartSum(positions, t) + EndSum(positions, t) # 0
      <3>1. \A l \in Nat : At(p.lower = t, l) \in {0, l} /\ At(p.upper = t, l) \in {0, l}
        BY DEF At
      <3>2. PICK l \in Nat \ {0} : l = p.liquidity
        BY <2>4
      <3>3. PICK x \in {0, l}, y \in {0, l} : x = At(p.lower = t, l) /\ y = At(p.upper = t, l)
        BY <3>1, <3>2
      <3>4. x = l \/ y = l
        BY <2>4, <3>3 DEF At
      <3>5. StartSum(positions, t) = s + x /\ EndSum(positions, t) = e + y
        BY <2>6, <2>7, <3>2, <3>3
      <3>6. (s + x) + (e + y) # 0
        <4>1. x \in Nat /\ y \in Nat /\ (x > 0 \/ y > 0)
          BY <3>2, <3>3, <3>4
        <4> QED BY <4>1, <2>7
      <3> QED BY <3>5, <3>6
    <2>9. ReadTick(ticks, t).gross # 0
      BY <2>4, <2>8 DEF SumInv, SumsHold
    <2> QED BY <2>9 DEF ReadTick
  <1> QED BY <1>1, <1>2, <1>3, <1>4 DEF TicksAreSums


(***************************************************************************)
(* The search.  A compressed tick is a word and a bit, in that order, so   *)
(* the nearest bit of the nearest word is the nearest tick.                *)
(***************************************************************************)
Toward(lte, a, b) == IF lte THEN a <= b ELSE a >= b

LEMMA DivGrows ==
    ASSUME NEW a \in Int, NEW b \in Int, a <= b, NEW n \in Nat \ {0}
    PROVE  a \div n <= b \div n
  <1>1. a \div n \in Int /\ b \div n \in Int
    OBVIOUS
  <1>2. (a \div n) * n <= a
    BY <1>1, FitsIn
  <1>3. (a \div n) * n <= b
    BY <1>1, <1>2
  <1> QED BY <1>1, <1>3, FitsIn

LEMMA DivParts ==
    ASSUME NEW c \in Int, NEW n \in Nat \ {0}
    PROVE  c \div n \in Int /\ c % n \in 0..(n - 1) /\ c = (c \div n) * n + (c % n)
  <1>1. PICK q, r : q = c \div n /\ r = c % n
    OBVIOUS
  <1>2. q \in Int /\ r \in Int /\ c = n * q + r
    BY <1>1, DivMod
  <1>3. r \in 0..(n - 1)
    BY <1>1
  <1>4. c = q * n + r
    BY <1>2
  <1>5. c \div n = q /\ c % n = r
    BY <1>1, Zenon
  <1> QED BY <1>2, <1>3, <1>4, <1>5, Zenon

LEMMA DivUnique ==
    ASSUME NEW n \in Nat \ {0}, NEW w \in Int, NEW b \in 0..(n - 1)
    PROVE  (w * n + b) \div n = w /\ (w * n + b) % n = b
  <1>1. PICK c \in Int : c = w * n + b
    OBVIOUS
  <1>2. PICK q \in Int : q = c \div n
    OBVIOUS
  <1>3. c % n \in 0..(n - 1) /\ c = q * n + (c % n)
    BY <1>2, DivParts
  <1>4. w <= q
    <2>1. w * n <= c
      BY <1>1
    <2> QED BY <2>1, <1>2, FitsIn
  <1>5. ~(w + 1 <= q)
    <2>1. (w + 1) * n = w * n + n
      OBVIOUS
    <2>2. ~((w + 1) * n <= c)
      BY <2>1, <1>1
    <2> QED BY <2>2, <1>2, FitsIn
  <1>6. q = w
    BY <1>4, <1>5
  <1> QED BY <1>1, <1>2, <1>3, <1>6

(* Words before bits.                                                      *)
LEMMA LexOrder ==
    ASSUME NEW w \in Int, NEW v \in Int,
           NEW b \in 0..(WordBits - 1), NEW d \in 0..(WordBits - 1), NEW lte \in BOOLEAN,
           NEW k \in Int, k = w * WordBits + b, NEW m \in Int, m = v * WordBits + d
    PROVE  Toward(lte, k, m) <=> (w # v /\ Toward(lte, w, v)) \/ (w = v /\ Toward(lte, b, d))
  <1>0. WordBits \in Nat \ {0}
    BY TickBitmapAssumption
  <1>1. ASSUME NEW x \in Int, NEW y \in Int, x < y,
               NEW e \in 0..(WordBits - 1), NEW f \in 0..(WordBits - 1)
        PROVE  x * WordBits + e < y * WordBits + f
    <2>1. (x + 1) * WordBits <= y * WordBits
      BY <1>0, <1>1, TimesGrows
    <2>2. (x + 1) * WordBits = x * WordBits + WordBits
      BY <1>0
    <2> QED BY <1>0, <2>1, <2>2
  <1>2. CASE w = v
    <2>1. w * WordBits \in Int /\ k = w * WordBits + b /\ m = w * WordBits + d
      BY <1>0, <1>2
    <2>2. /\ k <= m <=> b <= d
          /\ k >= m <=> b >= d
      BY <2>1
    <2> QED BY <1>2, <2>2 DEF Toward
  <1>3. CASE w < v
    <2>1. k < m
      BY <1>1, <1>3
    <2> QED BY <1>3, <2>1 DEF Toward
  <1>4. CASE v < w
    <2>1. m < k
      BY <1>1, <1>4
    <2> QED BY <1>4, <2>1 DEF Toward
  <1> QED BY <1>2, <1>3, <1>4

(* The largest and the smallest member of a bounded set.                   *)
LEMMA MaxExists ==
    ASSUME NEW S, S \subseteq Int, S # {}, NEW hi \in Int, \A x \in S : x <= hi
    PROVE  Max(S) \in S /\ \A y \in S : y <= Max(S)
  <1> DEFINE T == {hi - x : x \in S}
  <1>1. PICK n \in T : \A m \in T : n <= m
    <2>1. \A x \in S : hi - x \in Nat
      OBVIOUS
    <2>2. T \subseteq Nat
      BY <2>1
    <2>3. T # {}
      OBVIOUS
    <2> HIDE DEF T
    <2> QED BY <2>2, <2>3, LeastNatural
  <1>2. PICK x \in S : n = hi - x
    BY <1>1
  <1>3. \A y \in S : x >= y
    <2> TAKE y \in S
    <2>1. n <= hi - y
      BY <1>1
    <2> QED BY <2>1, <1>2
  <1>4. Max(S) \in S /\ \A y \in S : Max(S) >= y
    BY <1>3 DEF Max
  <1> QED BY <1>4

LEMMA MinExists ==
    ASSUME NEW S, S \subseteq Int, S # {}, NEW lo \in Int, \A x \in S : lo <= x
    PROVE  Min(S) \in S /\ \A y \in S : Min(S) <= y
  <1> DEFINE T == {x - lo : x \in S}
  <1>1. PICK n \in T : \A m \in T : n <= m
    <2>1. \A x \in S : x - lo \in Nat
      OBVIOUS
    <2>2. T \subseteq Nat
      BY <2>1
    <2>3. T # {}
      OBVIOUS
    <2> HIDE DEF T
    <2> QED BY <2>2, <2>3, LeastNatural
  <1>2. PICK x \in S : n = x - lo
    BY <1>1
  <1>3. \A y \in S : x =< y
    <2> TAKE y \in S
    <2>1. n <= y - lo
      BY <1>1
    <2> QED BY <2>1, <1>2
  <1> QED BY <1>3 DEF Min

LEMMA NearestExists ==
    ASSUME NEW S, NEW lo \in Int, NEW hi \in Int, S \subseteq lo..hi, S # {}, NEW lte \in BOOLEAN
    PROVE  /\ NearestBit(S, lte) \in S /\ NearestWord(S, lte) \in S
           /\ \A y \in S : Toward(lte, y, NearestBit(S, lte)) /\ Toward(lte, y, NearestWord(S, lte))
  <1>1. S \subseteq Int /\ \A x \in S : lo <= x /\ x <= hi
    OBVIOUS
  <1>2. /\ Max(S) \in S /\ \A y \in S : y <= Max(S)
        /\ Min(S) \in S /\ \A y \in S : Min(S) <= y
    BY <1>1, MaxExists, MinExists
  <1>3. \A y \in S : y >= Min(S)
    BY <1>1, <1>2
  <1>4. CASE lte
    BY <1>2, <1>4 DEF NearestBit, NearestWord, Toward
  <1>5. CASE ~lte
    BY <1>2, <1>3, <1>5 DEF NearestBit, NearestWord, Toward
  <1> QED BY <1>4, <1>5

LEMMA NearestIs ==
    ASSUME NEW S, NEW lo \in Int, NEW hi \in Int, S \subseteq lo..hi, NEW lte \in BOOLEAN,
           NEW m \in S, \A y \in S : Toward(lte, y, m)
    PROVE  NearestBit(S, lte) = m
  <1>1. PICK x \in S : x = NearestBit(S, lte) /\ \A y \in S : Toward(lte, y, x)
    BY NearestExists
  <1>2. Toward(lte, x, m) /\ Toward(lte, m, x) /\ x \in Int /\ m \in Int
    BY <1>1
  <1>3. x = m
    <2>1. CASE lte
      BY <1>2, <2>1 DEF Toward
    <2>2. CASE ~lte
      BY <1>2, <2>2 DEF Toward
    <2> QED BY <2>1, <2>2
  <1> QED BY <1>1, <1>3

(***************************************************************************)
(* Ticks, words and bits.                                                  *)
(***************************************************************************)
LEMMA TickPlace ==
    ASSUME NEW t \in TickRange
    PROVE  /\ t \in Int /\ Compressed(t) \in Int /\ t = Compressed(t) * Spacing
           /\ WordOf(Compressed(t)) \in Words
           /\ BitOf(Compressed(t)) \in 0..(WordBits - 1)
           /\ TickAt(WordOf(Compressed(t)), BitOf(Compressed(t))) = t
  <1>1. t \in MinTick..MaxTick /\ t \in Int /\ t % Spacing = 0
    BY TickBitmapAssumption DEF TickRange, ValidTick
  <1>2. PICK c : c = Compressed(t)
    OBVIOUS
  <1>3. c \in Int /\ t = c * Spacing + (t % Spacing)
    BY <1>1, <1>2, DivParts, TickBitmapAssumption DEF Compressed
  <1>4. t = c * Spacing
    <2>1. \A x \in Int : x + 0 = x
      OBVIOUS
    <2>2. c * Spacing \in Int
      BY <1>3, TickBitmapAssumption
    <2> QED BY <1>1, <1>3, <2>1, <2>2
  <1>5. PICK w, b : w = WordOf(c) /\ b = BitOf(c)
    OBVIOUS
  <1>6. b \in 0..(WordBits - 1) /\ c = w * WordBits + b
    BY <1>3, <1>5, DivParts, TickBitmapAssumption DEF WordOf, BitOf
  <1>7. w \in Words
    BY <1>1, <1>2, <1>5 DEF Words
  <1>8. TickAt(w, b) = t
    BY <1>4, <1>6 DEF TickAt
  <1> QED BY <1>1, <1>2, <1>3, <1>4, <1>5, <1>6, <1>7, <1>8

LEMMA WordsBounded ==
    /\ WordOf(Compressed(MinTick)) \in Int /\ WordOf(Compressed(MaxTick)) \in Int
    /\ Words \subseteq WordOf(Compressed(MinTick)) .. WordOf(Compressed(MaxTick))
  <1>1. \A t \in Int : Compressed(t) \in Int /\ WordOf(Compressed(t)) \in Int
    BY DivParts, TickBitmapAssumption DEF Compressed, WordOf
  <1>2. ASSUME NEW t \in MinTick..MaxTick
        PROVE  WordOf(Compressed(t)) \in WordOf(Compressed(MinTick)) .. WordOf(Compressed(MaxTick))
    <2>1. t \in Int /\ MinTick <= t /\ t <= MaxTick /\ MinTick \in Int /\ MaxTick \in Int
      BY TickBitmapAssumption
    <2>2. Compressed(MinTick) <= Compressed(t) /\ Compressed(t) <= Compressed(MaxTick)
      BY <2>1, DivGrows, TickBitmapAssumption DEF Compressed
    <2>3. /\ WordOf(Compressed(MinTick)) <= WordOf(Compressed(t))
          /\ WordOf(Compressed(t)) <= WordOf(Compressed(MaxTick))
      BY <1>1, <2>1, <2>2, DivGrows, TickBitmapAssumption DEF WordOf
    <2> QED BY <1>1, <2>1, <2>3
  <1> QED BY <1>1, <1>2, TickBitmapAssumption DEF Words

LEMMA PlaceTick ==
    ASSUME NEW w \in Int, NEW b \in 0..(WordBits - 1)
    PROVE  /\ WordOf(Compressed(TickAt(w, b))) = w /\ BitOf(Compressed(TickAt(w, b))) = b
           /\ TickAt(w, b) = (w * WordBits + b) * Spacing
  <1>1. PICK c \in Int : c = w * WordBits + b
    BY TickBitmapAssumption
  <1>2. TickAt(w, b) = c * Spacing
    BY <1>1 DEF TickAt
  <1>3. (c * Spacing + 0) \div Spacing = c
    <2>1. 0 \in 0..(Spacing - 1)
      BY TickBitmapAssumption
    <2> QED BY <2>1, DivUnique, TickBitmapAssumption
  <1>4. c * Spacing + 0 = c * Spacing
    BY TickBitmapAssumption
  <1>5. Compressed(TickAt(w, b)) = c
    BY <1>2, <1>3, <1>4 DEF Compressed
  <1>6. WordOf(c) = w /\ BitOf(c) = b
    BY <1>1, DivUnique, TickBitmapAssumption DEF WordOf, BitOf
  <1> QED BY <1>1, <1>2, <1>5, <1>6

(* Where a tick lies from another, in words and bits.                      *)
Beyond(lte, u, t) == IF lte THEN u <= t ELSE u > t
Start(lte, t) == IF lte THEN Compressed(t) ELSE Compressed(t) + 1
Ahead(lte, v, b, c) ==
    \/ v # WordOf(c) /\ Toward(lte, v, WordOf(c))
    \/ v = WordOf(c) /\ Toward(lte, b, BitOf(c))

LEMMA StartTyped ==
    ASSUME NEW t \in Int, NEW lte \in BOOLEAN
    PROVE  /\ Start(lte, t) \in Int /\ WordOf(Start(lte, t)) \in Int
           /\ BitOf(Start(lte, t)) \in 0..(WordBits - 1)
           /\ Start(lte, t) = WordOf(Start(lte, t)) * WordBits + BitOf(Start(lte, t))
  <1>1. Compressed(t) \in Int
    BY DivParts, TickBitmapAssumption DEF Compressed
  <1>2. PICK c : c = Start(lte, t)
    OBVIOUS
  <1>3. c \in Int
    BY <1>1, <1>2 DEF Start
  <1> QED BY <1>2, <1>3, DivParts, TickBitmapAssumption DEF WordOf, BitOf

LEMMA BeyondAhead ==
    ASSUME NEW t \in Int, NEW lte \in BOOLEAN, NEW v \in Int, NEW b \in 0..(WordBits - 1)
    PROVE  Beyond(lte, TickAt(v, b), t) <=> Ahead(lte, v, b, Start(lte, t))
  <1>1. PICK k \in Int : k = v * WordBits + b
    BY TickBitmapAssumption
  <1>2. TickAt(v, b) = k * Spacing /\ k * Spacing \in Int
    BY <1>1, TickBitmapAssumption DEF TickAt
  <1>3. PICK q \in Int : q = Compressed(t)
    BY DivParts, TickBitmapAssumption DEF Compressed
  <1>4. k * Spacing <= t <=> k <= q
    BY <1>3, FitsIn, TickBitmapAssumption DEF Compressed
  <1>5. Beyond(lte, TickAt(v, b), t) <=> Toward(lte, k, Start(lte, t))
    <2>1. CASE lte
      BY <1>2, <1>3, <1>4, <2>1 DEF Beyond, Toward, Start
    <2>2. CASE ~lte
      BY <1>2, <1>3, <1>4, <2>2 DEF Beyond, Toward, Start
    <2> QED BY <2>1, <2>2
  <1>6. PICK c, w, e : c = Start(lte, t) /\ w = WordOf(c) /\ e = BitOf(c)
    OBVIOUS
  <1>7. w \in Int /\ e \in 0..(WordBits - 1) /\ c = w * WordBits + e
    BY <1>6, StartTyped
  <1>8. Toward(lte, k, c) <=> (v # w /\ Toward(lte, v, w)) \/ (v = w /\ Toward(lte, b, e))
    <2>1. WordBits \in Nat \ {0} /\ c \in Int
      BY <1>6, StartTyped, TickBitmapAssumption
    <2> QED BY <1>1, <1>7, <2>1, LexOrder DEF Toward
  <1> QED BY <1>5, <1>6, <1>8 DEF Ahead

LEMMA TickToward ==
    ASSUME NEW lte \in BOOLEAN, NEW v \in Int, NEW w \in Int,
           NEW b \in 0..(WordBits - 1), NEW d \in 0..(WordBits - 1),
           (v # w /\ Toward(lte, v, w)) \/ (v = w /\ Toward(lte, b, d))
    PROVE  Toward(lte, TickAt(v, b), TickAt(w, d))
  <1>1. PICK k \in Int, m \in Int : k = v * WordBits + b /\ m = w * WordBits + d
    BY TickBitmapAssumption
  <1>2. TickAt(v, b) = k * Spacing /\ TickAt(w, d) = m * Spacing
    BY <1>1 DEF TickAt
  <1>3. Toward(lte, k, m)
    <2>1. WordBits \in Nat \ {0}
      BY TickBitmapAssumption
    <2> QED BY <1>1, <2>1, LexOrder DEF Toward
  <1>4. CASE lte
    BY <1>2, <1>3, <1>4, TimesGrows, TickBitmapAssumption DEF Toward
  <1>5. CASE ~lte
    <2>1. m <= k
      BY <1>3, <1>5 DEF Toward
    <2>2. m * Spacing <= k * Spacing /\ m * Spacing \in Int /\ k * Spacing \in Int
      BY <2>1, TimesGrows, TickBitmapAssumption
    <2> QED BY <1>2, <1>5, <2>2 DEF Toward
  <1> QED BY <1>4, <1>5

(* A stored bitmap has only bits of valid ticks.                           *)
BitsFit(bm) ==
    /\ bm \in [Words -> SUBSET (0..(WordBits - 1))]
    /\ \A w \in Words : \A b \in bm[w] : TickAt(w, b) \in TickRange

LEMMA FlipFits ==
    ASSUME NEW bm, BitsFit(bm), NEW t \in TickRange
    PROVE  BitsFit(Flip(bm, t))
  <1> DEFINE w == WordOf(Compressed(t))
             b == BitOf(Compressed(t))
             fl == Flip(bm, t)
  <1>1. w \in Words /\ b \in 0..(WordBits - 1) /\ TickAt(w, b) \in TickRange
    BY TickPlace
  <1>2. fl = [bm EXCEPT ![w] = IF b \in bm[w] THEN bm[w] \ {b} ELSE bm[w] \cup {b}]
    BY DEF Flip
  <1> HIDE DEF w, b, fl
  <1>3. PICK x : x = IF b \in bm[w] THEN bm[w] \ {b} ELSE bm[w] \cup {b}
    OBVIOUS
  <1>4. x \in SUBSET (0..(WordBits - 1)) /\ x \subseteq bm[w] \cup {b}
    BY <1>1, <1>3 DEF BitsFit
  <1>5. fl = [bm EXCEPT ![w] = x]
    BY <1>2, <1>3
  <1>6. /\ fl \in [Words -> SUBSET (0..(WordBits - 1))]
        /\ fl[w] = x /\ \A v \in Words \ {w} : fl[v] = bm[v]
    BY <1>1, <1>4, <1>5 DEF BitsFit
  <1>7. BitsFit(fl)
    BY <1>1, <1>4, <1>6 DEF BitsFit
  <1> QED BY <1>7 DEF fl

LEMMA FlipRangeFits ==
    ASSUME NEW bm, BitsFit(bm), NEW tk, NEW lower \in TickRange, NEW upper \in TickRange, NEW d
    PROVE  BitsFit(FlipRange(bm, tk, lower, upper, d))
  <1>1. \A bn, t, x : BitsFit(bn) /\ t \in TickRange => BitsFit(FlipIf(bn, t, x))
    BY FlipFits DEF FlipIf
  <1>2. BitsFit(FlipIf(bm, lower, Flipped(tk, lower, d)))
    BY <1>1
  <1>3. BitsFit(FlipIf(FlipIf(bm, lower, Flipped(tk, lower, d)), upper, Flipped(tk, upper, d)))
    BY <1>1, <1>2
  <1> QED BY <1>3 DEF FlipRange

(* A word, as the search reads it.                                         *)
Bits(bm, v) == IF v \in DOMAIN bm THEN bm[v] ELSE {}
Here(bm, lte, c) == {b \in Bits(bm, WordOf(c)) : Toward(lte, b, BitOf(c))}
Rest(bm, lte, c) ==
    {v \in DOMAIN bm : (IF lte THEN v < WordOf(c) ELSE v > WordOf(c)) /\ bm[v] # {}}
Found(t) == [tick |-> t, initialized |-> TRUE]
Missing(lte) == [tick |-> IF lte THEN MinTick ELSE MaxTick, initialized |-> FALSE]

LEMMA SearchCases ==
    ASSUME NEW bm, NEW t, NEW lte \in BOOLEAN,
           NEW c, c = Start(lte, t), NEW w, w = WordOf(c),
           NEW here, here = Here(bm, lte, c), NEW rest, rest = Rest(bm, lte, c),
           NEW v, v = NearestWord(rest, lte)
    PROVE  NextInitializedTick(bm, t, lte) =
             IF here # {} THEN Found(TickAt(w, NearestBit(here, lte)))
             ELSE IF rest # {} THEN Found(TickAt(v, NearestBit(bm[v], lte)))
             ELSE Missing(lte)
  BY DEF NextInitializedTick, Start, Here, Rest, Bits, Toward, Found, Missing

LEMMA AnswerCases ==
    ASSUME NEW T, NEW t, NEW lte \in BOOLEAN, NEW side, side = {u \in T : Beyond(lte, u, t)}
    PROVE  NextOf(T, t, lte) = IF side = {} THEN Missing(lte) ELSE Found(NearestBit(side, lte))
  BY DEF NextOf, Beyond, Found, Missing

(* The bits ahead of the start are the ticks beyond it, and the nearest of   *)
(* them is the nearest tick.                                                 *)
LEMMA SearchAnswers ==
    ASSUME NEW bm, BitsFit(bm), NEW T \in SUBSET TickRange,
           \A u \in TickRange : BitSet(bm, u) <=> u \in T,
           NEW t \in Int, NEW lte \in BOOLEAN
    PROVE  NextInitializedTick(bm, t, lte) = NextOf(T, t, lte)
  <1>1. PICK c, w, e : c = Start(lte, t) /\ w = WordOf(c) /\ e = BitOf(c)
    OBVIOUS
  <1>2. w \in Int /\ e \in 0..(WordBits - 1)
    BY <1>1, StartTyped
  <1>3. PICK here, rest : here = Here(bm, lte, c) /\ rest = Rest(bm, lte, c)
    OBVIOUS
  <1>4. PICK side : side = {u \in T : Beyond(lte, u, t)}
    OBVIOUS
  <1>5. PICK lo \in Int, hi \in Int : Words \subseteq lo..hi
    BY WordsBounded
  <1>6. DOMAIN bm = Words /\ \A v \in Words : bm[v] \subseteq 0..(WordBits - 1) /\ v \in Int
    BY <1>5 DEF BitsFit
  (* A tick of T is a bit of a word, and a bit is a tick of T. *)
  <1>7. \A v \in Words : \A b \in bm[v] : TickAt(v, b) \in T
    <2> TAKE v \in Words
    <2> TAKE b \in bm[v]
    <2>1. TickAt(v, b) \in TickRange /\ v \in Int /\ b \in 0..(WordBits - 1)
      BY <1>6 DEF BitsFit
    <2>2. BitSet(bm, TickAt(v, b))
      BY <2>1, PlaceTick DEF BitSet
    <2> QED BY <2>1, <2>2
  <1>8. \A u \in T : \E v \in Words : \E b \in bm[v] : u = TickAt(v, b)
    <2> TAKE u \in T
    <2>1. u \in TickRange /\ BitSet(bm, u)
      OBVIOUS
    <2>2. WordOf(Compressed(u)) \in Words /\ BitOf(Compressed(u)) \in bm[WordOf(Compressed(u))]
      BY <2>1, TickPlace DEF BitSet
    <2> QED BY <2>1, <2>2, TickPlace
  <1>9. \A v \in Words : \A b \in bm[v] :
            Beyond(lte, TickAt(v, b), t) <=> (v # w /\ Toward(lte, v, w)) \/ (v = w /\ Toward(lte, b, e))
    BY <1>1, <1>6, BeyondAhead DEF Ahead
  <1>10. \A b : b \in here <=> w \in Words /\ b \in bm[w] /\ Toward(lte, b, e)
    BY <1>1, <1>3, <1>6 DEF Here, Bits
  <1>11. \A v : v \in rest <=> v \in Words /\ v # w /\ Toward(lte, v, w) /\ bm[v] # {}
    BY <1>1, <1>2, <1>3, <1>6 DEF Rest, Toward
  (* The tick at a place that no other bit ahead is nearer than is the answer. *)
  <1>12. ASSUME NEW v \in Words, NEW b \in bm[v],
                (v # w /\ Toward(lte, v, w)) \/ (v = w /\ Toward(lte, b, e)),
                \A x \in Words : \A d \in bm[x] :
                    (x # w /\ Toward(lte, x, w)) \/ (x = w /\ Toward(lte, d, e))
                    => (x # v /\ Toward(lte, x, v)) \/ (x = v /\ Toward(lte, d, b))
         PROVE  NextOf(T, t, lte) = Found(TickAt(v, b))
    <2>1. PICK u0 : u0 = TickAt(v, b)
      OBVIOUS
    <2>2. u0 \in side
      BY <1>4, <1>7, <1>9, <1>12, <2>1
    <2>3. \A u \in side : Toward(lte, u, u0)
      <3> TAKE u \in side
      <3>1. u \in T /\ Beyond(lte, u, t)
        BY <1>4
      <3>2. PICK x \in Words : \E d \in bm[x] : u = TickAt(x, d)
        BY <1>8, <3>1
      <3>6. PICK d \in bm[x] : u = TickAt(x, d)
        BY <3>2
      <3>3. (x # v /\ Toward(lte, x, v)) \/ (x = v /\ Toward(lte, d, b))
        BY <1>9, <1>12, <3>1, <3>6
      <3>4. x \in Int /\ v \in Int /\ d \in 0..(WordBits - 1) /\ b \in 0..(WordBits - 1)
        BY <1>6
      <3>5. Toward(lte, TickAt(x, d), TickAt(v, b))
        BY <3>3, <3>4, TickToward
      <3> QED BY <2>1, <3>6, <3>5, Zenon
    <2>4. side \subseteq MinTick..MaxTick /\ MinTick \in Int /\ MaxTick \in Int
      BY <1>4, TickBitmapAssumption DEF TickRange
    <2>5. NearestBit(side, lte) = u0
      BY <2>2, <2>3, <2>4, NearestIs
    <2>6. NextOf(T, t, lte) = IF side = {} THEN Missing(lte) ELSE Found(NearestBit(side, lte))
      BY <1>4, AnswerCases
    <2> QED BY <2>1, <2>2, <2>5, <2>6
  <1>13. PICK v0 : v0 = NearestWord(rest, lte)
    OBVIOUS
  <1>14. NextInitializedTick(bm, t, lte) =
             IF here # {} THEN Found(TickAt(w, NearestBit(here, lte)))
             ELSE IF rest # {} THEN Found(TickAt(v0, NearestBit(bm[v0], lte)))
             ELSE Missing(lte)
    BY <1>1, <1>3, <1>13, SearchCases
  <1>15. CASE here # {}
    <2>1. here \subseteq 0..(WordBits - 1) /\ w \in Words
      BY <1>6, <1>10, <1>15
    <2>2. 0 \in Int /\ WordBits - 1 \in Int
      BY TickBitmapAssumption
    <2>3. PICK m \in here : m = NearestBit(here, lte) /\ \A d \in here : Toward(lte, d, m)
      BY <1>15, <2>1, <2>2, NearestExists
    <2>4. m \in bm[w] /\ Toward(lte, m, e)
      BY <1>10
    <2>5. \A x \in Words : \A d \in bm[x] :
              (x # w /\ Toward(lte, x, w)) \/ (x = w /\ Toward(lte, d, e))
              => (x # w /\ Toward(lte, x, w)) \/ (x = w /\ Toward(lte, d, m))
      BY <1>10, <2>3
    <2>6. NextOf(T, t, lte) = Found(TickAt(w, m))
      BY <1>12, <2>1, <2>4, <2>5
    <2> QED BY <1>14, <1>15, <2>3, <2>6
  <1>16. CASE here = {} /\ rest # {}
    <2>1. rest \subseteq lo..hi
      BY <1>5, <1>11
    <2>2. v0 \in rest /\ \A x \in rest : Toward(lte, x, v0)
      BY <1>13, <1>16, <2>1, NearestExists
    <2>3. v0 \in Words /\ v0 # w /\ Toward(lte, v0, w) /\ bm[v0] # {}
      BY <1>11, <2>2
    <2>4. 0 \in Int /\ WordBits - 1 \in Int /\ bm[v0] \subseteq 0..(WordBits - 1)
      BY <1>6, <2>3, TickBitmapAssumption
    <2>5. PICK m \in bm[v0] : m = NearestBit(bm[v0], lte) /\ \A d \in bm[v0] : Toward(lte, d, m)
      BY <2>3, <2>4, NearestExists
    <2>6. \A x \in Words : \A d \in bm[x] :
              (x # w /\ Toward(lte, x, w)) \/ (x = w /\ Toward(lte, d, e))
              => (x # v0 /\ Toward(lte, x, v0)) \/ (x = v0 /\ Toward(lte, d, m))
      BY <1>10, <1>11, <1>16, <2>2, <2>5
    <2>7. NextOf(T, t, lte) = Found(TickAt(v0, m))
      BY <1>12, <2>3, <2>6
    <2> QED BY <1>14, <1>16, <2>5, <2>7
  <1>17. CASE here = {} /\ rest = {}
    <2>1. side = {}
      <3> SUFFICES ASSUME NEW u \in side PROVE FALSE
        OBVIOUS
      <3>1. u \in T /\ Beyond(lte, u, t)
        BY <1>4
      <3>2. PICK x \in Words : \E d \in bm[x] : u = TickAt(x, d)
        BY <1>8, <3>1
      <3>6. PICK d \in bm[x] : u = TickAt(x, d)
        BY <3>2
      <3>3. (x # w /\ Toward(lte, x, w)) \/ (x = w /\ Toward(lte, d, e))
        BY <1>9, <3>1, <3>6
      <3> QED BY <1>10, <1>11, <1>17, <3>3
    <2>2. NextOf(T, t, lte) = IF side = {} THEN Missing(lte) ELSE Found(NearestBit(side, lte))
      BY <1>4, AnswerCases
    <2> QED BY <1>14, <1>17, <2>1, <2>2
  <1> QED BY <1>15, <1>16, <1>17


(***************************************************************************)
(* The arithmetic of a swap and of a deposit: what is charged, paid out    *)
(* and grown is a natural number, because divisors are never zero where    *)
(* the code divides.                                                       *)
(***************************************************************************)
LEMMA DivNat == ASSUME NEW a \in Nat, NEW n \in Nat \ {0} PROVE a \div n \in Nat
  <1>1. 0 <= a \div n
    <2>1. 0 * n <= a
      OBVIOUS
    <2> QED BY <2>1, FitsIn
  <1> QED BY <1>1

LEMMA TimesNat == ASSUME NEW a \in Nat, NEW n \in Nat PROVE a * n \in Nat
  <1>1. a * n \in Int /\ 0 * n <= a * n /\ 0 * n = 0
    BY TimesGrows
  <1> QED BY <1>1

(* A larger divisor gives less. *)
LEMMA DivShrinks ==
    ASSUME NEW x \in Nat, NEW a \in Nat \ {0}, NEW b \in Nat \ {0}, a <= b
    PROVE  x \div b <= x \div a
  <1>1. PICK k : k = x \div b
    OBVIOUS
  <1>2. k \in Nat /\ k * b <= x
    BY <1>1, DivNat, FitsIn
  <1>3. a * k <= b * k
    BY <1>2, TimesGrows
  <1>4. k * a = a * k /\ k * b = b * k /\ k * a \in Int /\ k * b \in Int
    BY <1>2
  <1>5. k * a <= x
    BY <1>2, <1>3, <1>4
  <1> QED BY <1>1, <1>2, <1>5, FitsIn

LEMMA PriceTyped == ASSUME NEW t \in Int PROVE TickToSqrtPrice(t) \in Nat
  <1>1. Q96 \in Nat /\ TickScale \in Nat \ {0}
    BY ClPoolMathAssumption
  <1>2. CASE t >= 0
    <2>1. t * Q96 \in Nat
      BY <1>1, <1>2, TimesNat
    <2>2. (t * Q96) \div TickScale \in Nat
      BY <1>1, <2>1, DivNat
    <2> QED BY <1>1, <1>2, <2>2 DEF TickToSqrtPrice
  <1>3. CASE t < 0
    BY <1>1, <1>3 DEF TickToSqrtPrice
  <1> QED BY <1>2, <1>3

(* A higher tick has no lower price. *)
LEMMA PriceGrows ==
    ASSUME NEW t \in Int, NEW u \in Int, t <= u
    PROVE  TickToSqrtPrice(t) <= TickToSqrtPrice(u)
  <1>1. Q96 \in Nat /\ TickScale \in Nat \ {0}
    BY ClPoolMathAssumption
  <1>2. CASE t >= 0
    <2>1. t * Q96 <= u * Q96 /\ t * Q96 \in Int /\ u * Q96 \in Int
      BY <1>1, TimesGrows
    <2>2. PICK x \in Int, y \in Int : x = (t * Q96) \div TickScale /\ y = (u * Q96) \div TickScale
      BY <1>1, <2>1
    <2>3. x <= y
      BY <1>1, <2>1, <2>2, DivGrows
    <2>4. TickToSqrtPrice(t) = Q96 + x /\ TickToSqrtPrice(u) = Q96 + y
      BY <1>2, <2>2 DEF TickToSqrtPrice
    <2> QED BY <1>1, <2>2, <2>3, <2>4
  <1>3. CASE t < 0
    <2>1. -t \in Nat /\ (-t) * Q96 \in Nat
      BY <1>1, <1>3, TimesNat
    <2>2. PICK x \in Nat : x = ((-t) * Q96) \div TickScale
      BY <1>1, <2>1, DivNat
    <2>3. TickToSqrtPrice(t) = IF 0 < Q96 - x THEN Q96 - x ELSE 0
      BY <1>1, <1>3, <2>2 DEF TickToSqrtPrice
    <2>4. CASE u >= 0
      <3>1. u * Q96 \in Nat
        BY <1>1, <2>4, TimesNat
      <3>2. PICK y \in Nat : y = (u * Q96) \div TickScale
        BY <1>1, <3>1, DivNat
      <3>3. TickToSqrtPrice(u) = Q96 + y
        BY <2>4, <3>2 DEF TickToSqrtPrice
      <3> QED BY <1>1, <2>2, <2>3, <3>2, <3>3
    <2>5. CASE u < 0
      <3>1. -u \in Nat /\ (-u) * Q96 \in Nat /\ (-u) * Q96 <= (-t) * Q96
        BY <1>1, <2>5, <2>1, TimesNat, TimesGrows
      <3>2. PICK y \in Nat : y = ((-u) * Q96) \div TickScale
        BY <1>1, <3>1, DivNat
      <3>3. y <= x
        BY <1>1, <2>1, <2>2, <3>1, <3>2, DivGrows
      <3>4. TickToSqrtPrice(u) = IF 0 < Q96 - y THEN Q96 - y ELSE 0
        BY <1>1, <2>5, <3>2 DEF TickToSqrtPrice
      <3> QED BY <1>1, <2>2, <2>3, <3>2, <3>3, <3>4
    <2> QED BY <2>4, <2>5
  <1> QED BY <1>2, <1>3

LEMMA FeeTyped == ASSUME NEW a \in Nat PROVE FeeOf(a) \in Nat
  <1>1. FeeTier \in Nat /\ FeeDenominator \in Nat \ {0}
    BY ClPoolMathAssumption
  <1>2. a * FeeTier \in Nat
    BY <1>1, TimesNat
  <1> QED BY <1>1, <1>2, DivNat DEF FeeOf

(* The amounts of a range that can be priced: a deposit never owes.        *)
LEMMA AmountsTyped ==
    ASSUME NEW liq \in Nat, NEW lower \in Int, NEW upper \in Int, lower <= upper,
           Priceable(lower), NEW price \in Nat
    PROVE  AmountsForLiquidity(liq, lower, upper, price) \in [Sides -> Nat]
  <1>1. Q96 \in Nat \ {0}
    BY ClPoolMathAssumption
  <1>2. PICK a \in Nat, b \in Nat : a = TickToSqrtPrice(lower) /\ b = TickToSqrtPrice(upper)
    BY PriceTyped
  <1>3. a > 0 /\ a <= b
    BY <1>2, PriceGrows DEF Priceable
  <1>4. PICK x : x = liq * Q96
    OBVIOUS
  <1>5. x \in Nat
    BY <1>1, <1>4, TimesNat
  <1>6. PICK y, z : y = x \div a /\ z = x \div b
    OBVIOUS
  <1>7. y \in Nat /\ z \in Nat /\ z <= y
    <2>1. a \in Nat \ {0} /\ b \in Nat \ {0}
      BY <1>2, <1>3
    <2>2. y \in Nat /\ z \in Nat
      BY <1>5, <1>6, <2>1, DivNat
    <2>3. z <= y
      BY <1>3, <1>5, <1>6, <2>1, DivShrinks
    <2> QED BY <2>2, <2>3
  <1>8. PICK q \in Nat : q = LET m == IF a < price THEN price ELSE a IN IF b < m THEN b ELSE m
    BY <1>2
  <1>9. q - a \in Nat
    BY <1>2, <1>3, <1>8
  <1>10. liq * (q - a) \in Nat
    BY <1>9, TimesNat
  <1>11. (liq * (q - a)) \div Q96 \in Nat
    BY <1>1, <1>10, DivNat
  <1>12. AmountsForLiquidity(liq, lower, upper, price)
           = [i \in 0..1 |-> IF i = 0 THEN y - z ELSE (liq * (q - a)) \div Q96]
    BY <1>2, <1>4, <1>6, <1>8 DEF AmountsForLiquidity
  <1>13. y - z \in Nat
    BY <1>7
  <1> QED BY <1>11, <1>12, <1>13 DEF Sides

LEMMA CeilNat ==
    ASSUME NEW n \in Nat, NEW d \in Nat \ {0}
    PROVE  (n + d - 1) \div d \in Nat
  <1>1. n + d - 1 \in Nat
    OBVIOUS
  <1> QED BY <1>1, DivNat

(* get_amount_0_delta and get_amount_1_delta: no divisor is zero. *)
LEMMA Delta0Typed ==
    ASSUME NEW p \in Nat, NEW q \in Nat, NEW liq \in Nat, NEW up \in BOOLEAN
    PROVE  GetAmount0Delta(p, q, liq, up) \in Nat
  <1>1. Q96 \in Nat \ {0}
    BY ClPoolMathAssumption
  <1>2. PICK lower \in Nat, upper \in Nat :
            /\ lower = IF p < q THEN p ELSE q
            /\ upper = IF p < q THEN q ELSE p
    OBVIOUS
  <1>3. PICK num : num = liq * (upper - lower)
    OBVIOUS
  <1>4. PICK h : h = IF 1 < upper \div Q96 THEN upper \div Q96 ELSE 1
    OBVIOUS
  <1>5. PICK den : den = h * lower
    OBVIOUS
  <1>6. num \in Nat
    <2>1. upper - lower \in Nat
      BY <1>2
    <2> QED BY <1>3, <2>1, TimesNat
  <1>7. h \in Nat \ {0}
    BY <1>1, <1>2, <1>4, DivNat
  <1>8. GetAmount0Delta(p, q, liq, up) =
          IF p = q \/ liq = 0 THEN 0
          ELSE IF lower = 0 THEN (liq * Q96) \div upper
          ELSE IF up THEN (num + den - 1) \div den ELSE num \div den
    BY <1>2, <1>3, <1>4, <1>5 DEF GetAmount0Delta
  <1>9. CASE p = q \/ liq = 0
    BY <1>8, <1>9
  <1>10. CASE p # q /\ liq # 0 /\ lower = 0
    <2>1. upper \in Nat \ {0} /\ liq * Q96 \in Nat
      BY <1>1, <1>2, <1>10, TimesNat
    <2> QED BY <1>8, <1>10, <2>1, DivNat
  <1>11. CASE p # q /\ liq # 0 /\ lower # 0
    <2>1. den \in Nat \ {0}
      <3>1. 1 * lower <= h * lower
        BY <1>7, TimesGrows
      <3> QED BY <1>2, <1>5, <1>7, <1>11, <3>1
    <2>2. num \div den \in Nat /\ (num + den - 1) \div den \in Nat
      BY <1>6, <2>1, DivNat, CeilNat
    <2> QED BY <1>8, <1>11, <2>2
  <1> QED BY <1>9, <1>10, <1>11

LEMMA Delta1Typed ==
    ASSUME NEW p \in Nat, NEW q \in Nat, NEW liq \in Nat, NEW up \in BOOLEAN
    PROVE  GetAmount1Delta(p, q, liq, up) \in Nat
  <1>1. Q96 \in Nat \ {0}
    BY ClPoolMathAssumption
  <1>2. PICK d \in Nat : d = (IF p < q THEN q ELSE p) - (IF p < q THEN p ELSE q)
    <2>1. CASE p < q
      <3>1. q - p \in Nat
        BY <2>1
      <3> QED BY <2>1, <3>1
    <2>2. CASE ~(p < q)
      <3>1. p - q \in Nat
        BY <2>2
      <3> QED BY <2>2, <3>1
    <2> QED BY <2>1, <2>2
  <1>3. PICK num \in Nat : num = liq * d
    BY TimesNat
  <1>4. num \div Q96 \in Nat /\ (num + Q96 - 1) \div Q96 \in Nat
    BY <1>1, DivNat, CeilNat
  <1>5. GetAmount1Delta(p, q, liq, up) = IF up THEN (num + Q96 - 1) \div Q96 ELSE num \div Q96
    BY <1>2, <1>3 DEF GetAmount1Delta
  <1> QED BY <1>4, <1>5

LEMMA TradeTyped ==
    ASSUME NEW p \in Nat, NEW q \in Nat, NEW liq \in Nat, NEW z \in BOOLEAN
    PROVE  AmountIn(p, q, liq, z) \in Nat /\ AmountOut(p, q, liq, z) \in Nat
  BY Delta0Typed, Delta1Typed DEF AmountIn, AmountOut

LEMMA NextPriceTyped ==
    ASSUME NEW p \in Nat, NEW liq \in Nat, NEW amount \in Nat, NEW z \in BOOLEAN
    PROVE  NextSqrtPriceFromInput(p, liq, amount, z) \in Nat
  <1>1. Q96 \in Nat \ {0}
    BY ClPoolMathAssumption
  <1>2. CASE liq = 0
    BY <1>2 DEF NextSqrtPriceFromInput
  <1>3. CASE liq # 0 /\ z
    <2>1. liq * p \in Nat /\ amount * p \in Nat
      BY TimesNat
    <2>2. PICK x \in Nat : x = (amount * p) \div Q96
      BY <1>1, <2>1, DivNat
    <2>3. liq + x \in Nat \ {0}
      BY <1>3
    <2>4. (liq * p) \div (liq + x) \in Nat
      BY <2>1, <2>3, DivNat
    <2> QED BY <1>3, <2>2, <2>4 DEF NextSqrtPriceFromInput
  <1>4. CASE liq # 0 /\ ~z
    <2>1. amount * Q96 \in Nat
      BY <1>1, TimesNat
    <2>2. (amount * Q96) \div liq \in Nat
      BY <1>4, <2>1, DivNat
    <2> QED BY <1>4, <2>2 DEF NextSqrtPriceFromInput
  <1> QED BY <1>2, <1>3, <1>4

LEMMA GrowthTyped ==
    ASSUME NEW amount \in Nat, NEW liq \in Nat
    PROVE  SegmentGrowth(amount, liq) \in Nat
  <1>1. FeeOf(amount) * Q96 \in Nat
    BY FeeTyped, TimesNat, ClPoolMathAssumption
  <1>2. CASE liq = 0
    BY <1>2 DEF SegmentGrowth
  <1>3. CASE liq # 0
    BY <1>1, <1>3, DivNat DEF SegmentGrowth
  <1> QED BY <1>2, <1>3

LEMMA TickTyped == ASSUME NEW p \in Nat PROVE SqrtPriceToTick(p) \in Int
  <1>1. Q96 \in Nat \ {0} /\ TickScale \in Nat
    BY ClPoolMathAssumption
  <1>2. /\ (p - Q96) * TickScale \in Int /\ (Q96 - p) * TickScale \in Int
    BY <1>1
  <1>3. /\ ((p - Q96) * TickScale) \div Q96 \in Int /\ ((Q96 - p) * TickScale) \div Q96 \in Int
    BY <1>1, <1>2
  <1> QED BY <1>3 DEF SqrtPriceToTick

(***************************************************************************)
(* The swap loop.  Each turn keeps the state of the loop in these types:   *)
(* what is left never goes below zero or above what the offer buys with,   *)
(* because a turn that needs more than is left ends the loop.              *)
(***************************************************************************)
SwapStates(offer) ==
    [left : 0..offer, price : Nat, tick : Int, liq : Nat, out : Nat, growth : Nat,
     crossed : Nat, status : {"go", "done", "panic"}]

(* What a turn reads of the book.                                          *)
BookReads ==
    /\ BitsFit(bitmap) /\ DOMAIN ticks \subseteq TickRange
    /\ \A t \in TickRange : BitSet(bitmap, t) <=> t \in DOMAIN ticks
    /\ \A t \in DOMAIN ticks : ticks[t].net \in Int

LEMMA SearchTyped ==
    ASSUME BookReads, NEW t \in Int, NEW z \in BOOLEAN,
           NEW next, next = NextInitializedTick(bitmap, t, z)
    PROVE  next.tick \in Int /\ next.initialized \in BOOLEAN
  <1>1. PICK T : T = DOMAIN ticks
    OBVIOUS
  <1>2. T \in SUBSET TickRange /\ \A u \in TickRange : BitSet(bitmap, u) <=> u \in T
    BY <1>1 DEF BookReads
  <1>3. next = NextOf(T, t, z)
    BY <1>2, SearchAnswers DEF BookReads
  <1>4. PICK side : side = {u \in T : Beyond(z, u, t)}
    OBVIOUS
  <1>5. next = IF side = {} THEN Missing(z) ELSE Found(NearestBit(side, z))
    BY <1>3, <1>4, AnswerCases
  <1>6. MinTick \in Int /\ MaxTick \in Int /\ side \subseteq MinTick..MaxTick
    BY <1>2, <1>4, TickBitmapAssumption DEF TickRange
  <1>7. CASE side = {}
    BY <1>5, <1>6, <1>7 DEF Missing
  <1>8. CASE side # {}
    <2>1. PICK m \in side : m = NearestBit(side, z)
      BY <1>6, <1>8, NearestExists
    <2>2. m \in Int /\ next = Found(m)
      BY <1>5, <1>6, <1>8, <2>1
    <2> QED BY <2>2 DEF Found
  <1> QED BY <1>7, <1>8

LEMMA PairExtremes ==
    ASSUME NEW a \in Int, NEW b \in Int,
           NEW S, a \in S, b \in S, \A x \in S : x = a \/ x = b
    PROVE  /\ Max(S) \in S /\ Max(S) >= a /\ Max(S) >= b
           /\ Min(S) \in S /\ Min(S) <= a /\ Min(S) <= b
  <1>1. PICK hi \in Int, lo \in Int : a <= hi /\ b <= hi /\ lo <= a /\ lo <= b
    <2>1. CASE a <= b
      BY <2>1
    <2>2. CASE b <= a
      BY <2>2
    <2> QED BY <2>1, <2>2
  <1>2. S \subseteq Int /\ S # {} /\ (\A x \in S : x <= hi) /\ (\A x \in S : lo <= x)
        /\ a \in S /\ b \in S
    BY <1>1
  <1>3. Max(S) \in S /\ Min(S) \in S /\ \A y \in S : y <= Max(S) /\ Min(S) <= y
    BY <1>1, <1>2, MaxExists, MinExists
  <1>4. Max(S) \in Int /\ Min(S) \in Int
    BY <1>2, <1>3
  <1> QED BY <1>2, <1>3, <1>4

LEMMA EndTyped ==
    ASSUME NEW next, next.tick \in Int, NEW limit \in Nat, NEW z \in BOOLEAN
    PROVE  SegmentEnd(next, limit, z) \in Nat
  <1>1. PICK t \in Int : t = IF next.initialized THEN next.tick ELSE IF z THEN MinTick ELSE MaxTick
    BY TickBitmapAssumption
  <1>2. PICK b \in Nat : b = TickToSqrtPrice(t)
    BY PriceTyped
  <1>3. Max({b, limit}) \in Nat /\ Min({b, limit}) \in Nat
    <2>1. PICK S : S = {b, limit}
      OBVIOUS
    <2>2. b \in S /\ limit \in S /\ \A x \in S : x = b \/ x = limit
      BY <2>1
    <2>3. Max(S) \in S /\ Min(S) \in S
      <3>1. b \in Int /\ limit \in Int
        OBVIOUS
      <3> QED BY <2>2, <3>1, PairExtremes, Zenon
    <2> QED BY <2>1, <2>2, <2>3
  <1>4. SegmentEnd(next, limit, z) = Clipped(b, limit, z)
    BY <1>1, <1>2 DEF SegmentEnd
  <1> QED BY <1>3, <1>4 DEF Clipped

LEMMA CrossTyped ==
    ASSUME BookReads, NEW liq \in Nat, NEW t \in Int, NEW z \in BOOLEAN
    PROVE  Crossed(liq, t, z) \in Nat
  <1>1. ReadTick(ticks, t).net \in Int
    BY DEF ReadTick, BookReads
  <1>2. PICK n \in Nat : n = Abs(ReadTick(ticks, t).net)
    BY <1>1 DEF Abs
  <1>3. Max({0, liq - n}) \in Nat
    <2>1. PICK x \in Int : x = liq - n
      OBVIOUS
    <2>2. PICK S : S = {0, x}
      OBVIOUS
    <2>3. 0 \in S /\ x \in S /\ \A y \in S : y = 0 \/ y = x
      BY <2>2
    <2>4. Max(S) \in S /\ Max(S) >= 0
      <3>1. 0 \in Int
        OBVIOUS
      <3> QED BY <2>3, <3>1, PairExtremes, Zenon
    <2> QED BY <2>1, <2>2, <2>3, <2>4
  <1> QED BY <1>2, <1>3 DEF Crossed

(* The fields of the loop's state after a turn.                            *)
LEMMA SegmentTyped ==
    ASSUME BookReads, NEW offer \in Nat, NEW s \in SwapStates(offer), NEW z \in BOOLEAN,
           NEW limit \in Nat
    PROVE  Segment(s, z, limit) \in SwapStates(offer)
  <1>1. /\ s.left \in 0..offer /\ s.price \in Nat /\ s.tick \in Int /\ s.liq \in Nat
        /\ s.out \in Nat /\ s.growth \in Nat /\ s.crossed \in Nat
        /\ s = [left |-> s.left, price |-> s.price, tick |-> s.tick, liq |-> s.liq, out |-> s.out,
                growth |-> s.growth, crossed |-> s.crossed, status |-> s.status]
    BY DEF SwapStates
  <1>2. PICK next : next = NextInitializedTick(bitmap, SearchFrom(s.tick, z), z)
    OBVIOUS
  <1>3. next.tick \in Int
    <2>1. SearchFrom(s.tick, z) \in Int
      BY <1>1 DEF SearchFrom
    <2> QED BY <1>2, <2>1, SearchTyped
  <1>4. PICK target \in Nat : target = SegmentEnd(next, limit, z)
    BY <1>3, EndTyped
  <1>5. PICK needed \in Nat, paid \in Nat :
            /\ needed = AmountIn(s.price, target, s.liq, z)
            /\ paid = AmountOut(s.price, target, s.liq, z)
    BY <1>1, TradeTyped
  <1>6. PICK grown \in Nat, grownPart \in Nat :
            /\ grown = SegmentGrowth(needed, s.liq) /\ grownPart = SegmentGrowth(s.left, s.liq)
    <2>1. s.left \in Nat
      BY <1>1
    <2> QED BY <1>1, <2>1, GrowthTyped
  <1>7. PICK part \in Nat :
            part = AmountOut(s.price, NextSqrtPriceFromInput(s.price, s.liq, s.left, z), s.liq, z)
    <2>1. s.left \in Nat
      BY <1>1
    <2>2. NextSqrtPriceFromInput(s.price, s.liq, s.left, z) \in Nat
      BY <1>1, <2>1, NextPriceTyped
    <2> QED BY <1>1, <2>2, TradeTyped
  <1>8. PICK liq \in Nat : liq = Crossed(s.liq, next.tick, z)
    BY <1>1, <1>3, CrossTyped
  <1>9. PICK r : r = Segment(s, z, limit)
    OBVIOUS
  <1>10. \/ r = [s EXCEPT !.status = "panic"]
         \/ r = [s EXCEPT !.left = 0, !.status = "done", !.out = @ + part, !.growth = @ + grownPart]
         \/ /\ ~(s.left < needed)
            /\ \E full : /\ full = [s EXCEPT !.left = @ - needed, !.price = target,
                                             !.out = @ + paid, !.growth = @ + grown]
                         /\ \/ r = [full EXCEPT !.status = "done"]
                            \/ \E st \in {"done", "go"} :
                                 r = [full EXCEPT !.liq = liq, !.tick = next.tick,
                                                  !.crossed = @ + 1, !.status = st]
    BY <1>2, <1>4, <1>5, <1>6, <1>7, <1>8, <1>9 DEF Segment
  <1>11. CASE r = [s EXCEPT !.status = "panic"]
    BY <1>9, <1>11 DEF SwapStates
  <1>12. CASE r = [s EXCEPT !.left = 0, !.status = "done", !.out = @ + part, !.growth = @ + grownPart]
    <2>1. 0 \in 0..offer /\ s.out + part \in Nat /\ s.growth + grownPart \in Nat
      BY <1>1
    <2>2. r = [left |-> 0, price |-> s.price, tick |-> s.tick, liq |-> s.liq, out |-> s.out + part,
               growth |-> s.growth + grownPart, crossed |-> s.crossed, status |-> "done"]
      BY <1>1, <1>12
    <2> QED BY <1>1, <1>9, <2>1, <2>2 DEF SwapStates
  <1>13. ASSUME ~(s.left < needed),
                NEW full, full = [s EXCEPT !.left = @ - needed, !.price = target,
                                           !.out = @ + paid, !.growth = @ + grown]
         PROVE  full \in SwapStates(offer)
    <2>1. s.left - needed \in 0..offer /\ s.out + paid \in Nat /\ s.growth + grown \in Nat
      BY <1>1, <1>13
    <2> QED BY <1>13, <2>1 DEF SwapStates
  <1>14. ASSUME NEW full \in SwapStates(offer),
                \/ r = [full EXCEPT !.status = "done"]
                \/ \E st \in {"done", "go"} :
                     r = [full EXCEPT !.liq = liq, !.tick = next.tick, !.crossed = @ + 1, !.status = st]
         PROVE  r \in SwapStates(offer)
    <2>1. full.crossed + 1 \in Nat
      BY DEF SwapStates
    <2> QED BY <1>3, <1>14, <2>1 DEF SwapStates
  <1> QED BY <1>9, <1>10, <1>11, <1>12, <1>13, <1>14

Begins(amountIn) ==
    [left |-> amountIn - FeeOf(amountIn), price |-> sqrtPrice, tick |-> currentTick,
     liq |-> liquidity, out |-> 0, growth |-> 0, crossed |-> 0, status |-> "go"]
Turned(s, z, limit) == IF s.status = "go" THEN Segment(s, z, limit) ELSE s
Loops(f, m, start, z, limit) ==
    f = [n \in 0..m |-> IF n = 0 THEN start ELSE Turned(f[n - 1], z, limit)]

LEMMA TradeUnfolds ==
    ASSUME NEW z, NEW amountIn, NEW limit, NEW m, m = MaxSwapIterations + 1
    PROVE  Traded(z, amountIn, limit) = (CHOOSE f : Loops(f, m, Begins(amountIn), z, limit))[m]
  BY DEF Traded, Loops, Turned, Begins

(* The loop's states exist for any number of turns: the least number for     *)
(* which they did not would have a turn before it.                           *)
LEMMA LoopExtends ==
    ASSUME NEW n \in Nat, NEW start, NEW z, NEW limit, NEW g, Loops(g, n, start, z, limit)
    PROVE  \E h : Loops(h, n + 1, start, z, limit)
  <1> DEFINE h == [k \in 0..(n + 1) |-> IF k = 0 THEN start ELSE Turned(g[k - 1], z, limit)]
  <1>1. \A k \in 0..n : h[k] = g[k]
    <2> TAKE k \in 0..n
    <2>1. k \in 0..(n + 1)
      OBVIOUS
    <2>2. g[k] = IF k = 0 THEN start ELSE Turned(g[k - 1], z, limit)
      BY DEF Loops
    <2> QED BY <2>1, <2>2
  <1>2. \A k \in 0..(n + 1) : k # 0 => k - 1 \in 0..n
    OBVIOUS
  <1>3. h = [k \in 0..(n + 1) |-> IF k = 0 THEN start ELSE Turned(h[k - 1], z, limit)]
    <2>1. \A k \in 0..(n + 1) : k # 0 => h[k - 1] = g[k - 1]
      BY <1>1, <1>2
    <2> HIDE DEF h
    <2>2. \A k \in 0..(n + 1) :
            (IF k = 0 THEN start ELSE Turned(g[k - 1], z, limit))
              = IF k = 0 THEN start ELSE Turned(h[k - 1], z, limit)
      BY <2>1
    <2>3. h = [k \in 0..(n + 1) |-> IF k = 0 THEN start ELSE Turned(g[k - 1], z, limit)]
      BY DEF h
    <2> QED BY <2>2, <2>3
  <1> QED BY <1>3 DEF Loops

LEMMA LoopExists ==
    ASSUME NEW m \in Nat, NEW start, NEW z, NEW limit
    PROVE  \E f : Loops(f, m, start, z, limit)
  <1> DEFINE Bad == {n \in Nat : ~ \E f : Loops(f, n, start, z, limit)}
  <1>1. CASE Bad # {}
    <2>1. PICK n \in Bad : \A k \in Bad : n <= k
      <3>1. Bad \subseteq Nat
        OBVIOUS
      <3> HIDE DEF Bad
      <3> QED BY <3>1, <1>1, LeastNatural
    <2>2. CASE n = 0
      <3>1. Loops([k \in 0..0 |-> start], 0, start, z, limit)
        BY DEF Loops
      <3> QED BY <2>2, <3>1
    <2>3. CASE n # 0
      <3>1. n - 1 \in Nat /\ n - 1 \notin Bad /\ (n - 1) + 1 = n
        BY <2>1, <2>3
      <3>2. PICK g : Loops(g, n - 1, start, z, limit)
        BY <3>1
      <3>3. \E h : Loops(h, (n - 1) + 1, start, z, limit)
        BY <3>1, <3>2, LoopExtends
      <3> QED BY <3>1, <3>3
    <2> QED BY <2>2, <2>3
  <1> QED BY <1>1

(* Whatever holds of the loop's first state and outlives a turn holds of the *)
(* state the loop ends in.                                                   *)
LEMMA LoopKeeps ==
    ASSUME NEW S, NEW z, NEW limit, NEW start \in S, NEW m \in Nat, NEW f,
           Loops(f, m, start, z, limit),
           \A s \in S : s.status = "go" => Segment(s, z, limit) \in S
    PROVE  f[m] \in S
  <1> DEFINE Bad == {n \in 0..m : f[n] \notin S}
  <1>0. \A n \in 0..m : f[n] = IF n = 0 THEN start ELSE Turned(f[n - 1], z, limit)
    BY DEF Loops
  <1>1. CASE Bad # {}
    <2>1. PICK n \in Bad : \A k \in Bad : n <= k
      <3>1. Bad \subseteq Nat
        OBVIOUS
      <3> HIDE DEF Bad
      <3> QED BY <3>1, <1>1, LeastNatural
    <2>2. CASE n = 0
      BY <1>0, <2>2
    <2>3. CASE n # 0
      <3>1. n - 1 \in 0..m /\ n - 1 \notin Bad
        BY <2>1, <2>3
      <3>2. f[n - 1] \in S
        BY <3>1
      <3>3. Turned(f[n - 1], z, limit) \in S
        BY <3>2 DEF Turned
      <3> QED BY <1>0, <2>3, <3>3
    <2> QED BY <2>2, <2>3
  <1>2. CASE Bad = {}
    <2>1. m \in 0..m
      OBVIOUS
    <2> QED BY <1>2, <2>1
  <1> QED BY <1>1, <1>2

LEMMA TradedKeeps ==
    ASSUME NEW S, NEW z, NEW limit, NEW amountIn, Begins(amountIn) \in S,
           \A s \in S : s.status = "go" => Segment(s, z, limit) \in S
    PROVE  Traded(z, amountIn, limit) \in S
  <1>1. PICK start \in S : start = Begins(amountIn)
    OBVIOUS
  <1>2. PICK m \in Nat : m = MaxSwapIterations + 1
    BY ClPoolAssumption
  <1>3. PICK f : Loops(f, m, start, z, limit) /\ Traded(z, amountIn, limit) = f[m]
    <2>1. Traded(z, amountIn, limit) = (CHOOSE f : Loops(f, m, start, z, limit))[m]
      BY <1>1, <1>2, TradeUnfolds
    <2>2. \E f : Loops(f, m, start, z, limit)
      BY LoopExists
    <2> QED BY <2>1, <2>2
  <1>4. f[m] \in S
    <2>1. Loops(f, m, start, z, limit)
      BY <1>3
    <2> QED BY <2>1, LoopKeeps, Zenon
  <1> QED BY <1>3, <1>4

LEMMA TradedTyped ==
    ASSUME BookReads, sqrtPrice \in Nat, currentTick \in Int, liquidity \in Nat,
           NEW z \in BOOLEAN, NEW limit \in Nat, NEW amountIn \in Nat,
           NEW offer \in Nat, offer = amountIn - FeeOf(amountIn)
    PROVE  Traded(z, amountIn, limit) \in SwapStates(offer)
  <1>1. PICK S : S = SwapStates(offer)
    OBVIOUS
  <1>2. Begins(amountIn) \in S
    BY <1>1 DEF Begins, SwapStates
  <1>3. \A s \in S : s.status = "go" => Segment(s, z, limit) \in S
    BY <1>1, SegmentTyped
  <1>4. Traded(z, amountIn, limit) \in S
    BY <1>2, <1>3, TradedKeeps
  <1> QED BY <1>1, <1>4

(***************************************************************************)
(* The types of the storage.  TypeOK is not inductive: a removal divides   *)
(* by the price of a position's lower tick, so a stored position has one   *)
(* that is not zero; a tick's entry has its two counters, whose values the *)
(* sums give; and a bit in the bitmap stands for a valid tick.             *)
(***************************************************************************)
StoredPositions ==
    [owner : Users, lower : TickRange, upper : TickRange, liquidity : Nat \ {0},
     inside : [Sides -> Nat], nft : Nat]
TokenRecords == [owner : Users, lower : TickRange, upper : TickRange, liquidity : Nat]

PoolTyped ==
    /\ sqrtPrice \in Nat /\ currentTick \in Int /\ liquidity \in Nat
    /\ feeGrowth \in [Sides -> Nat] /\ balance \in [Sides -> Nat]
PositionsTyped ==
    /\ nextPositionId <= MaxPositions
    /\ \A id \in DOMAIN positions :
          positions[id] \in StoredPositions /\ Priceable(positions[id].lower)
TicksShaped(tk) == \A t \in DOMAIN tk : \E g, n : tk[t] = [gross |-> g, net |-> n]
TokensTyped == \A t \in DOMAIN tokens : tokens[t] \in TokenRecords
OracleTyped ==
    /\ DOMAIN observations \subseteq Slots
    /\ writeIndex \in Slots /\ observationCount \in 0..BufferSize

TypeIInv ==
    PoolTyped /\ PositionsTyped /\ TicksShaped(ticks) /\ BitsFit(bitmap) /\ TokensTyped /\ OracleTyped
ClIInv == TokenInv /\ BookInv /\ SumInv /\ TypeIInv

LEMMA NetTyped ==
    ASSUME BookInv, SumInv
    PROVE  \A t \in DOMAIN ticks : ticks[t].gross \in Nat /\ ticks[t].net \in Int
  <1> TAKE t \in DOMAIN ticks
  <1>1. t \in TickRange /\ ReadTick(ticks, t) = ticks[t]
    BY DEF SumInv, ReadTick
  <1>2. StartSum(positions, t) \in Nat /\ EndSum(positions, t) \in Nat
    BY BookedSums DEF SumInv
  <1>3. /\ ticks[t].gross = StartSum(positions, t) + EndSum(positions, t)
        /\ ticks[t].net = StartSum(positions, t) - EndSum(positions, t)
    BY <1>1 DEF SumInv, SumsHold
  <1> QED BY <1>2, <1>3

LEMMA ReadsBook == BookInv /\ SumInv /\ TypeIInv => BookReads
  BY NetTyped DEF BookInv, Marks, SumInv, TypeIInv, BookReads

LEMMA TypesGive == ClIInv => TypeOK
  <1> SUFFICES ASSUME ClIInv PROVE TypeOK
    OBVIOUS
  <1>1. DOMAIN positions \subseteq PositionIds
    <2> SUFFICES ASSUME NEW id \in DOMAIN positions PROVE id \in PositionIds
      OBVIOUS
    <2>1. id \in Nat /\ id < nextPositionId /\ nextPositionId <= MaxPositions /\ nextPositionId \in Nat
      BY DEF ClIInv, TokenInv, IdsIssued, TypeIInv, PositionsTyped
    <2> QED BY <2>1, ClPoolAssumption DEF PositionIds
  <1>2. \A t \in DOMAIN ticks : ticks[t] \in [gross : Nat, net : Int]
    <2> TAKE t \in DOMAIN ticks
    <2>1. PICK g, n : ticks[t] = [gross |-> g, net |-> n]
      BY DEF ClIInv, TypeIInv, TicksShaped
    <2>2. ticks[t].gross \in Nat /\ ticks[t].net \in Int
      BY NetTyped DEF ClIInv
    <2>3. g \in Nat /\ n \in Int
      BY <2>1, <2>2
    <2> QED BY <2>1, <2>3
  <1>3. PoolTyped /\ PositionsTyped /\ TokensTyped /\ OracleTyped
        /\ nextPositionId \in Nat /\ nextTokenId \in Nat
        /\ DOMAIN ticks \subseteq TickRange
        /\ bitmap \in [Words -> SUBSET (0..(WordBits - 1))]
    BY DEF ClIInv, TypeIInv, TokenInv, IdsIssued, SumInv, BitsFit
  <1> QED
    BY <1>1, <1>2, <1>3
    DEF TypeOK, PoolTyped, PositionsTyped, StoredPositions, TokensTyped, TokenRecords, OracleTyped

LEMMA TypesInit == Init => TypeIInv
  <1> SUFFICES ASSUME Init PROVE TypeIInv
    OBVIOUS
  <1>1. PoolTyped
    <2>1. sqrtPrice \in Nat
      BY ClPoolAssumption DEF Init
    <2> QED BY <2>1, TickTyped DEF Init, PoolTyped
  <1>2. PositionsTyped /\ TicksShaped(ticks) /\ TokensTyped
    BY ClPoolAssumption DEF Init, PositionsTyped, TicksShaped, TokensTyped, Empty
  <1>3. BitsFit(bitmap)
    BY DEF Init, BitsFit, EmptyBitmap
  <1>4. OracleTyped
    BY BufferAssumption DEF Init, InitOracle, OracleTyped, Slots
  <1> QED BY <1>1, <1>2, <1>3, <1>4 DEF TypeIInv

LEMMA UpdateShaped ==
    ASSUME NEW tk, TicksShaped(tk), NEW t, NEW d, NEW upper
    PROVE  TicksShaped(UpdateTick(tk, t, d, upper))
  <1>1. PICK info : info = Moved(tk, t, d, upper)
    OBVIOUS
  <1>2. \E g, n : info = [gross |-> g, net |-> n]
    BY <1>1 DEF Moved
  <1>3. TicksShaped(Drop(tk, t)) /\ TicksShaped(Put(tk, t, info))
    BY <1>2 DEF Drop, Put, TicksShaped
  <1> QED BY <1>1, <1>3 DEF UpdateTick

LEMMA RangeShaped ==
    ASSUME NEW tk, TicksShaped(tk), NEW lower, NEW upper, NEW d
    PROVE  TicksShaped(MoveRange(tk, lower, upper, d))
  <1>1. PICK tn : tn = UpdateTick(tk, lower, d, FALSE)
    OBVIOUS
  <1>2. TicksShaped(tn)
    BY <1>1, UpdateShaped
  <1>3. TicksShaped(UpdateTick(tn, upper, d, TRUE))
    BY <1>2, UpdateShaped
  <1> QED BY <1>1, <1>3 DEF MoveRange

LEMMA PutTyped ==
    ASSUME NEW f, NEW S, \A x \in DOMAIN f : f[x] \in S, NEW k, NEW v \in S
    PROVE  \A x \in DOMAIN Put(f, k, v) : Put(f, k, v)[x] \in S
  BY DEF Put

LEMMA DropTyped ==
    ASSUME NEW f, NEW S, \A x \in DOMAIN f : f[x] \in S, NEW k
    PROVE  \A x \in DOMAIN Drop(f, k) : Drop(f, k)[x] \in S
  BY DEF Drop

LEMMA InsideTyped ==
    ASSUME PoolTyped, NEW lower, NEW upper
    PROVE  FeeGrowthInside(lower, upper) \in [Sides -> Nat]
  BY DEF FeeGrowthInside, PoolTyped

Priced == {p \in StoredPositions : Priceable(p.lower)}

LEMMA PricedIs == PositionsTyped <=>
    nextPositionId <= MaxPositions /\ \A id \in DOMAIN positions : positions[id] \in Priced
  BY DEF PositionsTyped, Priced

LEMMA TypesAdd ==
    ASSUME ClIInv, NEW u \in Users, NEW lower \in TickRange, NEW upper \in TickRange,
           NEW liq \in Liquidities, AddLiquidity(u, lower, upper, liq)
    PROVE  TypeIInv'
  <1>1. liq \in Nat \ {0} /\ lower \in Int /\ upper \in Int /\ lower < upper /\ Priceable(lower)
    BY ClPoolAssumption, TickPlace DEF AddLiquidity
  <1>2. PoolTyped /\ PositionsTyped /\ TicksShaped(ticks) /\ BitsFit(bitmap) /\ TokensTyped
        /\ OracleTyped /\ nextTokenId \in Nat /\ nextPositionId \in Nat
    BY DEF ClIInv, TypeIInv, TokenInv, IdsIssued
  <1>3. PICK amounts : amounts = AmountsForLiquidity(liq, lower, upper, sqrtPrice)
    OBVIOUS
  <1>4. amounts \in [Sides -> Nat]
    BY <1>1, <1>2, <1>3, AmountsTyped DEF PoolTyped
  <1>5. PICK p : p = NewPosition(u, lower, upper, liq)
    OBVIOUS
  <1>6. p \in Priced
    <2>1. PICK ins \in [Sides -> Nat] : ins = FeeGrowthInside(lower, upper)
      BY <1>2, InsideTyped
    <2>2. p = [owner |-> u, lower |-> lower, upper |-> upper, liquidity |-> liq,
               inside |-> ins, nft |-> nextTokenId]
      BY <1>5, <2>1 DEF NewPosition
    <2> QED BY <1>1, <1>2, <2>2 DEF Priced, StoredPositions
  <1>7. PoolTyped'
    <2>1. /\ balance' = [i \in Sides |-> balance[i] + amounts[i]]
          /\ liquidity' = IF InRange(currentTick, lower, upper) THEN liquidity + liq ELSE liquidity
          /\ UNCHANGED <<sqrtPrice, currentTick, feeGrowth>>
      BY <1>3 DEF AddLiquidity
    <2>2. balance' \in [Sides -> Nat]
      BY <1>2, <1>4, <2>1 DEF PoolTyped
    <2>3. liquidity' \in Nat
      BY <1>1, <1>2, <2>1 DEF PoolTyped
    <2> QED BY <1>2, <2>1, <2>2, <2>3 DEF PoolTyped
  <1>8. PositionsTyped'
    <2>1. positions' = Put(positions, nextPositionId, p) /\ nextPositionId' = nextPositionId + 1
          /\ nextPositionId < MaxPositions
      BY <1>5 DEF AddLiquidity
    <2>2. \A id \in DOMAIN positions' : positions'[id] \in Priced
      BY <1>2, <1>6, <2>1, PricedIs, PutTyped
    <2>3. nextPositionId' <= MaxPositions
      BY <1>2, <2>1, ClPoolAssumption
    <2> QED BY <2>2, <2>3 DEF PositionsTyped, Priced
  <1>9. TicksShaped(ticks)' /\ BitsFit(bitmap)'
    <2>1. TicksShaped(ticks') /\ BitsFit(bitmap')
      BY <1>2, RangeShaped, FlipRangeFits DEF AddLiquidity
    <2> QED BY <2>1 DEF TicksShaped, BitsFit
  <1>10. TokensTyped'
    <2>1. PICK m : m = Metadata(p.owner, p)
      OBVIOUS
    <2>2. m \in TokenRecords
      BY <1>6, <2>1 DEF Metadata, Priced, StoredPositions, TokenRecords
    <2>3. tokens' = Put(tokens, nextTokenId, m)
      BY <1>5, <2>1 DEF AddLiquidity, Minted
    <2> QED BY <1>2, <2>2, <2>3, PutTyped DEF TokensTyped
  <1>11. OracleTyped'
    BY <1>2 DEF AddLiquidity, oracleVars, OracleTyped
  <1> QED BY <1>7, <1>8, <1>9, <1>10, <1>11 DEF TypeIInv

(* What both removals leave of the pool, the ticks, the bitmap and the oracle. *)
LEMMA TypesTakeOut ==
    ASSUME ClIInv, NEW u, NEW id \in DOMAIN positions, NEW liq \in Nat, TakeOut(u, id, liq)
    PROVE  /\ PoolTyped' /\ TicksShaped(ticks)' /\ BitsFit(bitmap)' /\ OracleTyped'
           /\ nextPositionId' = nextPositionId
  <1>1. PoolTyped /\ PositionsTyped /\ TicksShaped(ticks) /\ BitsFit(bitmap) /\ OracleTyped
    BY DEF ClIInv, TypeIInv
  <1>2. PICK lower \in TickRange, upper \in TickRange :
            lower = positions[id].lower /\ upper = positions[id].upper /\ lower < upper
    BY DEF ClIInv, SumInv, Booked, Fits
  <1>3. PICK amounts : amounts = AmountsForLiquidity(liq, lower, upper, sqrtPrice)
    OBVIOUS
  <1>4. amounts \in [Sides -> Nat]
    <2>1. lower \in Int /\ upper \in Int /\ Priceable(lower) /\ lower <= upper
      BY <1>1, <1>2, TickPlace DEF PositionsTyped
    <2> QED BY <1>1, <1>3, <2>1, AmountsTyped DEF PoolTyped
  <1>5. /\ \A i \in Sides : amounts[i] <= balance[i]
        /\ balance' = [i \in Sides |-> balance[i] - amounts[i]]
        /\ liquidity' = IF InRange(currentTick, lower, upper)
                        THEN Max({0, liquidity - liq}) ELSE liquidity
        /\ UNCHANGED <<sqrtPrice, currentTick, feeGrowth, nextPositionId, oracleVars>>
    BY <1>2, <1>3 DEF TakeOut
  <1>6. balance' \in [Sides -> Nat]
    <2>1. \A i \in Sides : balance[i] - amounts[i] \in Nat
      BY <1>1, <1>4, <1>5 DEF PoolTyped
    <2> QED BY <1>5, <2>1
  <1>7. liquidity' \in Nat
    <2>1. PICK x \in Int : x = liquidity - liq
      BY <1>1 DEF PoolTyped
    <2>2. PICK S : S = {0, x}
      OBVIOUS
    <2>3. 0 \in S /\ x \in S /\ \A y \in S : y = 0 \/ y = x
      BY <2>2
    <2>4. Max(S) \in S /\ Max(S) >= 0
      <3>1. 0 \in Int
        OBVIOUS
      <3> QED BY <2>3, <3>1, PairExtremes, Zenon
    <2>5. Max({0, liquidity - liq}) \in Nat
      BY <2>1, <2>2, <2>3, <2>4
    <2> QED BY <1>1, <1>5, <2>5 DEF PoolTyped
  <1>8. PoolTyped'
    BY <1>1, <1>5, <1>6, <1>7 DEF PoolTyped
  <1>9. TicksShaped(ticks)' /\ BitsFit(bitmap)'
    <2>1. ticks' = MoveRange(ticks, lower, upper, -liq)
          /\ bitmap' = FlipRange(bitmap, ticks, lower, upper, -liq)
      BY <1>2 DEF TakeOut
    <2>2. TicksShaped(ticks') /\ BitsFit(bitmap')
      BY <1>1, <2>1, RangeShaped, FlipRangeFits
    <2> QED BY <2>2 DEF TicksShaped, BitsFit
  <1>10. OracleTyped'
    BY <1>1, <1>5 DEF oracleVars, OracleTyped
  <1> QED BY <1>5, <1>8, <1>9, <1>10

LEMMA TypesRemoveAll ==
    ASSUME ClIInv, NEW u, NEW id \in DOMAIN positions, RemoveAll(u, id)
    PROVE  TypeIInv'
  <1>1. positions[id].liquidity \in Nat
    BY DEF ClIInv, SumInv, Booked, Fits
  <1>2. PoolTyped' /\ TicksShaped(ticks)' /\ BitsFit(bitmap)' /\ OracleTyped'
        /\ nextPositionId' = nextPositionId
    BY <1>1, TypesTakeOut DEF RemoveAll
  <1>3. PositionsTyped'
    <2>1. \A x \in DOMAIN positions' : positions'[x] \in Priced
      BY PricedIs, DropTyped DEF RemoveAll, ClIInv, TypeIInv
    <2> QED BY <1>2, <2>1 DEF PositionsTyped, Priced, ClIInv, TypeIInv
  <1>4. TokensTyped'
    BY DropTyped DEF RemoveAll, TokensTyped, ClIInv, TypeIInv
  <1> QED BY <1>2, <1>3, <1>4 DEF TypeIInv

(* A position stored again. *)
LEMMA RewrittenTyped ==
    ASSUME NEW p \in Priced, NEW liq \in Nat \ {0}, NEW ins \in [Sides -> Nat]
    PROVE  Rewritten(p, liq, ins) \in Priced
  BY DEF Rewritten, Priced, StoredPositions

LEMMA TypesRemovePart ==
    ASSUME ClIInv, NEW u, NEW id \in DOMAIN positions, NEW liq \in Liquidities,
           RemovePart(u, id, liq)
    PROVE  TypeIInv'
  <1>1. liq \in Nat /\ positions[id].liquidity \in Nat /\ liq < positions[id].liquidity
    BY ClPoolAssumption DEF ClIInv, SumInv, Booked, Fits, RemovePart
  <1>2. PoolTyped' /\ TicksShaped(ticks)' /\ BitsFit(bitmap)' /\ OracleTyped'
        /\ nextPositionId' = nextPositionId
    BY <1>1, TypesTakeOut DEF RemovePart
  <1>3. PICK left : left = Rewritten(positions[id], positions[id].liquidity - liq,
                                     positions[id].inside)
    OBVIOUS
  <1>4. left \in Priced
    <2>1. positions[id] \in Priced /\ positions[id].inside \in [Sides -> Nat]
      BY PricedIs DEF ClIInv, TypeIInv, Priced, StoredPositions
    <2>2. positions[id].liquidity - liq \in Nat \ {0}
      BY <1>1
    <2> QED BY <1>3, <2>1, <2>2, RewrittenTyped
  <1>5. PositionsTyped'
    <2>1. positions' = Put(positions, id, left)
      BY <1>3 DEF RemovePart
    <2>2. \A x \in DOMAIN positions' : positions'[x] \in Priced
      BY <1>4, <2>1, PricedIs, PutTyped DEF ClIInv, TypeIInv
    <2> QED BY <1>2, <2>2 DEF PositionsTyped, Priced, ClIInv, TypeIInv
  <1>6. TokensTyped'
    <2>1. PICK m : m = Metadata(left.owner, left)
      OBVIOUS
    <2>2. m \in TokenRecords
      BY <1>4, <2>1 DEF Metadata, Priced, StoredPositions, TokenRecords
    <2>3. tokens' = Put(tokens, nextTokenId, m)
      BY <1>3, <2>1 DEF RemovePart, TokensAfterPart, Minted
    <2> QED BY <2>2, <2>3, PutTyped DEF TokensTyped, ClIInv, TypeIInv
  <1> QED BY <1>2, <1>5, <1>6 DEF TypeIInv

LEMMA TypesCollect ==
    ASSUME ClIInv, NEW u, NEW id \in DOMAIN positions, Collect(u, id)
    PROVE  TypeIInv'
  <1>1. PICK p : p = positions[id]
    OBVIOUS
  <1>2. p \in Priced /\ p.liquidity \in Nat \ {0} /\ p.inside \in [Sides -> Nat]
    BY <1>1, PricedIs DEF ClIInv, TypeIInv, Priced, StoredPositions
  <1>3. PICK ins \in [Sides -> Nat] : ins = FeeGrowthInside(p.lower, p.upper)
    BY InsideTyped DEF ClIInv, TypeIInv
  <1>4. PositionsTyped'
    <2>1. Settled(p) \in Priced
      BY <1>2, <1>3, RewrittenTyped DEF Settled
    <2>2. positions' = Put(positions, id, Settled(p)) /\ nextPositionId' = nextPositionId
      BY <1>1 DEF Collect
    <2>3. \A x \in DOMAIN positions' : positions'[x] \in Priced
      BY <2>1, <2>2, PricedIs, PutTyped DEF ClIInv, TypeIInv
    <2> QED BY <2>2, <2>3 DEF PositionsTyped, Priced, ClIInv, TypeIInv
  <1>5. PoolTyped'
    <2>1. \A i \in Sides : Owed(p)[i] \in Int
      <3> TAKE i \in Sides
      <3>1. Owed(p)[i] = ((ins[i] - p.inside[i]) * p.liquidity) \div Q96
        BY <1>3 DEF Owed
      <3>2. (ins[i] - p.inside[i]) * p.liquidity \in Int
        BY <1>2
      <3> QED BY <3>1, <3>2, ClPoolMathAssumption
    <2>2. \A i \in Sides : balance[i] - Owed(p)[i] \in Nat
      BY <1>1, <2>1 DEF Collect, ClIInv, TypeIInv, PoolTyped
    <2>3. balance' = [i \in Sides |-> balance[i] - Owed(p)[i]]
      BY <1>1 DEF Collect
    <2>4. balance' \in [Sides -> Nat]
      BY <2>2, <2>3
    <2> QED BY <2>4 DEF Collect, poolVars, ClIInv, TypeIInv, PoolTyped
  <1>6. UNCHANGED <<ticks, bitmap, tokens, oracleVars>>
    BY DEF Collect, nftVars
  <1> QED
    BY <1>4, <1>5, <1>6
    DEF ClIInv, TypeIInv, TicksShaped, BitsFit, TokensTyped, OracleTyped, oracleVars

LEMMA TypesUnchanged ==
    ASSUME ClIInv, UNCHANGED <<poolVars, bookVars, balance, tokens, oracleVars>>
    PROVE  TypeIInv'
  BY DEF ClIInv, TypeIInv, PoolTyped, PositionsTyped, TicksShaped, BitsFit, TokensTyped, OracleTyped,
         poolVars, bookVars, oracleVars

LEMMA TypesTransfer ==
    ASSUME ClIInv, NEW from, NEW to \in Users, NEW t \in DOMAIN tokens, TransferToken(from, to, t)
    PROVE  TypeIInv'
  <1>1. PICK m : m = Metadata(to, tokens[t])
    OBVIOUS
  <1>2. m \in TokenRecords
    BY <1>1 DEF Metadata, TokenRecords, ClIInv, TypeIInv, TokensTyped
  <1>3. tokens' = [tokens EXCEPT ![t] = m]
    BY <1>1 DEF TransferToken
  <1>4. TokensTyped'
    BY <1>2, <1>3 DEF TokensTyped, ClIInv, TypeIInv
  <1>5. UNCHANGED <<poolVars, bookVars, balance, oracleVars>>
    BY DEF TransferToken
  <1> QED
    BY <1>4, <1>5
    DEF ClIInv, TypeIInv, PoolTyped, PositionsTyped, TicksShaped, BitsFit, OracleTyped,
        poolVars, bookVars, oracleVars

(* The oracle's observation of a swap. *)
LEMMA OracleStep ==
    ASSUME OracleTyped, NEW price, Observed(price)
    PROVE  OracleTyped'
  <1>1. CASE oracle
    <2>1. /\ DOMAIN observations' = DOMAIN observations \cup {writeIndex}
          /\ writeIndex' = (writeIndex + 1) % BufferSize
          /\ observationCount' = Min({observationCount + 1, BufferSize})
      BY <1>1 DEF Observed, WriteObservation, NextSlot
    <2>2. writeIndex' \in Slots
      <3>1. writeIndex + 1 \in Int /\ BufferSize \in Nat \ {0}
        BY BufferAssumption DEF OracleTyped, Slots
      <3>2. (writeIndex + 1) % BufferSize \in 0..(BufferSize - 1)
        BY <3>1, DivParts
      <3> QED BY <2>1, <3>2 DEF Slots
    <2>3. observationCount' \in 0..BufferSize
      <3>1. PICK x \in Int : x = observationCount + 1 /\ 0 <= x
        BY BufferAssumption DEF OracleTyped
      <3>2. PICK S : S = {x, BufferSize}
        OBVIOUS
      <3>3. x \in S /\ BufferSize \in S /\ \A y \in S : y = x \/ y = BufferSize
        BY <3>2
      <3>4. BufferSize \in Int
        BY BufferAssumption
      <3>5. Min(S) \in S /\ Min(S) <= BufferSize
        BY <3>3, <3>4, PairExtremes, Zenon
      <3>6. observationCount' = Min(S)
        BY <2>1, <3>1, <3>2
      <3>7. PICK y : y = Min(S)
        OBVIOUS
      <3>8. y <= BufferSize /\ (y = x \/ y = BufferSize)
        BY <3>3, <3>5, <3>7
      <3> QED BY <3>1, <3>6, <3>7, <3>8, BufferAssumption
    <2> QED BY <2>1, <2>2, <2>3 DEF OracleTyped
  <1>2. CASE ~oracle
    BY <1>2 DEF Observed, oracleVars, OracleTyped
  <1> QED BY <1>1, <1>2

LEMMA TypesSwap ==
    ASSUME ClIInv, NEW z \in BOOLEAN, NEW amountIn \in AmountsIn, NEW limit \in PriceLimits,
           Swap(z, amountIn, limit)
    PROVE  TypeIInv'
  <1>1. amountIn \in Nat /\ limit \in Nat
    BY ClPoolAssumption
  <1>2. PICK fee \in Nat : fee = FeeOf(amountIn)
    BY <1>1, FeeTyped
  <1>3. PICK offer \in Nat : offer = amountIn - FeeOf(amountIn)
    BY <1>1, <1>2 DEF Swap
  <1>4. PICK r : r = Traded(z, amountIn, limit)
    OBVIOUS
  <1>5. r \in SwapStates(offer)
    BY <1>1, <1>3, <1>4, TradedTyped, ReadsBook DEF ClIInv, TypeIInv, PoolTyped
  <1>6. /\ r.left \in 0..offer /\ r.price \in Nat /\ r.liq \in Nat
        /\ r.out \in Nat /\ r.growth \in Nat
    BY <1>5 DEF SwapStates
  <1>7. PICK paid : paid = Charged(amountIn, r.left)
    OBVIOUS
  <1>8. paid \in Nat
    <2>1. PICK base \in Nat : base = amountIn - FeeOf(amountIn) - r.left
      BY <1>1, <1>2, <1>3, <1>6
    <2>2. FeeOf(base) \in Nat
      BY FeeTyped
    <2> QED BY <1>7, <2>1, <2>2 DEF Charged
  <1>9. PICK in \in Sides : in = IF z THEN 0 ELSE 1
    BY DEF Sides
  <1>10. /\ r.out <= balance[1 - in]
         /\ balance' = [balance EXCEPT ![in] = @ + paid, ![1 - in] = @ - r.out]
         /\ feeGrowth' = [feeGrowth EXCEPT ![in] = @ + r.growth]
         /\ sqrtPrice' = r.price
         /\ currentTick' = SqrtPriceToTick(r.price)
         /\ liquidity' = r.liq
         /\ Observed(r.price)
         /\ UNCHANGED <<bookVars, nftVars>>
    BY <1>4, <1>7, <1>9 DEF Swap
  <1>11. PoolTyped'
    <2>1. balance \in [Sides -> Nat] /\ feeGrowth \in [Sides -> Nat]
      BY DEF ClIInv, TypeIInv, PoolTyped
    <2>2. PICK out \in Sides : out = 1 - in /\ out # in
      BY DEF Sides
    <2>3. balance[in] + paid \in Nat /\ balance[out] - r.out \in Nat /\ feeGrowth[in] + r.growth \in Nat
      BY <1>6, <1>8, <1>10, <2>1, <2>2
    <2>4. balance' \in [Sides -> Nat] /\ feeGrowth' \in [Sides -> Nat]
      BY <1>10, <2>1, <2>2, <2>3
    <2> QED BY <1>6, <1>10, <2>4, TickTyped DEF PoolTyped
  <1>12. OracleTyped'
    BY <1>10, OracleStep DEF ClIInv, TypeIInv
  <1> QED
    BY <1>10, <1>11, <1>12
    DEF ClIInv, TypeIInv, PositionsTyped, TicksShaped, BitsFit, TokensTyped, bookVars, nftVars

LEMMA TypesStep == ClIInv /\ [Next]_vars => TypeIInv'
  <1> SUFFICES ASSUME ClIInv, [Next]_vars PROVE TypeIInv'
    OBVIOUS
  <1>1. CASE AddStep
    BY <1>1, TypesAdd DEF AddStep
  <1>2. CASE RemoveStep
    BY <1>2, TypesRemoveAll, TypesRemovePart DEF RemoveStep
  <1>3. CASE CollectStep
    BY <1>3, TypesCollect DEF CollectStep
  <1>4. CASE SwapStep
    BY <1>4, TypesSwap DEF SwapStep
  <1>5. CASE TransferStep
    BY <1>5, TypesTransfer DEF TransferStep
  <1>6. CASE SetOracle
    BY <1>6, TypesUnchanged DEF SetOracle, nftVars
  <1>7. CASE CloseLedger
    BY <1>7, TypesUnchanged DEF CloseLedger, nftVars
  <1>8. CASE UNCHANGED vars
    BY <1>8, TypesUnchanged DEF vars, nftVars
  <1> QED
    BY <1>1, <1>2, <1>3, <1>4, <1>5, <1>6, <1>7, <1>8 DEF Next

LEMMA ClInit == Init => ClIInv
  BY TokenInit, BookInit, SumInit, TypesInit DEF ClIInv
LEMMA ClStep == ClIInv /\ [Next]_vars => ClIInv'
  BY TokenStep, BookStep, SumStep, TypesStep DEF ClIInv

(* The search of the bitmap, with the bits of the ticks and the ticks of the *)
(* boundaries.                                                               *)
LEMMA SearchSound == ClIInv => SearchFindsBoundary
  <1> SUFFICES ASSUME ClIInv, NEW t \in MinTick..MaxTick, NEW lte \in BOOLEAN
               PROVE  NextInitializedTick(bitmap, t, lte) = NextOf(Boundaries, t, lte)
    BY DEF SearchFindsBoundary
  <1>1. PICK T : T = Boundaries
    OBVIOUS
  <1>2. DOMAIN ticks = T
    BY <1>1, SumInvGives DEF ClIInv, TicksAreSums
  <1>3. T \in SUBSET TickRange /\ (\A u \in TickRange : BitSet(bitmap, u) <=> u \in T)
        /\ BitsFit(bitmap)
    BY <1>2, ReadsBook DEF ClIInv, BookReads
  <1>4. t \in Int
    BY TickBitmapAssumption
  <1> QED BY <1>1, <1>3, <1>4, SearchAnswers

(* The storage keeps its types over every call, the swap's loop included;    *)
(* the ticks are the sums over the positions; and the search a swap makes,   *)
(* over words and negative ticks, answers the nearest boundary of one        *)
(* (lib.rs of cl-pool, tick_bitmap.rs), for any spacing, word, prices,       *)
(* amounts, users and any sequence of calls.                                 *)
THEOREM BooksSound == Spec => []BooksAgree
  <1>1. ClIInv => BooksAgree
    BY TypesGive, SumInvGives, SearchSound DEF BooksAgree, ClIInv
  <1> QED
    BY <1>1, ClInit, ClStep, PTL DEF Spec

(***************************************************************************)
(* What a swap charges.  While all of the offer is left nothing has been   *)
(* paid out, but at price zero; and a loop that goes on from price zero    *)
(* stays there, because no limit holds it and lower ticks are cheaper.     *)
(***************************************************************************)
LEMMA TimesPositive ==
    ASSUME NEW a \in Nat \ {0}, NEW n \in Nat \ {0}
    PROVE  a * n \in Nat \ {0}
  <1>1. 1 * n <= a * n /\ a * n \in Int
    BY TimesGrows
  <1> QED BY <1>1

LEMMA CeilPositive ==
    ASSUME NEW n \in Nat \ {0}, NEW d \in Nat \ {0}
    PROVE  (n + d - 1) \div d # 0
  <1>1. PICK x \in Int : x = n + d - 1
    OBVIOUS
  <1>2. 1 * d <= x
    BY <1>1
  <1>3. 1 <= x \div d
    BY <1>2, FitsIn
  <1> QED BY <1>1, <1>3

(* A move of the price costs something, but one down to zero or up from it. *)
LEMMA MoveCosts ==
    ASSUME NEW p \in Nat, NEW q \in Nat, NEW liq \in Nat, NEW z \in BOOLEAN,
           AmountIn(p, q, liq, z) = 0, AmountOut(p, q, liq, z) # 0
    PROVE  z /\ (p = 0 \/ q = 0)
  <1>1. Q96 \in Nat \ {0}
    BY ClPoolMathAssumption
  <1>2. p # q
    <2>1. CASE p = q
      <3>1. GetAmount0Delta(p, q, liq, FALSE) = 0
        BY <2>1 DEF GetAmount0Delta
      <3>2. GetAmount1Delta(p, q, liq, FALSE) = 0
        <4>1. liq * 0 = 0
          OBVIOUS
        <4>2. GetAmount1Delta(p, q, liq, FALSE) = (liq * (p - p)) \div Q96
          BY <2>1 DEF GetAmount1Delta
        <4>3. p - p = 0
          OBVIOUS
        <4>4. 0 \in 0..(Q96 - 1) /\ 0 * Q96 + 0 = 0
          BY <1>1
        <4>5. (0 * Q96 + 0) \div Q96 = 0
          BY <1>1, <4>4, DivUnique
        <4> QED BY <4>1, <4>2, <4>3, <4>4, <4>5
      <3> QED BY <3>1, <3>2 DEF AmountOut
    <2> QED BY <2>1
  <1>3. liq # 0
    <2>1. CASE liq = 0
      <3>1. GetAmount0Delta(p, q, liq, FALSE) = 0
        BY <2>1 DEF GetAmount0Delta
      <3>2. GetAmount1Delta(p, q, liq, FALSE) = 0
        <4>1. PICK d \in Int : d = (IF p < q THEN q ELSE p) - (IF p < q THEN p ELSE q)
          OBVIOUS
        <4>2. GetAmount1Delta(p, q, liq, FALSE) = (0 * d) \div Q96
          BY <2>1, <4>1 DEF GetAmount1Delta
        <4>3. 0 * d = 0 /\ 0 \in 0..(Q96 - 1) /\ 0 * Q96 + 0 = 0
          BY <1>1
        <4>4. (0 * Q96 + 0) \div Q96 = 0
          BY <1>1, <4>3, DivUnique
        <4> QED BY <4>2, <4>3, <4>4
      <3> QED BY <3>1, <3>2 DEF AmountOut
    <2> QED BY <2>1
  <1>4. PICK d \in Nat \ {0} : d = (IF p < q THEN q ELSE p) - (IF p < q THEN p ELSE q)
    <2>1. CASE p < q
      <3>1. q - p \in Nat \ {0}
        BY <2>1
      <3> QED BY <2>1, <3>1
    <2>2. CASE q < p
      <3>1. p - q \in Nat \ {0} /\ ~(p < q)
        BY <2>2
      <3> QED BY <3>1
    <2> QED BY <1>2, <2>1, <2>2
  <1>5. PICK num \in Nat \ {0} : num = liq * d
    BY <1>3, TimesPositive
  <1>6. z
    <2>1. CASE ~z
      <3>1. AmountIn(p, q, liq, z) = (num + Q96 - 1) \div Q96
        BY <1>4, <1>5, <2>1 DEF AmountIn, GetAmount1Delta
      <3> QED BY <1>1, <3>1, CeilPositive
    <2> QED BY <2>1
  <1>7. p = 0 \/ q = 0
    <2>1. CASE p # 0 /\ q # 0
      <3>1. PICK lower \in Nat \ {0}, upper \in Nat \ {0} :
                lower = (IF p < q THEN p ELSE q) /\ upper = (IF p < q THEN q ELSE p)
        BY <2>1
      <3>2. PICK h : h = IF 1 < upper \div Q96 THEN upper \div Q96 ELSE 1
        OBVIOUS
      <3>3. h \in Nat \ {0}
        BY <1>1, <3>1, <3>2, DivNat
      <3>4. PICK den \in Nat \ {0} : den = h * lower
        BY <3>1, <3>3, TimesPositive
      <3>5. AmountIn(p, q, liq, z) = (num + den - 1) \div den
        BY <1>2, <1>3, <1>4, <1>5, <1>6, <3>1, <3>2, <3>4 DEF AmountIn, GetAmount0Delta
      <3> QED BY <3>4, <3>5, CeilPositive
    <2> QED BY <2>1
  <1> QED BY <1>6, <1>7

(* Where the search leads downwards. *)
LEMMA SearchDown ==
    ASSUME BookReads, NEW t \in Int, NEW next, next = NextInitializedTick(bitmap, t, TRUE),
           next.initialized = TRUE
    PROVE  next.tick \in TickRange /\ next.tick <= t
  <1>1. PICK T : T = DOMAIN ticks
    OBVIOUS
  <1>2. T \in SUBSET TickRange /\ \A u \in TickRange : BitSet(bitmap, u) <=> u \in T
    BY <1>1 DEF BookReads
  <1>3. next = NextOf(T, t, TRUE)
    BY <1>2, SearchAnswers DEF BookReads
  <1>4. PICK side : side = {u \in T : Beyond(TRUE, u, t)}
    OBVIOUS
  <1>5. next = IF side = {} THEN Missing(TRUE) ELSE Found(NearestBit(side, TRUE))
    BY <1>3, <1>4, AnswerCases
  <1>6. MinTick \in Int /\ MaxTick \in Int /\ side \subseteq MinTick..MaxTick
    BY <1>2, <1>4, TickBitmapAssumption DEF TickRange
  <1>7. side # {}
    <2>1. Missing(TRUE).initialized = FALSE
      BY DEF Missing
    <2> QED BY <1>5, <2>1
  <1>8. PICK m \in side : m = NearestBit(side, TRUE)
    BY <1>6, <1>7, NearestExists
  <1>9. next.tick = m
    <2>1. next = Found(m)
      BY <1>5, <1>7, <1>8
    <2>2. Found(m).tick = m
      BY DEF Found
    <2> QED BY <2>1, <2>2, Zenon
  <1> QED BY <1>2, <1>4, <1>8, <1>9 DEF Beyond

(* The states of a loop that has given nothing away. *)
FairStates(offer, z, limit) ==
    {s \in SwapStates(offer) :
        /\ s.left = offer => s.out = 0 \/ (z /\ s.price = 0)
        /\ z /\ s.price = 0 /\ s.status = "go" =>
              limit = 0 /\ s.tick \in TickRange /\ TickToSqrtPrice(s.tick) = 0}

LEMMA ZeroStays ==
    ASSUME BookReads, NEW limit, limit = 0, NEW t \in TickRange, TickToSqrtPrice(t) = 0,
           NEW next, next = NextInitializedTick(bitmap, t - 1, TRUE)
    PROVE  SegmentEnd(next, limit, TRUE) = 0
  <1>1. t \in Int /\ MinTick \in Int /\ MinTick <= t
    BY TickBitmapAssumption DEF TickRange
  <1>2. t - 1 \in Int /\ TRUE \in BOOLEAN
    BY <1>1
  <1>3. next.initialized \in BOOLEAN
    BY <1>2, SearchTyped
  <1>4. PICK u \in Int : u = (IF next.initialized THEN next.tick ELSE MinTick) /\ u <= t
    <2>1. CASE next.initialized = TRUE
      <3>1. next.tick \in TickRange /\ next.tick <= t - 1
        BY <1>2, <2>1, SearchDown
      <3>2. next.tick \in Int
        BY <3>1, TickPlace
      <3>3. PICK n \in Int : n = next.tick
        BY <3>2
      <3>4. n <= t
        <4>1. n <= t - 1
          BY <3>1, <3>3, Zenon
        <4> QED BY <1>1, <4>1
      <3>5. n = IF next.initialized THEN next.tick ELSE MinTick
        BY <2>1, <3>3
      <3> QED BY <3>4, <3>5
    <2>2. CASE next.initialized = FALSE
      BY <1>1, <2>2
    <2> QED BY <1>3, <2>1, <2>2
  <1>5. TickToSqrtPrice(u) = 0
    <2>1. TickToSqrtPrice(u) \in Nat /\ TickToSqrtPrice(u) <= TickToSqrtPrice(t)
      BY <1>1, <1>4, PriceTyped, PriceGrows
    <2> QED BY <2>1
  <1>6. SegmentEnd(next, limit, TRUE) = Max({0, 0})
    BY <1>4, <1>5 DEF SegmentEnd, Clipped
  <1>7. PICK S : S = {0, 0}
    OBVIOUS
  <1>8. Max(S) = 0
    <2>1. 0 \in S /\ \A y \in S : y = 0 \/ y = 0
      BY <1>7
    <2>2. Max(S) \in S
      <3>1. 0 \in Int
        OBVIOUS
      <3> QED BY <2>1, <3>1, PairExtremes, Zenon
    <2> QED BY <2>1, <2>2
  <1> QED BY <1>6, <1>7, <1>8

LEMMA SegmentFair ==
    ASSUME BookReads, NEW offer \in Nat \ {0}, NEW z \in BOOLEAN, NEW limit \in Nat,
           NEW s \in FairStates(offer, z, limit), s.status = "go"
    PROVE  Segment(s, z, limit) \in FairStates(offer, z, limit)
  <1>1. /\ s \in SwapStates(offer)
        /\ s.left \in 0..offer /\ s.price \in Nat /\ s.tick \in Int /\ s.liq \in Nat
        /\ s.out \in Nat /\ s.growth \in Nat /\ s.crossed \in Nat
        /\ s = [left |-> s.left, price |-> s.price, tick |-> s.tick, liq |-> s.liq, out |-> s.out,
                growth |-> s.growth, crossed |-> s.crossed, status |-> s.status]
    BY DEF FairStates, SwapStates
  <1>2. PICK r : r = Segment(s, z, limit)
    OBVIOUS
  <1>3. r \in SwapStates(offer)
    BY <1>1, <1>2, SegmentTyped
  <1>4. PICK next : next = NextInitializedTick(bitmap, SearchFrom(s.tick, z), z)
    OBVIOUS
  <1>5. SearchFrom(s.tick, z) \in Int /\ next.tick \in Int /\ next.initialized \in BOOLEAN
    <2>1. SearchFrom(s.tick, z) \in Int
      BY <1>1 DEF SearchFrom
    <2> QED BY <1>4, <2>1, SearchTyped
  <1>6. PICK target \in Nat : target = SegmentEnd(next, limit, z)
    BY <1>5, EndTyped
  <1>7. PICK needed \in Nat, paid \in Nat :
            /\ needed = AmountIn(s.price, target, s.liq, z)
            /\ paid = AmountOut(s.price, target, s.liq, z)
    BY <1>1, TradeTyped
  (* A move that costs nothing pays nothing, or ends at price zero. *)
  <1>8. z /\ s.price = 0 => target = 0
    <2> HAVE z /\ s.price = 0
    <2>1. limit = 0 /\ s.tick \in TickRange /\ TickToSqrtPrice(s.tick) = 0
      BY DEF FairStates
    <2>2. PICK t : t = s.tick
      OBVIOUS
    <2>3. z = TRUE /\ next = NextInitializedTick(bitmap, t - 1, TRUE)
      BY <1>4, <2>2 DEF SearchFrom
    <2> QED BY <1>6, <2>1, <2>2, <2>3, ZeroStays
  <1>9. ASSUME needed = 0, paid # 0 PROVE z /\ target = 0
    <2>1. PICK p \in Nat, liq \in Nat : p = s.price /\ liq = s.liq
      BY <1>1
    <2>2. AmountIn(p, target, liq, z) = 0 /\ AmountOut(p, target, liq, z) # 0
      BY <1>7, <1>9, <2>1
    <2>3. z /\ (p = 0 \/ target = 0)
      BY <2>2, MoveCosts
    <2> QED BY <1>8, <2>1, <2>3
  (* A target of zero is the caller's limit and the next tick's price. *)
  <1>10. z /\ target = 0 /\ next.initialized = TRUE =>
             limit = 0 /\ next.tick \in TickRange /\ TickToSqrtPrice(next.tick) = 0
    <2> HAVE z /\ target = 0 /\ next.initialized = TRUE
    <2>1. next.tick \in TickRange
      BY <1>4, <1>5, SearchDown
    <2>2. PICK b \in Nat : b = TickToSqrtPrice(next.tick)
      BY <1>5, PriceTyped
    <2>3. target = Max({b, limit})
      BY <1>6, <2>2 DEF SegmentEnd, Clipped
    <2>4. PICK S : S = {b, limit}
      OBVIOUS
    <2>5. b \in S /\ limit \in S /\ \A x \in S : x = b \/ x = limit
      BY <2>4
    <2>6. Max(S) >= b /\ Max(S) >= limit
      <3>1. b \in Int /\ limit \in Int
        OBVIOUS
      <3> QED BY <2>5, <3>1, PairExtremes, Zenon
    <2>7. b = 0 /\ limit = 0
      <3>1. Max(S) = 0
        BY <2>3, <2>4
      <3> QED BY <2>6, <3>1
    <2> QED BY <2>1, <2>2, <2>7
  <1>11. \/ r = [s EXCEPT !.status = "panic"]
         \/ r.left = 0 /\ r.status = "done"
         \/ \E full : /\ full = [s EXCEPT !.left = @ - needed, !.price = target,
                                          !.out = @ + paid, !.growth = @ + SegmentGrowth(needed, s.liq)]
                      /\ \/ r = [full EXCEPT !.status = "done"]
                         \/ /\ next.initialized = TRUE
                            /\ \E st, liq :
                                 r = [full EXCEPT !.liq = liq, !.tick = next.tick,
                                                  !.crossed = @ + 1, !.status = st]
    <2>1. PICK full : full = [s EXCEPT !.left = @ - needed, !.price = target,
                                !.out = @ + paid, !.growth = @ + SegmentGrowth(needed, s.liq)]
      OBVIOUS
    <2>2. \/ r = [s EXCEPT !.status = "panic"]
          \/ \E o, g : r = [s EXCEPT !.left = 0, !.status = "done", !.out = o, !.growth = g]
          \/ r = [full EXCEPT !.status = "done"]
          \/ /\ next.initialized
             /\ \E st, liq :
                  r = [full EXCEPT !.liq = liq, !.tick = next.tick, !.crossed = @ + 1, !.status = st]
      BY <1>2, <1>4, <1>6, <1>7, <2>1 DEF Segment
    <2>3. ASSUME NEW o, NEW g, r = [s EXCEPT !.left = 0, !.status = "done", !.out = o, !.growth = g]
          PROVE  r.left = 0 /\ r.status = "done"
      BY <1>1, <2>3
    <2>4. CASE \E o, g : r = [s EXCEPT !.left = 0, !.status = "done", !.out = o, !.growth = g]
      BY <2>3, <2>4
    <2>5. CASE r = [full EXCEPT !.status = "done"]
      BY <2>1, <2>5
    <2>6. CASE /\ next.initialized
               /\ \E st, liq :
                    r = [full EXCEPT !.liq = liq, !.tick = next.tick, !.crossed = @ + 1, !.status = st]
      <3>1. next.initialized = TRUE
        BY <1>5, <2>6
      <3>2. PICK st, liq :
                r = [full EXCEPT !.liq = liq, !.tick = next.tick, !.crossed = @ + 1, !.status = st]
        BY <2>6
      <3> QED BY <2>1, <3>1, <3>2
    <2> QED BY <2>2, <2>4, <2>5, <2>6
  <1>12. CASE r = [s EXCEPT !.status = "panic"]
    <2>1. r.left = s.left /\ r.out = s.out /\ r.price = s.price /\ r.status = "panic"
      BY <1>1, <1>12
    <2> QED BY <1>2, <1>3, <2>1 DEF FairStates
  <1>13. CASE r.left = 0 /\ r.status = "done"
    BY <1>2, <1>3, <1>13 DEF FairStates
  <1>14. ASSUME NEW full, full = [s EXCEPT !.left = @ - needed, !.price = target,
                                    !.out = @ + paid, !.growth = @ + SegmentGrowth(needed, s.liq)]
         PROVE  /\ full.price = target /\ full.left = s.left - needed /\ full.out = s.out + paid
                /\ full.left = offer => full.out = 0 \/ (z /\ target = 0)
                /\ full = [left |-> full.left, price |-> full.price, tick |-> full.tick,
                           liq |-> full.liq, out |-> full.out, growth |-> full.growth,
                           crossed |-> full.crossed, status |-> full.status]
    <2>1. /\ full.price = target /\ full.left = s.left - needed /\ full.out = s.out + paid
          /\ full = [left |-> full.left, price |-> full.price, tick |-> full.tick,
                     liq |-> full.liq, out |-> full.out, growth |-> full.growth,
                     crossed |-> full.crossed, status |-> full.status]
      BY <1>1, <1>14
    <2>2. full.left = offer => s.left = offer /\ needed = 0
      BY <1>1, <2>1
    <2>3. s.left = offer => s.out = 0 \/ (z /\ s.price = 0)
      BY DEF FairStates
    <2>4. full.left = offer => full.out = 0 \/ (z /\ target = 0)
      <3> SUFFICES ASSUME full.left = offer PROVE full.out = 0 \/ (z /\ target = 0)
        OBVIOUS
      <3>1. CASE s.out = 0 /\ paid = 0
        <4>1. full.out = 0
          BY <2>1, <3>1
        <4> QED BY <4>1
      <3>2. CASE paid # 0
        BY <1>9, <2>2, <3>2
      <3>3. CASE s.out # 0
        BY <1>8, <2>2, <2>3, <3>3
      <3> QED BY <3>1, <3>2, <3>3
    <2> QED BY <2>1, <2>4
  <1>15. ASSUME NEW full, full = [s EXCEPT !.left = @ - needed, !.price = target,
                                    !.out = @ + paid, !.growth = @ + SegmentGrowth(needed, s.liq)],
                r = [full EXCEPT !.status = "done"]
         PROVE  r \in FairStates(offer, z, limit)
    <2>1. r.left = full.left /\ r.out = full.out /\ r.price = full.price /\ r.status = "done"
      BY <1>14, <1>15
    <2>2. r.left = offer => r.out = 0 \/ (z /\ r.price = 0)
      BY <1>14, <1>15, <2>1
    <2> QED BY <1>3, <2>1, <2>2 DEF FairStates
  <1>16. ASSUME NEW full, full = [s EXCEPT !.left = @ - needed, !.price = target,
                                    !.out = @ + paid, !.growth = @ + SegmentGrowth(needed, s.liq)],
                next.initialized = TRUE, NEW st, NEW liq,
                r = [full EXCEPT !.liq = liq, !.tick = next.tick, !.crossed = @ + 1, !.status = st]
         PROVE  r \in FairStates(offer, z, limit)
    <2>1. r.left = full.left /\ r.out = full.out /\ r.price = full.price /\ r.tick = next.tick
      BY <1>14, <1>16
    <2>2. z /\ r.price = 0 => limit = 0 /\ r.tick \in TickRange /\ TickToSqrtPrice(r.tick) = 0
      BY <1>10, <1>14, <1>16, <2>1
    <2>3. r.left = offer => r.out = 0 \/ (z /\ r.price = 0)
      BY <1>14, <1>16, <2>1
    <2> QED BY <1>3, <2>2, <2>3 DEF FairStates
  <1> QED BY <1>2, <1>11, <1>12, <1>13, <1>15, <1>16

(* The fee grows with the amount and is at most the amount's. *)
LEMMA FeeGrows ==
    ASSUME NEW a \in Nat, NEW b \in Nat, a <= b
    PROVE  FeeOf(a) <= FeeOf(b)
  <1>1. FeeTier \in Nat /\ FeeDenominator \in Nat \ {0}
    BY ClPoolMathAssumption
  <1>2. a \in Int /\ b \in Int
    OBVIOUS
  <1>3. a * FeeTier <= b * FeeTier
    BY <1>1, <1>2, TimesGrows
  <1>4. PICK x \in Int, y \in Int : x = a * FeeTier /\ y = b * FeeTier
    BY <1>1
  <1>5. x \div FeeDenominator <= y \div FeeDenominator
    BY <1>1, <1>3, <1>4, DivGrows
  <1> QED BY <1>4, <1>5 DEF FeeOf

LEMMA ChargedWithin ==
    ASSUME NEW amountIn \in Nat, NEW offer \in Nat, offer = amountIn - FeeOf(amountIn),
           NEW left \in 0..offer
    PROVE  /\ Charged(amountIn, left) \in 0..amountIn
           /\ Charged(amountIn, left) = 0 => left = offer
  <1>1. PICK fee \in Nat : fee = FeeOf(amountIn)
    BY FeeTyped
  <1>2. PICK base \in Nat : base = offer - left /\ base <= amountIn
    BY <1>1
  <1>3. PICK own \in Nat : own = FeeOf(base) /\ own <= fee
    <2>1. FeeOf(base) \in Nat
      BY FeeTyped
    <2>2. FeeOf(base) <= FeeOf(amountIn)
      BY <1>2, FeeGrows
    <2> QED BY <1>1, <2>1, <2>2
  <1>4. Charged(amountIn, left) = base + own
    BY <1>2, <1>3 DEF Charged
  <1> QED BY <1>1, <1>2, <1>3, <1>4

LEMMA ChargeKeeps ==
    ASSUME ClIInv, NEW z \in BOOLEAN, NEW amountIn \in AmountsIn, NEW limit \in PriceLimits,
           Swap(z, amountIn, limit), NEW in, in = IF z THEN 0 ELSE 1
    PROVE  /\ 0 <= balance'[in] - balance[in]
           /\ balance'[in] - balance[in] <= amountIn
           /\ balance'[in] - balance[in] = 0 /\ sqrtPrice # 0 /\ sqrtPrice' # 0
                 => balance'[1 - in] = balance[1 - in]
  <1>1. amountIn \in Nat /\ limit \in Nat
    BY ClPoolAssumption
  <1>2. PICK offer \in Nat \ {0} : offer = amountIn - FeeOf(amountIn)
    <2>1. FeeOf(amountIn) \in Nat
      BY <1>1, FeeTyped
    <2> QED BY <1>1, <2>1 DEF Swap
  <1>3. PICK r : r = Traded(z, amountIn, limit)
    OBVIOUS
  <1>4. BookReads /\ sqrtPrice \in Nat /\ currentTick \in Int /\ liquidity \in Nat
    BY ReadsBook DEF ClIInv, TypeIInv, PoolTyped
  <1>5. r \in SwapStates(offer)
    BY <1>1, <1>2, <1>3, <1>4, TradedTyped
  <1>6. r.left \in 0..offer /\ r.out \in Nat
    BY <1>5 DEF SwapStates
  <1>7. in \in {0, 1} /\ 1 - in \in {0, 1} /\ 1 - in # in
    OBVIOUS
  <1>8. PICK paid \in Int : paid = Charged(amountIn, r.left) /\ 0 <= paid /\ paid <= amountIn
                            /\ (paid = 0 => r.left = offer)
    BY <1>1, <1>2, <1>6, ChargedWithin
  <1>9. balance \in [Sides -> Nat]
    BY DEF ClIInv, TypeIInv, PoolTyped
  <1>10. balance' = [balance EXCEPT ![in] = @ + paid, ![1 - in] = @ - r.out]
         /\ sqrtPrice' = r.price
    BY <1>3, <1>8 DEF Swap
  <1>11. /\ balance'[in] = balance[in] + paid /\ balance'[1 - in] = balance[1 - in] - r.out
         /\ balance[in] \in Nat /\ balance[1 - in] \in Nat
    <2>1. in \in Sides /\ 1 - in \in Sides
      BY <1>7 DEF Sides
    <2> QED BY <1>7, <1>9, <1>10, <2>1
  <1>12. ASSUME paid = 0, sqrtPrice # 0, sqrtPrice' # 0 PROVE r.out = 0
    <2>1. PICK S : S = FairStates(offer, z, limit)
      OBVIOUS
    <2>2. Begins(amountIn) \in S
      <3>1. Begins(amountIn) \in SwapStates(offer)
        BY <1>2, <1>4 DEF Begins, SwapStates
      <3>2. Begins(amountIn).out = 0 /\ Begins(amountIn).price # 0
        BY <1>12 DEF Begins
      <3> QED BY <2>1, <3>1, <3>2 DEF FairStates
    <2>3. \A s \in S : s.status = "go" => Segment(s, z, limit) \in S
      BY <1>1, <1>4, <2>1, SegmentFair
    <2>4. r \in S
      BY <1>3, <2>2, <2>3, TradedKeeps
    <2>5. r.left = offer /\ r.price # 0
      BY <1>8, <1>10, <1>12
    <2> QED BY <2>1, <2>4, <2>5 DEF FairStates
  <1> QED BY <1>6, <1>8, <1>11, <1>12

(* A swap charges at most the offer, and pays nothing for nothing (swap,     *)
(* lib.rs of cl-pool), for any amounts, fee, prices, ticks and book, and any *)
(* number of segments up to the iteration limit.                             *)
THEOREM ChargeSound == Spec => SwapChargesOffer
  <1>1. ClIInv /\ [Next]_vars =>
          [\A zeroForOne \in BOOLEAN, amountIn \in AmountsIn, limit \in PriceLimits :
              Swap(zeroForOne, amountIn, limit) =>
                  LET in   == IF zeroForOne THEN 0 ELSE 1
                      cost == balance'[in] - balance[in]
                  IN  /\ 0 <= cost /\ cost <= amountIn
                      /\ cost = 0 /\ sqrtPrice # 0 /\ sqrtPrice' # 0
                            => balance'[1 - in] = balance[1 - in]]_vars
    BY ChargeKeeps
  <1> QED
    BY <1>1, ClInit, ClStep, PTL DEF Spec, SwapChargesOffer

(***************************************************************************)
(* The oracle's buffer.  What a search needs is that the observations are  *)
(* sorted by age: the slots below the next one to write are the newer, and *)
(* on either side a smaller slot is the older.                             *)
(***************************************************************************)
Older(w, a, b) == \/ a < w /\ b < w /\ a <= b
                  \/ a >= w /\ b >= w /\ a <= b
                  \/ a >= w /\ b < w

Filled ==
    /\ observationCount < BufferSize =>
          writeIndex = observationCount /\ DOMAIN observations = 0..(observationCount - 1)
    /\ observationCount = BufferSize => DOMAIN observations = Slots
Noted(s) == \E t \in Nat, c \in Nat : observations[s] = [timestamp |-> t, cumulative |-> c]
Sorted ==
    \A a, b \in DOMAIN observations : Older(writeIndex, a, b) =>
        /\ observations[a].timestamp <= observations[b].timestamp
        /\ observations[a].cumulative <= observations[b].cumulative
BufferInv ==
    /\ writeIndex \in Slots /\ observationCount \in 0..BufferSize
    /\ Filled
    /\ \A s \in DOMAIN observations : Noted(s)
    /\ Sorted

(* No observation is of a later time. *)
WrittenBy(n) == n \in Nat /\ \A s \in DOMAIN observations : observations[s].timestamp <= n

OracleInv == BufferInv /\ WrittenBy(now)

(* Once around the buffer at most. *)
LEMMA Around ==
    ASSUME NEW x \in Int, 0 <= x, x < 2 * BufferSize
    PROVE  x % BufferSize = IF x < BufferSize THEN x ELSE x - BufferSize
  <1>1. BufferSize \in Nat \ {0}
    BY BufferAssumption
  <1>2. CASE x < BufferSize
    <2>1. 0 \in Int /\ x \in 0..(BufferSize - 1) /\ 0 * BufferSize + x = x
      BY <1>1, <1>2
    <2>2. (0 * BufferSize + x) % BufferSize = x
      BY <1>1, <2>1, DivUnique
    <2> QED BY <1>2, <2>1, <2>2
  <1>3. CASE x >= BufferSize
    <2>1. PICK y \in 0..(BufferSize - 1) : y = x - BufferSize
      BY <1>1, <1>3
    <2>2. 1 \in Int /\ 1 * BufferSize + y = x
      BY <1>1, <2>1
    <2>3. (1 * BufferSize + y) % BufferSize = y
      BY <1>1, <2>1, DivUnique
    <2> QED BY <1>1, <1>3, <2>1, <2>2, <2>3
  <1> QED BY <1>1, <1>2, <1>3

(* The last slot written is the newest. *)
LEMMA LatestIs ==
    ASSUME BufferInv
    PROVE  /\ Latest = IF writeIndex > 0 THEN writeIndex - 1 ELSE BufferSize - 1
           /\ observationCount # 0 =>
                /\ Latest \in DOMAIN observations
                /\ \A s \in DOMAIN observations : Older(writeIndex, s, Latest)
  <1>1. BufferSize \in Nat \ {0} /\ writeIndex \in 0..(BufferSize - 1)
    BY BufferAssumption DEF BufferInv, Slots
  <1>2. PICK x \in Int : x = writeIndex + BufferSize - 1 /\ 0 <= x /\ x < 2 * BufferSize
    BY <1>1
  <1>3. PICK l : l = Latest
    OBVIOUS
  <1>4. l = IF x < BufferSize THEN x ELSE x - BufferSize
    BY <1>2, <1>3, Around DEF Latest
  <1>5. l = IF writeIndex > 0 THEN writeIndex - 1 ELSE BufferSize - 1
    BY <1>1, <1>2, <1>4
  <1>6. ASSUME observationCount # 0
        PROVE  l \in DOMAIN observations /\ \A s \in DOMAIN observations : Older(writeIndex, s, l)
    <2>1. observationCount \in 0..BufferSize
      BY DEF BufferInv
    <2>2. CASE observationCount < BufferSize
      <3>1. writeIndex = observationCount /\ DOMAIN observations = 0..(observationCount - 1)
        BY <2>2 DEF BufferInv, Filled
      <3> QED BY <1>1, <1>5, <1>6, <2>1, <3>1 DEF Older
    <2>3. CASE observationCount = BufferSize
      <3>1. DOMAIN observations = 0..(BufferSize - 1)
        BY <2>3 DEF BufferInv, Filled, Slots
      <3> QED BY <1>1, <1>5, <3>1 DEF Older
    <2> QED BY <1>1, <2>1, <2>2, <2>3
  <1> QED BY <1>3, <1>5, <1>6

LEMMA BufferInit == InitOracle => BufferInv /\ WrittenBy(0)
  BY BufferAssumption DEF InitOracle, BufferInv, WrittenBy, Filled, Sorted, Slots

LEMMA OracleInit == Init => OracleInv
  BY BufferInit DEF Init, OracleInv

(* An observation is written over the oldest slot, or the next free one, and *)
(* is the newest from then on.                                               *)
LEMMA ObservedKeeps ==
    ASSUME BufferInv, NEW n \in Nat, WrittenBy(n), NEW price \in Nat, WriteObservation(n, price)
    PROVE  BufferInv' /\ WrittenBy(n)'
  <1>1. BufferSize \in Nat \ {0} /\ writeIndex \in 0..(BufferSize - 1)
        /\ observationCount \in 0..BufferSize
    BY BufferAssumption DEF BufferInv, Slots
  <1>2. PICK w \in 0..(BufferSize - 1) : w = writeIndex
    BY <1>1
  <1>3. writeIndex' = IF w + 1 < BufferSize THEN w + 1 ELSE 0
    <2>1. PICK x \in Int : x = w + 1 /\ 0 <= x /\ x < 2 * BufferSize
      BY <1>1
    <2>2. writeIndex' = x % BufferSize
      BY <1>2, <2>1 DEF WriteObservation, NextSlot
    <2>3. x % BufferSize = IF x < BufferSize THEN x ELSE x - BufferSize
      BY <2>1, Around
    <2> QED BY <1>1, <2>1, <2>2, <2>3
  <1>4. observationCount' = IF observationCount < BufferSize THEN observationCount + 1 ELSE BufferSize
    <2>1. PICK x \in Int : x = observationCount + 1
      BY <1>1
    <2>2. PICK S : S = {x, BufferSize}
      OBVIOUS
    <2>3. x \in S /\ BufferSize \in S /\ \A y \in S : y = x \/ y = BufferSize
      BY <2>2
    <2>4. BufferSize \in Int
      BY <1>1
    <2>5. Min(S) \in S /\ Min(S) <= x /\ Min(S) <= BufferSize
      BY <2>3, <2>4, PairExtremes, Zenon
    <2>6. PICK y : y = Min(S)
      OBVIOUS
    <2>7. (y = x \/ y = BufferSize) /\ y <= x /\ y <= BufferSize
      BY <2>3, <2>5, <2>6
    <2>8. observationCount' = y
      BY <2>1, <2>2, <2>6 DEF WriteObservation
    <2> QED BY <1>1, <2>1, <2>7, <2>8
  <1>5. PICK c \in Nat :
          /\ observations' = [s \in DOMAIN observations \cup {w} |->
                                 IF s = w THEN [timestamp |-> n, cumulative |-> c] ELSE observations[s]]
          /\ \A s \in DOMAIN observations : observations[s].cumulative <= c
    <2>1. CASE observationCount = 0
      <3>1. DOMAIN observations = {}
        BY <1>1, <2>1 DEF BufferInv, Filled
      <3>2. observations' = [s \in DOMAIN observations \cup {w} |->
                                 IF s = w THEN [timestamp |-> n, cumulative |-> 0] ELSE observations[s]]
        BY <1>2, <2>1 DEF WriteObservation
      <3> QED BY <3>1, <3>2
    <2>2. CASE observationCount # 0
      <3>1. PICK l : l = Latest
        OBVIOUS
      <3>2. l \in DOMAIN observations /\ \A s \in DOMAIN observations : Older(w, s, l)
        BY <1>2, <2>2, <3>1, LatestIs
      <3>3. PICK t \in Nat, d \in Nat : observations[l] = [timestamp |-> t, cumulative |-> d]
        BY <3>2 DEF BufferInv, Noted
      <3>4. t <= n
        BY <3>2, <3>3 DEF WrittenBy
      <3>5. PICK span \in Nat : span = n - t
        BY <1>1, <3>4
      <3>6. price * span \in Nat
        BY <3>5, TimesNat
      <3>7. PICK c \in Nat : c = d + price * span /\ d <= c
        BY <3>6
      <3>8. observations' = [s \in DOMAIN observations \cup {w} |->
                                 IF s = w THEN [timestamp |-> n, cumulative |-> c] ELSE observations[s]]
        BY <1>2, <2>2, <3>1, <3>3, <3>5, <3>7 DEF WriteObservation
      <3>9. \A s \in DOMAIN observations : observations[s].cumulative <= c
        <4> TAKE s \in DOMAIN observations
        <4>1. observations[s].cumulative <= observations[l].cumulative
          BY <1>2, <3>2 DEF BufferInv, Sorted
        <4>2. PICK e \in Nat : observations[s].cumulative = e
          BY DEF BufferInv, Noted
        <4> QED BY <3>3, <3>7, <4>1, <4>2
      <3> QED BY <3>8, <3>9
    <2> QED BY <2>1, <2>2
  <1>6. /\ DOMAIN observations' = DOMAIN observations \cup {w}
        /\ observations'[w] = [timestamp |-> n, cumulative |-> c]
        /\ \A s \in DOMAIN observations : s # w => observations'[s] = observations[s]
    BY <1>5
  <1>7. writeIndex' \in Slots /\ observationCount' \in 0..BufferSize
    BY <1>1, <1>3, <1>4 DEF Slots
  <1>8. Filled'
    <2>1. CASE observationCount < BufferSize
      <3>1. w = observationCount /\ DOMAIN observations = 0..(observationCount - 1)
        BY <1>2, <2>1 DEF BufferInv, Filled
      <3>2. DOMAIN observations' = 0..w
        BY <1>1, <1>6, <3>1
      <3>3. observationCount' = w + 1
        BY <1>4, <2>1, <3>1
      <3>4. (w + 1) - 1 = w
        OBVIOUS
      <3> QED BY <1>1, <1>3, <3>2, <3>3, <3>4 DEF Filled, Slots
    <2>2. CASE observationCount = BufferSize
      <3>1. DOMAIN observations = Slots
        BY <2>2 DEF BufferInv, Filled
      <3>2. DOMAIN observations' = Slots
        BY <1>6, <3>1 DEF Slots
      <3>3. observationCount' = BufferSize
        BY <1>1, <1>4, <2>2
      <3> QED BY <1>1, <3>2, <3>3 DEF Filled
    <2> QED BY <1>1, <2>1, <2>2
  <1>9. \A s \in DOMAIN observations' : Noted(s)' /\ observations'[s].timestamp <= n
    <2> TAKE s \in DOMAIN observations'
    <2>1. CASE s = w
      BY <1>1, <1>5, <1>6, <2>1 DEF Noted
    <2>2. CASE s # w
      <3>1. s \in DOMAIN observations /\ observations'[s] = observations[s]
        BY <1>6, <2>2
      <3> QED BY <3>1 DEF BufferInv, WrittenBy, Noted
    <2> QED BY <2>1, <2>2
  <1>10. Sorted'
    <2> SUFFICES ASSUME NEW a \in DOMAIN observations', NEW b \in DOMAIN observations',
                        Older(writeIndex', a, b)
                 PROVE  /\ observations'[a].timestamp <= observations'[b].timestamp
                        /\ observations'[a].cumulative <= observations'[b].cumulative
      BY DEF Sorted
    <2>1. a \in 0..(BufferSize - 1) /\ b \in 0..(BufferSize - 1)
      BY <1>1, <1>8, <1>7 DEF Filled, Slots
    <2>2. CASE b = w
      <3>1. CASE a = w
        BY <1>1, <1>6, <2>2, <3>1
      <3>2. CASE a # w
        <4>1. a \in DOMAIN observations /\ observations'[a] = observations[a]
          BY <1>6, <3>2
        <4> QED BY <1>5, <1>6, <2>2, <4>1 DEF BufferInv, WrittenBy
      <3> QED BY <3>1, <3>2
    <2>3. CASE b # w
      <3>1. a # w
        BY <1>1, <1>3, <2>1, <2>3 DEF Older
      <3>2. Older(w, a, b)
        BY <1>1, <1>3, <2>1, <2>3, <3>1 DEF Older
      <3>3. a \in DOMAIN observations /\ b \in DOMAIN observations
            /\ observations'[a] = observations[a] /\ observations'[b] = observations[b]
        BY <1>6, <2>3, <3>1
      <3> QED BY <1>2, <3>2, <3>3 DEF BufferInv, Sorted
    <2> QED BY <2>2, <2>3
  <1> QED BY <1>1, <1>7, <1>8, <1>9, <1>10 DEF BufferInv, WrittenBy

LEMMA OracleKeeps == ClIInv /\ OracleInv /\ [Next]_vars => OracleInv'
  <1> SUFFICES ASSUME ClIInv, OracleInv, [Next]_vars PROVE OracleInv'
    OBVIOUS
  <1>1. CASE UNCHANGED <<oracleVars, now>>
    BY <1>1 DEF oracleVars, OracleInv, BufferInv, WrittenBy, Filled, Noted, Sorted
  <1>2. CASE SwapStep
    <2>1. PICK z \in BOOLEAN, amountIn \in AmountsIn, limit \in PriceLimits : Swap(z, amountIn, limit)
      BY <1>2 DEF SwapStep
    <2>2. TypeIInv'
      BY <2>1, TypesSwap
    <2>3. sqrtPrice' \in Nat /\ now' = now /\ Observed(sqrtPrice')
      BY <2>1, <2>2 DEF TypeIInv, PoolTyped, Swap
    <2>4. CASE oracle
      <3>1. WriteObservation(now, sqrtPrice')
        BY <2>3, <2>4 DEF Observed
      <3>2. PICK n \in Nat : n = now
        BY DEF OracleInv, WrittenBy
      <3>3. BufferInv' /\ WrittenBy(n)'
        BY <2>3, <3>1, <3>2, ObservedKeeps DEF OracleInv
      <3> QED BY <2>3, <3>2, <3>3 DEF OracleInv, WrittenBy
    <2>5. CASE ~oracle
      BY <1>1, <2>3, <2>5 DEF Observed
    <2> QED BY <2>4, <2>5
  <1>3. CASE CloseLedger
    <2>1. now' = now + 1 /\ UNCHANGED oracleVars
      BY <1>3 DEF CloseLedger
    <2>2. \A s \in DOMAIN observations : observations[s].timestamp <= now + 1
      <3> TAKE s \in DOMAIN observations
      <3>1. PICK t \in Nat : observations[s].timestamp = t
        BY DEF OracleInv, BufferInv, Noted
      <3>2. t <= now /\ now \in Nat
        BY <3>1 DEF OracleInv, WrittenBy
      <3> QED BY <3>1, <3>2
    <2> QED BY <2>1, <2>2 DEF oracleVars, OracleInv, BufferInv, WrittenBy, Filled, Noted, Sorted
  <1>4. CASE AddStep
    BY <1>1, <1>4 DEF AddStep, AddLiquidity
  <1>5. CASE RemoveStep
    <2>1. ASSUME NEW u \in Users, NEW id \in DOMAIN positions, RemoveAll(u, id) PROVE OracleInv'
      BY <1>1, <2>1 DEF RemoveAll, TakeOut
    <2>2. ASSUME NEW u \in Users, NEW id \in DOMAIN positions, NEW liq \in Liquidities,
                 RemovePart(u, id, liq)
          PROVE  OracleInv'
      BY <1>1, <2>2 DEF RemovePart, TakeOut
    <2> QED BY <1>5, <2>1, <2>2 DEF RemoveStep
  <1>6. CASE CollectStep
    BY <1>1, <1>6 DEF CollectStep, Collect
  <1>7. CASE TransferStep
    BY <1>1, <1>7 DEF TransferStep, TransferToken
  <1>8. CASE SetOracle
    BY <1>1, <1>8 DEF SetOracle
  <1>9. CASE UNCHANGED vars
    BY <1>1, <1>9 DEF vars
  <1> QED
    BY <1>2, <1>3, <1>4, <1>5, <1>6, <1>7, <1>8, <1>9 DEF Next

(* The slots by age: every slot written has a position, and a later position *)
(* holds a newer observation.                                                *)
LEMMA SlotsByAge ==
    ASSUME BufferInv
    PROVE  /\ \A i \in 0..(observationCount - 1) : SlotAt(i) \in DOMAIN observations
           /\ \A i, j \in 0..(observationCount - 1) :
                 i <= j => Older(writeIndex, SlotAt(i), SlotAt(j))
           /\ \A s \in DOMAIN observations : \E i \in 0..(observationCount - 1) : SlotAt(i) = s
  <1>1. BufferSize \in Nat \ {0} /\ writeIndex \in 0..(BufferSize - 1)
        /\ observationCount \in 0..BufferSize
    BY BufferAssumption DEF BufferInv, Slots
  <1>2. CASE observationCount < BufferSize
    <2>1. writeIndex = observationCount /\ DOMAIN observations = 0..(observationCount - 1)
      BY <1>2 DEF BufferInv, Filled
    <2>2. \A i \in 0..(observationCount - 1) : SlotAt(i) = i
      <3> TAKE i \in 0..(observationCount - 1)
      <3>1. PICK x \in Int : x = 0 + i /\ 0 <= x /\ x < BufferSize /\ x < 2 * BufferSize /\ x = i
        BY <1>1, <1>2
      <3>2. x % BufferSize = IF x < BufferSize THEN x ELSE x - BufferSize
        BY <3>1, Around
      <3> QED BY <1>2, <3>1, <3>2 DEF SlotAt, Oldest
    <2> QED BY <1>1, <2>1, <2>2 DEF Older
  <1>3. CASE observationCount = BufferSize
    <2>1. DOMAIN observations = 0..(BufferSize - 1)
      BY <1>3 DEF BufferInv, Filled, Slots
    <2>2. \A i \in 0..(BufferSize - 1) :
              SlotAt(i) = IF writeIndex + i < BufferSize THEN writeIndex + i ELSE writeIndex + i - BufferSize
      <3> TAKE i \in 0..(BufferSize - 1)
      <3>1. PICK x \in Int : x = writeIndex + i /\ 0 <= x /\ x < 2 * BufferSize
        BY <1>1
      <3>2. x % BufferSize = IF x < BufferSize THEN x ELSE x - BufferSize
        BY <3>1, Around
      <3> QED BY <1>1, <1>3, <3>1, <3>2 DEF SlotAt, Oldest
    <2>3. \A s \in DOMAIN observations : \E i \in 0..(BufferSize - 1) : SlotAt(i) = s
      <3> TAKE s \in DOMAIN observations
      <3>1. s \in 0..(BufferSize - 1)
        BY <2>1
      <3>2. PICK i \in 0..(BufferSize - 1) :
                i = IF s >= writeIndex THEN s - writeIndex ELSE s + BufferSize - writeIndex
        BY <1>1, <3>1
      <3> QED BY <1>1, <2>2, <3>1, <3>2
    <2>4. \A i \in 0..(BufferSize - 1) : SlotAt(i) \in 0..(BufferSize - 1)
      BY <1>1, <2>2
    <2>5. \A i, j \in 0..(BufferSize - 1) : i <= j => Older(writeIndex, SlotAt(i), SlotAt(j))
      BY <1>1, <2>2 DEF Older
    <2> QED BY <1>3, <2>1, <2>3, <2>4, <2>5
  <1> QED BY <1>1, <1>2, <1>3

(* The search, as a function of the number of probes. *)
FirstProbe == [lo |-> 0, hi |-> observationCount - 1, best |-> 0]
Probed(s, target) ==
    LET mid == s.lo + (s.hi - s.lo) \div 2
    IN  IF s.lo > s.hi THEN s
        ELSE IF NotAfter(mid, target)
        THEN [s EXCEPT !.lo = mid + 1, !.best = mid]
        ELSE IF mid = 0 THEN [s EXCEPT !.lo = s.hi + 1]
        ELSE [s EXCEPT !.hi = mid - 1]
Probes(f, m, target) ==
    f = [n \in 0..m |-> IF n = 0 THEN FirstProbe ELSE Probed(f[n - 1], target)]

LEMMA SearchUnfolds ==
    ASSUME NEW target, NEW m, m = observationCount
    PROVE  StartSlot(target) = SlotAt((CHOOSE f : Probes(f, m, target))[m].best)
  BY DEF StartSlot, Probes, FirstProbe, Probed

LEMMA ProbesExtend ==
    ASSUME NEW n \in Nat, NEW target, NEW g, Probes(g, n, target)
    PROVE  \E h : Probes(h, n + 1, target)
  <1> DEFINE h == [k \in 0..(n + 1) |-> IF k = 0 THEN FirstProbe ELSE Probed(g[k - 1], target)]
  <1>1. \A k \in 0..n : h[k] = g[k]
    <2> TAKE k \in 0..n
    <2>1. k \in 0..(n + 1)
      OBVIOUS
    <2>2. g[k] = IF k = 0 THEN FirstProbe ELSE Probed(g[k - 1], target)
      BY DEF Probes
    <2> QED BY <2>1, <2>2
  <1>2. \A k \in 0..(n + 1) : k # 0 => k - 1 \in 0..n
    OBVIOUS
  <1>3. h = [k \in 0..(n + 1) |-> IF k = 0 THEN FirstProbe ELSE Probed(h[k - 1], target)]
    <2>1. \A k \in 0..(n + 1) : k # 0 => h[k - 1] = g[k - 1]
      BY <1>1, <1>2
    <2> HIDE DEF h
    <2>2. \A k \in 0..(n + 1) :
            (IF k = 0 THEN FirstProbe ELSE Probed(g[k - 1], target))
              = IF k = 0 THEN FirstProbe ELSE Probed(h[k - 1], target)
      BY <2>1
    <2>3. h = [k \in 0..(n + 1) |-> IF k = 0 THEN FirstProbe ELSE Probed(g[k - 1], target)]
      BY DEF h
    <2> QED BY <2>2, <2>3
  <1> QED BY <1>3 DEF Probes

LEMMA ProbesExist ==
    ASSUME NEW m \in Nat, NEW target
    PROVE  \E f : Probes(f, m, target)
  <1> DEFINE Bad == {n \in Nat : ~ \E f : Probes(f, n, target)}
  <1>1. CASE Bad # {}
    <2>1. PICK n \in Bad : \A k \in Bad : n <= k
      <3>1. Bad \subseteq Nat
        OBVIOUS
      <3> HIDE DEF Bad
      <3> QED BY <3>1, <1>1, LeastNatural
    <2>2. CASE n = 0
      <3>1. Probes([k \in 0..0 |-> FirstProbe], 0, target)
        BY DEF Probes
      <3> QED BY <2>2, <3>1
    <2>3. CASE n # 0
      <3>1. n - 1 \in Nat /\ n - 1 \notin Bad /\ (n - 1) + 1 = n
        BY <2>1, <2>3
      <3>2. PICK g : Probes(g, n - 1, target)
        BY <3>1
      <3>3. \E h : Probes(h, (n - 1) + 1, target)
        BY <3>1, <3>2, ProbesExtend
      <3> QED BY <3>1, <3>3
    <2> QED BY <2>2, <2>3
  <1> QED BY <1>1

(* What n probes over `count` sorted timestamps leave: everything above hi   *)
(* is after the target, the best is the last one below lo and is not, and    *)
(* what is left to search shrinks with every probe.                          *)
Narrowed(count, n, target) ==
    {s \in [lo : Nat, hi : Int, best : Nat] :
        /\ s.lo <= s.hi + 1 /\ s.hi < count
        /\ s.best = IF s.lo = 0 THEN 0 ELSE s.lo - 1
        /\ s.lo # 0 => NotAfter(s.lo - 1, target)
        /\ \A i \in 0..(count - 1) : i > s.hi => ~NotAfter(i, target)
        /\ s.lo > s.hi \/ s.hi - s.lo + 1 <= count - n}

LEMMA ProbeNarrows ==
    ASSUME NEW count \in Nat \ {0}, NEW n \in Nat, NEW target,
           NotAfter(0, target),
           \A i, j \in 0..(count - 1) : i <= j /\ NotAfter(j, target) => NotAfter(i, target),
           NEW s \in Narrowed(count, n, target)
    PROVE  Probed(s, target) \in Narrowed(count, n + 1, target)
  <1>1. PICK lo \in Nat, hi \in Int, best \in Nat : s = [lo |-> lo, hi |-> hi, best |-> best]
    BY DEF Narrowed
  <1>2. /\ lo <= hi + 1 /\ hi < count
        /\ best = IF lo = 0 THEN 0 ELSE lo - 1
        /\ lo # 0 => NotAfter(lo - 1, target)
        /\ \A i \in 0..(count - 1) : i > hi => ~NotAfter(i, target)
        /\ lo > hi \/ hi - lo + 1 <= count - n
    BY <1>1 DEF Narrowed
  <1>3. PICK r : r = Probed(s, target)
    OBVIOUS
  <1>4. CASE lo > hi
    <2>1. r = s
      BY <1>1, <1>3, <1>4 DEF Probed
    <2> QED BY <1>1, <1>2, <1>3, <1>4, <2>1 DEF Narrowed
  <1>5. CASE lo <= hi
    <2>1. PICK half \in Int : half = (hi - lo) \div 2 /\ 0 <= half /\ half <= hi - lo
      BY <1>5
    <2>2. PICK mid \in Nat : mid = lo + half /\ lo <= mid /\ mid <= hi /\ mid \in 0..(count - 1)
      BY <1>2, <2>1
    <2>3. r = IF NotAfter(mid, target)
              THEN [s EXCEPT !.lo = mid + 1, !.best = mid]
              ELSE IF mid = 0 THEN [s EXCEPT !.lo = s.hi + 1]
              ELSE [s EXCEPT !.hi = mid - 1]
      BY <1>1, <1>3, <1>5, <2>1, <2>2 DEF Probed
    <2>4. CASE NotAfter(mid, target)
      <3>1. r = [lo |-> mid + 1, hi |-> hi, best |-> mid]
        BY <1>1, <2>3, <2>4
      <3>2. mid + 1 \in Nat /\ mid + 1 # 0 /\ (mid + 1) - 1 = mid /\ mid + 1 <= hi + 1
            /\ (mid + 1 > hi \/ hi - (mid + 1) + 1 <= count - (n + 1))
        BY <1>2, <1>5, <2>2
      <3>3. r \in [lo : Nat, hi : Int, best : Nat] /\ r.lo = mid + 1 /\ r.hi = hi /\ r.best = mid
        BY <3>1, <3>2
      <3> QED BY <1>2, <1>3, <2>4, <3>2, <3>3 DEF Narrowed
    <2>5. CASE ~NotAfter(mid, target)
      <3>1. mid # 0
        BY <2>5
      <3>2. r = [lo |-> lo, hi |-> mid - 1, best |-> best]
        BY <1>1, <2>3, <2>5, <3>1
      <3>3. PICK h \in Int : h = mid - 1
        OBVIOUS
      <3>4. lo <= h + 1 /\ h < count /\ (lo > h \/ h - lo + 1 <= count - (n + 1))
        BY <1>2, <1>5, <2>2, <3>3
      <3>5. \A i \in 0..(count - 1) : i > h => ~NotAfter(i, target)
        <4> TAKE i \in 0..(count - 1)
        <4> HAVE i > h
        <4>1. mid <= i
          BY <3>3
        <4> QED BY <2>2, <2>5, <4>1
      <3>6. r \in [lo : Nat, hi : Int, best : Nat] /\ r.lo = lo /\ r.hi = h /\ r.best = best
        BY <3>2, <3>3
      <3> QED BY <1>2, <1>3, <3>4, <3>5, <3>6 DEF Narrowed
    <2> QED BY <2>4, <2>5
  <1> QED BY <1>4, <1>5

LEMMA ProbesNarrow ==
    ASSUME NEW count \in Nat \ {0}, count = observationCount, NEW target,
           NotAfter(0, target),
           \A i, j \in 0..(count - 1) : i <= j /\ NotAfter(j, target) => NotAfter(i, target),
           NEW f, Probes(f, count, target)
    PROVE  f[count] \in Narrowed(count, count, target)
  <1> DEFINE Bad == {n \in 0..count : f[n] \notin Narrowed(count, n, target)}
  <1>0. \A n \in 0..count : f[n] = IF n = 0 THEN FirstProbe ELSE Probed(f[n - 1], target)
    BY DEF Probes
  <1>1. CASE Bad # {}
    <2>1. PICK n \in Bad : \A k \in Bad : n <= k
      <3>1. Bad \subseteq Nat
        OBVIOUS
      <3> HIDE DEF Bad
      <3> QED BY <3>1, <1>1, LeastNatural
    <2>2. CASE n = 0
      <3>1. FirstProbe = [lo |-> 0, hi |-> count - 1, best |-> 0]
        BY DEF FirstProbe
      <3>2. FirstProbe \in Narrowed(count, 0, target)
        BY <3>1 DEF Narrowed
      <3> QED BY <1>0, <2>2, <3>2
    <2>3. CASE n # 0
      <3>1. n - 1 \in 0..count /\ n - 1 \in Nat /\ n - 1 \notin Bad /\ (n - 1) + 1 = n
        BY <2>1, <2>3
      <3>2. PICK k \in Nat : k = n - 1
        BY <3>1
      <3>3. PICK s : s = f[n - 1]
        OBVIOUS
      <3>4. s \in Narrowed(count, k, target)
        BY <3>1, <3>2, <3>3
      <3>5. Probed(s, target) \in Narrowed(count, k + 1, target)
        BY <3>4, ProbeNarrows
      <3>6. f[n] = Probed(s, target) /\ k + 1 = n
        BY <1>0, <2>3, <3>1, <3>2, <3>3
      <3> QED BY <3>5, <3>6
    <2> QED BY <2>2, <2>3
  <1>2. CASE Bad = {}
    <2>1. count \in 0..count
      OBVIOUS
    <2> QED BY <1>2, <2>1
  <1> QED BY <1>1, <1>2

(* The start of the window: the search ends, at the newest observation that  *)
(* is not after the target.                                                  *)
LEMMA StartIs ==
    ASSUME BufferInv, observationCount # 0, NEW target \in Int,
           observations[Oldest].timestamp <= target
    PROVE  \E best \in 0..(observationCount - 1) :
              /\ StartSlot(target) = SlotAt(best)
              /\ NotAfter(best, target)
              /\ \A i \in 0..(observationCount - 1) : NotAfter(i, target) => i <= best
  <1>1. PICK count \in Nat \ {0} : count = observationCount
    BY BufferAssumption DEF BufferInv
  <1>2. SlotAt(0) = Oldest
    <2>1. BufferSize \in Nat \ {0} /\ writeIndex \in 0..(BufferSize - 1)
      BY BufferAssumption DEF BufferInv, Slots
    <2>2. PICK x \in Int : x = Oldest + 0 /\ x = Oldest /\ 0 <= x /\ x < BufferSize /\ x < 2 * BufferSize
      BY <2>1 DEF Oldest
    <2>3. x % BufferSize = x
      BY <2>2, Around
    <2> QED BY <2>2, <2>3 DEF SlotAt
  <1>3. NotAfter(0, target)
    BY <1>2 DEF NotAfter
  <1>4. \A i \in 0..(count - 1) : \E t \in Nat : observations[SlotAt(i)].timestamp = t
    BY <1>1, SlotsByAge DEF BufferInv, Noted
  <1>5. \A i, j \in 0..(count - 1) : i <= j /\ NotAfter(j, target) => NotAfter(i, target)
    <2> TAKE i, j \in 0..(count - 1)
    <2> HAVE i <= j /\ NotAfter(j, target)
    <2>1. PICK a, b : a = SlotAt(i) /\ b = SlotAt(j)
      OBVIOUS
    <2>2. Older(writeIndex, a, b) /\ a \in DOMAIN observations /\ b \in DOMAIN observations
      BY <1>1, <2>1, SlotsByAge
    <2>3. observations[a].timestamp <= observations[b].timestamp
      BY <2>2 DEF BufferInv, Sorted
    <2>4. PICK t \in Nat, u \in Nat : observations[a].timestamp = t /\ observations[b].timestamp = u
      BY <1>4, <2>1
    <2>5. u <= target
      BY <2>1, <2>4 DEF NotAfter
    <2> QED BY <2>1, <2>3, <2>4, <2>5 DEF NotAfter
  <1>6. PICK f : Probes(f, count, target) /\ StartSlot(target) = SlotAt(f[count].best)
    <2>1. StartSlot(target) = SlotAt((CHOOSE f : Probes(f, count, target))[count].best)
      BY <1>1, SearchUnfolds
    <2>2. \E f : Probes(f, count, target)
      BY ProbesExist
    <2> QED BY <2>1, <2>2
  <1>7. PICK s : s = f[count] /\ s \in Narrowed(count, count, target)
    BY <1>1, <1>3, <1>5, <1>6, ProbesNarrow
  <1>8. /\ s.lo \in Nat /\ s.hi \in Int /\ s.best \in Nat
        /\ s.lo <= s.hi + 1 /\ s.hi < count
        /\ s.best = IF s.lo = 0 THEN 0 ELSE s.lo - 1
        /\ s.lo # 0 => NotAfter(s.lo - 1, target)
        /\ \A i \in 0..(count - 1) : i > s.hi => ~NotAfter(i, target)
        /\ s.lo > s.hi \/ s.hi - s.lo + 1 <= count - count
    BY <1>7 DEF Narrowed
  <1>9. s.lo > s.hi
    BY <1>8
  <1>10. s.lo # 0
    BY <1>3, <1>8, <1>9
  <1>11. s.best \in 0..(count - 1) /\ NotAfter(s.best, target)
    BY <1>8, <1>9, <1>10
  <1>12. \A i \in 0..(count - 1) : NotAfter(i, target) => i <= s.best
    BY <1>8, <1>9, <1>10
  <1> QED BY <1>1, <1>6, <1>7, <1>11, <1>12

LEMMA TwapStarts == BufferInv => TwapStartsWindow
  <1> SUFFICES ASSUME BufferInv, NEW w \in Windows, TwapDefined(w), NEW from, from = StartSlot(Target(w))
               PROVE  /\ from \in DOMAIN observations
                      /\ TimeAt(from) <= Target(w)
                      /\ \A s \in DOMAIN observations : TimeAt(s) <= Target(w) =>
                            observations[s].cumulative <= observations[from].cumulative
    BY DEF TwapStartsWindow
  <1>1. observationCount # 0 /\ observations[Oldest].timestamp <= Target(w)
    BY DEF TwapDefined
  <1>2. PICK t \in Nat : observations[Latest].timestamp = t
    BY <1>1, LatestIs DEF BufferInv, Noted
  <1>3. PICK target \in Int : target = Target(w)
    <2>1. PICK x \in Int : x = t - w
      BY DEF Windows
    <2>2. PICK S : S = {0, x}
      OBVIOUS
    <2>3. 0 \in S /\ x \in S /\ \A y \in S : y = 0 \/ y = x
      BY <2>2
    <2>4. Max(S) \in S
      <3>1. 0 \in Int
        OBVIOUS
      <3> QED BY <2>3, <3>1, PairExtremes, Zenon
    <2>5. Target(w) = Max(S)
      BY <1>2, <2>1, <2>2 DEF Target
    <2>6. PICK m : m = Max(S)
      OBVIOUS
    <2>7. m = 0 \/ m = x
      BY <2>3, <2>4, <2>6
    <2> QED BY <2>5, <2>6, <2>7
  <1>4. PICK best \in 0..(observationCount - 1) :
              /\ StartSlot(target) = SlotAt(best)
              /\ NotAfter(best, target)
              /\ \A i \in 0..(observationCount - 1) : NotAfter(i, target) => i <= best
    BY <1>1, <1>3, StartIs
  <1>5. from = SlotAt(best)
    BY <1>3, <1>4
  <1>6. from \in DOMAIN observations /\ TimeAt(from) <= target
    BY <1>4, <1>5, SlotsByAge DEF NotAfter, TimeAt
  <1>7. ASSUME NEW s \in DOMAIN observations, TimeAt(s) <= target
        PROVE  observations[s].cumulative <= observations[from].cumulative
    <2>1. PICK i \in 0..(observationCount - 1) : SlotAt(i) = s
      BY SlotsByAge
    <2>2. i <= best
      BY <1>4, <1>7, <2>1 DEF NotAfter, TimeAt
    <2>3. Older(writeIndex, s, from)
      BY <1>5, <2>1, <2>2, SlotsByAge
    <2> QED BY <1>6, <2>3 DEF BufferInv, Sorted
  <1> QED BY <1>3, <1>6, <1>7

(* The search get_twap relies on (oracle-adapter/src/lib.rs) answers the     *)
(* newest observation made at the start of the window or before it, for any  *)
(* buffer, wrapped or not, any prices, times and number of observations of   *)
(* one second.                                                               *)
THEOREM TwapSound == Spec => []TwapStartsWindow
  <1>1. Init => ClIInv /\ OracleInv
    BY ClInit, OracleInit
  <1>2. ClIInv /\ OracleInv /\ [Next]_vars => (ClIInv /\ OracleInv)'
    BY ClStep, OracleKeeps
  <1>3. OracleInv => TwapStartsWindow
    BY TwapStarts DEF OracleInv
  <1> QED
    BY <1>1, <1>2, <1>3, PTL DEF Spec

-----------------------------------------------------------------------------
USE RoutingAssumption, FeesAssumption

(***************************************************************************)
(* The factory and the router.  A pair has one pool of a tier, because every *)
(* key is in order, so that the pair and the tier determine it; a routed     *)
(* swap moves what was asked, whatever order a pool was initialized in,      *)
(* because the direction is read from the pool.                             *)
(***************************************************************************)
KeysInOrder == \A k \in registry : k \in Keys /\ k.token0 < k.token1

RoutingIInv == KeysInOrder /\ MovesAsAsked

LEMMA KeyInOrder ==
  ASSUME NEW a \in RouteTokens, NEW b \in RouteTokens, a # b, NEW tier \in AskedTiers
  PROVE  KeyOf(a, b, tier) \in Keys /\ KeyOf(a, b, tier).token0 < KeyOf(a, b, tier).token1
<1>1. CASE a < b
  BY <1>1 DEF KeyOf, Keys
<1>2. CASE ~(a < b)
  BY <1>2 DEF KeyOf, Keys
<1> QED BY <1>1, <1>2

LEMMA OrderGivesOnePool == KeysInOrder => OnePoolPerPair
<1> SUFFICES ASSUME KeysInOrder, NEW j \in registry, NEW k \in registry,
                    j.tier = k.tier, {j.token0, j.token1} = {k.token0, k.token1}
             PROVE  j = k
  BY DEF OnePoolPerPair
<1>1. j \in Keys /\ k \in Keys /\ j.token0 < j.token1 /\ k.token0 < k.token1
  BY DEF KeysInOrder
<1>2. j.token0 \in Int /\ j.token1 \in Int /\ k.token0 \in Int /\ k.token1 \in Int
  BY <1>1 DEF Keys
<1>3. j.token0 = k.token0 /\ j.token1 = k.token1
  <2>1. j.token0 \in {k.token0, k.token1} /\ j.token1 \in {k.token0, k.token1}
    OBVIOUS
  <2>2. k.token0 \in {j.token0, j.token1} /\ k.token1 \in {j.token0, j.token1}
    OBVIOUS
  <2> QED BY <1>1, <1>2, <2>1, <2>2
<1> QED BY <1>1, <1>3 DEF Keys

(* What a routed swap leaves behind, in either direction. *)
LEMMA RouteMoves ==
  ASSUME NEW a \in RouteTokens, NEW b \in RouteTokens, a # b, NEW pool,
         NEW down \in BOOLEAN, Trades(pool, a, b, down),
         NEW offer \in Nat, NEW least, NEW paid \in 0 .. offer, NEW out \in Nat
  PROVE  LET d == Deltas(down, paid, out)
             h == HoldingsMove(pool, d)
         IN  /\ Result(down, d).in = paid /\ Result(down, d).out = out
             /\ h[a] = -paid /\ h[b] = out
             /\ \A t \in RouteTokens \ {a, b} : h[t] = 0
<1> DEFINE d == Deltas(down, paid, out)
<1>1. CASE down
  <2>1. d[1] = paid /\ d[2] = -out /\ pool.token0 = a /\ pool.token1 = b
    BY <1>1 DEF Deltas, Trades
  <2> HIDE DEF d
  <2>2. Result(down, d).in = paid /\ Result(down, d).out = out
    BY <1>1, <2>1 DEF Result
  <2> QED BY <2>1, <2>2 DEF HoldingsMove, d
<1>2. CASE ~down
  <2>1. d[1] = -out /\ d[2] = paid /\ pool.token0 = b /\ pool.token1 = a
    BY <1>2 DEF Deltas, Trades
  <2> HIDE DEF d
  <2>2. Result(down, d).in = paid /\ Result(down, d).out = out
    BY <1>2, <2>1 DEF Result
  <2> QED BY <2>1, <2>2 DEF HoldingsMove, d
<1> QED BY <1>1, <1>2

LEMMA RouteKeeps ==
  ASSUME RoutingIInv, NEW a \in RouteTokens, NEW b \in RouteTokens, NEW tier \in AskedTiers,
         NEW offer \in RouteOffers, NEW least \in RouteMinima, NEW deadline,
         ExactInputSingle(a, b, tier, offer, least, deadline)
  PROVE  RoutingIInv'
<1> DEFINE pool == pools[KeyOf(a, b, tier)]
<1>1. PICK down \in BOOLEAN, paid \in 0 .. offer, out \in 0 .. MaxOut :
        /\ Trades(pool, a, b, down)
        /\ Result(down, Deltas(down, paid, out)).out >= least
        /\ lastRoute' = [moved |-> TRUE, tokenIn |-> a, tokenOut |-> b, offer |-> offer, minimum |-> least,
                         holdings |-> HoldingsMove(pool, Deltas(down, paid, out)),
                         result |-> Result(down, Deltas(down, paid, out))]
  BY DEF ExactInputSingle
<1>2. a # b /\ UNCHANGED registry /\ offer \in Nat /\ least \in Nat
  BY DEF ExactInputSingle
<1> DEFINE d == Deltas(down, paid, out)
           h == HoldingsMove(pool, d)
           r == Result(down, d)
<1> HIDE DEF pool
<1>3. /\ r.in = paid /\ r.out = out /\ h[a] = -paid /\ h[b] = out
      /\ \A t \in RouteTokens \ {a, b} : h[t] = 0
  BY <1>1, <1>2, RouteMoves
<1> HIDE DEF d, h, r
<1>4. lastRoute' = [moved |-> TRUE, tokenIn |-> a, tokenOut |-> b, offer |-> offer, minimum |-> least,
                    holdings |-> h, result |-> r] /\ r.out >= least
  BY <1>1 DEF d, h, r
<1>5. MovesAsAsked'
  BY <1>2, <1>3, <1>4 DEF MovesAsAsked
<1> QED BY <1>2, <1>5 DEF RoutingIInv, KeysInOrder

LEMMA RoutingStep == RoutingIInv /\ [RoutingNext]_routingVars => RoutingIInv'
<1> SUFFICES ASSUME RoutingIInv, [RoutingNext]_routingVars PROVE RoutingIInv'
  OBVIOUS
<1>1. ASSUME NEW a \in RouteTokens, NEW b \in RouteTokens, NEW tier \in AskedTiers, CreatePool(a, b, tier)
      PROVE  RoutingIInv'
  <2>1. registry' = registry \cup {KeyOf(a, b, tier)} /\ a # b /\ UNCHANGED lastRoute
    BY <1>1 DEF CreatePool
  <2>2. KeyOf(a, b, tier) \in Keys /\ KeyOf(a, b, tier).token0 < KeyOf(a, b, tier).token1
    BY <2>1, KeyInOrder
  <2> QED BY <2>1, <2>2 DEF RoutingIInv, KeysInOrder, MovesAsAsked
<1>2. ASSUME UNCHANGED <<registry, lastRoute>> PROVE RoutingIInv'
  BY <1>2 DEF RoutingIInv, KeysInOrder, MovesAsAsked
<1>3. ASSUME NEW config \in FactoryConfigs, Configure(config) PROVE RoutingIInv'
  BY <1>2, <1>3 DEF Configure
<1>4. ASSUME NEW key \in Keys, LiquidityMoves(key) \/ \E a, b \in RouteTokens : InitializePool(key, a, b)
      PROVE  RoutingIInv'
  BY <1>2, <1>4 DEF LiquidityMoves, InitializePool
<1>5. CASE RouteTick
  BY <1>2, <1>5 DEF RouteTick
<1>6. CASE UNCHANGED routingVars
  BY <1>2, <1>6 DEF routingVars
<1> QED BY <1>1, <1>3, <1>4, <1>5, <1>6, RouteKeeps DEF RoutingNext

LEMMA RoutingStart == RoutingInit => RoutingIInv
BY DEF RoutingInit, RoutingIInv, KeysInOrder, MovesAsAsked, NoRoute

(* Whatever pools are created and initialized, in any order: the router trades through the one   *)
(* pool of a pair, and moves what its caller asked.                                             *)
THEOREM RoutingSound == RoutingSpec => []RoutingInv
<1>2. RoutingIInv => RoutingInv
  BY OrderGivesOnePool DEF RoutingIInv, RoutingInv
<1> QED BY <1>2, RoutingStart, RoutingStep, PTL DEF RoutingSpec

(***************************************************************************)
(* The fee collector.                                                      *)
(***************************************************************************)
(* FeesInv is inductive once the four ledgers are known to be numbers of tokens. *)

Ledgers ==
  /\ recorded \in [FeeTokens -> Nat] /\ feeFunds \in [FeeTokens -> Nat]
  /\ handedOver \in [FeeTokens -> Nat] /\ withdrawn \in [FeeTokens -> Nat]

FeesIInv == Ledgers /\ FeesInv

LEMMA FeesStart == FeesInit => FeesIInv
BY DEF FeesInit, FeesIInv, Ledgers, FeesInv

LEMMA MoneyUntouched == FeesIInv /\ UNCHANGED feeMoney => FeesIInv'
BY DEF FeesIInv, feeMoney, Ledgers, FeesInv

LEMMA DepositKeeps ==
  ASSUME FeesIInv, NEW token \in FeeTokens, NEW pool \in FeePools, NEW amount \in FeeAmounts,
         DepositProtocolFees(token, pool, amount)
  PROVE  FeesIInv'
<1>1. CASE feeOn
  BY <1>1 DEF DepositProtocolFees, FeesIInv, Ledgers, FeesInv
<1>2. CASE ~feeOn
  BY <1>2, MoneyUntouched DEF DepositProtocolFees, feeMoney
<1> QED BY <1>1, <1>2

LEMMA WithdrawalKeeps ==
  ASSUME FeesIInv, NEW token \in FeeTokens, NEW toItself \in BOOLEAN, CollectProtocolFees(token, toItself)
  PROVE  FeesIInv'
BY DEF CollectProtocolFees, FeesIInv, Ledgers, FeesInv

LEMMA TransferKeeps ==
  ASSUME FeesIInv, NEW token \in FeeTokens, NEW amount \in FeeAmounts, PlainTransfer(token, amount)
  PROVE  FeesIInv'
BY DEF PlainTransfer, FeesIInv, Ledgers, FeesInv

LEMMA FeesStep == FeesIInv /\ [FeesNext]_feeVars => FeesIInv'
<1> SUFFICES ASSUME FeesIInv, [FeesNext]_feeVars PROVE FeesIInv'
  OBVIOUS
<1>1. CASE InitializeCollector
  BY <1>1, MoneyUntouched DEF InitializeCollector
<1>2. ASSUME NEW on \in BOOLEAN, SetFeeSwitch(on) PROVE FeesIInv'
  BY <1>2, MoneyUntouched DEF SetFeeSwitch
<1>3. ASSUME NEW pool \in FeePools, NEW yes \in BOOLEAN, SetAuthorizedPool(pool, yes) PROVE FeesIInv'
  BY <1>3, MoneyUntouched DEF SetAuthorizedPool
<1>4. CASE UNCHANGED feeVars
  BY <1>4, MoneyUntouched DEF feeVars
<1> QED BY <1>1, <1>2, <1>3, <1>4, DepositKeeps, WithdrawalKeeps, TransferKeeps DEF FeesNext

(* A withdrawal never lacks the funds, and no fee that a pool handed over is lost from the books. *)
THEOREM FeesSound == FeesSpec => []FeesInv
<1>1. FeesIInv => FeesInv
  BY DEF FeesIInv
<1> QED BY <1>1, FeesStart, FeesStep, PTL DEF FeesSpec

(***************************************************************************)
(* The older pool.  Its books are sums over every usable tick and over every *)
(* id a caller may choose, so a call changes them by what it moves, whatever *)
(* range it names.                                                          *)
(***************************************************************************)
GrossOf == [t \in PoolTicks |-> Gross(t)]
NetOf   == [t \in PoolTicks |-> InfoOf(t).net]
UnitsIn == [id \in PoolIds |-> UnitsOf(id)]

LegacyTypes ==
  /\ DOMAIN poolTicks \subseteq PoolTicks /\ DOMAIN poolPositions \subseteq PoolIds
  /\ GrossOf \in [PoolTicks -> Nat] /\ NetOf \in [PoolTicks -> Int] /\ UnitsIn \in [PoolIds -> Int]
  /\ handFlipped \subseteq PoolTicks

UnitsBalance ==
  /\ SumOf(GrossOf, PoolTicks) = SumOf(UnitsIn, PoolIds) + SumOf(UnitsIn, PoolIds)
  /\ SumOf(NetOf, PoolTicks) = 0

BitsBalance ==
  /\ BitsFit(poolBitmap)
  /\ \A t \in PoolTicks : BitSet(poolBitmap, t) <=> (GrossOf[t] # 0) # (t \in handFlipped)

LegacyIInv == LegacyTypes /\ UnitsBalance /\ BitsBalance

LEMMA UsableTicks == PoolTicks = TickRange /\ IsFiniteSet(PoolTicks)
<1>1. IsFiniteSet(MinTick .. MaxTick)
  BY FS_Interval, TickBitmapAssumption
<1>2. PoolTicks \subseteq MinTick .. MaxTick /\ PoolTicks = TickRange
  BY DEF PoolTicks, TickRange
<1> QED BY <1>1, <1>2, FS_Subset

(* The sums that UnitsAtTicks speaks of. *)
LEMMA GrossIs == MapThenSumSet(Gross, PoolTicks) = SumOf(GrossOf, PoolTicks)
<1> DEFINE Adds(iter) == iter = [s \in SUBSET PoolTicks |-> IF s = {} THEN 0 ELSE Gross(First(s)) + iter[s \ {First(s)}]]
           it == CHOOSE iter : Adds(iter)
<1>1. MapThenSumSet(Gross, PoolTicks) = it[PoolTicks]
  BY DEF MapThenSumSet, MapThenFoldSet, First
<1>2. \A s \in SUBSET PoolTicks : s # {} => GrossOf[First(s)] = Gross(First(s))
  BY FirstIsMember DEF GrossOf
<1>3. ASSUME NEW iter PROVE Adds(iter) <=> Sums(GrossOf, PoolTicks, iter)
  BY <1>2 DEF Sums, SumsUpTo
<1>4. \E iter : Adds(iter)
  BY <1>3, UsableTicks, SumExists
<1> HIDE DEF Adds
<1>5. Adds(it)
  BY <1>4
<1> HIDE DEF it
<1> QED BY <1>1, <1>3, <1>5, UsableTicks, SumIs

LEMMA NetIs == MapThenSumSet(LAMBDA t : InfoOf(t).net, PoolTicks) = SumOf(NetOf, PoolTicks)
<1> DEFINE Adds(iter) == iter = [s \in SUBSET PoolTicks |-> IF s = {} THEN 0 ELSE InfoOf(First(s)).net + iter[s \ {First(s)}]]
           it == CHOOSE iter : Adds(iter)
<1>1. MapThenSumSet(LAMBDA t : InfoOf(t).net, PoolTicks) = it[PoolTicks]
  BY DEF MapThenSumSet, MapThenFoldSet, First
<1>2. \A s \in SUBSET PoolTicks : s # {} => NetOf[First(s)] = InfoOf(First(s)).net
  BY FirstIsMember DEF NetOf
<1>3. ASSUME NEW iter PROVE Adds(iter) <=> Sums(NetOf, PoolTicks, iter)
  BY <1>2 DEF Sums, SumsUpTo
<1>4. \E iter : Adds(iter)
  BY <1>3, UsableTicks, SumExists
<1> HIDE DEF Adds
<1>5. Adds(it)
  BY <1>4
<1> HIDE DEF it
<1> QED BY <1>1, <1>3, <1>5, UsableTicks, SumIs

LEMMA UnitsAre == MapThenSumSet(UnitsOf, PoolIds) = SumOf(UnitsIn, PoolIds)
<1> DEFINE Adds(iter) == iter = [s \in SUBSET PoolIds |-> IF s = {} THEN 0 ELSE UnitsOf(First(s)) + iter[s \ {First(s)}]]
           it == CHOOSE iter : Adds(iter)
<1>1. MapThenSumSet(UnitsOf, PoolIds) = it[PoolIds]
  BY DEF MapThenSumSet, MapThenFoldSet, First
<1>2. \A s \in SUBSET PoolIds : s # {} => UnitsIn[First(s)] = UnitsOf(First(s))
  BY FirstIsMember DEF UnitsIn
<1>3. ASSUME NEW iter PROVE Adds(iter) <=> Sums(UnitsIn, PoolIds, iter)
  BY <1>2 DEF Sums, SumsUpTo
<1>4. IsFiniteSet(PoolIds)
  BY LegacyAssumption
<1>5. \E iter : Adds(iter)
  BY <1>3, <1>4, SumExists
<1> HIDE DEF Adds
<1>6. Adds(it)
  BY <1>5
<1> HIDE DEF it
<1> QED BY <1>1, <1>3, <1>4, <1>6, SumIs

(* update_tick at both ends. *)
LEMMA RangeMoves ==
  ASSUME LegacyTypes, NEW lower \in PoolTicks, NEW upper \in PoolTicks, NEW d \in Int,
         MovesRange(lower, upper, d), Gross(lower) + d >= 0, Gross(upper) + d >= 0
  PROVE  /\ lower # upper /\ UNCHANGED handFlipped
         /\ DOMAIN poolTicks' \subseteq PoolTicks
         /\ GrossOf' \in [PoolTicks -> Nat] /\ NetOf' \in [PoolTicks -> Int]
         /\ GrossOf'[lower] = GrossOf[lower] + d /\ GrossOf'[upper] = GrossOf[upper] + d
         /\ NetOf'[lower] = NetOf[lower] + d /\ NetOf'[upper] = NetOf[upper] - d
         /\ \A t \in PoolTicks \ {lower, upper} : GrossOf'[t] = GrossOf[t] /\ NetOf'[t] = NetOf[t]
<1>1. lower # upper /\ UNCHANGED handFlipped /\ poolTicks' = RangeMoved(lower, upper, d)
  <2>1. lower \in Int /\ upper \in Int
    BY TickBitmapAssumption DEF PoolTicks
  <2> QED BY <2>1 DEF MovesRange
<1>2. \A t \in PoolTicks : Gross(t) \in Nat /\ InfoOf(t).net \in Int
                           /\ GrossOf[t] = InfoOf(t).gross /\ NetOf[t] = InfoOf(t).net
  BY DEF LegacyTypes, GrossOf, NetOf, Gross
<1>3. /\ DOMAIN poolTicks' = DOMAIN poolTicks \cup {lower, upper}
      /\ poolTicks'[lower] = [gross |-> InfoOf(lower).gross + d, net |-> InfoOf(lower).net + d]
      /\ poolTicks'[upper] = [gross |-> InfoOf(upper).gross + d, net |-> InfoOf(upper).net + (-d)]
      /\ \A t \in DOMAIN poolTicks \ {lower, upper} : poolTicks'[t] = poolTicks[t]
  BY <1>1 DEF RangeMoved
<1>4. /\ InfoOf(lower)' = [gross |-> InfoOf(lower).gross + d, net |-> InfoOf(lower).net + d]
      /\ InfoOf(upper)' = [gross |-> InfoOf(upper).gross + d, net |-> InfoOf(upper).net + (-d)]
  BY <1>3 DEF InfoOf
<1>5. \A t \in PoolTicks \ {lower, upper} : InfoOf(t)' = InfoOf(t)
  BY <1>3 DEF InfoOf
<1>6. \A t \in PoolTicks : GrossOf'[t] = InfoOf(t)'.gross /\ NetOf'[t] = InfoOf(t)'.net
  BY DEF GrossOf, NetOf, Gross
<1>7. /\ GrossOf'[lower] = GrossOf[lower] + d /\ GrossOf'[upper] = GrossOf[upper] + d
      /\ NetOf'[lower] = NetOf[lower] + d /\ NetOf'[upper] = NetOf[upper] - d
  BY <1>2, <1>4, <1>6
<1>8. \A t \in PoolTicks \ {lower, upper} : GrossOf'[t] = GrossOf[t] /\ NetOf'[t] = NetOf[t]
  BY <1>2, <1>5, <1>6
<1>9. \A t \in PoolTicks : GrossOf'[t] \in Nat /\ NetOf'[t] \in Int
  BY <1>2, <1>7, <1>8 DEF Gross
<1>10. GrossOf' = [t \in PoolTicks |-> GrossOf'[t]] /\ NetOf' = [t \in PoolTicks |-> NetOf'[t]]
  BY DEF GrossOf, NetOf
<1>11. DOMAIN poolTicks' \subseteq PoolTicks
  BY <1>3 DEF LegacyTypes
<1> QED BY <1>1, <1>7, <1>8, <1>9, <1>10, <1>11

(* A mint or a burn keeps the books. *)
LEMMA RangeBalances ==
  ASSUME LegacyIInv, NEW lower \in PoolTicks, NEW upper \in PoolTicks, NEW d \in Int,
         MovesRange(lower, upper, d), Gross(lower) + d >= 0, Gross(upper) + d >= 0,
         DOMAIN poolPositions' \subseteq PoolIds, NEW id \in PoolIds,
         UnitsIn'[id] = UnitsIn[id] + d, \A i \in PoolIds \ {id} : UnitsIn'[i] = UnitsIn[i]
  PROVE  LegacyIInv'
<1>1. LegacyTypes /\ UnitsBalance /\ BitsBalance
  BY DEF LegacyIInv
<1>2. PICK g, gn, n, nn, u, un :
        g = GrossOf /\ gn = GrossOf' /\ n = NetOf /\ nn = NetOf' /\ u = UnitsIn /\ un = UnitsIn'
  OBVIOUS
<1>3. /\ lower # upper /\ UNCHANGED handFlipped /\ DOMAIN poolTicks' \subseteq PoolTicks
      /\ g \in [PoolTicks -> Nat] /\ n \in [PoolTicks -> Int] /\ u \in [PoolIds -> Int]
      /\ gn \in [PoolTicks -> Nat] /\ nn \in [PoolTicks -> Int]
      /\ gn[lower] = g[lower] + d /\ gn[upper] = g[upper] + d
      /\ nn[lower] = n[lower] + d /\ nn[upper] = n[upper] - d
      /\ \A t \in PoolTicks \ {lower, upper} : gn[t] = g[t] /\ nn[t] = n[t]
  BY <1>1, <1>2, RangeMoves DEF LegacyTypes
<1>4. un \in [PoolIds -> Int] /\ un[id] = u[id] + d /\ \A i \in PoolIds \ {id} : un[i] = u[i]
  <2>1. un = [i \in PoolIds |-> un[i]]
    BY <1>2 DEF UnitsIn
  <2>2. un[id] = u[id] + d /\ \A i \in PoolIds \ {id} : un[i] = u[i]
    BY <1>2
  <2>3. \A i \in PoolIds : un[i] \in Int
    BY <1>3, <2>2
  <2> QED BY <2>1, <2>2, <2>3
<1>5. LegacyTypes'
  BY <1>1, <1>2, <1>3, <1>4 DEF LegacyTypes
<1>6. IsFiniteSet(PoolTicks) /\ IsFiniteSet(PoolIds)
  BY UsableTicks, LegacyAssumption
<1>7. UnitsBalance'
  <2>1. PICK sg \in Int, sn \in Int, su \in Int :
          sg = SumOf(g, PoolTicks) /\ sn = SumOf(n, PoolTicks) /\ su = SumOf(u, PoolIds)
    <3>1. SumOf(g, PoolTicks) \in Int
      BY <1>3, <1>6, SumTyped
    <3>2. SumOf(n, PoolTicks) \in Int
      BY <1>3, <1>6, SumTyped
    <3>3. SumOf(u, PoolIds) \in Int
      BY <1>3, <1>6, SumTyped
    <3> QED BY <3>1, <3>2, <3>3
  <2>2. SumOf(gn, PoolTicks) = sg + (d + d)
    <3>1. SumOf(gn, PoolTicks) = sg + ((gn[lower] - g[lower]) + (gn[upper] - g[upper]))
      <4>1. /\ \A x \in PoolTicks : g[x] \in Int /\ gn[x] \in Int
            /\ \A x \in PoolTicks \ {lower, upper} : gn[x] = g[x]
        BY <1>3
      <4>2. SumOf(gn, PoolTicks) = SumOf(g, PoolTicks) + ((gn[lower] - g[lower]) + (gn[upper] - g[upper]))
        <5>1. PICK S : S = PoolTicks
          OBVIOUS
        <5>2. /\ IsFiniteSet(S) /\ lower \in S /\ upper \in S /\ lower # upper
              /\ \A x \in S : g[x] \in Int /\ gn[x] \in Int
              /\ \A x \in S \ {lower, upper} : gn[x] = g[x]
          BY <1>3, <1>6, <4>1, <5>1
        <5>3. SumOf(gn, S) = SumOf(g, S) + ((gn[lower] - g[lower]) + (gn[upper] - g[upper]))
          BY <5>2, SumChangesTwo
        <5> QED BY <5>1, <5>3
      <4> QED BY <2>1, <4>2
    <3>2. gn[lower] - g[lower] = d /\ gn[upper] - g[upper] = d
      BY <1>3
    <3> QED BY <3>1, <3>2
  <2>3. SumOf(nn, PoolTicks) = sn + (d + (-d))
    <3>1. SumOf(nn, PoolTicks) = sn + ((nn[lower] - n[lower]) + (nn[upper] - n[upper]))
      <4>1. /\ \A x \in PoolTicks : n[x] \in Int /\ nn[x] \in Int
            /\ \A x \in PoolTicks \ {lower, upper} : nn[x] = n[x]
        BY <1>3
      <4>2. SumOf(nn, PoolTicks) = SumOf(n, PoolTicks) + ((nn[lower] - n[lower]) + (nn[upper] - n[upper]))
        <5>1. PICK S : S = PoolTicks
          OBVIOUS
        <5>2. /\ IsFiniteSet(S) /\ lower \in S /\ upper \in S /\ lower # upper
              /\ \A x \in S : n[x] \in Int /\ nn[x] \in Int
              /\ \A x \in S \ {lower, upper} : nn[x] = n[x]
          BY <1>3, <1>6, <4>1, <5>1
        <5>3. SumOf(nn, S) = SumOf(n, S) + ((nn[lower] - n[lower]) + (nn[upper] - n[upper]))
          BY <5>2, SumChangesTwo
        <5> QED BY <5>1, <5>3
      <4> QED BY <2>1, <4>2
    <3>2. nn[lower] - n[lower] = d /\ nn[upper] - n[upper] = -d
      BY <1>3
    <3> QED BY <3>1, <3>2
  <2>4. SumOf(un, PoolIds) = su + d
    <3>1. SumOf(un, PoolIds) = su + (un[id] - u[id])
      BY <1>3, <1>4, <1>6, <2>1, SumChanges
    <3>2. un[id] - u[id] = d
      BY <1>3, <1>4
    <3> QED BY <3>1, <3>2
  <2>5. sg = su + su /\ sn = 0
    BY <1>1, <1>2, <2>1 DEF UnitsBalance
  <2>6. SumOf(gn, PoolTicks) = SumOf(un, PoolIds) + SumOf(un, PoolIds) /\ SumOf(nn, PoolTicks) = 0
    BY <2>1, <2>2, <2>3, <2>4, <2>5
  <2> QED BY <1>2, <2>6 DEF UnitsBalance
<1>8. BitsBalance'
  <2> DEFINE one == IF FlipsAt(lower, d) THEN Flip(poolBitmap, lower) ELSE poolBitmap
             two == IF FlipsAt(upper, d) THEN Flip(one, upper) ELSE one
  <2>1. poolBitmap' = two
    BY DEF MovesRange, BitsMoved
  <2>2. /\ FlipsAt(lower, d) <=> (gn[lower] = 0) # (g[lower] = 0)
        /\ FlipsAt(upper, d) <=> (gn[upper] = 0) # (g[upper] = 0)
    <3>1. g[lower] = InfoOf(lower).gross /\ g[upper] = InfoOf(upper).gross
      BY <1>2 DEF GrossOf, Gross
    <3> QED BY <1>3, <3>1 DEF FlipsAt
  <2>3. BitsFit(poolBitmap) /\ lower \in TickRange /\ upper \in TickRange
    BY <1>1, UsableTicks DEF BitsBalance
  <2>4. BitsFit(one) /\ DOMAIN one = Words /\ DOMAIN poolBitmap = Words
    BY <2>3, FlipFits DEF BitsFit
  <2>5. /\ BitSet(one, lower) <=> (BitSet(poolBitmap, lower) # FlipsAt(lower, d))
        /\ \A t \in PoolTicks \ {lower} : BitSet(one, t) <=> BitSet(poolBitmap, t)
    BY <2>3, <2>4, FlipOne, UsableTicks DEF BitSet, FlipsAt
  <2> HIDE DEF one
  <2>6. BitsFit(two)
    BY <2>3, <2>4, FlipFits
  <2>7. /\ BitSet(two, upper) <=> (BitSet(one, upper) # FlipsAt(upper, d))
        /\ \A t \in PoolTicks \ {upper} : BitSet(two, t) <=> BitSet(one, t)
    BY <2>3, <2>4, FlipOne, UsableTicks DEF BitSet, FlipsAt
  <2> HIDE DEF two
  <2>8. \A t \in PoolTicks : BitSet(poolBitmap, t) <=> (g[t] # 0) # (t \in handFlipped)
    BY <1>1, <1>2 DEF BitsBalance
  <2>9. ASSUME NEW t \in PoolTicks
        PROVE  BitSet(two, t) <=> (gn[t] # 0) # (t \in handFlipped)
    <3>1. CASE t = lower
      BY <1>3, <2>2, <2>5, <2>7, <2>8, <3>1 DEF BitSet, FlipsAt
    <3>2. CASE t = upper
      BY <1>3, <2>2, <2>5, <2>7, <2>8, <3>2 DEF BitSet, FlipsAt
    <3>3. CASE t \notin {lower, upper}
      BY <1>3, <2>5, <2>7, <2>8, <3>3 DEF BitSet
    <3> QED BY <3>1, <3>2, <3>3
  <2> QED BY <1>2, <1>3, <2>1, <2>6, <2>9 DEF BitsBalance
<1> QED BY <1>5, <1>7, <1>8 DEF LegacyIInv

LEMMA MintBalances ==
  ASSUME LegacyIInv, NEW id \in PoolIds, NEW lower \in PoolTicks, NEW upper \in PoolTicks,
         NEW n \in PoolAmounts, MintUnits(id, lower, upper, n)
  PROVE  LegacyIInv'
<1>1. n \in Nat /\ n \in Int
  BY LegacyAssumption
<1>2. MovesRange(lower, upper, n)
  BY DEF MintUnits
<1>3. Gross(lower) + n >= 0 /\ Gross(upper) + n >= 0
  <2>1. Gross(lower) \in Nat /\ Gross(upper) \in Nat
    BY DEF LegacyIInv, LegacyTypes, GrossOf
  <2> QED BY <1>1, <2>1
<1>4. /\ DOMAIN poolPositions' = DOMAIN poolPositions \cup {id} /\ poolPositions'[id] = UnitsOf(id) + n
      /\ \A i \in DOMAIN poolPositions \ {id} : poolPositions'[i] = poolPositions[i]
  BY DEF MintUnits
<1>5. UnitsIn'[id] = UnitsIn[id] + n /\ \A i \in PoolIds \ {id} : UnitsIn'[i] = UnitsIn[i]
  <2>1. \A i \in PoolIds : UnitsIn'[i] = UnitsOf(i)' /\ UnitsIn[i] = UnitsOf(i)
    BY DEF UnitsIn
  <2>2. UnitsOf(id)' = UnitsOf(id) + n /\ \A i \in PoolIds \ {id} : UnitsOf(i)' = UnitsOf(i)
    BY <1>4 DEF UnitsOf
  <2> QED BY <2>1, <2>2
<1>6. DOMAIN poolPositions' \subseteq PoolIds
  BY <1>4 DEF LegacyIInv, LegacyTypes
<1> QED BY <1>1, <1>2, <1>3, <1>5, <1>6, RangeBalances

(* A burn that leaves nothing drops the position, which then reads as zero. *)
LEMMA BurnBalances ==
  ASSUME LegacyIInv, NEW id \in PoolIds, NEW lower \in PoolTicks, NEW upper \in PoolTicks,
         NEW n \in PoolAmounts, BurnUnits(id, lower, upper, n)
  PROVE  LegacyIInv'
<1>1. PICK d \in Int : d = -n /\ n \in Nat
  BY LegacyAssumption
<1>2. MovesRange(lower, upper, d)
  BY <1>1 DEF BurnUnits
<1>3. Gross(lower) + d >= 0 /\ Gross(upper) + d >= 0
  <2>1. Gross(lower) \in Nat /\ Gross(upper) \in Nat
    BY DEF LegacyIInv, LegacyTypes, GrossOf
  <2>2. Gross(lower) >= n /\ Gross(upper) >= n
    BY DEF BurnUnits, CountersHold, Gross
  <2> QED BY <1>1, <2>1, <2>2
<1>4. \A i \in PoolIds : UnitsIn'[i] = UnitsOf(i)' /\ UnitsIn[i] = UnitsOf(i) /\ UnitsOf(i) \in Int
  BY DEF UnitsIn, LegacyIInv, LegacyTypes
<1>5. /\ DOMAIN poolPositions' \subseteq DOMAIN poolPositions
      /\ UnitsOf(id)' = UnitsOf(id) - n /\ \A i \in PoolIds \ {id} : UnitsOf(i)' = UnitsOf(i)
  <2>1. CASE UnitsOf(id) - n = 0
    <3>1. poolPositions' = [i \in DOMAIN poolPositions \ {id} |-> poolPositions[i]]
      BY <2>1 DEF BurnUnits
    <3> QED BY <2>1, <3>1 DEF UnitsOf
  <2>2. CASE UnitsOf(id) - n # 0
    <3>1. poolPositions' = [poolPositions EXCEPT ![id] = UnitsOf(id) - n] /\ id \in DOMAIN poolPositions
      BY <2>2 DEF BurnUnits
    <3> QED BY <3>1 DEF UnitsOf
  <2> QED BY <2>1, <2>2
<1>6. UnitsIn'[id] = UnitsIn[id] + d /\ \A i \in PoolIds \ {id} : UnitsIn'[i] = UnitsIn[i]
  BY <1>1, <1>4, <1>5
<1>7. DOMAIN poolPositions' \subseteq PoolIds
  BY <1>5 DEF LegacyIInv, LegacyTypes
<1> QED BY <1>1, <1>2, <1>3, <1>6, <1>7, RangeBalances

LEMMA HandFlipBalances ==
  ASSUME LegacyIInv, NEW t \in PoolTicks, FlipTick(t)
  PROVE  LegacyIInv'
<1>1. /\ UNCHANGED <<poolTicks, poolPositions>> /\ poolBitmap' = Flip(poolBitmap, t)
      /\ handFlipped' = IF t \in handFlipped THEN handFlipped \ {t} ELSE handFlipped \cup {t}
  BY DEF FlipTick
<1>2. UNCHANGED <<GrossOf, NetOf, UnitsIn>>
  BY <1>1 DEF GrossOf, NetOf, UnitsIn, Gross, InfoOf, UnitsOf
<1>3. LegacyTypes' /\ UnitsBalance'
  BY <1>1, <1>2 DEF LegacyIInv, LegacyTypes, UnitsBalance
<1>4. BitsFit(poolBitmap) /\ t \in TickRange
  BY UsableTicks DEF LegacyIInv, BitsBalance
<1>5. BitsFit(poolBitmap')
  BY <1>1, <1>4, FlipFits
<1>6. /\ BitSet(poolBitmap', t) <=> ~BitSet(poolBitmap, t)
      /\ \A u \in PoolTicks \ {t} : BitSet(poolBitmap', u) <=> BitSet(poolBitmap, u)
  BY <1>1, <1>4, FlipOne, UsableTicks DEF BitsFit
<1>7. \A u \in PoolTicks : BitSet(poolBitmap', u) <=> (GrossOf[u] # 0) # (u \in handFlipped')
  BY <1>1, <1>6 DEF LegacyIInv, BitsBalance, BitSet
<1> QED BY <1>2, <1>3, <1>5, <1>7 DEF LegacyIInv, BitsBalance

LEMMA BooksUntouched ==
  LegacyIInv /\ UNCHANGED <<tickVars, poolPositions>> => LegacyIInv'
BY DEF tickVars, LegacyIInv, LegacyTypes, UnitsBalance, BitsBalance, GrossOf, NetOf, UnitsIn,
       Gross, InfoOf, UnitsOf

LEMMA LegacyStart == LegacyInit => LegacyIInv
<1> SUFFICES ASSUME LegacyInit PROVE LegacyIInv
  OBVIOUS
<1>1. DOMAIN poolTicks = {} /\ DOMAIN poolPositions = {} /\ poolBitmap = EmptyBitmap /\ handFlipped = {}
  BY DEF LegacyInit
<1>2. PICK g, n, u : g = GrossOf /\ n = NetOf /\ u = UnitsIn
  OBVIOUS
<1>3. /\ g = [t \in PoolTicks |-> 0] /\ n = [t \in PoolTicks |-> 0] /\ u = [i \in PoolIds |-> 0]
  BY <1>1, <1>2 DEF GrossOf, NetOf, UnitsIn, Gross, InfoOf, UnitsOf
<1>4. LegacyTypes
  BY <1>1, <1>2, <1>3 DEF LegacyTypes
<1>5. UnitsBalance
  <2>1. SumOf(g, PoolTicks) = 0
    BY <1>3, UsableTicks, SumZero
  <2>2. SumOf(n, PoolTicks) = 0
    BY <1>3, UsableTicks, SumZero
  <2>3. SumOf(u, PoolIds) = 0
    BY <1>3, LegacyAssumption, SumZero
  <2> QED BY <1>2, <2>1, <2>2, <2>3 DEF UnitsBalance
<1>6. BitsBalance
  <2>1. BitsFit(poolBitmap)
    BY <1>1 DEF BitsFit, EmptyBitmap
  <2>2. \A t \in PoolTicks : ~BitSet(poolBitmap, t)
    BY <1>1, TickPlace, UsableTicks DEF BitSet, EmptyBitmap
  <2> QED BY <1>1, <1>2, <1>3, <2>1, <2>2 DEF BitsBalance
<1> QED BY <1>4, <1>5, <1>6 DEF LegacyIInv

LEMMA LegacyStep == LegacyIInv /\ [LegacyNext]_legacyVars => LegacyIInv'
<1> SUFFICES ASSUME LegacyIInv, [LegacyNext]_legacyVars PROVE LegacyIInv'
  OBVIOUS
<1>1. ASSUME UNCHANGED <<tickVars, poolPositions>> PROVE LegacyIInv'
  BY <1>1, BooksUntouched
<1>2. ASSUME NEW down \in BOOLEAN, NEW n \in PoolOffers, NEW limit \in PoolLimits, SwapUnits(down, n, limit)
      PROVE  LegacyIInv'
  BY <1>1, <1>2 DEF SwapUnits
<1>3. ASSUME NEW t \in PoolTicks, CrossTick(t) PROVE LegacyIInv'
  BY <1>1, <1>3 DEF CrossTick
<1>4. ASSUME NEW p \in PoolPrices, SetPrice(p) PROVE LegacyIInv'
  BY <1>1, <1>4 DEF SetPrice
<1>5. CASE SetPoolOracle \/ PoolTick
  BY <1>1, <1>5 DEF SetPoolOracle, PoolTick
<1>6. CASE UNCHANGED legacyVars
  BY <1>1, <1>6 DEF legacyVars
<1> QED
  BY <1>2, <1>3, <1>4, <1>5, <1>6, MintBalances, BurnBalances, HandFlipBalances DEF LegacyNext

(* A multiple of n is found again by division, and on either side of zero.  *)
LEMMA DividesBack ==
  ASSUME NEW t \in Int, NEW n \in Nat \ {0}, t % n = 0
  PROVE  (IF t >= 0 THEN t \div n ELSE -((-t) \div n)) * n = t
<1>1. PICK q \in Int : q = t \div n /\ t = q * n
  <2>1. PICK q \in Int : q = t \div n /\ t = q * n + 0
    BY DivParts
  <2>2. q * n + 0 = q * n
    OBVIOUS
  <2> QED BY <2>1, <2>2
<1>2. (-t) \div n = -q
  <2>1. PICK p \in Int : p = -q
    OBVIOUS
  <2>2. p * n + q * n = 0
    <3>1. (p + q) * n = p * n + q * n /\ p + q = 0
      BY <2>1
    <3> QED BY <3>1
  <2>3. PICK x \in Int, y \in Int : x = p * n /\ y = q * n
    OBVIOUS
  <2>4. -t = x + 0
    BY <1>1, <2>2, <2>3
  <2>5. (p * n + 0) \div n = p
    <3>1. 0 \in 0 .. n - 1
      OBVIOUS
    <3> QED BY <3>1, DivUnique
  <2> QED BY <2>1, <2>3, <2>4, <2>5
<1>3. -(-q) = q
  OBVIOUS
<1> QED BY <1>1, <1>2, <1>3

(* The search starts at the multiple of the spacing that division finds,    *)
(* which is on the same side of every usable tick.                          *)
LEMMA DividedSearch ==
  ASSUME LegacyIInv, handFlipped = {}, NEW t \in MinTick .. MaxTick, NEW lte \in BOOLEAN, t >= 0 \/ ValidTick(t)
  PROVE  NextPoolTick(t, lte) = NextOf(Initialized, t, lte)
<1>1. PICK m : m = (IF t >= 0 THEN t \div Spacing ELSE -((-t) \div Spacing)) * Spacing
  OBVIOUS
<1>2. Spacing \in Nat \ {0} /\ t \in Int
  BY TickBitmapAssumption
<1>3. m \in Int /\ \A u \in TickRange : (u <= m <=> u <= t) /\ (u > m <=> u > t)
  <2>1. CASE ValidTick(t)
    <3>1. t % Spacing = 0
      BY <2>1 DEF ValidTick
    <3>2. m = t
      BY <1>1, <1>2, <3>1, DividesBack
    <3> QED BY <1>2, <3>2
  <2>2. CASE t >= 0
    <3>1. PICK q \in Int, r \in 0 .. Spacing - 1 : q = t \div Spacing /\ t = q * Spacing + r
      BY <1>2, DivParts
    <3>2. m = q * Spacing
      BY <1>1, <2>2, <3>1
    <3>3. PICK k \in Int : k = q * Spacing
      BY <1>2, <3>1
    <3>4. ASSUME NEW u \in TickRange PROVE u \in Int /\ (u <= k <=> u <= t)
      <4>1. PICK c \in Int : u = c * Spacing
        BY TickPlace
      <4>2. c * Spacing <= t <=> c <= q
        BY <1>2, <3>1, <4>1, FitsIn
      <4>3. c * Spacing <= k <=> c <= k \div Spacing
        BY <1>2, <3>3, <4>1, FitsIn
      <4>4. k \div Spacing = q
        <5>1. 0 \in 0 .. Spacing - 1 /\ k = q * Spacing + 0
          BY <1>2, <3>3
        <5> QED BY <1>2, <3>1, <5>1, DivUnique
      <4> QED BY <1>2, <4>1, <4>2, <4>3, <4>4
    <3>5. \A u \in Int : (u > k <=> ~(u <= k)) /\ (u > t <=> ~(u <= t))
      BY <1>2, <3>3
    <3> QED BY <3>2, <3>3, <3>4, <3>5
  <2> QED BY <2>1, <2>2
<1>4. NextPoolTick(t, lte) = NextInitializedTick(poolBitmap, m, lte)
  BY <1>1 DEF NextPoolTick
<1>5. Initialized \in SUBSET TickRange /\ \A u \in TickRange : BitSet(poolBitmap, u) <=> u \in Initialized
  <2>1. \A u \in PoolTicks : GrossOf[u] = Gross(u) /\ Gross(u) \in Nat
    BY DEF LegacyIInv, LegacyTypes, GrossOf
  <2>2. \A u \in PoolTicks : BitSet(poolBitmap, u) <=> GrossOf[u] # 0
    BY DEF LegacyIInv, BitsBalance, BitSet
  <2>3. \A u \in PoolTicks : u \in Initialized <=> Gross(u) # 0
    BY <2>1 DEF Initialized
  <2> QED BY <2>1, <2>2, <2>3, UsableTicks DEF Initialized
<1>6. NextInitializedTick(poolBitmap, m, lte) = NextOf(Initialized, m, lte)
  <2>1. BitsFit(poolBitmap)
    BY DEF LegacyIInv, BitsBalance
  <2> QED BY <1>3, <1>5, <2>1, SearchAnswers
<1>7. NextOf(Initialized, m, lte) = NextOf(Initialized, t, lte)
  <2>1. {u \in Initialized : IF lte THEN u <= m ELSE u > m} = {u \in Initialized : IF lte THEN u <= t ELSE u > t}
    BY <1>3, <1>5
  <2> QED BY <2>1 DEF NextOf
<1> QED BY <1>4, <1>6, <1>7

LEMMA LegacyGives == LegacyIInv => LegacyInv
<1> SUFFICES ASSUME LegacyIInv PROVE UnitsAtTicks /\ BitsAtTicks
  BY DEF LegacyInv
<1>1. \A t \in PoolTicks : GrossOf[t] = Gross(t) /\ Gross(t) \in Nat
  BY DEF LegacyIInv, LegacyTypes, GrossOf
<1>2. UnitsAtTicks
  <2>1. SumOf(UnitsIn, PoolIds) \in Int
    BY LegacyAssumption, SumTyped DEF LegacyIInv, LegacyTypes
  <2>2. \A x \in Int : x + x = 2 * x
    OBVIOUS
  <2> QED BY <1>1, <2>1, <2>2, GrossIs, NetIs, UnitsAre DEF UnitsAtTicks, LegacyIInv, UnitsBalance
<1>3. BitsAtTicks
  <2>1. \A t \in PoolTicks : t \in Initialized <=> GrossOf[t] # 0
    BY <1>1 DEF Initialized
  <2>2. \A t \in PoolTicks : BitSet(poolBitmap, t) <=> (t \in Initialized) # (t \in handFlipped)
    BY <2>1 DEF LegacyIInv, BitsBalance, BitSet
  <2> QED BY <2>2, DividedSearch DEF BitsAtTicks
<1> QED BY <1>2, <1>3

(* The older pool writes to its oracle at its own time.                     *)
CurveTyped == \E p \in Nat, l \in Nat : \E t : poolState = [price |-> p, tick |-> t, liquidity |-> l]

LEMMA AfterFeeTyped == ASSUME NEW n \in PoolOffers PROVE AfterFee(n) \in Nat
<1>1. n \in Nat /\ PoolFeePart \in Nat \ {0}
  BY LegacyAssumption
<1>2. PICK q \in Nat : q = n \div PoolFeePart /\ q <= n
  BY <1>1, DivNat, DivShrinks
<1> QED BY <1>1, <1>2 DEF AfterFee

LEMMA SwapPriceTyped ==
  ASSUME CurveTyped, NEW down \in BOOLEAN, NEW n \in PoolOffers, NEW limit \in PoolLimits
  PROVE  PoolPriceAfter(down, AfterFee(n), limit) \in Nat
<1>1. limit \in Nat /\ poolState.price \in Nat /\ poolState.liquidity \in Nat
  BY LegacyAssumption DEF CurveTyped
<1>2. PICK p \in Nat : p = NextSqrtPriceFromInput(poolState.price, poolState.liquidity, AfterFee(n), down)
  BY <1>1, AfterFeeTyped, NextPriceTyped
<1>3. PICK S : S = {p, limit}
  OBVIOUS
<1>4. p \in S /\ limit \in S /\ \A y \in S : y = p \/ y = limit
  BY <1>3
<1>5. p \in Int /\ limit \in Int
  BY <1>1
<1>6. Max(S) \in S /\ Min(S) \in S
  BY <1>4, <1>5, PairExtremes, Zenon
<1>7. \A y \in S : y \in Nat
  BY <1>1, <1>4
<1> QED BY <1>2, <1>3, <1>6, <1>7 DEF PoolPriceAfter

PoolOracleInv == BufferInv /\ CurveTyped /\ WrittenBy(poolNow)

LEMMA CurveMoves ==
  ASSUME LegacyIInv, CurveTyped, NEW lower \in PoolTicks, NEW upper \in PoolTicks, NEW d \in Int,
         MovesRange(lower, upper, d), TickInside(lower, upper) => poolState.liquidity + d >= 0
  PROVE  CurveTyped'
<1>1. PICK p \in Nat, l \in Nat : \E t : poolState = [price |-> p, tick |-> t, liquidity |-> l]
  BY DEF CurveTyped
<1>2. PICK t : poolState = [price |-> p, tick |-> t, liquidity |-> l]
  BY <1>1
<1>3. CASE TickInside(lower, upper)
  <2>1. poolState' = [price |-> p, tick |-> t, liquidity |-> l + d]
    BY <1>2, <1>3 DEF MovesRange
  <2>2. l + d \in Nat
    BY <1>2, <1>3
  <2> QED BY <2>1, <2>2 DEF CurveTyped
<1>4. CASE ~TickInside(lower, upper)
  BY <1>2, <1>4 DEF MovesRange, CurveTyped
<1> QED BY <1>3, <1>4

LEMMA PoolOracleStep == LegacyIInv /\ PoolOracleInv /\ LegacyNext => PoolOracleInv'
<1> SUFFICES ASSUME LegacyIInv, PoolOracleInv, LegacyNext PROVE PoolOracleInv'
  OBVIOUS
<1>1. ASSUME UNCHANGED <<oracleVars, poolNow>>, CurveTyped' PROVE PoolOracleInv'
  BY <1>1 DEF oracleVars, PoolOracleInv, BufferInv, WrittenBy, Filled, Noted, Sorted
<1>2. PICK p \in Nat, l \in Nat : \E t : poolState = [price |-> p, tick |-> t, liquidity |-> l]
  BY DEF PoolOracleInv, CurveTyped
<1>3. PICK t : poolState = [price |-> p, tick |-> t, liquidity |-> l]
  BY <1>2
<1>4. ASSUME NEW id \in PoolIds, NEW lower \in PoolTicks, NEW upper \in PoolTicks, NEW n \in PoolAmounts,
             MintUnits(id, lower, upper, n)
      PROVE  PoolOracleInv'
  <2>1. n \in Nat /\ l + n >= 0
    BY LegacyAssumption
  <2>2. MovesRange(lower, upper, n) /\ UNCHANGED <<oracleVars, poolNow>>
    BY <1>4 DEF MintUnits, MovesRange, wiringVars
  <2> QED BY <1>1, <1>3, <2>1, <2>2, CurveMoves DEF PoolOracleInv
<1>5. ASSUME NEW id \in PoolIds, NEW lower \in PoolTicks, NEW upper \in PoolTicks, NEW n \in PoolAmounts,
             BurnUnits(id, lower, upper, n)
      PROVE  PoolOracleInv'
  <2>1. PICK d \in Int : d = -n /\ n \in Nat
    BY LegacyAssumption
  <2>2. MovesRange(lower, upper, d) /\ UNCHANGED <<oracleVars, poolNow>>
    BY <1>5, <2>1 DEF BurnUnits, MovesRange, wiringVars
  <2>3. TickInside(lower, upper) => poolState.liquidity + d >= 0
    BY <1>3, <1>5, <2>1 DEF BurnUnits, CountersHold
  <2> QED BY <1>1, <2>2, <2>3, CurveMoves DEF PoolOracleInv
<1>6. ASSUME NEW q \in Nat, poolState' = [poolState EXCEPT !.price = q, !.tick = TickOf(q)] PROVE CurveTyped'
  BY <1>3, <1>6 DEF CurveTyped
<1>7. ASSUME NEW down \in BOOLEAN, NEW n \in PoolOffers, NEW limit \in PoolLimits, SwapUnits(down, n, limit)
      PROVE  PoolOracleInv'
  <2>1. PICK q \in Nat : q = PoolPriceAfter(down, AfterFee(n), limit)
    BY SwapPriceTyped DEF PoolOracleInv
  <2>2. CurveTyped' /\ poolNow' = poolNow
    BY <1>6, <1>7, <2>1 DEF SwapUnits, wiringVars
  <2>3. CASE poolOracle
    <3>1. PICK k \in Nat : k = poolNow /\ WrittenBy(k)
      BY DEF PoolOracleInv, WrittenBy
    <3>2. WriteObservation(k, q)
      BY <1>7, <2>1, <2>3, <3>1 DEF SwapUnits
    <3>3. BufferInv' /\ WrittenBy(k)'
      BY <3>1, <3>2, ObservedKeeps DEF PoolOracleInv
    <3> QED BY <2>2, <3>1, <3>3 DEF PoolOracleInv, WrittenBy
  <2>4. CASE ~poolOracle
    BY <1>1, <1>7, <2>2, <2>4 DEF SwapUnits
  <2> QED BY <2>3, <2>4
<1>8. ASSUME NEW u \in PoolTicks, CrossTick(u) PROVE PoolOracleInv'
  <2>1. PICK x \in Int : x = l + InfoOf(u).net
    <3>1. InfoOf(u).net \in Int
      BY DEF LegacyIInv, LegacyTypes, NetOf
    <3> QED BY <3>1
  <2>2. PICK S : S = {0, x}
    OBVIOUS
  <2>3. 0 \in S /\ x \in S /\ \A y \in S : y = 0 \/ y = x
    BY <2>2
  <2>4. 0 \in Int
    OBVIOUS
  <2>5. Max(S) \in S /\ 0 <= Max(S)
    BY <2>3, <2>4, PairExtremes, Zenon
  <2>6. PICK m : m = Max(S)
    OBVIOUS
  <2>7. m \in Nat
    <3>1. m \in S /\ 0 <= m
      BY <2>5, <2>6
    <3>2. m = 0 \/ m = x
      BY <2>3, <3>1
    <3> QED BY <2>1, <3>1, <3>2
  <2>8. poolState' = [poolState EXCEPT !.liquidity = m] /\ UNCHANGED <<oracleVars, poolNow>>
    BY <1>3, <1>8, <2>1, <2>2, <2>6 DEF CrossTick, wiringVars
  <2>9. CurveTyped'
    BY <1>3, <2>7, <2>8 DEF CurveTyped
  <2> QED BY <1>1, <2>8, <2>9
<1>9. ASSUME NEW q \in PoolPrices, SetPrice(q) PROVE PoolOracleInv'
  <2>1. q \in Nat
    BY LegacyAssumption
  <2> QED BY <1>1, <1>6, <1>9, <2>1 DEF SetPrice, wiringVars
<1>10. ASSUME UNCHANGED poolState PROVE CurveTyped'
  BY <1>10 DEF CurveTyped, PoolOracleInv
<1>11. CASE SetPoolOracle \/ \E u \in PoolTicks : FlipTick(u)
  BY <1>1, <1>10, <1>11 DEF SetPoolOracle, FlipTick, wiringVars
<1>12. CASE PoolTick
  <2>1. poolNow' = poolNow + 1 /\ UNCHANGED <<oracleVars, poolState>>
    BY <1>12 DEF PoolTick
  <2>2. \A s \in DOMAIN observations : observations[s].timestamp <= poolNow + 1
    <3> TAKE s \in DOMAIN observations
    <3>1. PICK k \in Nat : observations[s].timestamp = k
      BY DEF PoolOracleInv, BufferInv, Noted
    <3>2. k <= poolNow /\ poolNow \in Nat
      BY <3>1 DEF PoolOracleInv, WrittenBy
    <3> QED BY <3>1, <3>2
  <2> QED BY <1>10, <2>1, <2>2 DEF oracleVars, PoolOracleInv, BufferInv, WrittenBy, Filled, Noted, Sorted
<1> QED BY <1>4, <1>5, <1>7, <1>8, <1>9, <1>11, <1>12 DEF LegacyNext

(***************************************************************************)
(* The contracts together.  Each keeps its own books; the two pools keep an  *)
(* oracle of their own, so whose time the observations are of depends on     *)
(* the pool that is exercised.                                              *)
(***************************************************************************)
BooksIInv == LegacyIInv /\ RoutingIInv /\ FeesIInv /\ TokenInv
OraclesIInv ==
  /\ BufferInv
  /\ contract \in {"book", "cl_pool"} => ClIInv /\ OracleInv
  /\ contract = "pool" => PoolOracleInv

(* The calls of either look at the pool are calls of the pool.              *)
LEMMA CallsAreSteps == BookCalls \/ OracleCalls => Next
<1>1. OneAdd => AddStep
  BY InstanceAssumption DEF OneAdd, AddStep
<1>2. OneSwap => SwapStep
  BY InstanceAssumption DEF OneSwap, SwapStep
<1>3. (\E u \in Users, id \in DOMAIN positions : RemoveAll(u, id)) => RemoveStep
  BY DEF RemoveStep
<1> QED BY <1>1, <1>2, <1>3 DEF BookCalls, OracleCalls, Next

LEMMA ContractsStart == ContractsInit => BooksIInv /\ OraclesIInv
<1> SUFFICES ASSUME ContractsInit PROVE BooksIInv /\ OraclesIInv
  OBVIOUS
<1>1. Init /\ LegacyInit /\ RoutingInit /\ FeesInit
  BY DEF ContractsInit
<1>2. BooksIInv
  BY <1>1, LegacyStart, RoutingStart, FeesStart, TokenInit DEF BooksIInv
<1>3. CurveTyped
  <2>1. PICK p \in PoolPrices : poolState = [price |-> p, tick |-> TickOf(p), liquidity |-> 0]
    BY <1>1 DEF LegacyInit
  <2>2. p \in Nat
    BY LegacyAssumption
  <2> QED BY <2>1, <2>2 DEF CurveTyped
<1>4. BufferInv /\ WrittenBy(poolNow)
  <2>1. poolNow = 0 /\ InitOracle
    BY <1>1 DEF LegacyInit
  <2> QED BY <2>1, BufferInit DEF WrittenBy
<1> QED BY <1>1, <1>2, <1>3, <1>4, ClInit, OracleInit DEF OraclesIInv, PoolOracleInv

LEMMA ContractsStep ==
  ASSUME BooksIInv, OraclesIInv, [ClPoolCalls \/ PoolCalls \/ RouterCalls \/ CollectorCalls]_contractVars
  PROVE  BooksIInv' /\ OraclesIInv'
<1>1. ASSUME UNCHANGED legacyOnly PROVE LegacyIInv'
  BY <1>1, BooksUntouched DEF legacyOnly, BooksIInv
<1>2. ASSUME UNCHANGED routingVars PROVE RoutingIInv'
  BY <1>2, RoutingStep DEF BooksIInv
<1>3. ASSUME UNCHANGED feeVars PROVE FeesIInv'
  BY <1>3, FeesStep DEF BooksIInv
<1>4. ASSUME UNCHANGED <<oracleVars, vars, legacyOnly, contract>> PROVE TokenInv' /\ OraclesIInv'
  <2>1. TokenInv' /\ BufferInv'
    BY <1>4, TokenStep DEF BooksIInv, OraclesIInv, oracleVars, BufferInv, Filled, Noted, Sorted
  <2>2. ASSUME ClIInv /\ OracleInv PROVE (ClIInv /\ OracleInv)'
    BY <1>4, <2>2, ClStep, OracleKeeps
  <2>3. ASSUME PoolOracleInv PROVE PoolOracleInv'
    BY <1>4, <2>1, <2>3 DEF PoolOracleInv, CurveTyped, WrittenBy, oracleVars, legacyOnly, wiringVars
  <2> QED BY <1>4, <2>1, <2>2, <2>3 DEF OraclesIInv
<1>5. CASE ClPoolCalls
  <2>1. contract \in {"book", "cl_pool"} /\ contract' = contract /\ UNCHANGED <<legacyOnly, routingVars, feeVars>>
    BY <1>5 DEF ClPoolCalls
  <2>4. Next
    BY <1>5, CallsAreSteps DEF ClPoolCalls
  <2>2. TokenInv' /\ ClIInv' /\ OracleInv'
    BY <2>1, <2>4, TokenStep, ClStep, OracleKeeps DEF BooksIInv, OraclesIInv
  <2>3. "pool" \notin {"book", "cl_pool"}
    OBVIOUS
  <2> QED BY <1>1, <1>2, <1>3, <2>1, <2>2, <2>3 DEF BooksIInv, OraclesIInv, OracleInv
<1>6. CASE PoolCalls
  <2>1. contract = "pool" /\ contract' = contract /\ LegacyNext /\ UNCHANGED <<clPoolOnly, routingVars, feeVars>>
    BY <1>6 DEF PoolCalls
  <2>2. LegacyIInv' /\ PoolOracleInv'
    BY <2>1, LegacyStep, PoolOracleStep DEF BooksIInv, OraclesIInv
  <2>3. TokenInv'
    BY <2>1 DEF clPoolOnly, bookVars, nftVars, BooksIInv, TokenInv, IdsIssued, PositionsOwnTokens
  <2>4. "pool" \notin {"book", "cl_pool"}
    OBVIOUS
  <2> QED BY <1>2, <1>3, <2>1, <2>2, <2>3, <2>4 DEF BooksIInv, OraclesIInv, PoolOracleInv
<1>7. CASE RouterCalls
  <2>1. RoutingNext /\ UNCHANGED <<contract, vars, legacyOnly, feeVars>> /\ UNCHANGED oracleVars
    BY <1>7 DEF RouterCalls, vars
  <2> QED BY <1>1, <1>3, <1>4, <2>1, RoutingStep DEF BooksIInv
<1>8. CASE CollectorCalls
  <2>1. FeesNext /\ UNCHANGED <<contract, vars, legacyOnly, routingVars>> /\ UNCHANGED oracleVars
    BY <1>8 DEF CollectorCalls, vars
  <2> QED BY <1>1, <1>2, <1>4, <2>1, FeesStep DEF BooksIInv
<1>9. CASE UNCHANGED contractVars
  <2>1. UNCHANGED <<contract, vars, legacyOnly, routingVars, feeVars>> /\ UNCHANGED oracleVars
    BY <1>9 DEF contractVars, vars
  <2> QED BY <1>1, <1>2, <1>3, <1>4, <2>1 DEF BooksIInv
<1> QED BY <1>5, <1>6, <1>7, <1>8, <1>9

(* The older pool's ticks and bits hold what its positions hold, for any ids, ranges and         *)
(* amounts and after any number of calls; a routed swap moves what was asked; the collector      *)
(* holds what it recorded; a position has one token (pool/src/lib.rs:239, router/src/lib.rs:265).*)
THEOREM ContractsSound == ContractsSpec => [](ContractsInv /\ PositionsOwnTokens)
<1>1. BooksIInv => ContractsInv /\ PositionsOwnTokens
  BY LegacyGives, OrderGivesOnePool
  DEF BooksIInv, ContractsInv, RoutingIInv, RoutingInv, FeesIInv, TokenInv
<1>2. BooksIInv /\ OraclesIInv /\ [ClPoolCalls \/ PoolCalls \/ RouterCalls \/ CollectorCalls]_contractVars
        => (BooksIInv /\ OraclesIInv)'
  BY ContractsStep
<1> QED BY <1>1, <1>2, ContractsStart, PTL DEF ContractsSpec

(* Whichever pool writes to it, an adapter's average starts where its window does.               *)
THEOREM OraclesSound == ContractsSpec => []TwapStartsWindow
<1>1. OraclesIInv => TwapStartsWindow
  BY TwapStarts DEF OraclesIInv
<1>2. BooksIInv /\ OraclesIInv /\ [ClPoolCalls \/ PoolCalls \/ RouterCalls \/ CollectorCalls]_contractVars
        => (BooksIInv /\ OraclesIInv)'
  BY ContractsStep
<1> QED BY <1>1, <1>2, ContractsStart, PTL DEF ContractsSpec

=============================================================================
