----------------------------- MODULE TickBitmap -----------------------------
(***************************************************************************)
(* The tick bitmap of the concentrated-liquidity pool                      *)
(* (packages/contract/contracts/cl-pool): one bit per initialized tick,    *)
(* packed into words that are stored sparsely.  A word is the set of its   *)
(* set bits, a bitmap a function from words to such sets; a word that was  *)
(* never written reads as empty.                                           *)
(***************************************************************************)
EXTENDS Integers, FiniteSets, FiniteSetsExt

CONSTANTS
    MinTick, MaxTick,  \* MIN_TICK and MAX_TICK
    Spacing,           \* the pool's tick spacing
    WordBits           \* bits in a word: 128 in the code

ASSUME TickBitmapAssumption ==
    /\ MinTick \in Int /\ MaxTick \in Int
    /\ Spacing \in Nat \ {0} /\ WordBits \in Nat \ {0}

Compressed(t) == t \div Spacing
WordOf(c) == c \div WordBits
BitOf(c) == c % WordBits

Words == {WordOf(Compressed(t)) : t \in MinTick .. MaxTick}
TickAt(w, b) == (w * WordBits + b) * Spacing
ValidTick(t) == /\ MinTick <= t /\ t <= MaxTick
                /\ t % Spacing = 0

EmptyBitmap == [w \in Words |-> {}]
BitSet(bm, t) == BitOf(Compressed(t)) \in bm[WordOf(Compressed(t))]

(* Variant: the bit is set, never cleared. *)
SetOnly(bm, t) ==
    [bm EXCEPT ![WordOf(Compressed(t))] = @ \cup {BitOf(Compressed(t))}]

Flip(bm, t) ==
    LET w == WordOf(Compressed(t))
        b == BitOf(Compressed(t))
    IN  [bm EXCEPT ![w] = IF b \in @ THEN @ \ {b} ELSE @ \cup {b}]

NearestWord(ws, lte) == IF lte THEN Max(ws) ELSE Min(ws)
NearestBit(bits, lte) == IF lte THEN Max(bits) ELSE Min(bits)

(* The search: inclusive of t downwards, exclusive of it upwards. *)
NextInitializedTick(bm, t, lte) ==
    LET c     == IF lte THEN Compressed(t) ELSE Compressed(t) + 1
        w     == WordOf(c)
        Bits(v) == IF v \in DOMAIN bm THEN bm[v] ELSE {}
        here  == {b \in Bits(w) : IF lte THEN b <= BitOf(c) ELSE b >= BitOf(c)}
        rest  == {v \in DOMAIN bm : (IF lte THEN v < w ELSE v > w) /\ bm[v] # {}}
    IN  IF here # {}
        THEN [tick |-> TickAt(w, NearestBit(here, lte)), initialized |-> TRUE]
        ELSE IF rest # {}
        THEN LET v == NearestWord(rest, lte)
             IN  [tick |-> TickAt(v, NearestBit(bm[v], lte)), initialized |-> TRUE]
        ELSE [tick |-> IF lte THEN MinTick ELSE MaxTick, initialized |-> FALSE]

(* What the search promises, over a plain set of ticks. *)
NextOf(ticks, t, lte) ==
    LET side == {u \in ticks : IF lte THEN u <= t ELSE u > t}
    IN  IF side = {}
        THEN [tick |-> IF lte THEN MinTick ELSE MaxTick, initialized |-> FALSE]
        ELSE [tick |-> NearestBit(side, lte), initialized |-> TRUE]
=============================================================================
