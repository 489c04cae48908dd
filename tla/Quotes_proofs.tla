---------------------------- MODULE Quotes_proofs ----------------------------
(***************************************************************************)
(* That the quotes of the SDK and of POST /swaps/quote are honest, for     *)
(* every map of ticks, every set of ranges, prices and amounts, and every  *)
(* fee (LocalQuote).                                                       *)
(*                                                                         *)
(* The invariant of the steps is small: the row is the chain's, or the job *)
(* that makes it so is still to run, and a quote is one of the book or of  *)
(* the row as they are.  The work is in what such a quote says.  The walk  *)
(* goes from one initialised tick to the next; its liquidity between two   *)
(* is that of the positions that cover them (Net is the jump); every turn  *)
(* pays no more than those positions hold between its two prices.  With    *)
(* that written on a scale on which no quotient is rounded (Scale: prices  *)
(* as they are for token 1, a common multiple of the reciprocals for token *)
(* 0), the turns add up, and rounding is undone once, at the end.          *)
(***************************************************************************)
EXTENDS MCServices, Sums, FiniteSetTheorems, SequenceTheorems, TLAPS

-----------------------------------------------------------------------------
(* Quotes.  Arithmetic first: rounding up is the least number of divisors that holds what is divided, *)
(* as rounding down is the greatest that fits in it (FitsIn).                                    *)

LEMMA UpReaches ==
  ASSUME NEW n \in Nat, NEW d \in Nat \ {0}
  PROVE  DivUp(n, d) \in Nat /\ \A k \in Int : DivUp(n, d) <= k <=> n <= k * d
<1>1. CASE n = 0
  <2>1. \A k \in Int : 0 <= k <=> 0 <= k * d
    <3> SUFFICES ASSUME NEW k \in Int PROVE 0 <= k <=> 0 <= k * d
      OBVIOUS
    <3>1. CASE 0 <= k
      BY <3>1, TimesGrows
    <3>2. CASE k <= -1
      <4>1. k * d <= (-1) * d
        BY <3>2, TimesGrows
      <4> QED BY <3>2, <4>1
    <3> QED BY <3>1, <3>2
  <2> QED BY <1>1, <2>1 DEF DivUp
<1>2. CASE n # 0
  <2>1. PICK m \in Int : m = (n - 1) \div d
    OBVIOUS
  <2>2. 0 <= m
    <3>1. 0 * d <= n - 1
      BY <1>2
    <3> QED BY <2>1, <3>1, FitsIn
  <2>3. DivUp(n, d) = m + 1
    BY <1>2, <2>1 DEF DivUp
  <2>4. ASSUME NEW k \in Int PROVE m + 1 <= k <=> n <= k * d
    <3>1. k * d <= n - 1 <=> k <= m
      BY <2>1, FitsIn
    <3>2. k * d \in Int
      OBVIOUS
    <3> QED BY <3>1, <3>2
  <2> QED BY <2>2, <2>3, <2>4
<1> QED BY <1>1, <1>2

LEMMA UpHolds == ASSUME NEW n \in Nat, NEW d \in Nat \ {0} PROVE n <= DivUp(n, d) * d
BY UpReaches

LEMMA DownFits == ASSUME NEW n \in Nat, NEW d \in Nat \ {0} PROVE n \div d \in Nat /\ (n \div d) * d <= n
<1>1. n \div d \in Int
  OBVIOUS
<1>2. 0 <= n \div d
  <2>1. 0 * d <= n
    OBVIOUS
  <2> QED BY <2>1, FitsIn
<1> QED BY <1>1, <1>2, FitsIn

(* What a position holds between two prices, rounded down and up. *)
Paid(down, lo, hi, l) == IF down THEN Amount1Delta(lo, hi, l, FALSE) ELSE Amount0Delta(lo, hi, l, FALSE)
Due(down, lo, hi, l)  == IF down THEN Amount1Delta(lo, hi, l, TRUE) ELSE Amount0Delta(lo, hi, l, TRUE)

LEMMA Delta1 ==
  ASSUME NEW lo \in Nat, NEW hi \in Nat, lo <= hi, NEW l \in Nat, NEW up \in BOOLEAN
  PROVE  /\ Amount1Delta(lo, hi, l, up) = IF up THEN DivUp(l * (hi - lo), Q) ELSE (l * (hi - lo)) \div Q
         /\ Amount1Delta(hi, lo, l, up) = Amount1Delta(lo, hi, l, up)
<1>1. CASE lo = hi
  BY <1>1 DEF Amount1Delta
<1>2. CASE lo < hi
  BY <1>2 DEF Amount1Delta
<1> QED BY <1>1, <1>2

LEMMA Delta0 ==
  ASSUME NEW lo \in Nat, NEW hi \in Nat, lo <= hi, NEW l \in Nat, NEW up \in BOOLEAN
  PROVE  /\ Amount0Delta(lo, hi, l, up) = IF up THEN DivUp(l * (hi - lo) * Q, hi * lo) ELSE (l * (hi - lo) * Q) \div (hi * lo)
         /\ Amount0Delta(hi, lo, l, up) = Amount0Delta(lo, hi, l, up)
<1>1. CASE lo = hi
  BY <1>1 DEF Amount0Delta
<1>2. CASE lo < hi
  BY <1>2 DEF Amount0Delta
<1> QED BY <1>1, <1>2

(* A scale on which what is held between two prices is the liquidity times their distance, in one    *)
(* m-th of a unit: that of the prices themselves for token 1, that of their reciprocals, over a      *)
(* common multiple, for token 0.                                                                *)
Scale(down, P, g, m) ==
  /\ m \in Nat \ {0} /\ P \subseteq Nat \ {0} /\ g \in [P -> Int]
  /\ \A lo, hi \in P : lo <= hi =>
       /\ g[lo] <= g[hi]
       /\ \A l \in Nat : Paid(down, lo, hi, l) * m <= l * (g[hi] - g[lo]) /\ l * (g[hi] - g[lo]) <= Due(down, lo, hi, l) * m

LEMMA CommonMultiple ==
  ASSUME NEW P, IsFiniteSet(P), P \subseteq Nat \ {0}
  PROVE  \E d \in Nat \ {0} : \E k \in [P -> Nat] : \A p \in P : p * k[p] = d
<1> DEFINE Good(X) == \E d \in Nat \ {0} : \E k \in [X -> Nat] : \A p \in X : p * k[p] = d
           Bad == {X \in SUBSET P : ~Good(X)}
<1> SUFFICES ASSUME Bad # {} PROVE FALSE
  OBVIOUS
<1>1. PICK X \in Bad : \A x \in X : X \ {x} \notin Bad
  <2>1. Bad \subseteq SUBSET P
    OBVIOUS
  <2> HIDE DEF Bad
  <2> QED BY <2>1, SmallestSet
<1>2. X \in SUBSET P /\ ~Good(X)
  BY <1>1
<1>3. CASE X = {}
  <2>1. 1 \in Nat \ {0} /\ [p \in X |-> 0] \in [X -> Nat]
    OBVIOUS
  <2> QED BY <1>2, <1>3, <2>1
<1>4. CASE X # {}
  <2>1. PICK x \in X : TRUE
    BY <1>4
  <2>2. Good(X \ {x})
    BY <1>1, <2>1
  <2>3. PICK d \in Nat \ {0}, k \in [X \ {x} -> Nat] : \A p \in X \ {x} : p * k[p] = d
    BY <2>2
  <2>4. x \in Nat \ {0}
    BY <1>2
  <2>5. PICK e \in Nat \ {0} : e = d * x
    <3>1. d * x \in Nat /\ d * x # 0
      BY <2>4
    <3> QED BY <3>1
  <2>6. PICK j : j = [p \in X |-> IF p = x THEN d ELSE k[p] * x]
    OBVIOUS
  <2>7. j \in [X -> Nat]
    <3>1. ASSUME NEW p \in X PROVE (IF p = x THEN d ELSE k[p] * x) \in Nat
      BY <2>4
    <3> QED BY <2>6, <3>1
  <2>8. ASSUME NEW p \in X PROVE p * j[p] = e
    <3>1. p \in Nat
      BY <1>2
    <3>2. CASE p = x
      <4>1. j[p] = d
        BY <2>6, <3>2
      <4>2. x * d = d * x
        BY <2>4
      <4> QED BY <2>5, <3>2, <4>1, <4>2
    <3>3. CASE p # x
      <4>1. PICK c \in Nat : c = k[p] /\ p * c = d
        BY <2>3, <3>3
      <4>2. j[p] = c * x
        BY <2>6, <3>3, <4>1
      <4>3. p * (c * x) = (p * c) * x
        BY <2>4, <3>1, <4>1
      <4> QED BY <2>5, <4>1, <4>2, <4>3
    <3> QED BY <3>2, <3>3
  <2> QED BY <1>2, <2>5, <2>7, <2>8
<1> QED BY <1>3, <1>4

LEMMA ScaleOfPrices ==
  ASSUME NEW P, P \subseteq Nat \ {0}
  PROVE  Scale(TRUE, P, [p \in P |-> p], Q)
<1>0. Q \in Nat \ {0}
  BY QuoteAssumption
<1>1. PICK g : g = [p \in P |-> p]
  OBVIOUS
<1>2. g \in [P -> Int]
  BY <1>1
<1>3. ASSUME NEW lo \in P, NEW hi \in P, lo <= hi, NEW l \in Nat
      PROVE  Paid(TRUE, lo, hi, l) * Q <= l * (g[hi] - g[lo]) /\ l * (g[hi] - g[lo]) <= Due(TRUE, lo, hi, l) * Q
  <2>1. lo \in Nat /\ hi \in Nat
    OBVIOUS
  <2>2. PICK n \in Nat : n = l * (hi - lo)
    <3>1. hi - lo \in Nat
      BY <1>3, <2>1
    <3> QED BY <3>1
  <2>3. Paid(TRUE, lo, hi, l) = n \div Q /\ Due(TRUE, lo, hi, l) = DivUp(n, Q)
    BY <1>3, <2>1, <2>2, Delta1 DEF Paid, Due
  <2> QED BY <1>0, <1>1, <2>2, <2>3, UpHolds, DownFits
<1>4. \A lo, hi \in P : lo <= hi => g[lo] <= g[hi]
  BY <1>1
<1> QED BY <1>0, <1>1, <1>2, <1>3, <1>4 DEF Scale

(* n is liquidity over the distance of two reciprocals, before the division. *)
LEMMA Reciprocals ==
  ASSUME NEW a \in Nat \ {0}, NEW b \in Nat \ {0}, NEW j \in Nat, NEW k \in Nat, NEW d \in Nat \ {0},
         a * j = d, b * k = d, NEW l \in Nat
  PROVE  (l * (b - a)) * (j * k) = d * (l * (j - k))
<1>1. (b - a) * (j * k) = (b * k) * j - (a * j) * k
  OBVIOUS
<1>2. (b - a) * (j * k) = d * (j - k)
  <2>1. d * j - d * k = d * (j - k)
    OBVIOUS
  <2> QED BY <1>1, <2>1
<1>3. PICK x \in Int, y \in Int, z \in Int : x = b - a /\ y = j * k /\ z = j - k
  OBVIOUS
<1>4. (l * x) * y = l * (x * y)
  OBVIOUS
<1>5. l * (d * z) = d * (l * z)
  OBVIOUS
<1> QED BY <1>2, <1>3, <1>4, <1>5

LEMMA Cancels == ASSUME NEW x \in Int, NEW y \in Int, NEW d \in Nat \ {0}, x * d <= y * d PROVE x <= y
<1> SUFFICES ASSUME y + 1 <= x PROVE FALSE
  OBVIOUS
<1>1. (y + 1) * d <= x * d
  BY TimesGrows
<1>2. (y + 1) * d = y * d + d
  OBVIOUS
<1> QED BY <1>1, <1>2

(* What is divided by the product of two prices, on the scale of their reciprocals. *)
LEMMA Rescales ==
  ASSUME NEW a \in Nat \ {0}, NEW b \in Nat \ {0}, a <= b, NEW j \in Nat, NEW k \in Nat, NEW d \in Nat \ {0},
         a * j = d, b * k = d, NEW l \in Nat, NEW q \in Nat
  PROVE  /\ k <= j /\ l * (b - a) * q \in Nat /\ b * a \in Nat \ {0}
         /\ \A u \in Int : /\ u * (b * a) <= l * (b - a) * q => u * d <= l * (q * j - q * k)
                           /\ l * (b - a) * q <= u * (b * a) => l * (q * j - q * k) <= u * d
<1>1. k <= j
  <2> SUFFICES ASSUME j + 1 <= k PROVE FALSE
    OBVIOUS
  <2>1. (j + 1) * b <= k * b
    BY TimesGrows
  <2>2. (j + 1) * b = j * b + b /\ k * b = d
    OBVIOUS
  <2>3. a * j <= b * j /\ b * j = j * b
    BY TimesGrows
  <2> QED BY <2>1, <2>2, <2>3
<1>2. PICK n \in Nat : n = l * (b - a) * q
  <2>1. PICK c \in Nat : c = b - a
    OBVIOUS
  <2>2. l * c \in Nat /\ (l * c) * q \in Nat
    BY <2>1
  <2> QED BY <2>1, <2>2
<1>3. PICK w \in Nat \ {0} : w = b * a
  <2>1. b * a \in Nat /\ b * a # 0
    OBVIOUS
  <2> QED BY <2>1
<1>4. PICK y \in Nat : y = j * k
  OBVIOUS
<1>5. PICK r \in Int : r = l * (q * j - q * k)
  OBVIOUS
<1>6. n * y = d * r
  <2>1. PICK lq \in Nat : lq = l * q
    OBVIOUS
  <2>2. (lq * (b - a)) * y = d * (lq * (j - k))
    BY <1>4, <2>1, Reciprocals
  <2>3. PICK x \in Int, z \in Int : x = b - a /\ z = j - k
    OBVIOUS
  <2>4. n = lq * x
    BY <1>2, <2>1, <2>3
  <2>5. r = lq * z
    <3>1. q * j - q * k = q * z
      BY <2>3
    <3>2. l * (q * z) = (l * q) * z
      OBVIOUS
    <3> QED BY <1>5, <2>1, <3>1, <3>2
  <2> QED BY <2>2, <2>3, <2>4, <2>5
<1>7. w * y = d * d
  <2>1. (b * a) * (j * k) = (b * k) * (a * j)
    OBVIOUS
  <2> QED BY <1>3, <1>4, <2>1
<1>8. ASSUME NEW u \in Int
      PROVE  /\ u * w <= n => u * d <= r
             /\ n <= u * w => r <= u * d
  <2>1. PICK uw \in Int, ud \in Int : uw = u * w /\ ud = u * d
    OBVIOUS
  <2>2. uw * y = ud * d
    <3>1. (u * w) * y = u * (w * y)
      OBVIOUS
    <3>2. (u * d) * d = u * (d * d)
      OBVIOUS
    <3> QED BY <1>7, <2>1, <3>1, <3>2
  <2>3. n * y = r * d
    BY <1>6
  <2>4. ASSUME uw <= n PROVE ud <= r
    <3>1. uw * y <= n * y
      BY <2>4, TimesGrows
    <3>2. ud * d <= r * d
      BY <2>2, <2>3, <3>1
    <3> QED BY <3>2, Cancels
  <2>5. ASSUME n <= uw PROVE r <= ud
    <3>1. n * y <= uw * y
      BY <2>5, TimesGrows
    <3>2. r * d <= ud * d
      BY <2>2, <2>3, <3>1
    <3> QED BY <3>2, Cancels
  <2> QED BY <2>1, <2>4, <2>5
<1> QED BY <1>1, <1>2, <1>3, <1>5, <1>8

LEMMA ScaleExists ==
  ASSUME NEW down \in BOOLEAN, NEW P, IsFiniteSet(P), P \subseteq Nat \ {0}
  PROVE  \E m, g : Scale(down, P, g, m)
<1>1. CASE down
  BY <1>1, ScaleOfPrices
<1>2. CASE ~down
  <2>0. Q \in Nat \ {0} /\ down = FALSE
    BY <1>2, QuoteAssumption
  <2>1. PICK d \in Nat \ {0}, k \in [P -> Nat] : \A p \in P : p * k[p] = d
    BY CommonMultiple
  <2>2. PICK g : g = [p \in P |-> -(Q * k[p])]
    OBVIOUS
  <2>3. g \in [P -> Int]
    <3>1. ASSUME NEW p \in P PROVE -(Q * k[p]) \in Int
      BY <2>0
    <3> QED BY <2>2, <3>1
  <2>4. ASSUME NEW lo \in P, NEW hi \in P, lo <= hi
        PROVE  /\ g[lo] <= g[hi]
               /\ \A l \in Nat : Paid(down, lo, hi, l) * d <= l * (g[hi] - g[lo]) /\ l * (g[hi] - g[lo]) <= Due(down, lo, hi, l) * d
    <3>1. lo \in Nat \ {0} /\ hi \in Nat \ {0}
      OBVIOUS
    <3>2. PICK j \in Nat, i \in Nat : j = k[lo] /\ i = k[hi] /\ lo * j = d /\ hi * i = d
      BY <2>1
    <3>3. PICK qj \in Int, qi \in Int : qj = Q * j /\ qi = Q * i /\ g[hi] = -qi /\ g[lo] = -qj
      BY <2>0, <2>2, <3>2
    <3>4. g[hi] - g[lo] = qj - qi
      BY <3>3
    <3>5. i <= j
      BY <2>0, <2>4, <3>1, <3>2, Rescales
    <3>6. qi <= qj
      <4>1. i * Q <= j * Q
        BY <2>0, <3>5, TimesGrows
      <4> QED BY <2>0, <3>3, <4>1
    <3>7. ASSUME NEW l \in Nat
          PROVE  Paid(down, lo, hi, l) * d <= l * (g[hi] - g[lo]) /\ l * (g[hi] - g[lo]) <= Due(down, lo, hi, l) * d
      <4>1. PICK n \in Int, w \in Int : n = l * (hi - lo) * Q /\ w = hi * lo
        BY <2>0, <3>1
      <4>2. /\ n \in Nat /\ w \in Nat \ {0}
            /\ \A u \in Int : /\ u * w <= n => u * d <= l * (Q * j - Q * i)
                              /\ n <= u * w => l * (Q * j - Q * i) <= u * d
        BY <2>0, <2>4, <3>1, <3>2, <4>1, Rescales
      <4>3. Paid(down, lo, hi, l) = n \div w /\ Due(down, lo, hi, l) = DivUp(n, w)
        <5>1. Paid(down, lo, hi, l) = Amount0Delta(lo, hi, l, FALSE)
              /\ Due(down, lo, hi, l) = Amount0Delta(lo, hi, l, TRUE)
          BY <2>0 DEF Paid, Due
        <5>2. lo \in Nat /\ hi \in Nat /\ lo <= hi
          BY <2>4, <3>1
        <5>3. Amount0Delta(lo, hi, l, FALSE) = (l * (hi - lo) * Q) \div (hi * lo)
          BY ONLY <5>2, l \in Nat, Delta0
        <5>4. Amount0Delta(lo, hi, l, TRUE) = DivUp(l * (hi - lo) * Q, hi * lo)
          BY ONLY <5>2, l \in Nat, Delta0
        <5> QED BY <4>1, <5>1, <5>3, <5>4, Zenon
      <4>4. n \div w \in Int /\ (n \div w) * w <= n
        BY <4>2, DownFits
      <4>5. DivUp(n, w) \in Nat
        BY <4>2, UpReaches
      <4>6. n <= DivUp(n, w) * w
        BY <4>2, UpHolds
      <4>7. (n \div w) * d <= l * (Q * j - Q * i)
        BY <4>2, <4>4
      <4>8. l * (Q * j - Q * i) <= DivUp(n, w) * d
        BY <4>2, <4>5, <4>6
      <4>9. g[hi] - g[lo] = Q * j - Q * i
        BY <3>3, <3>4
      <4> QED BY <4>3, <4>7, <4>8, <4>9
    <3> QED BY <3>3, <3>6, <3>7
  <2> QED BY <2>1, <2>3, <2>4 DEF Scale
<1> QED BY <1>1, <1>2

-----------------------------------------------------------------------------
(* The ticks.  What covers the price at a tick is what covers it just below, with the net of the tick. *)
Liq == [r \in QuoteRanges |-> r.liquidity]
BookOk == IsFiniteSet(book) /\ book \subseteq QuoteRanges

LEMMA LiqIs == ASSUME NEW S, IsFiniteSet(S), S \subseteq QuoteRanges PROVE LiquidityOf(S) = SumOf(Liq, S) /\ LiquidityOf(S) \in Nat
<1> DEFINE Adds(iter) == iter = [s \in SUBSET S |-> IF s = {} THEN 0 ELSE First(s).liquidity + iter[s \ {First(s)}]]
           it == CHOOSE iter : Adds(iter)
<1>1. LiquidityOf(S) = it[S]
  BY DEF LiquidityOf, Sum, MapThenSumSet, MapThenFoldSet, First
<1>2. \A s \in SUBSET S : s # {} => Liq[First(s)] = First(s).liquidity
  BY FirstIsMember DEF Liq
<1>3. ASSUME NEW iter PROVE Adds(iter) <=> Sums(Liq, S, iter)
  BY <1>2 DEF Sums, SumsUpTo
<1>4. \E iter : Adds(iter)
  BY <1>3, SumExists
<1> HIDE DEF Adds
<1>5. Adds(it)
  BY <1>4
<1> HIDE DEF it
<1>6. LiquidityOf(S) = SumOf(Liq, S)
  BY <1>1, <1>3, <1>5, SumIs
<1>7. \A r \in S : Liq[r] \in Nat
  BY QuoteAssumption DEF Liq
<1> QED BY <1>6, <1>7, SumTyped

LEMMA LiqSplits ==
  ASSUME NEW S, IsFiniteSet(S), S \subseteq QuoteRanges, NEW T, T \subseteq S
  PROVE  LiquidityOf(S) = LiquidityOf(T) + LiquidityOf(S \ T)
<1>1. \A r \in S : Liq[r] \in Int
  BY QuoteAssumption DEF Liq
<1>2. IsFiniteSet(T) /\ IsFiniteSet(S \ T)
  BY FS_Subset
<1>3. SumOf(Liq, S) = SumOf(Liq, T) + SumOf(Liq, S \ T)
  BY <1>1, SumUnion
<1> QED BY <1>2, <1>3, LiqIs

(* What covers the price just below a tick. *)
LiquidityBelow(t) == LiquidityOf({r \in book : r.lower < t /\ t <= r.upper})

LEMMA RangesTyped ==
  \A r \in QuoteRanges : r.lower \in DOMAIN Ratio /\ r.upper \in DOMAIN Ratio /\ r.liquidity \in Nat \ {0} /\ r.lower < r.upper
<1>1. QuoteRanges \subseteq [lower : DOMAIN Ratio, upper : DOMAIN Ratio, liquidity : Nat \ {0}]
  BY QuoteAssumption
<1>2. \A r \in QuoteRanges : r.lower < r.upper
  BY QuoteAssumption
<1> QED BY <1>1, <1>2

LEMMA RatioTyped ==
  /\ MaxTick \in Nat /\ DOMAIN Ratio = 0..MaxTick /\ Ratio \in [0..MaxTick -> Nat \ {0}]
  /\ \A t \in 1..MaxTick : Ratio[t - 1] < Ratio[t]
  /\ QuotePrices \subseteq Ratio[0]..Ratio[MaxTick]
<1>1. MaxTick \in Nat /\ Ratio \in [0..MaxTick -> Nat \ {0}] /\ \A t \in 1..MaxTick : Ratio[t - 1] < Ratio[t]
  BY TickMapAssumption, Zenon
<1>2. DOMAIN Ratio = 0..MaxTick
  BY <1>1
<1>3. QuotePrices \subseteq Ratio[0]..Ratio[MaxTick]
  BY QuoteAssumption
<1> QED BY <1>1, <1>2, <1>3

LEMMA RatioGrows == \A s, t \in 0..MaxTick : s < t => Ratio[s] < Ratio[t]
<1> SUFFICES ASSUME NEW s \in 0..MaxTick PROVE \A t \in 0..MaxTick : s < t => Ratio[s] < Ratio[t]
  OBVIOUS
<1>0. MaxTick \in Nat
  BY RatioTyped
<1> DEFINE G == {t \in 0..MaxTick : s < t => Ratio[s] < Ratio[t]}
<1>1. 0 \in G
  BY <1>0
<1>2. ASSUME NEW k \in 0..(MaxTick - 1), k \in G PROVE k + 1 \in G
  <2>1. k + 1 \in 1..MaxTick /\ k \in 0..MaxTick /\ k + 1 \in 0..MaxTick /\ (k + 1) - 1 = k
    BY <1>0
  <2>2. Ratio[k] < Ratio[k + 1]
    BY <2>1, RatioTyped
  <2>3. PICK x \in Nat, y \in Nat, z \in Nat : x = Ratio[s] /\ y = Ratio[k] /\ z = Ratio[k + 1]
    BY <2>1, RatioTyped
  <2>4. s < k + 1 => s < k \/ s = k
    BY <2>1
  <2> QED BY <1>2, <2>1, <2>2, <2>3, <2>4
<1>3. \A k \in 0..MaxTick : k \in G
  <2> HIDE DEF G
  <2> QED BY <1>0, <1>1, <1>2, ByPrefix
<1> QED BY <1>3

LEMMA NetIsJump ==
  ASSUME BookOk, NEW t \in DOMAIN Ratio
  PROVE  /\ LiquidityAt(t) \in Nat /\ LiquidityBelow(t) \in Nat /\ Net(t) \in Int
         /\ LiquidityAt(t) = LiquidityBelow(t) + Net(t)
<1>1. PICK A, B, lo, up, all :
        /\ A = {r \in book : r.lower <= t /\ t < r.upper} /\ B = {r \in book : r.lower < t /\ t <= r.upper}
        /\ lo = {r \in book : r.lower = t} /\ up = {r \in book : r.upper = t}
        /\ all = {r \in book : r.lower <= t /\ t <= r.upper}
  OBVIOUS
<1>2. /\ \A r \in book : r \in QuoteRanges /\ r.lower \in Int /\ r.upper \in Int /\ r.lower < r.upper
      /\ t \in Int
  BY RangesTyped, RatioTyped DEF BookOk
<1>3. all \ up = A /\ all \ lo = B /\ up \subseteq all /\ lo \subseteq all
  BY <1>1, <1>2
<1>4. /\ IsFiniteSet(A) /\ IsFiniteSet(B) /\ IsFiniteSet(lo) /\ IsFiniteSet(up) /\ IsFiniteSet(all)
      /\ A \subseteq QuoteRanges /\ B \subseteq QuoteRanges /\ lo \subseteq QuoteRanges /\ up \subseteq QuoteRanges
      /\ all \subseteq QuoteRanges
  <2>1. A \subseteq book /\ B \subseteq book /\ lo \subseteq book /\ up \subseteq book /\ all \subseteq book
    BY <1>1
  <2> QED BY <2>1, FS_Subset DEF BookOk
<1>5. LiquidityOf(all) = LiquidityOf(up) + LiquidityOf(A) /\ LiquidityOf(all) = LiquidityOf(lo) + LiquidityOf(B)
  BY <1>3, <1>4, LiqSplits
<1>6. LiquidityOf(A) \in Nat /\ LiquidityOf(B) \in Nat /\ LiquidityOf(lo) \in Nat /\ LiquidityOf(up) \in Nat
  BY <1>4, LiqIs
<1>7. LiquidityAt(t) = LiquidityOf(A) /\ LiquidityBelow(t) = LiquidityOf(B) /\ Net(t) = LiquidityOf(lo) - LiquidityOf(up)
  BY <1>1 DEF LiquidityAt, LiquidityBelow, Net
<1> QED BY <1>5, <1>6, <1>7

-----------------------------------------------------------------------------
(* Sorted ticks.                                                                                *)
TicksOk(S) ==
  /\ IsFiniteSet(S) /\ \A a \in S : a.tick \in 0..MaxTick
  /\ \A a, b \in S : a.tick = b.tick => a = b

InTurn(down, q) == \A i, j \in DOMAIN q : i < j => Nearer(down, q[i], q[j])

LEMMA FarthestExists ==
  ASSUME NEW down \in BOOLEAN, NEW S, TicksOk(S), S # {}
  PROVE  \E x \in S : \A y \in S \ {x} : Nearer(down, y, x)
<1>0. MaxTick \in Nat
  BY RatioTyped
<1>1. PICK K : K = {IF down THEN y.tick ELSE MaxTick - y.tick : y \in S}
  OBVIOUS
<1>2. \A y \in S : y.tick \in Int /\ 0 <= y.tick /\ y.tick <= MaxTick
  BY DEF TicksOk
<1>3. K \subseteq Nat /\ K # {}
  BY <1>0, <1>1, <1>2
<1>4. PICK k \in K : \A j \in K : k <= j
  BY <1>3, LeastNatural
<1>5. PICK x \in S : k = IF down THEN x.tick ELSE MaxTick - x.tick
  BY <1>1
<1>6. ASSUME NEW y \in S \ {x} PROVE Nearer(down, y, x)
  <2>1. y.tick # x.tick
    BY DEF TicksOk
  <2>2. PICK a \in Int, b \in Int : a = x.tick /\ b = y.tick
    BY <1>2
  <2>3. k <= IF down THEN b ELSE MaxTick - b
    BY <1>1, <1>4, <2>2
  <2>4. CASE down
    BY <1>5, <2>1, <2>2, <2>3, <2>4 DEF Nearer
  <2>5. CASE ~down
    BY <1>0, <1>5, <2>1, <2>2, <2>3, <2>5 DEF Nearer
  <2> QED BY <2>4, <2>5
<1> QED BY <1>6

LEMMA OrderExists ==
  ASSUME NEW down \in BOOLEAN, NEW S, TicksOk(S)
  PROVE  \E q \in SetToSeqs(S) : InTurn(down, q)
<1> DEFINE Bad == {X \in SUBSET S : ~ \E q \in SetToSeqs(X) : InTurn(down, q)}
<1> SUFFICES ASSUME Bad # {} PROVE FALSE
  OBVIOUS
<1>1. PICK X \in Bad : \A x \in X : X \ {x} \notin Bad
  <2>1. Bad \subseteq SUBSET S /\ IsFiniteSet(S)
    BY DEF TicksOk
  <2> HIDE DEF Bad
  <2> QED BY <2>1, SmallestSet
<1>2. X \subseteq S /\ ~ \E q \in SetToSeqs(X) : InTurn(down, q)
  BY <1>1
<1>3. TicksOk(X)
  BY <1>2, FS_Subset DEF TicksOk
<1>4. PICK n \in Nat : n = Cardinality(X)
  BY <1>3, FS_CardinalityType DEF TicksOk
<1>5. CASE X = {}
  <2>1. Cardinality(X) = 0
    BY <1>5, FS_EmptySet
  <2>2. <<>> \in SetToSeqs(X) /\ InTurn(down, <<>>)
    BY <1>5, <2>1 DEF SetToSeqs, InTurn
  <2> QED BY <1>2, <2>2
<1>6. CASE X # {}
  <2>1. PICK x \in X : \A y \in X \ {x} : Nearer(down, y, x)
    BY <1>3, <1>6, FarthestExists
  <2>2. X \ {x} \in SUBSET S /\ X \ {x} \notin Bad
    BY <1>1, <1>2
  <2>3. PICK p \in SetToSeqs(X \ {x}) : InTurn(down, p)
    BY <2>2
  <2>4. Cardinality(X \ {x}) = n - 1 /\ n # 0
    <3>1. Cardinality(X \ {x}) = n - 1 /\ IsFiniteSet(X \ {x})
      BY <1>3, <1>4, FS_RemoveElement DEF TicksOk
    <3>2. Cardinality(X \ {x}) \in Nat
      BY <3>1, FS_CardinalityType
    <3> QED BY <3>1, <3>2
  <2>5. p \in [1..(n - 1) -> X \ {x}] /\ \A i, j \in 1..(n - 1) : i # j => p[i] # p[j]
    BY <2>4 DEF SetToSeqs
  <2>6. PICK q : q = [i \in 1..n |-> IF i = n THEN x ELSE p[i]]
    OBVIOUS
  <2>7. \A i \in 1..n : i # n => i \in 1..(n - 1) /\ q[i] = p[i] /\ p[i] \in X \ {x}
    BY <2>5, <2>6
  <2>8. q[n] = x /\ n \in 1..n
    BY <2>4, <2>6
  <2>9. q \in [1..n -> X]
    BY <2>5, <2>6, <2>7
  <2>10. \A i, j \in 1..n : i # j => q[i] # q[j]
    BY <2>5, <2>7, <2>8
  <2>11. InTurn(down, q)
    <3> SUFFICES ASSUME NEW i \in 1..n, NEW j \in 1..n, i < j PROVE Nearer(down, q[i], q[j])
      BY <2>9 DEF InTurn
    <3>1. i # n
      OBVIOUS
    <3>2. CASE j = n
      BY <2>1, <2>7, <2>8, <3>1, <3>2
    <3>3. CASE j # n
      BY <2>3, <2>5, <2>7, <3>1, <3>3 DEF InTurn
    <3> QED BY <3>2, <3>3
  <2>12. q \in SetToSeqs(X)
    BY <1>4, <2>9, <2>10 DEF SetToSeqs
  <2> QED BY <1>2, <2>11, <2>12
<1> QED BY <1>5, <1>6

LEMMA SortedIs ==
  ASSUME NEW down \in BOOLEAN, NEW S, TicksOk(S)
  PROVE  \E n \in Nat : \E q : /\ q = SortedTicks(down, S) /\ n = Cardinality(S) /\ q \in [1..n -> S] /\ InTurn(down, q)
                               /\ \A x \in S : \E i \in 1..n : q[i] = x
<1>1. PICK q : q = SortedTicks(down, S)
  OBVIOUS
<1>2. q \in SetToSeqs(S) /\ InTurn(down, q)
  BY <1>1, OrderExists DEF SortedTicks, InTurn
<1>3. PICK n \in Nat : n = Cardinality(S)
  BY FS_CardinalityType DEF TicksOk
<1>4. q \in [1..n -> S] /\ \A i, j \in 1..n : i # j => q[i] # q[j]
  BY <1>2, <1>3 DEF SetToSeqs
<1>5. q \in Injection(1..n, S)
  BY <1>4 DEF Injection, IsInjective
<1>6. Cardinality(1..n) = n /\ IsFiniteSet(1..n)
  BY FS_Interval
<1>7. q \in Surjection(1..n, S)
  BY <1>3, <1>5, <1>6, FS_Injection DEF TicksOk
<1>8. \A x \in S : \E i \in 1..n : q[i] = x
  BY <1>7 DEF Surjection
<1> QED BY <1>1, <1>2, <1>3, <1>4, <1>8

-----------------------------------------------------------------------------
(* The walk, target after target.                                                               *)
Turns(f, down, s, targets, n) == f = [k \in 0..n |-> IF k = 0 THEN s ELSE Walk(down, f[k - 1], targets[k])]
WalksOver(g, down, s, targets, n) ==
  g = [X \in SUBSET (1..n) |-> IF X = {} THEN s ELSE Walk(down, g[X \ {Max(X)}], targets[Max(X)])]

LEMMA WalkExtends ==
  ASSUME NEW down, NEW s, NEW targets, NEW n \in Nat, NEW g, WalksOver(g, down, s, targets, n)
  PROVE  \E h : WalksOver(h, down, s, targets, n + 1)
<1> DEFINE h == [X \in SUBSET (1..(n + 1)) |-> IF X = {} THEN s ELSE Walk(down, g[X \ {Max(X)}], targets[Max(X)])]
<1>1. \A X \in SUBSET (1..n) : h[X] = g[X]
  <2> SUFFICES ASSUME NEW X \in SUBSET (1..n) PROVE h[X] = g[X]
    OBVIOUS
  <2>1. X \in SUBSET (1..(n + 1))
    OBVIOUS
  <2>2. g[X] = IF X = {} THEN s ELSE Walk(down, g[X \ {Max(X)}], targets[Max(X)])
    BY DEF WalksOver
  <2> QED BY <2>1, <2>2
<1>2. \A X \in SUBSET (1..(n + 1)) : X # {} => X \ {Max(X)} \in SUBSET (1..n)
  <2> SUFFICES ASSUME NEW X \in SUBSET (1..(n + 1)), X # {}, NEW x \in X \ {Max(X)} PROVE x \in 1..n
    OBVIOUS
  <2>1. n + 1 \in Nat
    OBVIOUS
  <2>2. PICK m \in X : m = Max(X) /\ x <= m
    BY <2>1, MaxOf
  <2>3. m \in 1..(n + 1) /\ x \in 1..(n + 1) /\ x # m
    BY <2>2
  <2> QED BY <2>2, <2>3
<1>3. h = [X \in SUBSET (1..(n + 1)) |-> IF X = {} THEN s ELSE Walk(down, g[X \ {Max(X)}], targets[Max(X)])]
  OBVIOUS
<1> HIDE DEF h
<1>4. \A X \in SUBSET (1..(n + 1)) : X # {} => h[X \ {Max(X)}] = g[X \ {Max(X)}]
  BY <1>1, <1>2
<1>5. h = [X \in SUBSET (1..(n + 1)) |-> IF X = {} THEN s ELSE Walk(down, h[X \ {Max(X)}], targets[Max(X)])]
  BY <1>3, <1>4
<1> QED BY <1>5 DEF WalksOver

LEMMA WalkExists ==
  ASSUME NEW down, NEW s, NEW targets, NEW n \in Nat
  PROVE  \E g : WalksOver(g, down, s, targets, n)
<1> DEFINE Bad == {k \in Nat : ~ \E g : WalksOver(g, down, s, targets, k)}
<1> SUFFICES ASSUME Bad # {} PROVE FALSE
  OBVIOUS
<1>1. PICK k \in Bad : \A j \in Bad : k <= j
  <2>1. Bad \subseteq Nat
    OBVIOUS
  <2> HIDE DEF Bad
  <2> QED BY <2>1, LeastNatural
<1>2. CASE k = 0
  <2>1. SUBSET (1..0) = {{}}
    OBVIOUS
  <2>2. WalksOver([X \in SUBSET (1..0) |-> s], down, s, targets, 0)
    BY <2>1 DEF WalksOver
  <2> QED BY <1>1, <1>2, <2>2
<1>3. CASE k # 0
  <2>1. k - 1 \in Nat /\ k - 1 \notin Bad /\ (k - 1) + 1 = k
    BY <1>1, <1>3
  <2>2. PICK g : WalksOver(g, down, s, targets, k - 1)
    BY <2>1
  <2>3. \E h : WalksOver(h, down, s, targets, (k - 1) + 1)
    BY <2>1, <2>2, WalkExtends
  <2> QED BY <1>1, <2>1, <2>3
<1> QED BY <1>2, <1>3

WalkSteps(f, down, s, targets, n) ==
  /\ WalkOver(down, s, targets) = f[n] /\ f[0] = s
  /\ \A k \in 0..(n - 1) : f[k + 1] = Walk(down, f[k], targets[k + 1])

LEMMA WalkTurns ==
  ASSUME NEW down, NEW s, NEW targets, NEW n \in Nat, DOMAIN targets = 1..n
  PROVE  \E f : WalkSteps(f, down, s, targets, n)
<1> DEFINE it == CHOOSE g : WalksOver(g, down, s, targets, n)
<1>1. WalksOver(it, down, s, targets, n)
  BY WalkExists
<1>2. WalkOver(down, s, targets) = it[1..n]
  BY DEF WalkOver, FoldLeft, MapThenFoldSet, WalksOver
<1> HIDE DEF it
<1>3. PICK f : f = [k \in 0..n |-> it[1..k]]
  OBVIOUS
<1>4. f[0] = s
  <2>1. 1..0 = {} /\ {} \in SUBSET (1..n)
    OBVIOUS
  <2> QED BY <1>1, <1>3, <2>1 DEF WalksOver
<1>5. ASSUME NEW j \in 0..(n - 1) PROVE f[j + 1] = Walk(down, f[j], targets[j + 1])
  <2>0. PICK k \in 1..n : k = j + 1
    OBVIOUS
  <2>1. PICK X : X = 1..k
    OBVIOUS
  <2>2. it[X] = IF X = {} THEN s ELSE Walk(down, it[X \ {Max(X)}], targets[Max(X)])
    <3>1. X \in SUBSET (1..n)
      BY <2>1
    <3> QED BY <1>1, <3>1 DEF WalksOver
  <2>3. k \in X /\ X # {} /\ \A x \in X : x \in Int /\ x <= k
    <3>1. k \in 1..k /\ \A x \in 1..k : x \in Int /\ x <= k
      OBVIOUS
    <3> QED BY <2>1, <3>1, Zenon
  <2>4. PICK m \in X : m = Max(X) /\ \A x \in X : x <= m
    <3>1. k \in Nat /\ X \in SUBSET (1..k)
      BY <2>1
    <3> QED BY <2>3, <3>1, MaxOf
  <2>5. m = k
    BY <2>3, <2>4
  <2>6. X \ {k} = 1..j
    BY <2>0, <2>1
  <2>7. f[k] = it[X] /\ f[j] = it[1..j]
    BY <1>3, <2>1
  <2> QED BY <2>0, <2>2, <2>3, <2>4, <2>5, <2>6, <2>7
<1>6. f[n] = it[1..n]
  BY <1>3
<1> QED BY <1>2, <1>4, <1>5, <1>6 DEF WalkSteps

-----------------------------------------------------------------------------
(* Sums of sums, of multiples, and of what is never more.                                         *)
LEMMA SumAdds ==
  ASSUME NEW S, IsFiniteSet(S), NEW u, NEW v, NEW w, \A x \in S : v[x] \in Int /\ w[x] \in Int /\ u[x] = v[x] + w[x]
  PROVE  SumOf(u, S) = SumOf(v, S) + SumOf(w, S)
<1> DEFINE Bad == {X \in SUBSET S : SumOf(u, X) # SumOf(v, X) + SumOf(w, X)}
<1> SUFFICES ASSUME Bad # {} PROVE FALSE
  OBVIOUS
<1>1. PICK X \in Bad : \A x \in X : X \ {x} \notin Bad
  <2>1. Bad \subseteq SUBSET S
    OBVIOUS
  <2> HIDE DEF Bad
  <2> QED BY <2>1, SmallestSet
<1>2. X \in SUBSET S /\ SumOf(u, X) # SumOf(v, X) + SumOf(w, X) /\ IsFiniteSet(X)
  BY <1>1, FS_Subset
<1>3. CASE X = {}
  <2>1. SumOf(u, X) = 0 /\ SumOf(v, X) = 0 /\ SumOf(w, X) = 0
    BY <1>3, SumEmpty
  <2> QED BY <1>2, <2>1
<1>4. CASE X # {}
  <2>1. PICK y \in X : TRUE
    BY <1>4
  <2>2. PICK Y \in SUBSET S : Y = X \ {y}
    BY <1>2
  <2>3. SumOf(u, Y) = SumOf(v, Y) + SumOf(w, Y)
    BY <1>1, <2>1, <2>2
  <2>4. \A x \in X : u[x] \in Int /\ v[x] \in Int /\ w[x] \in Int
    BY <1>2
  <2>5. SumOf(u, X) = u[y] + SumOf(u, Y) /\ SumOf(v, X) = v[y] + SumOf(v, Y) /\ SumOf(w, X) = w[y] + SumOf(w, Y)
    BY <1>2, <2>1, <2>2, <2>4, SumTakes
  <2>6. SumOf(v, Y) \in Int /\ SumOf(w, Y) \in Int
    <3>1. IsFiniteSet(Y) /\ \A x \in Y : v[x] \in Int /\ w[x] \in Int
      BY <1>2, <2>2, <2>4, FS_Subset
    <3> QED BY <3>1, SumTyped
  <2>7. u[y] = v[y] + w[y] /\ v[y] \in Int /\ w[y] \in Int
    BY <1>2, <2>1
  <2> QED BY <1>2, <2>3, <2>5, <2>6, <2>7
<1> QED BY <1>3, <1>4

LEMMA SumTimes ==
  ASSUME NEW S, IsFiniteSet(S), NEW c \in Int, NEW u, NEW v, \A x \in S : v[x] \in Int /\ u[x] = v[x] * c
  PROVE  SumOf(u, S) = SumOf(v, S) * c
<1> DEFINE Bad == {X \in SUBSET S : SumOf(u, X) # SumOf(v, X) * c}
<1> SUFFICES ASSUME Bad # {} PROVE FALSE
  OBVIOUS
<1>1. PICK X \in Bad : \A x \in X : X \ {x} \notin Bad
  <2>1. Bad \subseteq SUBSET S
    OBVIOUS
  <2> HIDE DEF Bad
  <2> QED BY <2>1, SmallestSet
<1>2. X \in SUBSET S /\ SumOf(u, X) # SumOf(v, X) * c /\ IsFiniteSet(X)
  BY <1>1, FS_Subset
<1>3. CASE X = {}
  <2>1. SumOf(u, X) = 0 /\ SumOf(v, X) = 0
    BY <1>3, SumEmpty
  <2> QED BY <1>2, <2>1
<1>4. CASE X # {}
  <2>1. PICK y \in X : TRUE
    BY <1>4
  <2>2. PICK Y \in SUBSET S : Y = X \ {y}
    BY <1>2
  <2>3. SumOf(u, Y) = SumOf(v, Y) * c
    BY <1>1, <2>1, <2>2
  <2>4. \A x \in X : u[x] \in Int /\ v[x] \in Int
    BY <1>2
  <2>5. SumOf(u, X) = u[y] + SumOf(u, Y) /\ SumOf(v, X) = v[y] + SumOf(v, Y)
    BY <1>2, <2>1, <2>2, <2>4, SumTakes
  <2>6. SumOf(v, Y) \in Int
    <3>1. IsFiniteSet(Y) /\ \A x \in Y : v[x] \in Int
      BY <1>2, <2>2, <2>4, FS_Subset
    <3> QED BY <3>1, SumTyped
  <2>7. u[y] = v[y] * c /\ v[y] \in Int
    BY <1>2, <2>1
  <2>8. PICK a \in Int, b \in Int : a = v[y] /\ b = SumOf(v, Y)
    BY <2>6, <2>7
  <2>9. (a + b) * c = a * c + b * c
    OBVIOUS
  <2> QED BY <1>2, <2>3, <2>5, <2>7, <2>8, <2>9
<1> QED BY <1>3, <1>4

LEMMA SumLeq ==
  ASSUME NEW S, IsFiniteSet(S), NEW v, NEW w, \A x \in S : v[x] \in Int /\ w[x] \in Int /\ v[x] <= w[x]
  PROVE  SumOf(v, S) \in Int /\ SumOf(w, S) \in Int /\ SumOf(v, S) <= SumOf(w, S)
<1>1. PICK d : d = [x \in S |-> w[x] - v[x]]
  OBVIOUS
<1>2. \A x \in S : v[x] \in Int /\ d[x] \in Int /\ d[x] \in Nat /\ w[x] = v[x] + d[x]
  <2> SUFFICES ASSUME NEW x \in S PROVE v[x] \in Int /\ d[x] \in Int /\ d[x] \in Nat /\ w[x] = v[x] + d[x]
    OBVIOUS
  <2>1. d[x] = w[x] - v[x] /\ v[x] \in Int /\ w[x] \in Int /\ v[x] <= w[x]
    BY <1>1
  <2> QED BY <2>1
<1>3. SumOf(w, S) = SumOf(v, S) + SumOf(d, S)
  BY <1>2, SumAdds
<1>4. SumOf(v, S) \in Int /\ SumOf(d, S) \in Nat
  BY <1>2, SumTyped
<1> QED BY <1>3, <1>4

LEMMA SumOnes ==
  ASSUME NEW S, IsFiniteSet(S), NEW u, \A x \in S : u[x] = 1
  PROVE  SumOf(u, S) = Cardinality(S)
<1> DEFINE Bad == {X \in SUBSET S : SumOf(u, X) # Cardinality(X)}
<1> SUFFICES ASSUME Bad # {} PROVE FALSE
  OBVIOUS
<1>1. PICK X \in Bad : \A x \in X : X \ {x} \notin Bad
  <2>1. Bad \subseteq SUBSET S
    OBVIOUS
  <2> HIDE DEF Bad
  <2> QED BY <2>1, SmallestSet
<1>2. X \in SUBSET S /\ SumOf(u, X) # Cardinality(X) /\ IsFiniteSet(X)
  BY <1>1, FS_Subset
<1>3. CASE X = {}
  BY <1>2, <1>3, SumEmpty, FS_EmptySet
<1>4. CASE X # {}
  <2>1. PICK y \in X : TRUE
    BY <1>4
  <2>2. PICK Y \in SUBSET S : Y = X \ {y}
    BY <1>2
  <2>3. SumOf(u, Y) = Cardinality(Y)
    BY <1>1, <2>1, <2>2
  <2>4. \A x \in X : u[x] \in Int
    BY <1>2
  <2>5. SumOf(u, X) = u[y] + SumOf(u, Y)
    BY <1>2, <2>1, <2>2, <2>4, SumTakes
  <2>6. Cardinality(Y) = Cardinality(X) - 1 /\ Cardinality(X) \in Nat
    BY <1>2, <2>1, <2>2, FS_RemoveElement, FS_CardinalityType
  <2>7. u[y] = 1
    BY <1>2, <2>1
  <2> QED BY <1>2, <2>3, <2>5, <2>6, <2>7
<1> QED BY <1>3, <1>4

(* The estimates that know no pool, what positions hold, and the linear map of ticks: arithmetic alone. *)
LEMMA NearestBounds ==
  ASSUME NEW n \in Nat, NEW d \in Nat \ {0}, NEW k \in Int
  PROVE  /\ Nearest(n, d) \in Int
         /\ n <= k * d => Nearest(n, d) <= k
         /\ k * d <= n => k <= Nearest(n, d)
         /\ (Nearest(n, d) - 1) * d <= n /\ n <= (Nearest(n, d) + 1) * d
<1>1. PICK e \in Nat \ {0}, s \in Nat : e = 2 * d /\ s = 2 * n + d
  OBVIOUS
<1>2. PICK q \in Int : q = s \div e
  OBVIOUS
<1>3. Nearest(n, d) = q
  BY <1>1, <1>2 DEF Nearest
<1>4. \A j \in Int : j * e <= s <=> j <= q
  BY <1>2, FitsIn
<1>5. ASSUME NEW j \in Int PROVE j * e = 2 * (j * d) /\ (j + 1) * e = 2 * (j * d) + 2 * d /\ (j - 1) * d = j * d - d /\ (j + 1) * d = j * d + d
  BY <1>1
<1>6. n <= k * d => q <= k
  <2> SUFFICES ASSUME n <= k * d, k + 1 <= q PROVE FALSE
    OBVIOUS
  <2>1. (k + 1) * e <= s
    BY <1>4
  <2> QED BY <1>1, <1>5, <2>1
<1>7. k * d <= n => k <= q
  <2> SUFFICES ASSUME k * d <= n PROVE k * e <= s
    BY <1>4
  <2> QED BY <1>1, <1>5
<1>8. (q - 1) * d <= n
  <2>1. q * e <= s
    BY <1>4
  <2>2. PICK x \in Int : x = q * d
    OBVIOUS
  <2> QED BY <1>1, <1>5, <2>1, <2>2
<1>9. n <= (q + 1) * d
  <2>1. ~((q + 1) * e <= s)
    BY <1>4
  <2>2. PICK x \in Int : x = q * d
    OBVIOUS
  <2> QED BY <1>1, <1>5, <2>1, <2>2
<1> QED BY <1>3, <1>6, <1>7, <1>8, <1>9

(* What is asked for an amount out, compared with an amount in, is decided by the products. *)
LEMMA InverseOf ==
  ASSUME NEW r \in Nat \ {0}, NEW m \in Nat \ {0}, NEW k \in Nat \ {0}, NEW a \in Nat, NEW x \in Nat
  PROVE  /\ r * a * k \in Nat /\ r * m + a * k \in Nat \ {0} /\ r * x * m \in Nat
         /\ x * (r * m + a * k) <= r * a * k => x < r /\ r * x * m <= a * ((r - x) * k)
         /\ r * a * k <= x * (r * m + a * k) => a * ((r - x) * k) <= r * x * m
         /\ x < r => (r - x) * k \in Nat \ {0}
<1>1. PICK rm \in Nat \ {0}, ak \in Nat : rm = r * m /\ ak = a * k
  <2>1. r * m \in Nat /\ r * m # 0
    OBVIOUS
  <2> QED BY <2>1
<1>2. r * a * k = r * ak /\ r * x * m = x * rm /\ r * ak \in Nat /\ x * rm \in Nat
  BY <1>1
<1>3. x * (rm + ak) = x * rm + x * ak /\ r * (rm + ak) = r * rm + r * ak
  BY <1>1
<1>4. a * ((r - x) * k) = r * ak - x * ak
  <2>1. PICK z \in Int : z = r - x
    OBVIOUS
  <2>2. a * (z * k) = z * ak
    BY <1>1
  <2>3. z * ak = r * ak - x * ak
    BY <1>1, <2>1
  <2> QED BY <2>1, <2>2, <2>3
<1>5. ASSUME x * (rm + ak) <= r * ak PROVE x < r
  <2> SUFFICES ASSUME r <= x PROVE FALSE
    OBVIOUS
  <2>1. r * (rm + ak) <= x * (rm + ak)
    BY <1>1, TimesGrows
  <2>2. r * rm \in Nat /\ r * rm # 0
    BY <1>1
  <2>3. r * ak \in Int
    BY <1>1
  <2> QED BY <1>3, <1>5, <2>1, <2>2, <2>3
<1>6. x < r => (r - x) * k \in Nat \ {0}
  <2> SUFFICES ASSUME x < r PROVE (r - x) * k \in Nat \ {0}
    OBVIOUS
  <2>1. PICK z \in Nat \ {0} : z = r - x
    OBVIOUS
  <2>2. z * k \in Nat /\ z * k # 0
    OBVIOUS
  <2> QED BY <2>1, <2>2
<1>7. PICK p1 \in Int, p2 \in Int, p3 \in Int : p1 = x * rm /\ p2 = x * ak /\ p3 = r * ak
  BY <1>1
<1>8. rm + ak \in Nat \ {0}
  BY <1>1
<1>9. r * m + a * k = rm + ak
  BY <1>1
<1> QED BY <1>2, <1>3, <1>4, <1>5, <1>6, <1>7, <1>8, <1>9

LEMMA EstimatesSound == EstimatesInvert
<1> SUFFICES ASSUME NEW in \in AmountsIn, NEW out, out = EstimateOut(in)
             PROVE  (out > 0 => EstimateIn(out - 1) <= in) /\ (out + 1 < Reserve => in <= EstimateIn(out + 1))
  BY DEF EstimatesInvert
<1>1. in \in Nat /\ Reserve \in Nat \ {0} /\ Million \in Nat \ {0} /\ FeePpm \in 0..(Million - 1)
  <2>1. AmountsIn \subseteq Nat /\ Reserve \in Nat \ {0} /\ Million \in Nat \ {0} /\ FeePpm \in 0..(Million - 1)
    BY ONLY QuoteAssumption
  <2> QED BY <2>1, Zenon
<1>2. PICK k \in Nat \ {0} : k = Kept
  BY <1>1 DEF Kept
<1>3. PICK n \in Nat, d \in Nat \ {0} : n = Reserve * in * k /\ d = Reserve * Million + in * k
  <2>1. Reserve * in * k \in Nat /\ Reserve * Million + in * k \in Nat \ {0}
    BY <1>1, <1>2, InverseOf
  <2> QED BY <2>1
<1>4. out = Nearest(n, d)
  BY <1>2, <1>3 DEF EstimateOut
<1>5. out \in Int /\ 0 <= out /\ (out - 1) * d <= n /\ n <= (out + 1) * d
  <2>1. 0 * d <= n
    OBVIOUS
  <2> QED BY <1>4, <2>1, NearestBounds
<1>6. ASSUME out > 0 PROVE EstimateIn(out - 1) <= in
  <2>1. PICK x \in Nat : x = out - 1
    BY <1>5, <1>6
  <2>2. x < Reserve /\ Reserve * x * Million <= in * ((Reserve - x) * k) /\ Reserve * x * Million \in Nat
    BY <1>1, <1>3, <1>5, <2>1, InverseOf
  <2>3. (Reserve - x) * k \in Nat \ {0}
    BY <1>1, <2>2, InverseOf
  <2>4. Nearest(Reserve * x * Million, (Reserve - x) * k) <= in
    BY <1>1, <2>2, <2>3, NearestBounds
  <2> QED BY <1>2, <2>1, <2>4 DEF EstimateIn
<1>7. ASSUME out + 1 < Reserve PROVE in <= EstimateIn(out + 1)
  <2>1. PICK x \in Nat : x = out + 1 /\ x < Reserve
    BY <1>5, <1>7
  <2>2. in * ((Reserve - x) * k) <= Reserve * x * Million /\ Reserve * x * Million \in Nat
    BY <1>1, <1>3, <1>5, <2>1, InverseOf
  <2>3. (Reserve - x) * k \in Nat \ {0}
    BY <1>1, <2>1, InverseOf
  <2>4. in <= Nearest(Reserve * x * Million, (Reserve - x) * k)
    BY <1>1, <2>2, <2>3, NearestBounds
  <2> QED BY <1>2, <2>1, <2>4 DEF EstimateIn
<1> QED BY <1>6, <1>7

LEMMA PartsFit ==
  ASSUME NEW a \in Nat, NEW b \in Nat, NEW d \in Nat \ {0}
  PROVE  a \div d + b \div d <= (a + b) \div d /\ (a + b) \div d <= a \div d + b \div d + 1
<1>1. PICK x \in Int, y \in Int, z \in Int : x = a \div d /\ y = b \div d /\ z = (a + b) \div d
  OBVIOUS
<1>2. x * d <= a /\ y * d <= b /\ z * d <= a + b
  BY <1>1, FitsIn
<1>3. (x + y) * d = x * d + y * d
  BY <1>1
<1>4. x + y <= z
  <2>1. x * d \in Int /\ y * d \in Int
    BY <1>1
  <2>2. (x + y) * d <= a + b
    BY <1>2, <1>3, <2>1
  <2> QED BY <1>1, <2>2, FitsIn
<1>5. z <= x + y + 1
  <2> SUFFICES ASSUME x + y + 2 <= z PROVE FALSE
    BY <1>1
  <2>1. (x + y + 2) * d <= z * d
    BY <1>1, TimesGrows
  <2>2. (x + y + 2) * d = (x + 1) * d + (y + 1) * d
    BY <1>1
  <2>3. a < (x + 1) * d /\ b < (y + 1) * d
    <3>1. ~(x + 1 <= a \div d) /\ ~(y + 1 <= b \div d)
      BY <1>1
    <3>2. ~((x + 1) * d <= a) /\ ~((y + 1) * d <= b)
      BY <1>1, <3>1, FitsIn
    <3>3. (x + 1) * d \in Int /\ (y + 1) * d \in Int
      BY <1>1
    <3> QED BY <3>2, <3>3
  <2>4. (x + 1) * d \in Int /\ (y + 1) * d \in Int /\ z * d \in Int
    BY <1>1
  <2> QED BY <1>2, <2>1, <2>2, <2>3, <2>4
<1> QED BY <1>1, <1>4, <1>5

LEMMA BuysBack ==
  ASSUME NEW l \in Nat, NEW w \in Nat \ {0}, NEW q \in Nat \ {0}
  PROVE  (((l * w) \div q) * q) \div w <= l
<1>1. PICK n \in Nat : n = l * w
  OBVIOUS
<1>2. n \div q \in Nat /\ (n \div q) * q <= n
  BY <1>1, DownFits
<1>3. PICK c \in Nat : c = (n \div q) * q
  BY <1>2
<1>4. c \div w \in Nat /\ (c \div w) * w <= c
  BY <1>3, DownFits
<1>5. (c \div w) * w <= l * w
  BY <1>1, <1>2, <1>3, <1>4
<1> QED BY <1>1, <1>3, <1>4, <1>5, Cancels

LEMMA HoldingsOfParts ==
  ASSUME NEW p \in Nat \ {0}, NEW lo \in Nat \ {0}, NEW hi \in Nat \ {0}, lo < hi, NEW a \in Nat, NEW b \in Nat
  PROVE  LET all == AmountsForLiquidity(p, lo, hi, a + b)
             one == AmountsForLiquidity(p, lo, hi, a)
             two == AmountsForLiquidity(p, lo, hi, b)
         IN  one.amount1 + two.amount1 <= all.amount1 /\ one.amount0 + two.amount0 <= all.amount0 + 1
<1>0. Q \in Nat \ {0}
  BY QuoteAssumption
<1>1. PICK x \in Nat, y \in Nat : x = a * Q /\ y = b * Q /\ (a + b) * Q = x + y
  <2>1. a * Q \in Nat /\ b * Q \in Nat /\ (a + b) * Q = a * Q + b * Q
    BY <1>0
  <2> QED BY <2>1
<1>2. \A c \in Nat \ {0} : /\ x \div lo \in Int /\ y \div lo \in Int /\ (x + y) \div lo \in Int
                           /\ x \div c \in Int /\ y \div c \in Int /\ (x + y) \div c \in Int
                           /\ x \div lo + y \div lo <= (x + y) \div lo /\ (x + y) \div c <= x \div c + y \div c + 1
  BY PartsFit
<1>3. \A w \in Nat : (a * w) \div Q + (b * w) \div Q <= ((a + b) * w) \div Q
  <2> SUFFICES ASSUME NEW w \in Nat PROVE (a * w) \div Q + (b * w) \div Q <= ((a + b) * w) \div Q
    OBVIOUS
  <2>1. a * w \in Nat /\ b * w \in Nat /\ (a + b) * w = a * w + b * w
    OBVIOUS
  <2> QED BY <1>0, <2>1, PartsFit
<1>4. CASE p <= lo
  <2>1. \A l \in Nat : AmountsForLiquidity(p, lo, hi, l) = [amount0 |-> (l * Q) \div lo - (l * Q) \div hi, amount1 |-> 0]
    BY <1>4 DEF AmountsForLiquidity
  <2>2. PICK x1 \in Int, y1 \in Int, z1 \in Int, x2 \in Int, y2 \in Int, z2 \in Int :
          /\ x1 = x \div lo /\ y1 = y \div lo /\ z1 = (x + y) \div lo
          /\ x2 = x \div hi /\ y2 = y \div hi /\ z2 = (x + y) \div hi
          /\ x1 + y1 <= z1 /\ z2 <= x2 + y2 + 1
    BY <1>2
  <2>3. (a + b) \in Nat
    OBVIOUS
  <2> QED BY <1>1, <2>1, <2>2, <2>3
<1>5. CASE p >= hi
  <2>1. ~(p <= lo)
    BY <1>5
  <2>2. \A l \in Nat : AmountsForLiquidity(p, lo, hi, l) = [amount0 |-> 0, amount1 |-> (l * (hi - lo)) \div Q]
    BY <1>5, <2>1 DEF AmountsForLiquidity
  <2>3. hi - lo \in Nat /\ a + b \in Nat
    OBVIOUS
  <2>4. (a * (hi - lo)) \div Q + (b * (hi - lo)) \div Q <= ((a + b) * (hi - lo)) \div Q
    BY <1>3, <2>3
  <2> QED BY ONLY <2>2, <2>3, <2>4, <1>0
<1>6. CASE lo < p /\ p < hi
  <2>1. ~(p <= lo) /\ ~(p >= hi)
    BY <1>6
  <2>2. \A l \in Nat : AmountsForLiquidity(p, lo, hi, l) = [amount0 |-> (l * Q) \div lo - (l * Q) \div p, amount1 |-> (l * (p - lo)) \div Q]
    BY <2>1 DEF AmountsForLiquidity
  <2>3. p - lo \in Nat /\ a + b \in Nat
    BY <1>6
  <2>4. (a * (p - lo)) \div Q + (b * (p - lo)) \div Q <= ((a + b) * (p - lo)) \div Q
    BY <1>3, <2>3
  <2> QED BY <1>1, <1>2, <2>2, <2>3, <2>4
<1> QED BY <1>4, <1>5, <1>6

LEMMA HoldingsBuyBack ==
  ASSUME NEW p \in Nat \ {0}, NEW lo \in Nat \ {0}, NEW hi \in Nat \ {0}, lo < hi, lo < p, NEW l \in Nat
  PROVE  LET all == AmountsForLiquidity(p, lo, hi, l)
         IN  LiquidityForAmounts(p, lo, hi, all.amount0, all.amount1) <= l
<1>0. Q \in Nat \ {0}
  BY QuoteAssumption
<1>1. CASE p >= hi
  <2>1. ~(p <= lo) /\ hi - lo \in Nat \ {0}
    BY <1>1
  <2>2. AmountsForLiquidity(p, lo, hi, l).amount1 = (l * (hi - lo)) \div Q
    BY <1>1, <2>1 DEF AmountsForLiquidity
  <2>3. \A a0, a1 : LiquidityForAmounts(p, lo, hi, a0, a1) = (a1 * Q) \div (hi - lo)
    BY <1>1, <2>1 DEF LiquidityForAmounts, BoughtBy1
  <2> QED BY <1>0, <2>1, <2>2, <2>3, BuysBack
<1>2. CASE p < hi
  <2>1. ~(p <= lo) /\ ~(p >= hi) /\ p - lo \in Nat \ {0}
    BY <1>2
  <2>2. PICK all : all = AmountsForLiquidity(p, lo, hi, l)
    OBVIOUS
  <2>3. all.amount1 = (l * (p - lo)) \div Q /\ all.amount0 = (l * Q) \div lo - (l * Q) \div p
    BY <2>1, <2>2 DEF AmountsForLiquidity
  <2>4. LiquidityForAmounts(p, lo, hi, all.amount0, all.amount1)
          = LesserOf(BoughtBy0(all.amount0, p, hi), BoughtBy1(all.amount1, lo, p))
    BY <2>1 DEF LiquidityForAmounts
  <2>5. BoughtBy1(all.amount1, lo, p) <= l
    BY <1>0, <2>1, <2>3, BuysBack DEF BoughtBy1
  <2>6. BoughtBy1(all.amount1, lo, p) \in Int
    <3>1. all.amount1 \in Nat
      <4>1. l * (p - lo) \in Nat
        BY <2>1
      <4> QED BY <1>0, <2>3, <4>1, DownFits
    <3>2. all.amount1 * Q \in Nat
      BY <1>0, <3>1
    <3> QED BY <2>1, <3>2 DEF BoughtBy1
  <2>7. BoughtBy0(all.amount0, p, hi) \in Int
    <3>1. l * Q \in Nat
      BY <1>0
    <3>2. (l * Q) \div lo \in Int /\ (l * Q) \div p \in Int
      BY <3>1
    <3>3. all.amount0 \in Int
      BY <2>3, <3>2
    <3>4. PICK x \in Int, w \in Nat \ {0} : x = all.amount0 * p * hi /\ w = Q * (hi - p)
      <4>1. all.amount0 * p * hi \in Int
        BY <3>3
      <4>2. PICK c \in Nat \ {0} : c = hi - p
        BY <1>2
      <4>3. Q * c \in Nat /\ Q * c # 0
        BY <1>0
      <4> QED BY <4>1, <4>2, <4>3
    <3> QED BY <3>4 DEF BoughtBy0
  <2>8. \A x, y \in Int : y <= l => LesserOf(x, y) <= l
    BY DEF LesserOf
  <2> QED BY <2>2, <2>4, <2>5, <2>6, <2>7, <2>8
<1> QED BY <1>1, <1>2

(* The price the pool is at. *)
PriceOk == sqrtPrice \in QuotePrices

LEMMA PricesTyped == ASSUME NEW p \in QuotePrices PROVE p \in Nat \ {0} /\ Ratio[0] <= p /\ p <= Ratio[MaxTick]
<1>1. p \in Ratio[0]..Ratio[MaxTick]
  BY RatioTyped
<1>2. Ratio[0] \in Nat \ {0} /\ Ratio[MaxTick] \in Nat \ {0}
  BY RatioTyped
<1> QED BY <1>1, <1>2

LEMMA RangeRatios ==
  ASSUME NEW r \in QuoteRanges
  PROVE  /\ Ratio[r.lower] \in Nat \ {0} /\ Ratio[r.upper] \in Nat \ {0} /\ Ratio[r.lower] < Ratio[r.upper]
         /\ r.lower \in 0..MaxTick /\ r.upper \in 0..MaxTick /\ r.lower < r.upper /\ r.liquidity \in Nat \ {0}
<1>1. r.lower \in 0..MaxTick /\ r.upper \in 0..MaxTick /\ r.lower < r.upper /\ r.liquidity \in Nat \ {0}
  BY RangesTyped, RatioTyped
<1> QED BY <1>1, RatioGrows, RatioTyped

LEMMA NothingIsGained == ASSUME BookOk, PriceOk PROVE NothingGained
<1> SUFFICES ASSUME NEW r \in book, NEW part \in 0..r.liquidity
             PROVE LET lo == Ratio[r.lower]  hi == Ratio[r.upper]
                       all == AmountsForLiquidity(sqrtPrice, lo, hi, r.liquidity)
                       one == AmountsDelta(sqrtPrice, lo, hi, part)
                       two == AmountsDelta(sqrtPrice, lo, hi, r.liquidity - part)
                   IN  /\ sqrtPrice > lo => LiquidityForAmounts(sqrtPrice, lo, hi, all.amount0, all.amount1) <= r.liquidity
                       /\ one.amount1 + two.amount1 <= all.amount1
                       /\ one.amount0 + two.amount0 <= all.amount0 + 1
  BY DEF NothingGained
<1>1. r \in QuoteRanges
  BY DEF BookOk
<1>2. PICK p \in Nat \ {0} : p = sqrtPrice
  BY PricesTyped DEF PriceOk
<1>3. PICK lo \in Nat \ {0}, hi \in Nat \ {0} : lo = Ratio[r.lower] /\ hi = Ratio[r.upper] /\ lo < hi
  BY <1>1, RangeRatios
<1>4. PICK l \in Nat, a \in Nat, b \in Nat : l = r.liquidity /\ a = part /\ b = r.liquidity - part /\ l = a + b
  BY <1>1, RangeRatios
<1>5. p > lo => LET all == AmountsForLiquidity(p, lo, hi, l)
                IN  LiquidityForAmounts(p, lo, hi, all.amount0, all.amount1) <= l
  BY <1>3, HoldingsBuyBack
<1>6. LET all == AmountsForLiquidity(p, lo, hi, a + b)
          one == AmountsForLiquidity(p, lo, hi, a)
          two == AmountsForLiquidity(p, lo, hi, b)
      IN  one.amount1 + two.amount1 <= all.amount1 /\ one.amount0 + two.amount0 <= all.amount0 + 1
  BY <1>3, HoldingsOfParts
<1> QED BY ONLY <1>2, <1>3, <1>4, <1>5, <1>6 DEF AmountsDelta

(* A tick's price is within a tick of it: what is cut towards zero there and back.                *)
LEMMA ThereAndBack ==
  ASSUME NEW t \in Nat, NEW q \in Nat \ {0}, NEW k \in Nat \ {0}, k <= q
  PROVE  (((t * q) \div k) * k) \div q \in {t, t - 1} /\ (t * q) \div k \in Nat
<1>1. PICK n \in Nat : n = t * q
  OBVIOUS
<1>2. PICK s \in Nat : s = n \div k /\ s * k <= n
  BY <1>1, DownFits
<1>3. n < (s + 1) * k
  <2>1. ~(s + 1 <= n \div k)
    BY <1>2
  <2>2. ~((s + 1) * k <= n)
    BY <2>1, FitsIn
  <2> QED BY <2>2
<1>4. PICK c \in Nat : c = s * k
  OBVIOUS
<1>5. n < c + k /\ c <= n
  BY <1>2, <1>3, <1>4
<1>6. PICK b \in Int : b = c \div q
  OBVIOUS
<1>7. b <= t
  <2> SUFFICES ASSUME t + 1 <= b PROVE FALSE
    BY <1>6
  <2>1. (t + 1) * q <= c
    BY <1>6, FitsIn
  <2> QED BY <1>1, <1>5, <2>1
<1>8. t - 1 <= b
  <2>1. (t - 1) * q <= c
    BY <1>1, <1>5
  <2> QED BY <1>6, <2>1, FitsIn
<1> QED BY <1>1, <1>2, <1>4, <1>6, <1>7, <1>8

LEMMA TicksDoComeBack == TicksComeBack
<1>1. PICK q \in Nat \ {0}, k \in Nat \ {0} : q = Q /\ k = TicksPerQ /\ k <= q
  BY QuoteAssumption, HoldingsAssumption
<1> SUFFICES ASSUME NEW t \in -(k + 2)..(2 * k), NEW back, back = SqrtPriceToTick(TickToSqrtPrice(t))
             PROVE  IF t >= 0 THEN back \in {t, t - 1} /\ back >= 0
                    ELSE IF t > -k THEN back \in {t, t + 1} /\ back <= 0
                    ELSE back = 1 - k
  BY <1>1 DEF TicksComeBack
<1>2. CASE t >= 0
  <2>0. t \in Nat /\ k <= q
    BY <1>1, <1>2
  <2>1. PICK s \in Nat : s = (t * q) \div k /\ (s * k) \div q \in {t, t - 1}
    BY <2>0, ThereAndBack
  <2>2. TickToSqrtPrice(t) = q + s
    BY <1>1, <1>2, <2>1 DEF TickToSqrtPrice
  <2>3. back = (s * k) \div q
    BY <1>1, <2>2 DEF SqrtPriceToTick
  <2>4. s * k \in Nat
    OBVIOUS
  <2>5. back >= 0
    BY <2>3, <2>4, DownFits
  <2> QED BY <1>2, <2>1, <2>3, <2>5
<1>3. CASE t < 0
  <2>1. PICK u \in Nat \ {0} : u = -t
    BY <1>3
  <2>2. -t * q = u * q
    BY <1>1, <2>1
  <2>3. PICK s \in Nat : s = (u * q) \div k /\ (s * k) \div q \in {u, u - 1}
    BY <1>1, ThereAndBack
  <2>4. TickToSqrtPrice(t) = IF s >= q THEN 1 ELSE q - s
    BY <1>1, <1>3, <2>2, <2>3 DEF TickToSqrtPrice
  <2>5. 1 <= s
    <3>1. 1 * k <= u * q
      BY <1>1
    <3>2. u * q \in Int
      OBVIOUS
    <3> QED BY <2>3, <3>1, <3>2, FitsIn
  <2>6. CASE t > -k
    <3>1. s < q
      <4>1. ~(q * k <= u * q)
        <5> SUFFICES ASSUME q * k <= u * q PROVE FALSE
          OBVIOUS
        <5>1. k * q <= u * q
          OBVIOUS
        <5>2. k <= u
          BY <5>1, Cancels
        <5> QED BY <2>1, <2>6, <5>2
      <4>2. u * q \in Int
        OBVIOUS
      <4> QED BY <2>3, <4>1, <4>2, FitsIn
    <3>2. TickToSqrtPrice(t) = q - s /\ q - s \in Int /\ q - s < q
      BY <2>4, <2>5, <3>1
    <3>3. back = -((s * k) \div q)
      <4>1. q - (q - s) = s
        OBVIOUS
      <4> QED BY <1>1, <3>2, <4>1 DEF SqrtPriceToTick
    <3>4. s * k \in Nat
      OBVIOUS
    <3>5. (s * k) \div q \in Nat
      BY <3>4, DownFits
    <3> QED BY <1>3, <2>1, <2>3, <2>6, <3>3, <3>5
  <2>7. CASE t <= -k
    <3>1. q <= s
      <4>1. k <= u
        BY <2>1, <2>7
      <4>2. k * q <= u * q
        BY <4>1, TimesGrows
      <4>3. q * k <= u * q /\ u * q \in Int
        BY <4>2
      <4>4. q <= (u * q) \div k
        BY <4>3, FitsIn
      <4> QED BY <2>3, <4>4
    <3>2. TickToSqrtPrice(t) = 1
      BY <2>4, <3>1
    <3>3. CASE q = 1
      <4>1. k = 1
        BY <1>1, <3>3
      <4>2. back = ((1 - q) * k) \div q
        BY <1>1, <3>2, <3>3 DEF SqrtPriceToTick
      <4>3. back = 0
        BY <3>3, <4>1, <4>2
      <4> QED BY <1>3, <2>7, <4>1, <4>3
    <3>4. CASE q # 1
      <4>1. back = -(((q - 1) * k) \div q)
        BY <1>1, <3>2, <3>4 DEF SqrtPriceToTick
      <4>2. PICK m \in Int : m = ((q - 1) * k) \div q
        BY <1>1
      <4>3. (q - 1) * k = q * k - k
        BY <1>1
      <4>4. k - 1 <= m
        <5>1. (k - 1) * q <= (q - 1) * k
          BY <1>1, <4>3
        <5>2. (q - 1) * k \in Int
          OBVIOUS
        <5> QED BY <4>2, <5>1, <5>2, FitsIn
      <4>5. m <= k - 1
        <5>1. ~(k * q <= (q - 1) * k)
          BY <4>3
        <5>2. (q - 1) * k \in Int
          OBVIOUS
        <5>3. ~(k <= m)
          BY <4>2, <5>1, <5>2, FitsIn
        <5> QED BY <5>3
      <4> QED BY <1>3, <2>7, <4>1, <4>2, <4>4, <4>5
    <3> QED BY <3>3, <3>4
  <2> QED BY <1>1, <2>6, <2>7
<1> QED BY <1>2, <1>3

-----------------------------------------------------------------------------
(* One turn: the price moves towards the target, and reaches it exactly if the input does.        *)
Towards(down, x, y) == IF down THEN y <= x ELSE x <= y
LowEnd(down, x, y)  == IF down THEN y ELSE x
HighEnd(down, x, y) == IF down THEN x ELSE y

LEMMA DownTurn ==
  ASSUME NEW down, down = TRUE, NEW x \in Nat \ {0}, NEW y \in Nat \ {0}, y <= x, NEW l \in Nat \ {0}, NEW in \in Nat
  PROVE  /\ AmountToReach(down, y, x, l) \in Nat /\ PriceAfterIn(down, x, l, in) \in Nat \ {0}
         /\ PriceAfterIn(down, x, l, in) <= x
         /\ AmountToReach(down, y, x, l) <= in <=> PriceAfterIn(down, x, l, in) <= y
<1>0. Q \in Nat \ {0}
  BY QuoteAssumption
<1>1. PICK lq \in Nat \ {0}, ix \in Nat : lq = l * Q /\ ix = in * x
  <2>1. l * Q \in Nat /\ l * Q # 0 /\ in * x \in Nat
    BY <1>0
  <2> QED BY <2>1
<1>2. PICK a \in Nat, b \in Nat : a = lq * x /\ b = lq * y
  BY <1>1
<1>3. PICK c \in Nat : l * x * Q = a /\ l * (x - y) * Q = c /\ c = a - b
  <2>1. l * x * Q = (l * Q) * x
    BY <1>0
  <2>2. l * (x - y) * Q = (l * Q) * (x - y)
    <3>1. PICK w \in Int : w = x - y
      OBVIOUS
    <3>2. l * w * Q = (l * Q) * w
      BY <1>0
    <3> QED BY <3>1, <3>2
  <2>3. lq * (x - y) = a - b
    BY <1>1, <1>2
  <2>4. y * lq <= x * lq
    BY <1>1, TimesGrows
  <2>5. b <= a
    BY <1>1, <1>2, <2>4
  <2> QED BY <1>1, <1>2, <2>1, <2>2, <2>3, <2>5
<1>4. PICK d \in Nat \ {0}, e \in Nat \ {0} : d = x * y /\ e = lq + ix
  <2>1. x * y \in Nat /\ x * y # 0
    OBVIOUS
  <2>2. lq + ix \in Nat \ {0}
    OBVIOUS
  <2> QED BY <2>1, <2>2
<1>5. PICK need \in Nat : need = DivUp(c, d) /\ \A k \in Int : need <= k <=> c <= k * d
  BY UpReaches
<1>6. PICK stop \in Nat : stop = DivUp(a, e) /\ \A k \in Int : stop <= k <=> a <= k * e
  BY UpReaches
<1>7. need = AmountToReach(down, y, x, l)
  <2>1. Amount0Delta(y, x, l, TRUE) = DivUp(l * (x - y) * Q, x * y)
    <3>1. y \in Nat /\ x \in Nat /\ l \in Nat /\ y <= x
      OBVIOUS
    <3>2. \A up \in BOOLEAN : Amount0Delta(y, x, l, up)
                                = IF up THEN DivUp(l * (x - y) * Q, x * y) ELSE (l * (x - y) * Q) \div (x * y)
      BY ONLY <3>1, Delta0
    <3> QED BY ONLY <3>2
  <2> QED BY <1>3, <1>4, <1>5, <2>1 DEF AmountToReach
<1>8. stop = PriceAfterIn(down, x, l, in)
  <2>1. PriceAfterIn(down, x, l, in) = DivUp(l * x * Q, l * Q + in * x)
    BY DEF PriceAfterIn
  <2> QED BY <1>1, <1>3, <1>4, <1>6, <2>1
<1>9. PICK z \in Nat, v \in Nat : z = y * ix /\ v = x * ix
  BY <1>1
<1>10. in * d = z
  <2>1. in * (x * y) = y * (in * x)
    OBVIOUS
  <2> QED BY <1>1, <1>4, <1>9, <2>1
<1>11. y * e = b + z /\ x * e = a + v
  <2>1. y * (lq + ix) = y * lq + y * ix /\ x * (lq + ix) = x * lq + x * ix
    OBVIOUS
  <2> QED BY <1>2, <1>4, <1>9, <2>1
<1>12. need <= in <=> c <= z
  BY <1>5, <1>10
<1>13. stop <= y <=> a <= b + z
  BY <1>6, <1>11
<1>14. stop <= x
  BY <1>6, <1>11
<1>15. stop # 0
  <2>1. a # 0
    BY <1>2
  <2>2. stop <= 0 <=> a <= 0 * e
    BY <1>6
  <2> QED BY <2>1, <2>2
<1>16. need <= in <=> stop <= y
  BY <1>3, <1>12, <1>13
<1> QED BY <1>7, <1>8, <1>14, <1>15, <1>16

LEMMA UpTurn ==
  ASSUME NEW down, down = FALSE, NEW x \in Nat \ {0}, NEW y \in Nat \ {0}, x <= y, NEW l \in Nat \ {0}, NEW in \in Nat
  PROVE  /\ AmountToReach(down, y, x, l) \in Nat /\ PriceAfterIn(down, x, l, in) \in Nat \ {0}
         /\ x <= PriceAfterIn(down, x, l, in)
         /\ AmountToReach(down, y, x, l) <= in <=> y <= PriceAfterIn(down, x, l, in)
<1>0. Q \in Nat \ {0}
  BY QuoteAssumption
<1>1. PICK w \in Nat : w = y - x
  OBVIOUS
<1>2. PICK a \in Nat, b \in Nat : a = l * w /\ b = in * Q /\ a = w * l
  BY <1>0
<1>3. PICK need \in Nat : need = DivUp(a, Q) /\ \A k \in Int : need <= k <=> a <= k * Q
  BY <1>0, UpReaches
<1>4. PICK m \in Nat : m = b \div l
  BY <1>2, DownFits
<1>5. PICK stop \in Nat \ {0} : stop = x + m
  OBVIOUS
<1>6. need = AmountToReach(down, y, x, l)
  <2>1. Amount1Delta(x, y, l, TRUE) = DivUp(l * (y - x), Q)
    <3>1. y \in Nat /\ x \in Nat /\ l \in Nat /\ x <= y
      OBVIOUS
    <3>2. \A up \in BOOLEAN : Amount1Delta(x, y, l, up) = IF up THEN DivUp(l * (y - x), Q) ELSE (l * (y - x)) \div Q
      BY ONLY <3>1, Delta1
    <3> QED BY ONLY <3>2
  <2> QED BY <1>1, <1>2, <1>3, <2>1 DEF AmountToReach
<1>7. stop = PriceAfterIn(down, x, l, in)
  BY <1>2, <1>4, <1>5 DEF PriceAfterIn
<1>8. w * l <= b <=> w <= m
  BY <1>4, FitsIn
<1>9. need <= in <=> w <= m
  BY <1>2, <1>3, <1>8
<1>10. (y <= stop <=> w <= m) /\ x <= stop
  BY <1>1, <1>5
<1> QED BY <1>6, <1>7, <1>9, <1>10

LEMMA TurnMoves ==
  ASSUME NEW down \in BOOLEAN, NEW x \in Nat \ {0}, NEW y \in Nat \ {0}, Towards(down, x, y), NEW l \in Nat \ {0}, NEW in \in Nat
  PROVE  /\ AmountToReach(down, y, x, l) \in Nat /\ PriceAfterIn(down, x, l, in) \in Nat \ {0}
         /\ Towards(down, x, PriceAfterIn(down, x, l, in))
         /\ AmountToReach(down, y, x, l) <= in <=> Towards(down, y, PriceAfterIn(down, x, l, in))
<1>1. CASE down = TRUE
  <2>1. y <= x
    BY <1>1 DEF Towards
  <2>2. /\ AmountToReach(down, y, x, l) \in Nat /\ PriceAfterIn(down, x, l, in) \in Nat \ {0}
        /\ PriceAfterIn(down, x, l, in) <= x
        /\ AmountToReach(down, y, x, l) <= in <=> PriceAfterIn(down, x, l, in) <= y
    BY <1>1, <2>1, DownTurn
  <2> QED BY ONLY <1>1, <2>2 DEF Towards
<1>2. CASE down = FALSE
  <2>1. x <= y
    BY <1>2 DEF Towards
  <2>2. /\ AmountToReach(down, y, x, l) \in Nat /\ PriceAfterIn(down, x, l, in) \in Nat \ {0}
        /\ x <= PriceAfterIn(down, x, l, in)
        /\ AmountToReach(down, y, x, l) <= in <=> y <= PriceAfterIn(down, x, l, in)
    BY <1>2, <2>1, UpTurn
  <2> QED BY ONLY <1>2, <2>2 DEF Towards
<1> QED BY <1>1, <1>2

LEMMA PaidNatural ==
  ASSUME NEW down \in BOOLEAN, NEW lo \in Nat \ {0}, NEW hi \in Nat \ {0}, lo <= hi, NEW l \in Nat
  PROVE  Paid(down, lo, hi, l) \in Nat
<1>0. Q \in Nat \ {0} /\ hi - lo \in Nat
  BY QuoteAssumption
<1>1. l * (hi - lo) \in Nat
  BY <1>0
<1>2. l * (hi - lo) * Q \in Nat
  BY <1>0, <1>1
<1>3. hi * lo \in Nat /\ hi * lo # 0
  OBVIOUS
<1>4. CASE down
  <2>1. Paid(down, lo, hi, l) = (l * (hi - lo)) \div Q
    BY <1>4, Delta1 DEF Paid
  <2> QED BY <1>0, <1>1, <2>1, DownFits
<1>5. CASE ~down
  <2>1. Paid(down, lo, hi, l) = (l * (hi - lo) * Q) \div (hi * lo)
    BY <1>5, Delta0 DEF Paid
  <2> QED BY <1>2, <1>3, <2>1, DownFits
<1> QED BY <1>4, <1>5

-----------------------------------------------------------------------------
(* The tick a price stands in, and the ticks of a book in the order the walk meets them.          *)
LEMMA TickOfIs ==
  ASSUME NEW p \in QuotePrices
  PROVE  /\ TickOf(p) \in 0..MaxTick
         /\ \A t \in 0..MaxTick : (t <= TickOf(p) => Ratio[t] <= p) /\ (TickOf(p) < t => p < Ratio[t])
<1>0. MaxTick \in Nat /\ DOMAIN Ratio = 0..MaxTick /\ p \in Nat \ {0} /\ \A t \in 0..MaxTick : Ratio[t] \in Nat \ {0}
  BY RatioTyped, PricesTyped
<1>1. PICK S : S = {MaxTick - t : t \in {u \in 0..MaxTick : Ratio[u] <= p}}
  OBVIOUS
<1>2. S \subseteq Nat /\ S # {}
  <2>1. 0 \in 0..MaxTick /\ Ratio[0] <= p
    BY <1>0, PricesTyped
  <2> QED BY <1>0, <1>1, <2>1
<1>3. PICK m \in S : \A k \in S : m <= k
  BY <1>2, LeastNatural
<1>4. PICK t \in 0..MaxTick : Ratio[t] <= p /\ m = MaxTick - t
  BY <1>1
<1>5. t = MaxTick \/ p < Ratio[t + 1]
  <2> SUFFICES ASSUME t # MaxTick, Ratio[t + 1] <= p PROVE FALSE
    <3>1. t # MaxTick => t + 1 \in 0..MaxTick
      BY <1>0
    <3> QED BY <1>0, <3>1
  <2>1. t + 1 \in 0..MaxTick
    BY <1>0
  <2>2. MaxTick - (t + 1) \in S
    BY <1>1, <2>1
  <2> QED BY <1>0, <1>3, <1>4, <2>2
<1>6. PICK c : c = TickOf(p)
  OBVIOUS
<1>7. c \in 0..MaxTick /\ Ratio[c] <= p /\ (c = MaxTick \/ p < Ratio[c + 1])
  BY <1>0, <1>4, <1>5, <1>6 DEF TickOf
<1>8. ASSUME NEW u \in 0..MaxTick, u <= c PROVE Ratio[u] <= p
  <2>1. CASE u = c
    BY <1>7, <2>1
  <2>2. CASE u < c
    <3>1. Ratio[u] < Ratio[c]
      BY <1>7, <2>2, RatioGrows
    <3> QED BY <1>0, <1>7, <3>1
  <2> QED BY <1>0, <1>7, <1>8, <2>1, <2>2
<1>9. ASSUME NEW u \in 0..MaxTick, c < u PROVE p < Ratio[u]
  <2>1. c + 1 \in 0..MaxTick /\ c # MaxTick
    BY <1>0, <1>7, <1>9
  <2>2. p < Ratio[c + 1]
    BY <1>7, <2>1
  <2>3. CASE u = c + 1
    BY <2>2, <2>3
  <2>4. CASE c + 1 < u
    <3>1. Ratio[c + 1] < Ratio[u]
      BY <2>1, <2>4, RatioGrows
    <3> QED BY <1>0, <2>1, <2>2, <3>1
  <2> QED BY <1>0, <1>7, <1>9, <2>3, <2>4
<1> QED BY <1>6, <1>7, <1>8, <1>9

Key(down, t) == IF down THEN -t ELSE t
LadderOf(down, from, n, targets, c) ==
  /\ n \in Nat /\ targets = Targets(down, BookTicks, from) /\ DOMAIN targets = 1..(n + 1)
  /\ targets[n + 1] = EndOfScale(down)
  /\ c \in [0..n -> 0..MaxTick] /\ c[0] = from
  /\ \A k \in 1..n : c[k] \in Initialised /\ targets[k] = [tick |-> c[k], net |-> Net(c[k]), last |-> FALSE]
  /\ \A k \in 0..n : \A t \in Initialised :
       Key(down, c[k]) < Key(down, t) => k + 1 \in 0..n /\ Key(down, c[k + 1]) <= Key(down, t)
  /\ \A k \in 0..n : k + 1 \in 0..n => Key(down, c[k]) < Key(down, c[k + 1])

LEMMA InitialisedTyped ==
  ASSUME BookOk
  PROVE  /\ IsFiniteSet(Initialised) /\ Initialised \subseteq 0..MaxTick
         /\ \A r \in book : r.lower \in Initialised /\ r.upper \in Initialised
         /\ TicksOk(BookTicks)
<1>1. Initialised \subseteq 0..MaxTick
  BY RangeRatios DEF Initialised, BookOk
<1>2. IsFiniteSet(Initialised)
  <2>1. 0 \in Int /\ MaxTick \in Int
    BY RatioTyped
  <2>2. IsFiniteSet(0..MaxTick)
    BY <2>1, FS_Interval
  <2> QED BY <1>1, <2>2, FS_Subset
<1>3. Initialised \subseteq 0..MaxTick
  BY <1>1
<1>4. IsFiniteSet(BookTicks)
  <2>1. PICK f : f = [t \in Initialised |-> [tick |-> t, net |-> Net(t), last |-> FALSE]]
    OBVIOUS
  <2>2. f \in [Initialised -> BookTicks] /\ \A x \in BookTicks : \E t \in Initialised : f[t] = x
    BY <2>1, Zenon DEF BookTicks
  <2>3. f \in Surjection(Initialised, BookTicks)
    BY <2>2, Zenon DEF Surjection
  <2> QED BY <1>2, <2>3, FS_Surjection
<1>5. TicksOk(BookTicks)
  <2>0. \A a \in BookTicks : a.tick \in Initialised /\ a = [tick |-> a.tick, net |-> Net(a.tick), last |-> FALSE]
    <3> SUFFICES ASSUME NEW a \in BookTicks
                 PROVE  a.tick \in Initialised /\ a = [tick |-> a.tick, net |-> Net(a.tick), last |-> FALSE]
      OBVIOUS
    <3>1. PICK t \in Initialised : a = [tick |-> t, net |-> Net(t), last |-> FALSE]
      BY Zenon DEF BookTicks
    <3>2. a.tick = t
      BY ONLY <3>1
    <3> QED BY <3>1, <3>2, Zenon
  <2>1. \A a \in BookTicks : a.tick \in 0..MaxTick
    BY <1>3, <2>0
  <2>2. ASSUME NEW a \in BookTicks, NEW b \in BookTicks, a.tick = b.tick PROVE a = b
    BY <2>0, <2>2, Zenon
  <2> QED BY <1>4, <2>1, <2>2 DEF TicksOk
<1> QED BY <1>2, <1>3, <1>5 DEF Initialised

LEMMA LadderExists ==
  ASSUME BookOk, NEW down \in BOOLEAN, NEW from \in 0..MaxTick
  PROVE  \E n, targets, c : LadderOf(down, from, n, targets, c)
<1>0. MaxTick \in Nat
  BY RatioTyped
<1>1. PICK S : S = Ahead(down, BookTicks, from)
  OBVIOUS
<1>2. \A x \in S : x \in BookTicks /\ x.tick \in 0..MaxTick /\ Key(down, from) < Key(down, x.tick)
  <2>1. \A x \in BookTicks : x.tick \in 0..MaxTick
    BY InitialisedTyped DEF TicksOk
  <2> QED BY <1>0, <1>1, <2>1 DEF Ahead, Key
<1>3. \A x \in BookTicks : Key(down, from) < Key(down, x.tick) => x \in S
  <2>1. \A x \in BookTicks : x.tick \in 0..MaxTick
    BY InitialisedTyped DEF TicksOk
  <2> QED BY <1>0, <1>1, <2>1 DEF Ahead, Key
<1>4. TicksOk(S)
  <2>1. S \subseteq BookTicks
    BY <1>2
  <2>2. IsFiniteSet(S)
    BY <2>1, InitialisedTyped, FS_Subset DEF TicksOk
  <2>3. \A a, b \in BookTicks : a.tick = b.tick => a = b
    BY InitialisedTyped DEF TicksOk
  <2> QED BY <1>2, <2>1, <2>2, <2>3 DEF TicksOk
<1>5. PICK n, q : /\ n \in Nat /\ q = SortedTicks(down, S) /\ q \in [1..n -> S] /\ InTurn(down, q)
                  /\ \A x \in S : \E i \in 1..n : q[i] = x
  BY <1>4, SortedIs
<1>6. PICK targets : targets = Append(q, EndOfScale(down))
  OBVIOUS
<1>7. /\ targets = Targets(down, BookTicks, from) /\ DOMAIN targets = 1..(n + 1) /\ targets[n + 1] = EndOfScale(down)
      /\ \A k \in 1..n : targets[k] = q[k]
  <2>1. PICK U : U = S \cup {EndOfScale(down)}
    OBVIOUS
  <2>2. q \in Seq(U) /\ Len(q) = n /\ EndOfScale(down) \in U
    BY <1>5, <2>1
  <2>3. /\ targets \in Seq(U) /\ Len(targets) = n + 1 /\ targets[n + 1] = EndOfScale(down)
        /\ \A k \in 1..n : targets[k] = q[k]
    BY <1>6, <2>2, AppendProperties
  <2>4. DOMAIN targets = 1..(n + 1)
    BY <2>3
  <2>5. targets = Targets(down, BookTicks, from)
    BY <1>1, <1>5, <1>6 DEF Targets
  <2> QED BY <2>3, <2>4, <2>5
<1>8. PICK c : c = [k \in 0..n |-> IF k = 0 THEN from ELSE q[k].tick]
  OBVIOUS
<1>9. \A k \in 1..n : k \in 0..n /\ c[k] = q[k].tick /\ q[k] \in S /\ q[k] \in BookTicks /\ c[k] \in 0..MaxTick /\ Key(down, from) < Key(down, c[k])
  BY <1>2, <1>5, <1>8
<1>10. c \in [0..n -> 0..MaxTick] /\ c[0] = from
  BY <1>2, <1>5, <1>8
<1>11. \A k \in 1..n : c[k] \in Initialised /\ targets[k] = [tick |-> c[k], net |-> Net(c[k]), last |-> FALSE]
  <2> SUFFICES ASSUME NEW k \in 1..n PROVE c[k] \in Initialised /\ targets[k] = [tick |-> c[k], net |-> Net(c[k]), last |-> FALSE]
    OBVIOUS
  <2>1. PICK t \in Initialised : q[k] = [tick |-> t, net |-> Net(t), last |-> FALSE]
    BY <1>9 DEF BookTicks
  <2>2. c[k] = t
    BY <1>9, <2>1
  <2> QED BY <1>7, <2>1, <2>2
<1>12. \A i, j \in 1..n : i < j => Key(down, c[i]) < Key(down, c[j])
  <2> SUFFICES ASSUME NEW i \in 1..n, NEW j \in 1..n, i < j PROVE Key(down, c[i]) < Key(down, c[j])
    OBVIOUS
  <2>1. Nearer(down, q[i], q[j])
    BY <1>5 DEF InTurn
  <2> QED BY <1>0, <1>9, <2>1 DEF Nearer, Key
<1>13. \A k \in 0..n : k + 1 \in 0..n => Key(down, c[k]) < Key(down, c[k + 1])
  <2> SUFFICES ASSUME NEW k \in 0..n, k + 1 \in 0..n PROVE Key(down, c[k]) < Key(down, c[k + 1])
    OBVIOUS
  <2>1. CASE k = 0
    BY <1>9, <1>10, <2>1
  <2>2. CASE k # 0
    BY <1>12, <2>2
  <2> QED BY <2>1, <2>2
<1>14. ASSUME NEW k \in 0..n, NEW t \in Initialised, Key(down, c[k]) < Key(down, t)
       PROVE  k + 1 \in 0..n /\ Key(down, c[k + 1]) <= Key(down, t)
  <2>1. t \in 0..MaxTick
    BY InitialisedTyped
  <2>2. \A u \in 0..MaxTick : Key(down, u) \in Int
    BY <1>0 DEF Key
  <2>3. Key(down, from) < Key(down, t)
    <3>1. CASE k = 0
      BY <1>10, <1>14, <3>1
    <3>2. CASE k # 0
      <4>1. Key(down, from) < Key(down, c[k])
        BY <1>9, <3>2
      <4> QED BY <1>10, <1>14, <2>1, <2>2, <4>1
    <3> QED BY <3>1, <3>2
  <2>4. PICK x \in BookTicks : x.tick = t
    <3>1. [tick |-> t, net |-> Net(t), last |-> FALSE] \in BookTicks
      BY Zenon DEF BookTicks
    <3> QED BY ONLY <3>1
  <2>5. x \in S
    BY <1>3, <2>3, <2>4
  <2>6. PICK j \in 1..n : q[j] = x
    BY <1>5, <2>5
  <2>7. c[j] = t
    BY <1>9, <2>4, <2>6
  <2>8. k < j
    <3> SUFFICES ASSUME j <= k PROVE FALSE
      OBVIOUS
    <3>1. k \in 1..n
      OBVIOUS
    <3>2. j = k \/ Key(down, c[j]) < Key(down, c[k])
      BY <1>12, <3>1
    <3>3. Key(down, c[k]) \in Int /\ Key(down, t) \in Int
      BY <1>10, <2>1, <2>2
    <3> QED BY <1>14, <2>7, <3>2, <3>3
  <2>9. k + 1 \in 1..n
    BY <1>5, <2>8
  <2>10. k + 1 = j \/ Key(down, c[k + 1]) < Key(down, c[j])
    BY <1>12, <2>8, <2>9
  <2>11. Key(down, c[k + 1]) \in Int /\ Key(down, t) \in Int
    BY <1>9, <2>1, <2>2, <2>9
  <2> QED BY <2>7, <2>9, <2>10, <2>11
<1>15. n \in Nat
  BY <1>5
<1>16. LadderOf(down, from, n, targets, c)
  BY ONLY <1>7, <1>10, <1>11, <1>13, <1>14, <1>15, Zenon DEF LadderOf
<1> QED BY <1>16

LEMMA RatioLeq == \A s, t \in 0..MaxTick : Ratio[s] \in Nat \ {0} /\ (s <= t => Ratio[s] <= Ratio[t])
<1> SUFFICES ASSUME NEW s \in 0..MaxTick, NEW t \in 0..MaxTick PROVE Ratio[s] \in Nat \ {0} /\ (s <= t => Ratio[s] <= Ratio[t])
  OBVIOUS
<1>1. MaxTick \in Nat /\ Ratio[s] \in Nat \ {0} /\ Ratio[t] \in Nat \ {0}
  BY RatioTyped
<1>2. CASE s = t
  BY <1>1, <1>2
<1>3. CASE s < t
  BY <1>1, <1>3, RatioGrows
<1> QED BY <1>1, <1>2, <1>3

(* The positions that cover the price just beyond a tick. *)
BeyondSet(down, c) == {r \in book : IF down THEN r.lower < c /\ c <= r.upper ELSE r.lower <= c /\ c < r.upper}

LEMMA BeyondTyped ==
  ASSUME BookOk, NEW down \in BOOLEAN, NEW c
  PROVE  /\ BeyondSet(down, c) \in SUBSET book /\ BeyondSet(down, c) \subseteq QuoteRanges
         /\ IsFiniteSet(BeyondSet(down, c)) /\ LiquidityOf(BeyondSet(down, c)) \in Nat
<1>1. BeyondSet(down, c) \subseteq book
  BY DEF BeyondSet
<1>2. IsFiniteSet(BeyondSet(down, c)) /\ BeyondSet(down, c) \subseteq QuoteRanges
  BY <1>1, FS_Subset DEF BookOk
<1> QED BY <1>1, <1>2, LiqIs

LEMMA LadderTyped ==
  ASSUME BookOk, NEW down \in BOOLEAN, NEW from \in 0..MaxTick, NEW n, NEW targets, NEW c, LadderOf(down, from, n, targets, c)
  PROVE  /\ n \in Nat /\ MaxTick \in Nat /\ \A k \in 0..n : c[k] \in 0..MaxTick
         /\ \A k \in 0..n : k + 1 \in 0..n =>
              /\ IF down THEN c[k + 1] < c[k] ELSE c[k] < c[k + 1]
              /\ \A t \in Initialised : /\ t \in 0..MaxTick
                                        /\ IF down THEN t < c[k] => t <= c[k + 1] ELSE c[k] < t => c[k + 1] <= t
<1>1. n \in Nat /\ MaxTick \in Nat /\ \A k \in 0..n : c[k] \in 0..MaxTick
  BY RatioTyped DEF LadderOf
<1>2. ASSUME NEW k \in 0..n, k + 1 \in 0..n
      PROVE  /\ IF down THEN c[k + 1] < c[k] ELSE c[k] < c[k + 1]
             /\ \A t \in Initialised : /\ t \in 0..MaxTick
                                       /\ IF down THEN t < c[k] => t <= c[k + 1] ELSE c[k] < t => c[k + 1] <= t
  <2>1. PICK a \in 0..MaxTick, b \in 0..MaxTick : a = c[k] /\ b = c[k + 1]
    BY <1>1, <1>2
  <2>2. Key(down, a) < Key(down, b) /\ \A t \in Initialised : Key(down, a) < Key(down, t) => Key(down, b) <= Key(down, t)
    BY <1>2, <2>1 DEF LadderOf
  <2>3. \A t \in Initialised : t \in 0..MaxTick
    BY InitialisedTyped
  <2>4. IF down THEN b < a ELSE a < b
    BY <1>1, <2>2 DEF Key
  <2>5. \A t \in Initialised : IF down THEN t < a => t <= b ELSE a < t => b <= t
    BY <1>1, <2>2, <2>3 DEF Key
  <2> QED BY <2>1, <2>3, <2>4, <2>5
<1> QED BY <1>1, <1>2

(* Crossing a tick changes the liquidity from that of the ranges before it to that of those beyond. *)
LEMMA CrossedIs ==
  ASSUME BookOk, NEW down \in BOOLEAN, NEW from \in 0..MaxTick, NEW n, NEW targets, NEW c, LadderOf(down, from, n, targets, c),
         NEW k \in 0..n, k + 1 \in 0..n
  PROVE  Crossed(down, LiquidityOf(BeyondSet(down, c[k])), Net(c[k + 1])) = LiquidityOf(BeyondSet(down, c[k + 1]))
<1>1. PICK a \in 0..MaxTick, b \in 0..MaxTick :
        /\ a = c[k] /\ b = c[k + 1] /\ IF down THEN b < a ELSE a < b
        /\ \A t \in Initialised : /\ t \in 0..MaxTick
                                  /\ IF down THEN t < a => t <= b ELSE a < t => b <= t
  BY LadderTyped
<1>2. MaxTick \in Nat /\ b \in DOMAIN Ratio
  BY RatioTyped
<1>3. \A r \in book : r.lower \in Initialised /\ r.upper \in Initialised /\ r.lower \in 0..MaxTick /\ r.upper \in 0..MaxTick
  BY <1>1, InitialisedTyped
<1>4. LiquidityAt(b) \in Nat /\ LiquidityBelow(b) \in Nat /\ Net(b) \in Int /\ LiquidityAt(b) = LiquidityBelow(b) + Net(b)
  BY <1>2, NetIsJump
<1>5. CASE down
  <2>1. \A r \in book : (r.lower < a /\ a <= r.upper) <=> (r.lower <= b /\ b < r.upper)
    <3> SUFFICES ASSUME NEW r \in book PROVE (r.lower < a /\ a <= r.upper) <=> (r.lower <= b /\ b < r.upper)
      OBVIOUS
    <3>1. PICK u \in 0..MaxTick, v \in 0..MaxTick : u = r.lower /\ v = r.upper /\ (u < a => u <= b) /\ (v < a => v <= b)
      BY <1>1, <1>3, <1>5
    <3> QED BY <1>1, <1>2, <1>5, <3>1
  <2>2. BeyondSet(down, a) = {r \in book : r.lower <= b /\ b < r.upper}
    BY <1>5, <2>1 DEF BeyondSet
  <2>3. BeyondSet(down, b) = {r \in book : r.lower < b /\ b <= r.upper}
    BY <1>5 DEF BeyondSet
  <2>4. LiquidityOf(BeyondSet(down, a)) = LiquidityAt(b) /\ LiquidityOf(BeyondSet(down, b)) = LiquidityBelow(b)
    BY <2>2, <2>3 DEF LiquidityAt, LiquidityBelow
  <2>5. LiquidityAt(b) - Net(b) = LiquidityBelow(b)
    BY <1>4
  <2>6. \A l, x : Crossed(down, l, x) = l - x
    BY <1>5 DEF Crossed
  <2> QED BY <1>1, <2>4, <2>5, <2>6
<1>6. CASE ~down
  <2>1. \A r \in book : (r.lower <= a /\ a < r.upper) <=> (r.lower < b /\ b <= r.upper)
    <3> SUFFICES ASSUME NEW r \in book PROVE (r.lower <= a /\ a < r.upper) <=> (r.lower < b /\ b <= r.upper)
      OBVIOUS
    <3>1. PICK u \in 0..MaxTick, v \in 0..MaxTick : u = r.lower /\ v = r.upper /\ (a < u => b <= u) /\ (a < v => b <= v)
      BY <1>1, <1>3, <1>6
    <3> QED BY <1>1, <1>2, <1>6, <3>1
  <2>2. BeyondSet(down, a) = {r \in book : r.lower < b /\ b <= r.upper}
    BY <1>6, <2>1 DEF BeyondSet
  <2>3. BeyondSet(down, b) = {r \in book : r.lower <= b /\ b < r.upper}
    BY <1>6 DEF BeyondSet
  <2>4. LiquidityOf(BeyondSet(down, a)) = LiquidityBelow(b) /\ LiquidityOf(BeyondSet(down, b)) = LiquidityAt(b)
    BY <2>2, <2>3 DEF LiquidityAt, LiquidityBelow
  <2> QED BY <1>1, <1>4, <1>6, <2>4 DEF Crossed
<1> QED BY <1>5, <1>6

(* Where the walk stands when it has met k ticks and is still going: at the k-th, or where it started. *)
PlaceOf(p, c, k) == IF k = 0 THEN p ELSE Ratio[c[k]]

(* Up to the next tick the ranges that cover the price stay the same. *)
LEMMA GoalIs ==
  ASSUME BookOk, NEW down \in BOOLEAN, NEW p \in QuotePrices, ~(down /\ TickOf(p) \in Initialised),
         NEW n, NEW targets, NEW c, LadderOf(down, TickOf(p), n, targets, c),
         NEW k \in 0..n, k + 1 \in 0..n
  PROVE  /\ PlaceOf(p, c, k) \in Nat \ {0} /\ Ratio[c[k + 1]] \in Nat \ {0}
         /\ Towards(down, PlaceOf(p, c, k), Ratio[c[k + 1]])
         /\ \A r \in BeyondSet(down, c[k]) :
              /\ Ratio[r.lower] \in Nat \ {0} /\ Ratio[r.upper] \in Nat \ {0}
              /\ Ratio[r.lower] <= LowEnd(down, PlaceOf(p, c, k), Ratio[c[k + 1]])
              /\ HighEnd(down, PlaceOf(p, c, k), Ratio[c[k + 1]]) <= Ratio[r.upper]
<1>0. TickOf(p) \in 0..MaxTick /\ MaxTick \in Nat /\ p \in Nat \ {0}
  BY TickOfIs, RatioTyped, PricesTyped
<1>1. PICK a \in 0..MaxTick, b \in 0..MaxTick :
        /\ a = c[k] /\ b = c[k + 1] /\ IF down THEN b < a ELSE a < b
        /\ \A t \in Initialised : /\ t \in 0..MaxTick
                                  /\ IF down THEN t < a => t <= b ELSE a < t => b <= t
  BY <1>0, LadderTyped
<1>2. PICK x \in Nat \ {0}, y \in Nat \ {0} : x = PlaceOf(p, c, k) /\ y = Ratio[b]
  BY <1>0, <1>1, RatioLeq DEF PlaceOf
<1>3. k = 0 => a = TickOf(p) /\ x = p
  BY <1>1, <1>2 DEF LadderOf, PlaceOf
<1>4. k # 0 => x = Ratio[a]
  BY <1>1, <1>2 DEF PlaceOf
<1>5. \A t \in 0..MaxTick : (t <= a => Ratio[t] <= x) /\ (a < t => x <= Ratio[t])
  <2> SUFFICES ASSUME NEW t \in 0..MaxTick PROVE (t <= a => Ratio[t] <= x) /\ (a < t => x <= Ratio[t])
    OBVIOUS
  <2>1. Ratio[t] \in Nat \ {0} /\ (t <= a => Ratio[t] <= Ratio[a]) /\ (a <= t => Ratio[a] <= Ratio[t])
    BY RatioLeq
  <2>2. CASE k = 0
    <3>1. (t <= a => Ratio[t] <= p) /\ (a < t => p < Ratio[t])
      BY <1>3, <2>2, TickOfIs
    <3> QED BY <1>3, <2>1, <2>2, <3>1
  <2>3. CASE k # 0
    BY <1>0, <1>4, <2>1, <2>3
  <2> QED BY <2>2, <2>3
<1>6. Towards(down, x, y)
  BY <1>1, <1>2, <1>5 DEF Towards
<1>7. ASSUME NEW r \in BeyondSet(down, a)
      PROVE  /\ Ratio[r.lower] \in Nat \ {0} /\ Ratio[r.upper] \in Nat \ {0}
             /\ Ratio[r.lower] <= LowEnd(down, x, y)
             /\ HighEnd(down, x, y) <= Ratio[r.upper]
  <2>1. r \in book /\ IF down THEN r.lower < a /\ a <= r.upper ELSE r.lower <= a /\ a < r.upper
    BY DEF BeyondSet
  <2>2. PICK u \in 0..MaxTick, v \in 0..MaxTick : u = r.lower /\ v = r.upper /\ u \in Initialised /\ v \in Initialised
    BY <1>1, <2>1, InitialisedTyped
  <2>3. Ratio[u] \in Nat \ {0} /\ Ratio[v] \in Nat \ {0} /\ (u <= b => Ratio[u] <= y) /\ (b <= v => y <= Ratio[v])
    BY <1>2, RatioLeq
  <2>4. CASE down
    <3>1. Ratio[u] <= y
      BY <1>1, <2>1, <2>2, <2>3, <2>4
    <3>2. x <= Ratio[v]
      <4>1. CASE a < v
        BY <1>5, <4>1
      <4>2. CASE a = v
        <5>1. k # 0
          BY <1>3, <2>2, <2>4, <4>2
        <5> QED BY <1>2, <1>4, <4>2, <5>1
      <4> QED BY <1>0, <2>1, <2>2, <2>4, <4>1, <4>2
    <3> QED BY <2>2, <2>3, <2>4, <3>1, <3>2 DEF LowEnd, HighEnd
  <2>5. CASE ~down
    <3>1. y <= Ratio[v]
      BY <1>1, <2>1, <2>2, <2>3, <2>5
    <3>2. Ratio[u] <= x
      BY <1>5, <2>1, <2>2, <2>5
    <3> QED BY <2>2, <2>3, <2>5, <3>1, <3>2 DEF LowEnd, HighEnd
  <2> QED BY <2>4, <2>5
<1> QED BY ONLY <1>1, <1>2, <1>6, <1>7

-----------------------------------------------------------------------------
(* The walk over the ticks of the book: while it goes on, its price is that of the last tick met and its *)
(* liquidity that of the ranges beyond; what a turn adds is what these pay between two prices.     *)
WalkState == [left : Nat, out : Nat, price : Nat \ {0}, liquidity : Int, refused : BOOLEAN]
Underway(s) == s.left # 0 /\ ~s.refused
Stands(down, p, n, c, k, s) ==
  /\ s \in WalkState
  /\ Underway(s) => /\ k \in 0..n /\ s.price = PlaceOf(p, c, k)
                    /\ s.liquidity = LiquidityOf(BeyondSet(down, c[k]))

TurnMovesTo(down, s, z) ==
  \/ z.out = s.out /\ z.price = s.price
  \/ /\ Towards(down, s.price, z.price)
     /\ \E X \in SUBSET book :
          /\ z.out = s.out + Paid(down, LowEnd(down, s.price, z.price), HighEnd(down, s.price, z.price), LiquidityOf(X))
          /\ \A r \in X : Ratio[r.lower] <= LowEnd(down, s.price, z.price) /\ HighEnd(down, s.price, z.price) <= Ratio[r.upper]

LEMMA NoneBeyondLast ==
  ASSUME BookOk, NEW down \in BOOLEAN, NEW from \in 0..MaxTick, NEW n, NEW targets, NEW c, LadderOf(down, from, n, targets, c),
         NEW k \in 0..n, ~(k + 1 \in 0..n)
  PROVE  LiquidityOf(BeyondSet(down, c[k])) = 0
<1>1. MaxTick \in Nat /\ c[k] \in 0..MaxTick
  BY LadderTyped
<1>2. \A t \in Initialised : t \in 0..MaxTick /\ ~(Key(down, c[k]) < Key(down, t))
  BY InitialisedTyped DEF LadderOf
<1>3. BeyondSet(down, c[k]) = {}
  <2> SUFFICES ASSUME NEW r \in BeyondSet(down, c[k]) PROVE FALSE
    OBVIOUS
  <2>1. r \in book /\ IF down THEN r.lower < c[k] /\ c[k] <= r.upper ELSE r.lower <= c[k] /\ c[k] < r.upper
    BY DEF BeyondSet
  <2>2. PICK u \in 0..MaxTick, v \in 0..MaxTick : u = r.lower /\ v = r.upper /\ u \in Initialised /\ v \in Initialised
    BY <1>2, <2>1, InitialisedTyped
  <2> QED BY <1>1, <1>2, <2>1, <2>2 DEF Key
<1>4. IsFiniteSet({}) /\ {} \subseteq QuoteRanges
  BY FS_EmptySet
<1> QED BY <1>3, <1>4, LiqIs, SumEmpty

LEMMA WalkKeeps ==
  ASSUME BookOk, NEW down \in BOOLEAN, NEW p \in QuotePrices, ~(down /\ TickOf(p) \in Initialised),
         NEW n, NEW targets, NEW c, LadderOf(down, TickOf(p), n, targets, c),
         NEW k \in 0..n, NEW s, Stands(down, p, n, c, k, s), NEW z, z = Walk(down, s, targets[k + 1])
  PROVE  Stands(down, p, n, c, k + 1, z) /\ TurnMovesTo(down, s, z)
<1>0. /\ s \in WalkState /\ s.left \in Nat /\ s.out \in Nat /\ s.price \in Nat \ {0} /\ s.liquidity \in Int /\ s.refused \in BOOLEAN
      /\ n \in Nat /\ TickOf(p) \in 0..MaxTick
  BY TickOfIs DEF Stands, WalkState, LadderOf
<1>1. CASE ~Underway(s)
  <2>0. s.left = 0 \/ s.refused
    BY <1>0, <1>1 DEF Underway
  <2>2. \A t : Walk(down, s, t) = s
    BY <2>0 DEF Walk
  <2>1. z = s
    BY <2>2
  <2> QED BY <1>1, <2>1 DEF Stands, TurnMovesTo
<1>2. CASE Underway(s) /\ s.liquidity <= 0
  <2>1. z = [s EXCEPT !.refused = TRUE]
    BY <1>2 DEF Walk, Underway
  <2>2. z.out = s.out /\ z.price = s.price /\ z.refused = TRUE /\ z \in WalkState
    BY <1>0, <2>1 DEF WalkState
  <2> QED BY <2>2 DEF Stands, TurnMovesTo, Underway
<1>3. CASE Underway(s) /\ ~(s.liquidity <= 0)
  <2>1. z = Turn(down, s, targets[k + 1])
    BY <1>3 DEF Walk, Underway
  <2>2. PICK X \in SUBSET book : X = BeyondSet(down, c[k]) /\ s.liquidity = LiquidityOf(X) /\ s.price = PlaceOf(p, c, k)
    BY <1>3, BeyondTyped DEF Stands
  <2>3. s.liquidity \in Nat \ {0} /\ s.left \in Nat \ {0}
    BY <1>0, <1>3 DEF Underway
  <2>4. k + 1 \in 0..n
    <3> SUFFICES ASSUME ~(k + 1 \in 0..n) PROVE FALSE
      OBVIOUS
    <3>1. LiquidityOf(X) = 0
      BY <1>0, <2>2, NoneBeyondLast
    <3> QED BY <2>2, <2>3, <3>1
  <2>5. PICK b : b = c[k + 1] /\ targets[k + 1] = [tick |-> b, net |-> Net(b), last |-> FALSE]
    <3>1. k + 1 \in 1..n
      BY <1>0, <2>4
    <3> QED BY <3>1 DEF LadderOf
  <2>6. PICK x \in Nat \ {0}, y \in Nat \ {0} :
          /\ x = s.price /\ y = Ratio[b] /\ Towards(down, x, y)
          /\ \A r \in X : /\ Ratio[r.lower] \in Nat \ {0} /\ Ratio[r.upper] \in Nat \ {0}
                          /\ Ratio[r.lower] <= LowEnd(down, x, y) /\ HighEnd(down, x, y) <= Ratio[r.upper]
    BY <2>2, <2>4, <2>5, GoalIs
  <2>7. PICK need \in Nat, stop \in Nat \ {0} :
          /\ need = AmountToReach(down, y, x, s.liquidity) /\ stop = PriceAfterIn(down, x, s.liquidity, s.left)
          /\ Towards(down, x, stop) /\ (need <= s.left <=> Towards(down, y, stop))
    <3>1. /\ AmountToReach(down, y, x, s.liquidity) \in Nat /\ PriceAfterIn(down, x, s.liquidity, s.left) \in Nat \ {0}
          /\ Towards(down, x, PriceAfterIn(down, x, s.liquidity, s.left))
          /\ AmountToReach(down, y, x, s.liquidity) <= s.left <=> Towards(down, y, PriceAfterIn(down, x, s.liquidity, s.left))
      BY <2>3, <2>6, TurnMoves
    <3> QED BY ONLY <3>1
  <2>9. PICK e \in Nat \ {0} : e = IF need <= s.left THEN y ELSE stop
    OBVIOUS
  <2>10. z = [left  |-> IF need <= s.left THEN s.left - need ELSE 0,
              out   |-> s.out + AmountPaid(down, e, x, s.liquidity),
              price |-> e,
              liquidity |-> IF need <= s.left THEN Crossed(down, s.liquidity, Net(b)) ELSE s.liquidity,
              refused   |-> FALSE]
    <3>1. targets[k + 1].tick = b /\ targets[k + 1].net = Net(b) /\ targets[k + 1].last = FALSE
      BY <2>5
    <3>2. z = [left  |-> IF s.left >= need THEN s.left - need ELSE 0,
               out   |-> s.out + AmountPaid(down, IF s.left >= need THEN y ELSE stop, x, s.liquidity),
               price |-> IF s.left >= need THEN y ELSE stop,
               liquidity |-> IF s.left >= need THEN Crossed(down, s.liquidity, Net(b)) ELSE s.liquidity,
               refused   |-> s.left >= need /\ FALSE]
      BY <2>1, <2>6, <2>7, <3>1, Zenon DEF Turn
    <3>3. s.left >= need <=> need <= s.left
      BY <2>3
    <3>4. CASE need <= s.left
      BY <2>9, <3>2, <3>3, <3>4
    <3>5. CASE ~(need <= s.left)
      BY <2>9, <3>2, <3>3, <3>5
    <3> QED BY <3>4, <3>5
  <2>11. Towards(down, x, e) /\ (down => LowEnd(down, x, y) <= e) /\ (~down => e <= HighEnd(down, x, y))
    <3>2. CASE need <= s.left
      BY <2>6, <2>9, <3>2 DEF Towards, LowEnd, HighEnd
    <3>3. CASE ~(need <= s.left)
      <4>1. ~Towards(down, y, stop)
        BY <2>7, <3>3
      <4> QED BY <2>7, <2>9, <3>3, <4>1 DEF Towards, LowEnd, HighEnd
    <3> QED BY <3>2, <3>3
  <2>12. PICK lo \in Nat \ {0}, hi \in Nat \ {0} : lo = LowEnd(down, x, e) /\ hi = HighEnd(down, x, e) /\ lo <= hi
    BY <2>11 DEF LowEnd, HighEnd, Towards
  <2>13. \A r \in X : Ratio[r.lower] <= lo /\ hi <= Ratio[r.upper]
    <3> SUFFICES ASSUME NEW r \in X PROVE Ratio[r.lower] <= lo /\ hi <= Ratio[r.upper]
      OBVIOUS
    <3>1. PICK u \in Nat, v \in Nat : u = Ratio[r.lower] /\ v = Ratio[r.upper] /\ u <= LowEnd(down, x, y) /\ HighEnd(down, x, y) <= v
      BY <2>6
    <3>2. u <= lo /\ hi <= v
      BY <2>11, <2>12, <3>1 DEF LowEnd, HighEnd, Towards
    <3> QED BY <3>1, <3>2
  <2>14. AmountPaid(down, e, x, s.liquidity) = Paid(down, lo, hi, s.liquidity)
    BY <2>12 DEF AmountPaid, Paid, LowEnd, HighEnd
  <2>15. Paid(down, lo, hi, s.liquidity) \in Nat
    BY <2>3, <2>12, PaidNatural
  <2>16. z.out = s.out + Paid(down, lo, hi, LiquidityOf(X)) /\ z.out \in Nat /\ z.price = e /\ z.refused = FALSE
    BY <1>0, <2>2, <2>10, <2>14, <2>15
  <2>17. TurnMovesTo(down, s, z)
    BY <2>6, <2>11, <2>12, <2>13, <2>16 DEF TurnMovesTo
  <2>18. need <= s.left => z.liquidity = LiquidityOf(BeyondSet(down, b)) /\ z.liquidity \in Int /\ z.left \in Nat
    <3> SUFFICES ASSUME need <= s.left PROVE z.liquidity = LiquidityOf(BeyondSet(down, b)) /\ z.liquidity \in Int /\ z.left \in Nat
      OBVIOUS
    <3>1. z.liquidity = Crossed(down, LiquidityOf(BeyondSet(down, c[k])), Net(c[k + 1]))
      BY <2>2, <2>5, <2>10
    <3>2. z.liquidity = LiquidityOf(BeyondSet(down, b))
      BY <1>0, <2>4, <2>5, <3>1, CrossedIs
    <3>3. LiquidityOf(BeyondSet(down, b)) \in Nat
      BY BeyondTyped
    <3>4. z.left = s.left - need
      BY <2>10
    <3> QED BY <2>3, <2>7, <3>2, <3>3, <3>4
  <2>19. ~(need <= s.left) => z.left = 0 /\ z.liquidity = s.liquidity
    BY <2>10
  <2>20. z.left \in Nat /\ z.liquidity \in Int
    BY <2>3, <2>18, <2>19
  <2>21. z \in WalkState
    <3>1. z = [left |-> z.left, out |-> z.out, price |-> z.price, liquidity |-> z.liquidity, refused |-> z.refused]
      BY <2>10
    <3> QED BY <2>9, <2>16, <2>20, <3>1 DEF WalkState
  <2>22. Underway(z) => z.price = PlaceOf(p, c, k + 1) /\ z.liquidity = LiquidityOf(BeyondSet(down, c[k + 1]))
    <3> SUFFICES ASSUME Underway(z) PROVE z.price = PlaceOf(p, c, k + 1) /\ z.liquidity = LiquidityOf(BeyondSet(down, c[k + 1]))
      OBVIOUS
    <3>1. need <= s.left
      BY <2>19 DEF Underway
    <3>2. z.price = Ratio[c[k + 1]]
      BY <2>5, <2>6, <2>9, <2>16, <3>1
    <3>3. k + 1 # 0
      BY <1>0
    <3> QED BY <2>5, <2>18, <3>1, <3>2, <3>3 DEF PlaceOf
  <2> QED BY <2>4, <2>17, <2>21, <2>22 DEF Stands
<1> QED BY <1>1, <1>2, <1>3

(* What the positions hold below a price, on a scale. *)
Clamp(r, x)   == IF x < Ratio[r.lower] THEN Ratio[r.lower] ELSE IF x > Ratio[r.upper] THEN Ratio[r.upper] ELSE x
HeldAt(g, x)  == [r \in QuoteRanges |-> r.liquidity * g[Clamp(r, x)]]
HeldSum(g, x) == SumOf(HeldAt(g, x), book)

LEMMA ClampIs ==
  ASSUME NEW P, P \subseteq Nat \ {0}, \A t \in 0..MaxTick : Ratio[t] \in P, NEW r \in QuoteRanges,
         NEW lo \in P, NEW hi \in P, lo <= hi
  PROVE  /\ Clamp(r, lo) \in P /\ Clamp(r, hi) \in P /\ Clamp(r, lo) <= Clamp(r, hi)
         /\ Ratio[r.lower] <= lo /\ hi <= Ratio[r.upper] => Clamp(r, lo) = lo /\ Clamp(r, hi) = hi
<1>1. PICK u \in P, v \in P : u = Ratio[r.lower] /\ v = Ratio[r.upper] /\ u < v
  BY RangeRatios
<1>2. u \in Nat /\ v \in Nat /\ lo \in Nat /\ hi \in Nat
  OBVIOUS
<1> QED BY <1>1, <1>2 DEF Clamp

LEMMA TimesLeq == ASSUME NEW l \in Nat, NEW a \in Int, NEW b \in Int, a <= b PROVE l * b - l * a \in Nat /\ l * b - l * a = l * (b - a)
<1>1. a * l <= b * l
  BY TimesGrows
<1>2. a * l = l * a /\ b * l = l * b /\ l * a \in Int /\ l * b \in Int /\ l * (b - a) = l * b - l * a
  OBVIOUS
<1> QED BY <1>1, <1>2

LEMMA HeldDiffers ==
  ASSUME NEW down \in BOOLEAN, NEW P, NEW g, NEW m, Scale(down, P, g, m), \A t \in 0..MaxTick : Ratio[t] \in P, NEW r \in QuoteRanges,
         NEW lo \in P, NEW hi \in P, lo <= hi
  PROVE  /\ HeldAt(g, lo)[r] \in Int /\ HeldAt(g, hi)[r] \in Int /\ HeldAt(g, hi)[r] - HeldAt(g, lo)[r] \in Nat
         /\ Ratio[r.lower] <= lo /\ hi <= Ratio[r.upper] => HeldAt(g, hi)[r] - HeldAt(g, lo)[r] = r.liquidity * (g[hi] - g[lo])
<1>1. P \subseteq Nat \ {0} /\ g \in [P -> Int]
  BY DEF Scale
<1>2. PICK a \in P, b \in P : /\ a = Clamp(r, lo) /\ b = Clamp(r, hi) /\ a <= b
                              /\ Ratio[r.lower] <= lo /\ hi <= Ratio[r.upper] => a = lo /\ b = hi
  <2>1. /\ Clamp(r, lo) \in P /\ Clamp(r, hi) \in P /\ Clamp(r, lo) <= Clamp(r, hi)
        /\ Ratio[r.lower] <= lo /\ hi <= Ratio[r.upper] => Clamp(r, lo) = lo /\ Clamp(r, hi) = hi
    BY <1>1, ClampIs
  <2> QED BY ONLY <2>1
<1>3. PICK x \in Int, y \in Int, l \in Nat : x = g[a] /\ y = g[b] /\ x <= y /\ l = r.liquidity
  BY <1>1, <1>2, RangeRatios DEF Scale
<1>4. l * y - l * x \in Nat /\ l * y - l * x = l * (y - x) /\ l * x \in Int /\ l * y \in Int
  BY <1>3, TimesLeq
<1>5. HeldAt(g, lo)[r] = l * x /\ HeldAt(g, hi)[r] = l * y
  BY <1>2, <1>3 DEF HeldAt
<1> QED BY <1>2, <1>3, <1>4, <1>5

LEMMA HeldTyped ==
  ASSUME BookOk, NEW down \in BOOLEAN, NEW P, NEW g, NEW m, Scale(down, P, g, m), \A t \in 0..MaxTick : Ratio[t] \in P, NEW x \in P
  PROVE  HeldSum(g, x) \in Int
<1>1. x <= x
  BY DEF Scale
<1>2. IsFiniteSet(book) /\ \A r \in book : HeldAt(g, x)[r] \in Int
  BY <1>1, HeldDiffers DEF BookOk
<1> QED BY <1>2, SumTyped DEF HeldSum

(* Positions that all cover the prices between two lose or gain at least as much as they pay between them. *)
LEMMA PaidIsHeld ==
  ASSUME BookOk, NEW down \in BOOLEAN, NEW P, NEW g, NEW m, Scale(down, P, g, m), \A t \in 0..MaxTick : Ratio[t] \in P,
         NEW lo \in P, NEW hi \in P, lo <= hi, NEW X \in SUBSET book,
         \A r \in X : Ratio[r.lower] <= lo /\ hi <= Ratio[r.upper]
  PROVE  /\ HeldSum(g, lo) \in Int /\ HeldSum(g, hi) \in Int
         /\ Paid(down, lo, hi, LiquidityOf(X)) * m <= HeldSum(g, hi) - HeldSum(g, lo)
<1>1. IsFiniteSet(book) /\ IsFiniteSet(X) /\ book \subseteq QuoteRanges /\ X \subseteq QuoteRanges
  BY FS_Subset DEF BookOk
<1>2. PICK d : d = [r \in book |-> HeldAt(g, hi)[r] - HeldAt(g, lo)[r]]
  OBVIOUS
<1>3. \A r \in book : /\ HeldAt(g, lo)[r] \in Int /\ HeldAt(g, hi)[r] \in Int /\ d[r] \in Nat /\ d[r] \in Int
                      /\ HeldAt(g, hi)[r] = HeldAt(g, lo)[r] + d[r]
                      /\ Ratio[r.lower] <= lo /\ hi <= Ratio[r.upper] => d[r] = r.liquidity * (g[hi] - g[lo])
  <2> SUFFICES ASSUME NEW r \in book
               PROVE  /\ HeldAt(g, lo)[r] \in Int /\ HeldAt(g, hi)[r] \in Int /\ d[r] \in Nat /\ d[r] \in Int
                      /\ HeldAt(g, hi)[r] = HeldAt(g, lo)[r] + d[r]
                      /\ Ratio[r.lower] <= lo /\ hi <= Ratio[r.upper] => d[r] = r.liquidity * (g[hi] - g[lo])
    OBVIOUS
  <2>1. r \in QuoteRanges /\ d[r] = HeldAt(g, hi)[r] - HeldAt(g, lo)[r]
    BY <1>1, <1>2
  <2>2. /\ HeldAt(g, lo)[r] \in Int /\ HeldAt(g, hi)[r] \in Int /\ HeldAt(g, hi)[r] - HeldAt(g, lo)[r] \in Nat
        /\ Ratio[r.lower] <= lo /\ hi <= Ratio[r.upper] => HeldAt(g, hi)[r] - HeldAt(g, lo)[r] = r.liquidity * (g[hi] - g[lo])
    BY <2>1, HeldDiffers
  <2> QED BY <2>1, <2>2
<1>4. PICK a \in Int, b \in Int, t \in Nat :
        a = HeldSum(g, lo) /\ b = HeldSum(g, hi) /\ t = SumOf(d, book) /\ b = a + t
  <2>1. SumOf(HeldAt(g, lo), book) \in Int /\ SumOf(HeldAt(g, hi), book) \in Int /\ SumOf(d, book) \in Nat
    BY <1>1, <1>3, SumTyped
  <2>2. SumOf(HeldAt(g, hi), book) = SumOf(HeldAt(g, lo), book) + SumOf(d, book)
    BY <1>1, <1>3, SumAdds
  <2> QED BY <2>1, <2>2 DEF HeldSum
<1>5. PICK c \in Int : c = g[hi] - g[lo]
  BY DEF Scale
<1>6. PICK l \in Nat : l = LiquidityOf(X) /\ l = SumOf(Liq, X)
  BY <1>1, LiqIs
<1>7. SumOf(d, X) = l * c
  <2>1. \A r \in X : Liq[r] \in Int /\ d[r] = Liq[r] * c
    BY <1>1, <1>3, <1>5, RangeRatios DEF Liq
  <2> QED BY <1>1, <1>5, <1>6, <2>1, SumTimes
<1>8. SumOf(d, X) <= t
  BY <1>1, <1>3, <1>4, SumGrows
<1>9. Paid(down, lo, hi, l) * m <= l * c
  BY <1>5 DEF Scale
<1>10. Paid(down, lo, hi, l) * m \in Int
  <2>1. lo \in Nat \ {0} /\ hi \in Nat \ {0} /\ m \in Nat
    BY DEF Scale
  <2>2. Paid(down, lo, hi, l) \in Nat
    BY <2>1, PaidNatural
  <2> QED BY <2>1, <2>2
<1>11. l * c \in Int
  BY <1>5, <1>6
<1> QED BY <1>4, <1>6, <1>7, <1>8, <1>9, <1>10, <1>11

(* A walk of k turns has paid no more than the positions hold between where it started and where it is. *)
Pays(down, g, m, p, s) ==
  Towards(down, p, s.price) /\ s.out * m <= HeldSum(g, HighEnd(down, p, s.price)) - HeldSum(g, LowEnd(down, p, s.price))

LEMMA TurnPays ==
  ASSUME BookOk, NEW down \in BOOLEAN, NEW P, NEW g, NEW m, Scale(down, P, g, m), \A t \in 0..MaxTick : Ratio[t] \in P,
         NEW p \in P, NEW s \in WalkState, NEW z \in WalkState, s.price \in P, z.price \in P,
         Pays(down, g, m, p, s), TurnMovesTo(down, s, z)
  PROVE  Pays(down, g, m, p, z)
<1>0. P \subseteq Nat \ {0} /\ m \in Nat \ {0} /\ s.out \in Nat /\ z.out \in Nat
  BY DEF Scale, WalkState
<1>1. CASE z.out = s.out /\ z.price = s.price
  BY <1>1 DEF Pays
<1>2. CASE /\ Towards(down, s.price, z.price)
           /\ \E X \in SUBSET book :
                /\ z.out = s.out + Paid(down, LowEnd(down, s.price, z.price), HighEnd(down, s.price, z.price), LiquidityOf(X))
                /\ \A r \in X : Ratio[r.lower] <= LowEnd(down, s.price, z.price) /\ HighEnd(down, s.price, z.price) <= Ratio[r.upper]
  <2>1. PICK x \in P, e \in P : x = s.price /\ e = z.price
    OBVIOUS
  <2>2. PICK lo \in P, hi \in P : lo = LowEnd(down, x, e) /\ hi = HighEnd(down, x, e) /\ lo <= hi
    BY <1>0, <1>2, <2>1 DEF LowEnd, HighEnd, Towards
  <2>3. PICK X \in SUBSET book : /\ z.out = s.out + Paid(down, lo, hi, LiquidityOf(X))
                                 /\ \A r \in X : Ratio[r.lower] <= lo /\ hi <= Ratio[r.upper]
    BY <1>2, <2>1, <2>2
  <2>4. /\ HeldSum(g, lo) \in Int /\ HeldSum(g, hi) \in Int
        /\ Paid(down, lo, hi, LiquidityOf(X)) * m <= HeldSum(g, hi) - HeldSum(g, lo)
    BY <2>2, <2>3, PaidIsHeld
  <2>5. HeldSum(g, p) \in Int
    BY HeldTyped
  <2>6. PICK w \in Nat : w = Paid(down, lo, hi, LiquidityOf(X))
    <3>1. IsFiniteSet(X) /\ X \subseteq QuoteRanges
      BY FS_Subset DEF BookOk
    <3>2. LiquidityOf(X) \in Nat
      BY <3>1, LiqIs
    <3>3. lo \in Nat \ {0} /\ hi \in Nat \ {0}
      BY <1>0
    <3> QED BY <2>2, <3>2, <3>3, PaidNatural
  <2>7. PICK ms \in Int, mw \in Int : ms = s.out * m /\ mw = w * m /\ z.out * m = ms + mw
    BY <1>0, <2>3, <2>6
  <2>8. CASE down
    <3>1. x <= p /\ e <= x /\ lo = e /\ hi = x
      BY <1>2, <2>1, <2>2, <2>8 DEF Pays, Towards, LowEnd, HighEnd
    <3>2. ms <= HeldSum(g, p) - HeldSum(g, x)
      BY <2>1, <2>7, <2>8 DEF Pays, LowEnd, HighEnd
    <3>3. ms + mw <= HeldSum(g, p) - HeldSum(g, e)
      BY <2>4, <2>5, <2>6, <2>7, <3>1, <3>2
    <3>4. e <= p
      BY <1>0, <3>1
    <3> QED BY <2>1, <2>7, <2>8, <3>3, <3>4 DEF Pays, Towards, LowEnd, HighEnd
  <2>9. CASE ~down
    <3>1. p <= x /\ x <= e /\ lo = x /\ hi = e
      BY <1>2, <2>1, <2>2, <2>9 DEF Pays, Towards, LowEnd, HighEnd
    <3>2. ms <= HeldSum(g, x) - HeldSum(g, p)
      BY <2>1, <2>7, <2>9 DEF Pays, LowEnd, HighEnd
    <3>3. ms + mw <= HeldSum(g, e) - HeldSum(g, p)
      BY <2>4, <2>5, <2>6, <2>7, <3>1, <3>2
    <3>4. p <= e
      BY <1>0, <3>1
    <3> QED BY <2>1, <2>7, <2>9, <3>3, <3>4 DEF Pays, Towards, LowEnd, HighEnd
  <2> QED BY <2>8, <2>9
<1> QED BY <1>1, <1>2 DEF TurnMovesTo

LEMMA FiniteImage == ASSUME NEW S, IsFiniteSet(S), NEW f, NEW T, T = {f[x] : x \in S} PROVE IsFiniteSet(T)
<1>1. PICK h : h = [x \in S |-> f[x]]
  OBVIOUS
<1>2. h \in [S -> T] /\ \A y \in T : \E x \in S : h[x] = y
  BY <1>1
<1>3. h \in Surjection(S, T)
  BY <1>2, Zenon DEF Surjection
<1> QED BY <1>3, FS_Surjection

StartOf(p, in, l) == [left |-> in, out |-> 0, price |-> p, liquidity |-> l, refused |-> FALSE]

LEMMA WalkStarts ==
  ASSUME BookOk, NEW down \in BOOLEAN, NEW p \in QuotePrices, ~(down /\ TickOf(p) \in Initialised),
         NEW n, NEW targets, NEW c, LadderOf(down, TickOf(p), n, targets, c), NEW in \in Nat
  PROVE  Stands(down, p, n, c, 0, StartOf(p, in, LiquidityAt(TickOf(p))))
<1>0. TickOf(p) \in 0..MaxTick /\ MaxTick \in Nat /\ p \in Nat \ {0} /\ n \in Nat /\ c[0] = TickOf(p)
  BY TickOfIs, RatioTyped, PricesTyped DEF LadderOf
<1>1. PICK a \in 0..MaxTick : a = TickOf(p)
  BY <1>0
<1>2. \A r \in book : r.lower \in Initialised /\ r.upper \in Initialised /\ r.lower \in 0..MaxTick /\ r.upper \in 0..MaxTick
  BY InitialisedTyped
<1>3. BeyondSet(down, a) = {r \in book : r.lower <= a /\ a < r.upper}
  <2>1. CASE down
    <3>1. \A r \in book : r.lower # a /\ r.upper # a
      BY <1>1, <1>2, <2>1
    <3>2. \A r \in book : (r.lower < a /\ a <= r.upper) <=> (r.lower <= a /\ a < r.upper)
      BY <1>0, <1>2, <3>1
    <3> QED BY <2>1, <3>2 DEF BeyondSet
  <2>2. CASE ~down
    BY <2>2 DEF BeyondSet
  <2> QED BY <2>1, <2>2
<1>4. LiquidityAt(a) = LiquidityOf(BeyondSet(down, a)) /\ LiquidityAt(a) \in Nat
  BY <1>3, BeyondTyped DEF LiquidityAt
<1>5. PICK s : s = StartOf(p, in, LiquidityAt(a))
  OBVIOUS
<1>6. s \in WalkState /\ s.price = p /\ s.liquidity = LiquidityAt(a)
  BY <1>0, <1>4, <1>5 DEF WalkState, StartOf
<1> QED BY <1>0, <1>1, <1>4, <1>5, <1>6 DEF Stands, PlaceOf

LEMMA WalkPromises ==
  ASSUME BookOk, NEW down \in BOOLEAN, NEW p \in QuotePrices, ~(down /\ TickOf(p) \in Initialised), NEW in \in Nat,
         NEW end, end = WalkOver(down, StartOf(p, in, LiquidityAt(TickOf(p))), Targets(down, BookTicks, TickOf(p)))
  PROVE  /\ end \in WalkState
         /\ \E P : /\ IsFiniteSet(P) /\ P \subseteq Nat \ {0} /\ p \in P /\ end.price \in P
                   /\ \A t \in 0..MaxTick : Ratio[t] \in P
                   /\ \A g, m : Scale(down, P, g, m) => Pays(down, g, m, p, end)
<1>0. TickOf(p) \in 0..MaxTick /\ MaxTick \in Nat /\ p \in Nat \ {0}
  BY TickOfIs, RatioTyped, PricesTyped
<1>1. PICK n, targets, c : LadderOf(down, TickOf(p), n, targets, c)
  BY <1>0, LadderExists
<1>2. n \in Nat /\ targets = Targets(down, BookTicks, TickOf(p)) /\ DOMAIN targets = 1..(n + 1)
  BY <1>1 DEF LadderOf
<1>3. PICK start : start = StartOf(p, in, LiquidityAt(TickOf(p)))
  OBVIOUS
<1>4. PICK f : /\ end = f[n + 1] /\ f[0] = start
               /\ \A k \in 0..n : f[k + 1] = Walk(down, f[k], targets[k + 1])
  <2>1. PICK o \in Nat : o = n + 1 /\ DOMAIN targets = 1..o /\ o - 1 = n
    BY <1>2
  <2>2. PICK f : WalkSteps(f, down, start, targets, o)
    BY <2>1, WalkTurns
  <2>3. /\ WalkOver(down, start, targets) = f[n + 1] /\ f[0] = start
        /\ \A k \in 0..n : f[k + 1] = Walk(down, f[k], targets[k + 1])
    BY ONLY <2>1, <2>2, Zenon DEF WalkSteps
  <2>4. end = f[n + 1]
    BY <1>2, <1>3, <2>3, Zenon
  <2> QED BY ONLY <2>3, <2>4, Zenon
<1>5. \A k \in 0..(n + 1) : Stands(down, p, n, c, k, f[k])
  <2> DEFINE G == {k \in 0..(n + 1) : Stands(down, p, n, c, k, f[k])}
  <2>1. 0 \in G
    BY <1>1, <1>2, <1>3, <1>4, WalkStarts
  <2>2. ASSUME NEW k \in 0..((n + 1) - 1), k \in G PROVE k + 1 \in G
    <3>1. k \in 0..n /\ k + 1 \in 0..(n + 1)
      BY <1>2
    <3>2. Stands(down, p, n, c, k + 1, f[k + 1])
      BY <1>1, <1>4, <2>2, <3>1, WalkKeeps
    <3> QED BY <3>1, <3>2
  <2>3. n + 1 \in Nat
    BY <1>2
  <2> HIDE DEF G
  <2>4. \A k \in 0..(n + 1) : k \in G
    BY <2>1, <2>2, <2>3, ByPrefix
  <2> QED BY <2>4 DEF G
<1>6. \A k \in 0..n : TurnMovesTo(down, f[k], f[k + 1])
  <2> SUFFICES ASSUME NEW k \in 0..n PROVE TurnMovesTo(down, f[k], f[k + 1])
    OBVIOUS
  <2>1. Stands(down, p, n, c, k, f[k])
    BY <1>2, <1>5
  <2> QED BY <1>1, <1>4, <2>1, WalkKeeps
<1>7. \A k \in 0..(n + 1) : f[k] \in WalkState /\ f[k].price \in Nat \ {0}
  BY <1>5 DEF Stands, WalkState
<1>8. PICK h, A, B, P : /\ h = [k \in 0..(n + 1) |-> f[k].price]
                        /\ A = {Ratio[t] : t \in 0..MaxTick} /\ B = {h[k] : k \in 0..(n + 1)} /\ P = A \cup B
  OBVIOUS
<1>9. IsFiniteSet(P)
  <2>1. IsFiniteSet(0..MaxTick) /\ IsFiniteSet(0..(n + 1))
    <3>1. 0 \in Int /\ MaxTick \in Int /\ n + 1 \in Int
      BY <1>0, <1>2
    <3> QED BY <3>1, FS_Interval
  <2>2. IsFiniteSet(A)
    BY ONLY <1>8, <2>1, FiniteImage, Zenon
  <2>3. IsFiniteSet(B)
    <3>1. PICK K : K = 0..(n + 1) /\ IsFiniteSet(K)
      BY <2>1
    <3>2. B = {h[k] : k \in K}
      BY <1>8, <3>1
    <3> QED BY ONLY <3>1, <3>2, FiniteImage
  <2> QED BY <1>8, <2>2, <2>3, FS_Union
<1>10. /\ P \subseteq Nat \ {0} /\ \A k \in 0..(n + 1) : f[k].price \in P
       /\ \A t \in 0..MaxTick : Ratio[t] \in P
  BY <1>7, <1>8, RatioLeq
<1>11. 0 \in 0..(n + 1) /\ n + 1 \in 0..(n + 1) /\ f[0].price = p /\ f[0].out = 0
  BY <1>2, <1>3, <1>4 DEF StartOf
<1>12. ASSUME NEW g, NEW m, Scale(down, P, g, m) PROVE Pays(down, g, m, p, end)
  <2> DEFINE G == {k \in 0..(n + 1) : Pays(down, g, m, p, f[k])}
  <2>1. 0 \in G
    <3>1. HeldSum(g, p) \in Int
      <4>1. p \in P
        BY <1>10, <1>11
      <4> QED BY <1>10, <1>12, <4>1, HeldTyped
    <3>2. m \in Nat
      BY <1>12 DEF Scale
    <3> QED BY <1>0, <1>11, <3>1, <3>2 DEF Pays, Towards, LowEnd, HighEnd
  <2>2. ASSUME NEW k \in 0..((n + 1) - 1), k \in G PROVE k + 1 \in G
    <3>1. k \in 0..n /\ k \in 0..(n + 1) /\ k + 1 \in 0..(n + 1)
      BY <1>2
    <3>2. p \in P /\ f[k] \in WalkState /\ f[k + 1] \in WalkState /\ f[k].price \in P /\ f[k + 1].price \in P
      BY <1>7, <1>10, <1>11, <3>1
    <3>3. Pays(down, g, m, p, f[k + 1])
      BY <1>6, <1>10, <1>12, <2>2, <3>1, <3>2, TurnPays
    <3> QED BY <3>1, <3>3
  <2>3. n + 1 \in Nat
    BY <1>2
  <2> HIDE DEF G
  <2>4. \A k \in 0..(n + 1) : k \in G
    BY <2>1, <2>2, <2>3, ByPrefix
  <2> QED BY <1>4, <1>11, <2>4 DEF G
<1> QED BY <1>4, <1>7, <1>9, <1>10, <1>11, <1>12

(* What a position owes between two prices, rounded up, and what it holds of token 1 at one. *)
DueIn(down, lo, hi) ==
  [r \in QuoteRanges |->
     LET a == IF Ratio[r.lower] > lo THEN Ratio[r.lower] ELSE lo
         b == IF Ratio[r.upper] < hi THEN Ratio[r.upper] ELSE hi
     IN  IF a >= b THEN 0 ELSE Due(down, a, b, r.liquidity)]
HeldOne(x) == [r \in QuoteRanges |-> AmountsForLiquidity(x, Ratio[r.lower], Ratio[r.upper], r.liquidity).amount1]

LEMMA DueSums == ASSUME BookOk, NEW down, NEW lo, NEW hi PROVE HeldBetween(down, lo, hi, TRUE) = SumOf(DueIn(down, lo, hi), book)
<1> DEFINE v == DueIn(down, lo, hi)
           Owed(r) == LET a == IF Ratio[r.lower] > lo THEN Ratio[r.lower] ELSE lo
                          b == IF Ratio[r.upper] < hi THEN Ratio[r.upper] ELSE hi
                      IN  IF a >= b THEN 0
                          ELSE IF down THEN Amount1Delta(a, b, r.liquidity, TRUE) ELSE Amount0Delta(a, b, r.liquidity, TRUE)
           Adds(iter) == iter = [s \in SUBSET book |-> IF s = {} THEN 0 ELSE Owed(First(s)) + iter[s \ {First(s)}]]
           it == CHOOSE iter : Adds(iter)
<1>1. HeldBetween(down, lo, hi, TRUE) = it[book]
  BY DEF HeldBetween, Sum, MapThenSumSet, MapThenFoldSet, First
<1>2. \A r \in QuoteRanges : v[r] = Owed(r)
  BY DEF DueIn, Due
<1> HIDE DEF v, Owed
<1>3. \A s \in SUBSET book : s # {} => v[First(s)] = Owed(First(s))
  BY <1>2, FirstIsMember DEF BookOk
<1>4. ASSUME NEW iter PROVE Adds(iter) <=> Sums(v, book, iter)
  BY <1>3 DEF Sums, SumsUpTo
<1>5. IsFiniteSet(book)
  BY DEF BookOk
<1>6. \E iter : Adds(iter)
  BY <1>4, <1>5, SumExists
<1> HIDE DEF Adds
<1>7. Adds(it)
  BY <1>6
<1> HIDE DEF it
<1>8. it[book] = SumOf(v, book)
  BY <1>4, <1>5, <1>7, SumIs
<1> QED BY <1>1, <1>8 DEF v

LEMMA HeldOneSums == ASSUME BookOk, NEW x PROVE Held1(x) = SumOf(HeldOne(x), book)
<1> DEFINE v == HeldOne(x)
           Holds(r) == AmountsForLiquidity(x, Ratio[r.lower], Ratio[r.upper], r.liquidity).amount1
           Adds(iter) == iter = [s \in SUBSET book |-> IF s = {} THEN 0 ELSE Holds(First(s)) + iter[s \ {First(s)}]]
           it == CHOOSE iter : Adds(iter)
<1>1. Held1(x) = it[book]
  BY DEF Held1, Sum, MapThenSumSet, MapThenFoldSet, First
<1>2. \A r \in QuoteRanges : v[r] = Holds(r)
  BY DEF HeldOne
<1> HIDE DEF v, Holds
<1>3. \A s \in SUBSET book : s # {} => v[First(s)] = Holds(First(s))
  BY <1>2, FirstIsMember DEF BookOk
<1>4. ASSUME NEW iter PROVE Adds(iter) <=> Sums(v, book, iter)
  BY <1>3 DEF Sums, SumsUpTo
<1>5. IsFiniteSet(book)
  BY DEF BookOk
<1>6. \E iter : Adds(iter)
  BY <1>4, <1>5, SumExists
<1> HIDE DEF Adds
<1>7. Adds(it)
  BY <1>6
<1> HIDE DEF it
<1>8. it[book] = SumOf(v, book)
  BY <1>4, <1>5, <1>7, SumIs
<1> QED BY <1>1, <1>8 DEF v

LEMMA DueNatural ==
  ASSUME NEW down \in BOOLEAN, NEW lo \in Nat \ {0}, NEW hi \in Nat \ {0}, lo <= hi, NEW l \in Nat
  PROVE  Due(down, lo, hi, l) \in Nat
<1>0. Q \in Nat \ {0} /\ hi - lo \in Nat
  BY QuoteAssumption
<1>1. l * (hi - lo) \in Nat
  BY <1>0
<1>2. l * (hi - lo) * Q \in Nat
  BY <1>0, <1>1
<1>3. hi * lo \in Nat /\ hi * lo # 0
  OBVIOUS
<1>4. CASE down
  <2>1. Due(down, lo, hi, l) = DivUp(l * (hi - lo), Q)
    BY <1>4, Delta1 DEF Due
  <2> QED BY <1>0, <1>1, <2>1, UpReaches
<1>5. CASE ~down
  <2>1. Due(down, lo, hi, l) = DivUp(l * (hi - lo) * Q, hi * lo)
    BY <1>5, Delta0 DEF Due
  <2> QED BY <1>2, <1>3, <2>1, UpReaches
<1> QED BY <1>4, <1>5

LEMMA DueHolds ==
  ASSUME NEW down \in BOOLEAN, NEW P, NEW g, NEW m, Scale(down, P, g, m), \A t \in 0..MaxTick : Ratio[t] \in P, NEW r \in QuoteRanges,
         NEW lo \in P, NEW hi \in P, lo <= hi
  PROVE  /\ DueIn(down, lo, hi)[r] \in Nat
         /\ HeldAt(g, hi)[r] - HeldAt(g, lo)[r] <= DueIn(down, lo, hi)[r] * m
<1>0. P \subseteq Nat \ {0} /\ m \in Nat \ {0} /\ g \in [P -> Int]
  BY DEF Scale
<1>1. PICK u \in P, v \in P, l \in Nat : u = Ratio[r.lower] /\ v = Ratio[r.upper] /\ u < v /\ l = r.liquidity
  BY RangeRatios
<1>2. PICK a \in P, b \in P : a = (IF u > lo THEN u ELSE lo) /\ b = (IF v < hi THEN v ELSE hi)
  OBVIOUS
<1>3. DueIn(down, lo, hi)[r] = IF a >= b THEN 0 ELSE Due(down, a, b, l)
  BY <1>1, <1>2 DEF DueIn
<1>4. lo \in Nat /\ hi \in Nat /\ u \in Nat /\ v \in Nat /\ a \in Nat \ {0} /\ b \in Nat \ {0}
  BY <1>0
<1>5. HeldAt(g, lo)[r] = l * g[Clamp(r, lo)] /\ HeldAt(g, hi)[r] = l * g[Clamp(r, hi)]
  BY <1>1 DEF HeldAt
<1>6. CASE a >= b
  <2>1. Clamp(r, lo) = Clamp(r, hi) /\ Clamp(r, lo) \in P
    BY <1>1, <1>2, <1>4, <1>6 DEF Clamp
  <2>2. g[Clamp(r, lo)] \in Int
    BY <1>0, <2>1
  <2>3. HeldAt(g, hi)[r] - HeldAt(g, lo)[r] = 0
    BY <1>1, <1>5, <2>1, <2>2
  <2> QED BY <1>0, <1>3, <1>6, <2>3
<1>7. CASE ~(a >= b)
  <2>1. Clamp(r, lo) = a /\ Clamp(r, hi) = b /\ a <= b
    BY <1>1, <1>2, <1>4, <1>7 DEF Clamp
  <2>2. Due(down, a, b, l) \in Nat
    BY <1>4, <2>1, DueNatural
  <2>3. l * (g[b] - g[a]) <= Due(down, a, b, l) * m
    BY <2>1 DEF Scale
  <2>4. PICK x \in Int, y \in Int : x = g[a] /\ y = g[b]
    BY <1>0
  <2>5. l * (y - x) = l * y - l * x
    OBVIOUS
  <2>6. HeldAt(g, hi)[r] - HeldAt(g, lo)[r] = l * (y - x)
    BY <1>5, <2>1, <2>4, <2>5
  <2> QED BY <1>3, <1>7, <2>2, <2>3, <2>4, <2>6
<1> QED BY <1>6, <1>7

LEMMA HeldSumSplits ==
  ASSUME BookOk, NEW down \in BOOLEAN, NEW P, NEW g, NEW m, Scale(down, P, g, m), \A t \in 0..MaxTick : Ratio[t] \in P,
         NEW lo \in P, NEW hi \in P, lo <= hi, NEW d, d = [r \in book |-> HeldAt(g, hi)[r] - HeldAt(g, lo)[r]]
  PROVE  /\ HeldSum(g, lo) \in Int /\ HeldSum(g, hi) \in Int /\ SumOf(d, book) = HeldSum(g, hi) - HeldSum(g, lo)
         /\ \A r \in book : d[r] \in Nat /\ r \in QuoteRanges
<1>1. IsFiniteSet(book) /\ book \subseteq QuoteRanges
  BY DEF BookOk
<1>2. \A r \in book : /\ HeldAt(g, lo)[r] \in Int /\ HeldAt(g, hi)[r] \in Int /\ d[r] \in Nat /\ d[r] \in Int
                      /\ HeldAt(g, hi)[r] = HeldAt(g, lo)[r] + d[r]
  <2> SUFFICES ASSUME NEW r \in book
               PROVE  /\ HeldAt(g, lo)[r] \in Int /\ HeldAt(g, hi)[r] \in Int /\ d[r] \in Nat /\ d[r] \in Int
                      /\ HeldAt(g, hi)[r] = HeldAt(g, lo)[r] + d[r]
    OBVIOUS
  <2>1. r \in QuoteRanges /\ d[r] = HeldAt(g, hi)[r] - HeldAt(g, lo)[r]
    BY <1>1
  <2>2. HeldAt(g, lo)[r] \in Int /\ HeldAt(g, hi)[r] \in Int /\ HeldAt(g, hi)[r] - HeldAt(g, lo)[r] \in Nat
    BY <2>1, HeldDiffers
  <2> QED BY <2>1, <2>2
<1>3. SumOf(HeldAt(g, lo), book) \in Int /\ SumOf(HeldAt(g, hi), book) \in Int /\ SumOf(d, book) \in Int
  BY <1>1, <1>2, SumTyped
<1>4. SumOf(HeldAt(g, hi), book) = SumOf(HeldAt(g, lo), book) + SumOf(d, book)
  BY <1>1, <1>2, SumAdds
<1> QED BY <1>1, <1>2, <1>3, <1>4 DEF HeldSum

(* What a quote is, when it is not refused. *)
EndOf(down, pool, ticks, in) ==
  WalkOver(down, StartOf(pool.price, in - FeeOf(in), pool.liquidity), Targets(down, ticks, TickOf(pool.price)))

LEMMA QuoteIs ==
  ASSUME NEW down, NEW pool, NEW ticks, NEW in \in Nat, NEW slippage, ~SwapQuote(down, pool, ticks, in, slippage).refused,
         pool.liquidity \in Int
  PROVE  /\ in - FeeOf(in) \in Nat \ {0} /\ pool.liquidity \in Nat \ {0}
         /\ ~EndOf(down, pool, ticks, in).refused /\ ~(EndOf(down, pool, ticks, in).left > 0)
         /\ SwapQuote(down, pool, ticks, in, slippage) =
              [refused |-> FALSE, out |-> EndOf(down, pool, ticks, in).out, stop |-> EndOf(down, pool, ticks, in).price,
               fee |-> FeeOf(in), minimum |-> (EndOf(down, pool, ticks, in).out * (10000 - slippage)) \div 10000]
<1>1. FeeOf(in) \in Nat
  <2>1. Million \in Nat \ {0} /\ in * FeePpm \in Nat
    BY QuoteAssumption
  <2> QED BY <2>1, UpReaches DEF FeeOf
<1>3. SwapQuote(down, pool, ticks, in, slippage) =
        IF \/ in <= 0 \/ pool.liquidity <= 0 \/ in <= FeeOf(in) \/ EndOf(down, pool, ticks, in).refused
           \/ EndOf(down, pool, ticks, in).left > 0
        THEN Refused
        ELSE [refused |-> FALSE, out |-> EndOf(down, pool, ticks, in).out, stop |-> EndOf(down, pool, ticks, in).price,
              fee |-> FeeOf(in), minimum |-> (EndOf(down, pool, ticks, in).out * (10000 - slippage)) \div 10000]
  BY DEF SwapQuote, StartOf, EndOf
<1>4. ~(\/ in <= 0 \/ pool.liquidity <= 0 \/ in <= FeeOf(in) \/ EndOf(down, pool, ticks, in).refused
        \/ EndOf(down, pool, ticks, in).left > 0)
  BY <1>3 DEF Refused
<1>5. in - FeeOf(in) \in Nat \ {0} /\ pool.liquidity \in Nat \ {0}
  BY <1>1, <1>4
<1>6. SwapQuote(down, pool, ticks, in, slippage) =
        [refused |-> FALSE, out |-> EndOf(down, pool, ticks, in).out, stop |-> EndOf(down, pool, ticks, in).price,
         fee |-> FeeOf(in), minimum |-> (EndOf(down, pool, ticks, in).out * (10000 - slippage)) \div 10000]
  BY ONLY <1>3, <1>4
<1> QED BY ONLY <1>4, <1>5, <1>6

(* The answer of the SDK, given on the book and the price as they are. *)
BookAnswer(down, in, slippage) == SwapQuote(down, OnChain, BookTicks, in, slippage)
BookQuote(down, in, slippage) ==
  [kind |-> "sdk", down |-> down, in |-> in, slippage |-> slippage,
   from |-> OnChain, result |-> BookAnswer(down, in, slippage)]

LEMMA OnChainTyped ==
  ASSUME BookOk, PriceOk
  PROVE  OnChain.price = sqrtPrice /\ OnChain.liquidity = LiquidityAt(TickOf(sqrtPrice)) /\ OnChain.liquidity \in Int /\ sqrtPrice \in Nat \ {0}
<1>1. TickOf(sqrtPrice) \in DOMAIN Ratio
  BY TickOfIs, RatioTyped DEF PriceOk
<1>2. LiquidityAt(TickOf(sqrtPrice)) \in Nat
  BY <1>1, NetIsJump
<1> QED BY <1>2, PricesTyped DEF OnChain, PriceOk

(* What holds of an answer that pays out and stops somewhere. *)
AnswerPays(down, out, stop) ==
  \E P : /\ IsFiniteSet(P) /\ P \subseteq Nat \ {0} /\ sqrtPrice \in P /\ stop \in P
         /\ \A t \in 0..MaxTick : Ratio[t] \in P
         /\ \A g, m : Scale(down, P, g, m) =>
              /\ Towards(down, sqrtPrice, stop)
              /\ out * m <= HeldSum(g, HighEnd(down, sqrtPrice, stop)) - HeldSum(g, LowEnd(down, sqrtPrice, stop))

LEMMA BookQuotePays ==
  ASSUME BookOk, PriceOk, NEW down \in BOOLEAN, NEW in \in Nat, NEW slippage,
         ~BookAnswer(down, in, slippage).refused, ~(down /\ OnTick(sqrtPrice))
  PROVE  /\ BookAnswer(down, in, slippage).out \in Nat /\ BookAnswer(down, in, slippage).stop \in Nat \ {0}
         /\ AnswerPays(down, BookAnswer(down, in, slippage).out, BookAnswer(down, in, slippage).stop)
<1> DEFINE l == in - FeeOf(in)
           end == EndOf(down, OnChain, BookTicks, in)
<1>0. /\ OnChain.price = sqrtPrice /\ OnChain.liquidity = LiquidityAt(TickOf(sqrtPrice)) /\ OnChain.liquidity \in Int
      /\ sqrtPrice \in QuotePrices
  BY OnChainTyped DEF PriceOk
<1>1. ~SwapQuote(down, OnChain, BookTicks, in, slippage).refused
  BY DEF BookAnswer
<1>2. /\ l \in Nat \ {0}
      /\ SwapQuote(down, OnChain, BookTicks, in, slippage) =
           [refused |-> FALSE, out |-> end.out, stop |-> end.price,
            fee |-> FeeOf(in), minimum |-> (end.out * (10000 - slippage)) \div 10000]
  BY <1>0, <1>1, QuoteIs
<1>3. BookAnswer(down, in, slippage).out = end.out /\ BookAnswer(down, in, slippage).stop = end.price
  BY <1>2 DEF BookAnswer
<1>4. end = WalkOver(down, StartOf(sqrtPrice, l, LiquidityAt(TickOf(sqrtPrice))), Targets(down, BookTicks, TickOf(sqrtPrice)))
  BY <1>0, Zenon DEF EndOf
<1>5. ~(down /\ TickOf(sqrtPrice) \in Initialised)
  BY DEF OnTick
<1> HIDE DEF l, end
<1>6. /\ end \in WalkState
      /\ \E P : /\ IsFiniteSet(P) /\ P \subseteq Nat \ {0} /\ sqrtPrice \in P /\ end.price \in P
                /\ \A t \in 0..MaxTick : Ratio[t] \in P
                /\ \A g, m : Scale(down, P, g, m) => Pays(down, g, m, sqrtPrice, end)
  BY <1>0, <1>2, <1>4, <1>5, WalkPromises
<1>7. end.out \in Nat /\ end.price \in Nat \ {0}
  BY <1>6 DEF WalkState
<1>8. AnswerPays(down, end.out, end.price)
  <2>1. PICK P : /\ IsFiniteSet(P) /\ P \subseteq Nat \ {0} /\ sqrtPrice \in P /\ end.price \in P
                 /\ \A t \in 0..MaxTick : Ratio[t] \in P
                 /\ \A g, m : Scale(down, P, g, m) => Pays(down, g, m, sqrtPrice, end)
    BY <1>6
  <2>2. \A g, m : Scale(down, P, g, m) =>
              /\ Towards(down, sqrtPrice, end.price)
              /\ end.out * m <= HeldSum(g, HighEnd(down, sqrtPrice, end.price)) - HeldSum(g, LowEnd(down, sqrtPrice, end.price))
    BY ONLY <2>1 DEF Pays
  <2> QED BY ONLY <2>1, <2>2 DEF AnswerPays
<1> QED BY <1>3, <1>7, <1>8, Zenon

LEMMA PromisesHeld ==
  ASSUME BookOk, PriceOk, NEW down \in BOOLEAN, NEW in \in Nat, NEW slippage, quote = BookQuote(down, in, slippage)
  PROVE  PromisesWhatIsHeld
<1> DEFINE res == BookAnswer(down, in, slippage)
<1>1. quote.down = down /\ quote.from = OnChain /\ quote.from.price = sqrtPrice /\ quote.result = res
  BY OnChainTyped DEF BookQuote
<1> HIDE DEF res
<1>3. ASSUME ~res.refused, ~(down /\ OnTick(sqrtPrice))
      PROVE  LET lo == IF down THEN res.stop ELSE sqrtPrice
                 hi == IF down THEN sqrtPrice ELSE res.stop
             IN  res.out <= HeldBetween(down, lo, hi, TRUE)
  <2>1. PICK P : /\ IsFiniteSet(P) /\ P \subseteq Nat \ {0} /\ sqrtPrice \in P /\ res.stop \in P
                 /\ \A t \in 0..MaxTick : Ratio[t] \in P
                 /\ \A g, m : Scale(down, P, g, m) =>
                      /\ Towards(down, sqrtPrice, res.stop)
                      /\ res.out * m <= HeldSum(g, HighEnd(down, sqrtPrice, res.stop)) - HeldSum(g, LowEnd(down, sqrtPrice, res.stop))
    BY <1>3, BookQuotePays DEF AnswerPays, res
  <2>2. res.out \in Nat
    BY <1>3, BookQuotePays DEF res
  <2>3. PICK m, g : Scale(down, P, g, m)
    BY <2>1, ScaleExists
  <2>4. PICK lo \in P, hi \in P : lo = LowEnd(down, sqrtPrice, res.stop) /\ hi = HighEnd(down, sqrtPrice, res.stop)
    BY <2>1 DEF LowEnd, HighEnd
  <2>5. lo <= hi
    BY <2>1, <2>3, <2>4 DEF Towards, LowEnd, HighEnd
  <2>6. res.out * m <= HeldSum(g, hi) - HeldSum(g, lo)
    BY <2>1, <2>3, <2>4
  <2>7. PICK d : d = [r \in book |-> HeldAt(g, hi)[r] - HeldAt(g, lo)[r]]
    OBVIOUS
  <2>8. /\ SumOf(d, book) = HeldSum(g, hi) - HeldSum(g, lo)
        /\ \A r \in book : d[r] \in Nat /\ r \in QuoteRanges
    BY <2>1, <2>3, <2>5, <2>7, HeldSumSplits
  <2>9. PICK v, w : v = DueIn(down, lo, hi) /\ w = [r \in book |-> v[r] * m]
    OBVIOUS
  <2>10. m \in Nat \ {0}
    BY <2>3 DEF Scale
  <2>11. \A r \in book : v[r] \in Nat /\ d[r] <= v[r] * m
    BY <2>1, <2>3, <2>5, <2>7, <2>8, <2>9, DueHolds
  <2>12. \A r \in book : v[r] \in Int /\ w[r] = v[r] * m /\ w[r] \in Int /\ d[r] \in Int /\ d[r] <= w[r]
    <3> SUFFICES ASSUME NEW r \in book PROVE v[r] \in Int /\ w[r] = v[r] * m /\ w[r] \in Int /\ d[r] \in Int /\ d[r] <= w[r]
      OBVIOUS
    <3>1. PICK x \in Nat : x = v[r] /\ x * m \in Int
      BY <2>10, <2>11
    <3> QED BY <2>8, <2>9, <2>11, <3>1
  <2>13. IsFiniteSet(book)
    BY DEF BookOk
  <2>14. SumOf(d, book) <= SumOf(w, book) /\ SumOf(d, book) \in Int
    BY <2>12, <2>13, SumLeq
  <2>15. SumOf(w, book) = SumOf(v, book) * m
    BY <2>10, <2>12, <2>13, SumTimes
  <2>16. SumOf(v, book) \in Int
    BY <2>12, <2>13, SumTyped
  <2>17. res.out * m <= SumOf(v, book) * m
    <3>1. PICK a \in Int, b \in Int, e \in Int : a = res.out * m /\ b = SumOf(d, book) /\ e = SumOf(v, book) * m
      BY <2>2, <2>10, <2>14, <2>16
    <3> QED BY <2>6, <2>8, <2>14, <2>15, <3>1
  <2>18. res.out <= SumOf(v, book)
    BY <2>2, <2>10, <2>16, <2>17, Cancels
  <2>19. res.out <= HeldBetween(down, lo, hi, TRUE)
    BY <2>9, <2>18, DueSums
  <2> QED BY <2>4, <2>19 DEF LowEnd, HighEnd
<1> QED BY ONLY <1>1, <1>3 DEF PromisesWhatIsHeld

LEMMA DownNear == ASSUME NEW n \in Nat, NEW d \in Nat \ {0} PROVE n \div d \in Nat /\ (n \div d) * d <= n /\ n <= (n \div d) * d + d
<1>1. n \div d \in Nat /\ n = d * (n \div d) + (n % d) /\ n % d \in 0..(d - 1)
  OBVIOUS
<1>2. PICK q \in Nat, r \in Nat : q = n \div d /\ r = n % d
  BY <1>1
<1>3. d * q = q * d /\ q * d \in Nat
  BY <1>2
<1> QED BY <1>1, <1>2, <1>3

(* What a position holds of token 1, on the scale of the prices. *)
LEMMA HeldOneIs ==
  ASSUME NEW r \in QuoteRanges, NEW x \in Nat \ {0}, NEW P, P \subseteq Nat, Clamp(r, x) \in P
  PROVE  LET v == HeldOne(x)[r]  h == HeldAt([p \in P |-> p], x)[r] - r.liquidity * Ratio[r.lower]
         IN  v \in Nat /\ h \in Nat /\ v * Q <= h /\ h <= v * Q + Q
<1> DEFINE v == HeldOne(x)[r]
           h == HeldAt([p \in P |-> p], x)[r] - r.liquidity * Ratio[r.lower]
<1>1. PICK a \in Nat \ {0}, b \in Nat \ {0}, l \in Nat : a = Ratio[r.lower] /\ b = Ratio[r.upper] /\ a < b /\ l = r.liquidity
  BY RangeRatios
<1>2. Q \in Nat \ {0}
  BY QuoteAssumption
<1>3. PICK c \in Nat : c = Clamp(r, x) /\ c >= a /\ c = (IF x < a THEN a ELSE IF x > b THEN b ELSE x)
  BY <1>1 DEF Clamp
<1>4. l * c - l * a = l * (c - a) /\ l * (c - a) \in Nat
  <2>1. c - a \in Nat
    BY <1>3
  <2> QED BY <2>1, <1>1, <1>3
<1>5. h = l * (c - a)
  <2>1. HeldAt([p \in P |-> p], x)[r] = l * c
    BY <1>1, <1>3 DEF HeldAt
  <2> QED BY <1>1, <1>4, <2>1
<1>6. v = (l * (c - a)) \div Q
  <2>1. v = CASE x <= a -> 0 [] x >= b -> (l * (b - a)) \div Q [] OTHER -> (l * (x - a)) \div Q
    BY <1>1, Zenon DEF HeldOne, AmountsForLiquidity
  <2>2. CASE x <= a
    <3>1. c = a /\ ~(x >= b)
      BY <1>1, <1>3, <2>2
    <3>2. l * (c - a) = 0 /\ 0 \div Q = 0
      BY <1>2, <3>1
    <3>3. v = 0
      BY <2>1, <2>2, <3>1
    <3> QED BY <3>2, <3>3
  <2>3. CASE x >= b
    <3>1. c = b /\ ~(x <= a)
      BY <1>1, <1>3, <2>3
    <3> QED BY <2>1, <2>3, <3>1
  <2>4. CASE ~(x >= b) /\ ~(x <= a)
    <3>1. c = x
      BY <1>1, <1>3, <2>4
    <3> QED BY <2>1, <2>4, <3>1
  <2> QED BY <2>2, <2>3, <2>4
<1> HIDE DEF v, h
<1>7. v \in Nat /\ h \in Nat /\ v * Q <= h /\ h <= v * Q + Q
  BY <1>2, <1>4, <1>5, <1>6, DownNear
<1> QED BY <1>7 DEF v, h

LEMMA LossOfHoldings ==
  ASSUME BookOk, NEW P, P \subseteq Nat \ {0}, \A t \in 0..MaxTick : Ratio[t] \in P, NEW lo \in P, NEW hi \in P, lo <= hi,
         NEW down \in BOOLEAN, Scale(down, P, [p \in P |-> p], Q)
  PROVE  /\ Held1(lo) \in Nat /\ Held1(hi) \in Nat /\ Cardinality(book) \in Nat
         /\ HeldSum([p \in P |-> p], hi) - HeldSum([p \in P |-> p], lo) <= (Held1(hi) - Held1(lo) + Cardinality(book)) * Q
<1> DEFINE g == [p \in P |-> p]
           v == HeldOne(lo)
           w == HeldOne(hi)
           one == [r \in book |-> 1]
           d == [r \in book |-> HeldAt(g, hi)[r] - HeldAt(g, lo)[r]]
           e == [r \in book |-> (w[r] - v[r]) + one[r]]
           z == [r \in book |-> e[r] * Q]
           y == [r \in book |-> w[r] - v[r]]
<1>0. IsFiniteSet(book) /\ book \subseteq QuoteRanges /\ Q \in Nat \ {0} /\ Scale(down, P, g, Q)
  <2>1. Q \in Nat \ {0}
    BY QuoteAssumption
  <2>2. IsFiniteSet(book) /\ book \subseteq QuoteRanges
    BY DEF BookOk
  <2> QED BY <2>1, <2>2
<1> HIDE DEF g, v, w
<1>1. /\ HeldSum(g, lo) \in Int /\ HeldSum(g, hi) \in Int /\ SumOf(d, book) = HeldSum(g, hi) - HeldSum(g, lo)
      /\ \A r \in book : d[r] \in Nat
  <2>1. d = [r \in book |-> HeldAt(g, hi)[r] - HeldAt(g, lo)[r]]
    OBVIOUS
  <2> HIDE DEF d
  <2> QED BY <1>0, <2>1, HeldSumSplits
<1>2. \A r \in book : v[r] \in Nat /\ w[r] \in Nat /\ d[r] <= ((w[r] - v[r]) + 1) * Q
  <2> SUFFICES ASSUME NEW r \in book PROVE v[r] \in Nat /\ w[r] \in Nat /\ d[r] <= ((w[r] - v[r]) + 1) * Q
    OBVIOUS
  <2>1. PICK k \in Int : k = r.liquidity * Ratio[r.lower]
    BY <1>0, RangeRatios
  <2>2. Clamp(r, lo) \in P /\ Clamp(r, hi) \in P
    BY <1>0, ClampIs
  <2>3. /\ v[r] \in Nat /\ HeldAt(g, lo)[r] - k \in Nat /\ v[r] * Q <= HeldAt(g, lo)[r] - k
    BY <1>0, <2>1, <2>2, HeldOneIs DEF g, v
  <2>4. /\ w[r] \in Nat /\ HeldAt(g, hi)[r] - k \in Nat /\ HeldAt(g, hi)[r] - k <= w[r] * Q + Q
    BY <1>0, <2>1, <2>2, HeldOneIs DEF g, w
  <2>5. HeldAt(g, lo)[r] \in Int /\ HeldAt(g, hi)[r] \in Int
    BY <1>0, HeldDiffers
  <2>6. PICK i \in Nat, j \in Nat, s \in Int, t \in Int : i = v[r] /\ j = w[r] /\ s = HeldAt(g, lo)[r] /\ t = HeldAt(g, hi)[r]
    BY <2>3, <2>4, <2>5
  <2>7. i * Q <= s - k /\ t - k <= j * Q + Q
    BY <2>3, <2>4, <2>6
  <2>8. ((j - i) + 1) * Q = j * Q - i * Q + Q /\ i * Q \in Int /\ j * Q \in Int
    BY <1>0
  <2>9. t - s <= ((j - i) + 1) * Q
    BY <1>0, <2>7, <2>8
  <2>10. d[r] = t - s
    BY <2>6
  <2> QED BY <2>6, <2>9, <2>10
<1>3. \A r \in book : /\ one[r] = 1 /\ one[r] \in Int /\ y[r] = w[r] - v[r] /\ y[r] \in Int /\ e[r] = y[r] + one[r] /\ e[r] \in Int
                      /\ w[r] = v[r] + y[r] /\ v[r] \in Int /\ w[r] \in Int /\ z[r] = e[r] * Q /\ z[r] \in Int /\ d[r] <= z[r] /\ d[r] \in Int
  <2> SUFFICES ASSUME NEW r \in book
               PROVE  /\ one[r] = 1 /\ one[r] \in Int /\ y[r] = w[r] - v[r] /\ y[r] \in Int /\ e[r] = y[r] + one[r] /\ e[r] \in Int
                      /\ w[r] = v[r] + y[r] /\ v[r] \in Int /\ w[r] \in Int /\ z[r] = e[r] * Q /\ z[r] \in Int /\ d[r] <= z[r] /\ d[r] \in Int
    OBVIOUS
  <2>1. PICK i \in Nat, j \in Nat : i = v[r] /\ j = w[r]
    BY <1>2
  <2>2. one[r] = 1 /\ y[r] = j - i /\ e[r] = (j - i) + 1 /\ z[r] = ((j - i) + 1) * Q
    BY <2>1
  <2>3. ((j - i) + 1) * Q \in Int
    BY <1>0
  <2>4. d[r] <= ((j - i) + 1) * Q /\ d[r] \in Int
    BY <1>1, <1>2, <2>1
  <2> HIDE DEF d, e, z, y, one
  <2> QED BY <2>1, <2>2, <2>3, <2>4
<1> HIDE DEF d, e, z, y, one
<1>4. SumOf(d, book) <= SumOf(z, book) /\ SumOf(z, book) \in Int /\ SumOf(d, book) \in Int
  BY <1>0, <1>3, SumLeq
<1>5. SumOf(z, book) = SumOf(e, book) * Q
  BY <1>0, <1>3, SumTimes
<1>6. SumOf(e, book) = SumOf(y, book) + SumOf(one, book)
  BY <1>0, <1>3, SumAdds
<1>7. SumOf(w, book) = SumOf(v, book) + SumOf(y, book)
  BY <1>0, <1>3, SumAdds
<1>8. SumOf(one, book) = Cardinality(book) /\ Cardinality(book) \in Nat
  BY <1>0, <1>3, SumOnes, FS_CardinalityType
<1>9. /\ SumOf(v, book) \in Nat /\ SumOf(w, book) \in Nat
  BY <1>0, <1>2, SumTyped
<1>10. SumOf(y, book) \in Int
  BY <1>0, <1>3, SumTyped
<1>11. SumOf(e, book) = SumOf(w, book) - SumOf(v, book) + Cardinality(book)
  BY <1>6, <1>7, <1>8, <1>9, <1>10
<1>12. Held1(lo) = SumOf(v, book) /\ Held1(hi) = SumOf(w, book)
  BY HeldOneSums DEF v, w
<1>13. HeldSum(g, hi) - HeldSum(g, lo) <= (Held1(hi) - Held1(lo) + Cardinality(book)) * Q
  BY <1>1, <1>4, <1>5, <1>11, <1>12, Zenon
<1> QED BY <1>8, <1>9, <1>12, <1>13 DEF g

LEMMA HoldingsTold ==
  ASSUME BookOk, PriceOk, NEW down \in BOOLEAN, NEW in \in Nat, NEW slippage, quote = BookQuote(down, in, slippage)
  PROVE  HoldingsTellTheMove
<1> DEFINE res == BookAnswer(down, in, slippage)
<1>1. quote.down = down /\ quote.from.price = sqrtPrice /\ quote.result = res
  BY OnChainTyped DEF BookQuote
<1> HIDE DEF res
<1>2. ASSUME ~res.refused, down, ~OnTick(sqrtPrice)
      PROVE  res.out \in 0..(Held1(sqrtPrice) - Held1(res.stop) + Cardinality(book))
  <2>1. PICK P : /\ IsFiniteSet(P) /\ P \subseteq Nat \ {0} /\ sqrtPrice \in P /\ res.stop \in P
                 /\ \A t \in 0..MaxTick : Ratio[t] \in P
                 /\ \A g, m : Scale(down, P, g, m) =>
                      /\ Towards(down, sqrtPrice, res.stop)
                      /\ res.out * m <= HeldSum(g, HighEnd(down, sqrtPrice, res.stop)) - HeldSum(g, LowEnd(down, sqrtPrice, res.stop))
    BY <1>2, BookQuotePays DEF AnswerPays, res
  <2>2. res.out \in Nat
    BY <1>2, BookQuotePays DEF res
  <2>3. Scale(down, P, [p \in P |-> p], Q) /\ Q \in Nat \ {0}
    <3>1. Scale(TRUE, P, [p \in P |-> p], Q) /\ down = TRUE
      BY <1>2, <2>1, ScaleOfPrices
    <3>2. Q \in Nat \ {0}
      BY QuoteAssumption
    <3> QED BY <3>1, <3>2, Zenon
  <2>4. /\ Towards(down, sqrtPrice, res.stop)
        /\ res.out * Q <= HeldSum([p \in P |-> p], HighEnd(down, sqrtPrice, res.stop))
                          - HeldSum([p \in P |-> p], LowEnd(down, sqrtPrice, res.stop))
    BY <2>1, <2>3
  <2>5. res.stop <= sqrtPrice /\ HighEnd(down, sqrtPrice, res.stop) = sqrtPrice /\ LowEnd(down, sqrtPrice, res.stop) = res.stop
    BY <1>2, <2>4 DEF Towards, HighEnd, LowEnd
  <2>6. res.out * Q <= HeldSum([p \in P |-> p], sqrtPrice) - HeldSum([p \in P |-> p], res.stop)
    BY <2>4, <2>5
  <2>7. /\ Held1(res.stop) \in Nat /\ Held1(sqrtPrice) \in Nat /\ Cardinality(book) \in Nat
        /\ HeldSum([p \in P |-> p], sqrtPrice) - HeldSum([p \in P |-> p], res.stop)
              <= (Held1(sqrtPrice) - Held1(res.stop) + Cardinality(book)) * Q
    BY <2>1, <2>3, <2>5, LossOfHoldings
  <2>8. PICK a \in Int : a = Held1(sqrtPrice) - Held1(res.stop) + Cardinality(book)
    BY <2>7
  <2>9. HeldSum([p \in P |-> p], sqrtPrice) \in Int /\ HeldSum([p \in P |-> p], res.stop) \in Int
    BY <2>1, <2>3, HeldTyped
  <2>10. res.out * Q <= a * Q
    <3>1. PICK b \in Int : b = HeldSum([p \in P |-> p], sqrtPrice) - HeldSum([p \in P |-> p], res.stop)
      BY <2>9
    <3>2. res.out * Q <= b /\ b <= a * Q /\ res.out * Q \in Int /\ a * Q \in Int
      BY <2>2, <2>3, <2>6, <2>7, <2>8, <3>1
    <3> QED BY <3>2
  <2>11. res.out <= a
    BY <2>2, <2>3, <2>10, Cancels
  <2> QED BY <2>2, <2>8, <2>11
<1> QED BY ONLY <1>1, <1>2 DEF HoldingsTellTheMove

(* A turn that ends before its target, and a walk that has nothing left after its first. *)
ShortOf(down, x, l, in) ==
  [left |-> 0, out |-> 0 + AmountPaid(down, PriceAfterIn(down, x, l, in), x, l), price |-> PriceAfterIn(down, x, l, in),
   liquidity |-> l, refused |-> FALSE]

LEMMA StopsShort ==
  ASSUME NEW down \in BOOLEAN, NEW x \in Nat \ {0}, NEW in \in Nat \ {0}, NEW l \in Nat \ {0}, NEW t,
         ~(in >= AmountToReach(down, Ratio[t.tick], x, l))
  PROVE  Walk(down, StartOf(x, in, l), t) = ShortOf(down, x, l, in)
<1> DEFINE s == StartOf(x, in, l)
<1>1. s.left = in /\ s.out = 0 /\ s.price = x /\ s.liquidity = l /\ s.refused = FALSE
  BY DEF StartOf
<1> HIDE DEF s
<1>2. Walk(down, s, t) = Turn(down, s, t)
  BY <1>1 DEF Walk
<1>3. Turn(down, s, t) = ShortOf(down, x, l, in)
  BY <1>1, Zenon DEF Turn, ShortOf
<1> QED BY <1>2, <1>3 DEF s

LEMMA IdleAfterwards ==
  ASSUME NEW f, NEW down, NEW s, NEW targets, NEW n \in Nat \ {0}, WalkSteps(f, down, s, targets, n), f[1].left = 0
  PROVE  WalkOver(down, s, targets) = f[1]
<1>1. /\ WalkOver(down, s, targets) = f[n]
      /\ \A k \in 0..(n - 1) : f[k + 1] = Walk(down, f[k], targets[k + 1])
  BY DEF WalkSteps
<1> DEFINE G == {k \in 0..(n - 1) : f[k + 1] = f[1]}
<1>2. 0 \in G
  OBVIOUS
<1>3. ASSUME NEW k \in 0..((n - 1) - 1), k \in G PROVE k + 1 \in G
  <2>1. k + 1 \in 0..(n - 1) /\ f[k + 1] = f[1]
    BY <1>3
  <2>2. f[(k + 1) + 1] = Walk(down, f[k + 1], targets[(k + 1) + 1])
    BY <1>1, <2>1
  <2>3. Walk(down, f[k + 1], targets[(k + 1) + 1]) = f[k + 1]
    BY <2>1, Zenon DEF Walk
  <2> QED BY <2>1, <2>2, <2>3
<1>4. n - 1 \in Nat
  OBVIOUS
<1> HIDE DEF G
<1>5. \A k \in 0..(n - 1) : k \in G
  BY <1>2, <1>3, <1>4, ByPrefix
<1>6. n - 1 \in G /\ (n - 1) + 1 = n
  BY <1>4, <1>5
<1> QED BY <1>1, <1>6 DEF G

(* A walk over no ticks is one turn, to the end of the scale. *)
LEMMA BareTargets ==
  ASSUME NEW down \in BOOLEAN, NEW from
  PROVE  DOMAIN Targets(down, {}, from) = 1..1 /\ Targets(down, {}, from)[1] = EndOfScale(down)
<1>1. Ahead(down, {}, from) = {}
  BY DEF Ahead
<1>2. PICK S : S = {}
  OBVIOUS
<1>3. TicksOk(S)
  BY <1>2, FS_EmptySet DEF TicksOk
<1>4. PICK n, q : n \in Nat /\ q = SortedTicks(down, S) /\ n = Cardinality(S) /\ q \in [1..n -> S]
  BY <1>3, SortedIs
<1>5. n = 0
  BY <1>2, <1>4, FS_EmptySet
<1>6. PICK U : U = {EndOfScale(down)}
  OBVIOUS
<1>7. q \in Seq(U) /\ Len(q) = 0 /\ EndOfScale(down) \in U
  <2>1. q \in [1..0 -> U] /\ EndOfScale(down) \in U
    BY <1>2, <1>4, <1>5, <1>6
  <2> QED BY <2>1
<1>8. PICK w : w = Append(q, EndOfScale(down))
  OBVIOUS
<1>9. w \in Seq(U) /\ Len(w) = 1 /\ w[1] = EndOfScale(down)
  BY <1>7, <1>8, AppendProperties
<1>10. w = Targets(down, {}, from)
  BY <1>1, <1>2, <1>4, <1>8 DEF Targets
<1>11. DOMAIN w = 1..1
  BY <1>9
<1> QED BY <1>9, <1>10, <1>11

LEMMA BareWalk ==
  ASSUME NEW down \in BOOLEAN, NEW from, NEW x \in Nat \ {0}, NEW in \in Nat \ {0}, NEW l \in Nat \ {0},
         ~WalkOver(down, StartOf(x, in, l), Targets(down, {}, from)).refused
  PROVE  /\ WalkOver(down, StartOf(x, in, l), Targets(down, {}, from)) = ShortOf(down, x, l, in)
         /\ ~(in >= AmountToReach(down, Ratio[EndOfScale(down).tick], x, l))
<1> DEFINE s == StartOf(x, in, l)
           w == Targets(down, {}, from)
<1>1. DOMAIN w = 1..1 /\ w[1] = EndOfScale(down)
  BY BareTargets
<1>2. s.left = in /\ s.liquidity = l /\ s.refused = FALSE /\ s.price = x
  BY DEF StartOf
<1>3. ~WalkOver(down, s, w).refused
  OBVIOUS
<1> HIDE DEF s, w
<1>4. 1 \in Nat
  OBVIOUS
<1>5. PICK f : WalkSteps(f, down, s, w, 1)
  BY <1>1, <1>4, WalkTurns
<1>6. WalkOver(down, s, w) = f[1] /\ f[0] = s /\ f[0 + 1] = Walk(down, f[0], w[0 + 1])
  <2>1. 0 \in 0..(1 - 1)
    OBVIOUS
  <2> QED BY <1>5, <2>1, Zenon DEF WalkSteps
<1>7. WalkOver(down, s, w) = Walk(down, s, EndOfScale(down))
  <2>1. 0 + 1 = 1
    OBVIOUS
  <2> QED BY <1>1, <1>6, <2>1, Zenon
<1>8. Walk(down, s, EndOfScale(down)) = Turn(down, s, EndOfScale(down))
  BY <1>2 DEF Walk
<1>9. EndOfScale(down).last = TRUE
  BY DEF EndOfScale
<1>10. ~(in >= AmountToReach(down, Ratio[EndOfScale(down).tick], x, l))
  <2> SUFFICES ASSUME in >= AmountToReach(down, Ratio[EndOfScale(down).tick], x, l) PROVE FALSE
    OBVIOUS
  <2>1. Turn(down, s, EndOfScale(down)).refused = TRUE
    BY <1>2, <1>9 DEF Turn
  <2> QED BY <1>3, <1>7, <1>8, <2>1
<1>11. Walk(down, StartOf(x, in, l), EndOfScale(down)) = ShortOf(down, x, l, in)
  BY <1>10, StopsShort
<1>12. WalkOver(down, StartOf(x, in, l), Targets(down, {}, from)) = ShortOf(down, x, l, in)
  BY <1>7, <1>11, Zenon DEF s, w
<1> QED BY <1>10, <1>12

(* Where no tick lies before the place a bare walk stops at, the walk over the ticks stops there too. *)
LEMMA WalkUntilTick ==
  ASSUME BookOk, NEW down \in BOOLEAN, NEW x \in QuotePrices, NEW in \in Nat \ {0}, NEW l \in Nat \ {0},
         ~(in >= AmountToReach(down, Ratio[EndOfScale(down).tick], x, l)),
         \A t \in Initialised : Ratio[t] \notin Between(PriceAfterIn(down, x, l, in), x)
  PROVE  WalkOver(down, StartOf(x, in, l), Targets(down, BookTicks, TickOf(x))) = ShortOf(down, x, l, in)
<1> DEFINE s == StartOf(x, in, l)
<1>0. x \in Nat \ {0} /\ TickOf(x) \in 0..MaxTick /\ MaxTick \in Nat
  BY PricesTyped, TickOfIs, RatioTyped
<1>1. PICK n, w, c : LadderOf(down, TickOf(x), n, w, c)
  BY <1>0, LadderExists
<1>2. /\ n \in Nat /\ w = Targets(down, BookTicks, TickOf(x)) /\ DOMAIN w = 1..(n + 1) /\ w[n + 1] = EndOfScale(down)
      /\ \A k \in 1..n : c[k] \in Initialised /\ w[k] = [tick |-> c[k], net |-> Net(c[k]), last |-> FALSE]
      /\ c[0] = TickOf(x)
  BY <1>1 DEF LadderOf
<1>3. Walk(down, s, w[1]) = ShortOf(down, x, l, in)
  <2>1. CASE n = 0
    <3>1. w[1] = EndOfScale(down)
      BY <1>2, <2>1
    <3> QED BY <1>0, <3>1, StopsShort
  <2>2. CASE n # 0
    <3>1. 1 \in 1..n /\ 0 \in 0..n /\ 0 + 1 \in 0..n /\ 0 + 1 = 1
      BY <1>2, <2>2
    <3>2. PICK b \in 0..MaxTick : b = c[1] /\ b \in Initialised
      <4>1. c[1] \in Initialised
        BY <1>2, <3>1
      <4> QED BY <4>1, InitialisedTyped
    <3>3. IF down THEN b < TickOf(x) ELSE TickOf(x) < b
      <4>1. IF down THEN c[0 + 1] < c[0] ELSE c[0] < c[0 + 1]
        BY <1>0, <1>1, <3>1, LadderTyped
      <4> QED BY ONLY <1>2, <3>1, <3>2, <4>1
    <3>4. PICK y \in Nat \ {0} : y = Ratio[b]
      BY <3>2, RatioLeq
    <3>5. Towards(down, x, y)
      <4>1. (b <= TickOf(x) => y <= x) /\ (TickOf(x) < b => x < y)
        BY <3>2, <3>4, TickOfIs
      <4> QED BY <1>0, <3>2, <3>3, <3>4, <4>1 DEF Towards
    <3>6. /\ AmountToReach(down, y, x, l) \in Nat /\ PriceAfterIn(down, x, l, in) \in Nat \ {0}
          /\ Towards(down, x, PriceAfterIn(down, x, l, in))
          /\ AmountToReach(down, y, x, l) <= in <=> Towards(down, y, PriceAfterIn(down, x, l, in))
      BY <1>0, <3>4, <3>5, TurnMoves
    <3>7. y \notin Between(PriceAfterIn(down, x, l, in), x)
      BY <3>2, <3>4
    <3>8. ~Towards(down, y, PriceAfterIn(down, x, l, in))
      <4>1. PICK z \in Nat \ {0} : z = PriceAfterIn(down, x, l, in)
        BY <3>6
      <4> QED BY <1>0, <3>4, <3>5, <3>6, <3>7, <4>1 DEF Towards, Between
    <3>9. w[1].tick = b
      <4>1. w[1] = [tick |-> c[1], net |-> Net(c[1]), last |-> FALSE]
        BY <1>2, <3>1
      <4> QED BY ONLY <3>2, <4>1
    <3>10. ~(in >= AmountToReach(down, Ratio[w[1].tick], x, l))
      BY <3>4, <3>6, <3>8, <3>9
    <3> QED BY <1>0, <3>10, StopsShort
  <2> QED BY <2>1, <2>2
<1> HIDE DEF s
<1>4. PICK o \in Nat \ {0} : o = n + 1
  BY <1>2
<1>5. PICK f : WalkSteps(f, down, s, w, o)
  BY <1>2, <1>4, WalkTurns
<1>6. f[1] = Walk(down, s, w[1])
  <2>1. 0 \in 0..(o - 1) /\ 0 + 1 = 1
    BY <1>4
  <2> QED BY <1>5, <2>1, Zenon DEF WalkSteps
<1>7. f[1].left = 0
  BY <1>3, <1>6 DEF ShortOf
<1>8. WalkOver(down, s, w) = f[1]
  BY <1>4, <1>5, <1>7, IdleAfterwards
<1> QED BY <1>2, <1>3, <1>6, <1>8, Zenon DEF s

(* The answer of the endpoint, given on the row as it is. *)
RowAnswer(down, in, slippage) == SwapQuote(down, quotedRow, {}, in, slippage)
RowQuote(down, in, slippage) ==
  [kind |-> "api", down |-> down, in |-> in, slippage |-> slippage,
   from |-> quotedRow, result |-> RowAnswer(down, in, slippage)]

LEMMA SameEndSameQuote ==
  ASSUME NEW down, NEW a, NEW S, NEW b, NEW T, NEW in, NEW slippage, a.liquidity = b.liquidity,
         EndOf(down, a, S, in) = EndOf(down, b, T, in)
  PROVE  SwapQuote(down, a, S, in, slippage) = SwapQuote(down, b, T, in, slippage)
<1> DEFINE QuoteAt(l, end) ==
      IF in <= 0 \/ l <= 0 \/ in <= FeeOf(in) \/ end.refused \/ end.left > 0 THEN Refused
      ELSE [refused |-> FALSE, out |-> end.out, stop |-> end.price, fee |-> FeeOf(in),
            minimum |-> (end.out * (10000 - slippage)) \div 10000]
<1>1. SwapQuote(down, a, S, in, slippage) = QuoteAt(a.liquidity, EndOf(down, a, S, in))
  BY DEF SwapQuote, StartOf, EndOf
<1>2. SwapQuote(down, b, T, in, slippage) = QuoteAt(b.liquidity, EndOf(down, b, T, in))
  BY DEF SwapQuote, StartOf, EndOf
<1> HIDE DEF QuoteAt
<1> QED BY <1>1, <1>2, Zenon

LEMMA EndpointDoes ==
  ASSUME BookOk, PriceOk, NEW down \in BOOLEAN, NEW in \in Nat, NEW slippage, quote = RowQuote(down, in, slippage)
  PROVE  EndpointAgrees
<1> DEFINE res == RowAnswer(down, in, slippage)
           stop == PriceAfterIn(down, sqrtPrice, OnChain.liquidity, in - FeeOf(in))
<1>1. /\ quote.down = down /\ quote.in = in /\ quote.slippage = slippage /\ quote.from.price = quotedRow.price
      /\ quote.result = res
  BY DEF RowQuote
<1>2. ASSUME ~res.refused, quotedRow.price = sqrtPrice, quotedRow.liquidity = OnChain.liquidity,
             \A t \in Initialised : Ratio[t] \notin Between(res.stop, quotedRow.price)
      PROVE  SwapQuote(down, OnChain, BookTicks, in, slippage) = res
  <2>1. OnChain.price = sqrtPrice /\ OnChain.liquidity \in Int /\ sqrtPrice \in Nat \ {0} /\ sqrtPrice \in QuotePrices
    BY OnChainTyped DEF PriceOk
  <2>2. ~SwapQuote(down, quotedRow, {}, in, slippage).refused /\ quotedRow.liquidity \in Int
    BY <1>2, <2>1 DEF RowAnswer
  <2>3. /\ in - FeeOf(in) \in Nat \ {0} /\ quotedRow.liquidity \in Nat \ {0}
        /\ ~EndOf(down, quotedRow, {}, in).refused
        /\ SwapQuote(down, quotedRow, {}, in, slippage) =
              [refused |-> FALSE, out |-> EndOf(down, quotedRow, {}, in).out, stop |-> EndOf(down, quotedRow, {}, in).price,
               fee |-> FeeOf(in), minimum |-> (EndOf(down, quotedRow, {}, in).out * (10000 - slippage)) \div 10000]
    BY <2>2, QuoteIs
  <2>4. PICK l, k : l = OnChain.liquidity /\ k = in - FeeOf(in) /\ l \in Nat \ {0} /\ k \in Nat \ {0}
    BY <1>2, <2>3
  <2>5. EndOf(down, quotedRow, {}, in) = WalkOver(down, StartOf(sqrtPrice, k, l), Targets(down, {}, TickOf(sqrtPrice)))
    BY <1>2, <2>4, Zenon DEF EndOf
  <2>6. EndOf(down, OnChain, BookTicks, in) = WalkOver(down, StartOf(sqrtPrice, k, l), Targets(down, BookTicks, TickOf(sqrtPrice)))
    BY <2>1, <2>4, Zenon DEF EndOf
  <2>7. ~WalkOver(down, StartOf(sqrtPrice, k, l), Targets(down, {}, TickOf(sqrtPrice))).refused
    BY <2>3, <2>5
  <2>8. /\ WalkOver(down, StartOf(sqrtPrice, k, l), Targets(down, {}, TickOf(sqrtPrice))) = ShortOf(down, sqrtPrice, l, k)
        /\ ~(k >= AmountToReach(down, Ratio[EndOfScale(down).tick], sqrtPrice, l))
    <3>0. down \in BOOLEAN
      OBVIOUS
    <3>1. PICK x \in Nat \ {0}, i \in Nat \ {0}, m \in Nat \ {0} : x = sqrtPrice /\ i = k /\ m = l
      BY <2>1, <2>4
    <3>2. ~WalkOver(down, StartOf(x, i, m), Targets(down, {}, TickOf(x))).refused
      BY <2>7, <3>1, Zenon
    <3>3. /\ WalkOver(down, StartOf(x, i, m), Targets(down, {}, TickOf(x))) = ShortOf(down, x, m, i)
          /\ ~(i >= AmountToReach(down, Ratio[EndOfScale(down).tick], x, m))
      BY ONLY <3>0, <3>2, BareWalk
    <3> QED BY <3>1, <3>3, Zenon
  <2>9. res.stop = PriceAfterIn(down, sqrtPrice, l, k)
    <3>1. res.stop = EndOf(down, quotedRow, {}, in).price
      BY <2>3 DEF RowAnswer
    <3>2. ShortOf(down, sqrtPrice, l, k).price = PriceAfterIn(down, sqrtPrice, l, k)
      BY DEF ShortOf
    <3> QED BY ONLY <2>5, <2>8, <3>1, <3>2
  <2>10. \A t \in Initialised : Ratio[t] \notin Between(PriceAfterIn(down, sqrtPrice, l, k), sqrtPrice)
    BY <1>2, <2>9, Zenon
  <2>11. WalkOver(down, StartOf(sqrtPrice, k, l), Targets(down, BookTicks, TickOf(sqrtPrice))) = ShortOf(down, sqrtPrice, l, k)
    BY <2>1, <2>4, <2>8, <2>10, WalkUntilTick
  <2>12. EndOf(down, OnChain, BookTicks, in) = EndOf(down, quotedRow, {}, in)
    BY <2>5, <2>6, <2>8, <2>11, Zenon
  <2>13. SwapQuote(down, OnChain, BookTicks, in, slippage) = SwapQuote(down, quotedRow, {}, in, slippage)
    BY <1>2, <2>12, SameEndSameQuote
  <2> QED BY <2>13 DEF RowAnswer
<1> HIDE DEF res
<1> QED BY ONLY <1>1, <1>2 DEF EndpointAgrees

(* The quote given last is one of the book as it is, or of the row as it is; and the row is the chain's, *)
(* or the job that makes it so is still to run, or two jobs ran in the other order.                      *)
QuoteFits ==
  \/ quote = NoQuote
  \/ \E down \in BOOLEAN, in \in Nat, slippage \in Slippages :
       quote = BookQuote(down, in, slippage) \/ quote = RowQuote(down, in, slippage)
RowFollows ==
  /\ swapNo \in Nat
  /\ quotedRow.no \in 0..swapNo /\ (quotedRow.no = swapNo => quotedRow.price = sqrtPrice)
  /\ \A e \in swapJobs : e.no \in 1..swapNo /\ (e.no = swapNo => e.price = sqrtPrice)
  /\ misordered \/ quotedRow.no = swapNo \/ \E e \in swapJobs : e.no = swapNo
LadderIInv == BookOk /\ PriceOk /\ RowFollows /\ QuoteFits

LEMMA AmountsTyped == AmountsIn \subseteq Nat
BY ONLY QuoteAssumption

LEMMA LadderStarts == LadderInit => LadderIInv
<1> SUFFICES ASSUME LadderInit PROVE LadderIInv
  OBVIOUS
<1>1. BookOk
  BY FS_EmptySet DEF LadderInit, BookOk
<1>2. PriceOk /\ QuoteFits
  BY DEF LadderInit, PriceOk, QuoteFits
<1>3. RowFollows
  BY DEF LadderInit, RowFollows
<1> QED BY <1>1, <1>2, <1>3 DEF LadderIInv

LEMMA LadderMeans == LadderIInv => QuotesAgree
<1> SUFFICES ASSUME LadderIInv PROVE QuotesAgree
  OBVIOUS
<1>1. BookOk /\ PriceOk /\ RowFollows /\ QuoteFits
  BY DEF LadderIInv
<1>2. RowSettles
  BY <1>1 DEF RowFollows, RowSettles
<1>3. PromisesWhatIsHeld /\ EndpointAgrees /\ HoldingsTellTheMove
  <2>1. CASE quote = NoQuote
    BY <2>1 DEF NoQuote, PromisesWhatIsHeld, EndpointAgrees, HoldingsTellTheMove
  <2>2. ASSUME NEW down \in BOOLEAN, NEW in \in Nat, NEW slippage \in Slippages, quote = BookQuote(down, in, slippage)
        PROVE  PromisesWhatIsHeld /\ EndpointAgrees /\ HoldingsTellTheMove
    <3>1. quote.kind = "sdk"
      BY <2>2 DEF BookQuote
    <3>2. EndpointAgrees
      BY <3>1 DEF EndpointAgrees
    <3>3. PromisesWhatIsHeld
      BY <1>1, <2>2, PromisesHeld
    <3>4. HoldingsTellTheMove
      BY <1>1, <2>2, HoldingsTold
    <3> QED BY <3>2, <3>3, <3>4
  <2>3. ASSUME NEW down \in BOOLEAN, NEW in \in Nat, NEW slippage \in Slippages, quote = RowQuote(down, in, slippage)
        PROVE  PromisesWhatIsHeld /\ EndpointAgrees /\ HoldingsTellTheMove
    <3>1. quote.kind = "api"
      BY <2>3 DEF RowQuote
    <3>2. PromisesWhatIsHeld /\ HoldingsTellTheMove
      BY <3>1 DEF PromisesWhatIsHeld, HoldingsTellTheMove
    <3>3. EndpointAgrees
      BY <1>1, <2>3, EndpointDoes
    <3> QED BY <3>2, <3>3
  <2> QED BY <1>1, <2>1, <2>2, <2>3, Zenon DEF QuoteFits
<1>4. NothingGained
  BY <1>1, NothingIsGained
<1> QED BY <1>2, <1>3, <1>4, EstimatesSound, TicksDoComeBack DEF QuotesAgree, QuoteInv

LEMMA AnswersStand ==
  ASSUME UNCHANGED <<book, sqrtPrice, quotedRow>>
  PROVE  \A down, in, slippage : /\ BookQuote(down, in, slippage)' = BookQuote(down, in, slippage)
                                 /\ RowQuote(down, in, slippage)' = RowQuote(down, in, slippage)
BY DEF BookQuote, BookAnswer, RowQuote, RowAnswer, OnChain, LiquidityAt, BookTicks, Initialised, Net

LEMMA LadderSteps == LadderIInv /\ [LadderNext]_ladderVars => LadderIInv'
<1> SUFFICES ASSUME LadderIInv, [LadderNext]_ladderVars PROVE LadderIInv'
  OBVIOUS
<1>0. BookOk /\ PriceOk /\ RowFollows /\ QuoteFits
  BY DEF LadderIInv
<1>1. ASSUME NEW r \in QuoteRanges, Deposit(r) \/ Withdraw(r) PROVE LadderIInv'
  <2>1. BookOk'
    <3>1. book' = book \cup {r} \/ book' = book \ {r}
      BY <1>1 DEF Deposit, Withdraw
    <3>2. IsFiniteSet(book \cup {r}) /\ IsFiniteSet(book \ {r}) /\ book \subseteq QuoteRanges
      BY <1>0, FS_AddElement, FS_RemoveElement DEF BookOk
    <3> QED BY <3>1, <3>2 DEF BookOk
  <2>2. PriceOk' /\ QuoteFits'
    BY <1>0, <1>1 DEF Deposit, Withdraw, Quiet, PriceOk, QuoteFits
  <2>3. RowFollows'
    BY <1>0, <1>1 DEF Deposit, Withdraw, RowFollows
  <2> QED BY <2>1, <2>2, <2>3 DEF LadderIInv
<1>2. ASSUME NEW p \in QuotePrices, SwapOnChain(p) PROVE LadderIInv'
  <2>1. BookOk'
    BY <1>0, <1>2 DEF SwapOnChain, BookOk
  <2>2. PriceOk' /\ QuoteFits'
    BY <1>2 DEF SwapOnChain, Quiet, PriceOk, QuoteFits
  <2>3. RowFollows'
    <3>1. PICK e : e = [no |-> swapNo + 1, price |-> p, liquidity |-> LiquidityAt(TickOf(p))]
      OBVIOUS
    <3>2. e.no = swapNo + 1 /\ e.price = p
      BY <3>1
    <3>3. /\ swapNo' = swapNo + 1 /\ sqrtPrice' = p /\ swapJobs' = swapJobs \cup {e}
          /\ quotedRow' = quotedRow /\ misordered' = misordered
      BY <1>2, <3>1 DEF SwapOnChain
    <3>4. swapNo \in Nat /\ quotedRow.no \in 0..swapNo /\ \A x \in swapJobs : x.no \in 1..swapNo
      BY <1>0 DEF RowFollows
    <3> QED BY ONLY <3>2, <3>3, <3>4 DEF RowFollows
  <2> QED BY <2>1, <2>2, <2>3 DEF LadderIInv
<1>3. ASSUME NEW e \in swapJobs, ProjectSwap(e) PROVE LadderIInv'
  <2>1. BookOk' /\ PriceOk' /\ QuoteFits'
    BY <1>0, <1>3 DEF ProjectSwap, Quiet, BookOk, PriceOk, QuoteFits
  <2>2. RowFollows'
    <3>1. /\ swapJobs' = swapJobs \ {e} /\ quotedRow' = e /\ swapNo' = swapNo /\ sqrtPrice' = sqrtPrice
          /\ (misordered' <=> (misordered \/ e.no < quotedRow.no))
      BY <1>3 DEF ProjectSwap
    <3>2. /\ swapNo \in Nat /\ quotedRow.no \in 0..swapNo
          /\ \A x \in swapJobs : x.no \in 1..swapNo /\ (x.no = swapNo => x.price = sqrtPrice)
          /\ misordered \/ quotedRow.no = swapNo \/ \E x \in swapJobs : x.no = swapNo
      BY <1>0 DEF RowFollows
    <3>3. e.no \in 1..swapNo /\ (e.no = swapNo => e.price = sqrtPrice)
      BY <3>2
    <3>4. misordered' \/ e.no = swapNo \/ \E x \in swapJobs \ {e} : x.no = swapNo
      <4>1. CASE misordered
        BY <3>1, <4>1
      <4>2. CASE quotedRow.no = swapNo
        BY <3>1, <3>2, <3>3, <4>2
      <4>3. CASE \E x \in swapJobs : x.no = swapNo
        BY <4>3
      <4> QED BY <3>2, <4>1, <4>2, <4>3
    <3>5. /\ swapNo' \in Nat /\ quotedRow'.no \in 0..swapNo' /\ (quotedRow'.no = swapNo' => quotedRow'.price = sqrtPrice')
          /\ \A x \in swapJobs' : x.no \in 1..swapNo' /\ (x.no = swapNo' => x.price = sqrtPrice')
      BY <3>1, <3>2, <3>3
    <3>6. misordered' \/ quotedRow'.no = swapNo' \/ \E x \in swapJobs' : x.no = swapNo'
      BY <3>1, <3>4, Zenon
    <3> QED BY <3>5, <3>6 DEF RowFollows
  <2> QED BY <2>1, <2>2 DEF LadderIInv
<1>4. ASSUME UNCHANGED <<book, sqrtPrice, swapJobs, quotedRow, swapNo, misordered>>
      PROVE  BookOk' /\ PriceOk' /\ RowFollows'
  BY <1>0, <1>4 DEF BookOk, PriceOk, RowFollows
<1>5. ASSUME NEW down \in BOOLEAN, NEW n \in AmountsIn, NEW s \in Slippages, QuoteOfBook(down, n, s) PROVE LadderIInv'
  <2>1. UNCHANGED <<book, sqrtPrice, swapJobs, quotedRow, swapNo, misordered>> /\ quote' = BookQuote(down, n, s)
    BY <1>5 DEF QuoteOfBook, GiveQuote, BookQuote, BookAnswer
  <2>2. BookQuote(down, n, s)' = BookQuote(down, n, s)
    BY <2>1, AnswersStand
  <2>3. n \in Nat
    BY AmountsTyped
  <2>4. QuoteFits'
    BY <2>1, <2>2, <2>3 DEF QuoteFits
  <2> QED BY <1>4, <2>1, <2>4 DEF LadderIInv
<1>6. ASSUME NEW down \in BOOLEAN, NEW n \in AmountsIn, NEW s \in Slippages, NEW part \in {0, 9}, GetQuote(down, 10 * n + part, s)
      PROVE  LadderIInv'
  <2>1. PICK i : i = ToBaseUnits(10 * n + part)
    OBVIOUS
  <2>2. UNCHANGED <<book, sqrtPrice, swapJobs, quotedRow, swapNo, misordered>> /\ quote' = RowQuote(down, i, s)
    BY <1>6, <2>1 DEF GetQuote, GiveQuote, FindPoolById, GetPoolTicks, TickRows, RowQuote, RowAnswer
  <2>3. RowQuote(down, i, s)' = RowQuote(down, i, s)
    BY <2>2, AnswersStand
  <2>4. i \in Nat
    <3>1. n \in Nat
      BY AmountsTyped
    <3> QED BY <2>1, <3>1 DEF ToBaseUnits
  <2>5. QuoteFits'
    BY <2>2, <2>3, <2>4 DEF QuoteFits
  <2> QED BY <1>4, <2>2, <2>5 DEF LadderIInv
<1>7. CASE UNCHANGED ladderVars
  <2>1. UNCHANGED <<book, sqrtPrice, swapJobs, quotedRow, swapNo, misordered>> /\ quote' = quote
    BY <1>7 DEF ladderVars
  <2>2. QuoteFits'
    BY <1>0, <2>1, AnswersStand DEF QuoteFits
  <2> QED BY <1>4, <2>1, <2>2 DEF LadderIInv
<1> QED BY <1>1, <1>2, <1>3, <1>5, <1>6, <1>7 DEF LadderNext

(* What a quote says, whenever it is given and whatever moves between: an answer over the pool's ticks *)
(* pays no more than the positions hold between its two prices and no more than they lose by           *)
(* position-math.ts, the endpoint's answer is that one when it meets no tick, the row settles with the  *)
(* chain, the estimates invert each other, and nothing is gained by burning and buying back: for any    *)
(* ranges, prices, amounts, fee and map of ticks (quote.ts, position-math.ts, swaps.service.ts).       *)
THEOREM QuotesHold == LadderInit /\ [][LadderNext]_ladderVars => []QuotesAgree
<1> QED BY LadderStarts, LadderSteps, LadderMeans, PTL

LEMMA LadderStep == [Next]_vars => [LadderNext]_ladderVars
BY DEF Next, vars, readVars, OnRequest, OnJob, OnRead, OnAdmin, Rate, Auth, Flight, Fanout, Candle, Stats, Token, Send,
       Quote, Page, Views, Status, LagOf, Admin

(* The same where the quotes are served beside the other services. *)
THEOREM QuotesSound == Spec => []QuotesAgree
<1>1. Init => LadderIInv
  BY LadderStarts DEF Init
<1>2. LadderIInv /\ [Next]_vars => LadderIInv'
  BY LadderStep, LadderSteps
<1> QED BY <1>1, <1>2, LadderMeans, PTL DEF Spec
=============================================================================
