-------------------------------- MODULE Sums --------------------------------
(***************************************************************************)
(* Sums over finite sets, the induction they need, and some arithmetic.    *)
(* The provers cannot instantiate an induction theorem, so what is shown   *)
(* by induction is shown for the least counterexample, which exists        *)
(* because < is well-founded on Nat.                                       *)
(***************************************************************************)
EXTENDS Integers, FiniteSets, FiniteSetsExt, FiniteSetTheorems, WellFoundedInduction, TLAPS

LEMMA LeastNatural ==
    ASSUME NEW T, T \subseteq Nat, T # {}
    PROVE  \E n \in T : \A m \in T : n <= m
  <1> DEFINE R == OpToRel(<, Nat)
  <1>1. IsWellFoundedOn(R, Nat)
    BY NatLessThanWellFounded
  <1>2. \A m, n \in Nat : <<m, n>> \in R <=> m < n
    BY DEF OpToRel
  <1> HIDE DEF R
  <1>3. PICK x \in T : \A y \in T : ~ (<<y, x>> \in R)
    BY <1>1, WFMin
  <1>4. \A y \in T : ~(y < x)
    BY <1>2, <1>3
  <1>5. \A y \in T : x <= y
    BY <1>4
  <1> QED BY <1>5

(* Of finite sets that are wrong one is the smallest. *)
LEMMA SmallestSet ==
    ASSUME NEW S, IsFiniteSet(S), NEW Bad, Bad \subseteq SUBSET S, Bad # {}
    PROVE  \E X \in Bad : \A x \in X : X \ {x} \notin Bad
  <1>1. \A X \in Bad : IsFiniteSet(X) /\ Cardinality(X) \in Nat
    BY FS_Subset, FS_CardinalityType
  <1> DEFINE Sizes == {Cardinality(X) : X \in Bad}
  <1>2. PICK n \in Sizes : \A m \in Sizes : n <= m
    <2>1. Sizes \subseteq Nat /\ Sizes # {}
      BY <1>1
    <2> HIDE DEF Sizes
    <2> QED BY <2>1, LeastNatural
  <1>3. PICK X \in Bad : n = Cardinality(X)
    BY <1>2
  <1>4. ASSUME NEW x \in X, X \ {x} \in Bad PROVE FALSE
    <2>1. Cardinality(X \ {x}) = Cardinality(X) - 1
      BY <1>1, <1>3, <1>4, FS_RemoveElement
    <2>2. n <= Cardinality(X \ {x})
      BY <1>2, <1>4
    <2> QED BY <2>1, <2>2, <1>1, <1>3
  <1> QED BY <1>3, <1>4

(* The sum of v over the members of S. *)
SumOf(v, S) == MapThenSumSet(LAMBDA x : v[x], S)
First(s) == CHOOSE x \in s : TRUE
SumsUpTo(v, D, iter) ==
    iter = [s \in D |-> IF s = {} THEN 0 ELSE v[First(s)] + iter[s \ {First(s)}]]

Sums(v, S, iter) == SumsUpTo(v, SUBSET S, iter)

LEMMA SumUnfolds ==
    ASSUME NEW v, NEW S
    PROVE  SumOf(v, S) = (CHOOSE iter : Sums(v, S, iter))[S]
  BY DEF SumOf, Sums, SumsUpTo, First, MapThenSumSet, MapThenFoldSet

LEMMA FirstIsMember == ASSUME NEW s, s # {} PROVE First(s) \in s
  BY DEF First

(* The subsets of at most n elements. *)
SetsUpTo(S, n) == {s \in SUBSET S : Cardinality(s) <= n}

LEMMA SumExtends ==
    ASSUME NEW v, NEW S, IsFiniteSet(S), NEW n \in Nat, NEW g, SumsUpTo(v, SetsUpTo(S, n), g)
    PROVE  \E h : SumsUpTo(v, SetsUpTo(S, n + 1), h)
  <1> DEFINE D == SetsUpTo(S, n)
             E == SetsUpTo(S, n + 1)
             h == [s \in E |-> IF s = {} THEN 0 ELSE v[First(s)] + g[s \ {First(s)}]]
  <1>1. \A s \in E : s # {} => s \ {First(s)} \in D /\ s \ {First(s)} \in E
    <2> TAKE s \in E
    <2> HAVE s # {}
    <2>1. IsFiniteSet(s) /\ Cardinality(s) \in Nat /\ Cardinality(s) <= n + 1 /\ s \subseteq S
      BY FS_Subset, FS_CardinalityType DEF SetsUpTo
    <2>2. Cardinality(s \ {First(s)}) = Cardinality(s) - 1
      BY <2>1, FirstIsMember, FS_RemoveElement
    <2> QED BY <2>1, <2>2 DEF SetsUpTo
  <1>2. \A s \in D : g[s] = IF s = {} THEN 0 ELSE v[First(s)] + g[s \ {First(s)}]
    BY DEF SumsUpTo
  <1>3. D \subseteq E
    <2> SUFFICES ASSUME NEW s \in D PROVE s \in E
      OBVIOUS
    <2>1. Cardinality(s) \in Nat /\ Cardinality(s) <= n /\ s \subseteq S
      BY FS_Subset, FS_CardinalityType DEF SetsUpTo
    <2> QED BY <2>1 DEF SetsUpTo
  <1> HIDE DEF D, E
  <1>4. \A s \in D : h[s] = g[s]
    BY <1>2, <1>3
  <1>5. \A s \in E : s # {} => h[s \ {First(s)}] = g[s \ {First(s)}]
    BY <1>1, <1>4
  <1>6. h = [s \in E |-> IF s = {} THEN 0 ELSE v[First(s)] + h[s \ {First(s)}]]
    BY <1>5
  <1> QED BY <1>6 DEF SumsUpTo, E

LEMMA SumExists ==
    ASSUME NEW v, NEW S, IsFiniteSet(S)
    PROVE  \E iter : Sums(v, S, iter)
  <1> DEFINE Bad == {n \in Nat : ~ \E h : SumsUpTo(v, SetsUpTo(S, n), h)}
  <1>1. CASE Bad # {}
    <2>1. PICK n \in Bad : \A m \in Bad : n <= m
      <3>1. Bad \subseteq Nat
        OBVIOUS
      <3> HIDE DEF Bad
      <3> QED BY <3>1, <1>1, LeastNatural
    <2>2. CASE n = 0
      <3>1. SetsUpTo(S, 0) = {{}}
        <4>1. {} \in SetsUpTo(S, 0)
          BY FS_EmptySet DEF SetsUpTo
        <4>2. ASSUME NEW s \in SetsUpTo(S, 0) PROVE s = {}
          <5>1. IsFiniteSet(s) /\ Cardinality(s) \in Nat /\ Cardinality(s) <= 0
            BY FS_Subset, FS_CardinalityType DEF SetsUpTo
          <5>2. Cardinality(s) = 0
            BY <5>1
          <5> QED BY <5>1, <5>2, FS_EmptySet
        <4> QED BY <4>1, <4>2
      <3>2. SumsUpTo(v, SetsUpTo(S, 0), [s \in {{}} |-> 0])
        BY <3>1 DEF SumsUpTo
      <3> QED BY <2>1, <2>2, <3>2
    <2>3. CASE n # 0
      <3>1. n - 1 \in Nat /\ (n - 1) + 1 = n
        BY <2>3
      <3>2. n - 1 \notin Bad
        BY <2>1, <3>1
      <3>3. PICK g : SumsUpTo(v, SetsUpTo(S, n - 1), g)
        BY <3>1, <3>2
      <3>4. \E h : SumsUpTo(v, SetsUpTo(S, (n - 1) + 1), h)
        BY <3>1, <3>3, SumExtends
      <3> QED BY <2>1, <3>1, <3>4
    <2> QED BY <2>2, <2>3
  <1>2. CASE Bad = {}
    <2>1. Cardinality(S) \in Nat
      BY FS_CardinalityType
    <2>2. \E h : SumsUpTo(v, SetsUpTo(S, Cardinality(S)), h)
      BY <1>2, <2>1
    <2>3. SetsUpTo(S, Cardinality(S)) = SUBSET S
      BY FS_Subset DEF SetsUpTo
    <2> QED BY <2>2, <2>3 DEF Sums
  <1> QED BY <1>1, <1>2

(* Two such sums agree wherever both are defined. *)
LEMMA SumsAgree ==
    ASSUME NEW v, NEW S, IsFiniteSet(S), NEW T, T \subseteq S,
           NEW a, Sums(v, S, a), NEW b, Sums(v, T, b)
    PROVE  a[T] = b[T]
  <1> DEFINE Bad == {X \in SUBSET T : a[X] # b[X]}
  <1> SUFFICES ASSUME Bad # {} PROVE FALSE
    OBVIOUS
  <1>1. PICK X \in Bad : \A x \in X : X \ {x} \notin Bad
    <2>1. Bad \subseteq SUBSET T /\ IsFiniteSet(T)
      BY FS_Subset
    <2> HIDE DEF Bad
    <2> QED BY <2>1, SmallestSet
  <1>2. /\ a[X] = IF X = {} THEN 0 ELSE v[First(X)] + a[X \ {First(X)}]
        /\ b[X] = IF X = {} THEN 0 ELSE v[First(X)] + b[X \ {First(X)}]
    <2>1. X \in SUBSET S /\ X \in SUBSET T
      OBVIOUS
    <2> QED BY <2>1 DEF Sums, SumsUpTo
  <1>3. X # {}
    BY <1>2
  <1>4. X \ {First(X)} \in SUBSET T /\ X \ {First(X)} \notin Bad
    BY <1>1, <1>3, FirstIsMember
  <1> QED BY <1>2, <1>3, <1>4

LEMMA SumIter ==
    ASSUME NEW v, NEW S, IsFiniteSet(S)
    PROVE  \E a : Sums(v, S, a) /\ SumOf(v, S) = a[S]
  <1> DEFINE it == CHOOSE iter : Sums(v, S, iter)
  <1>1. Sums(v, S, it)
    BY SumExists
  <1>2. SumOf(v, S) = it[S]
    BY SumUnfolds
  <1> HIDE DEF it
  <1> QED BY <1>1, <1>2

LEMMA SumEmpty == ASSUME NEW v PROVE SumOf(v, {}) = 0
  <1>1. PICK a : Sums(v, {}, a) /\ SumOf(v, {}) = a[{}]
    BY SumIter, FS_EmptySet
  <1> QED BY <1>1 DEF Sums, SumsUpTo

LEMMA SumFirst ==
    ASSUME NEW v, NEW S, IsFiniteSet(S), S # {}
    PROVE  SumOf(v, S) = v[First(S)] + SumOf(v, S \ {First(S)})
  <1>1. PICK T \in SUBSET S : T = S \ {First(S)}
    OBVIOUS
  <1>2. IsFiniteSet(T)
    BY FS_Subset
  <1>3. PICK a : Sums(v, S, a) /\ SumOf(v, S) = a[S]
    BY SumIter
  <1>4. PICK b : Sums(v, T, b) /\ SumOf(v, T) = b[T]
    BY <1>2, SumIter
  <1>5. a[S] = v[First(S)] + a[T]
    BY <1>1, <1>3 DEF Sums, SumsUpTo
  <1>6. a[T] = b[T]
    BY <1>1, <1>3, <1>4, SumsAgree
  <1> QED BY <1>1, <1>3, <1>4, <1>5, <1>6

LEMMA SumTyped ==
    ASSUME NEW v, NEW S, IsFiniteSet(S), NEW N \in {Nat, Int}, \A x \in S : v[x] \in N
    PROVE  SumOf(v, S) \in N
  <1> DEFINE Bad == {X \in SUBSET S : SumOf(v, X) \notin N}
  <1> SUFFICES ASSUME Bad # {} PROVE FALSE
    OBVIOUS
  <1>1. PICK X \in Bad : \A x \in X : X \ {x} \notin Bad
    <2>1. Bad \subseteq SUBSET S
      OBVIOUS
    <2> HIDE DEF Bad
    <2> QED BY <2>1, SmallestSet
  <1>2. X # {} /\ IsFiniteSet(X) /\ X \in SUBSET S
    <2>1. SumOf(v, {}) \in N
      BY SumEmpty
    <2> QED BY <2>1, FS_Subset
  <1>3. X \ {First(X)} \in SUBSET S /\ X \ {First(X)} \notin Bad /\ First(X) \in S
    BY <1>1, <1>2, FirstIsMember
  <1>4. SumOf(v, X \ {First(X)}) \in N /\ v[First(X)] \in N
    BY <1>3
  <1>5. SumOf(v, X) = v[First(X)] + SumOf(v, X \ {First(X)})
    BY <1>2, SumFirst
  <1> QED BY <1>4, <1>5

(* Any member may be taken out first. *)
LEMMA SumTakes ==
    ASSUME NEW v, NEW S, IsFiniteSet(S), \A x \in S : v[x] \in Int, NEW y \in S
    PROVE  SumOf(v, S) = v[y] + SumOf(v, S \ {y})
  <1> DEFINE Bad == {X \in SUBSET S : \E x \in X :
                       SumOf(v, X) # v[x] + SumOf(v, X \ {x})}
  <1> SUFFICES ASSUME Bad # {} PROVE FALSE
    <2>1. S \notin Bad
      OBVIOUS
    <2> QED BY <2>1
  <1>1. PICK X \in Bad : \A x \in X : X \ {x} \notin Bad
    <2>1. Bad \subseteq SUBSET S
      OBVIOUS
    <2> HIDE DEF Bad
    <2> QED BY <2>1, SmallestSet
  <1>2. PICK x \in X : SumOf(v, X) # v[x] + SumOf(v, X \ {x})
    BY <1>1
  <1>3. PICK c \in X : c = First(X)
    BY <1>2, FirstIsMember
  <1>4. X \in SUBSET S /\ IsFiniteSet(X) /\ IsFiniteSet(X \ {x})
    BY <1>1, FS_Subset
  <1>5. SumOf(v, X) = v[c] + SumOf(v, X \ {c})
    BY <1>2, <1>3, <1>4, SumFirst
  <1>6. x # c
    BY <1>2, <1>5
  <1>7. X \ {c} \in SUBSET S /\ X \ {c} \notin Bad /\ x \in X \ {c}
    BY <1>1, <1>4, <1>6
  <1>8. SumOf(v, X \ {c}) = v[x] + SumOf(v, (X \ {c}) \ {x})
    BY <1>7
  <1>9. X \ {x} \in SUBSET S /\ X \ {x} \notin Bad /\ c \in X \ {x}
    BY <1>1, <1>4, <1>6
  <1>10. SumOf(v, X \ {x}) = v[c] + SumOf(v, (X \ {x}) \ {c})
    BY <1>9
  <1>11. (X \ {c}) \ {x} = (X \ {x}) \ {c}
    OBVIOUS
  <1>12. PICK r \in Int : r = SumOf(v, (X \ {x}) \ {c})
    <2>1. \A z \in (X \ {x}) \ {c} : v[z] \in Int
      BY <1>4
    <2>2. IsFiniteSet((X \ {x}) \ {c})
      BY <1>4, FS_Subset
    <2> QED BY <2>1, <2>2, SumTyped
  <1>13. v[c] \in Int /\ v[x] \in Int
    BY <1>4
  <1>14. \A p, q, s \in Int : p + (q + s) = q + (p + s)
    OBVIOUS
  <1>15. v[c] + (v[x] + r) = v[x] + (v[c] + r)
    BY <1>12, <1>13, <1>14
  <1> QED BY <1>2, <1>5, <1>8, <1>10, <1>11, <1>12, <1>15

(* The sum depends on nothing but the values of its members. *)
LEMMA SumSame ==
    ASSUME NEW v, NEW w, NEW S, IsFiniteSet(S), \A x \in S : v[x] = w[x]
    PROVE  SumOf(v, S) = SumOf(w, S)
  <1> DEFINE Bad == {X \in SUBSET S : SumOf(v, X) # SumOf(w, X)}
  <1> SUFFICES ASSUME Bad # {} PROVE FALSE
    OBVIOUS
  <1>1. PICK X \in Bad : \A x \in X : X \ {x} \notin Bad
    <2>1. Bad \subseteq SUBSET S
      OBVIOUS
    <2> HIDE DEF Bad
    <2> QED BY <2>1, SmallestSet
  <1>2. X # {} /\ IsFiniteSet(X) /\ X \in SUBSET S
    BY <1>1, SumEmpty, FS_Subset
  <1>3. X \ {First(X)} \in SUBSET S /\ X \ {First(X)} \notin Bad /\ First(X) \in S
    BY <1>1, <1>2, FirstIsMember
  <1>4. /\ SumOf(v, X) = v[First(X)] + SumOf(v, X \ {First(X)})
        /\ SumOf(w, X) = w[First(X)] + SumOf(w, X \ {First(X)})
    BY <1>2, SumFirst
  <1>5. v[First(X)] = w[First(X)]
    BY <1>3
  <1> QED BY <1>1, <1>3, <1>4, <1>5

(* Zeros add up to zero, and one of them may be left out. *)
LEMMA SumZero ==
    ASSUME NEW v, NEW S, IsFiniteSet(S), \A x \in S : v[x] = 0
    PROVE  SumOf(v, S) = 0
  <1> DEFINE Bad == {X \in SUBSET S : SumOf(v, X) # 0}
  <1> SUFFICES ASSUME Bad # {} PROVE FALSE
    OBVIOUS
  <1>1. PICK X \in Bad : \A x \in X : X \ {x} \notin Bad
    <2>1. Bad \subseteq SUBSET S
      OBVIOUS
    <2> HIDE DEF Bad
    <2> QED BY <2>1, SmallestSet
  <1>2. X # {} /\ IsFiniteSet(X) /\ X \in SUBSET S
    BY SumEmpty, FS_Subset
  <1>3. X \ {First(X)} \in SUBSET S /\ X \ {First(X)} \notin Bad /\ First(X) \in S
    BY <1>1, <1>2, FirstIsMember
  <1>4. SumOf(v, X) = v[First(X)] + SumOf(v, X \ {First(X)})
    BY <1>2, SumFirst
  <1> QED BY <1>3, <1>4

LEMMA SumSkips ==
    ASSUME NEW v, NEW S, IsFiniteSet(S), \A x \in S : v[x] \in Int, NEW y, v[y] = 0
    PROVE  SumOf(v, S) = SumOf(v, S \ {y})
  <1>1. CASE y \in S
    <2>1. SumOf(v, S) = v[y] + SumOf(v, S \ {y})
      BY <1>1, SumTakes
    <2>2. PICK T : T = S \ {y}
      OBVIOUS
    <2>3. SumOf(v, T) \in Int
      <3>1. IsFiniteSet(T) /\ \A x \in T : v[x] \in Int
        BY <2>2, FS_Subset
      <3> QED BY <3>1, SumTyped
    <2> QED BY <2>1, <2>2, <2>3
  <1>2. CASE y \notin S
    <2>1. S \ {y} = S
      BY <1>2
    <2> QED BY <2>1
  <1> QED BY <1>1, <1>2

(* What is zero may be left out. *)
LEMMA SumWithin ==
    ASSUME NEW v, NEW S, IsFiniteSet(S), \A x \in S : v[x] \in Int,
           NEW T, T \subseteq S, \A x \in S \ T : v[x] = 0
    PROVE  SumOf(v, S) = SumOf(v, T)
  <1> DEFINE Bad == {X \in SUBSET (S \ T) : SumOf(v, T \cup X) # SumOf(v, T)}
  <1> SUFFICES ASSUME Bad # {} PROVE FALSE
    <2>1. S \ T \notin Bad /\ T \cup (S \ T) = S
      OBVIOUS
    <2> QED BY <2>1
  <1>1. PICK X \in Bad : \A x \in X : X \ {x} \notin Bad
    <2>1. Bad \subseteq SUBSET (S \ T) /\ IsFiniteSet(S \ T)
      BY FS_Subset
    <2> HIDE DEF Bad
    <2> QED BY <2>1, SmallestSet
  <1>2. X \in SUBSET (S \ T) /\ SumOf(v, T \cup X) # SumOf(v, T)
    OBVIOUS
  <1>3. CASE X = {}
    <2>1. T \cup X = T
      BY <1>3
    <2> QED BY <1>2, <2>1
  <1>4. ASSUME NEW y \in X PROVE FALSE
    <2>1. X \ {y} \in SUBSET (S \ T) /\ X \ {y} \notin Bad
      BY <1>1, <1>2
    <2>2. SumOf(v, T \cup (X \ {y})) = SumOf(v, T)
      BY <2>1
    <2>3. PICK U : U = T \cup X
      OBVIOUS
    <2>4. IsFiniteSet(U) /\ v[y] = 0 /\ \A x \in U : v[x] \in Int
      BY <1>2, <2>3, FS_Subset
    <2>5. SumOf(v, U) = SumOf(v, U \ {y})
      BY <2>4, SumSkips
    <2>6. U \ {y} = T \cup (X \ {y})
      BY <1>2, <1>4, <2>3
    <2> QED BY <1>2, <2>2, <2>3, <2>5, <2>6
  <1> QED BY <1>3, <1>4

(* A member more. *)
LEMMA SumGains ==
    ASSUME NEW v, NEW S, IsFiniteSet(S), \A x \in S : v[x] \in Int, NEW y, y \notin S, v[y] \in Int
    PROVE  SumOf(v, S \cup {y}) = SumOf(v, S) + v[y]
  <1>1. PICK T : T = S \cup {y}
    OBVIOUS
  <1>2. IsFiniteSet(T) /\ y \in T /\ T \ {y} = S /\ \A x \in T : v[x] \in Int
    BY <1>1, FS_AddElement
  <1>3. SumOf(v, T) = v[y] + SumOf(v, T \ {y})
    BY <1>2, SumTakes
  <1>4. PICK r \in Int, x \in Int : r = SumOf(v, S) /\ x = v[y]
    BY SumTyped
  <1>5. x + r = r + x
    OBVIOUS
  <1> QED BY <1>1, <1>2, <1>3, <1>4, <1>5

(* One value changes. *)
LEMMA SumChanges ==
    ASSUME NEW v, NEW w, NEW S, IsFiniteSet(S), \A x \in S : v[x] \in Int, NEW y \in S,
           w[y] \in Int, \A x \in S \ {y} : w[x] = v[x]
    PROVE  SumOf(w, S) = SumOf(v, S) + (w[y] - v[y])
  <1>1. PICK T : T = S \ {y}
    OBVIOUS
  <1>2. IsFiniteSet(T) /\ \A x \in T : v[x] = w[x] /\ v[x] \in Int
    BY <1>1, FS_RemoveElement
  <1>3. SumOf(v, S) = v[y] + SumOf(v, T)
    BY <1>1, SumTakes
  <1>4. \A x \in S : w[x] \in Int
    OBVIOUS
  <1>5. SumOf(w, S) = w[y] + SumOf(w, T)
    BY <1>1, <1>4, SumTakes
  <1>6. SumOf(v, T) = SumOf(w, T)
    BY <1>2, SumSame
  <1>7. SumOf(v, T) \in Int
    BY <1>2, SumTyped
  <1>8. PICK r \in Int, x \in Int, z \in Int : r = SumOf(v, T) /\ x = v[y] /\ z = w[y]
    BY <1>7
  <1>9. z + r = (x + r) + (z - x)
    OBVIOUS
  <1> QED BY <1>3, <1>5, <1>6, <1>8, <1>9

(* Two values change. *)
LEMMA SumChangesTwo ==
    ASSUME NEW v, NEW w, NEW S, IsFiniteSet(S), \A x \in S : v[x] \in Int, \A x \in S : w[x] \in Int,
           NEW y \in S, NEW z \in S, y # z, \A x \in S \ {y, z} : w[x] = v[x]
    PROVE  SumOf(w, S) = SumOf(v, S) + ((w[y] - v[y]) + (w[z] - v[z]))
  <1>1. PICK u : u = [x \in S |-> IF x = y THEN w[y] ELSE v[x]]
    OBVIOUS
  <1>2. u[y] = w[y] /\ u[z] = v[z] /\ \A x \in S : u[x] \in Int
    BY <1>1
  <1>3. SumOf(u, S) = SumOf(v, S) + (u[y] - v[y])
    <2>1. \A x \in S \ {y} : u[x] = v[x]
      BY <1>1
    <2> QED BY <1>2, <2>1, SumChanges
  <1>4. SumOf(w, S) = SumOf(u, S) + (w[z] - u[z])
    <2>1. \A x \in S \ {z} : w[x] = u[x]
      BY <1>1
    <2> QED BY <1>2, <2>1, SumChanges
  <1>5. SumOf(v, S) \in Int
    BY SumTyped
  <1>6. PICK r \in Int, a \in Int, b \in Int : r = SumOf(v, S) /\ a = w[y] - v[y] /\ b = w[z] - v[z]
    BY <1>5
  <1>7. (r + a) + b = r + (a + b)
    OBVIOUS
  <1> QED BY <1>2, <1>3, <1>4, <1>6, <1>7

(* Whatever unfolds like the sum is the sum. *)
LEMMA SumIs ==
    ASSUME NEW v, NEW S, IsFiniteSet(S), NEW a, Sums(v, S, a)
    PROVE  SumOf(v, S) = a[S]
  <1>1. PICK b : Sums(v, S, b) /\ SumOf(v, S) = b[S]
    BY SumIter
  <1>2. a[S] = b[S]
    BY <1>1, SumsAgree
  <1> QED BY <1>1, <1>2

(* Products and quotients of integers, of which the provers know little.   *)
LEMMA TimesGrows ==
    ASSUME NEW x \in Int, NEW y \in Int, x <= y, NEW n \in Nat
    PROVE  x * n <= y * n
  <1>1. (y - x) * n >= 0
    OBVIOUS
  <1>2. (y - x) * n = y * n - x * n
    OBVIOUS
  <1> QED BY <1>1, <1>2

(* k multiples of n fit in a exactly when k <= a \div n. *)
LEMMA FitsIn ==
    ASSUME NEW a \in Int, NEW k \in Int, NEW n \in Nat \ {0}
    PROVE  k * n <= a <=> k <= a \div n
  <1>1. PICK q \in Int, r \in Int : q = a \div n /\ a = q * n + r /\ 0 <= r /\ r < n
    OBVIOUS
  <1>2. CASE k <= q
    <2>1. k * n <= q * n
      BY <1>1, <1>2, TimesGrows
    <2> QED BY <1>1, <1>2, <2>1
  <1>3. CASE k > q
    <2>1. (q + 1) * n <= k * n
      BY <1>1, <1>3, TimesGrows
    <2>2. (q + 1) * n = q * n + n
      BY <1>1
    <2> QED BY <1>1, <1>3, <2>1, <2>2
  <1> QED BY <1>1, <1>2, <1>3

(* A multiple divides without rest, and reaches its divisor unless it is zero. *)
LEMMA MultipleDivides ==
    ASSUME NEW k \in Int, NEW n \in Nat \ {0}
    PROVE  (k * n) \div n = k /\ (k * n) % n = 0
  <1>1. PICK a \in Int : a = k * n
    OBVIOUS
  <1>2. PICK q \in Int : q = a \div n
    OBVIOUS
  <1>3. k <= q
    BY <1>1, <1>2, FitsIn
  <1>4. q * n <= a
    BY <1>1, <1>2, FitsIn
  <1>5. ~ (k + 1 <= q)
    <2>1. SUFFICES ASSUME k + 1 <= q PROVE FALSE
      OBVIOUS
    <2>2. (k + 1) * n <= q * n
      BY <2>1, TimesGrows
    <2>3. (k + 1) * n = k * n + n
      OBVIOUS
    <2> QED BY <1>1, <1>4, <2>2, <2>3
  <1>6. q = k
    BY <1>3, <1>5
  <1>7. a % n = a - q * n
    BY <1>2
  <1>8. a - q * n = 0
    BY <1>1, <1>6
  <1> QED BY <1>1, <1>2, <1>6, <1>7, <1>8

LEMMA MultipleReaches ==
    ASSUME NEW a \in Nat \ {0}, NEW n \in Nat \ {0}, a % n = 0
    PROVE  n <= a
  <1> SUFFICES ASSUME a < n PROVE FALSE
    OBVIOUS
  <1>1. a % n = a
    OBVIOUS
  <1> QED BY <1>1

(* The largest of some positions of a sequence. *)
LEMMA MaxOf ==
    ASSUME NEW n \in Nat, NEW X \in SUBSET (1..n), X # {}
    PROVE  Max(X) \in X /\ \A x \in X : x <= Max(X)
  <1>0. \A x \in X : x \in Int /\ 1 <= x /\ x <= n /\ n - x \in Nat
    <2> SUFFICES ASSUME NEW x \in X PROVE x \in Int /\ 1 <= x /\ x <= n /\ n - x \in Nat
      OBVIOUS
    <2>1. x \in 1..n
      OBVIOUS
    <2> QED BY <2>1
  <1>1. PICK Y : Y = {n - x : x \in X}
    OBVIOUS
  <1>2. PICK y \in Y : \A z \in Y : y <= z
    <2>1. Y \subseteq Nat /\ Y # {}
      BY <1>0, <1>1
    <2> QED BY <2>1, LeastNatural
  <1>3. PICK w \in X : y = n - w
    BY <1>1, <1>2
  <1>4. \A x \in X : w >= x
    <2> SUFFICES ASSUME NEW x \in X PROVE w >= x
      OBVIOUS
    <2>1. n - x \in Y
      BY <1>1
    <2>2. y <= n - x /\ y = n - w /\ x \in Int /\ w \in Int
      BY <1>0, <1>2, <1>3, <2>1
    <2> QED BY <2>2
  <1>5. \E u \in X : \A x \in X : u >= x
    BY <1>4
  <1>6. Max(X) \in X /\ \A x \in X : Max(X) >= x
    BY <1>5 DEF Max
  <1>7. PICK m \in X : m = Max(X)
    BY <1>6
  <1>8. \A x \in X : x <= m
    BY <1>0, <1>6, <1>7
  <1> QED BY <1>7, <1>8

(* What holds of the empty prefix, and of a prefix with its next member, holds of all. *)
LEMMA ByPrefix ==
    ASSUME NEW n \in Nat, NEW G, 0 \in G, \A k \in 0..(n - 1) : k \in G => k + 1 \in G
    PROVE  \A k \in 0..n : k \in G
  <1> DEFINE Bad == {k \in 0..n : k \notin G}
  <1> SUFFICES ASSUME Bad # {} PROVE FALSE
    OBVIOUS
  <1>1. PICK k \in Bad : \A j \in Bad : k <= j
    <2>1. Bad \subseteq Nat
      OBVIOUS
    <2> HIDE DEF Bad
    <2> QED BY <2>1, LeastNatural
  <1>2. k \in 1..n /\ k \notin G
    BY <1>1
  <1>3. k - 1 \in 0..(n - 1) /\ k - 1 \notin Bad /\ (k - 1) + 1 = k
    BY <1>1, <1>2
  <1>4. k - 1 \in G
    BY <1>2, <1>3
  <1>5. (k - 1) + 1 \in G
    BY <1>3, <1>4
  <1> QED BY <1>2, <1>3, <1>5

(* Two sets with nothing in common add up; and a sum of naturals grows with its set. *)
LEMMA SumUnion ==
    ASSUME NEW v, NEW S, IsFiniteSet(S), \A x \in S : v[x] \in Int, NEW T, T \subseteq S
    PROVE  SumOf(v, S) = SumOf(v, T) + SumOf(v, S \ T)
  <1> DEFINE Bad == {X \in SUBSET (S \ T) : SumOf(v, T \cup X) # SumOf(v, T) + SumOf(v, X)}
  <1> SUFFICES ASSUME Bad # {} PROVE FALSE
    <2>1. S \ T \notin Bad /\ T \cup (S \ T) = S
      OBVIOUS
    <2> QED BY <2>1
  <1>0. SumOf(v, T) \in Int
    BY FS_Subset, SumTyped
  <1>1. PICK X \in Bad : \A x \in X : X \ {x} \notin Bad
    <2>1. Bad \subseteq SUBSET (S \ T) /\ IsFiniteSet(S \ T)
      BY FS_Subset
    <2> HIDE DEF Bad
    <2> QED BY <2>1, SmallestSet
  <1>2. X \in SUBSET (S \ T) /\ SumOf(v, T \cup X) # SumOf(v, T) + SumOf(v, X) /\ IsFiniteSet(X)
    BY FS_Subset
  <1>3. CASE X = {}
    <2>1. T \cup X = T
      BY <1>3
    <2> QED BY <1>0, <1>2, <1>3, <2>1, SumEmpty
  <1>4. ASSUME NEW y \in X PROVE FALSE
    <2>1. X \ {y} \in SUBSET (S \ T) /\ X \ {y} \notin Bad /\ IsFiniteSet(X \ {y})
      BY <1>1, <1>2, FS_Subset
    <2>2. SumOf(v, T \cup (X \ {y})) = SumOf(v, T) + SumOf(v, X \ {y})
      BY <2>1
    <2>3. PICK U : U = T \cup X
      OBVIOUS
    <2>4. IsFiniteSet(U) /\ y \in U /\ (\A x \in U : v[x] \in Int) /\ \A x \in X : v[x] \in Int
      BY <1>2, <2>3, FS_Subset
    <2>5. SumOf(v, U) = v[y] + SumOf(v, U \ {y})
      BY <2>4, SumTakes
    <2>6. U \ {y} = T \cup (X \ {y})
      BY <1>2, <1>4, <2>3
    <2>7. SumOf(v, X) = v[y] + SumOf(v, X \ {y})
      BY <1>2, <2>4, SumTakes
    <2>8. PICK a \in Int, b \in Int, d \in Int : a = SumOf(v, T) /\ b = SumOf(v, X \ {y}) /\ d = v[y]
      <3>1. SumOf(v, X \ {y}) \in Int
        <4>1. \A x \in X \ {y} : v[x] \in Int
          BY <2>4
        <4> QED BY <2>1, <4>1, SumTyped
      <3> QED BY <1>0, <2>4, <3>1
    <2>9. SumOf(v, T \cup X) = d + (a + b) /\ SumOf(v, X) = d + b
      BY <2>2, <2>3, <2>5, <2>6, <2>7, <2>8
    <2>10. d + (a + b) = a + (d + b)
      OBVIOUS
    <2> QED BY <1>2, <2>8, <2>9, <2>10
  <1> QED BY <1>3, <1>4

LEMMA SumGrows ==
    ASSUME NEW v, NEW S, IsFiniteSet(S), \A x \in S : v[x] \in Nat, NEW T, T \subseteq S
    PROVE  SumOf(v, T) <= SumOf(v, S)
  <1>1. IsFiniteSet(T) /\ IsFiniteSet(S \ T)
    BY FS_Subset
  <1>2. SumOf(v, T) \in Nat /\ SumOf(v, S \ T) \in Nat
    BY <1>1, SumTyped
  <1>3. SumOf(v, S) = SumOf(v, T) + SumOf(v, S \ T)
    BY SumUnion
  <1> QED BY <1>2, <1>3

(* A sum of differences telescopes. *)
Differences(f, w, a, n) ==
  /\ w \in [a..n -> Int] /\ w[n] = 0
  /\ \A x \in a..(n - 1) : f[x] = w[x] - w[x + 1]

LEMMA Telescopes ==
  ASSUME NEW a \in Int, NEW n \in Int, a <= n, NEW f, NEW w, Differences(f, w, a, n)
  PROVE  SumOf(f, a..(n - 1)) = w[a]
<1> w \in [a..n -> Int] /\ w[n] = 0 /\ \A x \in a..(n - 1) : f[x] = w[x] - w[x + 1]
  BY DEF Differences
<1> DEFINE Good == {k \in 0..(n - a) : SumOf(f, (n - k)..(n - 1)) = w[n - k]}
<1>0. PICK b \in Nat : b = n - a
  OBVIOUS
<1>1. 0 \in Good
  <2>1. (n - 0)..(n - 1) = {} /\ n - 0 = n
    OBVIOUS
  <2> QED BY <2>1, SumEmpty
<1>2. ASSUME NEW k \in 0..(b - 1), k \in Good PROVE k + 1 \in Good
  <2>1. PICK x \in Int : x = n - (k + 1)
    OBVIOUS
  <2>2. PICK U : U = (x + 1)..(n - 1)
    OBVIOUS
  <2>3. x + 1 = n - k /\ x \in a..(n - 1) /\ x + 1 \in a..n /\ x \in a..n
    BY <1>0, <2>1
  <2>4. x \notin U
    BY <2>2
  <2>5. x..(n - 1) = U \cup {x}
    BY <2>2, <2>3
  <2>6. IsFiniteSet(U)
    BY <2>2, FS_Interval
  <2>7. PICK c \in Int, d \in Int : c = w[x] /\ d = w[x + 1]
    BY <2>3
  <2>8. f[x] = c - d
    BY <2>3, <2>7
  <2>9. \A y \in U : f[y] \in Int
    <3> SUFFICES ASSUME NEW y \in U PROVE f[y] \in Int
      OBVIOUS
    <3>1. y \in a..(n - 1) /\ y \in a..n /\ y + 1 \in a..n
      BY <2>2, <2>3
    <3>2. w[y] \in Int /\ w[y + 1] \in Int /\ f[y] = w[y] - w[y + 1]
      BY <3>1
    <3> QED BY <3>2
  <2>10. SumOf(f, U \cup {x}) = SumOf(f, U) + f[x]
    <3>1. f[x] \in Int
      BY <2>7, <2>8
    <3> QED BY <2>4, <2>6, <2>9, <3>1, SumGains
  <2>11. SumOf(f, U) = d
    BY <1>2, <2>2, <2>3, <2>7
  <2>12. SumOf(f, x..(n - 1)) = c
    <3>1. SumOf(f, x..(n - 1)) = d + f[x]
      BY <2>5, <2>10, <2>11
    <3> QED BY <2>8, <3>1
  <2> QED BY <1>0, <2>1, <2>7, <2>12
<1>3. b \in Good
  <2> HIDE DEF Good
  <2>1. \A k \in 0..b : k \in Good
    BY <1>1, <1>2, ByPrefix
  <2> QED BY <2>1
<1>4. n - b = a
  BY <1>0
<1> QED BY <1>3, <1>4
=============================================================================
