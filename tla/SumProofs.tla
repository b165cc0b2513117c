----------------------------- MODULE SumProofs -----------------------------
(***************************************************************************)
(* Facts about sums over any finite set.  MapThenSumSet is a recursive     *)
(* function on the subsets of the set, so it has to be shown first that    *)
(* there is one; an induction is the choice of a least counterexample.     *)
(***************************************************************************)
EXTENDS Sums, FiniteSetTheorems, WellFoundedInduction, TLAPS

\* A nonempty set of numbers has a least element.
LEMMA Least ==
    ASSUME NEW N, N \subseteq Nat, N # {}
    PROVE  \E n \in N : \A m \in N : n <= m
<1> DEFINE R == {p \in Nat \X Nat : p[1] < p[2]}
<1>1. IsWellFoundedOn(R, Nat)
  BY NatLessThanWellFounded, Zenon DEF OpToRel
<1>2. PICK n \in N : \A m \in N : <<m, n>> \notin R
  <2> HIDE DEF R
  <2> QED BY <1>1, WFMin
<1>3. \A m \in N : ~(m < n)
  BY <1>2
<1> QED BY <1>2, <1>3

Pick(s) == CHOOSE x \in s : TRUE

LEMMA PickIn == \A s : s # {} => Pick(s) \in s
  BY DEF Pick

\* g sums f over each of the sets in D.
SumsOf(f, D, g) ==
    g = [s \in D |-> IF s = {} THEN 0 ELSE f[Pick(s)] + g[s \ {Pick(s)}]]

LEMMA Unfold == \A f, S : SumOver(f, S) = (CHOOSE g : SumsOf(f, SUBSET S, g))[S]
  BY DEF SumOver, MapThenSumSet, MapThenFoldSet, SumsOf, Pick

\* A set with one member less is smaller.
LEMMA Smaller ==
    ASSUME NEW S, NEW x \in S, IsFiniteSet(S)
    PROVE  /\ IsFiniteSet(S \ {x})
           /\ Cardinality(S) \in Nat /\ Cardinality(S \ {x}) \in Nat
           /\ Cardinality(S \ {x}) = Cardinality(S) - 1
  BY FS_RemoveElement, FS_CardinalityType

\* The recursive function exists: it is built up by the size of the sets.
LEMMA SumsExist ==
    ASSUME NEW S, NEW f, IsFiniteSet(S), \A x \in S : f[x] \in Int
    PROVE  \E g \in [SUBSET S -> Int] : SumsOf(f, SUBSET S, g)
<1> DEFINE D(n) == {s \in SUBSET S : Cardinality(s) <= n}
           Good(n) == \E g \in [D(n) -> Int] : SumsOf(f, D(n), g)
           N == {n \in Nat : ~Good(n)}
<1>0. \A s \in SUBSET S : IsFiniteSet(s) /\ Cardinality(s) \in Nat
  BY FS_Subset, FS_CardinalityType
<1>1. N = {}
  <2> SUFFICES ASSUME N # {} PROVE FALSE
    OBVIOUS
  <2>1. PICK n \in N : \A m \in N : n <= m
    <3> HIDE DEF N
    <3>1. N \subseteq Nat
      BY DEF N
    <3> QED BY <3>1, Least
  <2>2. CASE n = 0
    <3> DEFINE g == [s \in D(0) |-> 0]
    <3>1. D(0) \subseteq {{}}
      <4> SUFFICES ASSUME NEW s \in SUBSET S, Cardinality(s) <= 0 PROVE s = {}
        OBVIOUS
      <4>1. Cardinality(s) = 0
        BY <1>0
      <4> QED BY <1>0, <4>1, FS_EmptySet
    <3>2. SumsOf(f, D(0), g)
      BY <3>1 DEF SumsOf
    <3>3. g \in [D(0) -> Int]
      OBVIOUS
    <3> HIDE DEF D, g
    <3>4. Good(0)
      BY <3>2, <3>3
    <3> QED BY <2>1, <2>2, <3>4
  <2>3. CASE n # 0
    <3>1. n - 1 \in Nat /\ n \in Nat
      BY <2>3
    <3>2. Good(n - 1)
      <4>1. n - 1 \notin N
        <5> HIDE DEF N
        <5> QED BY <2>1, <3>1
      <4> QED BY <3>1, <4>1
    <3>3. PICK h \in [D(n - 1) -> Int] : SumsOf(f, D(n - 1), h)
      BY <3>2
    <3> DEFINE g == [s \in D(n) |-> IF s = {} THEN 0 ELSE f[Pick(s)] + h[s \ {Pick(s)}]]
    <3>4. ASSUME NEW s \in D(n), s # {}
          PROVE  /\ s \ {Pick(s)} \in D(n - 1) /\ s \ {Pick(s)} \in D(n)
                 /\ f[Pick(s)] \in Int
                 /\ g[s \ {Pick(s)}] = h[s \ {Pick(s)}]
      <4> DEFINE t == s \ {Pick(s)}
      <4>1. Pick(s) \in s
        BY <3>4, PickIn
      <4>2. Cardinality(t) = Cardinality(s) - 1
        BY <1>0, <4>1, Smaller
      <4>3. t \in D(n - 1) /\ t \in D(n)
        BY <1>0, <3>1, <4>2
      <4>4. h[t] = IF t = {} THEN 0 ELSE f[Pick(t)] + h[t \ {Pick(t)}]
        BY <3>3, <4>3 DEF SumsOf
      <4> QED BY <4>1, <4>3, <4>4
    <3>5. g \in [D(n) -> Int]
      <4>1. ASSUME NEW s \in D(n) PROVE g[s] \in Int
        <5>1. CASE s = {}
          BY <5>1
        <5>2. CASE s # {}
          <6>1. h[s \ {Pick(s)}] \in Int /\ f[Pick(s)] \in Int
            BY <3>4, <5>2
          <6> QED BY <5>2, <6>1
        <5> QED BY <5>1, <5>2
      <4>2. g = [s \in D(n) |-> g[s]]
        OBVIOUS
      <4> HIDE DEF g, D
      <4> QED BY <4>1, <4>2
    <3>6. SumsOf(f, D(n), g)
      <4>1. \A s \in D(n) : g[s] = IF s = {} THEN 0 ELSE f[Pick(s)] + g[s \ {Pick(s)}]
        <5> TAKE s \in D(n)
        <5>1. g[s] = IF s = {} THEN 0 ELSE f[Pick(s)] + h[s \ {Pick(s)}]
          OBVIOUS
        <5> HIDE DEF g, D
        <5> QED BY <3>4, <5>1
      <4>2. g = [s \in D(n) |-> g[s]]
        OBVIOUS
      <4> HIDE DEF g, D
      <4> QED BY <4>1, <4>2 DEF SumsOf
    <3> HIDE DEF D, g
    <3>7. Good(n)
      BY <3>5, <3>6
    <3> QED BY <2>1, <3>7
  <2> QED BY <2>2, <2>3
<1>2. Good(Cardinality(S))
  BY <1>0, <1>1
<1>3. D(Cardinality(S)) = SUBSET S
  BY FS_Subset
<1> QED BY <1>2, <1>3

\* Two of them agree on the sets they have in common.
LEMMA SumsAgree ==
    ASSUME NEW S, NEW T \in SUBSET S, NEW f, NEW g, NEW h, IsFiniteSet(S),
           SumsOf(f, SUBSET S, g), SumsOf(f, SUBSET T, h)
    PROVE  \A t \in SUBSET T : g[t] = h[t]
<1> DEFINE B == {t \in SUBSET T : g[t] # h[t]}
           N == {n \in Nat : \E t \in B : Cardinality(t) = n}
<1>0. \A s \in SUBSET S : IsFiniteSet(s) /\ Cardinality(s) \in Nat
  BY FS_Subset, FS_CardinalityType
<1> SUFFICES ASSUME B # {} PROVE FALSE
  OBVIOUS
<1>1. N # {}
  BY <1>0
<1>2. PICK n \in N : \A m \in N : n <= m
  <2> HIDE DEF N
  <2>1. N \subseteq Nat
    BY DEF N
  <2> QED BY <1>1, <2>1, Least
<1>3. PICK t \in B : Cardinality(t) = n
  OBVIOUS
<1>4. g[t] = (IF t = {} THEN 0 ELSE f[Pick(t)] + g[t \ {Pick(t)}])
  BY <1>3 DEF SumsOf
<1>5. h[t] = (IF t = {} THEN 0 ELSE f[Pick(t)] + h[t \ {Pick(t)}])
  BY <1>3 DEF SumsOf
<1>6. t # {}
  BY <1>3, <1>4, <1>5
<1> DEFINE u == t \ {Pick(t)}
<1>7. Pick(t) \in t
  BY <1>6, PickIn
<1>8. Cardinality(u) = n - 1 /\ Cardinality(u) \in Nat
  BY <1>0, <1>3, <1>7, Smaller
<1>9. u \notin B
  BY <1>2, <1>8
<1>10. g[u] = h[u]
  BY <1>9
<1> QED BY <1>3, <1>4, <1>5, <1>6, <1>10

\* The equation of a sum.
LEMMA SumUnfold ==
    ASSUME NEW S, NEW f, IsFiniteSet(S), \A x \in S : f[x] \in Int
    PROVE  /\ SumOver(f, S) \in Int
           /\ SumOver(f, S) = IF S = {} THEN 0 ELSE f[Pick(S)] + SumOver(f, S \ {Pick(S)})
<1> DEFINE G(T) == CHOOSE g : SumsOf(f, SUBSET T, g)
<1>1. ASSUME NEW T \in SUBSET S PROVE SumsOf(f, SUBSET T, G(T)) /\ G(T)[T] \in Int
  <2>1. IsFiniteSet(T)
    BY FS_Subset
  <2>2. PICK g \in [SUBSET T -> Int] : SumsOf(f, SUBSET T, g)
    BY <2>1, SumsExist
  <2>3. SumsOf(f, SUBSET T, G(T))
    BY <2>2
  <2> HIDE DEF G
  <2>4. G(T)[T] = g[T]
    BY <2>1, <2>2, <2>3, SumsAgree
  <2> QED BY <2>2, <2>3, <2>4
<1>2. \A T \in SUBSET S : SumOver(f, T) = G(T)[T]
  BY Unfold
<1> HIDE DEF G
<1>3. CASE S = {}
  BY <1>1, <1>2, <1>3 DEF SumsOf
<1>4. CASE S # {}
  <2>0. PICK T \in SUBSET S : T = S \ {Pick(S)}
    OBVIOUS
  <2>1. T \in SUBSET S
    OBVIOUS
  <2>2. G(S)[S] = f[Pick(S)] + G(S)[T]
    BY <1>1, <1>4, <2>0 DEF SumsOf
  <2>3. G(S)[T] = G(T)[T]
    <3>1. SumsOf(f, SUBSET S, G(S)) /\ SumsOf(f, SUBSET T, G(T))
      BY <1>1, <2>1
    <3>2. T \in SUBSET T
      OBVIOUS
    <3> QED BY <3>1, <3>2, SumsAgree
  <2>4. SumOver(f, S) = f[Pick(S)] + SumOver(f, T) /\ SumOver(f, S) \in Int
    BY <1>1, <1>2, <2>1, <2>2, <2>3
  <2> QED BY <1>4, <2>0, <2>4
<1> QED BY <1>3, <1>4

LEMMA SumType ==
    ASSUME NEW S, NEW f, IsFiniteSet(S), \A x \in S : f[x] \in Int
    PROVE  SumOver(f, S) \in Int
  BY SumUnfold

LEMMA SumEmpty == \A f : SumOver(f, {}) = 0
  BY SumUnfold, FS_EmptySet

\* Any member can be the one taken out.
LEMMA SumRemove ==
    ASSUME NEW S, NEW f, NEW x \in S, IsFiniteSet(S), \A y \in S : f[y] \in Int
    PROVE  SumOver(f, S) = f[x] + SumOver(f, S \ {x})
<1> DEFINE B(n) == \E T \in SUBSET S : Cardinality(T) = n
                      /\ \E y \in T : SumOver(f, T) # f[y] + SumOver(f, T \ {y})
           N == {n \in Nat : B(n)}
<1>0. \A s \in SUBSET S : /\ IsFiniteSet(s) /\ Cardinality(s) \in Nat
                          /\ SumOver(f, s) \in Int
                          /\ SumOver(f, s) = IF s = {} THEN 0 ELSE f[Pick(s)] + SumOver(f, s \ {Pick(s)})
  <2> TAKE s \in SUBSET S
  <2>1. IsFiniteSet(s) /\ Cardinality(s) \in Nat
    BY FS_Subset, FS_CardinalityType
  <2> QED BY <2>1, SumUnfold
<1>1. N = {}
  <2> SUFFICES ASSUME N # {} PROVE FALSE
    OBVIOUS
  <2>1. PICK n \in N : \A m \in N : n <= m
    <3> HIDE DEF N
    <3>1. N \subseteq Nat
      BY DEF N
    <3> QED BY <3>1, Least
  <2>2. PICK T \in SUBSET S : Cardinality(T) = n /\ \E y \in T : SumOver(f, T) # f[y] + SumOver(f, T \ {y})
    OBVIOUS
  <2>0. PICK y \in T : SumOver(f, T) # f[y] + SumOver(f, T \ {y})
    BY <2>2
  <2> DEFINE p == Pick(T)
  <2>3. p \in T /\ SumOver(f, T) = f[p] + SumOver(f, T \ {p})
    BY <1>0, <2>2, PickIn
  <2> HIDE DEF p
  <2>4. p # y
    BY <2>0, <2>3
  <2>5. \A z \in T : Cardinality(T \ {z}) = n - 1 /\ n - 1 \in Nat
    BY <1>0, <2>2, Smaller
  <2>6. n - 1 \in Nat /\ ~B(n - 1)
    <3>1. n - 1 \in Nat /\ n \in Nat
      BY <2>2, <2>5
    <3>2. n - 1 \notin N
      <4> HIDE DEF N
      <4> QED BY <2>1, <3>1
    <3> QED BY <3>1, <3>2
  <2>7. SumOver(f, T \ {p}) = f[y] + SumOver(f, (T \ {p}) \ {y})
    BY <2>3, <2>4, <2>5, <2>6
  <2>8. SumOver(f, T \ {y}) = f[p] + SumOver(f, (T \ {y}) \ {p})
    BY <2>3, <2>4, <2>5, <2>6
  <2>9. (T \ {p}) \ {y} = (T \ {y}) \ {p} /\ (T \ {p}) \ {y} \in SUBSET S
    OBVIOUS
  <2>10. SumOver(f, (T \ {p}) \ {y}) \in Int /\ f[p] \in Int /\ f[y] \in Int
    BY <1>0, <2>3, <2>9
  <2>11. f[p] + SumOver(f, T \ {p}) = f[y] + SumOver(f, T \ {y})
    <3> DEFINE r == SumOver(f, (T \ {p}) \ {y})
    <3>1. SumOver(f, T \ {p}) = f[y] + r /\ SumOver(f, T \ {y}) = f[p] + r
      BY <2>7, <2>8, <2>9
    <3>2. r \in Int /\ f[p] \in Int /\ f[y] \in Int
      BY <2>10
    <3> HIDE DEF r
    <3> QED BY <3>1, <3>2
  <2> QED BY <2>0, <2>3, <2>11
<1>2. ~B(Cardinality(S))
  BY <1>0, <1>1
<1> QED BY <1>2

LEMMA SumAdd ==
    ASSUME NEW S, NEW x, NEW f, IsFiniteSet(S), x \notin S, \A y \in S \cup {x} : f[y] \in Int
    PROVE  IsFiniteSet(S \cup {x}) /\ SumOver(f, S \cup {x}) = SumOver(f, S) + f[x]
<1> DEFINE T == S \cup {x}
<1>1. IsFiniteSet(T) /\ x \in T /\ T \ {x} = S
  BY FS_AddElement
<1>2. SumOver(f, T) = f[x] + SumOver(f, S)
  <2>1. \A y \in T : f[y] \in Int
    OBVIOUS
  <2> HIDE DEF T
  <2> QED BY <1>1, <2>1, SumRemove
<1>3. SumOver(f, S) \in Int /\ f[x] \in Int
  BY SumType
<1> QED BY <1>1, <1>2, <1>3

\* A sum depends on the values over the set, in their order.
LEMMA SumMonotone ==
    ASSUME NEW S, NEW f, NEW g, IsFiniteSet(S),
           \A x \in S : f[x] \in Int /\ g[x] \in Int /\ f[x] <= g[x]
    PROVE  SumOver(f, S) <= SumOver(g, S)
<1> DEFINE B(n) == \E T \in SUBSET S : Cardinality(T) = n /\ ~(SumOver(f, T) <= SumOver(g, T))
           N == {n \in Nat : B(n)}
<1>0. \A s \in SUBSET S : /\ IsFiniteSet(s) /\ Cardinality(s) \in Nat
                          /\ SumOver(f, s) \in Int /\ SumOver(g, s) \in Int
  <2> TAKE s \in SUBSET S
  <2>1. IsFiniteSet(s) /\ Cardinality(s) \in Nat
    BY FS_Subset, FS_CardinalityType
  <2> QED BY <2>1, SumType
<1>1. N = {}
  <2> SUFFICES ASSUME N # {} PROVE FALSE
    OBVIOUS
  <2>1. PICK n \in N : \A m \in N : n <= m
    <3> HIDE DEF N
    <3>1. N \subseteq Nat
      BY DEF N
    <3> QED BY <3>1, Least
  <2>2. PICK T \in SUBSET S : Cardinality(T) = n /\ ~(SumOver(f, T) <= SumOver(g, T))
    OBVIOUS
  <2>3. T # {}
    BY <2>2, SumEmpty
  <2>4. PICK y \in T : TRUE
    BY <2>3
  <2>5. Cardinality(T \ {y}) = n - 1 /\ n - 1 \in Nat /\ n \in Nat
    BY <1>0, <2>2, Smaller
  <2>6. ~B(n - 1)
    <3>2. n - 1 \notin N
      <4> HIDE DEF N
      <4> QED BY <2>1, <2>5
    <3> QED BY <2>5, <3>2
  <2>7. SumOver(f, T \ {y}) <= SumOver(g, T \ {y})
    BY <2>5, <2>6
  <2>8. SumOver(f, T) = f[y] + SumOver(f, T \ {y}) /\ SumOver(g, T) = g[y] + SumOver(g, T \ {y})
    BY <1>0, SumRemove
  <2> QED BY <1>0, <2>2, <2>7, <2>8
<1>2. ~B(Cardinality(S))
  BY <1>0, <1>1
<1> QED BY <1>0, <1>2

\* Sums add up member by member.
LEMMA SumPlus ==
    ASSUME NEW S, NEW f, NEW g, NEW h, IsFiniteSet(S),
           \A x \in S : f[x] \in Int /\ g[x] \in Int /\ h[x] = f[x] + g[x]
    PROVE  SumOver(h, S) = SumOver(f, S) + SumOver(g, S)
<1> DEFINE B(n) == \E T \in SUBSET S : Cardinality(T) = n /\ SumOver(h, T) # SumOver(f, T) + SumOver(g, T)
           N == {n \in Nat : B(n)}
<1>0. \A s \in SUBSET S : /\ IsFiniteSet(s) /\ Cardinality(s) \in Nat
                          /\ SumOver(f, s) \in Int /\ SumOver(g, s) \in Int /\ SumOver(h, s) \in Int
  <2> TAKE s \in SUBSET S
  <2>1. IsFiniteSet(s) /\ Cardinality(s) \in Nat
    BY FS_Subset, FS_CardinalityType
  <2> QED BY <2>1, SumType
<1>1. N = {}
  <2> SUFFICES ASSUME N # {} PROVE FALSE
    OBVIOUS
  <2>1. PICK n \in N : \A m \in N : n <= m
    <3> HIDE DEF N
    <3>1. N \subseteq Nat
      BY DEF N
    <3> QED BY <3>1, Least
  <2>2. PICK T \in SUBSET S : Cardinality(T) = n /\ SumOver(h, T) # SumOver(f, T) + SumOver(g, T)
    OBVIOUS
  <2>3. T # {}
    <3>1. SumOver(h, {}) = 0 /\ SumOver(f, {}) = 0 /\ SumOver(g, {}) = 0
      BY SumEmpty
    <3> QED BY <2>2, <3>1
  <2>4. PICK y \in T : TRUE
    BY <2>3
  <2>5. Cardinality(T \ {y}) = n - 1 /\ n - 1 \in Nat /\ n \in Nat
    BY <1>0, <2>2, Smaller
  <2>6. ~B(n - 1)
    <3>2. n - 1 \notin N
      <4> HIDE DEF N
      <4> QED BY <2>1, <2>5
    <3> QED BY <2>5, <3>2
  <2>7. SumOver(h, T \ {y}) = SumOver(f, T \ {y}) + SumOver(g, T \ {y})
    BY <2>5, <2>6
  <2>8. SumOver(f, T) = f[y] + SumOver(f, T \ {y}) /\ SumOver(g, T) = g[y] + SumOver(g, T \ {y})
    BY <1>0, SumRemove
  <2>9. SumOver(h, T) = h[y] + SumOver(h, T \ {y})
    <3>1. IsFiniteSet(T) /\ \A x \in T : h[x] \in Int
      BY <1>0
    <3> QED BY <3>1, SumRemove
  <2>11. h[y] = f[y] + g[y]
    OBVIOUS
  <2>10. T \ {y} \in SUBSET S
    OBVIOUS
  <2> QED BY <1>0, <2>2, <2>7, <2>8, <2>9, <2>10, <2>11
<1>2. ~B(Cardinality(S))
  BY <1>0, <1>1
<1> QED BY <1>0, <1>2

LEMMA SumSame ==
    ASSUME NEW S, NEW f, NEW g, IsFiniteSet(S),
           \A x \in S : f[x] \in Int /\ g[x] = f[x]
    PROVE  SumOver(g, S) = SumOver(f, S)
<1>1. SumOver(g, S) <= SumOver(f, S) /\ SumOver(f, S) <= SumOver(g, S)
  BY SumMonotone
<1> QED BY <1>1, SumType

\* One value changes.
LEMMA SumUpdate ==
    ASSUME NEW S, NEW f, NEW g, NEW y \in S, IsFiniteSet(S),
           \A x \in S : f[x] \in Int /\ g[x] \in Int,
           \A x \in S \ {y} : g[x] = f[x]
    PROVE  SumOver(g, S) = SumOver(f, S) - f[y] + g[y]
<1>1. SumOver(f, S) = f[y] + SumOver(f, S \ {y}) /\ SumOver(g, S) = g[y] + SumOver(g, S \ {y})
  BY SumRemove
<1>2. IsFiniteSet(S \ {y})
  BY FS_RemoveElement
<1>3. SumOver(g, S \ {y}) = SumOver(f, S \ {y}) /\ SumOver(f, S \ {y}) \in Int
  BY <1>2, SumSame, SumType
<1> QED BY <1>1, <1>3

LEMMA SumNat ==
    ASSUME NEW S, NEW f, IsFiniteSet(S), \A x \in S : f[x] \in Nat
    PROVE  SumOver(f, S) \in Nat
<1> DEFINE z == [x \in S |-> 0]
<1>1. SumOver(z, S) <= SumOver(f, S)
  BY SumMonotone
<1>2. SumOver(z, S) = SumOver(z, S) + SumOver(z, S)
  <2>1. \A x \in S : z[x] \in Int /\ z[x] = z[x] + z[x]
    OBVIOUS
  <2> HIDE DEF z
  <2> QED BY <2>1, SumPlus
<1>3. SumOver(z, S) \in Int
  BY SumType
<1>4. SumOver(f, S) \in Int
  BY SumType
<1> HIDE DEF z
<1> QED BY <1>1, <1>2, <1>3, <1>4

\* Sums over two lists, one after the other.
Joins(f, g, h, l, k) ==
    /\ l \in Nat /\ k \in Nat
    /\ \A i \in 1 .. l : f[i] \in Int /\ h[i] = f[i]
    /\ \A i \in 1 .. k : g[i] \in Int /\ h[l + i] = g[i]

LEMMA SumJoin ==
    ASSUME NEW l \in Nat, NEW k \in Nat, NEW f, NEW g, NEW h, Joins(f, g, h, l, k)
    PROVE  SumOver(h, 1 .. (l + k)) = SumOver(f, 1 .. l) + SumOver(g, 1 .. k)
<1>0. /\ l \in Nat /\ k \in Nat
      /\ \A i \in 1 .. l : f[i] \in Int /\ h[i] = f[i]
      /\ \A i \in 1 .. k : g[i] \in Int /\ h[l + i] = g[i]
  BY DEF Joins
<1> DEFINE B(m) == SumOver(h, 1 .. (l + m)) # SumOver(f, 1 .. l) + SumOver(g, 1 .. m)
           N == {m \in 0 .. k : B(m)}
<1>1. ASSUME NEW m \in 0 .. k
      PROVE  /\ IsFiniteSet(1 .. (l + m)) /\ IsFiniteSet(1 .. m)
             /\ \A i \in 1 .. (l + m) : h[i] \in Int
             /\ \A i \in 1 .. m : g[i] \in Int
             /\ SumOver(g, 1 .. m) \in Int
  <2>1. \A x, y \in Int : IsFiniteSet(x .. y)
    BY FS_Interval
  <2>2. IsFiniteSet(1 .. (l + m)) /\ IsFiniteSet(1 .. m)
    BY <1>0, <2>1
  <2>3. ASSUME NEW i \in 1 .. (l + m) PROVE h[i] \in Int
    <3>1. CASE i \in 1 .. l
      BY <1>0, <3>1
    <3>2. CASE i \notin 1 .. l
      <4>1. i - l \in 1 .. k /\ l + (i - l) = i
        BY <1>0, <3>2
      <4> QED BY <1>0, <4>1
    <3> QED BY <3>1, <3>2
  <2>4. \A i \in 1 .. m : g[i] \in Int
    BY <1>0
  <2> QED BY <2>2, <2>3, <2>4, SumType
<1>2. SumOver(f, 1 .. l) \in Int
  <2>1. IsFiniteSet(1 .. l) /\ \A i \in 1 .. l : f[i] \in Int
    BY <1>0, FS_Interval
  <2> QED BY <2>1, SumType
<1>3. N = {}
  <2> SUFFICES ASSUME N # {} PROVE FALSE
    OBVIOUS
  <2>0. N \subseteq Nat
    OBVIOUS
  <2> HIDE DEF N
  <2>1. PICK m \in N : \A o \in N : m <= o
    BY <2>0, Least
  <2>2. m \in 0 .. k /\ B(m)
    BY DEF N
  <2>3. CASE m = 0
    <3>1. 1 .. m = {} /\ l + m = l
      BY <1>0, <2>3
    <3>2. SumOver(g, 1 .. m) = 0
      BY <3>1, SumEmpty
    <3>3. SumOver(h, 1 .. l) = SumOver(f, 1 .. l)
      <4>1. IsFiniteSet(1 .. l) /\ \A i \in 1 .. l : f[i] \in Int /\ h[i] = f[i]
        BY <1>0, FS_Interval
      <4> QED BY <4>1, SumSame
    <3> QED BY <1>2, <2>2, <3>1, <3>2, <3>3
  <2>4. CASE m # 0
    <3>1. PICK o : o = m - 1
      OBVIOUS
    <3>2. /\ o \in 0 .. k /\ ~(m <= o) /\ m \in 1 .. m /\ l + m \in 1 .. (l + m)
          /\ (1 .. m) \ {m} = 1 .. o /\ (1 .. (l + m)) \ {l + m} = 1 .. (l + o)
      BY <2>2, <2>4, <3>1
    <3>3. ~B(o)
      BY <1>0, <2>1, <3>2 DEF N
    <3>4. SumOver(g, 1 .. m) = g[m] + SumOver(g, 1 .. o)
      <4>1. IsFiniteSet(1 .. m) /\ (\A i \in 1 .. m : g[i] \in Int) /\ m \in 1 .. m
        BY <1>1, <2>2, <3>2
      <4>2. SumOver(g, 1 .. m) = g[m] + SumOver(g, (1 .. m) \ {m})
        BY <4>1, SumRemove
      <4> QED BY <3>2, <4>2
    <3>5. SumOver(h, 1 .. (l + m)) = h[l + m] + SumOver(h, 1 .. (l + o))
      <4>1. PICK a : a = l + m
        OBVIOUS
      <4>2. IsFiniteSet(1 .. a) /\ (\A i \in 1 .. a : h[i] \in Int) /\ a \in 1 .. a
        BY <1>1, <2>2, <3>2, <4>1
      <4>3. SumOver(h, 1 .. a) = h[a] + SumOver(h, (1 .. a) \ {a})
        BY <4>2, SumRemove
      <4> QED BY <3>2, <4>1, <4>3
    <3>6. h[l + m] = g[m] /\ g[m] \in Int
      BY <1>0, <2>2, <2>4
    <3>7. SumOver(g, 1 .. o) \in Int
      BY <1>1, <3>2
    <3> QED BY <1>2, <2>2, <3>3, <3>4, <3>5, <3>6, <3>7
  <2> QED BY <2>3, <2>4
<1>4. k \in 0 .. k
  BY <1>0
<1>5. ~B(k)
  BY <1>3, <1>4
<1> QED BY <1>0, <1>1, <1>2, <1>4, <1>5

\* The sum of equal values.
LEMMA SumConst ==
    ASSUME NEW S, NEW f, NEW k \in Nat, IsFiniteSet(S), \A x \in S : f[x] = k
    PROVE  SumOver(f, S) = Cardinality(S) * k
<1> DEFINE B(n) == \E T \in SUBSET S : Cardinality(T) = n /\ SumOver(f, T) # n * k
           N == {n \in Nat : B(n)}
<1>0. \A s \in SUBSET S : IsFiniteSet(s) /\ Cardinality(s) \in Nat
  BY FS_Subset, FS_CardinalityType
<1>1. N = {}
  <2> SUFFICES ASSUME N # {} PROVE FALSE
    OBVIOUS
  <2>1. PICK n \in N : \A m \in N : n <= m
    <3> HIDE DEF N
    <3>1. N \subseteq Nat
      BY DEF N
    <3> QED BY <3>1, Least
  <2>2. PICK T \in SUBSET S : Cardinality(T) = n /\ SumOver(f, T) # n * k
    OBVIOUS
  <2>3. T # {}
    <3>1. SumOver(f, {}) = 0 /\ Cardinality({}) = 0
      BY SumEmpty, FS_EmptySet
    <3> QED BY <2>2, <3>1
  <2>4. PICK y \in T : TRUE
    BY <2>3
  <2>5. Cardinality(T \ {y}) = n - 1 /\ n - 1 \in Nat /\ n \in Nat
    BY <1>0, <2>2, Smaller
  <2>6. ~B(n - 1)
    <3>2. n - 1 \notin N
      <4> HIDE DEF N
      <4> QED BY <2>1, <2>5
    <3> QED BY <2>5, <3>2
  <2>7. SumOver(f, T \ {y}) = (n - 1) * k
    BY <2>5, <2>6
  <2>8. SumOver(f, T) = f[y] + SumOver(f, T \ {y})
    <3>1. IsFiniteSet(T) /\ \A x \in T : f[x] \in Int
      BY <1>0
    <3> QED BY <3>1, SumRemove
  <2>9. k + (n - 1) * k = n * k
    BY <2>5
  <2>10. f[y] = k
    OBVIOUS
  <2> QED BY <2>2, <2>7, <2>8, <2>9, <2>10
<1>2. ~B(Cardinality(S))
  BY <1>0, <1>1
<1> QED BY <1>2

\* What y contributes to a sum.
Share(f, S, y) == IF y \in S THEN f[y] ELSE 0

\* One member comes, goes or changes its value.
LEMMA SumShift ==
    ASSUME NEW S, NEW T, NEW f, NEW g, NEW y, IsFiniteSet(S), T \ {y} = S \ {y},
           \A x \in S : f[x] \in Int, \A x \in T : g[x] \in Int,
           \A x \in S \ {y} : g[x] = f[x]
    PROVE  SumOver(g, T) = SumOver(f, S) - Share(f, S, y) + Share(g, T, y)
<1>1. PICK R : R = S \ {y}
  OBVIOUS
<1>2. IsFiniteSet(R) /\ T \ {y} = R /\ S \ {y} = R
  BY <1>1, FS_RemoveElement
<1>3. IsFiniteSet(T)
  <2>1. T = R \/ T = R \cup {y}
    BY <1>2
  <2> QED BY <1>2, <2>1, FS_AddElement
<1>4. SumOver(g, R) = SumOver(f, R) /\ SumOver(f, R) \in Int
  <2>1. \A x \in R : f[x] \in Int /\ g[x] = f[x]
    BY <1>1
  <2> QED BY <1>2, <2>1, SumSame, SumType
<1>5. ASSUME NEW h, NEW A, IsFiniteSet(A), A \ {y} = R, \A x \in A : h[x] \in Int, SumOver(h, R) \in Int
      PROVE  SumOver(h, A) = SumOver(h, R) + Share(h, A, y) /\ Share(h, A, y) \in Int
  <2>1. CASE y \in A
    <3>1. SumOver(h, A) = h[y] + SumOver(h, R)
      <4>1. SumOver(h, A) = h[y] + SumOver(h, A \ {y})
        BY <1>5, <2>1, SumRemove
      <4> QED BY <1>5, <4>1
    <3>2. Share(h, A, y) = h[y] /\ h[y] \in Int
      BY <1>5, <2>1 DEF Share
    <3> QED BY <1>5, <3>1, <3>2
  <2>2. CASE y \notin A
    <3>1. A = R /\ Share(h, A, y) = 0
      BY <1>5, <2>2 DEF Share
    <3> QED BY <1>5, <3>1
  <2> QED BY <2>1, <2>2
<1>6. SumOver(f, S) = SumOver(f, R) + Share(f, S, y) /\ Share(f, S, y) \in Int
  BY <1>2, <1>4, <1>5
<1>7. SumOver(g, T) = SumOver(g, R) + Share(g, T, y) /\ Share(g, T, y) \in Int
  BY <1>2, <1>3, <1>4, <1>5
<1>8. SumOver(f, S) \in Int /\ SumOver(g, T) \in Int
  BY <1>3, SumType
<1> QED BY <1>4, <1>6, <1>7, <1>8

-----------------------------------------------------------------------------
\* Units in the rows of a table.

\* What row i has of item n.
Part(table, among, n, i) ==
    IF i \in among /\ table[i].name = n THEN table[i].amount ELSE 0

LEMMA UnitsType ==
    ASSUME NEW t, NEW A, NEW n, IsFiniteSet(A), \A i \in A : t[i].amount \in Nat
    PROVE  UnitsIn(t, A, n) \in Nat
<1> DEFINE S == {i \in A : t[i].name = n}
           f == [i \in A |-> t[i].amount]
<1>1. IsFiniteSet(S)
  BY FS_Subset
<1>2. \A i \in S : f[i] \in Nat
  OBVIOUS
<1>3. UnitsIn(t, A, n) = SumOver(f, S)
  BY DEF UnitsIn
<1> HIDE DEF S, f
<1> QED BY <1>1, <1>2, <1>3, SumNat

\* One row comes, goes or changes.
LEMMA UnitsShift ==
    ASSUME NEW t, NEW u, NEW A, NEW B, NEW id, NEW n, IsFiniteSet(A), B \ {id} = A \ {id},
           \A i \in A : t[i].amount \in Int, \A i \in B : u[i].amount \in Int,
           \A i \in A \ {id} : u[i].name = t[i].name /\ u[i].amount = t[i].amount
    PROVE  /\ IsFiniteSet(B)
           /\ UnitsIn(t, A, n) \in Int /\ UnitsIn(u, B, n) \in Int
           /\ UnitsIn(u, B, n) = UnitsIn(t, A, n) - Part(t, A, n, id) + Part(u, B, n, id)
<1> DEFINE S == {i \in A : t[i].name = n}
           T == {i \in B : u[i].name = n}
           f == [i \in A |-> t[i].amount]
           g == [i \in B |-> u[i].amount]
<1>1. UnitsIn(t, A, n) = SumOver(f, S) /\ UnitsIn(u, B, n) = SumOver(g, T)
  BY DEF UnitsIn
<1>2. IsFiniteSet(S)
  BY FS_Subset
<1>3. T \ {id} = S \ {id}
  OBVIOUS
<1>4. (\A i \in S : f[i] \in Int) /\ (\A i \in T : g[i] \in Int)
  OBVIOUS
<1>5. \A i \in S \ {id} : g[i] = f[i]
  OBVIOUS
<1>6. Part(t, A, n, id) = Share(f, S, id) /\ Part(u, B, n, id) = Share(g, T, id)
  BY DEF Part, Share
<1>7. IsFiniteSet(B)
  <2>1. IsFiniteSet(A \ {id})
    BY FS_RemoveElement
  <2>2. B = A \ {id} \/ B = (A \ {id}) \cup {id}
    OBVIOUS
  <2> QED BY <2>1, <2>2, FS_AddElement
<1> HIDE DEF S, T, f, g
<1>8. ASSUME NEW c, NEW d, NEW C, NEW D, C = S, D = T, c = f, d = g
      PROVE  /\ SumOver(c, C) \in Int /\ SumOver(d, D) \in Int
             /\ SumOver(d, D) = SumOver(c, C) - Share(c, C, id) + Share(d, D, id)
  <2>1. IsFiniteSet(C) /\ D \ {id} = C \ {id}
    BY <1>2, <1>3, <1>8
  <2>2. (\A i \in C : c[i] \in Int) /\ (\A i \in D : d[i] \in Int)
    BY <1>4, <1>8
  <2>3. \A i \in C \ {id} : d[i] = c[i]
    BY <1>5, <1>8
  <2>4. SumOver(c, C) \in Int
    BY <2>1, <2>2, SumType
  <2>5. SumOver(d, D) \in Int
    <3>1. IsFiniteSet(D)
      BY <1>7, <1>8, FS_Subset DEF T
    <3> QED BY <2>2, <3>1, SumType
  <2>6. SumOver(d, D) = SumOver(c, C) - Share(c, C, id) + Share(d, D, id)
    BY <2>1, <2>2, <2>3, SumShift
  <2> QED BY <2>4, <2>5, <2>6
<1> QED BY <1>1, <1>6, <1>7, <1>8

\* Rows keep their names and amounts.
LEMMA UnitsSame ==
    ASSUME NEW t, NEW u, NEW A, NEW n, \A i \in A : u[i].name = t[i].name /\ u[i].amount = t[i].amount
    PROVE  UnitsIn(u, A, n) = UnitsIn(t, A, n)
<1>1. [i \in A |-> u[i].amount] = [i \in A |-> t[i].amount]
  OBVIOUS
<1>2. {i \in A : u[i].name = n} = {i \in A : t[i].name = n}
  OBVIOUS
<1> QED BY <1>1, <1>2 DEF UnitsIn

LEMMA UnitsNone == \A t, n : UnitsIn(t, {}, n) = 0
<1> SUFFICES ASSUME NEW t, NEW n PROVE UnitsIn(t, {}, n) = 0
  OBVIOUS
<1>1. {i \in {} : t[i].name = n} = {}
  OBVIOUS
<1> QED BY <1>1, SumEmpty DEF UnitsIn

\* What row y has of item n.
One(t, y, n) == IF t[y].name = n THEN t[y].amount ELSE 0

\* Any row can be counted apart.
LEMMA UnitsOne ==
    ASSUME NEW t, NEW A, NEW n, NEW y \in A, IsFiniteSet(A), \A i \in A : t[i].amount \in Nat
    PROVE  /\ UnitsIn(t, A, n) \in Nat /\ UnitsIn(t, A \ {y}, n) \in Nat /\ One(t, y, n) \in Nat
           /\ UnitsIn(t, A, n) = UnitsIn(t, A \ {y}, n) + One(t, y, n)
<1>1. PICK R : R = A \ {y}
  OBVIOUS
<1>2. IsFiniteSet(R) /\ A \ {y} = R \ {y} /\ R \subseteq A
  BY <1>1, FS_RemoveElement
<1>3. (\A i \in R : t[i].amount \in Int) /\ (\A i \in A : t[i].amount \in Int)
  BY <1>2
<1>4. UnitsIn(t, A, n) = UnitsIn(t, R, n) - Part(t, R, n, y) + Part(t, A, n, y)
  BY <1>2, <1>3, UnitsShift
<1>5. Part(t, R, n, y) = 0 /\ Part(t, A, n, y) = One(t, y, n)
  BY <1>1 DEF Part, One
<1>6. UnitsIn(t, A, n) \in Nat /\ UnitsIn(t, R, n) \in Nat
  BY <1>2, UnitsType
<1>7. One(t, y, n) \in Nat
  BY DEF One
<1> QED BY <1>1, <1>4, <1>5, <1>6, <1>7

\* A table is the rows of each owner.
Shares(t, T, C, n) == [c \in C |-> UnitsIn(t, {i \in T : t[i].owner = c}, n)]

LEMMA UnitsSplit ==
    ASSUME NEW t, NEW A, NEW C, NEW n, IsFiniteSet(A), IsFiniteSet(C),
           \A i \in A : t[i].amount \in Nat /\ t[i].owner \in C
    PROVE  SumOver(Shares(t, A, C, n), C) = UnitsIn(t, A, n)
<1> DEFINE Of(T, c) == {i \in T : t[i].owner = c}
           B(k) == \E T \in SUBSET A : Cardinality(T) = k /\ SumOver(Shares(t, T, C, n), C) # UnitsIn(t, T, n)
           N == {k \in Nat : B(k)}
<1>0. \A s \in SUBSET A : IsFiniteSet(s) /\ Cardinality(s) \in Nat
  BY FS_Subset, FS_CardinalityType
<1>1. ASSUME NEW T \in SUBSET A, NEW c
      PROVE  IsFiniteSet(Of(T, c)) /\ UnitsIn(t, Of(T, c), n) \in Nat
  <2>1. Of(T, c) \in SUBSET A
    OBVIOUS
  <2>2. PICK D \in SUBSET A : D = Of(T, c)
    BY <2>1
  <2>3. IsFiniteSet(D) /\ UnitsIn(t, D, n) \in Nat
    BY <1>0, UnitsType
  <2> QED BY <2>2, <2>3
<1>2. N = {}
  <2> SUFFICES ASSUME N # {} PROVE FALSE
    OBVIOUS
  <2>1. PICK k \in N : \A m \in N : k <= m
    <3> HIDE DEF N
    <3>1. N \subseteq Nat
      BY DEF N
    <3> QED BY <3>1, Least
  <2>2. PICK T \in SUBSET A : Cardinality(T) = k /\ SumOver(Shares(t, T, C, n), C) # UnitsIn(t, T, n)
    OBVIOUS
  <2>3. T # {}
    <3> SUFFICES ASSUME T = {} PROVE FALSE
      OBVIOUS
    <3>1. UnitsIn(t, T, n) = 0
      BY UnitsNone
    <3>2. PICK f : f = Shares(t, T, C, n)
      OBVIOUS
    <3>3. \A c \in C : f[c] = 0
      <4> SUFFICES ASSUME NEW c \in C PROVE f[c] = 0
        OBVIOUS
      <4>1. Of(T, c) = {}
        OBVIOUS
      <4>2. f[c] = UnitsIn(t, Of(T, c), n)
        BY <3>2 DEF Shares
      <4> QED BY <4>1, <4>2, UnitsNone
    <3>4. SumOver(f, C) = Cardinality(C) * 0 /\ Cardinality(C) \in Nat
      <4>1. 0 \in Nat
        OBVIOUS
      <4> QED BY <3>3, <4>1, SumConst, FS_CardinalityType
    <3> QED BY <2>2, <3>1, <3>2, <3>4
  <2>4. PICK y \in T : TRUE
    BY <2>3
  <2>5. PICK R \in SUBSET A : R = T \ {y}
    OBVIOUS
  <2>6. Cardinality(R) = k - 1 /\ k - 1 \in Nat /\ k \in Nat
    BY <1>0, <2>2, <2>5, Smaller
  <2>7. ~B(k - 1)
    <3>2. k - 1 \notin N
      <4> HIDE DEF N
      <4> QED BY <2>1, <2>6
    <3> QED BY <2>6, <3>2
  <2>8. SumOver(Shares(t, R, C, n), C) = UnitsIn(t, R, n)
    BY <2>6, <2>7
  <2>9. UnitsIn(t, T, n) = UnitsIn(t, R, n) + One(t, y, n) /\ UnitsIn(t, R, n) \in Nat /\ One(t, y, n) \in Nat
    <3>1. IsFiniteSet(T) /\ \A i \in T : t[i].amount \in Nat
      BY <1>0
    <3> QED BY <2>5, <3>1, UnitsOne
  <2>10. PICK d \in C : d = t[y].owner
    OBVIOUS
  <2>11. PICK f, g : f = Shares(t, R, C, n) /\ g = Shares(t, T, C, n)
    OBVIOUS
  <2>12. \A c \in C : f[c] = UnitsIn(t, Of(R, c), n) /\ g[c] = UnitsIn(t, Of(T, c), n)
    BY <2>11 DEF Shares
  <2>13. \A c \in C : f[c] \in Int /\ g[c] \in Int
    <3> SUFFICES ASSUME NEW c \in C PROVE f[c] \in Int /\ g[c] \in Int
      OBVIOUS
    <3> HIDE DEF Of
    <3>1. UnitsIn(t, Of(R, c), n) \in Nat /\ UnitsIn(t, Of(T, c), n) \in Nat
      BY <1>1
    <3> QED BY <2>12, <3>1
  <2>14. \A c \in C \ {d} : g[c] = f[c]
    <3> SUFFICES ASSUME NEW c \in C \ {d} PROVE g[c] = f[c]
      OBVIOUS
    <3>1. Of(R, c) = Of(T, c)
      BY <2>5, <2>10
    <3> QED BY <2>12, <3>1
  <2>15. g[d] = f[d] + One(t, y, n)
    <3>1. Of(R, d) = Of(T, d) \ {y} /\ y \in Of(T, d)
      BY <2>5, <2>10
    <3>2. IsFiniteSet(Of(T, d)) /\ \A i \in Of(T, d) : t[i].amount \in Nat
      BY <1>1
    <3>3. PICK D : D = Of(T, d)
      OBVIOUS
    <3>4. UnitsIn(t, D, n) = UnitsIn(t, D \ {y}, n) + One(t, y, n)
      BY <3>1, <3>2, <3>3, UnitsOne
    <3> QED BY <2>12, <3>1, <3>3, <3>4
  <2>16. SumOver(g, C) = SumOver(f, C) - f[d] + g[d]
    BY <2>13, <2>14, SumUpdate
  <2>17. SumOver(f, C) \in Int
    BY <2>13, SumType
  <2> QED BY <2>2, <2>8, <2>9, <2>11, <2>13, <2>15, <2>16, <2>17
<1>3. ~B(Cardinality(A))
  BY <1>0, <1>2
<1> QED BY <1>0, <1>3

=============================================================================
