----------------------------- MODULE OrderLemmas -----------------------------
(***************************************************************************)
(* What the proofs need of orders and of counting: least elements of sets  *)
(* of naturals, that the library's sort sorts, and induction and recursion *)
(* on the naturals.  An induction is over the members of a set, not over   *)
(* an operator, so that it can be instantiated; a recursive function is    *)
(* made value by value, since the provers cannot choose one.               *)
(***************************************************************************)
EXTENDS Integers, SequencesExt, FiniteSetTheorems, WellFoundedInduction, TLAPS

(* A nonempty set of naturals has a least element.  The intervals below its  *)
(* members are finite sets, on which inclusion is well founded.              *)
LEMMA LeastNatural ==
  ASSUME NEW T, T \subseteq Nat, T # {}
  PROVE  \E x \in T : \A y \in T : x <= y
<1> DEFINE Below(n) == 1 .. n
           Intervals == {Below(n) : n \in T}
<1>1. IsWellFoundedOn(StrictSubsetOrdering(Nat), FiniteSubsetsOf(Nat))
  BY FS_StrictSubsetOrderingWellFounded
<1>2. Intervals \subseteq FiniteSubsetsOf(Nat)
  <2> SUFFICES ASSUME NEW n \in T PROVE Below(n) \in FiniteSubsetsOf(Nat)
    OBVIOUS
  <2>1. IsFiniteSet(1 .. n)
    BY FS_Interval
  <2> QED
    BY <2>1 DEF FiniteSubsetsOf
<1>3. Intervals # {}
  OBVIOUS
<1> HIDE DEF Intervals
<1>4. PICK m \in Intervals : \A y \in Intervals : ~(<<y, m>> \in StrictSubsetOrdering(Nat))
  BY <1>1, <1>2, <1>3, WFMin
<1>5. PICK x \in T : m = Below(x)
  BY DEF Intervals
<1>6. ASSUME NEW y \in T, y < x PROVE FALSE
  <2>1. Below(y) \in Intervals
    BY DEF Intervals
  <2>2. x \in Below(x) /\ x \notin Below(y)
    BY <1>6
  <2>3. Below(y) \subseteq Below(x) /\ Below(y) # Below(x)
    BY <2>2, <1>6
  <2>4. Below(y) \in SUBSET Nat /\ Below(x) \in SUBSET Nat
    OBVIOUS
  <2> QED
    BY <2>1, <2>3, <2>4, <1>4, <1>5 DEF StrictSubsetOrdering
<1> QED
  BY <1>6

(* The least element is what Min of the library is.                          *)
LEMMA MinIsLeast ==
  ASSUME NEW T, T \subseteq Nat, T # {}
  PROVE  Min(T) \in T /\ \A y \in T : Min(T) <= y
  BY LeastNatural DEF Min

(* R orders S strictly and totally.                                          *)
Orders(R, S) ==
  /\ \A k, l \in S : k # l => <<k, l>> \in R \/ <<l, k>> \in R
  /\ \A k, l, m \in S : <<k, l>> \in R /\ <<l, m>> \in R => <<k, m>> \in R
  /\ \A k \in S : <<k, k>> \notin R

UpTo(R, S, l) == {k \in S : k = l \/ <<k, l>> \in R}

(* s has each member of S at the place that the number of members up to it   *)
(* gives.                                                                    *)
Ranked(R, S, s) ==
  /\ s = [i \in 1 .. Cardinality(S) |-> s[i]]
  /\ \A i \in 1 .. Cardinality(S) :
       (\E l \in S : Cardinality(UpTo(R, S, l)) = i) =>
         s[i] \in S /\ Cardinality(UpTo(R, S, s[i])) = i

SortedBy(R, S, s) ==
  /\ Cardinality(S) \in Nat
  /\ s \in [1 .. Cardinality(S) -> S]
  /\ \A l \in S : \E i \in 1 .. Cardinality(S) : s[i] = l
  /\ \A i, j \in 1 .. Cardinality(S) : i < j => <<s[i], s[j]>> \in R

(* The members of a finite set, ranked by a strict total order, are all      *)
(* there and in that order.                                                  *)
LEMMA RankSorts ==
  ASSUME NEW S, IsFiniteSet(S), NEW R, Orders(R, S), NEW s, Ranked(R, S, s)
  PROVE  SortedBy(R, S, s)
<1> DEFINE Upto == [l \in S |-> UpTo(R, S, l)]
<1>0. /\ \A k, l \in S : k # l => <<k, l>> \in R \/ <<l, k>> \in R
      /\ \A k, l, m \in S : <<k, l>> \in R /\ <<l, m>> \in R => <<k, m>> \in R
      /\ \A k \in S : <<k, k>> \notin R
      /\ \A l \in S : Upto[l] = {k \in S : k = l \/ <<k, l>> \in R}
      /\ s = [i \in 1 .. Cardinality(S) |-> s[i]]
  BY DEF Orders, UpTo, Ranked
<1>00. \A i \in 1 .. Cardinality(S) :
         (\E l \in S : Cardinality(Upto[l]) = i) => s[i] \in S /\ Cardinality(Upto[s[i]]) = i
  <2>1. \A l \in S : Upto[l] = UpTo(R, S, l)
    OBVIOUS
  <2> QED
    BY <2>1 DEF Ranked
<1> HIDE DEF Upto
<1>1. PICK n \in Nat : n = Cardinality(S)
  BY FS_CardinalityType
<1>2. IsFiniteSet(1 .. n) /\ Cardinality(1 .. n) = n
  BY FS_Interval
<1>3. PICK rank : rank = [l \in S |-> Cardinality(Upto[l])]
  OBVIOUS
<1>4. ASSUME NEW l \in S PROVE IsFiniteSet(Upto[l]) /\ rank[l] = Cardinality(Upto[l]) /\ rank[l] \in 1 .. n
  <2>1. l \in Upto[l] /\ Upto[l] \subseteq S
    BY <1>0
  <2>2. IsFiniteSet(Upto[l]) /\ Cardinality(Upto[l]) <= n
    BY <2>1, <1>1, FS_Subset
  <2>3. Cardinality(Upto[l]) \in Nat
    BY <2>2, FS_CardinalityType
  <2>4. Cardinality(Upto[l]) # 0
    BY <2>1, <2>2, FS_EmptySet
  <2>5. rank[l] = Cardinality(Upto[l])
    BY <1>3
  <2> QED
    BY <2>2, <2>3, <2>4, <2>5
<1>5. ASSUME NEW k \in S, NEW l \in S, <<k, l>> \in R PROVE rank[k] < rank[l]
  <2>1. Upto[k] \subseteq Upto[l]
    BY <1>5, <1>0
  <2>2. l \in Upto[l] /\ l \notin Upto[k]
    BY <1>5, <1>0
  <2>3. Cardinality(Upto[k]) <= Cardinality(Upto[l])
    BY <2>1, <1>4, FS_Subset
  <2>4. Cardinality(Upto[k]) # Cardinality(Upto[l])
    BY <2>1, <2>2, <1>4, FS_Subset
  <2> QED
    BY <2>3, <2>4, <1>4
<1>6. ASSUME NEW k \in S, NEW l \in S, k # l PROVE rank[k] # rank[l]
  <2>1. rank[k] \in 1 .. n /\ rank[l] \in 1 .. n
    BY <1>4
  <2>2. <<k, l>> \in R \/ <<l, k>> \in R
    BY <1>6, <1>0
  <2>3. rank[k] < rank[l] \/ rank[l] < rank[k]
    BY <2>2, <1>5
  <2> QED
    BY <2>1, <2>3
<1>7. rank \in [S -> 1 .. n]
  <2>1. \A l \in S : Cardinality(Upto[l]) \in 1 .. n
    BY <1>4
  <2>2. [l \in S |-> Cardinality(Upto[l])] \in [S -> 1 .. n]
    BY <2>1, Zenon
  <2> QED
    BY <2>2, <1>3, Zenon
<1>8. rank \in Injection(S, 1 .. n)
  <2>1. \A k, l \in DOMAIN rank : rank[k] = rank[l] => k = l
    BY <1>6, <1>7
  <2> QED
    BY <2>1, <1>7, Zenon DEF Injection, IsInjective
<1>9. rank \in Surjection(S, 1 .. n)
  <2>1. Cardinality(S) = Cardinality(1 .. n)
    BY <1>1, <1>2
  <2>2. Cardinality(S) = Cardinality(1 .. n) <=> rank \in Surjection(S, 1 .. n)
    BY <1>2, <1>8, FS_Injection, Zenon
  <2> QED
    BY <2>1, <2>2
<1>10. \A i \in 1 .. n : \E l \in S : rank[l] = i
  BY <1>9 DEF Surjection
<1>11. \A i \in 1 .. n : s[i] \in S /\ rank[s[i]] = i
  <2> TAKE i \in 1 .. n
  <2>1. \E l \in S : Cardinality(Upto[l]) = i
    BY <1>10, <1>4
  <2>2. i \in 1 .. Cardinality(S)
    BY <1>1
  <2>3. s[i] \in S /\ Cardinality(Upto[s[i]]) = i
    BY <2>1, <2>2, <1>00, Zenon
  <2> QED
    BY <2>3, <1>4
<1>12. s \in [1 .. n -> S]
  BY <1>0, <1>1, <1>11
<1>13. \A l \in S : \E i \in 1 .. n : s[i] = l
  <2> TAKE l \in S
  <2>1. rank[l] \in 1 .. n /\ rank[s[rank[l]]] = rank[l] /\ s[rank[l]] \in S
    BY <1>7, <1>11
  <2> QED
    BY <2>1, <1>6
<1>14. ASSUME NEW i \in 1 .. n, NEW j \in 1 .. n, i < j PROVE <<s[i], s[j]>> \in R
  <2>1. s[i] \in S /\ s[j] \in S /\ rank[s[i]] = i /\ rank[s[j]] = j
    BY <1>11
  <2>2. s[i] # s[j] /\ ~(rank[s[j]] < rank[s[i]])
    BY <2>1, <1>14
  <2> QED
    BY <2>1, <2>2, <1>0, <1>5
<1> QED
  BY <1>1, <1>12, <1>13, <1>14 DEF SortedBy

(* Induction on the naturals, without an operator as a parameter.            *)
LEMMA SetInduction ==
  ASSUME NEW T, 0 \in T, \A n \in Nat : n \in T => n + 1 \in T
  PROVE  \A n \in Nat : n \in T
<1> SUFFICES ASSUME {n \in Nat : n \notin T} # {} PROVE FALSE
  OBVIOUS
<1>1. PICK x \in {n \in Nat : n \notin T} : \A y \in {n \in Nat : n \notin T} : x <= y
  BY LeastNatural
<1>2. x # 0 /\ x - 1 \in Nat
  BY <1>1
<1>3. x - 1 \in T
  BY <1>1, <1>2
<1>4. x - 1 + 1 \in T
  BY <1>2, <1>3
<1> QED
  BY <1>1, <1>4

(* Induction up to a bound.                                                  *)
LEMMA IntervalInduction ==
  ASSUME NEW N \in Nat, NEW T, 0 \in T, \A n \in 1 .. N : n - 1 \in T => n \in T
  PROVE  \A n \in 0 .. N : n \in T
<1> DEFINE U == {n \in Nat : n <= N => n \in T}
<1>1. 0 \in U
  OBVIOUS
<1>2. ASSUME NEW n \in Nat, n \in U PROVE n + 1 \in U
  <2> SUFFICES ASSUME n + 1 <= N PROVE n + 1 \in T
    OBVIOUS
  <2>1. n \in T /\ n + 1 \in 1 .. N /\ (n + 1) - 1 = n
    BY <1>2
  <2> QED
    BY <2>1
<1> HIDE DEF U
<1>3. \A n \in Nat : n \in U
  BY <1>1, <1>2, SetInduction
<1> QED
  BY <1>3 DEF U

(* f is a at 0, and up to k each value is made from the one before.          *)
Stepwise(f, k, a, G) == f[0] = a /\ \A n \in 1 .. k : f[n] = G[n][f[n - 1]]

Recursive(f, N, a, G) == f = [n \in 0 .. N |-> IF n = 0 THEN a ELSE G[n][f[n - 1]]]

(* One more step.                                                            *)
LEMMA OneMoreStep ==
  ASSUME NEW N \in Nat, NEW S, NEW a \in S, NEW G \in [1 .. N -> [S -> S]],
         NEW k \in 1 .. N, NEW f \in [0 .. k - 1 -> S], Stepwise(f, k - 1, a, G)
  PROVE  \E g \in [0 .. k -> S] : Stepwise(g, k, a, G)
<1>1. f[k - 1] \in S /\ k \in 1 .. N
  OBVIOUS
<1>2. G[k] \in [S -> S]
  BY <1>1
<1>3. G[k][f[k - 1]] \in S
  BY <1>1, <1>2, Zenon
<1>4. PICK v \in S : v = G[k][f[k - 1]]
  BY <1>3
<1>5. PICK g : g = [n \in 0 .. k |-> IF n = k THEN v ELSE f[n]]
  OBVIOUS
<1>6. g \in [0 .. k -> S]
  BY <1>5
<1>7. g[k] = v /\ \A n \in 0 .. k - 1 : g[n] = f[n]
  BY <1>5
<1>8. g[0] = a
  <2>1. 0 \in 0 .. k - 1
    OBVIOUS
  <2> QED
    BY <2>1, <1>7 DEF Stepwise
<1>9. ASSUME NEW n \in 1 .. k PROVE g[n] = G[n][g[n - 1]]
  <2>1. g[n - 1] = f[n - 1]
    BY <1>7
  <2>2. CASE n = k
    BY <2>1, <2>2, <1>4, <1>7, Zenon
  <2>3. CASE n # k
    <3>1. n \in 1 .. k - 1 /\ n \in 0 .. k - 1
      BY <2>3
    <3>2. f[n] = G[n][f[n - 1]]
      BY <3>1 DEF Stepwise
    <3> QED
      BY <3>1, <3>2, <2>1, <1>7, Zenon
  <2> QED
    BY <2>2, <2>3
<1> QED
  BY <1>6, <1>8, <1>9 DEF Stepwise

(* A function on 0 .. N is defined by its value at 0 and by what makes each  *)
(* of the others from the one before.                                        *)
LEMMA Recursion ==
  ASSUME NEW N \in Nat, NEW S, NEW a \in S, NEW G \in [1 .. N -> [S -> S]]
  PROVE  \E f : Recursive(f, N, a, G)
<1> DEFINE T == {k \in 0 .. N : \E f \in [0 .. k -> S] : Stepwise(f, k, a, G)}
<1>1. 0 \in T
  <2>1. PICK f : f = [n \in 0 .. 0 |-> a]
    OBVIOUS
  <2>2. f \in [0 .. 0 -> S] /\ f[0] = a
    BY <2>1
  <2>3. Stepwise(f, 0, a, G)
    BY <2>2 DEF Stepwise
  <2>4. 0 \in 0 .. N
    OBVIOUS
  <2> QED
    BY <2>2, <2>3, <2>4, Zenon
<1>2. ASSUME NEW k \in 1 .. N, k - 1 \in T PROVE k \in T
  <2>1. PICK f \in [0 .. k - 1 -> S] : Stepwise(f, k - 1, a, G)
    BY <1>2, Zenon
  <2>2. \E g \in [0 .. k -> S] : Stepwise(g, k, a, G)
    BY <2>1, OneMoreStep
  <2>3. k \in 0 .. N
    OBVIOUS
  <2> QED
    BY <2>2, <2>3, Zenon
<1> HIDE DEF T
<1>3. \A k \in 0 .. N : k \in T
  BY <1>1, <1>2, IntervalInduction
<1>4. N \in T
  BY <1>3
<1>5. PICK f \in [0 .. N -> S] : Stepwise(f, N, a, G)
  BY <1>4 DEF T
<1>6. \A n \in 0 .. N : f[n] = IF n = 0 THEN a ELSE G[n][f[n - 1]]
  <2> TAKE n \in 0 .. N
  <2>1. CASE n = 0
    BY <2>1, <1>5 DEF Stepwise
  <2>2. CASE n # 0
    <3>1. n \in 1 .. N
      BY <2>2
    <3> QED
      BY <3>1, <2>2, <1>5 DEF Stepwise
  <2> QED
    BY <2>1, <2>2
<1>7. f = [n \in 0 .. N |-> f[n]]
  OBVIOUS
<1>8. Recursive(f, N, a, G)
  BY <1>6, <1>7, Zenon DEF Recursive
<1> QED
  BY <1>8

(* Such a function has its values in S.                                      *)
LEMMA RecursionType ==
  ASSUME NEW N \in Nat, NEW S, NEW a \in S, NEW G \in [1 .. N -> [S -> S]],
         NEW f, Recursive(f, N, a, G)
  PROVE  f \in [0 .. N -> S] /\ f[0] = a /\ \A n \in 1 .. N : f[n] = G[n][f[n - 1]]
<1> DEFINE T == {n \in 0 .. N : f[n] \in S}
<1>0. DOMAIN f = 0 .. N /\ \A n \in 0 .. N : f[n] = IF n = 0 THEN a ELSE G[n][f[n - 1]]
  BY Zenon DEF Recursive
<1>1. f[0] = a /\ \A n \in 1 .. N : f[n] = G[n][f[n - 1]]
  <2>1. 0 \in 0 .. N
    OBVIOUS
  <2>2. ASSUME NEW n \in 1 .. N PROVE f[n] = G[n][f[n - 1]]
    <3>1. n \in 0 .. N /\ n # 0
      OBVIOUS
    <3> QED
      BY <3>1, <1>0, Zenon
  <2> QED
    BY <2>1, <2>2, <1>0, Zenon
<1>2. 0 \in T
  <2>1. 0 \in 0 .. N
    OBVIOUS
  <2>2. f[0] \in S
    BY <1>1, Zenon
  <2> QED
    BY <2>1, <2>2, Zenon
<1>3. ASSUME NEW n \in 1 .. N, n - 1 \in T PROVE n \in T
  <2>1. f[n - 1] \in S
    BY <1>3
  <2>2. G[n] \in [S -> S]
    OBVIOUS
  <2>3. G[n][f[n - 1]] \in S
    BY <2>1, <2>2, Zenon
  <2>4. n \in 0 .. N
    OBVIOUS
  <2> QED
    BY <2>3, <2>4, <1>1
<1> HIDE DEF T
<1>4. \A n \in 0 .. N : n \in T
  BY <1>2, <1>3, IntervalInduction
<1>5. \A n \in 0 .. N : f[n] \in S
  BY <1>4 DEF T
<1>6. \A n \in 0 .. N : (IF n = 0 THEN a ELSE G[n][f[n - 1]]) \in S
  BY <1>0, <1>5, Zenon
<1>7. f \in [0 .. N -> S]
  BY <1>6, Zenon DEF Recursive
<1> QED
  BY <1>1, <1>7

LEMMA Recursively ==
  ASSUME NEW N \in Nat, NEW S, NEW a \in S, NEW G \in [1 .. N -> [S -> S]]
  PROVE  \E f : Recursive(f, N, a, G) /\ \A n \in 1 .. N : f[n - 1] \in S
<1>1. PICK f : Recursive(f, N, a, G)
  BY Recursion
<1>2. f \in [0 .. N -> S]
  BY <1>1, RecursionType
<1>3. \A n \in 1 .. N : f[n - 1] \in S
  BY <1>2
<1> QED
  BY <1>1, <1>3

(* A nonempty set of integers up to a bound has a greatest element, which is *)
(* what Max of the library is.                                               *)
LEMMA MaxIsGreatest ==
  ASSUME NEW N \in Int, NEW T, T # {}, \A x \in T : x \in Int /\ x <= N
  PROVE  Max(T) \in T /\ \A y \in T : y <= Max(T)
<1> DEFINE U == {N - x : x \in T}
<1>1. U \subseteq Nat /\ U # {}
  OBVIOUS
<1>2. PICK u \in U : \A y \in U : u <= y
  BY <1>1, LeastNatural
<1>3. PICK x \in T : u = N - x
  OBVIOUS
<1>4. \A y \in T : N - y \in U
  OBVIOUS
<1>5. ASSUME NEW y \in T PROVE y <= x
  <2>1. u <= N - y
    BY <1>2, <1>4
  <2> QED
    BY <2>1, <1>3
<1>6. \E z \in T : \A y \in T : z >= y
  BY <1>5
<1> QED
  BY <1>6 DEF Max

LEMMA MinOfTwo ==
  ASSUME NEW x \in Int, NEW y \in Int
  PROVE  Min({x, y}) = (IF x <= y THEN x ELSE y)
  BY DEF Min

LEMMA MaxOfTwo ==
  ASSUME NEW x \in Int, NEW y \in Int
  PROVE  Max({x, y}) = (IF x >= y THEN x ELSE y)
  BY DEF Max

=============================================================================
