---------------------------- MODULE DataInduction ----------------------------
(***************************************************************************)
(* Induction and recursion without operator parameters.  The theorems of   *)
(* the library about both take an operator, which no prover here can       *)
(* instantiate; what is stated of sets and functions instead, they can:    *)
(* a set of numbers has a least element, because finite sets are well      *)
(* founded by inclusion, and everything else follows from it.              *)
(***************************************************************************)
EXTENDS Positions, FiniteSetTheorems, SequenceTheorems, WellFoundedInduction, TLAPS

-----------------------------------------------------------------------------
(***************************************************************************)
(* Induction.                                                              *)
(***************************************************************************)

\* Every set of natural numbers has a least element.
LEMMA Least ==
  ASSUME NEW B \in SUBSET Nat, B # {}
  PROVE  \E m \in B : \A k \in B : m <= k
<1> DEFINE S == StrictSubsetOrdering(Nat)
           T == {0 .. b : b \in B}
<1>1. IsWellFoundedOn(S, FiniteSubsetsOf(Nat))
  BY FS_StrictSubsetOrderingWellFounded
<1>2. T \subseteq FiniteSubsetsOf(Nat)
  <2>1. ASSUME NEW b \in B
        PROVE  IsFiniteSet(0 .. b) /\ 0 .. b \in SUBSET Nat
    BY FS_Interval
  <2> QED
    BY <2>1 DEF FiniteSubsetsOf
<1>3. T # {}
  OBVIOUS
<1> HIDE DEF T
<1>4. PICK x \in T : \A y \in T : ~(<<y, x>> \in S)
  BY <1>1, <1>2, <1>3, WFMin
<1>5. PICK m \in B : x = 0 .. m
  BY DEF T
<1>6. ASSUME NEW k \in B, ~(m <= k)
      PROVE  FALSE
  <2>1. 0 .. k \in T
    BY DEF T
  <2>2. m \in 0 .. m /\ m \notin 0 .. k /\ 0 .. k \subseteq 0 .. m
    BY <1>6
  <2>3. <<0 .. k, x>> \in S
    BY <1>5, <2>2 DEF StrictSubsetOrdering
  <2> QED
    BY <1>4, <2>1, <2>3
<1> QED
  BY <1>6

\* And a greatest one, if it is bounded.
LEMMA Greatest ==
  ASSUME NEW L \in Nat, NEW B \in SUBSET (0 .. L), B # {}
  PROVE  \E m \in B : \A k \in B : k <= m
<1> DEFINE A == {L - b : b \in B}
<1>1. A \in SUBSET Nat /\ A # {}
  OBVIOUS
<1>2. PICK a \in A : \A k \in A : a <= k
  <2> HIDE DEF A
  <2> QED
    BY <1>1, Least
<1>3. PICK m \in B : a = L - m
  OBVIOUS
<1>4. \A k \in B : L - m <= L - k
  BY <1>2, <1>3
<1>5. \A k \in B : k <= m
  BY <1>4
<1> QED
  BY <1>5

\* A set that holds 0 and with n also n + 1 holds every number.
LEMMA AllNaturals ==
  ASSUME NEW G, 0 \in G, \A n \in Nat : n \in G => n + 1 \in G
  PROVE  Nat \subseteq G
<1> DEFINE B == Nat \ G
<1> SUFFICES ASSUME B # {} PROVE FALSE
  OBVIOUS
<1>1. PICK m \in B : \A k \in B : m <= k
  <2>1. B \in SUBSET Nat
    OBVIOUS
  <2> HIDE DEF B
  <2> QED
    BY <2>1, Least
<1>2. m # 0 /\ m - 1 \in Nat /\ m - 1 \notin B
  BY <1>1
<1>3. (m - 1) + 1 \in G
  BY <1>2
<1> QED
  BY <1>1, <1>3

-----------------------------------------------------------------------------
(***************************************************************************)
(* Recursion.                                                              *)
(***************************************************************************)

\* h follows the steps of F from x up to n.
Follows(h, F, x, n) ==
  h[0] = x /\ \A k \in Nat : k < n => h[k + 1] = F[k + 1][h[k]]

LEMMA FollowsAlike ==
  ASSUME NEW F, NEW x, NEW n \in Nat, NEW h, NEW g,
         Follows(h, F, x, n), Follows(g, F, x, n)
  PROVE  \A k \in 0 .. n : h[k] = g[k]
<1> DEFINE G == {k \in Nat : k <= n => h[k] = g[k]}
<1>1. 0 \in G
  BY DEF Follows
<1>2. ASSUME NEW k \in Nat, k \in G
      PROVE  k + 1 \in G
  BY <1>2 DEF Follows
<1>3. Nat \subseteq G
  <2> HIDE DEF G
  <2> QED
    BY <1>1, <1>2, AllNaturals
<1> QED
  BY <1>3

\* g takes them all.  (The lemma is stated of this definition because the
\* provers instantiate it only while its quantifiers are out of their sight.)
Iterates(g, S, F, x) ==
  /\ g \in [Nat -> S]
  /\ g[0] = x
  /\ \A n \in Nat : g[n + 1] = F[n + 1][g[n]]

StepsOf(S, F) == F \in [Nat -> [S -> S]]

\* One step after the other: there is a function that takes them all.
LEMMA Iteration ==
  ASSUME NEW S, NEW F, StepsOf(S, F), NEW x \in S
  PROVE  \E g : Iterates(g, S, F, x)
<1>0. F \in [Nat -> [S -> S]]
  BY DEF StepsOf
<1> DEFINE G == {n \in Nat : \E h \in [Nat -> S] : Follows(h, F, x, n)}
<1>1. 0 \in G
  <2>1. [k \in Nat |-> x] \in [Nat -> S] /\ Follows([k \in Nat |-> x], F, x, 0)
    BY DEF Follows
  <2> QED
    BY <2>1
<1>2. ASSUME NEW n \in Nat, n \in G
      PROVE  n + 1 \in G
  <2>1. PICK h \in [Nat -> S] : Follows(h, F, x, n)
    BY <1>2
  <2> DEFINE g == [h EXCEPT ![n + 1] = F[n + 1][h[n]]]
  <2>2. g \in [Nat -> S]
    BY <1>0, <2>1
  <2>3. Follows(g, F, x, n + 1)
    BY <1>0, <2>1 DEF Follows
  <2> HIDE DEF g
  <2> QED
    BY <2>2, <2>3
<1>3. Nat \subseteq G
  <2> HIDE DEF G
  <2> QED
    BY <1>1, <1>2, AllNaturals
<1> DEFINE H(n) == CHOOSE h \in [Nat -> S] : Follows(h, F, x, n)
           g == [n \in Nat |-> H(n)[n]]
<1>4. ASSUME NEW n \in Nat
      PROVE  H(n) \in [Nat -> S] /\ Follows(H(n), F, x, n)
  BY <1>3
<1> HIDE DEF H
<1>5. g \in [Nat -> S] /\ g[0] = x
  BY <1>4 DEF Follows
<1>6. ASSUME NEW n \in Nat
      PROVE  g[n + 1] = F[n + 1][g[n]]
  <2>1. Follows(H(n), F, x, n) /\ Follows(H(n + 1), F, x, n + 1)
    BY <1>4
  <2>2. Follows(H(n + 1), F, x, n)
    BY <2>1 DEF Follows
  <2>3. H(n)[n] = H(n + 1)[n]
    BY <2>1, <2>2, FollowsAlike
  <2>4. H(n + 1)[n + 1] = F[n + 1][H(n + 1)[n]]
    BY <2>1 DEF Follows
  <2> QED
    BY <2>3, <2>4
<1> HIDE DEF g
<1> QED
  BY <1>5, <1>6 DEF Iterates

\* A table over 1 .. n whose entries are computed from smaller ones.
LooksBack(n, T, F) ==
  /\ F \in [1 .. n -> [[1 .. n -> T] -> T]]
  /\ \A j \in 1 .. n : \A s, t \in [1 .. n -> T] :
       (\A k \in 1 .. j - 1 : s[k] = t[k]) => F[j][s] = F[j][t]

IsTable(t, n, T, F) ==
  /\ t \in [1 .. n -> T]
  /\ \A j \in 1 .. n : t[j] = F[j][t]

LEMMA CourseOfValues ==
  ASSUME NEW n \in Nat, NEW T, NEW x \in T, NEW F, LooksBack(n, T, F)
  PROVE  \E t : IsTable(t, n, T, F)
<1> DEFINE D == 1 .. n
           S == [D -> T]
           start == [j \in D |-> x]
           step == [m \in Nat |-> [t \in S |->
                      IF m \in D THEN [t EXCEPT ![m] = F[m][t]] ELSE t]]
<1>1. /\ F \in [D -> [S -> T]]
      /\ \A j \in D : \A s, t \in S :
           (\A k \in 1 .. j - 1 : s[k] = t[k]) => F[j][s] = F[j][t]
  BY DEF LooksBack
<1>2. StepsOf(S, step) /\ start \in S
  BY <1>1 DEF StepsOf
<1>3. PICK g : Iterates(g, S, step, start)
  <2> HIDE DEF S, step, start
  <2> QED
    BY <1>2, Iteration
<1>4. \A m \in Nat : g[m] \in S
  <2> HIDE DEF S, step, start
  <2> QED
    BY <1>3 DEF Iterates
<1>5. ASSUME NEW m \in D
      PROVE  /\ g[m][m] = F[m][g[m - 1]]
             /\ \A j \in D : j # m => g[m][j] = g[m - 1][j]
  <2>1. m - 1 \in Nat /\ (m - 1) + 1 = m /\ m \in Nat
    OBVIOUS
  <2>2. g[m] = step[m][g[m - 1]]
    <3> HIDE DEF S, step, start
    <3> QED
      BY <1>3, <2>1 DEF Iterates
  <2>3. g[m - 1] \in S
    BY <1>4, <2>1
  <2>4. g[m] = [g[m - 1] EXCEPT ![m] = F[m][g[m - 1]]]
    BY <2>1, <2>2, <2>3
  <2> QED
    BY <2>3, <2>4
<1> HIDE DEF step, start
<1>6. ASSUME NEW j \in D
      PROVE  \A m \in Nat : m \in D /\ m >= j => g[m][j] = g[j][j]
  <2> DEFINE G == {m \in Nat : m \in D /\ m >= j => g[m][j] = g[j][j]}
  <2>1. 0 \in G
    OBVIOUS
  <2>2. ASSUME NEW m \in Nat, m \in G
        PROVE  m + 1 \in G
    <3>1. CASE m + 1 \in D /\ m + 1 > j
      <4>1. g[m + 1][j] = g[(m + 1) - 1][j]
        BY <1>5, <3>1
      <4> QED
        BY <2>2, <3>1, <4>1
    <3> QED
      BY <3>1
  <2>3. Nat \subseteq G
    <3> HIDE DEF G
    <3> QED
      BY <2>1, <2>2, AllNaturals
  <2> QED
    BY <2>3
<1>7. ASSUME NEW j \in D
      PROVE  g[n][j] = F[j][g[n]]
  <2>1. g[n][j] = F[j][g[j - 1]]
    BY <1>5, <1>6
  <2>2. \A k \in 1 .. j - 1 : g[j - 1][k] = g[n][k]
    <3> SUFFICES ASSUME NEW k \in 1 .. j - 1
                 PROVE  g[j - 1][k] = g[n][k]
      OBVIOUS
    <3>1. k \in D /\ j - 1 \in D /\ j - 1 \in Nat /\ j - 1 >= k /\ n \in D /\ n >= k
      OBVIOUS
    <3> QED
      BY <1>6, <3>1
  <2>3. g[j - 1] \in S /\ g[n] \in S
    BY <1>4
  <2> QED
    BY <1>1, <2>1, <2>2, <2>3
<1>8. g[n] \in S
  BY <1>4
<1> QED
  BY <1>7, <1>8 DEF IsTable

-----------------------------------------------------------------------------
(***************************************************************************)
(* Positions.                                                              *)
(***************************************************************************)

\* How many of S are at m or before.
UpTo(S, m) == {j \in S : j <= m}

\* Every position has its place in the order.
LEMMA EveryPlaceIsTaken ==
  ASSUME NEW L \in Nat, NEW S \in SUBSET (1 .. L), NEW n \in 1 .. Cardinality(S)
  PROVE  \E i \in S : Cardinality(UpTo(S, i)) = n
<1> DEFINE C(m) == Cardinality(UpTo(S, m))
           B == {m \in Nat : C(m) >= n}
<1>1. \A m : IsFiniteSet(UpTo(S, m)) /\ C(m) \in Nat
  <2>1. IsFiniteSet(1 .. L)
    BY FS_Interval
  <2>2. \A m : UpTo(S, m) \in SUBSET (1 .. L)
    BY DEF UpTo
  <2> QED
    BY <2>1, <2>2, FS_Subset, FS_CardinalityType
<1>2. \A j \in S : j \in Nat /\ 0 < j /\ j <= L
  OBVIOUS
<1>3. B # {}
  <2>1. \A j : j \in UpTo(S, L) <=> j \in S
    BY <1>2 DEF UpTo
  <2>2. C(L) = Cardinality(S)
    BY <2>1
  <2>3. Cardinality(S) >= n
    BY <1>1, <2>2
  <2> QED
    BY <2>2, <2>3
<1>4. PICK m \in B : \A k \in B : m <= k
  <2>1. B \in SUBSET Nat
    OBVIOUS
  <2> HIDE DEF B
  <2> QED
    BY <1>3, <2>1, Least
<1>5. m # 0
  <2>1. ASSUME NEW j \in UpTo(S, 0) PROVE FALSE
    <3>1. j \in S /\ j <= 0
      BY DEF UpTo
    <3>2. j \in Nat /\ 0 < j
      BY <1>2, <3>1
    <3> QED
      BY <3>1, <3>2
  <2>2. UpTo(S, 0) = {}
    BY <2>1
  <2> QED
    BY <2>2, FS_EmptySet
<1>6. m - 1 \in Nat /\ ~(C(m - 1) >= n)
  BY <1>4, <1>5
<1>7. /\ m \in Nat
      /\ \A j \in S : (j <= m <=> j <= m - 1 \/ j = m)
      /\ m <= m /\ ~(m <= m - 1)
  <2>1. m \in Nat
    BY <1>4
  <2>2. \A j \in Nat : j <= m <=> j <= m - 1 \/ j = m
    BY <2>1
  <2> QED
    BY <1>2, <2>1, <2>2
<1>8. m \in S /\ C(m) = n
  <2>1. CASE m \notin S
    <3>1. \A j \in S : j <= m <=> j <= m - 1
      BY <1>7, <2>1
    <3>2. UpTo(S, m) = UpTo(S, m - 1)
      BY <3>1 DEF UpTo
    <3> QED
      BY <1>4, <1>6, <3>2
  <2>2. CASE m \in S
    <3>1. /\ \A j \in S : j <= m <=> j <= m - 1 \/ j = m
          /\ m <= m /\ ~(m <= m - 1)
      BY <1>7
    <3>2. UpTo(S, m) = UpTo(S, m - 1) \cup {m} /\ m \notin UpTo(S, m - 1)
      BY <2>2, <3>1 DEF UpTo
    <3>3. C(m) = C(m - 1) + 1
      BY <1>1, <3>2, FS_AddElement
    <3> QED
      BY <1>1, <1>4, <1>6, <2>2, <3>3
  <2> QED
    BY <2>1, <2>2
<1> QED
  BY <1>8

\* The rank of a position grows with it.
LEMMA Ranks ==
  ASSUME NEW L \in Nat, NEW S \in SUBSET (1 .. L)
  PROVE  /\ IsFiniteSet(S) /\ Cardinality(S) \in Nat
         /\ \A i \in S : Cardinality(UpTo(S, i)) \in 1 .. Cardinality(S)
         /\ \A i, j \in S : i < j => Cardinality(UpTo(S, i)) < Cardinality(UpTo(S, j))
<1>1. IsFiniteSet(S) /\ Cardinality(S) \in Nat
  <2>1. IsFiniteSet(1 .. L)
    BY FS_Interval
  <2> QED
    BY <2>1, FS_Subset, FS_CardinalityType
<1>2. \A j : UpTo(S, j) \subseteq S /\ IsFiniteSet(UpTo(S, j))
              /\ Cardinality(UpTo(S, j)) \in Nat /\ Cardinality(UpTo(S, j)) <= Cardinality(S)
  <2>1. \A j : UpTo(S, j) \subseteq S
    BY DEF UpTo
  <2> QED
    BY <1>1, <2>1, FS_Subset, FS_CardinalityType
<1>3. ASSUME NEW i \in S
      PROVE  Cardinality(UpTo(S, i)) # 0
  <2>1. i \in UpTo(S, i)
    BY DEF UpTo
  <2> QED
    BY <1>2, <2>1, FS_EmptySet
<1>4. ASSUME NEW i \in S, NEW j \in S, i < j
      PROVE  Cardinality(UpTo(S, i)) < Cardinality(UpTo(S, j))
  <2>1. j \in UpTo(S, j) /\ j \notin UpTo(S, i)
    BY <1>4 DEF UpTo
  <2>2. UpTo(S, i) \subseteq UpTo(S, j)
    <3>1. \A a \in UpTo(S, i) : a <= j
      BY <1>4 DEF UpTo
    <3> QED
      BY <3>1 DEF UpTo
  <2>3. Cardinality(UpTo(S, i)) <= Cardinality(UpTo(S, j))
        /\ Cardinality(UpTo(S, i)) # Cardinality(UpTo(S, j))
    BY <1>2, <2>1, <2>2, FS_Subset
  <2> QED
    BY <1>2, <2>3
<1> QED
  BY <1>1, <1>2, <1>3, <1>4

\* InOrder has the positions it is given and no others, from the first to the
\* last.
LEMMA OrderKeeps ==
  ASSUME NEW L \in Nat, NEW S \in SUBSET (1 .. L)
  PROVE  /\ Cardinality(S) \in Nat
         /\ DOMAIN InOrder(S) = 1 .. Cardinality(S)
         /\ \A n \in DOMAIN InOrder(S) : InOrder(S)[n] \in S
         /\ \A i \in S : \E n \in DOMAIN InOrder(S) : InOrder(S)[n] = i
         /\ \A m, n \in DOMAIN InOrder(S) : m < n => InOrder(S)[m] < InOrder(S)[n]
<1>1. /\ DOMAIN InOrder(S) = 1 .. Cardinality(S)
      /\ \A n \in 1 .. Cardinality(S) :
           InOrder(S)[n] = CHOOSE i \in S : Cardinality(UpTo(S, i)) = n
  BY DEF InOrder, UpTo
<1>2. ASSUME NEW n \in 1 .. Cardinality(S)
      PROVE  InOrder(S)[n] \in S /\ Cardinality(UpTo(S, InOrder(S)[n])) = n
  <2>1. \E i \in S : Cardinality(UpTo(S, i)) = n
    BY EveryPlaceIsTaken
  <2> QED
    BY <1>1, <2>1
<1>3. \A i \in S : Cardinality(UpTo(S, i)) \in 1 .. Cardinality(S)
  BY Ranks
<1>4. \A i, j \in S : i < j => Cardinality(UpTo(S, i)) < Cardinality(UpTo(S, j))
  BY Ranks
<1>5. Cardinality(S) \in Nat
  BY Ranks
<1>6. \A i, j \in S : i < j \/ j < i \/ i = j
  OBVIOUS
<1>7. ASSUME NEW m \in 1 .. Cardinality(S), NEW n \in 1 .. Cardinality(S), m < n
      PROVE  InOrder(S)[m] < InOrder(S)[n]
  <2>1. /\ InOrder(S)[m] \in S /\ Cardinality(UpTo(S, InOrder(S)[m])) = m
        /\ InOrder(S)[n] \in S /\ Cardinality(UpTo(S, InOrder(S)[n])) = n
    BY <1>2
  <2>2. InOrder(S)[n] < InOrder(S)[m] => n < m
    BY <1>4, <2>1
  <2>3. m \in Nat /\ n \in Nat
    BY <1>5
  <2>4. InOrder(S)[m] # InOrder(S)[n] /\ ~(n < m)
    BY <1>7, <2>1, <2>3
  <2> QED
    BY <1>6, <2>1, <2>2, <2>4
<1>8. ASSUME NEW i \in S
      PROVE  \E n \in 1 .. Cardinality(S) : InOrder(S)[n] = i
  <2>1. Cardinality(UpTo(S, i)) \in 1 .. Cardinality(S)
    BY <1>3
  <2>2. PICK n \in 1 .. Cardinality(S) : n = Cardinality(UpTo(S, i))
    BY <2>1
  <2>3. InOrder(S)[n] \in S /\ Cardinality(UpTo(S, InOrder(S)[n])) = n
    BY <1>2
  <2>4. InOrder(S)[n] < i \/ i < InOrder(S)[n] => n < n
    BY <1>4, <2>2, <2>3
  <2>5. ~(n < n)
    BY <1>5
  <2>6. InOrder(S)[n] = i
    BY <1>6, <2>3, <2>4, <2>5
  <2> QED
    BY <2>6
<1> QED
  BY <1>1, <1>2, <1>5, <1>7, <1>8

\* And nothing else lists them like that.
Lists(f, m, S) ==
  /\ f \in [1 .. m -> S]
  /\ \A i \in S : \E n \in 1 .. m : f[n] = i
  /\ \A k, n \in 1 .. m : k < n => f[k] < f[n]

LEMMA OrderIsUnique ==
  ASSUME NEW L \in Nat, NEW S \in SUBSET (1 .. L), NEW m \in Nat, NEW f, Lists(f, m, S)
  PROVE  m = Cardinality(S) /\ f = InOrder(S)
<1>0. \A i \in S : i \in Nat
  OBVIOUS
<1>1. /\ f \in [1 .. m -> S]
      /\ \A i \in S : \E n \in 1 .. m : f[n] = i
      /\ \A k, n \in 1 .. m : k < n => f[k] < f[n]
  BY DEF Lists
<1>2. ASSUME NEW k \in 1 .. m, NEW n \in 1 .. m, f[k] <= f[n]
      PROVE  k <= n
  <2>1. f[k] \in Nat /\ f[n] \in Nat
    BY <1>0, <1>1
  <2> QED
    BY <1>1, <1>2, <2>1
<1>3. ASSUME NEW k \in 1 .. m, NEW n \in 1 .. m, k <= n
      PROVE  f[k] <= f[n]
  <2>1. f[k] \in Nat /\ f[n] \in Nat
    BY <1>0, <1>1
  <2> QED
    BY <1>1, <1>3, <2>1
<1>4. ASSUME NEW n \in 1 .. m
      PROVE  Cardinality(UpTo(S, f[n])) = n
  <2> DEFINE g == [k \in 1 .. n |-> f[k]]
             T == UpTo(S, f[n])
  <2>1. \A k \in 1 .. n : k \in 1 .. m
    OBVIOUS
  <2>2. g \in [1 .. n -> T]
    <3>1. ASSUME NEW k \in 1 .. n  PROVE f[k] \in T
      BY <1>1, <1>3, <2>1 DEF UpTo
    <3> QED
      BY <3>1
  <2>3. \A j, k \in 1 .. n : g[j] = g[k] => j = k
    <3>1. ASSUME NEW j \in 1 .. n, NEW k \in 1 .. n, f[j] = f[k]  PROVE j = k
      <4>1. j \in 1 .. m /\ k \in 1 .. m
        BY <2>1
      <4>2. f[j] \in S
        BY <1>1, <4>1
      <4>3. f[j] <= f[k] /\ f[k] <= f[j]
        <5>1. f[j] \in Nat
          BY <1>0, <4>2
        <5> QED
          BY <3>1, <5>1
      <4>4. j <= k /\ k <= j
        BY <1>2, <4>1, <4>3
      <4> QED
        BY <4>4
    <3> QED
      BY <3>1
  <2>4. \A i \in T : \E k \in 1 .. n : g[k] = i
    <3> SUFFICES ASSUME NEW i \in T PROVE \E k \in 1 .. n : f[k] = i
      OBVIOUS
    <3>1. i \in S /\ i <= f[n]
      BY DEF UpTo
    <3>2. PICK k \in 1 .. m : f[k] = i
      BY <1>1, <3>1
    <3>3. k <= n
      BY <1>2, <3>1, <3>2
    <3> QED
      BY <3>2, <3>3
  <2> HIDE DEF g, T
  <2>5. g \in Bijection(1 .. n, T)
    BY <2>2, <2>3, <2>4 DEF Bijection, Injection, Surjection, IsInjective
  <2>6. ExistsBijection(1 .. n, T)
    BY <2>5 DEF ExistsBijection
  <2>7. n \in Nat
    OBVIOUS
  <2>8. Cardinality(T) = n
    BY <2>6, <2>7, FS_CountingElements
  <2> QED
    BY <2>8 DEF T
<1>5. m = Cardinality(S)
  <2>1. CASE m = 0
    <3>1. S = {}
      BY <1>1, <2>1
    <3> QED
      BY <2>1, <3>1, FS_EmptySet
  <2>2. CASE m # 0
    <3>1. m \in 1 .. m
      BY <2>2
    <3>2. UpTo(S, f[m]) = S
      <4>1. \A i \in S : i <= f[m]
        BY <1>1, <1>3, <3>1
      <4> QED
        BY <4>1 DEF UpTo
    <3> QED
      BY <1>4, <3>1, <3>2
  <2> QED
    BY <2>1, <2>2
<1>6. ASSUME NEW n \in 1 .. m
      PROVE  InOrder(S)[n] = f[n]
  <2>1. InOrder(S)[n] = CHOOSE i \in S : Cardinality(UpTo(S, i)) = n
    BY <1>5 DEF InOrder, UpTo
  <2>2. f[n] \in S /\ Cardinality(UpTo(S, f[n])) = n
    BY <1>1, <1>4
  <2>3. ASSUME NEW i \in S, Cardinality(UpTo(S, i)) = n
        PROVE  i = f[n]
    <3>1. PICK k \in 1 .. m : f[k] = i
      BY <1>1
    <3>2. Cardinality(UpTo(S, f[k])) = k
      BY <1>4
    <3> QED
      BY <2>3, <3>1, <3>2
  <2> QED
    BY <2>1, <2>2, <2>3
<1>7. InOrder(S) = [n \in 1 .. m |-> InOrder(S)[n]]
  <2> DEFINE ranked(n) == CHOOSE i \in S : Cardinality({j \in S : j <= i}) = n
  <2>1. InOrder(S) = [n \in 1 .. m |-> ranked(n)]
    BY <1>5 DEF InOrder
  <2> HIDE DEF ranked
  <2> QED
    BY <2>1
<1>8. f = [n \in 1 .. m |-> f[n]]
  BY <1>1
<1> QED
  BY <1>5, <1>6, <1>7, <1>8

\* A function on the first numbers is a list of that length.
LEMMA LengthOf ==
  ASSUME NEW m \in Nat, NEW f, f = [i \in 1 .. m |-> f[i]]
  PROVE  Len(f) = m /\ DOMAIN f = 1 .. m
<1>1. f \in [1 .. m -> {f[i] : i \in 1 .. m}] /\ DOMAIN f = 1 .. m
  OBVIOUS
<1>2. f \in Seq({f[i] : i \in 1 .. m})
  BY <1>1, SeqDef
<1>3. Len(f) \in Nat /\ DOMAIN f = 1 .. Len(f)
  BY <1>2, LenProperties
<1>4. QED  BY <1>1, <1>3

-----------------------------------------------------------------------------
(***************************************************************************)
(* The part of a list at some positions.                                   *)
(***************************************************************************)
LEMMA OrderLists ==
  ASSUME NEW L \in Nat, NEW S \in SUBSET (1 .. L)
  PROVE  Cardinality(S) \in Nat /\ Lists(InOrder(S), Cardinality(S), S)
<1>1. /\ Cardinality(S) \in Nat
      /\ DOMAIN InOrder(S) = 1 .. Cardinality(S)
      /\ \A n \in DOMAIN InOrder(S) : InOrder(S)[n] \in S
      /\ \A i \in S : \E n \in DOMAIN InOrder(S) : InOrder(S)[n] = i
      /\ \A m, n \in DOMAIN InOrder(S) : m < n => InOrder(S)[m] < InOrder(S)[n]
  BY OrderKeeps
<1>2. InOrder(S) \in [1 .. Cardinality(S) -> S]
  <2> DEFINE ranked(n) == CHOOSE i \in S : Cardinality({j \in S : j <= i}) = n
  <2>1. InOrder(S) = [n \in 1 .. Cardinality(S) |-> ranked(n)]
    BY DEF InOrder
  <2> HIDE DEF ranked
  <2>2. QED  BY <1>1, <2>1
<1>3. QED  BY <1>1, <1>2 DEF Lists

LEMMA PartIsList ==
  ASSUME NEW L \in Nat, NEW S \in SUBSET (1 .. L), NEW list
  PROVE  /\ Len(Part(list, S)) = Cardinality(S)
         /\ DOMAIN Part(list, S) = 1 .. Cardinality(S)
         /\ \A n \in 1 .. Cardinality(S) : Part(list, S)[n] = list[InOrder(S)[n]]
<1>1. Cardinality(S) \in Nat
  BY OrderLists
<1>2. /\ Part(list, S) = [n \in 1 .. Cardinality(S) |-> Part(list, S)[n]]
      /\ \A n \in 1 .. Cardinality(S) : Part(list, S)[n] = list[InOrder(S)[n]]
  BY DEF Part
<1>3. QED  BY <1>1, <1>2, LengthOf

LEMMA PartOfNothing ==
  ASSUME NEW list
  PROVE  Part(list, {}) = <<>>
<1>1. Cardinality({}) = 0
  BY FS_EmptySet
<1>2. QED  BY <1>1 DEF Part

\* The places in a part that are taken from some of its positions.
PlacesOf(S, T) == {k \in 1 .. Cardinality(S) : InOrder(S)[k] \in T}

\* What is left of a part is a part of the whole.
LEMMA PartOfPart ==
  ASSUME NEW L \in Nat, NEW S \in SUBSET (1 .. L), NEW T \in SUBSET S, NEW list
  PROVE  Part(Part(list, S), PlacesOf(S, T)) = Part(list, T)
<1> DEFINE M == Cardinality(S)
           K == {k \in 1 .. M : InOrder(S)[k] \in T}
           m == Cardinality(K)
           f == [n \in 1 .. m |-> InOrder(S)[InOrder(K)[n]]]
<1>1. M \in Nat /\ Lists(InOrder(S), M, S)
  BY OrderLists
<1>2. K \in SUBSET (1 .. M)
  OBVIOUS
<1> DEFINE s == InOrder(S)
           q == InOrder(K)
<1>3. m \in Nat /\ Lists(q, m, K)
  <2> HIDE DEF K
  <2>1. QED  BY <1>1, <1>2, OrderLists
<1>4. /\ \A k \in 1 .. M : s[k] \in S
      /\ \A i \in S : \E k \in 1 .. M : s[k] = i
      /\ \A j, k \in 1 .. M : j < k => s[j] < s[k]
  BY <1>1 DEF Lists
<1>5. /\ \A n \in 1 .. m : q[n] \in K
      /\ \A k \in K : \E n \in 1 .. m : q[n] = k
      /\ \A j, k \in 1 .. m : j < k => q[j] < q[k]
  BY <1>3 DEF Lists
<1>6. \A k : k \in K <=> k \in 1 .. M /\ s[k] \in T
  OBVIOUS
<1> HIDE DEF M, K, m, s, q
<1>7. Lists(f, m, T)
  <2>1. f \in [1 .. m -> T]
    BY <1>5, <1>6 DEF s, q
  <2>2. ASSUME NEW i \in T
        PROVE  \E n \in 1 .. m : f[n] = i
    <3>1. PICK k \in 1 .. M : s[k] = i
      BY <1>4
    <3>2. PICK n \in 1 .. m : q[n] = k
      BY <1>5, <1>6, <3>1
    <3>3. QED  BY <3>1, <3>2 DEF s, q
  <2>3. ASSUME NEW j \in 1 .. m, NEW k \in 1 .. m, j < k
        PROVE  f[j] < f[k]
    <3>1. q[j] < q[k] /\ q[j] \in 1 .. M /\ q[k] \in 1 .. M
      BY <1>5, <1>6, <2>3
    <3>2. s[q[j]] < s[q[k]]
      BY <1>4, <3>1
    <3>3. QED  BY <3>2 DEF s, q
  <2>4. QED  BY <2>1, <2>2, <2>3 DEF Lists
<1>8. m = Cardinality(T) /\ f = InOrder(T)
  <2>1. T \in SUBSET (1 .. L)
    OBVIOUS
  <2> HIDE DEF f
  <2>2. QED  BY <1>3, <1>7, <2>1, OrderIsUnique
<1>9. \A n \in 1 .. m : Part(list, S)[q[n]] = list[InOrder(T)[n]]
  <2>1. \A n \in 1 .. m : q[n] \in 1 .. M
    BY <1>5, <1>6
  <2>2. \A k \in 1 .. M : Part(list, S)[k] = list[s[k]]
    BY PartIsList DEF M, s
  <2>3. \A n \in 1 .. m : InOrder(T)[n] = s[q[n]]
    BY <1>8 DEF s, q
  <2>4. QED  BY <2>1, <2>2, <2>3
<1>10. Part(Part(list, S), K) = [n \in 1 .. m |-> Part(list, S)[q[n]]]
  BY DEF Part, m, q
<1>11. Part(list, T) = [n \in 1 .. m |-> list[InOrder(T)[n]]]
  BY <1>8 DEF Part
<1>12. Part(Part(list, S), K) = Part(list, T)
  BY <1>9, <1>10, <1>11
<1>13. QED  BY <1>12 DEF K, M, PlacesOf

\* One position more, after all others, is one element more at the end.
LEMMA PartOfMore ==
  ASSUME NEW L \in Nat, NEW S \in SUBSET (1 .. L), NEW list
  PROVE  Part(list, S \cup {L + 1}) = Append(Part(list, S), list[L + 1])
<1> DEFINE M == Cardinality(S)
           T == S \cup {L + 1}
           s == InOrder(S)
           f == [n \in 1 .. M + 1 |-> IF n = M + 1 THEN L + 1 ELSE s[n]]
<1>1. M \in Nat /\ Lists(s, M, S)
  BY OrderLists
<1>2. /\ \A k \in 1 .. M : s[k] \in S
      /\ \A i \in S : \E k \in 1 .. M : s[k] = i
      /\ \A j, k \in 1 .. M : j < k => s[j] < s[k]
  BY <1>1 DEF Lists
<1>3. T \in SUBSET (1 .. L + 1) /\ \A i \in S : i \in 1 .. L
  OBVIOUS
<1> HIDE DEF M, s
<1>4. Lists(f, M + 1, T)
  <2>1. f \in [1 .. M + 1 -> T]
    BY <1>1, <1>2
  <2>2. \A i \in T : \E n \in 1 .. M + 1 : f[n] = i
    <3> SUFFICES ASSUME NEW i \in T PROVE \E n \in 1 .. M + 1 : f[n] = i
      OBVIOUS
    <3>1. CASE i = L + 1
      BY <1>1, <3>1
    <3>2. CASE i \in S
      <4>1. PICK k \in 1 .. M : s[k] = i
        BY <1>2, <3>2
      <4>2. k \in 1 .. M + 1 /\ k # M + 1
        BY <1>1
      <4>3. QED  BY <4>1, <4>2
    <3>3. QED  BY <3>1, <3>2
  <2>3. ASSUME NEW j \in 1 .. M + 1, NEW k \in 1 .. M + 1, j < k
        PROVE  f[j] < f[k]
    <3>1. j \in 1 .. M /\ f[j] = s[j] /\ s[j] \in 1 .. L
      <4>1. j \in 1 .. M /\ j \in 1 .. M + 1 /\ j # M + 1
        BY <1>1, <2>3
      <4>2. s[j] \in 1 .. L
        BY <1>2, <1>3, <4>1
      <4>3. QED  BY <4>1, <4>2
    <3>2. CASE k = M + 1
      BY <3>1, <3>2
    <3>3. CASE k # M + 1
      <4>1. k \in 1 .. M /\ f[k] = s[k]
        BY <1>1, <3>3
      <4>2. QED  BY <1>2, <2>3, <3>1, <4>1
    <3>4. QED  BY <3>2, <3>3
  <2> HIDE DEF f, T
  <2>4. QED  BY <2>1, <2>2, <2>3 DEF Lists
<1>5. M + 1 = Cardinality(T) /\ f = InOrder(T)
  <2> HIDE DEF f, T
  <2>1. L + 1 \in Nat /\ M + 1 \in Nat
    BY <1>1
  <2>2. QED  BY <1>3, <1>4, <2>1, OrderIsUnique
<1> DEFINE more == [n \in 1 .. M + 1 |-> list[f[n]]]
<1>6. Part(list, T) = more
  <2>1. Part(list, T) = [n \in 1 .. Cardinality(T) |-> list[InOrder(T)[n]]]
    BY DEF Part
  <2> HIDE DEF f, T
  <2>2. QED  BY <1>5, <2>1
<1>7. /\ Len(Part(list, S)) = M
      /\ \A n \in 1 .. M : Part(list, S)[n] = list[s[n]]
  BY PartIsList DEF M, s
<1>8. \A n \in 1 .. M + 1 :
        more[n] = IF n = M + 1 THEN list[L + 1] ELSE Part(list, S)[n]
  BY <1>1, <1>7
<1> HIDE DEF more
<1>9. more = [n \in 1 .. M + 1 |-> more[n]]
  BY DEF more
<1>10. Append(Part(list, S), list[L + 1]) =
         [n \in 1 .. M + 1 |-> IF n = M + 1 THEN list[L + 1] ELSE Part(list, S)[n]]
  BY <1>7 DEF Append
<1>11. QED  BY <1>6, <1>8, <1>9, <1>10

\* Lists that agree at some positions have the same part there.
LEMMA PartAgrees ==
  ASSUME NEW L \in Nat, NEW S \in SUBSET (1 .. L), NEW a, NEW b, \A i \in S : a[i] = b[i]
  PROVE  Part(a, S) = Part(b, S)
<1>1. \A n \in 1 .. Cardinality(S) : InOrder(S)[n] \in S
  BY OrderLists DEF Lists
<1>2. QED  BY <1>1 DEF Part

\* The positions of a list with none of some values, and the part of a part there.
Sparing(list, gone) == {k \in DOMAIN list : list[k] \notin gone}

LEMMA PartLess ==
  \A L \in Nat : \A S \in SUBSET (1 .. L) : \A list, gone, T :
    (\A i : i \in T <=> i \in S /\ list[i] \notin gone) =>
      Part(Part(list, S), Sparing(Part(list, S), gone)) = Part(list, T)
<1> SUFFICES ASSUME NEW L \in Nat, NEW S \in SUBSET (1 .. L), NEW list, NEW gone,
                    NEW T, \A i : i \in T <=> i \in S /\ list[i] \notin gone
             PROVE  Part(Part(list, S), Sparing(Part(list, S), gone)) = Part(list, T)
  OBVIOUS
<1> DEFINE part == Part(list, S)
<1>1. \A n \in 1 .. Cardinality(S) : InOrder(S)[n] \in S
  BY OrderLists DEF Lists
<1>2. /\ DOMAIN part = 1 .. Cardinality(S)
      /\ \A n \in 1 .. Cardinality(S) : part[n] = list[InOrder(S)[n]]
  BY PartIsList
<1> HIDE DEF part
<1>3. Sparing(part, gone) = PlacesOf(S, T)
  BY <1>1, <1>2 DEF PlacesOf, Sparing
<1>4. T \in SUBSET S
  OBVIOUS
<1>5. Part(part, PlacesOf(S, T)) = Part(list, T)
  BY <1>4, PartOfPart DEF part
<1>6. QED  BY <1>3, <1>5 DEF part

-----------------------------------------------------------------------------
(***************************************************************************)
(* Who speaks last.  H holds the numbers of steps after which something    *)
(* holds: a step at a position of P decides it, as Y says, and every other *)
(* step leaves it as it was.                                               *)
(***************************************************************************)
StepsDecide(S, P, Y, H) ==
  \A n \in 1 .. Cardinality(S) :
    /\ InOrder(S)[n] \in P => (n \in H <=> InOrder(S)[n] \in Y)
    /\ InOrder(S)[n] \notin P => (n \in H <=> n - 1 \in H)

LEMMA LastInOrder ==
  ASSUME NEW L \in Nat, NEW S \in SUBSET (1 .. L)
  PROVE  \A P, Y, H :
           P \subseteq S /\ Y \subseteq P /\ StepsDecide(S, P, Y, H) =>
             (Cardinality(S) \in H <=>
                (\E i \in Y : \A j \in P : j <= i) \/ (P = {} /\ 0 \in H))
<1> SUFFICES ASSUME NEW P, NEW Y, NEW H,
                    P \subseteq S, Y \subseteq P, StepsDecide(S, P, Y, H)
             PROVE  Cardinality(S) \in H <=>
                      (\E i \in Y : \A j \in P : j <= i) \/ (P = {} /\ 0 \in H)
  OBVIOUS
<1> DEFINE order == InOrder(S)
           C == Cardinality(S)
           Last(n) == \E k \in 1 .. n : /\ order[k] \in Y
                                       /\ \A l \in 1 .. n : order[l] \in P => l <= k
           None(n) == \A k \in 1 .. n : order[k] \notin P
           G == {n \in Nat : n <= C => (n \in H <=> Last(n) \/ (None(n) /\ 0 \in H))}
<1>1. C \in Nat /\ Lists(order, C, S)
  BY OrderLists
<1>2. /\ \A k \in 1 .. C : order[k] \in S
      /\ \A i \in S : \E k \in 1 .. C : order[k] = i
      /\ \A j, k \in 1 .. C : j < k => order[j] < order[k]
  BY <1>1 DEF Lists
<1>3. \A n \in 1 .. C : /\ order[n] \in P => (n \in H <=> order[n] \in Y)
                        /\ order[n] \notin P => (n \in H <=> n - 1 \in H)
  BY DEF StepsDecide
<1> HIDE DEF order, C
<1>4. 0 \in G
  BY <1>1
<1>5. ASSUME NEW n \in Nat, n \in G PROVE n + 1 \in G
  <2> SUFFICES ASSUME n + 1 <= C
               PROVE  n + 1 \in H <=> Last(n + 1) \/ (None(n + 1) /\ 0 \in H)
    OBVIOUS
  <2>1. n \in H <=> Last(n) \/ (None(n) /\ 0 \in H)
    BY <1>1, <1>5
  <2>2. /\ n + 1 \in 1 .. C /\ (n + 1) - 1 = n
        /\ \A k : k \in 1 .. n + 1 <=> k \in 1 .. n \/ k = n + 1
        /\ \A k \in 1 .. n : k <= n + 1 /\ ~(n + 1 <= k)
    BY <1>1
  <2>3. /\ order[n + 1] \in P => (n + 1 \in H <=> order[n + 1] \in Y)
        /\ order[n + 1] \notin P => (n + 1 \in H <=> n \in H)
    BY <1>3, <2>2
  <2>4. CASE order[n + 1] \in P
    <3>1. ~None(n + 1)
      BY <2>2, <2>4
    <3>2. Last(n + 1) <=> order[n + 1] \in Y
      <4>1. ASSUME order[n + 1] \in Y PROVE Last(n + 1)
        <5>1. \A l \in 1 .. n + 1 : l <= n + 1
          OBVIOUS
        <5>2. QED  BY <2>2, <4>1, <5>1
      <4>2. ASSUME Last(n + 1) PROVE order[n + 1] \in Y
        <5>1. PICK k \in 1 .. n + 1 : order[k] \in Y /\ n + 1 <= k
          BY <2>2, <2>4, <4>2
        <5>2. k = n + 1
          BY <2>2, <5>1
        <5>3. QED  BY <5>1, <5>2
      <4>3. QED  BY <4>1, <4>2
    <3> HIDE DEF Last, None
    <3>3. QED  BY <2>3, <2>4, <3>1, <3>2
  <2>5. CASE order[n + 1] \notin P
    <3>1. None(n + 1) <=> None(n)
      BY <2>2, <2>5
    <3>2. Last(n + 1) <=> Last(n)
      <4>1. order[n + 1] \notin Y
        BY <2>5
      <4>2. QED  BY <2>2, <2>5, <4>1
    <3> HIDE DEF Last, None
    <3>3. QED  BY <2>1, <2>3, <2>5, <3>1, <3>2
  <2>6. QED  BY <2>4, <2>5
<1>6. Nat \subseteq G
  <2> HIDE DEF G
  <2>1. QED  BY <1>4, <1>5, AllNaturals
<1>7. C \in H <=> Last(C) \/ (None(C) /\ 0 \in H)
  <2>1. C \in G
    BY <1>1, <1>6
  <2> HIDE DEF Last, None
  <2>2. QED  BY <1>1, <2>1
<1>8. None(C) <=> P = {}
  <2>1. ASSUME NEW i \in P PROVE ~None(C)
    <3>1. PICK k \in 1 .. C : order[k] = i
      BY <1>2
    <3>2. QED  BY <3>1
  <2>2. ASSUME P = {} PROVE None(C)
    BY <2>2
  <2>3. QED  BY <2>1, <2>2
<1>9. \A i \in S : i \in Nat
  OBVIOUS
<1>10. ASSUME NEW j \in 1 .. C, NEW k \in 1 .. C
       PROVE  j <= k <=> order[j] <= order[k]
  <2>1. order[j] \in Nat /\ order[k] \in Nat
    BY <1>2, <1>9
  <2>2. j < k => order[j] < order[k]
    BY <1>2
  <2>3. k < j => order[k] < order[j]
    BY <1>2
  <2>4. j \in Nat /\ k \in Nat /\ (j < k \/ j = k \/ k < j)
    OBVIOUS
  <2>5. QED  BY <2>1, <2>2, <2>3, <2>4
<1>11. Last(C) <=> \E i \in Y : \A j \in P : j <= i
  <2>1. ASSUME Last(C) PROVE \E i \in Y : \A j \in P : j <= i
    <3>1. PICK k \in 1 .. C : order[k] \in Y /\ \A l \in 1 .. C : order[l] \in P => l <= k
      BY <2>1
    <3>2. ASSUME NEW j \in P PROVE j <= order[k]
      <4>1. PICK l \in 1 .. C : order[l] = j
        BY <1>2
      <4>2. QED  BY <1>10, <3>1, <4>1
    <3>3. QED  BY <3>1, <3>2
  <2>2. ASSUME NEW i \in Y, \A j \in P : j <= i PROVE Last(C)
    <3>1. PICK k \in 1 .. C : order[k] = i
      BY <1>2
    <3>2. \A l \in 1 .. C : order[l] \in P => l <= k
      BY <1>10, <2>2, <3>1
    <3>3. QED  BY <3>1, <3>2
  <2>3. QED  BY <2>1, <2>2
<1> HIDE DEF Last, None
<1>12. QED  BY <1>7, <1>8, <1>11 DEF C
=============================================================================
