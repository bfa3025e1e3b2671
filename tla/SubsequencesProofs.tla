------------------------- MODULE SubsequencesProofs -------------------------
(* Picking positions loses none, adds none, doubles none and keeps the order; *)
(* a running total is where each entry starts.                                *)
EXTENDS Subsequences, FiniteSetTheorems, FunctionTheorems, WellFoundedInduction, TLAPS

\* How many members of S are at most x.
Rank(S, x) == Cardinality({y \in S : y <= x})

\* The members of a set of positions are ranked 1, 2, ... in their order.
LEMMA Ranks ==
    ASSUME NEW S \in SUBSET Nat, IsFiniteSet(S)
    PROVE  /\ Cardinality(S) \in Nat
           /\ \A x \in S : Rank(S, x) \in 1 .. Cardinality(S)
           /\ \A x, y \in S : x < y => Rank(S, x) < Rank(S, y)
<1> DEFINE Upto(x) == {y \in S : y <= x}
<1>1. Cardinality(S) \in Nat
  BY FS_CardinalityType
<1>2. ASSUME NEW x \in S
      PROVE  /\ IsFiniteSet(Upto(x)) /\ Cardinality(Upto(x)) \in Nat
             /\ Cardinality(Upto(x)) <= Cardinality(S)
  <2>1. Upto(x) \in SUBSET S
    OBVIOUS
  <2> HIDE DEF Upto
  <2> QED BY <2>1, FS_Subset, FS_CardinalityType
<1>3. ASSUME NEW x \in S
      PROVE  Cardinality(Upto(x)) # 0
  <2>1. x \in Upto(x)
    OBVIOUS
  <2> HIDE DEF Upto
  <2> QED BY <2>1, <1>2, FS_EmptySet
<1>4. ASSUME NEW x \in S, NEW y \in S, x < y
      PROVE  Cardinality(Upto(x)) < Cardinality(Upto(y))
  <2>1. \A z \in S : z \in Nat
    OBVIOUS
  <2>2. ASSUME NEW z \in Upto(x)
        PROVE  z \in Upto(y)
    BY <2>1, <1>4
  <2>3. y \in Upto(y) /\ y \notin Upto(x)
    BY <2>1, <1>4
  <2> HIDE DEF Upto
  <2>4. Cardinality(Upto(x)) <= Cardinality(Upto(y)) /\ Cardinality(Upto(x)) # Cardinality(Upto(y))
    <3>1. Upto(x) \in SUBSET Upto(y)
      BY <2>2
    <3> QED BY <3>1, <2>3, <1>2, FS_Subset
  <2> QED BY <2>4, <1>2
<1> QED BY <1>1, <1>2, <1>3, <1>4 DEF Rank

\* Nth and Rank are each other's inverse.
LEMMA NthRank ==
    ASSUME NEW S \in SUBSET Nat, IsFiniteSet(S)
    PROVE  /\ \A n \in 1 .. Cardinality(S) : Nth(S, n) \in S /\ Rank(S, Nth(S, n)) = n
           /\ \A x \in S : Nth(S, Rank(S, x)) = x
<1> DEFINE N == Cardinality(S)
           f == [x \in S |-> Rank(S, x)]
<1>1. /\ N \in Nat /\ \A x \in S : Rank(S, x) \in 1 .. N
      /\ \A x, y \in S : x < y => Rank(S, x) < Rank(S, y)
  BY Ranks
<1>2. \A x, y \in S : Rank(S, x) = Rank(S, y) => x = y
  <2> SUFFICES ASSUME NEW x \in S, NEW y \in S, Rank(S, x) = Rank(S, y), x # y PROVE FALSE
    OBVIOUS
  <2>1. x < y \/ y < x
    OBVIOUS
  <2>2. Rank(S, x) \in Nat /\ Rank(S, y) \in Nat
    BY <1>1
  <2> QED BY <2>1, <2>2, <1>1
<1>3. f \in Injection(S, 1 .. N)
  <2>1. f \in [S -> 1 .. N]
    BY <1>1
  <2>2. \A x, y \in S : f[x] = f[y] => x = y
    BY <1>2
  <2> QED BY <2>1, <2>2 DEF Injection, IsInjective
<1>4. IsFiniteSet(1 .. N) /\ Cardinality(1 .. N) = N
  BY <1>1, FS_Interval
<1>5. f \in Surjection(S, 1 .. N)
  <2> HIDE DEF f
  <2> QED BY <1>3, <1>4, FS_Injection
<1>6. \A n \in 1 .. N : \E x \in S : Rank(S, x) = n
  BY <1>5 DEF Surjection
<1>7. \A n \in 1 .. N : Nth(S, n) \in S /\ Rank(S, Nth(S, n)) = n
  BY <1>6 DEF Nth, Rank
<1>8. \A x \in S : Nth(S, Rank(S, x)) = x
  BY <1>1, <1>2, <1>7
<1> QED BY <1>7, <1>8

\* The n-th picked element is the element at the n-th kept position; every kept
\* position is the n-th for one n; the order is that of the positions.
LEMMA PickedElements ==
    ASSUME NEW T, NEW s \in Seq(T), NEW S \in SUBSET (1 .. Len(s))
    PROVE  LET p == Picked(s, S) IN
           /\ p \in Seq(T) /\ Len(p) = Cardinality(S) /\ Len(p) \in Nat
           /\ \A n \in 1 .. Len(p) : Nth(S, n) \in S /\ p[n] = s[Nth(S, n)]
           /\ \A j \in S : \E n \in 1 .. Len(p) : Nth(S, n) = j
           /\ \A m, n \in 1 .. Len(p) : m < n => Nth(S, m) < Nth(S, n)
<1> DEFINE p == Picked(s, S)
           N == Cardinality(S)
<1>1. S \in SUBSET Nat /\ IsFiniteSet(S)
  <2>1. Len(s) \in Nat /\ IsFiniteSet(1 .. Len(s))
    BY FS_Interval
  <2>2. IsFiniteSet(S)
    BY <2>1, FS_Subset
  <2> QED BY <2>1, <2>2
<1>2. /\ N \in Nat /\ \A x \in S : Rank(S, x) \in 1 .. N
      /\ \A x, y \in S : x < y => Rank(S, x) < Rank(S, y)
  BY <1>1, Ranks
<1>3. /\ \A n \in 1 .. N : Nth(S, n) \in S /\ Rank(S, Nth(S, n)) = n
      /\ \A x \in S : Nth(S, Rank(S, x)) = x
  BY <1>1, NthRank
<1> HIDE DEF N
<1>4. p = [n \in 1 .. N |-> s[Nth(S, n)]]
  BY DEF Picked, N
<1>5. \A n \in 1 .. N : s[Nth(S, n)] \in T
  <2>1. \A j \in 1 .. Len(s) : s[j] \in T
    OBVIOUS
  <2> QED BY <2>1, <1>3
<1>6. p \in Seq(T) /\ Len(p) = N
  BY <1>2, <1>4, <1>5
<1>7. \A j \in S : \E n \in 1 .. N : Nth(S, n) = j
  BY <1>2, <1>3
<1>8. ASSUME NEW m \in 1 .. N, NEW n \in 1 .. N, m < n
      PROVE  Nth(S, m) < Nth(S, n)
  <2>1. Nth(S, m) \in S /\ Nth(S, n) \in S /\ Nth(S, m) \in Nat /\ Nth(S, n) \in Nat
    BY <1>1, <1>3
  <2>2. Rank(S, Nth(S, m)) = m /\ Rank(S, Nth(S, n)) = n
    BY <1>3
  <2>3. ~(Nth(S, n) < Nth(S, m)) /\ Nth(S, n) # Nth(S, m)
    BY <2>1, <2>2, <1>2, <1>8
  <2> QED BY <2>1, <2>3
<1> QED BY <1>2, <1>3, <1>4, <1>6, <1>7, <1>8 DEF N

\* A set of natural numbers has a least one.
LEMMA LeastNatural ==
    ASSUME NEW S \in SUBSET Nat, S # {}
    PROVE  \E m \in S : \A s \in S : m <= s
<1> DEFINE R == {ss \in Nat \X Nat : ss[1] < ss[2]}
<1>1. IsWellFoundedOn(R, Nat)
  BY NatLessThanWellFounded, Zenon DEF OpToRel
<1> HIDE DEF R
<1>2. PICK m \in S : \A s \in S : <<s, m>> \notin R
  BY <1>1, WFMin, Zenon
<1>3. \A s \in S : ~(s < m)
  BY <1>2 DEF R
<1> QED BY <1>3

\* Numbers whose sums are numbers of the same kind.
Summable(T) == T \in SUBSET Int /\ 0 \in T /\ \A a, b \in T : a + b \in T

\* The equations by which RunningTotal is defined have a solution: there is no
\* least length for which they have none.
LEMMA TotalsExist ==
    ASSUME NEW T, Summable(T), NEW s \in Seq(T), NEW N, N = Len(s) + 1
    PROVE  \E f \in [1 .. N -> T] :
              f = [j \in 1 .. N |-> IF j = 1 THEN 0 ELSE f[j - 1] + s[j - 1]]
<1> DEFINE Solves(f, n) == \A j \in 1 .. n : f[j] = IF j = 1 THEN 0 ELSE f[j - 1] + s[j - 1]
           Without == {n \in 1 .. N : ~\E f \in [1 .. n -> T] : Solves(f, n)}
<1>0. Len(s) \in Nat /\ N \in Nat /\ \A j \in 1 .. Len(s) : s[j] \in T
  OBVIOUS
<1>1. Without = {}
  <2> SUFFICES ASSUME Without # {} PROVE FALSE
    OBVIOUS
  <2>1. Without \in SUBSET Nat
    BY <1>0
  <2>2. PICK m \in Without : \A n \in Without : m <= n
    <3> HIDE DEF Without
    <3> QED BY <2>1, LeastNatural
  <2>3. m \in 1 .. N /\ ~\E f \in [1 .. m -> T] : Solves(f, m)
    BY <2>2
  <2>4. CASE m = 1
    <3> DEFINE f == [j \in 1 .. 1 |-> 0]
    <3>1. f \in [1 .. m -> T] /\ \A j \in 1 .. m : j = 1 /\ f[j] = 0
      BY <2>4 DEF Summable
    <3>2. Solves(f, m)
      BY <3>1
    <3> HIDE DEF f
    <3> QED BY <3>1, <3>2, <2>3
  <2>5. CASE m # 1
    <3>1. m - 1 \in 1 .. N /\ m - 1 \in 1 .. Len(s) /\ ~(m <= m - 1) /\ m \in Nat
      BY <2>3, <2>5, <1>0
    <3>2. m - 1 \notin Without
      <4> HIDE DEF Without
      <4> QED BY <3>1, <2>2
    <3>3. PICK f \in [1 .. m - 1 -> T] : Solves(f, m - 1)
      BY <3>1, <3>2
    <3> DEFINE g == [j \in 1 .. m |-> IF j = m THEN f[m - 1] + s[m - 1] ELSE f[j]]
    <3>4. \A j \in 1 .. m : j = m \/ j \in 1 .. m - 1
      BY <3>1
    <3>5. m - 1 \in 1 .. m - 1 /\ f[m - 1] \in T /\ s[m - 1] \in T /\ m # 1
      BY <3>1, <1>0, <2>5
    <3>6. g \in [1 .. m -> T]
      <4>1. f[m - 1] + s[m - 1] \in T
        BY <3>5 DEF Summable
      <4> QED BY <4>1, <3>4
    <3>7. g[m] = f[m - 1] + s[m - 1] /\ \A j \in 1 .. m - 1 : g[j] = f[j]
      BY <3>1
    <3> HIDE DEF g
    <3>8. ASSUME NEW j \in 1 .. m
          PROVE  g[j] = IF j = 1 THEN 0 ELSE g[j - 1] + s[j - 1]
      <4>1. CASE j = m
        BY <4>1, <3>5, <3>7
      <4>2. CASE j \in 1 .. m - 1
        <5>1. j # 1 => j - 1 \in 1 .. m - 1
          BY <4>2, <3>1
        <5> QED BY <5>1, <4>2, <3>3, <3>7
      <4> QED BY <4>1, <4>2, <3>4
    <3>9. Solves(g, m)
      BY <3>8
    <3> QED BY <3>6, <3>9, <2>3
  <2> QED BY <2>4, <2>5
<1>2. N \in 1 .. N
  BY <1>0
<1>3. PICK f \in [1 .. N -> T] : Solves(f, N)
  BY <1>1, <1>2
<1>4. f = [j \in 1 .. N |-> IF j = 1 THEN 0 ELSE f[j - 1] + s[j - 1]]
  BY <1>3
<1> QED BY <1>4

\* Where each entry starts is where the one before it ends.
LEMMA TotalsIn ==
    ASSUME NEW T, Summable(T), NEW s \in Seq(T)
    PROVE  LET at == RunningTotal(s) IN
           /\ at \in [1 .. Len(s) + 1 -> T] /\ at[1] = 0
           /\ \A j \in 1 .. Len(s) : at[j + 1] = at[j] + s[j]
<1> DEFINE N == Len(s) + 1
           at == RunningTotal(s)
           Solves(f) == f = [j \in 1 .. N |-> IF j = 1 THEN 0 ELSE f[j - 1] + s[j - 1]]
           Strange == {j \in 1 .. N : at[j] \notin T}
<1>1. Len(s) \in Nat /\ N \in Nat /\ 1 \in 1 .. N /\ \A j \in 1 .. Len(s) : s[j] \in T
  OBVIOUS
<1>2. \E f : Solves(f)
  BY TotalsExist
<1>3. at = CHOOSE f : Solves(f)
  BY DEF RunningTotal
<1>4. Solves(at)
  <2> HIDE DEF Solves, at
  <2> QED BY <1>2, <1>3, Zenon
<1> HIDE DEF at
<1>5. at[1] = 0 /\ \A j \in 1 .. N : j # 1 => at[j] = at[j - 1] + s[j - 1]
  BY <1>1, <1>4
<1>6. Strange = {}
  <2> SUFFICES ASSUME Strange # {} PROVE FALSE
    OBVIOUS
  <2>1. Strange \in SUBSET Nat
    BY <1>1
  <2>2. PICK m \in Strange : \A n \in Strange : m <= n
    <3> HIDE DEF Strange
    <3> QED BY <2>1, LeastNatural
  <2>3. m \in 1 .. N /\ at[m] \notin T /\ m # 1
    BY <2>2, <1>5 DEF Summable
  <2>4. m - 1 \in 1 .. N /\ m - 1 \in 1 .. Len(s) /\ ~(m <= m - 1)
    BY <2>3, <1>1
  <2>5. m - 1 \notin Strange
    <3> HIDE DEF Strange
    <3> QED BY <2>2, <2>4
  <2>6. at[m - 1] \in T /\ s[m - 1] \in T /\ at[m - 1] + s[m - 1] \in T
    BY <2>4, <2>5, <1>1 DEF Summable
  <2> QED BY <2>3, <2>6, <1>5
<1>7. at \in [1 .. N -> T]
  BY <1>4, <1>6
<1>8. ASSUME NEW j \in 1 .. Len(s)
      PROVE  at[j + 1] = at[j] + s[j]
  <2>1. j + 1 \in 1 .. N /\ j + 1 # 1 /\ (j + 1) - 1 = j
    BY <1>1
  <2> QED BY <2>1, <1>5
<1> QED BY <1>5, <1>7, <1>8 DEF at

\* The case of sizes.
LEMMA Totals ==
    ASSUME NEW s \in Seq(Nat)
    PROVE  LET at == RunningTotal(s) IN
           /\ at \in [1 .. Len(s) + 1 -> Nat] /\ at[1] = 0
           /\ \A j \in 1 .. Len(s) : at[j + 1] = at[j] + s[j]
<1>1. Summable(Nat)
  BY DEF Summable
<1> QED BY <1>1, TotalsIn

\* Entries that are not empty start one behind the other.
LEMMA TotalsIncrease ==
    ASSUME NEW s \in Seq(Nat \ {0})
    PROVE  LET at == RunningTotal(s) IN
           \A i, j \in 1 .. Len(s) + 1 : i < j => at[i] < at[j]
<1> DEFINE N == Len(s) + 1
           at == RunningTotal(s)
<1>1. Len(s) \in Nat /\ \A j \in 1 .. Len(s) : s[j] \in Nat /\ s[j] > 0
  OBVIOUS
<1>2. s \in Seq(Nat)
  BY <1>1
<1>3. /\ at \in [1 .. N -> Nat]
      /\ \A j \in 1 .. Len(s) : at[j + 1] = at[j] + s[j]
  <2> HIDE DEF at
  <2> QED BY <1>2, Totals DEF at
<1> HIDE DEF at
<1> SUFFICES ASSUME NEW i \in 1 .. N, NEW k \in 1 .. N, i < k
             PROVE  at[i] < at[k]
  BY DEF at
<1> DEFINE Wrong == {j \in 1 .. N : i < j /\ ~(at[i] < at[j])}
<1>4. Wrong = {}
  <2> SUFFICES ASSUME Wrong # {} PROVE FALSE
    OBVIOUS
  <2>1. Wrong \in SUBSET Nat
    BY <1>1
  <2>2. PICK m \in Wrong : \A n \in Wrong : m <= n
    <3> HIDE DEF Wrong
    <3> QED BY <2>1, LeastNatural
  <2>3. m \in 1 .. N /\ i < m /\ ~(at[i] < at[m])
    BY <2>2
  <2>4. m - 1 \in 1 .. Len(s) /\ m - 1 \in 1 .. N /\ ~(m <= m - 1) /\ (m - 1) + 1 = m
        /\ (i < m - 1 \/ i = m - 1)
    BY <2>3, <1>1
  <2>5. m - 1 \notin Wrong
    <3> HIDE DEF Wrong
    <3> QED BY <2>2, <2>4
  <2>6. at[i] \in Nat /\ at[m] \in Nat /\ at[m - 1] \in Nat /\ s[m - 1] \in Nat
    BY <2>3, <2>4, <1>1, <1>3
  <2>7. at[i] < at[m - 1] \/ i = m - 1
    BY <2>4, <2>5
  <2>8. at[m] = at[m - 1] + s[m - 1] /\ s[m - 1] > 0
    <3>1. at[(m - 1) + 1] = at[m - 1] + s[m - 1]
      BY <2>4, <1>3
    <3> QED BY <3>1, <2>4, <1>1
  <2> HIDE DEF Wrong
  <2>9. at[m - 1] < at[m]
    BY <2>6, <2>8
  <2>10. at[i] < at[m]
    <3>1. CASE i = m - 1
      BY <3>1, <2>9
    <3>2. CASE at[i] < at[m - 1]
      BY <3>2, <2>6, <2>9
    <3> QED BY <2>7, <3>1, <3>2
  <2> QED BY <2>3, <2>10
<1> QED BY <1>4

\* Induction on places, said of a set.
LEMMA Reaches ==
    ASSUME NEW N \in Nat, NEW S, 1 \in S, \A j \in 1 .. N : j \in S => j + 1 \in S
    PROVE  \A j \in 1 .. N + 1 : j \in S
<1> DEFINE Missed == {j \in 1 .. N + 1 : j \notin S}
<1>1. Missed = {}
  <2> SUFFICES ASSUME Missed # {} PROVE FALSE
    OBVIOUS
  <2>1. Missed \in SUBSET Nat
    OBVIOUS
  <2>2. PICK m \in Missed : \A n \in Missed : m <= n
    <3> HIDE DEF Missed
    <3> QED BY <2>1, LeastNatural
  <2>3. m \in 1 .. N + 1 /\ m \notin S /\ m # 1
    BY <2>2
  <2>4. m - 1 \in 1 .. N /\ m - 1 \in 1 .. N + 1 /\ ~(m <= m - 1) /\ (m - 1) + 1 = m
    BY <2>3
  <2>5. m - 1 \in S
    BY <2>2, <2>4
  <2> QED BY <2>3, <2>4, <2>5
<1> QED BY <1>1

Total(s) == RunningTotal(s)[Len(s) + 1]

LEMMA IntTotals ==
    ASSUME NEW s \in Seq(Int)
    PROVE  LET at == RunningTotal(s) IN
           /\ at \in [1 .. Len(s) + 1 -> Int] /\ at[1] = 0
           /\ \A j \in 1 .. Len(s) : at[j + 1] = at[j] + s[j]
<1>1. Summable(Int)
  BY DEF Summable
<1> QED BY <1>1, TotalsIn

\* A sum of smaller numbers is smaller.
LEMMA TotalAtMost ==
    ASSUME NEW s \in Seq(Int), NEW t \in Seq(Int), Len(s) = Len(t),
           \A j \in 1 .. Len(s) : s[j] <= t[j]
    PROVE  Total(s) <= Total(t) /\ Total(s) \in Int /\ Total(t) \in Int
<1> DEFINE N == Len(s)
           a == RunningTotal(s)
           b == RunningTotal(t)
           S == {j \in 1 .. N + 1 : a[j] <= b[j]}
<1>1. N \in Nat /\ \A j \in 1 .. N : s[j] \in Int /\ t[j] \in Int
  OBVIOUS
<1>2. /\ a \in [1 .. N + 1 -> Int] /\ a[1] = 0 /\ \A j \in 1 .. N : a[j + 1] = a[j] + s[j]
      /\ b \in [1 .. N + 1 -> Int] /\ b[1] = 0 /\ \A j \in 1 .. N : b[j + 1] = b[j] + t[j]
  BY IntTotals
<1> HIDE DEF a, b
<1>3. 1 \in S
  BY <1>1, <1>2
<1>4. ASSUME NEW j \in 1 .. N, j \in S PROVE j + 1 \in S
  <2>0. j \in 1 .. N + 1 /\ j + 1 \in 1 .. N + 1 /\ a[j] <= b[j]
    BY <1>1, <1>4
  <2>1. a[j] \in Int /\ b[j] \in Int
    BY <1>2, <2>0
  <2>2. a[j + 1] = a[j] + s[j] /\ b[j + 1] = b[j] + t[j] /\ s[j] <= t[j] /\ s[j] \in Int /\ t[j] \in Int
    BY <1>1, <1>2
  <2>3. a[j + 1] <= b[j + 1]
    BY <2>0, <2>1, <2>2
  <2> QED BY <2>0, <2>3
<1>5. N + 1 \in S
  <2> HIDE DEF S
  <2>1. N + 1 \in 1 .. N + 1
    BY <1>1
  <2> QED BY <2>1, <1>1, <1>3, <1>4, Reaches
<1>6. Total(s) = a[N + 1] /\ Total(t) = b[N + 1]
  BY DEF Total, a, b
<1>7. a[N + 1] \in Int /\ b[N + 1] \in Int
  <2> HIDE DEF N
  <2>1. N + 1 \in 1 .. N + 1
    BY ONLY <1>1
  <2> QED BY ONLY <1>2, <2>1
<1>8. a[N + 1] <= b[N + 1]
  BY <1>5
<1> HIDE DEF N, S
<1> QED BY <1>6, <1>7, <1>8

\* The count of members goes up by one at each member.
LEMMA RankStep ==
    ASSUME NEW S \in SUBSET Nat, IsFiniteSet(S), NEW j \in Nat
    PROVE  Rank(S, j + 1) = (IF j + 1 \in S THEN Rank(S, j) + 1 ELSE Rank(S, j))
<1> DEFINE U == {y \in S : y <= j}
           V == {y \in S : y <= j + 1}
<1>1. IsFiniteSet(U) /\ j + 1 \notin U
  <2>1. U \in SUBSET S
    OBVIOUS
  <2>2. j + 1 \notin U
    OBVIOUS
  <2> HIDE DEF U
  <2> QED BY <2>1, <2>2, FS_Subset
<1>2. \A y \in S : y \in Nat
  OBVIOUS
<1>3. CASE j + 1 \in S
  <2>1. V = U \cup {j + 1}
    <3>1. ASSUME NEW y \in S PROVE y <= j + 1 <=> y <= j \/ y = j + 1
      BY <1>2
    <3> QED BY <3>1, <1>3
  <2> HIDE DEF U, V
  <2>2. Cardinality(V) = Cardinality(U) + 1
    BY <1>1, <2>1, FS_AddElement
  <2> QED BY <1>3, <2>2 DEF U, V, Rank
<1>4. CASE j + 1 \notin S
  <2>1. V = U
    <3>1. ASSUME NEW y \in S PROVE y <= j + 1 <=> y <= j
      BY <1>2, <1>4
    <3> QED BY <3>1
  <2> HIDE DEF U, V
  <2> QED BY <1>4, <2>1 DEF U, V, Rank
<1> QED BY <1>3, <1>4
=============================================================================
