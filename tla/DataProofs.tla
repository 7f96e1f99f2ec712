----------------------------- MODULE DataProofs -----------------------------
(* What a sum is, and how large, and what the elements of a set in order are.  The provers *)
(* cannot use the library's induction, which takes an operator; here it is a set of numbers *)
(* that is closed under counting.                                                           *)
EXTENDS Sums, Orders, WellFoundedInduction, FunctionTheorems, FiniteSetTheorems, TLAPS

\* Some number of a set is the least.
LEMMA Least ==
  ASSUME NEW T \in SUBSET Nat, T # {}
  PROVE  \E x \in T : \A y \in T : x <= y
<1> DEFINE R == {p \in Nat \X Nat : p[1] < p[2]}
<1>1. IsWellFoundedOn(R, Nat)
  BY NatLessThanWellFounded DEF OpToRel
<1> HIDE DEF R
<1>2. PICK x \in T : \A y \in T : ~(<<y, x>> \in R)
  BY <1>1, WFMin
<1>3. ASSUME NEW y \in T PROVE x <= y
  <2>1. x \in Nat /\ y \in Nat
    OBVIOUS
  <2>2. ~(y < x)
    BY <1>2, <2>1 DEF R
  <2> QED
    BY <2>1, <2>2
<1> QED
  BY <1>3

\* A set of numbers that has 0 and with each number the next has them all.
LEMMA Counting ==
  ASSUME NEW T \in SUBSET Nat, 0 \in T, \A n \in T : n + 1 \in T
  PROVE  T = Nat
<1> SUFFICES ASSUME Nat \ T # {} PROVE FALSE
  OBVIOUS
<1>1. PICK x \in Nat \ T : \A y \in Nat \ T : x <= y
  BY Least
<1>2. x # 0 /\ x - 1 \in Nat /\ ~(x <= x - 1)
  OBVIOUS
<1>3. x - 1 \in T
  BY <1>1, <1>2
<1>4. (x - 1) + 1 \in T
  BY <1>3
<1> QED
  BY <1>1, <1>4

\* From b to n, what holds of b and with each number of the next holds of all.
LEMMA CountingFrom ==
  ASSUME NEW b \in Int, NEW n \in Int, NEW T, b \in T,
         \A i \in b..(n - 1) : i \in T => i + 1 \in T
  PROVE  \A i \in b..n : i \in T
<1> DEFINE U == {j \in Nat : b + j <= n => b + j \in T}
<1>1. U \in SUBSET Nat /\ 0 \in U
  OBVIOUS
<1>2. ASSUME NEW j \in U PROVE j + 1 \in U
  <2>1. j \in Nat /\ b + (j + 1) = (b + j) + 1
    OBVIOUS
  <2>2. ASSUME b + (j + 1) <= n PROVE b + (j + 1) \in T
    <3>1. b + j \in b..(n - 1) /\ b + j \in T
      BY <2>1, <2>2
    <3> QED
      BY <2>1, <3>1
  <2> QED
    BY <2>1, <2>2
<1>3. \A j \in Nat : b + j <= n => b + j \in T
  <2>1. U = Nat
    <3> HIDE DEF U
    <3> QED
      BY <1>1, <1>2, Counting
  <2> QED
    BY <2>1
<1> HIDE DEF U
<1>4. ASSUME NEW i \in b..n PROVE i \in T
  <2>1. i - b \in Nat /\ b + (i - b) = i /\ i <= n
    OBVIOUS
  <2>2. b + (i - b) \in T
    BY <1>3, <2>1
  <2> QED
    BY <2>1, <2>2
<1> QED
  BY <1>4

\* From a first value at b, the values from c, the next, to n follow by steps within S.
Follows(b, c, n, S, first, step) ==
  /\ b \in Int /\ n \in Int /\ b <= n /\ c = b + 1
  /\ first \in S /\ \A i \in c..n, x \in S : step[<<i, x>>] \in S

\* There is a function of which each value is the step from the one before.
LEMMA Recursion ==
  ASSUME NEW b, NEW c, NEW n, NEW S, NEW first, NEW step, Follows(b, c, n, S, first, step)
  PROVE  \E g \in [b..n -> S] :
           g[b] = first /\ \A i \in c..n : g[i] = step[<<i, g[i - 1]>>]
<1> USE DEF Follows
<1> DEFINE Defines(g, m) == /\ g \in [b..m -> S] /\ g[b] = first
                            /\ \A i \in c..m : g[i] = step[<<i, g[i - 1]>>]
           T == {m \in b..n : \E g : Defines(g, m)}
<1>1. b \in T
  <2> DEFINE g == [i \in b..b |-> first]
  <2>1. Defines(g, b)
    OBVIOUS
  <2> QED
    BY <2>1
<1>2. ASSUME NEW m \in b..(n - 1), m \in T PROVE m + 1 \in T
  <2>1. PICK g : Defines(g, m)
    BY <1>2
  <2> DEFINE next == step[<<m + 1, g[m]>>]
             h == [i \in b..(m + 1) |-> IF i = m + 1 THEN next ELSE g[i]]
  <2>2. m \in b..m /\ m + 1 \in c..n /\ m + 1 \in b..n /\ m \in Int
    OBVIOUS
  <2>3. next \in S
    <3>1. g[m] \in S
      BY <2>1, <2>2
    <3> QED
      BY <2>2, <3>1
  <2>4. \A i \in b..(m + 1) : i = m + 1 \/ i \in b..m
    BY <2>2
  <2>5. h \in [b..(m + 1) -> S]
    BY <2>1, <2>3, <2>4
  <2>6. h[b] = first
    BY <2>1, <2>2
  <2>7. ASSUME NEW i \in c..(m + 1) PROVE h[i] = step[<<i, h[i - 1]>>]
    <3>1. i - 1 \in b..m /\ i - 1 # m + 1 /\ i - 1 \in b..(m + 1) /\ i \in b..(m + 1)
      BY <2>2
    <3>2. h[i - 1] = g[i - 1]
      BY <3>1
    <3>3. CASE i = m + 1
      BY <2>2, <3>1, <3>2, <3>3
    <3>4. CASE i # m + 1
      <4>1. i \in c..m
        BY <2>2, <3>4
      <4> QED
        BY <2>1, <3>1, <3>2, <3>4, <4>1
    <3> QED
      BY <3>3, <3>4
  <2> HIDE DEF h
  <2>8. Defines(h, m + 1)
    BY <2>5, <2>6, <2>7
  <2> QED
    BY <2>2, <2>8
<1> HIDE DEF T
<1>3. n \in T
  <2>1. \A i \in b..n : i \in T
    BY <1>1, <1>2, CountingFrom
  <2> QED
    BY <2>1
<1> QED
  BY <1>3 DEF T

IsSum(g, s, n) ==
  g = [i \in 0..n |-> IF i = 0 THEN 0 ELSE g[i - 1] + s[i]]

LEMMA SumExists ==
  ASSUME NEW s, NEW m \in Nat
  PROVE  \E g : IsSum(g, s, m)
<1> DEFINE T == {n \in Nat : \E g : IsSum(g, s, n)}
<1>1. 0 \in T
  <2> DEFINE g == [i \in 0..0 |-> 0]
  <2>1. IsSum(g, s, 0)
    BY DEF IsSum
  <2> QED
    BY <2>1
<1>2. ASSUME NEW n \in T PROVE n + 1 \in T
  <2>1. PICK g : IsSum(g, s, n)
    BY <1>2
  <2> DEFINE h == [i \in 0..(n + 1) |-> IF i = n + 1 THEN g[n] + s[n + 1] ELSE g[i]]
  <2>2. ASSUME NEW i \in 0..(n + 1)
        PROVE  h[i] = IF i = 0 THEN 0 ELSE h[i - 1] + s[i]
    <3>1. CASE i = n + 1
      <4>1. i - 1 = n /\ n \in 0..(n + 1) /\ n # n + 1 /\ i # 0
        BY <1>2, <3>1
      <4> QED
        BY <3>1, <4>1
    <3>2. CASE i # n + 1
      <4>1. i \in 0..n /\ (i # 0 => i - 1 \in 0..(n + 1) /\ i - 1 # n + 1)
        BY <1>2, <3>2
      <4>2. g[i] = IF i = 0 THEN 0 ELSE g[i - 1] + s[i]
        BY <2>1, <4>1 DEF IsSum
      <4> QED
        BY <3>2, <4>1, <4>2
    <3> QED
      BY <3>1, <3>2
  <2>3. h = [i \in 0..(n + 1) |-> h[i]]
    OBVIOUS
  <2> HIDE DEF h
  <2>4. h = [i \in 0..(n + 1) |-> IF i = 0 THEN 0 ELSE h[i - 1] + s[i]]
    BY <2>2, <2>3
  <2> QED
    BY <1>2, <2>4 DEF IsSum
<1> HIDE DEF T
<1>3. T \in SUBSET Nat
  BY DEF T
<1>4. T = Nat
  BY <1>1, <1>2, <1>3, Counting
<1> QED
  BY <1>4 DEF T

LEMMA TotalIsSum ==
  ASSUME NEW s, Len(s) \in Nat
  PROVE  \E g : IsSum(g, s, Len(s)) /\ Total(s) = g[Len(s)]
<1> DEFINE sum[i \in 0..Len(s)] == IF i = 0 THEN 0 ELSE sum[i - 1] + s[i]
<1>1. sum = CHOOSE g : IsSum(g, s, Len(s))
  BY DEF IsSum
<1>2. Total(s) = sum[Len(s)]
  BY DEF Total
<1> HIDE DEF sum
<1>3. IsSum(sum, s, Len(s))
  BY <1>1, SumExists
<1> QED
  BY <1>2, <1>3

\* The sum of a sequence by its partial sums.
LEMMA PartialSums ==
  ASSUME NEW s, Len(s) \in Nat
  PROVE  \E g : /\ g[0] = 0 /\ \A i \in 1..Len(s) : g[i] = g[i - 1] + s[i]
                /\ Total(s) = g[Len(s)]
<1>1. PICK g : IsSum(g, s, Len(s)) /\ Total(s) = g[Len(s)]
  BY TotalIsSum
<1>2. \A i \in 0..Len(s) : g[i] = IF i = 0 THEN 0 ELSE g[i - 1] + s[i]
  BY <1>1 DEF IsSum
<1>3. g[0] = 0 /\ \A i \in 1..Len(s) : g[i] = g[i - 1] + s[i]
  BY <1>2
<1> QED
  BY <1>1, <1>3

\* Numbers of a set that addition does not leave have their sum there.
LEMMA TotalClosed ==
  ASSUME NEW S \in SUBSET Int, 0 \in S, \A x, y \in S : x + y \in S, NEW s \in Seq(S)
  PROVE  Total(s) \in S
<1>1. Len(s) \in Nat /\ \A i \in 1..Len(s) : s[i] \in S
  OBVIOUS
<1>2. PICK g : /\ g[0] = 0 /\ \A i \in 1..Len(s) : g[i] = g[i - 1] + s[i]
               /\ Total(s) = g[Len(s)]
  BY <1>1, PartialSums
<1> DEFINE T == {n \in Nat : n <= Len(s) => g[n] \in S}
<1>3. 0 \in T
  BY <1>2
<1>4. ASSUME NEW n \in T PROVE n + 1 \in T
  <2>1. n \in Nat /\ (n + 1) - 1 = n
    BY <1>4
  <2>2. ASSUME n + 1 <= Len(s) PROVE g[n + 1] \in S
    <3>1. g[n + 1] = g[n] + s[n + 1] /\ s[n + 1] \in S /\ g[n] \in S
      BY <1>1, <1>2, <1>4, <2>1, <2>2
    <3> QED
      BY <3>1
  <2> QED
    BY <2>1, <2>2
<1>5. T \in SUBSET Nat
  OBVIOUS
<1> HIDE DEF T
<1>6. T = Nat
  BY <1>3, <1>4, <1>5, Counting
<1>7. Len(s) \in T
  BY <1>1, <1>6
<1> QED
  BY <1>2, <1>7 DEF T

LEMMA TotalNumbers ==
  /\ \A s \in Seq(Int) : Total(s) \in Int
  /\ \A s \in Seq(Nat) : Total(s) \in Nat
<1>1. /\ Int \in SUBSET Int /\ 0 \in Int /\ \A x, y \in Int : x + y \in Int
      /\ Nat \in SUBSET Int /\ 0 \in Nat /\ \A x, y \in Nat : x + y \in Nat
  OBVIOUS
<1>2. ASSUME NEW s \in Seq(Int) PROVE Total(s) \in Int
  BY <1>1, <1>2, TotalClosed
<1>3. ASSUME NEW s \in Seq(Nat) PROVE Total(s) \in Nat
  BY <1>1, <1>3, TotalClosed
<1> QED
  BY <1>2, <1>3

\* Numbers between 0 and m add up to at most m for each of them.
LEMMA TotalBound ==
  ASSUME NEW m \in Nat, NEW s \in Seq(0..m)
  PROVE  Total(s) \in 0..(Len(s) * m)
<1>1. Len(s) \in Nat /\ \A i \in 1..Len(s) : s[i] \in 0..m
  OBVIOUS
<1>2. PICK g : /\ g[0] = 0 /\ \A i \in 1..Len(s) : g[i] = g[i - 1] + s[i]
               /\ Total(s) = g[Len(s)]
  BY <1>1, PartialSums
<1> DEFINE T == {n \in Nat : n <= Len(s) => g[n] \in 0..(n * m)}
<1>3. 0 \in T
  BY <1>2
<1>4. ASSUME NEW n \in T PROVE n + 1 \in T
  <2>1. n \in Nat /\ n * m \in Nat /\ (n + 1) * m = n * m + m
    BY <1>4
  <2>2. ASSUME n + 1 <= Len(s) PROVE g[n + 1] \in 0..(n * m + m)
    <3>1. g[n + 1] = g[n] + s[n + 1] /\ s[n + 1] \in 0..m /\ g[n] \in 0..(n * m)
      BY <1>1, <1>2, <1>4, <2>1, <2>2
    <3> QED
      BY <2>1, <3>1
  <2> QED
    BY <2>1, <2>2
<1>5. T \in SUBSET Nat
  OBVIOUS
<1> HIDE DEF T
<1>6. T = Nat
  BY <1>3, <1>4, <1>5, Counting
<1>7. Len(s) \in T
  BY <1>1, <1>6
<1> QED
  BY <1>2, <1>7 DEF T

\* Numbers above zero add up to at least their count.
LEMMA TotalAtLeast ==
  ASSUME NEW s \in Seq(Nat \ {0})
  PROVE  Total(s) \in Nat /\ Len(s) <= Total(s)
<1>1. Len(s) \in Nat /\ \A i \in 1..Len(s) : s[i] \in Nat \ {0}
  OBVIOUS
<1>2. PICK g : /\ g[0] = 0 /\ \A i \in 1..Len(s) : g[i] = g[i - 1] + s[i]
               /\ Total(s) = g[Len(s)]
  BY <1>1, PartialSums
<1> DEFINE T == {n \in Nat : n <= Len(s) => g[n] \in Nat /\ n <= g[n]}
<1>3. 0 \in T
  BY <1>2
<1>4. ASSUME NEW n \in T PROVE n + 1 \in T
  <2>1. n \in Nat /\ (n + 1) - 1 = n
    BY <1>4
  <2>2. ASSUME n + 1 <= Len(s) PROVE g[n + 1] \in Nat /\ n + 1 <= g[n + 1]
    <3>1. g[n + 1] = g[n] + s[n + 1] /\ s[n + 1] \in Nat \ {0} /\ g[n] \in Nat /\ n <= g[n]
      BY <1>1, <1>2, <1>4, <2>1, <2>2
    <3> QED
      BY <2>1, <3>1
  <2> QED
    BY <2>1, <2>2
<1>5. T \in SUBSET Nat
  OBVIOUS
<1> HIDE DEF T
<1>6. T = Nat
  BY <1>3, <1>4, <1>5, Counting
<1>7. Len(s) \in T
  BY <1>1, <1>6
<1> QED
  BY <1>2, <1>7 DEF T
---------------------------------------------------------------------------
(* Ordered sets.                                                           *)

IsOrder(R, S) ==
  /\ \A x \in S : <<x, x>> \notin R
  /\ \A x, y, z \in S : <<x, y>> \in R /\ <<y, z>> \in R => <<x, z>> \in R
  /\ \A x, y \in S : x = y \/ <<x, y>> \in R \/ <<y, x>> \in R

\* How many elements come up to x.
Rank(R, S, x) == Cardinality({y \in S : y = x \/ <<y, x>> \in R})

LEMMA RankType ==
  ASSUME NEW S, IsFiniteSet(S), NEW R, NEW x \in S
  PROVE  Rank(R, S, x) \in Nat /\ Rank(R, S, x) \in 1..Cardinality(S)
<1> DEFINE Upto == {u \in S : u = x \/ <<u, x>> \in R}
<1>1. Upto \in SUBSET S /\ x \in Upto
  OBVIOUS
<1>2. Rank(R, S, x) = Cardinality(Upto)
  BY DEF Rank
<1> HIDE DEF Upto
<1>3. IsFiniteSet(Upto) /\ Cardinality(Upto) <= Cardinality(S)
  BY <1>1, FS_Subset
<1>4. Cardinality(Upto) \in Nat /\ Cardinality(S) \in Nat /\ Cardinality(Upto) # 0
  BY <1>1, <1>3, FS_CardinalityType, FS_EmptySet
<1> QED
  BY <1>2, <1>3, <1>4

LEMMA RankGrows ==
  ASSUME NEW S, IsFiniteSet(S), NEW R, IsOrder(R, S), NEW x \in S, NEW y \in S, <<x, y>> \in R
  PROVE  Rank(R, S, x) < Rank(R, S, y)
<1> DEFINE Upto(v) == {u \in S : u = v \/ <<u, v>> \in R}
<1>1. /\ Rank(R, S, x) = Cardinality(Upto(x)) /\ Rank(R, S, y) = Cardinality(Upto(y))
      /\ Rank(R, S, x) \in Nat /\ Rank(R, S, y) \in Nat
  BY RankType DEF Rank
<1>2. Upto(x) \in SUBSET Upto(y) /\ Upto(y) \in SUBSET S /\ y \in Upto(y) /\ y \notin Upto(x)
  BY DEF IsOrder
<1> HIDE DEF Upto
<1>3. IsFiniteSet(Upto(y))
  BY <1>2, FS_Subset
<1>4. Cardinality(Upto(x)) <= Cardinality(Upto(y)) /\ Cardinality(Upto(x)) # Cardinality(Upto(y))
  BY <1>2, <1>3, FS_Subset
<1> QED
  BY <1>1, <1>4

\* Elements of one rank are one.
LEMMA RankTells ==
  ASSUME NEW S, IsFiniteSet(S), NEW R, IsOrder(R, S), NEW x \in S, NEW y \in S,
         Rank(R, S, x) = Rank(R, S, y)
  PROVE  x = y
<1>1. Rank(R, S, x) \in Nat
  BY RankType
<1>2. <<x, y>> \notin R
  BY <1>1, RankGrows
<1>3. <<y, x>> \notin R
  BY <1>1, RankGrows
<1> QED
  BY <1>2, <1>3 DEF IsOrder

\* Every place up to the number of elements is taken by one of them.
LEMMA PlaceTaken ==
  ASSUME NEW S, IsFiniteSet(S), NEW R, IsOrder(R, S), NEW k \in 1..Cardinality(S)
  PROVE  \E x \in S : Rank(R, S, x) = k
<1> DEFINE n == Cardinality(S)
           rank == [x \in S |-> Rank(R, S, x)]
<1>1. n \in Nat
  BY FS_CardinalityType
<1>2. rank \in Injection(S, 1..n)
  <2>1. rank \in [S -> 1..n]
    BY RankType
  <2>2. ASSUME NEW x \in S, NEW y \in S, rank[x] = rank[y] PROVE x = y
    BY <2>2, RankTells DEF rank
  <2> HIDE DEF rank
  <2>3. IsInjective(rank)
    BY <2>1, <2>2 DEF IsInjective
  <2> QED
    BY <2>1, <2>3 DEF Injection
<1>3. IsFiniteSet(1..n) /\ Cardinality(1..n) = n
  <2>1. /\ IsFiniteSet(1..n)
        /\ Cardinality(1..n) = IF 1 > n THEN 0 ELSE n - 1 + 1
    BY <1>1, FS_Interval
  <2> HIDE DEF n
  <2> QED
    BY <1>1, <2>1
<1> HIDE DEF rank
<1>4. rank \in Surjection(S, 1..n)
  BY <1>2, <1>3, FS_Injection
<1>5. PICK x \in S : rank[x] = k
  BY <1>4 DEF Surjection
<1> QED
  BY <1>5 DEF rank

\* A sequence that has at each place an element of that place has them all, in order.
LEMMA Places ==
  ASSUME NEW S, IsFiniteSet(S), NEW R, IsOrder(R, S), NEW n, n = Cardinality(S),
         NEW f, \A k \in 1..n : f[k] \in S /\ Rank(R, S, f[k]) = k
  PROVE  /\ \A x \in S : \E k \in 1..n : f[k] = x
         /\ \A j, k \in 1..n : j < k => <<f[j], f[k]>> \in R
<1>1. n \in Nat
  BY FS_CardinalityType
<1>3. ASSUME NEW x \in S PROVE \E k \in 1..n : f[k] = x
  <2>1. Rank(R, S, x) \in 1..n
    BY RankType
  <2>2. f[Rank(R, S, x)] \in S /\ Rank(R, S, f[Rank(R, S, x)]) = Rank(R, S, x)
    BY <2>1
  <2>3. f[Rank(R, S, x)] = x
    BY <2>2, RankTells
  <2> QED
    BY <2>1, <2>3
<1>4. ASSUME NEW j \in 1..n, NEW k \in 1..n, j < k PROVE <<f[j], f[k]>> \in R
  <2>1. f[j] \in S /\ f[k] \in S /\ Rank(R, S, f[j]) = j /\ Rank(R, S, f[k]) = k
    OBVIOUS
  <2>2. f[j] # f[k]
    BY <1>1, <1>4, <2>1
  <2>3. <<f[k], f[j]>> \notin R
    <3>1. SUFFICES ASSUME <<f[k], f[j]>> \in R PROVE FALSE
      OBVIOUS
    <3>2. Rank(R, S, f[k]) < Rank(R, S, f[j])
      BY <2>1, <3>1, RankGrows
    <3> QED
      BY <1>1, <1>4, <2>1, <3>2
  <2> QED
    BY <2>1, <2>2, <2>3 DEF IsOrder
<1> QED
  BY <1>3, <1>4

\* Numbers in increasing order.
LEMMA OrderedNumbers ==
  ASSUME NEW S \in SUBSET Int, IsFiniteSet(S), NEW n, n = Cardinality(S),
         NEW f, f = Ascending(S)
  PROVE  /\ n \in Nat /\ f \in [1..n -> S]
         /\ \A x \in S : \E k \in 1..n : f[k] = x
         /\ \A j, k \in 1..n : j < k => f[j] < f[k]
<1> DEFINE R == {p \in S \X S : p[1] < p[2]}
<1>1. IsOrder(R, S)
  BY DEF IsOrder
<1>2. \A x \in S : Rank(R, S, x) = Cardinality({y \in S : y = x \/ y < x})
  <2>1. \A x \in S : {y \in S : y = x \/ y < x} = {y \in S : y = x \/ <<y, x>> \in R}
    OBVIOUS
  <2> QED
    BY <2>1 DEF Rank
<1>3. \A x, y \in S : <<x, y>> \in R => x < y
  OBVIOUS
<1>4. n \in Nat
  BY FS_CardinalityType
<1>5. f = [k \in 1..n |-> CHOOSE x \in S : Cardinality({y \in S : y = x \/ y < x}) = k]
  BY DEF Ascending, Ordered
<1> HIDE DEF R
<1>6. ASSUME NEW k \in 1..n PROVE f[k] \in S /\ Rank(R, S, f[k]) = k
  <2>1. \E x \in S : Rank(R, S, x) = k
    BY <1>1, PlaceTaken
  <2>2. \E x \in S : Cardinality({y \in S : y = x \/ y < x}) = k
    BY <1>2, <2>1
  <2>3. f[k] \in S /\ Cardinality({y \in S : y = f[k] \/ y < f[k]}) = k
    BY <1>5, <2>2
  <2> QED
    BY <1>2, <2>3
<1>7. /\ \A x \in S : \E k \in 1..n : f[k] = x
      /\ \A j, k \in 1..n : j < k => <<f[j], f[k]>> \in R
  BY <1>1, <1>6, Places
<1> QED
  BY <1>3, <1>4, <1>5, <1>6, <1>7
=============================================================================
