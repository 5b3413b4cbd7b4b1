--------------------------- MODULE LeastElements ---------------------------
(***************************************************************************)
(* Facts that the proofs of the other modules share.  Induction on the     *)
(* natural numbers, in the form of least elements: they take a least       *)
(* counterexample.  Parts of finite sets, and rankings of their members.   *)
(* Sums of sequences.                                                      *)
(***************************************************************************)
EXTENDS Integers, Sequences, Sums, FiniteSetTheorems, WellFoundedInduction, TLAPS

\* A set of natural numbers that is not empty has a least element: the initial
\* segments below its elements are finite sets, which the strict subset relation
\* orders well.
LEMMA LeastNatural ==
  ASSUME NEW S \in SUBSET Nat, S # {}
  PROVE  \E m \in S : \A k \in S : m <= k
<1> DEFINE Initial == {0 .. k : k \in S}
<1>1. /\ Initial \subseteq FiniteSubsetsOf(Nat)
      /\ Initial # {}
  <2>1. ASSUME NEW k \in S PROVE 0 .. k \in SUBSET Nat /\ IsFiniteSet(0 .. k)
    <3>1. k \in Int /\ 0 \in Int
      OBVIOUS
    <3>2. IsFiniteSet(0 .. k)
      BY <3>1, FS_Interval
    <3> QED BY <3>2
  <2> QED BY <2>1 DEF FiniteSubsetsOf
<1>2. PICK x \in Initial : \A y \in Initial : ~(<<y, x>> \in StrictSubsetOrdering(Nat))
  <2>1. IsWellFoundedOn(StrictSubsetOrdering(Nat), FiniteSubsetsOf(Nat))
    BY FS_StrictSubsetOrderingWellFounded
  <2> HIDE DEF Initial
  <2> QED BY <1>1, <2>1, WFMin
<1>3. PICK m \in S : x = 0 .. m
  OBVIOUS
<1>4. ASSUME NEW k \in S PROVE m <= k
  <2>1. SUFFICES ASSUME k < m PROVE FALSE
    OBVIOUS
  <2>2. /\ 0 .. k \subseteq 0 .. m
        /\ m \in 0 .. m /\ m \notin 0 .. k
        /\ 0 .. k \in SUBSET Nat /\ 0 .. m \in SUBSET Nat
    BY <2>1
  <2>3. <<0 .. k, 0 .. m>> \in StrictSubsetOrdering(Nat)
    <3> DEFINE A == 0 .. k
               B == 0 .. m
    <3>1. A \in SUBSET Nat /\ B \in SUBSET Nat /\ A \subseteq B /\ A # B
      BY <2>2
    <3> HIDE DEF A, B
    <3>2. <<A, B>> \in StrictSubsetOrdering(Nat)
      BY <3>1 DEF StrictSubsetOrdering
    <3> QED BY <3>2 DEF A, B
  <2>4. 0 .. k \in Initial
    OBVIOUS
  <2> QED BY <1>2, <1>3, <2>3, <2>4
<1> QED BY <1>4

\* A set with an element that another set lacks is the smaller one if it is a
\* part of the other.
LEMMA SmallerPart ==
  ASSUME NEW S, IsFiniteSet(S), NEW T \in SUBSET S
  PROVE  /\ IsFiniteSet(T)
         /\ Cardinality(T) \in Nat /\ Cardinality(S) \in Nat
         /\ Cardinality(T) <= Cardinality(S)
         /\ T # S => Cardinality(T) < Cardinality(S)
<1>1. IsFiniteSet(T) /\ Cardinality(T) <= Cardinality(S)
      /\ (Cardinality(S) = Cardinality(T) => S = T)
  BY FS_Subset
<1>2. Cardinality(T) \in Nat /\ Cardinality(S) \in Nat
  BY <1>1, FS_CardinalityType
<1> QED BY <1>1, <1>2

\* Different ranks within 1 .. Cardinality(S) use every one of these numbers.
LEMMA RanksFill ==
  ASSUME NEW S, IsFiniteSet(S), NEW rank \in [S -> 1 .. Cardinality(S)],
         \A x, y \in S : rank[x] = rank[y] => x = y
  PROVE  \A k \in 1 .. Cardinality(S) : \E x \in S : rank[x] = k
<1> DEFINE T == 1 .. Cardinality(S)
<1>1. Cardinality(S) \in Nat
  BY FS_CardinalityType
<1>2. IsFiniteSet(T) /\ Cardinality(T) = Cardinality(S)
  <2>1. 1 \in Int /\ Cardinality(S) \in Int
    BY <1>1
  <2> QED BY <1>1, <2>1, FS_Interval
<1>3. rank \in Injection(S, T)
  BY DEF Injection, IsInjective
<1> HIDE DEF T
<1>4. rank \in Surjection(S, T)
  BY <1>2, <1>3, FS_Injection
<1> QED BY <1>4 DEF Surjection, T

\* A function on 1 .. n is a sequence of length n.
LEMMA RowIsSequence ==
  ASSUME NEW S, NEW n \in Nat, NEW row \in [1 .. n -> S]
  PROVE  row \in Seq(S) /\ Len(row) = n /\ DOMAIN row = 1 .. n
OBVIOUS

-----------------------------------------------------------------------------
(* Sums.                                                                    *)

IsSum(sum, f, n) ==
  /\ sum \in [0 .. n -> Int]
  /\ sum[0] = 0
  /\ \A k \in 1 .. n : sum[k] = sum[k - 1] + f[k]

\* The partial sums exist, and SumTo is the last of them.
LEMMA SumIsSum ==
  ASSUME NEW n \in Nat, NEW f \in [1 .. n -> Int]
  PROVE  \E sum : IsSum(sum, f, n) /\ SumTo(f, n) = sum[n]
<1> DEFINE Step(sum, k) == IF k = 0 THEN 0 ELSE sum[k - 1] + f[k]
           Sums(sum, k) == /\ sum \in [0 .. k -> Int]
                           /\ \A l \in 0 .. k : sum[l] = Step(sum, l)
           Bad == {k \in 0 .. n : ~ \E sum : Sums(sum, k)}
<1>1. Bad = {}
  <2>1. SUFFICES ASSUME Bad # {} PROVE FALSE
    OBVIOUS
  <2>2. PICK m \in Bad : \A k \in Bad : m <= k
    <3>1. Bad \in SUBSET Nat
      OBVIOUS
    <3> HIDE DEF Bad
    <3> QED BY <2>1, <3>1, LeastNatural
  <2>3. m # 0
    <3>1. Sums([l \in 0 .. 0 |-> 0], 0)
      OBVIOUS
    <3> QED BY <3>1
  <2>4. m - 1 \in 0 .. n /\ m - 1 \notin Bad
    <3>1. m \in 0 .. n /\ m - 1 \in 0 .. n
      BY <2>3
    <3> HIDE DEF Bad
    <3> QED BY <2>2, <3>1
  <2>5. PICK sum : Sums(sum, m - 1)
    BY <2>4
  <2> DEFINE longer == [l \in 0 .. m |-> IF l = m THEN sum[m - 1] + f[m] ELSE sum[l]]
  <2>6. m \in 1 .. n /\ f[m] \in Int /\ sum[m - 1] \in Int
    BY <2>3, <2>5
  <2>7. longer \in [0 .. m -> Int]
    BY <2>5, <2>6
  <2>8. ASSUME NEW l \in 0 .. m PROVE longer[l] = Step(longer, l)
    <3>1. CASE l = m
      BY <3>1, <2>3, <2>6
    <3>2. CASE l # m
      BY <3>2, <2>5, <2>3
    <3> QED BY <3>1, <3>2
  <2>9. Sums(longer, m)
    BY <2>7, <2>8
  <2> QED BY <2>9
<1>2. PICK s : Sums(s, n)
  <2>1. n \in 0 .. n
    OBVIOUS
  <2>2. n \notin Bad
    <3> HIDE DEF Bad
    <3> QED BY <1>1
  <2> HIDE DEF Sums
  <2> QED BY <2>1, <2>2
<1> DEFINE Rec(sum) == sum = [k \in 0 .. n |-> Step(sum, k)]
           chosen == CHOOSE sum : Rec(sum)
<1>3. Rec(s)
  BY <1>2
<1>4. Rec(chosen)
  <2> HIDE DEF Rec
  <2> QED BY <1>3
<1>5. SumTo(f, n) = chosen[n]
  BY DEF SumTo
<1>6. chosen[0] = 0 /\ \A k \in 1 .. n : chosen[k] = chosen[k - 1] + f[k]
  <2> HIDE DEF chosen
  <2> QED BY <1>4
<1>7. \A k \in 0 .. n : chosen[k] \in Int
  <2> DEFINE NotInt == {k \in 0 .. n : chosen[k] \notin Int}
  <2> HIDE DEF chosen
  <2>1. SUFFICES ASSUME NotInt # {} PROVE FALSE
    OBVIOUS
  <2>2. PICK m \in NotInt : \A k \in NotInt : m <= k
    <3>1. NotInt \in SUBSET Nat
      OBVIOUS
    <3> HIDE DEF NotInt
    <3> QED BY <2>1, <3>1, LeastNatural
  <2>3. m # 0
    BY <1>6
  <2>4. m - 1 \in 0 .. n /\ m \in 1 .. n /\ chosen[m - 1] \in Int
    BY <2>2, <2>3
  <2> QED BY <2>3, <2>4, <1>6
<1>8. IsSum(chosen, f, n)
  <2> HIDE DEF chosen
  <2> QED BY <1>4, <1>6, <1>7 DEF IsSum
<1> QED BY <1>5, <1>8

\* Sums add up entry by entry: the least number of entries for which they did not
\* would have a smaller one below it.
LEMMA SumAdds ==
  ASSUME NEW n \in Nat, NEW f \in [1 .. n -> Int], NEW g \in [1 .. n -> Int],
         NEW h \in [1 .. n -> Int], \A k \in 1 .. n : h[k] = f[k] + g[k]
  PROVE  SumTo(h, n) = SumTo(f, n) + SumTo(g, n)
<1>1. PICK s : IsSum(s, h, n) /\ SumTo(h, n) = s[n]
  BY SumIsSum
<1>2. PICK u : IsSum(u, f, n) /\ SumTo(f, n) = u[n]
  BY SumIsSum
<1>3. PICK v : IsSum(v, g, n) /\ SumTo(g, n) = v[n]
  BY SumIsSum
<1> DEFINE Bad == {k \in 0 .. n : s[k] # u[k] + v[k]}
<1>4. Bad = {}
  <2>1. SUFFICES ASSUME Bad # {} PROVE FALSE
    OBVIOUS
  <2>2. PICK m \in Bad : \A k \in Bad : m <= k
    <3>1. Bad \in SUBSET Nat
      OBVIOUS
    <3> HIDE DEF Bad
    <3> QED BY <2>1, <3>1, LeastNatural
  <2>3. m # 0
    BY <1>1, <1>2, <1>3 DEF IsSum
  <2>4. m \in 1 .. n /\ m - 1 \in 0 .. n
    BY <2>3
  <2>5. s[m - 1] = u[m - 1] + v[m - 1]
    BY <2>2, <2>4
  <2>6. /\ s[m] = s[m - 1] + h[m] /\ u[m] = u[m - 1] + f[m] /\ v[m] = v[m - 1] + g[m]
        /\ s[m - 1] \in Int /\ u[m - 1] \in Int /\ v[m - 1] \in Int
        /\ f[m] \in Int /\ g[m] \in Int /\ h[m] = f[m] + g[m]
    BY <1>1, <1>2, <1>3, <2>4 DEF IsSum
  <2>7. s[m] # u[m] + v[m]
    OBVIOUS
  <2>8. u[m] + v[m] = (u[m - 1] + v[m - 1]) + (f[m] + g[m])
    <3> DEFINE x == u[m - 1]
               y == v[m - 1]
               a == f[m]
               b == g[m]
    <3>1. u[m] = x + a /\ v[m] = y + b /\ x \in Int /\ y \in Int /\ a \in Int /\ b \in Int
      BY <2>6
    <3> HIDE DEF x, y, a, b, Bad
    <3>2. u[m] + v[m] = (x + y) + (a + b)
      BY <3>1
    <3> QED BY <3>2 DEF x, y, a, b
  <2> HIDE DEF Bad
  <2> QED BY <2>5, <2>6, <2>7, <2>8
<1> QED BY <1>1, <1>2, <1>3, <1>4

\* Two functions that differ in one entry have sums that differ by as much.
LEMMA SumChanges ==
  ASSUME NEW n \in Nat, NEW f \in [1 .. n -> Int], NEW g \in [1 .. n -> Int], NEW i \in 1 .. n,
         \A j \in 1 .. n : j # i => f[j] = g[j]
  PROVE  SumTo(f, n) = SumTo(g, n) + f[i] - g[i]
<1>1. PICK u : IsSum(u, f, n) /\ SumTo(f, n) = u[n]
  BY SumIsSum
<1>2. PICK v : IsSum(v, g, n) /\ SumTo(g, n) = v[n]
  BY SumIsSum
<1> DEFINE Bad == {k \in 0 .. n : u[k] # v[k] + (IF k >= i THEN f[i] - g[i] ELSE 0)}
<1>3. Bad = {}
  <2>1. SUFFICES ASSUME Bad # {} PROVE FALSE
    OBVIOUS
  <2>2. PICK m \in Bad : \A k \in Bad : m <= k
    <3>1. Bad \in SUBSET Nat
      OBVIOUS
    <3> HIDE DEF Bad
    <3> QED BY <2>1, <3>1, LeastNatural
  <2>3. m # 0
    BY <1>1, <1>2 DEF IsSum
  <2>4. m \in 1 .. n /\ m - 1 \in 0 .. n
    BY <2>3
  <2>5. u[m - 1] = v[m - 1] + (IF m - 1 >= i THEN f[i] - g[i] ELSE 0)
    BY <2>2, <2>4
  <2>6. /\ u[m] = u[m - 1] + f[m] /\ v[m] = v[m - 1] + g[m]
        /\ u[m - 1] \in Int /\ v[m - 1] \in Int
    BY <1>1, <1>2, <2>4 DEF IsSum
  <2>7. f[m] \in Int /\ g[m] \in Int /\ f[i] \in Int /\ g[i] \in Int /\ i \in Int
    BY <2>4
  <2>8. m # i => f[m] = g[m]
    BY <2>4
  <2>9. u[m] # v[m] + (IF m >= i THEN f[i] - g[i] ELSE 0)
    OBVIOUS
  <2> DEFINE x == u[m - 1]
             y == v[m - 1]
             a == f[m]
             b == g[m]
             d == f[i] - g[i]
             l == m - 1
  <2>10. /\ u[m] = x + a /\ v[m] = y + b /\ x \in Int /\ y \in Int /\ a \in Int /\ b \in Int
         /\ d \in Int /\ l = m - 1 /\ m \in Int
    BY <2>4, <2>6, <2>7
  <2>11. x = y + (IF l >= i THEN d ELSE 0) /\ u[m] # v[m] + (IF m >= i THEN d ELSE 0)
    BY <2>5, <2>9
  <2>12. (m = i => a - b = d) /\ (m # i => a = b)
    BY <2>8
  <2> HIDE DEF x, y, a, b, d, l, Bad
  <2>13. CASE m = i
    BY <2>7, <2>10, <2>11, <2>12, <2>13
  <2>14. CASE m # i
    BY <2>7, <2>10, <2>11, <2>12, <2>14
  <2> QED BY <2>13, <2>14
<1>4. n \notin Bad /\ n \in 0 .. n /\ n >= i
  BY <1>3
<1> QED BY <1>1, <1>2, <1>4 DEF IsSum

\* A sum without negative entries is not negative.
LEMMA SumNonnegative ==
  ASSUME NEW n \in Nat, NEW f \in [1 .. n -> Nat]
  PROVE  SumTo(f, n) \in Nat
<1>1. PICK s : IsSum(s, f, n) /\ SumTo(f, n) = s[n]
  BY SumIsSum
<1> DEFINE Bad == {k \in 0 .. n : s[k] \notin Nat}
<1>2. Bad = {}
  <2>1. SUFFICES ASSUME Bad # {} PROVE FALSE
    OBVIOUS
  <2>2. PICK m \in Bad : \A k \in Bad : m <= k
    <3>1. Bad \in SUBSET Nat
      OBVIOUS
    <3> HIDE DEF Bad
    <3> QED BY <2>1, <3>1, LeastNatural
  <2>3. m # 0
    BY <1>1 DEF IsSum
  <2>4. m \in 1 .. n /\ m - 1 \in 0 .. n
    BY <2>3
  <2>5. s[m - 1] \in Nat
    BY <2>2, <2>4
  <2> QED BY <1>1, <2>4, <2>5 DEF IsSum
<1> QED BY <1>1, <1>2

\* Zeros add up to zero.
LEMMA SumOfZeros ==
  ASSUME NEW n \in Nat, NEW f \in [1 .. n -> Int], \A k \in 1 .. n : f[k] = 0
  PROVE  SumTo(f, n) = 0
<1>1. PICK s : IsSum(s, f, n) /\ SumTo(f, n) = s[n]
  BY SumIsSum
<1>2. SumTo(f, n) \in Int
  BY <1>1 DEF IsSum
<1>3. SumTo(f, n) = SumTo(f, n) + SumTo(f, n)
  BY SumAdds
<1> DEFINE total == SumTo(f, n)
<1>4. total \in Int /\ total = total + total
  BY <1>2, <1>3
<1>5. total = 0
  <2> HIDE DEF total
  <2> QED BY <1>4
<1> QED BY <1>5
=============================================================================
