------------------------ MODULE SlackTimelineProofs ------------------------
(***************************************************************************)
(* Theorems about SlackTimeline for every value of its constants: every    *)
(* horizon, block size, set of claims and set of curves.                   *)
(***************************************************************************)
EXTENDS SlackTimeline, LeastElements, SequenceTheorems

-----------------------------------------------------------------------------
(* Lists of integers in their order.                                        *)

Ascends(list) == \A j, k \in DOMAIN list : j < k => list[j] < list[k]

IsListing(list, S) ==
  /\ list \in Seq(S)
  /\ Len(list) = Cardinality(S)
  /\ \A n \in S : \E k \in DOMAIN list : list[k] = n
  /\ Ascends(list)

\* Listed lists every member of a set once, in order.
LEMMA ListedInOrder ==
  ASSUME NEW S \in SUBSET Int, IsFiniteSet(S)
  PROVE  IsListing(Listed(S), S)
<1> DEFINE rank == [n \in S |-> Cardinality({m \in S : m <= n})]
<1>1. Cardinality(S) \in Nat
  BY FS_CardinalityType
<1>2. ASSUME NEW n \in S PROVE rank[n] \in 1 .. Cardinality(S)
  <2> DEFINE upTo == {m \in S : m <= n}
  <2>1. upTo \in SUBSET S /\ n \in upTo
    OBVIOUS
  <2>2. rank[n] = Cardinality(upTo)
    OBVIOUS
  <2> HIDE DEF upTo, rank
  <2>3. IsFiniteSet(upTo) /\ Cardinality(upTo) \in Nat /\ Cardinality(upTo) <= Cardinality(S)
    BY <2>1, SmallerPart
  <2>4. Cardinality(upTo) # 0
    BY <2>1, <2>3, FS_EmptySet
  <2> QED BY <1>1, <2>2, <2>3, <2>4
<1>3. ASSUME NEW n \in S, NEW m \in S, n < m PROVE rank[n] < rank[m]
  <2> DEFINE upToN == {x \in S : x <= n}
             upToM == {x \in S : x <= m}
  <2>1. upToN \in SUBSET upToM /\ m \in upToM /\ m \notin upToN /\ upToM \in SUBSET S
    <3>1. n \in Int /\ m \in Int
      OBVIOUS
    <3>2. \A x \in S : x \in Int /\ (x <= n => x <= m)
      BY <1>3, <3>1
    <3>3. m <= m /\ ~(m <= n)
      BY <1>3, <3>1
    <3>4. upToM \in SUBSET S
      OBVIOUS
    <3> QED BY <3>2, <3>3, <3>4
  <2>2. rank[n] = Cardinality(upToN) /\ rank[m] = Cardinality(upToM)
    OBVIOUS
  <2> HIDE DEF upToN, upToM, rank
  <2>3. IsFiniteSet(upToM)
    BY <2>1, FS_Subset
  <2> QED BY <2>1, <2>2, <2>3, SmallerPart
<1>4. \A n, m \in S : rank[n] = rank[m] => n = m
  <2>1. SUFFICES ASSUME NEW n \in S, NEW m \in S, rank[n] = rank[m] PROVE n = m
    OBVIOUS
  <2>2. rank[n] \in Int /\ rank[m] \in Int /\ n \in Int /\ m \in Int
    BY <1>2
  <2> HIDE DEF rank
  <2> QED BY <1>3, <2>1, <2>2
<1>5. \A k \in 1 .. Cardinality(S) : \E n \in S : rank[n] = k
  <2>1. rank \in [S -> 1 .. Cardinality(S)]
    BY <1>2
  <2> HIDE DEF rank
  <2> QED BY <1>4, <2>1, RanksFill
<1> DEFINE L == Listed(S)
<1>6. ASSUME NEW k \in 1 .. Cardinality(S) PROVE L[k] \in S /\ rank[L[k]] = k
  <2>1. \E n \in S : Cardinality({m \in S : m <= n}) = k
    BY <1>5
  <2> QED BY <2>1 DEF Listed
<1>7. L \in Seq(S) /\ Len(L) = Cardinality(S) /\ DOMAIN L = 1 .. Cardinality(S)
  <2>1. L \in [1 .. Cardinality(S) -> S]
    BY <1>6 DEF Listed
  <2> HIDE DEF L
  <2> QED BY <1>1, <2>1, RowIsSequence
<1> HIDE DEF L, rank
<1>8. \A n \in S : \E k \in DOMAIN L : L[k] = n
  <2>1. SUFFICES ASSUME NEW n \in S PROVE \E k \in DOMAIN L : L[k] = n
    OBVIOUS
  <2>2. rank[n] \in DOMAIN L
    BY <1>2, <1>7
  <2> QED BY <1>4, <1>6, <1>7, <2>2
<1>9. Ascends(L)
  <2>1. SUFFICES ASSUME NEW j \in DOMAIN L, NEW k \in DOMAIN L, j < k PROVE L[j] < L[k]
    BY DEF Ascends
  <2>2. /\ L[j] \in S /\ L[k] \in S /\ rank[L[j]] = j /\ rank[L[k]] = k
        /\ L[j] \in Int /\ L[k] \in Int /\ j \in Int /\ k \in Int
    <3>1. j \in 1 .. Cardinality(S) /\ k \in 1 .. Cardinality(S)
      BY <1>7
    <3>2. L[j] \in S /\ L[k] \in S /\ rank[L[j]] = j /\ rank[L[k]] = k
      BY <1>6, <3>1
    <3>3. \A x \in S : x \in Int
      OBVIOUS
    <3>4. j \in Int /\ k \in Int
      BY <3>1
    <3> QED BY <3>2, <3>3, <3>4
  <2>3. L[k] < L[j] => k < j
    BY <1>3, <2>2
  <2>4. L[k] # L[j]
    BY <2>1, <2>2
  <2> QED BY <2>1, <2>2, <2>3, <2>4
<1> QED BY <1>7, <1>8, <1>9 DEF IsListing, L

\* What a listing leaves out: nothing between neighbours, before the first or
\* behind the last.
LEMMA ListingGaps ==
  ASSUME NEW S \in SUBSET Int, NEW list, IsListing(list, S), NEW n \in S
  PROVE  /\ list[1] <= n /\ n <= list[Len(list)]
         /\ \A k \in 1 .. Len(list) - 1 : n <= list[k] \/ list[k + 1] <= n
         /\ Len(list) \in Nat /\ 1 \in DOMAIN list /\ Len(list) \in DOMAIN list
<1>1. list \in Seq(S) /\ Ascends(list) /\ DOMAIN list = 1 .. Len(list) /\ Len(list) \in Nat
  BY DEF IsListing
<1>2. PICK j \in DOMAIN list : list[j] = n
  BY DEF IsListing
<1>3. \A k \in DOMAIN list : list[k] \in Int
  <2>1. \A k \in DOMAIN list : list[k] \in S
    BY <1>1
  <2> QED BY <2>1
<1>4. j \in 1 .. Len(list) /\ Len(list) \in Nat
  BY <1>1
<1>5. 1 \in DOMAIN list /\ Len(list) \in DOMAIN list
  BY <1>1, <1>4
<1>6. \A k \in DOMAIN list : (j < k => list[j] < list[k]) /\ (k < j => list[k] < list[j])
  BY <1>1 DEF Ascends
<1>7. list[1] <= n /\ n <= list[Len(list)]
  <2>1. (j = 1 \/ 1 < j) /\ (j = Len(list) \/ j < Len(list))
    BY <1>4
  <2> QED BY <1>2, <1>3, <1>5, <1>6, <2>1
<1>8. ASSUME NEW k \in 1 .. Len(list) - 1 PROVE n <= list[k] \/ list[k + 1] <= n
  <2>1. k \in DOMAIN list /\ k + 1 \in DOMAIN list
    BY <1>1
  <2>2. j < k \/ j = k \/ j = k + 1 \/ k + 1 < j
    BY <1>4
  <2>3. (j < k => list[j] < list[k]) /\ (k + 1 < j => list[k + 1] < list[j])
    BY <1>6, <2>1
  <2> QED BY <1>2, <1>3, <2>1, <2>2, <2>3
<1> QED BY <1>1, <1>5, <1>7, <1>8

-----------------------------------------------------------------------------
(* A set of points, read as a function of time.                             *)

PointSet == [at : Time, slack : Int]

\* No two points of a set are at one time.
OnePerTime(P) == \A p, q \in P : p.at = q.at => p = q

\* The last point of P up to time t has slack v; before the first, slack is zero.
Shows(P, t, v) ==
  \/ v = 0 /\ \A p \in P : t < p.at
  \/ \E p \in P : p.at <= t /\ p.slack = v /\ \A q \in P : q.at <= t => q.at <= p.at

\* Times, and the times and slacks of points, are integers.
LEMMA TimesAreIntegers ==
  /\ Time \subseteq Int
  /\ \A t \in Time : t \in Int /\ t \in Nat
  /\ \A p \in PointSet : p.at \in Time /\ p.at \in Int /\ p.at \in Nat /\ p.slack \in Int
BY TimelineConstants DEF Time, PointSet

\* An interval, or a claim, whose ends are times, one before the other.
Spans(i) == i.from \in Time /\ i.to \in Time /\ i.from < i.to

\* Those times are integers.
LEMMA IntervalFacts ==
  ASSUME NEW i, Spans(i)
  PROVE  /\ i.from \in Time /\ i.to \in Time /\ i.from \in Int /\ i.to \in Int
         /\ i.from < i.to /\ i.to - i.from \in Nat \ {0}
<1>1. i.from \in Time /\ i.to \in Time /\ i.from < i.to
  BY DEF Spans
<1>2. i.from \in Int /\ i.to \in Int
  BY <1>1, TimesAreIntegers
<1> QED BY <1>1, <1>2

\* A set of points shows at most one slack.
LEMMA ShowsOnce ==
  ASSUME NEW P \in SUBSET PointSet, OnePerTime(P), NEW t \in Int, NEW v, NEW w,
         Shows(P, t, v), Shows(P, t, w)
  PROVE  v = w
<1>1. \A p \in P : p.at \in Int
  BY TimesAreIntegers
<1>2. CASE \A p \in P : t < p.at
  BY <1>1, <1>2 DEF Shows
<1>3. CASE ~ \A p \in P : t < p.at
  <2>1. PICK p \in P : p.at <= t /\ p.slack = v /\ \A q \in P : q.at <= t => q.at <= p.at
    BY <1>3 DEF Shows
  <2>2. PICK r \in P : r.at <= t /\ r.slack = w /\ \A q \in P : q.at <= t => q.at <= r.at
    BY <1>3 DEF Shows
  <2>3. p.at = r.at
    BY <1>1, <2>1, <2>2
  <2> QED BY <2>1, <2>2, <2>3 DEF OnePerTime
<1> QED BY <1>2, <1>3

\* The slack a point has is the one it shows.
LEMMA PointShowsItself ==
  ASSUME NEW P \in SUBSET PointSet, NEW p \in P
  PROVE  Shows(P, p.at, p.slack)
<1>1. \A q \in P : q.at \in Int
  BY TimesAreIntegers
<1> QED BY <1>1 DEF Shows

\* Points that say what would be shown without them can go.
LEMMA ShowsThinned ==
  ASSUME NEW P \in SUBSET PointSet, NEW Q \in SUBSET P, NEW t \in Int, NEW v,
         \A p \in P \ Q : Shows(Q, p.at, p.slack),
         Shows(P, t, v)
  PROVE  Shows(Q, t, v)
<1>1. \A p \in P : p.at \in Int
  BY TimesAreIntegers
<1>2. CASE v = 0 /\ \A p \in P : t < p.at
  BY <1>2 DEF Shows
<1>3. CASE \E p \in P : p.at <= t /\ p.slack = v /\ \A q \in P : q.at <= t => q.at <= p.at
  <2>1. PICK p \in P : p.at <= t /\ p.slack = v /\ \A q \in P : q.at <= t => q.at <= p.at
    BY <1>3
  <2>2. CASE p \in Q
    BY <2>1, <2>2 DEF Shows
  <2>3. CASE p \notin Q
    <3>1. Shows(Q, p.at, v)
      BY <2>1, <2>3
    <3>2. \A q \in Q : q.at \in Int /\ (q.at <= t <=> q.at <= p.at) /\ (t < q.at <=> p.at < q.at)
      BY <1>1, <2>1
    <3>3. CASE v = 0 /\ \A q \in Q : p.at < q.at
      BY <3>2, <3>3 DEF Shows
    <3>4. CASE \E r \in Q : r.at <= p.at /\ r.slack = v
                            /\ \A q \in Q : q.at <= p.at => q.at <= r.at
      BY <3>2, <3>4 DEF Shows
    <3> QED BY <3>1, <3>3, <3>4 DEF Shows
  <2> QED BY <2>2, <2>3
<1> QED BY <1>2, <1>3 DEF Shows

\* Points that say what is shown without them can be added.
LEMMA ShowsExtended ==
  ASSUME NEW P \in SUBSET PointSet, NEW r \in PointSet, OnePerTime(P), NEW t \in Int, NEW v,
         Shows(P, r.at, r.slack), Shows(P, t, v)
  PROVE  Shows(P \cup {r}, t, v)
<1>1. r.at \in Int /\ \A p \in P : p.at \in Int
  BY TimesAreIntegers
<1>2. CASE t < r.at
  <2>1. ~(r.at <= t)
    BY <1>1, <1>2
  <2> QED BY <1>2, <2>1 DEF Shows
<1>3. CASE r.at <= t /\ \E p \in P : p.at <= t /\ r.at < p.at
  <2>1. PICK p \in P : p.at <= t /\ p.slack = v /\ \A q \in P : q.at <= t => q.at <= p.at
    BY <1>1, <1>3 DEF Shows
  <2>2. r.at <= p.at
    BY <1>1, <1>3, <2>1
  <2> QED BY <2>1, <2>2 DEF Shows
<1>4. CASE r.at <= t /\ \A p \in P : p.at <= t => p.at <= r.at
  <2>1. Shows(P, r.at, v)
    <3>1. \A p \in P : (p.at <= t <=> p.at <= r.at) /\ (t < p.at <=> r.at < p.at)
      BY <1>1, <1>4
    <3>2. CASE v = 0 /\ \A p \in P : t < p.at
      BY <3>1, <3>2 DEF Shows
    <3>3. CASE \E p \in P : p.at <= t /\ p.slack = v /\ \A q \in P : q.at <= t => q.at <= p.at
      BY <3>1, <3>3 DEF Shows
    <3> QED BY <3>2, <3>3 DEF Shows
  <2>2. v = r.slack
    BY <1>1, <2>1, ShowsOnce
  <2>3. \A q \in P \cup {r} : q.at <= t => q.at <= r.at
    BY <1>1, <1>4
  <2> QED BY <1>4, <2>2, <2>3 DEF Shows
<1> QED BY <1>1, <1>2, <1>3, <1>4

\* The points of an interval, raised by d.
Raised(p, i, d) == [p EXCEPT !.slack = IF i.from <= p.at /\ p.at < i.to THEN @ + d ELSE @]

\* If there is a point at either end of the interval, slack is raised in all of it.
LEMMA ShowsRaised ==
  ASSUME NEW P \in SUBSET PointSet, NEW i, Spans(i), NEW d \in Int, NEW t \in Int, NEW v,
         \E p \in P : p.at = i.from,
         \E p \in P : p.at = i.to,
         Shows(P, t, v)
  PROVE  Shows({Raised(p, i, d) : p \in P}, t, IF i.from <= t /\ t < i.to THEN v + d ELSE v)
<1>1. i.from \in Int /\ i.to \in Int /\ i.from < i.to /\ \A p \in P : p.at \in Int /\ p.slack \in Int
  BY TimesAreIntegers DEF Spans
<1>2. \A p \in P : Raised(p, i, d).at = p.at
                   /\ Raised(p, i, d).slack = IF i.from <= p.at /\ p.at < i.to THEN p.slack + d
                                              ELSE p.slack
  BY DEF Raised, PointSet
<1>3. CASE v = 0 /\ \A p \in P : t < p.at
  <2>1. t < i.from
    BY <1>3
  <2>2. ~(i.from <= t)
    BY <1>1, <2>1
  <2>3. \A q \in {Raised(p, i, d) : p \in P} : t < q.at
    BY <1>2, <1>3
  <2> QED BY <1>3, <2>2, <2>3 DEF Shows
<1>4. CASE \E p \in P : p.at <= t /\ p.slack = v /\ \A q \in P : q.at <= t => q.at <= p.at
  <2>1. PICK p \in P : p.at <= t /\ p.slack = v /\ \A q \in P : q.at <= t => q.at <= p.at
    BY <1>4
  <2>2. (i.from <= p.at <=> i.from <= t) /\ (p.at < i.to <=> t < i.to)
    BY <1>1, <2>1
  <2>3. \A q \in {Raised(x, i, d) : x \in P} : q.at <= t => q.at <= Raised(p, i, d).at
    BY <1>2, <2>1
  <2>4. Raised(p, i, d).slack = IF i.from <= t /\ t < i.to THEN v + d ELSE v
    BY <1>2, <2>1, <2>2
  <2>5. Raised(p, i, d).at <= t /\ Raised(p, i, d) \in {Raised(x, i, d) : x \in P}
    BY <1>2, <2>1
  <2> HIDE DEF Raised
  <2> QED BY <2>3, <2>4, <2>5 DEF Shows
<1> QED BY <1>3, <1>4 DEF Shows

-----------------------------------------------------------------------------
(* Extremes.                                                                *)

IsExtreme(e, m, S) ==
  m \in S /\ \A x \in S : IF e = "minimum" THEN m <= x ELSE m >= x

\* A set has at most one extreme of a kind, and Extreme chooses it.
LEMMA ExtremeIs ==
  ASSUME NEW S \in SUBSET Int, NEW e \in Extremes, NEW m, IsExtreme(e, m, S)
  PROVE  Extreme(e, S) = m
<1>1. m \in Int /\ \A x \in S : x \in Int
  BY DEF IsExtreme
<1>2. CASE e = "minimum"
  <2>1. m \in S /\ \A x \in S : m <= x
    BY <1>2 DEF IsExtreme
  <2>2. Min(S) \in S /\ \A x \in S : Min(S) <= x
    BY <2>1 DEF Min
  <2>3. Min(S) = m
    <3>1. Min(S) \in Int /\ Min(S) <= m /\ m <= Min(S)
      BY <1>1, <2>1, <2>2
    <3> QED BY <1>1, <3>1
  <2> QED BY <1>2, <2>3 DEF Extreme
<1>3. CASE e = "maximum"
  <2>1. m \in S /\ \A x \in S : m >= x
    BY <1>3 DEF IsExtreme
  <2>2. Max(S) \in S /\ \A x \in S : Max(S) >= x
    BY <2>1 DEF Max
  <2>3. Max(S) = m
    <3>1. Max(S) \in Int /\ Max(S) >= m /\ m >= Max(S)
      BY <1>1, <2>1, <2>2
    <3> QED BY <1>1, <3>1
  <2> QED BY <1>3, <2>3 DEF Extreme
<1> QED BY <1>2, <1>3 DEF Extremes

\* A list of integers has a least and a greatest entry.
LEMMA ListHasExtremes ==
  ASSUME NEW n \in Nat \ {0}, NEW f \in [1 .. n -> Int], NEW e \in Extremes
  PROVE  \E m : IsExtreme(e, m, {f[k] : k \in 1 .. n})
<1> DEFINE Beats(x, y) == IF e = "minimum" THEN x <= y ELSE x >= y
           Has(m) == \E j \in 1 .. m : \A k \in 1 .. m : Beats(f[j], f[k])
           Bad == {m \in 1 .. n : ~Has(m)}
<1>1. \A x, y, z \in Int : /\ Beats(x, x) /\ (Beats(x, y) \/ Beats(y, x))
                           /\ (Beats(x, y) /\ Beats(y, z) => Beats(x, z))
  OBVIOUS
<1> HIDE DEF Beats
<1>2. Bad = {}
  <2>1. SUFFICES ASSUME Bad # {} PROVE FALSE
    OBVIOUS
  <2>2. PICK m \in Bad : \A k \in Bad : m <= k
    <3>1. Bad \in SUBSET Nat
      OBVIOUS
    <3> HIDE DEF Bad
    <3> QED BY <2>1, <3>1, LeastNatural
  <2>3. m \in 1 .. n /\ ~Has(m)
    OBVIOUS
  <2>4. m # 1
    <3>1. ASSUME m = 1 PROVE FALSE
      <4>1. 1 \in 1 .. n /\ f[1] \in Int
        OBVIOUS
      <4>2. Beats(f[1], f[1])
        BY <1>1, <4>1
      <4>3. \A k \in 1 .. 1 : k = 1
        OBVIOUS
      <4>4. 1 \in 1 .. 1
        OBVIOUS
      <4> QED BY <2>3, <3>1, <4>2, <4>3, <4>4
    <3> QED BY <3>1
  <2>5. m - 1 \in 1 .. n /\ ~(m <= m - 1)
    BY <2>3, <2>4
  <2>6. Has(m - 1)
    BY <2>2, <2>5
  <2>7. PICK j \in 1 .. m - 1 : \A k \in 1 .. m - 1 : Beats(f[j], f[k])
    BY <2>6
  <2>8. /\ j \in 1 .. m /\ m \in 1 .. m /\ f[j] \in Int /\ f[m] \in Int
        /\ \A k \in 1 .. m : (k = m \/ k \in 1 .. m - 1) /\ f[k] \in Int
    BY <2>3, <2>5
  <2>9. CASE Beats(f[j], f[m])
    BY <2>3, <2>7, <2>8, <2>9
  <2>10. CASE Beats(f[m], f[j])
    <3>1. \A k \in 1 .. m : Beats(f[m], f[k])
      BY <1>1, <2>7, <2>8, <2>10
    <3> QED BY <2>3, <2>8, <3>1
  <2> QED BY <1>1, <2>8, <2>9, <2>10
<1>3. Has(n)
  <2>1. n \in 1 .. n
    OBVIOUS
  <2> HIDE DEF Has
  <2> QED BY <1>2, <2>1
<1>4. PICK j \in 1 .. n : \A k \in 1 .. n : Beats(f[j], f[k])
  BY <1>3
<1> QED BY <1>4 DEF IsExtreme, Beats

-----------------------------------------------------------------------------
(* Blocks.                                                                  *)

\* Points in order of time.
InTime(points) == \A i, j \in DOMAIN points : i < j => points[i].at < points[j].at

\* A block as it is stored, whatever its size and the width of its numbers.
BlockRecord == [points : Seq(PointSet), delta : Int, minimum : Int, maximum : Int]
BlockOK(b) ==
  /\ b \in BlockRecord
  /\ b.points # <<>>
  /\ InTime(b.points)
  /\ \A e \in Extremes : IsExtreme(e, b[e], Values(Effective(b)))

\* The effective points are the stored ones, moved by the delta.
LEMMA EffectiveIs ==
  ASSUME NEW b \in BlockRecord
  PROVE  /\ Effective(b) \in Seq(PointSet) /\ Len(Effective(b)) = Len(b.points)
         /\ DOMAIN Effective(b) = DOMAIN b.points /\ DOMAIN b.points = 1 .. Len(b.points)
         /\ Len(b.points) \in Nat
         /\ \A k \in DOMAIN b.points : /\ b.points[k] \in PointSet /\ Effective(b)[k] \in PointSet
                                       /\ Effective(b)[k].at = b.points[k].at
                                       /\ Effective(b)[k].slack = b.points[k].slack + b.delta
         /\ b.delta = 0 => Effective(b) = b.points
<1>1. b.points \in Seq(PointSet) /\ b.delta \in Int
  BY DEF BlockRecord
<1>2. /\ DOMAIN b.points = 1 .. Len(b.points) /\ Len(b.points) \in Nat
      /\ \A k \in DOMAIN b.points : b.points[k] \in PointSet
  BY <1>1
<1>3. ASSUME NEW k \in DOMAIN b.points
      PROVE  /\ Effective(b)[k] = [b.points[k] EXCEPT !.slack = @ + b.delta]
             /\ Effective(b)[k] \in PointSet
             /\ Effective(b)[k].at = b.points[k].at
             /\ Effective(b)[k].slack = b.points[k].slack + b.delta
  <2>1. Effective(b)[k] = [b.points[k] EXCEPT !.slack = @ + b.delta]
    BY DEF Effective
  <2>2. b.points[k] \in PointSet
    BY <1>2
  <2> DEFINE p == b.points[k]
             d == b.delta
  <2>3. p \in PointSet /\ d \in Int
    BY <1>1, <2>2
  <2>4. Effective(b)[k] = [p EXCEPT !.slack = @ + d]
    BY <2>1
  <2> HIDE DEF p, d
  <2>5. /\ [p EXCEPT !.slack = @ + d] \in PointSet
        /\ [p EXCEPT !.slack = @ + d].at = p.at /\ [p EXCEPT !.slack = @ + d].slack = p.slack + d
    BY <2>3 DEF PointSet
  <2>6. Effective(b)[k] \in PointSet /\ Effective(b)[k].at = p.at /\ Effective(b)[k].slack = p.slack + d
    BY <2>4, <2>5
  <2> QED BY <2>1, <2>6 DEF p, d
<1>4. DOMAIN Effective(b) = DOMAIN b.points
  BY DEF Effective
<1>5. Effective(b) \in [1 .. Len(b.points) -> PointSet]
  BY <1>2, <1>3 DEF Effective
<1>6. Effective(b) \in Seq(PointSet) /\ Len(Effective(b)) = Len(b.points)
  BY <1>2, <1>5, RowIsSequence
<1>7. ASSUME b.delta = 0 PROVE Effective(b) = b.points
  <2>1. \A k \in 1 .. Len(b.points) : Effective(b)[k] = b.points[k]
    BY <1>2, <1>3, <1>7 DEF PointSet
  <2> QED BY <1>1, <1>2, <1>6, <2>1
<1> QED BY <1>2, <1>3, <1>4, <1>6, <1>7

\* The slacks of a list of points have extremes.
LEMMA ValuesHaveExtremes ==
  ASSUME NEW points \in Seq(PointSet), points # <<>>, NEW e \in Extremes
  PROVE  /\ Values(points) \subseteq Int
         /\ IsExtreme(e, Extreme(e, Values(points)), Values(points))
<1> DEFINE n == Len(points)
           f == [k \in 1 .. n |-> points[k].slack]
<1>1. n \in Nat \ {0} /\ DOMAIN points = 1 .. n /\ \A k \in 1 .. n : points[k] \in PointSet
  OBVIOUS
<1>2. f \in [1 .. n -> Int]
  BY <1>1 DEF PointSet
<1>3. Values(points) = {f[k] : k \in 1 .. n}
  BY <1>1 DEF Values
<1>4. Values(points) \subseteq Int
  BY <1>2, <1>3
<1> HIDE DEF f, n
<1>5. PICK m : IsExtreme(e, m, Values(points))
  BY <1>1, <1>2, <1>3, ListHasExtremes
<1>6. Extreme(e, Values(points)) = m
  BY <1>4, <1>5, ExtremeIs
<1> QED BY <1>4, <1>5, <1>6

\* A block built from points has just these.
LEMMA BlockOfIs ==
  ASSUME NEW points \in Seq(PointSet), points # <<>>, InTime(points)
  PROVE  /\ BlockOK(BlockOf(points))
         /\ BlockOf(points).points = points /\ BlockOf(points).delta = 0
         /\ Effective(BlockOf(points)) = points
<1> DEFINE b == BlockOf(points)
<1>1. /\ b.points = points /\ b.delta = 0
      /\ \A e \in Extremes : b[e] = Extreme(e, Values(points))
  BY DEF BlockOf, Extremes, Extreme
<1>2. \A e \in Extremes : IsExtreme(e, b[e], Values(points)) /\ b[e] \in Int
  <2>1. ASSUME NEW e \in Extremes PROVE IsExtreme(e, b[e], Values(points)) /\ b[e] \in Int
    <3>1. Values(points) \subseteq Int /\ IsExtreme(e, b[e], Values(points))
      <4> HIDE DEF b
      <4> QED BY <1>1, ValuesHaveExtremes
    <3> HIDE DEF b
    <3> QED BY <3>1 DEF IsExtreme
  <2> QED BY <2>1
<1>3. b \in BlockRecord
  <2>1. b["minimum"] \in Int /\ b["maximum"] \in Int
    BY <1>2 DEF Extremes
  <2> QED BY <2>1 DEF BlockOf, BlockRecord
<1> HIDE DEF b
<1>4. Effective(b) = points
  BY <1>1, <1>3, EffectiveIs
<1>5. BlockOK(b)
  BY <1>1, <1>2, <1>3, <1>4 DEF BlockOK
<1> QED BY <1>1, <1>4, <1>5 DEF b

-----------------------------------------------------------------------------
(* Timelines.                                                               *)

Apart(a, b) ==
  \A i \in DOMAIN a.points, j \in DOMAIN b.points : a.points[i].at < b.points[j].at

\* Blocks in order of time.
TimelineOK(bs) ==
  /\ bs \in Seq(BlockRecord)
  /\ \A k \in DOMAIN bs : BlockOK(bs[k])
  /\ \A k, l \in DOMAIN bs : k < l => Apart(bs[k], bs[l])

\* The points of a timeline, with the deltas of their blocks.
Shown(bs) == UNION {ToSet(Effective(bs[k])) : k \in DOMAIN bs}

\* What is known of a block and its points.
LEMMA BlockFacts ==
  ASSUME NEW b, BlockOK(b)
  PROVE  /\ b \in BlockRecord /\ DOMAIN b.points = 1 .. Len(b.points) /\ Len(b.points) \in Nat \ {0}
         /\ 1 \in DOMAIN b.points /\ Len(b.points) \in DOMAIN b.points
         /\ \A i \in DOMAIN b.points : /\ b.points[i] \in PointSet /\ b.points[i].at \in Int
                                       /\ b.points[1].at <= b.points[i].at
                                       /\ b.points[i].at <= b.points[Len(b.points)].at
         /\ \A i, j \in DOMAIN b.points : i < j <=> b.points[i].at < b.points[j].at
<1>1. b \in BlockRecord /\ b.points # <<>> /\ InTime(b.points) /\ b.points \in Seq(PointSet)
  BY DEF BlockOK, BlockRecord
<1>2. DOMAIN b.points = 1 .. Len(b.points) /\ Len(b.points) \in Nat \ {0}
      /\ 1 \in DOMAIN b.points /\ Len(b.points) \in DOMAIN b.points
  BY <1>1
<1>3. \A i \in DOMAIN b.points : b.points[i] \in PointSet /\ b.points[i].at \in Int
  BY <1>1, <1>2, TimesAreIntegers
<1>4. ASSUME NEW i \in DOMAIN b.points, NEW j \in DOMAIN b.points
      PROVE  i < j <=> b.points[i].at < b.points[j].at
  <2>1. i \in Int /\ j \in Int
    BY <1>2
  <2>2. /\ i < j => b.points[i].at < b.points[j].at
        /\ j < i => b.points[j].at < b.points[i].at
    BY <1>1 DEF InTime
  <2> QED BY <1>3, <2>1, <2>2
<1>5. ASSUME NEW i \in DOMAIN b.points
      PROVE  b.points[1].at <= b.points[i].at /\ b.points[i].at <= b.points[Len(b.points)].at
  <2>1. ~(i < 1) /\ ~(Len(b.points) < i)
    BY <1>2
  <2>2. ~(b.points[i].at < b.points[1].at) /\ ~(b.points[Len(b.points)].at < b.points[i].at)
    BY <1>2, <1>4, <2>1
  <2> QED BY <1>2, <1>3, <2>2
<1> QED BY <1>1, <1>2, <1>3, <1>4, <1>5

\* The points of a timeline, one per time.
LEMMA ShownIs ==
  ASSUME NEW bs, TimelineOK(bs)
  PROVE  /\ DOMAIN bs = 1 .. Len(bs) /\ Len(bs) \in Nat
         /\ Shown(bs) \in SUBSET PointSet
         /\ OnePerTime(Shown(bs))
         /\ \A p : p \in Shown(bs) <=>
              \E k \in DOMAIN bs : \E i \in DOMAIN bs[k].points : p = Effective(bs[k])[i]
<1>1. DOMAIN bs = 1 .. Len(bs) /\ Len(bs) \in Nat
  BY DEF TimelineOK
<1>2. ASSUME NEW k \in DOMAIN bs
      PROVE  /\ BlockOK(bs[k])
             /\ ToSet(Effective(bs[k])) = {Effective(bs[k])[i] : i \in DOMAIN bs[k].points}
             /\ \A i \in DOMAIN bs[k].points : /\ Effective(bs[k])[i] \in PointSet
                                               /\ Effective(bs[k])[i].at = bs[k].points[i].at
  <2>1. BlockOK(bs[k])
    BY DEF TimelineOK
  <2>2. bs[k] \in BlockRecord
    BY <2>1 DEF BlockOK
  <2> QED BY <2>1, <2>2, EffectiveIs DEF ToSet
<1>3. \A p : p \in Shown(bs) <=>
        \E k \in DOMAIN bs : \E i \in DOMAIN bs[k].points : p = Effective(bs[k])[i]
  BY <1>2 DEF Shown
<1>4. Shown(bs) \in SUBSET PointSet
  BY <1>2, <1>3
<1>5. OnePerTime(Shown(bs))
  <2>1. SUFFICES ASSUME NEW p \in Shown(bs), NEW q \in Shown(bs), p.at = q.at PROVE p = q
    BY DEF OnePerTime
  <2>2. PICK k \in DOMAIN bs : \E i \in DOMAIN bs[k].points : p = Effective(bs[k])[i]
    BY <1>3
  <2>3. PICK i \in DOMAIN bs[k].points : p = Effective(bs[k])[i]
    BY <2>2
  <2>4. PICK l \in DOMAIN bs : \E j \in DOMAIN bs[l].points : q = Effective(bs[l])[j]
    BY <1>3
  <2>5. PICK j \in DOMAIN bs[l].points : q = Effective(bs[l])[j]
    BY <2>4
  <2>6. bs[k].points[i].at = bs[l].points[j].at
    BY <1>2, <2>1, <2>3, <2>5
  <2>7. bs[k].points[i].at \in Int
    BY <1>2, BlockFacts
  <2>8. ~(k < l) /\ ~(l < k)
    <3>1. k < l => bs[k].points[i].at < bs[l].points[j].at
      BY DEF TimelineOK, Apart
    <3>2. l < k => bs[l].points[j].at < bs[k].points[i].at
      BY DEF TimelineOK, Apart
    <3> QED BY <2>6, <2>7, <3>1, <3>2
  <2>9. k = l
    BY <1>1, <2>8
  <2>10. ~(i < j) /\ ~(j < i) /\ i \in Int /\ j \in Int
    <3>1. \A x, y \in DOMAIN bs[k].points : x < y <=> bs[k].points[x].at < bs[k].points[y].at
      BY <1>2, BlockFacts
    <3>2. i \in DOMAIN bs[k].points /\ j \in DOMAIN bs[k].points
      BY <2>9
    <3>3. DOMAIN bs[k].points = 1 .. Len(bs[k].points)
      BY <1>2, BlockFacts
    <3> QED BY <2>6, <2>7, <2>9, <3>1, <3>2, <3>3
  <2>11. i = j
    BY <2>10
  <2> QED BY <2>3, <2>5, <2>9, <2>11
<1> QED BY <1>1, <1>3, <1>4, <1>5

\* Counting the positions up to which something holds tells the last of them.
LEMMA PrefixCount ==
  ASSUME NEW n \in Nat, NEW A \in SUBSET (1 .. n),
         \A i \in A, j \in 1 .. n : j < i => j \in A
  PROVE  /\ Cardinality(A) \in 0 .. n
         /\ \A i \in 1 .. n : i \in A <=> i <= Cardinality(A)
<1> DEFINE Outside == {k \in 1 .. n + 1 : k \notin A}
<1>1. Outside \in SUBSET Nat /\ Outside # {}
  <2>1. n + 1 \in Outside
    OBVIOUS
  <2> QED BY <2>1
<1>2. PICK m \in Outside : \A k \in Outside : m <= k
  <2> HIDE DEF Outside
  <2> QED BY <1>1, LeastNatural
<1>3. m \in 1 .. n + 1 /\ m \notin A
  OBVIOUS
<1>4. A = 1 .. m - 1
  <2>1. ASSUME NEW k \in A PROVE k \in 1 .. m - 1
    <3>1. ~(m < k) /\ m # k /\ k \in 1 .. n
      BY <1>3
    <3> QED BY <1>3, <3>1
  <2>2. ASSUME NEW k \in 1 .. m - 1 PROVE k \in A
    <3>1. k \in 1 .. n + 1 /\ ~(m <= k)
      BY <1>3
    <3> QED BY <1>2, <3>1
  <2> QED BY <2>1, <2>2
<1>5. Cardinality(A) = m - 1
  <2>1. 1 \in Int /\ m - 1 \in Int /\ (1 <= m - 1 \/ m - 1 = 0)
    BY <1>3
  <2>2. Cardinality(1 .. m - 1) = m - 1
    BY <1>3, FS_Interval
  <2> QED BY <1>4, <2>2
<1> QED BY <1>3, <1>4, <1>5

\* The block in force at time t is the last that starts up to t.
LEMMA HomeIs ==
  ASSUME NEW bs, TimelineOK(bs), NEW t \in Int
  PROVE  /\ HomeOf(bs, t) \in 0 .. Len(bs)
         /\ \A k \in DOMAIN bs : bs[k].points[1].at <= t <=> k <= HomeOf(bs, t)
<1> DEFINE A == {k \in DOMAIN bs : bs[k].points[1].at <= t}
<1>1. DOMAIN bs = 1 .. Len(bs) /\ Len(bs) \in Nat
  BY DEF TimelineOK
<1>2. \A k \in DOMAIN bs : bs[k].points[1].at \in Int /\ 1 \in DOMAIN bs[k].points
  BY BlockFacts DEF TimelineOK
<1>3. ASSUME NEW k \in A, NEW j \in 1 .. Len(bs), j < k PROVE j \in A
  <2>1. j \in DOMAIN bs /\ bs[j].points[1].at < bs[k].points[1].at
    BY <1>1, <1>2, <1>3 DEF TimelineOK, Apart
  <2> QED BY <1>2, <2>1
<1>4. A \in SUBSET (1 .. Len(bs)) /\ HomeOf(bs, t) = Cardinality(A)
  BY <1>1 DEF HomeOf
<1>5. \A k \in DOMAIN bs : k \in A <=> bs[k].points[1].at <= t
  OBVIOUS
<1> HIDE DEF A
<1> QED BY <1>1, <1>3, <1>4, <1>5, PrefixCount

\* The point in force at time t is the last at up to t.
LEMMA PointIs ==
  ASSUME NEW b, BlockOK(b), NEW t \in Int
  PROVE  /\ PointOf(b, t) \in 0 .. Len(b.points)
         /\ \A i \in DOMAIN b.points : b.points[i].at <= t <=> i <= PointOf(b, t)
<1> DEFINE A == {i \in DOMAIN b.points : b.points[i].at <= t}
<1>1. DOMAIN b.points = 1 .. Len(b.points) /\ Len(b.points) \in Nat
  BY BlockFacts
<1>2. ASSUME NEW i \in A, NEW j \in 1 .. Len(b.points), j < i PROVE j \in A
  <2>1. j \in DOMAIN b.points /\ b.points[j].at < b.points[i].at
        /\ b.points[i].at \in Int /\ b.points[j].at \in Int
    BY <1>1, <1>2, BlockFacts
  <2> QED BY <2>1
<1>3. A \in SUBSET (1 .. Len(b.points)) /\ PointOf(b, t) = Cardinality(A)
  BY <1>1 DEF PointOf
<1>4. \A i \in DOMAIN b.points : i \in A <=> b.points[i].at <= t
  OBVIOUS
<1> HIDE DEF A
<1> QED BY <1>1, <1>2, <1>3, <1>4, PrefixCount

\* A point of a block, as it is shown.
LEMMA BlockShows ==
  ASSUME NEW bs, TimelineOK(bs), NEW k \in DOMAIN bs, NEW i \in DOMAIN bs[k].points
  PROVE  /\ Effective(bs[k])[i] \in Shown(bs) /\ Effective(bs[k])[i] \in PointSet
         /\ Effective(bs[k])[i].at = bs[k].points[i].at
         /\ i \in DOMAIN Effective(bs[k])
         /\ \A l \in DOMAIN bs : \A j \in DOMAIN bs[l].points :
              k < l \/ (k = l /\ i < j) => bs[k].points[i].at < bs[l].points[j].at
<1>1. BlockOK(bs[k]) /\ bs[k] \in BlockRecord
  BY DEF TimelineOK, BlockOK
<1>2. /\ Effective(bs[k])[i] \in PointSet /\ Effective(bs[k])[i].at = bs[k].points[i].at
      /\ i \in DOMAIN Effective(bs[k])
  BY <1>1, EffectiveIs
<1>3. Effective(bs[k])[i] \in Shown(bs)
  BY ShownIs
<1>4. ASSUME NEW l \in DOMAIN bs, NEW j \in DOMAIN bs[l].points, k < l \/ (k = l /\ i < j)
      PROVE  bs[k].points[i].at < bs[l].points[j].at
  <2>1. CASE k < l
    BY <2>1 DEF TimelineOK, Apart
  <2>2. CASE k = l /\ i < j
    BY <1>1, <2>2, BlockFacts
  <2> QED BY <1>4, <2>1, <2>2
<1> QED BY <1>2, <1>3, <1>4

\* slack_at gives the slack that is shown.
LEMMA SlackAtShows ==
  ASSUME NEW bs, TimelineOK(bs), NEW t \in Int
  PROVE  Shows(Shown(bs), t, SlackAt(bs, t))
<1> DEFINE k == HomeOf(bs, t)
<1>1. k \in 0 .. Len(bs) /\ (\A l \in DOMAIN bs : bs[l].points[1].at <= t <=> l <= k)
      /\ DOMAIN bs = 1 .. Len(bs) /\ Len(bs) \in Nat
  BY HomeIs, ShownIs
<1> HIDE DEF k
<1>2. ASSUME NEW p \in Shown(bs)
      PROVE  \E l \in DOMAIN bs : \E i \in DOMAIN bs[l].points :
               /\ p = Effective(bs[l])[i] /\ p.at = bs[l].points[i].at /\ p.at \in Int
               /\ bs[l].points[1].at \in Int /\ bs[l].points[1].at <= p.at
  <2>1. PICK l \in DOMAIN bs : \E i \in DOMAIN bs[l].points : p = Effective(bs[l])[i]
    BY ShownIs
  <2>2. PICK i \in DOMAIN bs[l].points : p = Effective(bs[l])[i]
    BY <2>1
  <2>3. BlockOK(bs[l])
    BY DEF TimelineOK
  <2>4. /\ bs[l].points[i].at \in Int /\ bs[l].points[1].at \in Int
        /\ bs[l].points[1].at <= bs[l].points[i].at
    BY <2>3, BlockFacts
  <2> QED BY <2>2, <2>4, BlockShows
<1>3. CASE k = 0
  <2>1. SlackAt(bs, t) = 0
    BY <1>3 DEF SlackAt, k
  <2>2. ASSUME NEW p \in Shown(bs) PROVE t < p.at
    <3>1. PICK l \in DOMAIN bs : \E i \in DOMAIN bs[l].points :
               /\ p = Effective(bs[l])[i] /\ p.at = bs[l].points[i].at /\ p.at \in Int
               /\ bs[l].points[1].at \in Int /\ bs[l].points[1].at <= p.at
      BY <1>2
    <3>2. ~(l <= k)
      BY <1>1, <1>3
    <3> QED BY <1>1, <3>1, <3>2
  <2> QED BY <2>1, <2>2 DEF Shows
<1>4. CASE k # 0
  <2>1. k \in DOMAIN bs /\ k <= k
    BY <1>1, <1>4
  <2> DEFINE n == PointOf(bs[k], t)
  <2>2. BlockOK(bs[k])
    BY <2>1 DEF TimelineOK
  <2>3. /\ n \in 0 .. Len(bs[k].points)
        /\ \A i \in DOMAIN bs[k].points : bs[k].points[i].at <= t <=> i <= n
        /\ DOMAIN bs[k].points = 1 .. Len(bs[k].points) /\ 1 \in DOMAIN bs[k].points
    BY <2>2, PointIs, BlockFacts
  <2>4. SlackAt(bs, t) = Effective(bs[k])[n].slack
    BY <1>4 DEF SlackAt, k
  <2> HIDE DEF n
  <2>5. n \in DOMAIN bs[k].points /\ n <= n
    <3>1. bs[k].points[1].at <= t
      BY <1>1, <2>1
    <3> QED BY <2>3, <3>1
  <2> DEFINE p == Effective(bs[k])[n]
  <2>6. p \in Shown(bs) /\ p.at = bs[k].points[n].at /\ p.at <= t
    BY <2>1, <2>3, <2>5, BlockShows
  <2>7. ASSUME NEW q \in Shown(bs), q.at <= t PROVE q.at <= p.at
    <3>1. PICK l \in DOMAIN bs : \E i \in DOMAIN bs[l].points :
               /\ q = Effective(bs[l])[i] /\ q.at = bs[l].points[i].at /\ q.at \in Int
               /\ bs[l].points[1].at \in Int /\ bs[l].points[1].at <= q.at
      BY <1>2
    <3>2. PICK i \in DOMAIN bs[l].points : q.at = bs[l].points[i].at
      BY <3>1
    <3>3. l <= k
      <4>1. bs[l].points[1].at <= t
        BY <2>7, <3>1
      <4> QED BY <1>1, <4>1
    <3>4. CASE l < k
      <4>1. bs[l].points[i].at < bs[k].points[n].at
        BY <2>1, <2>5, <3>4, BlockShows
      <4>2. bs[k].points[n].at \in Int
        BY <2>2, <2>5, BlockFacts
      <4> QED BY <2>6, <3>1, <3>2, <4>1, <4>2
    <3>5. CASE l = k
      <4>1. i \in DOMAIN bs[k].points
        BY <3>5
      <4>2. i <= n
        <5>1. bs[k].points[i].at <= t
          BY <2>7, <3>2, <3>5
        <5> QED BY <2>3, <4>1, <5>1
      <4>3. i < n \/ i = n
        BY <2>3, <4>1, <4>2
      <4>4. i < n => bs[k].points[i].at < bs[k].points[n].at
        BY <2>1, <2>5, <4>1, BlockShows
      <4>5. bs[k].points[n].at \in Int /\ bs[k].points[i].at \in Int
        BY <2>2, <2>5, <4>1, BlockFacts
      <4> QED BY <2>6, <3>2, <3>5, <4>3, <4>4, <4>5
    <3> QED BY <1>1, <3>3, <3>4, <3>5
  <2> QED BY <2>4, <2>6, <2>7 DEF Shows
<1> QED BY <1>3, <1>4

\* slack_at is a number, and the only slack that is shown.
LEMMA SlackIs ==
  ASSUME NEW bs, TimelineOK(bs), NEW t \in Int
  PROVE  /\ SlackAt(bs, t) \in Int
         /\ Shows(Shown(bs), t, SlackAt(bs, t))
         /\ \A v : Shows(Shown(bs), t, v) => v = SlackAt(bs, t)
<1>1. Shows(Shown(bs), t, SlackAt(bs, t))
  BY SlackAtShows
<1>2. Shown(bs) \in SUBSET PointSet /\ OnePerTime(Shown(bs))
  BY ShownIs
<1>3. \A v : Shows(Shown(bs), t, v) => v = SlackAt(bs, t)
  BY <1>1, <1>2, ShowsOnce
<1>4. SlackAt(bs, t) \in Int
  <2>1. CASE SlackAt(bs, t) = 0
    BY <2>1
  <2>2. CASE \E p \in Shown(bs) : p.slack = SlackAt(bs, t)
    BY <1>2, <2>2, TimesAreIntegers
  <2> QED BY <1>1, <2>1, <2>2 DEF Shows
<1> QED BY <1>1, <1>3, <1>4

\* The slacks of an interval.
SlackOf(bs, i) == {SlackAt(bs, t) : t \in i.from .. i.to - 1}

\* slack_bound is the extreme of the slack in the interval.
LEMMA BoundIs ==
  ASSUME NEW bs, TimelineOK(bs), NEW i, Spans(i), NEW e \in Extremes
  PROVE  IsExtreme(e, SlackBound(bs, i, e), SlackOf(bs, i))
<1> DEFINE D == SlackOf(bs, i)
           S == Sampled(bs, i, e)
           Beats(x, y) == IF e = "minimum" THEN x <= y ELSE x >= y
           within == {p \in Shown(bs) : i.from <= p.at /\ p.at < i.to}
           n == i.to - i.from
           f == [k \in 1 .. n |-> SlackAt(bs, i.from + k - 1)]
<1>1. i.from \in Int /\ i.to \in Int /\ i.from < i.to /\ n \in Nat \ {0}
  BY IntervalFacts
<1>2. \A t \in Int : SlackAt(bs, t) \in Int
  BY SlackIs
<1>3. D \subseteq Int /\ SlackAt(bs, i.from) \in D
  <2>1. i.from \in i.from .. i.to - 1
    BY <1>1
  <2> QED BY <1>2, <2>1 DEF SlackOf
<1>4. PICK m : IsExtreme(e, m, D)
  <2>1. f \in [1 .. n -> Int]
    BY <1>1, <1>2
  <2>2. D = {f[k] : k \in 1 .. n}
    <3>1. ASSUME NEW t \in i.from .. i.to - 1 PROVE SlackAt(bs, t) = f[t - i.from + 1] /\ t - i.from + 1 \in 1 .. n
      <4>1. i.from + (t - i.from + 1) - 1 = t /\ t - i.from + 1 \in 1 .. n
        BY <1>1
      <4> QED BY <4>1
    <3>2. ASSUME NEW k \in 1 .. n PROVE f[k] = SlackAt(bs, i.from + k - 1) /\ i.from + k - 1 \in i.from .. i.to - 1
      BY <1>1
    <3> HIDE DEF f, n
    <3> QED BY <3>1, <3>2 DEF SlackOf
  <2> HIDE DEF f, D, n
  <2> QED BY <1>1, <2>1, <2>2, ListHasExtremes
<1>5. ASSUME NEW p \in within
      PROVE  p.slack \in D /\ p.slack \in Int
  <2>1. p \in Shown(bs) /\ p.at \in Int /\ i.from <= p.at /\ p.at < i.to
    BY ShownIs, TimesAreIntegers
  <2>2. Shows(Shown(bs), p.at, p.slack)
    BY <2>1, ShownIs, PointShowsItself
  <2>3. p.slack = SlackAt(bs, p.at) /\ p.at \in i.from .. i.to - 1
    BY <1>1, <2>1, <2>2, SlackIs
  <2> HIDE DEF within
  <2> QED BY <1>3, <2>3 DEF SlackOf
<1>6. ASSUME NEW k \in DOMAIN bs, Inside(bs[k], i)
      PROVE  /\ \A j \in DOMAIN bs[k].points : Effective(bs[k])[j] \in within
             /\ bs[k][e] \in D
             /\ \A j \in DOMAIN bs[k].points : Beats(bs[k][e], Effective(bs[k])[j].slack)
  <2>1. BlockOK(bs[k]) /\ bs[k] \in BlockRecord
    BY DEF TimelineOK, BlockOK
  <2>2. i.from <= bs[k].points[1].at /\ bs[k].points[Len(bs[k].points)].at < i.to
    BY <1>6 DEF Inside, Last
  <2>3. ASSUME NEW j \in DOMAIN bs[k].points PROVE Effective(bs[k])[j] \in within
    <3>1. /\ bs[k].points[j].at \in Int /\ bs[k].points[1].at \in Int
          /\ bs[k].points[Len(bs[k].points)].at \in Int
          /\ bs[k].points[1].at <= bs[k].points[j].at
          /\ bs[k].points[j].at <= bs[k].points[Len(bs[k].points)].at
      BY <2>1, BlockFacts
    <3>2. Effective(bs[k])[j] \in Shown(bs) /\ Effective(bs[k])[j].at = bs[k].points[j].at
      BY BlockShows
    <3>3. i.from <= bs[k].points[j].at /\ bs[k].points[j].at < i.to
      BY <1>1, <2>2, <3>1
    <3> QED BY <3>2, <3>3
  <2>4. IsExtreme(e, bs[k][e], Values(Effective(bs[k]))) /\ DOMAIN Effective(bs[k]) = DOMAIN bs[k].points
    BY <2>1, EffectiveIs DEF BlockOK
  <2>5. PICK j \in DOMAIN bs[k].points : bs[k][e] = Effective(bs[k])[j].slack
    BY <2>4 DEF IsExtreme, Values
  <2>6. \A x \in DOMAIN bs[k].points : Beats(bs[k][e], Effective(bs[k])[x].slack)
    BY <2>4 DEF IsExtreme, Values
  <2> HIDE DEF within, D, Beats
  <2> QED BY <1>5, <2>3, <2>5, <2>6
<1>7. S \subseteq D
  <2>1. SUFFICES ASSUME NEW s \in S PROVE s \in D
    OBVIOUS
  <2>2. CASE s = SlackAt(bs, i.from)
    BY <1>3, <2>2
  <2>3. CASE \E k \in DOMAIN bs : Inside(bs[k], i) /\ s = bs[k][e]
    BY <1>6, <2>3
  <2>4. CASE \E k \in DOMAIN bs : \E q \in ToSet(Effective(bs[k])) :
               i.from < q.at /\ q.at < i.to /\ s = q.slack
    <3>1. PICK k \in DOMAIN bs : \E q \in ToSet(Effective(bs[k])) :
               i.from < q.at /\ q.at < i.to /\ s = q.slack
      BY <2>4
    <3>2. PICK q \in ToSet(Effective(bs[k])) : i.from < q.at /\ q.at < i.to /\ s = q.slack
      BY <3>1
    <3>3. q \in Shown(bs) /\ q.at \in Int
      <4>1. q \in Shown(bs)
        BY DEF Shown
      <4> QED BY <4>1, ShownIs, TimesAreIntegers
    <3>4. q \in within
      BY <1>1, <3>2, <3>3
    <3> HIDE DEF within, D
    <3> QED BY <1>5, <3>2, <3>4
  <2> HIDE DEF D
  <2> QED BY <2>1, <2>2, <2>3, <2>4 DEF Sampled
<1>8. ASSUME NEW p \in within, i.from < p.at
      PROVE  \E s \in S : Beats(s, p.slack)
  <2>1. PICK k \in DOMAIN bs : \E j \in DOMAIN bs[k].points : p = Effective(bs[k])[j]
    BY ShownIs
  <2>2. PICK j \in DOMAIN bs[k].points : p = Effective(bs[k])[j]
    BY <2>1
  <2>3. CASE Inside(bs[k], i)
    <3>1. Beats(bs[k][e], p.slack)
      BY <1>6, <2>2, <2>3
    <3>2. bs[k][e] \in S
      BY <2>3 DEF Sampled
    <3> QED BY <3>1, <3>2
  <2>4. CASE ~Inside(bs[k], i)
    <3>1. p \in ToSet(Effective(bs[k]))
      BY <2>2, BlockShows DEF ToSet
    <3>2. p.slack \in S
      BY <1>8, <2>4, <3>1 DEF Sampled
    <3>3. p.slack \in Int
      BY <1>5
    <3>4. Beats(p.slack, p.slack)
      BY <3>3
    <3> QED BY <3>2, <3>4
  <2> QED BY <2>3, <2>4
<1>9. ASSUME NEW t \in i.from .. i.to - 1
      PROVE  \E s \in S : Beats(s, SlackAt(bs, t))
  <2>1. t \in Int /\ i.from <= t /\ t < i.to
    BY <1>1
  <2>2. CASE \E p \in Shown(bs) : i.from < p.at /\ p.at <= t /\ p.slack = SlackAt(bs, t)
    <3>1. PICK p \in Shown(bs) : i.from < p.at /\ p.at <= t /\ p.slack = SlackAt(bs, t)
      BY <2>2
    <3>2. p.at \in Int
      BY ShownIs, TimesAreIntegers
    <3>3. p \in within
      BY <1>1, <2>1, <3>1, <3>2
    <3> HIDE DEF within, Beats, S
    <3> QED BY <1>8, <3>1, <3>3
  <2>3. CASE ~ \E p \in Shown(bs) : i.from < p.at /\ p.at <= t /\ p.slack = SlackAt(bs, t)
    <3>1. \A p \in Shown(bs) : p.at \in Int
      BY ShownIs, TimesAreIntegers
    <3>2. Shows(Shown(bs), t, SlackAt(bs, t))
      BY <2>1, SlackIs
    <3>3. Shows(Shown(bs), i.from, SlackAt(bs, t))
      <4>1. CASE SlackAt(bs, t) = 0 /\ \A p \in Shown(bs) : t < p.at
        BY <1>1, <2>1, <3>1, <4>1 DEF Shows
      <4>2. CASE \E p \in Shown(bs) : p.at <= t /\ p.slack = SlackAt(bs, t)
                    /\ \A q \in Shown(bs) : q.at <= t => q.at <= p.at
        <5>1. PICK p \in Shown(bs) : p.at <= t /\ p.slack = SlackAt(bs, t)
                    /\ \A q \in Shown(bs) : q.at <= t => q.at <= p.at
          BY <4>2
        <5>2. p.at <= i.from
          BY <1>1, <2>3, <3>1, <5>1
        <5>3. \A q \in Shown(bs) : q.at <= i.from => q.at <= p.at
          BY <1>1, <2>1, <3>1, <5>1
        <5> QED BY <5>1, <5>2, <5>3 DEF Shows
      <4> QED BY <3>2, <4>1, <4>2 DEF Shows
    <3>4. SlackAt(bs, t) = SlackAt(bs, i.from)
      BY <1>1, <3>3, SlackIs
    <3>5. SlackAt(bs, i.from) \in S
      BY DEF Sampled
    <3>6. Beats(SlackAt(bs, t), SlackAt(bs, t))
      BY <1>2, <2>1
    <3> QED BY <3>4, <3>5, <3>6
  <2> QED BY <2>2, <2>3
<1>10. PICK t \in i.from .. i.to - 1 : m = SlackAt(bs, t)
  BY <1>4 DEF IsExtreme, SlackOf
<1>11. PICK s \in S : Beats(s, m)
  BY <1>9, <1>10
<1>12. s \in Int /\ m \in Int /\ Beats(m, s) /\ s \in D
  <2>1. m \in D /\ \A x \in D : Beats(m, x)
    BY <1>4 DEF IsExtreme
  <2> HIDE DEF D, S, Beats
  <2> QED BY <1>3, <1>7, <2>1
<1>13. s = m
  BY <1>11, <1>12
<1>14. IsExtreme(e, m, S)
  BY <1>4, <1>7, <1>11, <1>13 DEF IsExtreme
<1>15. S \in SUBSET Int
  BY <1>3, <1>7
<1>16. SlackBound(bs, i, e) = m
  <2> HIDE DEF S
  <2>1. Extreme(e, S) = m
    BY <1>14, <1>15, ExtremeIs
  <2> QED BY <2>1 DEF SlackBound, S
<1> QED BY <1>4, <1>16

-----------------------------------------------------------------------------
(* Putting timelines together from blocks.                                  *)

\* Points a block may be made of: in order, their slack representable.
Ordered(points) ==
  /\ points \in Seq(PointSet)
  /\ InTime(points)
  /\ \A i \in DOMAIN points : points[i].slack \in Slack

Storable(b) ==
  /\ Len(b.points) <= MaxPoints
  /\ b.delta \in Slack
  /\ \A i \in DOMAIN b.points : b.points[i].slack \in Slack /\ Effective(b)[i].slack \in Slack

\* A timeline as it is kept.
Kept(bs) == TimelineOK(bs) /\ \A k \in DOMAIN bs : Storable(bs[k])

Ahead(P, Q) == \A p \in P, q \in Q : p.at < q.at

\* Entries of a sequence made of two.
LEMMA JoinedEntries ==
  ASSUME NEW S, NEW xs \in Seq(S), NEW ys \in Seq(S)
  PROVE  /\ xs \o ys \in Seq(S) /\ Len(xs \o ys) = Len(xs) + Len(ys)
         /\ Len(xs) \in Nat /\ Len(ys) \in Nat
         /\ DOMAIN xs = 1 .. Len(xs) /\ DOMAIN ys = 1 .. Len(ys)
         /\ DOMAIN (xs \o ys) = 1 .. Len(xs) + Len(ys)
         /\ \A k \in 1 .. Len(xs) : (xs \o ys)[k] = xs[k]
         /\ \A k \in 1 .. Len(ys) : (xs \o ys)[Len(xs) + k] = ys[k]
         /\ \A k \in 1 .. Len(xs) + Len(ys) :
              k \in 1 .. Len(xs) \/ (k - Len(xs) \in 1 .. Len(ys) /\ k = Len(xs) + (k - Len(xs)))
OBVIOUS

\* Entries of a part of a sequence.
LEMMA PartEntries ==
  ASSUME NEW S, NEW xs \in Seq(S), NEW a \in Nat \ {0}, NEW b \in 0 .. Len(xs), a <= b + 1
  PROVE  /\ SubSeq(xs, a, b) \in Seq(S) /\ Len(SubSeq(xs, a, b)) = b - a + 1
         /\ DOMAIN SubSeq(xs, a, b) = 1 .. b - a + 1
         /\ \A k \in 1 .. b - a + 1 : /\ SubSeq(xs, a, b)[k] = xs[a + k - 1]
                                      /\ a + k - 1 \in DOMAIN xs
         /\ \A k \in a .. b : k - a + 1 \in 1 .. b - a + 1 /\ SubSeq(xs, a, b)[k - a + 1] = xs[k]
<1>1. Len(xs) \in Nat /\ DOMAIN xs = 1 .. Len(xs)
  OBVIOUS
<1>2. \A k \in a .. b : k \in 1 .. Len(xs)
  BY <1>1
<1>3. \A k \in a .. b : xs[k] \in S
  BY <1>1, <1>2
<1>4. SubSeq(xs, a, b) \in Seq(S) /\ Len(SubSeq(xs, a, b)) = b - a + 1
      /\ DOMAIN SubSeq(xs, a, b) = 1 .. b - a + 1
  <2>1. Len(SubSeq(xs, a, b)) = b - a + 1
    BY <1>1
  <2> QED BY <1>1, <1>3, <2>1
<1>5. \A k \in 1 .. b - a + 1 : SubSeq(xs, a, b)[k] = xs[a + k - 1]
  BY <1>1
<1>6. \A k \in 1 .. b - a + 1 : a + k - 1 \in DOMAIN xs
  BY <1>1
<1>7. ASSUME NEW k \in a .. b
      PROVE  k - a + 1 \in 1 .. b - a + 1 /\ a + (k - a + 1) - 1 = k
  BY <1>1
<1> QED BY <1>4, <1>5, <1>6, <1>7

\* Points of a kept block.
LEMMA KeptPoints ==
  ASSUME NEW bs, Kept(bs), NEW k \in DOMAIN bs
  PROVE  /\ Ordered(Effective(bs[k])) /\ Effective(bs[k]) # <<>>
         /\ Len(Effective(bs[k])) = Len(bs[k].points) /\ Len(bs[k].points) \in 1 .. MaxPoints
         /\ BlockOK(bs[k]) /\ Storable(bs[k])
<1>1. BlockOK(bs[k]) /\ Storable(bs[k]) /\ bs[k] \in BlockRecord
  BY DEF Kept, TimelineOK, BlockOK
<1>2. /\ Effective(bs[k]) \in Seq(PointSet) /\ Len(Effective(bs[k])) = Len(bs[k].points)
      /\ DOMAIN Effective(bs[k]) = DOMAIN bs[k].points
      /\ \A i \in DOMAIN bs[k].points : Effective(bs[k])[i].at = bs[k].points[i].at
  BY <1>1, EffectiveIs
<1>3. Len(bs[k].points) \in Nat \ {0}
  BY <1>1, BlockFacts
<1>4. Effective(bs[k]) # <<>>
  BY <1>2, <1>3
<1>5. InTime(Effective(bs[k]))
  BY <1>1, <1>2 DEF BlockOK, InTime
<1>6. \A i \in DOMAIN bs[k].points : Effective(bs[k])[i].slack \in Slack
  BY <1>1 DEF Storable
<1> QED BY <1>1, <1>2, <1>3, <1>4, <1>5, <1>6, TimelineConstants DEF Ordered, Storable

\* The slack a kept timeline shows is representable.
LEMMA KeptShows ==
  ASSUME NEW bs, Kept(bs), NEW p \in Shown(bs)
  PROVE  p.slack \in Slack
<1>1. TimelineOK(bs)
  BY DEF Kept
<1>2. PICK k \in DOMAIN bs : \E i \in DOMAIN bs[k].points : p = Effective(bs[k])[i]
  BY <1>1, ShownIs
<1> QED BY <1>2 DEF Kept, Storable

\* One new block.
LEMMA NewBlock ==
  ASSUME NEW points, Ordered(points), Len(points) \in 1 .. MaxPoints
  PROVE  /\ BlockOK(BlockOf(points)) /\ Storable(BlockOf(points))
         /\ Effective(BlockOf(points)) = points
         /\ BlockOf(points).points = points
<1>1. points \in Seq(PointSet) /\ InTime(points) /\ points # <<>>
  BY DEF Ordered
<1>2. /\ BlockOK(BlockOf(points)) /\ BlockOf(points).points = points /\ BlockOf(points).delta = 0
      /\ Effective(BlockOf(points)) = points
  BY <1>1, BlockOfIs
<1>3. 0 \in Slack
  BY TimelineConstants DEF Slack
<1>4. MaxPoints \in Nat
  BY TimelineConstants
<1>5. Storable(BlockOf(points))
  <2> DEFINE b == BlockOf(points)
  <2>1. b.points = points /\ b.delta = 0 /\ Effective(b) = points
    BY <1>2
  <2> HIDE DEF b
  <2>2. Storable(b)
    BY <1>3, <1>4, <2>1 DEF Storable, Ordered
  <2> QED BY <2>2 DEF b
<1> QED BY <1>2, <1>5

\* A timeline of one block.
LEMMA OneBlock ==
  ASSUME NEW b, BlockOK(b), Storable(b)
  PROVE  Kept(<<b>>) /\ Shown(<<b>>) = ToSet(Effective(b))
<1>1. /\ b \in BlockRecord /\ <<b>> \in Seq(BlockRecord)
      /\ DOMAIN <<b>> = {1} /\ <<b>>[1] = b
  BY DEF BlockOK
<1> DEFINE bs == <<b>>
<1>2. bs \in Seq(BlockRecord) /\ DOMAIN bs = {1} /\ bs[1] = b
  BY <1>1
<1> HIDE DEF bs
<1>3. Kept(bs)
  BY <1>2 DEF Kept, TimelineOK
<1>4. Shown(bs) = ToSet(Effective(b))
  BY <1>2 DEF Shown
<1> QED BY <1>3, <1>4 DEF bs

\* No blocks.
LEMMA NoBlocks == Kept(<<>>) /\ Shown(<<>>) = {}
<1> DEFINE bs == <<>>
<1>1. bs \in Seq(BlockRecord) /\ DOMAIN bs = {}
  OBVIOUS
<1> HIDE DEF bs
<1>2. Kept(bs) /\ Shown(bs) = {}
  BY <1>1 DEF Kept, TimelineOK, Shown
<1> QED BY <1>2 DEF bs

\* One timeline after another.
LEMMA Joined ==
  ASSUME NEW xs, NEW ys, Kept(xs), Kept(ys), Ahead(Shown(xs), Shown(ys))
  PROVE  Kept(xs \o ys) /\ Shown(xs \o ys) = Shown(xs) \cup Shown(ys)
<1> DEFINE zs == xs \o ys
           n == Len(xs)
<1>1. TimelineOK(xs) /\ TimelineOK(ys) /\ xs \in Seq(BlockRecord) /\ ys \in Seq(BlockRecord)
  BY DEF Kept, TimelineOK
<1>2. /\ zs \in Seq(BlockRecord)
      /\ n \in Nat /\ Len(ys) \in Nat
      /\ DOMAIN xs = 1 .. n /\ DOMAIN ys = 1 .. Len(ys)
      /\ DOMAIN zs = 1 .. n + Len(ys)
      /\ \A k \in DOMAIN xs : zs[k] = xs[k]
      /\ \A k \in DOMAIN ys : zs[n + k] = ys[k]
      /\ \A k \in DOMAIN zs : k \in DOMAIN xs \/ (k - n \in DOMAIN ys /\ k = n + (k - n))
  BY <1>1, JoinedEntries
<1> HIDE DEF zs, n
<1>3. \A k \in DOMAIN zs : BlockOK(zs[k]) /\ Storable(zs[k])
  <2>1. \A k \in DOMAIN xs : BlockOK(xs[k]) /\ Storable(xs[k])
    BY DEF Kept, TimelineOK
  <2>2. \A k \in DOMAIN ys : BlockOK(ys[k]) /\ Storable(ys[k])
    BY DEF Kept, TimelineOK
  <2>3. ASSUME NEW k \in DOMAIN zs PROVE BlockOK(zs[k]) /\ Storable(zs[k])
    <3>1. CASE k \in DOMAIN xs
      BY <1>2, <2>1, <3>1
    <3>2. CASE k - n \in DOMAIN ys /\ k = n + (k - n)
      BY <1>2, <2>2, <3>2
    <3> QED BY <1>2, <3>1, <3>2
  <2> QED BY <2>3
<1>4. ASSUME NEW k \in DOMAIN zs, NEW l \in DOMAIN zs, k < l PROVE Apart(zs[k], zs[l])
  <2>1. CASE k \in DOMAIN xs /\ l \in DOMAIN xs
    BY <1>1, <1>2, <1>4, <2>1 DEF TimelineOK
  <2>2. CASE k \in DOMAIN xs /\ l - n \in DOMAIN ys /\ l = n + (l - n)
    <3>1. SUFFICES ASSUME NEW i \in DOMAIN xs[k].points, NEW j \in DOMAIN ys[l - n].points
                   PROVE  xs[k].points[i].at < ys[l - n].points[j].at
      BY <1>2, <2>2 DEF Apart
    <3>2. Effective(xs[k])[i] \in Shown(xs) /\ Effective(xs[k])[i].at = xs[k].points[i].at
      BY <1>1, <2>2, BlockShows
    <3>3. Effective(ys[l - n])[j] \in Shown(ys) /\ Effective(ys[l - n])[j].at = ys[l - n].points[j].at
      BY <1>1, <2>2, BlockShows
    <3> QED BY <3>2, <3>3 DEF Ahead
  <2>3. CASE k - n \in DOMAIN ys /\ l - n \in DOMAIN ys /\ k = n + (k - n) /\ l = n + (l - n)
    <3>1. k - n < l - n
      BY <1>2, <1>4
    <3>2. Apart(ys[k - n], ys[l - n])
      BY <1>1, <2>3, <3>1 DEF TimelineOK
    <3>3. zs[k] = ys[k - n] /\ zs[l] = ys[l - n]
      BY <1>2, <2>3
    <3> QED BY <3>2, <3>3
  <2>4. ~(l \in DOMAIN xs /\ k - n \in DOMAIN ys)
    BY <1>2, <1>4
  <2> QED BY <1>2, <2>1, <2>2, <2>3, <2>4
<1>5. Kept(zs)
  BY <1>2, <1>3, <1>4 DEF Kept, TimelineOK
<1>6. Shown(zs) = Shown(xs) \cup Shown(ys)
  <2>1. ASSUME NEW p \in Shown(zs) PROVE p \in Shown(xs) \cup Shown(ys)
    <3>1. PICK k \in DOMAIN zs : p \in ToSet(Effective(zs[k]))
      BY DEF Shown
    <3>2. CASE k \in DOMAIN xs
      BY <1>2, <3>1, <3>2 DEF Shown
    <3>3. CASE k - n \in DOMAIN ys /\ k = n + (k - n)
      <4>1. zs[k] = ys[k - n]
        BY <1>2, <3>3
      <4> QED BY <3>1, <3>3, <4>1 DEF Shown
    <3> QED BY <1>2, <3>2, <3>3
  <2>2. ASSUME NEW p \in Shown(xs) PROVE p \in Shown(zs)
    <3>1. PICK k \in DOMAIN xs : p \in ToSet(Effective(xs[k]))
      BY DEF Shown
    <3>2. k \in DOMAIN zs /\ zs[k] = xs[k]
      BY <1>2
    <3> QED BY <3>1, <3>2 DEF Shown
  <2>3. ASSUME NEW p \in Shown(ys) PROVE p \in Shown(zs)
    <3>1. PICK k \in DOMAIN ys : p \in ToSet(Effective(ys[k]))
      BY DEF Shown
    <3>2. n + k \in DOMAIN zs /\ zs[n + k] = ys[k]
      BY <1>2
    <3> QED BY <3>1, <3>2 DEF Shown
  <2> QED BY <2>1, <2>2, <2>3
<1> QED BY <1>5, <1>6 DEF zs

\* Part of a timeline.
LEMMA PartOf ==
  ASSUME NEW bs, Kept(bs), NEW a \in Nat \ {0}, NEW b \in 0 .. Len(bs), a <= b + 1
  PROVE  /\ Kept(SubSeq(bs, a, b))
         /\ \A p : p \in Shown(SubSeq(bs, a, b)) <=>
              \E k \in a .. b : p \in ToSet(Effective(bs[k]))
         /\ Shown(SubSeq(bs, a, b)) \subseteq Shown(bs)
<1> DEFINE xs == SubSeq(bs, a, b)
           n == b - a + 1
<1>1. bs \in Seq(BlockRecord) /\ TimelineOK(bs) /\ Len(bs) \in Nat /\ DOMAIN bs = 1 .. Len(bs)
  BY DEF Kept, TimelineOK
<1>2. /\ xs \in Seq(BlockRecord) /\ Len(xs) = n
      /\ DOMAIN xs = 1 .. n
      /\ \A k \in DOMAIN xs : xs[k] = bs[a + k - 1] /\ a + k - 1 \in DOMAIN bs
      /\ \A k \in a .. b : k - a + 1 \in DOMAIN xs /\ xs[k - a + 1] = bs[k]
  BY <1>1, PartEntries
<1>3. \A k \in DOMAIN xs : a + k - 1 \in a .. b
  BY <1>1, <1>2
<1>4. \A k, l \in DOMAIN xs : k < l => a + k - 1 < a + l - 1
  BY <1>1, <1>2
<1>5. \A k \in a .. b : k \in DOMAIN bs
  BY <1>1
<1> HIDE DEF xs, n
<1>6. Kept(xs)
  BY <1>1, <1>2, <1>4 DEF Kept, TimelineOK
<1>7. \A p : p \in Shown(xs) <=> \E k \in a .. b : p \in ToSet(Effective(bs[k]))
  <2>1. ASSUME NEW p, p \in Shown(xs) PROVE \E k \in a .. b : p \in ToSet(Effective(bs[k]))
    BY <1>2, <1>3, <2>1 DEF Shown
  <2>2. ASSUME NEW p, NEW k \in a .. b, p \in ToSet(Effective(bs[k])) PROVE p \in Shown(xs)
    <3>1. k - a + 1 \in DOMAIN xs /\ p \in ToSet(Effective(xs[k - a + 1]))
      BY <1>2, <2>2
    <3> QED BY <3>1 DEF Shown
  <2> QED BY <2>1, <2>2
<1>8. Shown(xs) \subseteq Shown(bs)
  BY <1>5, <1>7 DEF Shown
<1> QED BY <1>6, <1>7, <1>8 DEF xs

\* Points and the set of them.
LEMMA OrderedSet ==
  ASSUME NEW points, Ordered(points)
  PROVE  /\ ToSet(points) \in SUBSET PointSet
         /\ DOMAIN points = 1 .. Len(points) /\ Len(points) \in Nat
         /\ \A i \in DOMAIN points : points[i] \in ToSet(points) /\ points[i].at \in Int
         /\ \A p \in ToSet(points) : p.slack \in Slack
BY TimesAreIntegers DEF Ordered, ToSet

\* Some points after others.
LEMMA PointsJoined ==
  ASSUME NEW xs, NEW ys, Ordered(xs), Ordered(ys), Ahead(ToSet(xs), ToSet(ys))
  PROVE  /\ Ordered(xs \o ys) /\ ToSet(xs \o ys) = ToSet(xs) \cup ToSet(ys)
         /\ Len(xs \o ys) = Len(xs) + Len(ys)
<1> DEFINE zs == xs \o ys
           n == Len(xs)
<1>1. xs \in Seq(PointSet) /\ ys \in Seq(PointSet)
  BY DEF Ordered
<1>2. /\ zs \in Seq(PointSet) /\ Len(zs) = n + Len(ys)
      /\ n \in Nat /\ Len(ys) \in Nat
      /\ DOMAIN xs = 1 .. n /\ DOMAIN ys = 1 .. Len(ys)
      /\ DOMAIN zs = 1 .. n + Len(ys)
      /\ \A k \in DOMAIN xs : zs[k] = xs[k]
      /\ \A k \in DOMAIN ys : zs[n + k] = ys[k]
      /\ \A k \in DOMAIN zs : k \in DOMAIN xs \/ (k - n \in DOMAIN ys /\ k = n + (k - n))
  BY <1>1, JoinedEntries
<1> HIDE DEF zs, n
<1>3. \A k \in DOMAIN zs : zs[k].slack \in Slack
  BY <1>2 DEF Ordered
<1>4. ASSUME NEW k \in DOMAIN zs, NEW l \in DOMAIN zs, k < l PROVE zs[k].at < zs[l].at
  <2>1. CASE k \in DOMAIN xs /\ l \in DOMAIN xs
    BY <1>2, <1>4, <2>1 DEF Ordered, InTime
  <2>2. CASE k \in DOMAIN xs /\ l - n \in DOMAIN ys /\ l = n + (l - n)
    BY <1>2, <2>2 DEF Ahead, ToSet
  <2>3. CASE k - n \in DOMAIN ys /\ l - n \in DOMAIN ys /\ k = n + (k - n) /\ l = n + (l - n)
    <3>1. k - n < l - n
      BY <1>2, <1>4
    <3>2. ys[k - n].at < ys[l - n].at
      BY <2>3, <3>1 DEF Ordered, InTime
    <3>3. zs[k] = ys[k - n] /\ zs[l] = ys[l - n]
      BY <1>2, <2>3
    <3> QED BY <3>2, <3>3
  <2>4. ~(l \in DOMAIN xs /\ k - n \in DOMAIN ys)
    BY <1>2, <1>4
  <2> QED BY <1>2, <2>1, <2>2, <2>3, <2>4
<1>5. ToSet(zs) = ToSet(xs) \cup ToSet(ys)
  <2>1. \A k \in DOMAIN ys : n + k \in DOMAIN zs
    BY <1>2
  <2>2. \A k \in DOMAIN xs : k \in DOMAIN zs
    BY <1>2
  <2>3. ASSUME NEW p \in ToSet(zs) PROVE p \in ToSet(xs) \cup ToSet(ys)
    <3>1. PICK k \in DOMAIN zs : p = zs[k]
      BY DEF ToSet
    <3>2. CASE k \in DOMAIN xs
      BY <1>2, <3>1, <3>2 DEF ToSet
    <3>3. CASE k - n \in DOMAIN ys /\ k = n + (k - n)
      BY <1>2, <3>1, <3>3 DEF ToSet
    <3> QED BY <1>2, <3>2, <3>3
  <2>4. ASSUME NEW p \in ToSet(xs) PROVE p \in ToSet(zs)
    BY <1>2, <2>2 DEF ToSet
  <2>5. ASSUME NEW p \in ToSet(ys) PROVE p \in ToSet(zs)
    BY <1>2, <2>1 DEF ToSet
  <2> QED BY <2>3, <2>4, <2>5
<1>6. Ordered(zs)
  BY <1>2, <1>3, <1>4 DEF Ordered, InTime
<1> QED BY <1>2, <1>5, <1>6 DEF zs, n

\* Two sequences of one entry each.
LEMMA TwoAreJoined ==
  ASSUME NEW S, NEW a \in S, NEW b \in S
  PROVE  <<a>> \o <<b>> = <<a, b>>
<1> DEFINE xs == <<a>>
           ys == <<b>>
           zs == <<a, b>>
<1>1. xs \in Seq(S) /\ Len(xs) = 1 /\ xs[1] = a /\ ys \in Seq(S) /\ Len(ys) = 1 /\ ys[1] = b
  OBVIOUS
<1>2. zs \in Seq(S) /\ Len(zs) = 2 /\ zs[1] = a /\ zs[2] = b
  OBVIOUS
<1> HIDE DEF xs, ys, zs
<1>3. xs \in Seq(S) /\ ys \in Seq(S)
  BY <1>1
<1> DEFINE us == xs \o ys
<1>4. /\ us \in Seq(S) /\ Len(us) = Len(xs) + Len(ys)
      /\ \A k \in 1 .. Len(xs) : us[k] = xs[k]
      /\ \A k \in 1 .. Len(ys) : us[Len(xs) + k] = ys[k]
  BY ONLY <1>3, JoinedEntries
<1> HIDE DEF us
<1>5. us \in Seq(S) /\ Len(us) = 2 /\ us[1] = a /\ us[2] = b
  <2>1. 1 \in 1 .. 1 /\ 1 + 1 = 2
    OBVIOUS
  <2> QED BY <1>1, <1>4, <2>1
<1>6. us = zs
  BY <1>2, <1>5
<1> QED BY <1>6 DEF us, xs, ys, zs

\* InsertAt by the position before the new entry.
LEMMA InsertedBehind ==
  ASSUME NEW s, NEW n \in Int, NEW e
  PROVE  InsertAt(s, n + 1, e) = SubSeq(s, 1, n) \o <<e>> \o SubSeq(s, n + 1, Len(s))
<1>1. \A i : InsertAt(s, i, e) = SubSeq(s, 1, i - 1) \o <<e>> \o SubSeq(s, i, Len(s))
  BY DEF InsertAt
<1>2. n + 1 - 1 = n
  OBVIOUS
<1> DEFINE i == n + 1
<1>3. i - 1 = n
  BY <1>2
<1> HIDE DEF i
<1>4. InsertAt(s, i, e) = SubSeq(s, 1, i - 1) \o <<e>> \o SubSeq(s, i, Len(s))
  BY <1>1, Zenon
<1>5. InsertAt(s, i, e) = SubSeq(s, 1, n) \o <<e>> \o SubSeq(s, i, Len(s))
  BY ONLY <1>3, <1>4, Zenon
<1> QED BY <1>5, Zenon DEF i

\* Points before and behind a cut.
LEMMA PointsCut ==
  ASSUME NEW points, Ordered(points), NEW n \in 0 .. Len(points)
  PROVE  LET xs == SubSeq(points, 1, n)
             ys == SubSeq(points, n + 1, Len(points))
         IN  /\ Ordered(xs) /\ Ordered(ys) /\ Len(xs) = n /\ Len(ys) = Len(points) - n
             /\ ToSet(points) = ToSet(xs) \cup ToSet(ys)
             /\ Ahead(ToSet(xs), ToSet(ys))
             /\ \A k \in 1 .. n : xs[k] = points[k]
             /\ \A k \in 1 .. Len(points) - n : ys[k] = points[n + k]
<1> DEFINE xs == SubSeq(points, 1, n)
           ys == SubSeq(points, n + 1, Len(points))
           m == Len(points)
<1>1. points \in Seq(PointSet) /\ m \in Nat /\ DOMAIN points = 1 .. m /\ n \in Nat /\ n <= m
  BY DEF Ordered
<1>2. /\ xs \in Seq(PointSet) /\ Len(xs) = n /\ DOMAIN xs = 1 .. n
      /\ \A k \in 1 .. n : xs[k] = points[k] /\ k \in DOMAIN points
  <2>1. /\ xs \in Seq(PointSet) /\ Len(xs) = n - 1 + 1 /\ DOMAIN xs = 1 .. n - 1 + 1
        /\ \A k \in 1 .. n - 1 + 1 : xs[k] = points[1 + k - 1] /\ 1 + k - 1 \in DOMAIN points
    <3>1. 1 \in Nat \ {0} /\ n \in 0 .. Len(points) /\ 1 <= n + 1
      BY <1>1
    <3> QED BY <1>1, <3>1, PartEntries
  <2>2. n - 1 + 1 = n /\ \A k \in 1 .. n : 1 + k - 1 = k
    BY <1>1
  <2> HIDE DEF xs
  <2> QED BY <2>1, <2>2
<1>3. /\ ys \in Seq(PointSet) /\ Len(ys) = m - n /\ DOMAIN ys = 1 .. m - n
      /\ \A k \in 1 .. m - n : ys[k] = points[n + k] /\ n + k \in DOMAIN points
  <2>1. /\ ys \in Seq(PointSet) /\ Len(ys) = m - (n + 1) + 1 /\ DOMAIN ys = 1 .. m - (n + 1) + 1
        /\ \A k \in 1 .. m - (n + 1) + 1 : /\ ys[k] = points[n + 1 + k - 1]
                                           /\ n + 1 + k - 1 \in DOMAIN points
    <3> DEFINE a == n + 1
    <3>1. a \in Nat \ {0} /\ m \in 0 .. Len(points) /\ a <= m + 1
      BY <1>1
    <3>2. points \in Seq(PointSet) /\ ys = SubSeq(points, a, m)
      BY <1>1
    <3> HIDE DEF a, m, ys
    <3>3. /\ SubSeq(points, a, m) \in Seq(PointSet) /\ Len(SubSeq(points, a, m)) = m - a + 1
          /\ DOMAIN SubSeq(points, a, m) = 1 .. m - a + 1
          /\ \A k \in 1 .. m - a + 1 : /\ SubSeq(points, a, m)[k] = points[a + k - 1]
                                       /\ a + k - 1 \in DOMAIN points
      BY <3>1, <3>2, PartEntries
    <3> QED BY <3>2, <3>3 DEF a
  <2>2. m - (n + 1) + 1 = m - n /\ \A k \in 1 .. m - n : n + 1 + k - 1 = n + k
    BY <1>1
  <2> HIDE DEF ys, m
  <2> QED BY <2>1, <2>2
<1> HIDE DEF xs, ys, m
<1>4. Ordered(xs)
  BY <1>2 DEF Ordered, InTime
<1>5. Ordered(ys)
  <2>1. \A j, k \in 1 .. m - n : j < k => n + j < n + k
    BY <1>1
  <2> QED BY <1>3, <2>1 DEF Ordered, InTime
<1>6. Ahead(ToSet(xs), ToSet(ys))
  <2>1. \A j \in 1 .. n, k \in 1 .. m - n : j < n + k
    BY <1>1
  <2>2. \A j \in 1 .. n, k \in 1 .. m - n : points[j].at < points[n + k].at
    BY <1>2, <1>3, <2>1 DEF Ordered, InTime
  <2> QED BY <1>2, <1>3, <2>2 DEF Ahead, ToSet
<1>7. ToSet(points) = ToSet(xs) \cup ToSet(ys)
  <2>1. \A k \in 1 .. m : k \in 1 .. n \/ (k - n \in 1 .. m - n /\ n + (k - n) = k)
    BY <1>1
  <2>2. ASSUME NEW p \in ToSet(points) PROVE p \in ToSet(xs) \cup ToSet(ys)
    <3>1. PICK k \in 1 .. m : p = points[k]
      BY <1>1 DEF ToSet
    <3>2. CASE k \in 1 .. n
      BY <1>2, <3>1, <3>2 DEF ToSet
    <3>3. CASE k - n \in 1 .. m - n /\ n + (k - n) = k
      <4>1. p = ys[k - n]
        BY <1>3, <3>1, <3>3
      <4> QED BY <1>3, <3>3, <4>1 DEF ToSet
    <3> QED BY <2>1, <3>2, <3>3
  <2>3. ToSet(xs) \subseteq ToSet(points) /\ ToSet(ys) \subseteq ToSet(points)
    BY <1>2, <1>3 DEF ToSet
  <2> QED BY <2>2, <2>3
<1> QED BY <1>2, <1>3, <1>4, <1>5, <1>6, <1>7 DEF xs, ys, m

\* The blocks before and behind a block.
Preceding(bs, k) == SubSeq(bs, 1, k - 1)
Behind(bs, k) == SubSeq(bs, k + 1, Len(bs))

\* A timeline is what precedes a block, the block, and what is behind it.
LEMMA Parted ==
  ASSUME NEW bs, Kept(bs), NEW k \in DOMAIN bs
  PROVE  /\ Kept(Preceding(bs, k)) /\ Kept(Behind(bs, k))
         /\ Shown(bs) = Shown(Preceding(bs, k)) \cup ToSet(Effective(bs[k])) \cup Shown(Behind(bs, k))
         /\ Ahead(Shown(Preceding(bs, k)), ToSet(Effective(bs[k])))
         /\ Ahead(ToSet(Effective(bs[k])), Shown(Behind(bs, k)))
         /\ Ahead(Shown(Preceding(bs, k)), Shown(Behind(bs, k)))
         /\ \A p : p \in Shown(Preceding(bs, k)) => \E l \in DOMAIN bs : l < k /\ p \in ToSet(Effective(bs[l]))
         /\ \A p : p \in Shown(Behind(bs, k)) => \E l \in DOMAIN bs : k < l /\ p \in ToSet(Effective(bs[l]))
<1> DEFINE L == Shown(Preceding(bs, k))
           R == Shown(Behind(bs, k))
           B(l) == ToSet(Effective(bs[l]))
<1>1. TimelineOK(bs) /\ DOMAIN bs = 1 .. Len(bs) /\ Len(bs) \in Nat
  BY DEF Kept, TimelineOK
<1>2. Kept(Preceding(bs, k)) /\ \A p : p \in L <=> \E l \in 1 .. k - 1 : p \in B(l)
  <2>1. 1 \in Nat \ {0} /\ k - 1 \in 0 .. Len(bs) /\ 1 <= k - 1 + 1
    BY <1>1
  <2> QED BY <2>1, PartOf DEF Preceding
<1>3. Kept(Behind(bs, k)) /\ \A p : p \in R <=> \E l \in k + 1 .. Len(bs) : p \in B(l)
  <2>1. k + 1 \in Nat \ {0} /\ Len(bs) \in 0 .. Len(bs) /\ k + 1 <= Len(bs) + 1
    BY <1>1
  <2> QED BY <2>1, PartOf DEF Behind
<1>4. /\ \A l \in 1 .. k - 1 : l \in DOMAIN bs /\ l < k
      /\ \A l \in k + 1 .. Len(bs) : l \in DOMAIN bs /\ k < l
      /\ \A l \in DOMAIN bs : l \in 1 .. k - 1 \/ l = k \/ l \in k + 1 .. Len(bs)
  BY <1>1
<1>5. \A j, l \in DOMAIN bs : j < l => Ahead(B(j), B(l))
  <2>1. SUFFICES ASSUME NEW j \in DOMAIN bs, NEW l \in DOMAIN bs, j < l,
                        NEW p \in B(j), NEW q \in B(l)
                 PROVE  p.at < q.at
    BY DEF Ahead
  <2>2. DOMAIN Effective(bs[j]) = DOMAIN bs[j].points /\ DOMAIN Effective(bs[l]) = DOMAIN bs[l].points
    BY DEF Effective
  <2>3. PICK i \in DOMAIN bs[j].points : p = Effective(bs[j])[i]
    BY <2>2 DEF ToSet
  <2>4. PICK m \in DOMAIN bs[l].points : q = Effective(bs[l])[m]
    BY <2>2 DEF ToSet
  <2>5. p.at = bs[j].points[i].at /\ q.at = bs[l].points[m].at /\ bs[j].points[i].at < bs[l].points[m].at
    BY <1>1, <2>1, <2>3, <2>4, BlockShows
  <2> QED BY <2>5
<1>6. Shown(bs) = L \cup B(k) \cup R
  <2>1. \A p : p \in Shown(bs) <=> \E l \in DOMAIN bs : p \in B(l)
    BY DEF Shown
  <2> HIDE DEF L, R, B
  <2> QED BY <1>2, <1>3, <1>4, <2>1
<1> HIDE DEF L, R, B
<1>7. Ahead(L, B(k)) /\ Ahead(B(k), R)
  <2>1. ASSUME NEW p \in L, NEW q \in B(k) PROVE p.at < q.at
    <3>1. PICK l \in 1 .. k - 1 : p \in B(l)
      BY <1>2
    <3> QED BY <1>4, <1>5, <3>1 DEF Ahead
  <2>2. ASSUME NEW p \in B(k), NEW q \in R PROVE p.at < q.at
    <3>1. PICK l \in k + 1 .. Len(bs) : q \in B(l)
      BY <1>3
    <3> QED BY <1>4, <1>5, <3>1 DEF Ahead
  <2> QED BY <2>1, <2>2 DEF Ahead
<1>8. Ahead(L, R)
  <2>1. ASSUME NEW p \in L, NEW q \in R PROVE p.at < q.at
    <3>1. PICK j \in 1 .. k - 1 : p \in B(j)
      BY <1>2
    <3>2. PICK l \in k + 1 .. Len(bs) : q \in B(l)
      BY <1>3
    <3>3. j < l
      BY <1>1
    <3> QED BY <1>4, <1>5, <3>1, <3>2, <3>3 DEF Ahead
  <2> QED BY <2>1 DEF Ahead
<1>9. /\ \A p : p \in L => \E l \in DOMAIN bs : l < k /\ p \in B(l)
      /\ \A p : p \in R => \E l \in DOMAIN bs : k < l /\ p \in B(l)
  BY <1>2, <1>3, <1>4
<1> QED BY <1>2, <1>3, <1>6, <1>7, <1>8, <1>9 DEF L, R, B

\* Blocks in the place of one.
LEMMA Replaced ==
  ASSUME NEW bs, Kept(bs), NEW k \in DOMAIN bs, NEW ms, Kept(ms),
         Ahead(Shown(Preceding(bs, k)), Shown(ms)), Ahead(Shown(ms), Shown(Behind(bs, k)))
  PROVE  /\ Kept(Preceding(bs, k) \o ms \o Behind(bs, k))
         /\ Shown(Preceding(bs, k) \o ms \o Behind(bs, k)) =
              Shown(Preceding(bs, k)) \cup Shown(ms) \cup Shown(Behind(bs, k))
<1> DEFINE L == Preceding(bs, k)
           R == Behind(bs, k)
<1>1. Kept(L) /\ Kept(R) /\ Ahead(Shown(L), Shown(R))
  BY Parted
<1>2. Kept(L \o ms) /\ Shown(L \o ms) = Shown(L) \cup Shown(ms)
  BY <1>1, Joined
<1>3. Ahead(Shown(L \o ms), Shown(R))
  BY <1>1, <1>2 DEF Ahead
<1> HIDE DEF L, R
<1>4. Kept((L \o ms) \o R) /\ Shown((L \o ms) \o R) = Shown(L \o ms) \cup Shown(R)
  BY <1>1, <1>2, <1>3, Joined
<1> QED BY <1>2, <1>4 DEF L, R

\* One block, or two.
Halves(points) ==
  LET half == Len(points) \div 2 IN
  IF Len(points) <= MaxPoints THEN <<BlockOf(points)>>
  ELSE <<BlockOf(SubSeq(points, 1, half)), BlockOf(SubSeq(points, half + 1, Len(points)))>>

\* The halves of a block that is full, or the block if it is not, are legal blocks.
LEMMA HalvesAreKept ==
  ASSUME NEW points, Ordered(points), Len(points) \in 1 .. MaxPoints + 1
  PROVE  Kept(Halves(points)) /\ Shown(Halves(points)) = ToSet(points)
<1> DEFINE n == Len(points)
           half == n \div 2
<1>1. MaxPoints \in Nat \ {0} /\ n \in Nat
  BY TimelineConstants
<1>2. CASE n <= MaxPoints
  <2>1. n \in 1 .. MaxPoints
    BY <1>1, <1>2
  <2>2. /\ BlockOK(BlockOf(points)) /\ Storable(BlockOf(points))
        /\ Effective(BlockOf(points)) = points
    BY <2>1, NewBlock
  <2> QED BY <1>2, <2>2, OneBlock DEF Halves
<1>3. CASE ~(n <= MaxPoints)
  <2>1. n = MaxPoints + 1 /\ n >= 2
    BY <1>1, <1>3
  <2>2. half \in 1 .. MaxPoints /\ n - half \in 1 .. MaxPoints /\ half \in 0 .. n
    BY <1>1, <2>1
  <2> HIDE DEF half, n
  <2> DEFINE xs == SubSeq(points, 1, half)
             ys == SubSeq(points, half + 1, n)
  <2>3. /\ Ordered(xs) /\ Ordered(ys) /\ Len(xs) = half /\ Len(ys) = n - half
        /\ ToSet(points) = ToSet(xs) \cup ToSet(ys)
        /\ Ahead(ToSet(xs), ToSet(ys))
    <3>1. half \in 0 .. Len(points)
      BY <2>2 DEF n
    <3> QED BY <3>1, PointsCut DEF n
  <2> HIDE DEF xs, ys
  <2>4. /\ BlockOK(BlockOf(xs)) /\ Storable(BlockOf(xs)) /\ Effective(BlockOf(xs)) = xs
        /\ BlockOK(BlockOf(ys)) /\ Storable(BlockOf(ys)) /\ Effective(BlockOf(ys)) = ys
    BY <2>2, <2>3, NewBlock
  <2>5. /\ Kept(<<BlockOf(xs)>>) /\ Shown(<<BlockOf(xs)>>) = ToSet(xs)
        /\ Kept(<<BlockOf(ys)>>) /\ Shown(<<BlockOf(ys)>>) = ToSet(ys)
    BY <2>4, OneBlock
  <2>6. /\ Kept(<<BlockOf(xs)>> \o <<BlockOf(ys)>>)
        /\ Shown(<<BlockOf(xs)>> \o <<BlockOf(ys)>>) = ToSet(xs) \cup ToSet(ys)
    BY <2>3, <2>5, Joined
  <2>7. <<BlockOf(xs)>> \o <<BlockOf(ys)>> = <<BlockOf(xs), BlockOf(ys)>>
    BY <2>4, TwoAreJoined DEF BlockOK
  <2>8. Halves(points) = <<BlockOf(xs), BlockOf(ys)>>
    BY <1>3 DEF Halves, xs, ys, half, n
  <2> QED BY <2>3, <2>6, <2>7, <2>8
<1> QED BY <1>2, <1>3

\* The slack of a kept timeline is representable at all times.
LEMMA KeptSlack ==
  ASSUME NEW bs, Kept(bs), NEW t \in Int
  PROVE  SlackAt(bs, t) \in Slack
<1>1. Shows(Shown(bs), t, SlackAt(bs, t))
  BY SlackIs DEF Kept
<1>2. 0 \in Slack
  BY TimelineConstants DEF Slack
<1> QED BY <1>1, <1>2, KeptShows DEF Shows

\* A block of a timeline, split around its new points.
LEMMA SplitIs ==
  ASSUME NEW bs, Kept(bs), NEW k \in DOMAIN bs, NEW points, Ordered(points),
         Len(points) \in 1 .. MaxPoints + 1,
         Ahead(Shown(Preceding(bs, k)), ToSet(points)), Ahead(ToSet(points), Shown(Behind(bs, k)))
  PROVE  /\ Kept(Split(bs, k, points))
         /\ Shown(Split(bs, k, points)) =
              Shown(Preceding(bs, k)) \cup ToSet(points) \cup Shown(Behind(bs, k))
<1>1. Kept(Halves(points)) /\ Shown(Halves(points)) = ToSet(points)
  BY HalvesAreKept
<1>2. Split(bs, k, points) = Preceding(bs, k) \o Halves(points) \o Behind(bs, k)
  BY DEF Split, Preceding, Halves, Behind
<1> QED BY <1>1, <1>2, Replaced

\* ensure_boundary adds a point that says nothing new.
LEMMA BoundaryIsEnsured ==
  ASSUME NEW bs, Kept(bs), NEW t \in Time
  PROVE  LET cs == EnsureBoundary(bs, t) IN
         /\ Kept(cs) /\ Shown(bs) \subseteq Shown(cs)
         /\ \E p \in Shown(cs) : p.at = t
         /\ \A s \in Int : SlackAt(cs, s) = SlackAt(bs, s)
<1> DEFINE cs == EnsureBoundary(bs, t)
           new == Point(t, SlackAt(bs, t))
           h == HomeOf(bs, t)
           k == Max({1, h})
<1>1. TimelineOK(bs) /\ DOMAIN bs = 1 .. Len(bs) /\ Len(bs) \in Nat /\ t \in Int
  BY TimesAreIntegers DEF Kept, TimelineOK
<1>2. /\ SlackAt(bs, t) \in Slack /\ SlackAt(bs, t) \in Int
      /\ new \in PointSet /\ new.at = t /\ new.slack = SlackAt(bs, t)
  BY <1>1, KeptSlack, SlackIs DEF Point, PointSet
<1>3. CASE HasPoint(bs, t)
  <2>1. cs = bs
    BY <1>3 DEF EnsureBoundary
  <2>2. PICK l \in DOMAIN bs : \E p \in ToSet(bs[l].points) : p.at = t
    BY <1>3 DEF HasPoint
  <2>3. PICK i \in DOMAIN bs[l].points : bs[l].points[i].at = t
    BY <2>2 DEF ToSet
  <2>4. Effective(bs[l])[i] \in Shown(bs) /\ Effective(bs[l])[i].at = t
    BY <1>1, <2>3, BlockShows
  <2> HIDE DEF cs
  <2> QED BY <2>1, <2>4 DEF cs
<1>4. CASE ~HasPoint(bs, t)
  <2>1. SUFFICES Kept(cs) /\ Shown(cs) = Shown(bs) \cup {new}
    <3> HIDE DEF cs, new
    <3>1. ASSUME NEW s \in Int PROVE SlackAt(cs, s) = SlackAt(bs, s)
      <4>1. TimelineOK(cs)
        BY <2>1 DEF Kept
      <4>2. Shows(Shown(bs), s, SlackAt(bs, s)) /\ Shows(Shown(bs), new.at, new.slack)
        BY <1>1, <1>2, SlackIs
      <4>3. Shown(bs) \in SUBSET PointSet /\ OnePerTime(Shown(bs))
        BY <1>1, ShownIs
      <4>4. Shows(Shown(bs) \cup {new}, s, SlackAt(bs, s))
        BY <1>2, <4>2, <4>3, ShowsExtended
      <4> QED BY <2>1, <4>1, <4>4, SlackIs
    <3> QED BY <1>2, <2>1, <3>1 DEF cs
  <2>2. CASE bs = <<>>
    <3> DEFINE one == <<new>>
    <3>1. cs = <<BlockOf(one)>>
      BY <1>4, <2>2 DEF EnsureBoundary
    <3>2. one \in Seq(PointSet) /\ DOMAIN one = {1} /\ one[1] = new /\ Len(one) = 1
      BY <1>2
    <3> HIDE DEF one
    <3>3. Ordered(one) /\ ToSet(one) = {new}
      BY <1>2, <3>2 DEF Ordered, InTime, ToSet
    <3>4. Len(one) \in 1 .. MaxPoints
      BY <3>2, TimelineConstants
    <3>5. /\ BlockOK(BlockOf(one)) /\ Storable(BlockOf(one)) /\ Effective(BlockOf(one)) = one
      BY <3>3, <3>4, NewBlock
    <3>6. Kept(cs) /\ Shown(cs) = {new}
      BY <3>1, <3>3, <3>5, OneBlock
    <3>7. Shown(bs) = {}
      BY <2>2, NoBlocks
    <3> QED BY <3>6, <3>7
  <2>3. CASE bs # <<>>
    <3>1. Len(bs) >= 1
      BY <1>1, <2>3
    <3>2. h \in 0 .. Len(bs) /\ \A l \in DOMAIN bs : bs[l].points[1].at <= t <=> l <= h
      BY <1>1, HomeIs
    <3>3. k \in DOMAIN bs /\ ((h = 0 /\ k = 1) \/ k = h)
      <4>1. {1, h} \in SUBSET Int /\ IsExtreme("maximum", IF h = 0 THEN 1 ELSE h, {1, h})
        BY <3>2 DEF IsExtreme
      <4>2. "maximum" \in Extremes /\ "maximum" # "minimum"
        BY DEF Extremes
      <4>3. Extreme("maximum", {1, h}) = k
        BY <4>2 DEF Extreme
      <4>4. k = IF h = 0 THEN 1 ELSE h
        <5> HIDE DEF h, k
        <5> QED BY <4>1, <4>2, <4>3, ExtremeIs
      <4> QED BY <1>1, <3>1, <3>2, <4>4
    <3> HIDE DEF k, h
    <3> DEFINE b == bs[k]
               n == PointOf(b, t)
               points == Effective(b)
               L == Shown(Preceding(bs, k))
               R == Shown(Behind(bs, k))
    <3>4. BlockOK(b) /\ Ordered(points) /\ Len(points) = Len(b.points) /\ Len(points) \in 1 .. MaxPoints
      BY <3>3, KeptPoints
    <3>5. n \in 0 .. Len(b.points) /\ \A i \in DOMAIN b.points : b.points[i].at <= t <=> i <= n
      BY <1>1, <3>4, PointIs
    <3>6. \A p \in Shown(bs) : p.at # t /\ p.at \in Int
      <4>1. \A l \in DOMAIN bs : \A i \in DOMAIN bs[l].points : bs[l].points[i].at # t
        BY <1>4 DEF HasPoint, ToSet
      <4>2. SUFFICES ASSUME NEW p \in Shown(bs) PROVE p.at # t
        BY <1>1, ShownIs, TimesAreIntegers
      <4>3. PICK l \in DOMAIN bs : \E i \in DOMAIN bs[l].points : p = Effective(bs[l])[i]
        BY <1>1, ShownIs
      <4> QED BY <1>1, <4>1, <4>3, BlockShows
    <3> HIDE DEF n
    <3>7. DOMAIN points = DOMAIN b.points /\ DOMAIN b.points = 1 .. Len(b.points)
          /\ \A i \in DOMAIN points : points[i] \in Shown(bs) /\ points[i].at = b.points[i].at
      <4>1. DOMAIN points = DOMAIN b.points
        BY DEF Effective
      <4> QED BY <1>1, <3>3, <3>4, <4>1, BlockShows, BlockFacts
    <3> HIDE DEF points
    <3> DEFINE xs == SubSeq(points, 1, n)
               ys == SubSeq(points, n + 1, Len(points))
               one == <<new>>
    <3>8. /\ Ordered(xs) /\ Ordered(ys) /\ Len(xs) = n /\ Len(ys) = Len(points) - n
          /\ ToSet(points) = ToSet(xs) \cup ToSet(ys)
          /\ Ahead(ToSet(xs), ToSet(ys))
          /\ \A i \in 1 .. n : xs[i] = points[i]
          /\ \A i \in 1 .. Len(points) - n : ys[i] = points[n + i]
      <4>1. n \in 0 .. Len(points)
        BY <3>4, <3>5
      <4> QED BY <3>4, <4>1, PointsCut
    <3>9. Ordered(one) /\ ToSet(one) = {new} /\ Len(one) = 1
      <4>1. one \in Seq(PointSet) /\ DOMAIN one = {1} /\ one[1] = new /\ Len(one) = 1
        BY <1>2
      <4> HIDE DEF one, new
      <4> QED BY <1>2, <4>1 DEF Ordered, InTime, ToSet
    <3>10. InsertAt(points, n + 1, new) = xs \o one \o ys
      <4>1. n \in Int
        BY <3>5
      <4> HIDE DEF new
      <4> QED BY <4>1, InsertedBehind
    <3> HIDE DEF xs, ys, one, new
    <3>11. Ahead(ToSet(xs), {new}) /\ Ahead({new}, ToSet(ys))
      <4>1. ASSUME NEW p \in ToSet(xs) PROVE p.at < t
        <5>1. PICK i \in DOMAIN xs : p = xs[i]
          BY DEF ToSet
        <5>2. i \in 1 .. n /\ i \in DOMAIN points
          BY <3>4, <3>5, <3>7, <3>8, <5>1, OrderedSet
        <5>3. p = points[i] /\ p.at <= t
          BY <3>5, <3>7, <3>8, <5>1, <5>2
        <5> QED BY <1>1, <3>6, <3>7, <5>2, <5>3
      <4>2. ASSUME NEW p \in ToSet(ys) PROVE t < p.at
        <5>1. PICK i \in DOMAIN ys : p = ys[i]
          BY DEF ToSet
        <5>2. i \in 1 .. Len(points) - n /\ n + i \in DOMAIN points /\ ~(n + i <= n)
          <6>1. i \in 1 .. Len(points) - n
            BY <3>8, <5>1, OrderedSet
          <6> QED BY <3>4, <3>5, <3>7, <6>1
        <5>3. p = points[n + i] /\ ~(p.at <= t)
          BY <3>5, <3>7, <3>8, <5>1, <5>2
        <5> QED BY <1>1, <3>6, <3>7, <5>2, <5>3
      <4> QED BY <1>2, <4>1, <4>2 DEF Ahead
    <3>12. Ordered(xs \o one) /\ ToSet(xs \o one) = ToSet(xs) \cup {new} /\ Len(xs \o one) = n + 1
      <4>1. Ordered(xs) /\ Ordered(one) /\ Ahead(ToSet(xs), ToSet(one)) /\ Len(xs) = n
        BY <3>8, <3>9, <3>11
      <4>2. /\ Ordered(xs \o one) /\ ToSet(xs \o one) = ToSet(xs) \cup ToSet(one)
            /\ Len(xs \o one) = Len(xs) + Len(one)
        BY <4>1, PointsJoined
      <4> QED BY <3>9, <4>1, <4>2
    <3> DEFINE zs == (xs \o one) \o ys
    <3>13. Ordered(zs) /\ ToSet(zs) = ToSet(points) \cup {new} /\ Len(zs) = Len(points) + 1
      <4>1. Ahead(ToSet(xs \o one), ToSet(ys))
        BY <3>8, <3>11, <3>12 DEF Ahead
      <4>2. /\ Ordered(zs) /\ ToSet(zs) = ToSet(xs \o one) \cup ToSet(ys)
            /\ Len(zs) = Len(xs \o one) + Len(ys)
        BY <3>8, <3>12, <4>1, PointsJoined
      <4>3. Len(zs) = Len(points) + 1
        <5>1. n \in Nat /\ Len(points) \in Nat
          BY <3>4, <3>5
        <5>2. Len(ys) = Len(points) - n
          BY <3>8
        <5>3. Len(xs \o one) = n + 1
          BY <3>12
        <5> HIDE DEF zs
        <5> QED BY <4>2, <5>1, <5>2, <5>3
      <4> QED BY <3>8, <3>12, <4>2, <4>3
    <3>14. cs = Split(bs, k, zs)
      <4>1. cs = Split(bs, k, InsertAt(points, n + 1, new))
        BY <1>4, <2>3 DEF EnsureBoundary, new, k, h, points, n, b
      <4> HIDE DEF cs
      <4> QED BY <3>10, <4>1
    <3> HIDE DEF zs, cs, L, R
    <3>15. /\ Shown(bs) = L \cup ToSet(points) \cup R
           /\ Ahead(L, ToSet(points)) /\ Ahead(ToSet(points), R)
      BY <3>3, Parted DEF L, R, points, b
    <3>16. Ahead(L, {new})
      <4>1. SUFFICES ASSUME NEW p \in L PROVE p.at < t
        BY <1>2 DEF Ahead
      <4>2. PICK l \in DOMAIN bs : l < k /\ p \in ToSet(Effective(bs[l]))
        BY <3>3, Parted DEF L
      <4>3. k = h
        BY <1>1, <3>3, <4>2
      <4>4. 1 \in DOMAIN points /\ points[1].at <= t /\ points[1] \in ToSet(points)
        <5>1. 1 \in DOMAIN b.points
          BY <3>4, BlockFacts
        <5>2. h <= h
          BY <3>2
        <5>3. b.points[1].at <= t
          BY <3>2, <3>3, <4>3, <5>2
        <5> QED BY <3>4, <3>7, <5>1, <5>3, OrderedSet
      <4>5. p.at < points[1].at
        BY <3>15, <4>4 DEF Ahead
      <4> QED BY <1>1, <3>6, <3>7, <3>15, <4>4, <4>5
    <3>17. Ahead({new}, R)
      <4>1. SUFFICES ASSUME NEW p \in R PROVE t < p.at
        BY <1>2 DEF Ahead
      <4>2. PICK l \in DOMAIN bs : k < l /\ p \in ToSet(Effective(bs[l]))
        BY <3>3, Parted DEF R
      <4>3. ~(l <= h)
        BY <1>1, <3>2, <3>3, <4>2
      <4>4. PICK i \in DOMAIN bs[l].points : p = Effective(bs[l])[i]
        BY <4>2 DEF ToSet, Effective
      <4>5. BlockOK(bs[l])
        BY <1>1 DEF TimelineOK
      <4>6. /\ bs[l].points[1].at \in Int /\ bs[l].points[i].at \in Int
            /\ bs[l].points[1].at <= bs[l].points[i].at
        BY <4>5, BlockFacts
      <4>7. ~(bs[l].points[1].at <= t)
        BY <3>2, <4>3
      <4>8. p.at = bs[l].points[i].at
        BY <1>1, <4>4, BlockShows
      <4> QED BY <1>1, <4>6, <4>7, <4>8
    <3>18. Ahead(L, ToSet(zs)) /\ Ahead(ToSet(zs), R)
      BY <3>13, <3>15, <3>16, <3>17 DEF Ahead
    <3>19. Len(zs) \in 1 .. MaxPoints + 1
      BY <3>4, <3>13, TimelineConstants
    <3>20. Kept(cs) /\ Shown(cs) = L \cup ToSet(zs) \cup R
      BY <3>3, <3>13, <3>14, <3>18, <3>19, SplitIs DEF L, R
    <3> QED BY <3>13, <3>15, <3>20
  <2> QED BY <2>2, <2>3
<1> QED BY <1>3, <1>4

-----------------------------------------------------------------------------
(* Points that repeat the slack before them.                                *)

\* Of every point of P, its slack is that of the last point of Q up to it.
Firm(Q, P) ==
  /\ Q \subseteq P
  /\ \A p \in P : \E q \in Q : /\ q.at <= p.at /\ q.slack = p.slack
                               /\ \A r \in Q : r.at <= p.at => r.at <= q.at

\* Q says of the slack what P says.
Says(Q, P) == Q \subseteq P /\ \A p \in P \ Q : Shows(Q, p.at, p.slack)

\* If every point is represented, what was left out is what the others show.
LEMMA FirmSays ==
  ASSUME NEW P, NEW Q, Firm(Q, P)
  PROVE  Says(Q, P)
BY DEF Firm, Says, Shows

\* Saying the same is transitive.
LEMMA SaysSame ==
  ASSUME NEW P \in SUBSET PointSet, NEW Q, NEW R, Says(Q, P), Says(R, Q)
  PROVE  Says(R, P)
<1>1. Q \in SUBSET PointSet /\ R \in SUBSET Q
  BY DEF Says
<1>2. ASSUME NEW p \in P \ R PROVE Shows(R, p.at, p.slack)
  <2>1. CASE p \in Q
    BY <2>1 DEF Says
  <2>2. CASE p \notin Q
    <3>1. Shows(Q, p.at, p.slack) /\ p.at \in Int
      BY <2>2, TimesAreIntegers DEF Says
    <3>2. \A q \in Q \ R : Shows(R, q.at, q.slack)
      BY DEF Says
    <3> QED BY <1>1, <3>1, <3>2, ShowsThinned
  <2> QED BY <2>1, <2>2
<1> QED BY <1>2 DEF Says

\* Which points Distinct keeps.
Needed(points) == {k \in DOMAIN points : k > 1 => points[k - 1].slack # points[k].slack}

\* Every point has the slack of the last one that is kept.
LEMMA LastKept ==
  ASSUME NEW points \in Seq(PointSet), NEW k \in DOMAIN points
  PROVE  \E j \in Needed(points) : /\ j <= k /\ points[j].slack = points[k].slack
                                  /\ \A m \in Needed(points) : m <= k => m <= j
<1> DEFINE n == Len(points)
           K == Needed(points)
           Good(l) == \E j \in K : /\ j <= l /\ points[j].slack = points[l].slack
                                   /\ \A m \in K : m <= l => m <= j
           Bad == {l \in 1 .. n : ~Good(l)}
<1>1. n \in Nat /\ DOMAIN points = 1 .. n /\ K \in SUBSET (1 .. n)
  BY DEF Needed
<1>2. Bad = {}
  <2>1. SUFFICES ASSUME Bad # {} PROVE FALSE
    OBVIOUS
  <2>2. PICK l \in Bad : \A x \in Bad : l <= x
    <3>1. Bad \in SUBSET Nat
      BY <1>1
    <3> HIDE DEF Bad
    <3> QED BY <2>1, <3>1, LeastNatural
  <2>3. l \in 1 .. n /\ ~Good(l)
    OBVIOUS
  <2>4. CASE l \in K
    <3>1. l <= l /\ points[l].slack = points[l].slack
      BY <2>3
    <3> QED BY <2>3, <2>4, <3>1
  <2>5. CASE l \notin K
    <3>1. l > 1 /\ points[l - 1].slack = points[l].slack
      BY <1>1, <2>3, <2>5 DEF Needed
    <3>2. l - 1 \in 1 .. n /\ ~(l <= l - 1)
      BY <1>1, <2>3, <3>1
    <3>3. Good(l - 1)
      BY <2>2, <3>2
    <3>4. PICK j \in K : /\ j <= l - 1 /\ points[j].slack = points[l - 1].slack
                         /\ \A m \in K : m <= l - 1 => m <= j
      BY <3>3
    <3>5. \A m \in K : m <= l => m <= l - 1
      BY <1>1, <2>3, <2>5
    <3>6. j <= l
      BY <1>1, <2>3, <3>4
    <3> QED BY <2>3, <3>1, <3>4, <3>5, <3>6
  <2> QED BY <2>4, <2>5
<1> HIDE DEF Good, Bad
<1>3. Good(k)
  BY <1>1, <1>2 DEF Bad
<1> QED BY <1>3 DEF Good

\* Distinct keeps what is needed to say the same.
LEMMA DistinctIs ==
  ASSUME NEW points, Ordered(points), points # <<>>
  PROVE  LET kept == Distinct(points) IN
         /\ Ordered(kept) /\ kept # <<>> /\ Len(kept) \in 1 .. Len(points)
         /\ Firm(ToSet(kept), ToSet(points))
         /\ kept[1] = points[1]
         /\ \A n \in DOMAIN kept : n > 1 => kept[n - 1].slack # kept[n].slack
<1> DEFINE K == Needed(points)
           list == Listed(K)
           D == Distinct(points)
           n == Len(points)
<1>1. points \in Seq(PointSet) /\ InTime(points) /\ DOMAIN points = 1 .. n /\ n \in Nat \ {0}
  BY DEF Ordered
<1>2. K \in SUBSET (1 .. n) /\ 1 \in K /\ K \in SUBSET Int
  BY <1>1 DEF Needed
<1>3. IsFiniteSet(K) /\ Cardinality(K) \in Nat /\ Cardinality(K) <= n
  <2>1. IsFiniteSet(1 .. n) /\ Cardinality(1 .. n) = n
    <3>1. 1 \in Int /\ n \in Int /\ ~(1 > n)
      BY <1>1
    <3> HIDE DEF n
    <3>2. Cardinality(1 .. n) = n - 1 + 1
      BY <3>1, FS_Interval
    <3> QED BY <3>1, <3>2, FS_Interval
  <2> HIDE DEF K, n
  <2> QED BY <1>2, <2>1, SmallerPart
<1>4. IsListing(list, K)
  <2> HIDE DEF K
  <2> QED BY <1>2, <1>3, ListedInOrder
<1>5. /\ list \in Seq(K) /\ Len(list) = Cardinality(K) /\ DOMAIN list = 1 .. Len(list)
      /\ Len(list) \in Nat \ {0} /\ Ascends(list)
      /\ \A k \in DOMAIN list : list[k] \in K /\ list[k] \in 1 .. n /\ list[k] \in Int
  <2>1. list \in Seq(K) /\ Len(list) = Cardinality(K) /\ Ascends(list)
    BY <1>4 DEF IsListing
  <2>2. 1 \in DOMAIN list
    BY <1>2, <1>4, ListingGaps
  <2> HIDE DEF list, K
  <2>3. DOMAIN list = 1 .. Len(list) /\ Len(list) \in Nat \ {0} /\ \A k \in DOMAIN list : list[k] \in K
    BY <2>1, <2>2
  <2> QED BY <1>2, <2>1, <2>3
<1>6. D = [k \in DOMAIN list |-> points[list[k]]]
  BY DEF Distinct, Needed
<1>7. D \in Seq(PointSet) /\ Len(D) = Len(list) /\ DOMAIN D = DOMAIN list
      /\ \A k \in DOMAIN list : D[k] = points[list[k]]
  <2> HIDE DEF list, D, n
  <2>1. \A k \in 1 .. Len(list) : D[k] \in PointSet
    BY <1>1, <1>5, <1>6
  <2>2. D \in [1 .. Len(list) -> PointSet]
    BY <1>5, <1>6, <2>1
  <2> QED BY <1>5, <1>6, <2>2, RowIsSequence
<1> HIDE DEF D, list, K, n
<1>8. Ordered(D)
  <2>1. \A j, k \in DOMAIN list : j < k => list[j] < list[k] /\ list[j] \in DOMAIN points /\ list[k] \in DOMAIN points
    BY <1>1, <1>5 DEF Ascends
  <2>2. InTime(D)
    BY <1>1, <1>7, <2>1 DEF InTime
  <2>3. \A k \in DOMAIN D : D[k].slack \in Slack
    BY <1>1, <1>5, <1>7 DEF Ordered
  <2> QED BY <1>7, <2>2, <2>3 DEF Ordered
<1>9. D[1] = points[1]
  <2>1. list[1] <= 1
    BY <1>2, <1>4, ListingGaps
  <2>2. list[1] = 1 /\ 1 \in DOMAIN list
    BY <1>5, <2>1
  <2> QED BY <1>7, <2>2
<1>10. Firm(ToSet(D), ToSet(points))
  <2>1. ToSet(D) \subseteq ToSet(points)
    BY <1>1, <1>5, <1>7 DEF ToSet
  <2>2. ASSUME NEW p \in ToSet(points)
        PROVE  \E q \in ToSet(D) : /\ q.at <= p.at /\ q.slack = p.slack
                                   /\ \A r \in ToSet(D) : r.at <= p.at => r.at <= q.at
    <3>1. PICK k \in DOMAIN points : p = points[k]
      BY DEF ToSet
    <3>2. PICK j \in K : /\ j <= k /\ points[j].slack = points[k].slack
                         /\ \A m \in K : m <= k => m <= j
      BY <1>1, LastKept DEF K
    <3>3. PICK x \in DOMAIN list : list[x] = j
      BY <1>4 DEF IsListing
    <3>4. points[j] \in ToSet(D) /\ j \in 1 .. n /\ k \in 1 .. n
      BY <1>1, <1>2, <1>7, <3>3 DEF ToSet
    <3>5. \A a, b \in 1 .. n : /\ points[a].at \in Int /\ points[b].at \in Int
                               /\ a < b <=> points[a].at < points[b].at
      <4>1. \A a \in 1 .. n : points[a].at \in Int
        BY <1>1, TimesAreIntegers
      <4>2. \A a, b \in 1 .. n : a < b => points[a].at < points[b].at
        BY <1>1 DEF InTime
      <4>3. SUFFICES ASSUME NEW a \in 1 .. n, NEW b \in 1 .. n, points[a].at < points[b].at PROVE a < b
        BY <4>1, <4>2
      <4>4. ~(b < a) /\ a # b /\ a \in Int /\ b \in Int
        BY <4>1, <4>2, <4>3
      <4> QED BY <4>4
    <3>6. points[j].at <= p.at
      <4>1. j = k \/ j < k
        BY <3>2, <3>4
      <4> QED BY <3>1, <3>4, <3>5, <4>1
    <3>7. ASSUME NEW r \in ToSet(D), r.at <= p.at PROVE r.at <= points[j].at
      <4>1. PICK y \in DOMAIN list : r = points[list[y]]
        BY <1>7 DEF ToSet
      <4>2. list[y] \in K /\ list[y] \in 1 .. n
        BY <1>5
      <4>3. ~(k < list[y])
        BY <3>1, <3>4, <3>5, <3>7, <4>1, <4>2
      <4>4. list[y] <= j
        BY <3>2, <3>4, <4>2, <4>3
      <4>5. list[y] = j \/ list[y] < j
        BY <3>4, <4>2, <4>4
      <4> QED BY <3>4, <3>5, <4>1, <4>2, <4>5
    <3> QED BY <3>1, <3>2, <3>4, <3>6, <3>7
  <2> QED BY <2>1, <2>2 DEF Firm
<1>11. ASSUME NEW k \in DOMAIN D, k > 1 PROVE D[k - 1].slack # D[k].slack
  <2>1. k \in DOMAIN list /\ k - 1 \in DOMAIN list /\ k - 1 < k /\ k - 1 \in 1 .. Len(list) - 1 /\ k = k - 1 + 1
    BY <1>5, <1>7, <1>11
  <2>2. list[k - 1] < list[k] /\ list[k - 1] \in 1 .. n /\ list[k] \in 1 .. n /\ list[k] \in K
    BY <1>5, <2>1 DEF Ascends
  <2>3. list[k] - 1 \in DOMAIN points /\ list[k] > 1
    BY <1>1, <2>2
  <2>4. points[list[k] - 1].slack # points[list[k]].slack
    BY <2>2, <2>3 DEF K, Needed
  <2>5. PICK j \in K : /\ j <= list[k] - 1 /\ points[j].slack = points[list[k] - 1].slack
                       /\ \A m \in K : m <= list[k] - 1 => m <= j
    BY <1>1, <2>3, LastKept DEF K
  <2>6. j <= list[k - 1] \/ list[k] <= j
    BY <1>2, <1>4, <2>1, ListingGaps
  <2>7. list[k - 1] <= j
    <3>1. list[k - 1] <= list[k] - 1 /\ list[k - 1] \in K
      BY <1>5, <2>1, <2>2
    <3> QED BY <2>5, <3>1
  <2>8. j = list[k - 1]
    <3>1. j \in Int
      BY <1>2
    <3> QED BY <2>2, <2>5, <2>6, <2>7, <3>1
  <2> QED BY <1>7, <2>1, <2>4, <2>5, <2>8
<1>12. D # <<>> /\ Len(D) \in 1 .. Len(points)
  BY <1>3, <1>5, <1>7 DEF n
<1> QED BY <1>8, <1>9, <1>10, <1>11, <1>12 DEF D

-----------------------------------------------------------------------------
(* Adding a delta to points.                                                *)

\* A block that takes a delta lazily shows all its points raised.
LEMMA LazyIs ==
  ASSUME NEW b, BlockOK(b), Storable(b), NEW d \in Slack,
         \A i \in DOMAIN b.points : Effective(b)[i].slack + d \in Slack
  PROVE  LET c == LazyDelta(b, d) IN
         /\ BlockOK(c) /\ Storable(c) /\ DOMAIN c.points = DOMAIN b.points
         /\ \A i \in DOMAIN b.points : Effective(c)[i] = [Effective(b)[i] EXCEPT !.slack = @ + d]
<1> DEFINE c == LazyDelta(b, d)
           n == Len(b.points)
<1>1. /\ b \in BlockRecord /\ b.points \in Seq(PointSet) /\ b.delta \in Int /\ b.delta \in Slack
      /\ b.minimum \in Int /\ b.maximum \in Int /\ d \in Int
      /\ DOMAIN b.points = 1 .. n /\ n \in Nat \ {0}
  <2>1. b \in BlockRecord /\ b.delta \in Slack /\ n \in Nat \ {0} /\ DOMAIN b.points = 1 .. n
    BY BlockFacts DEF BlockOK, Storable
  <2>2. d \in Int
    BY TimelineConstants DEF Slack
  <2> QED BY <2>1, <2>2 DEF BlockRecord
<1>2. /\ Effective(b) \in Seq(PointSet) /\ Len(Effective(b)) = n /\ DOMAIN Effective(b) = 1 .. n
      /\ \A i \in 1 .. n : /\ Effective(b)[i] \in PointSet /\ b.points[i] \in PointSet
                           /\ Effective(b)[i].at = b.points[i].at
                           /\ Effective(b)[i].slack = b.points[i].slack + b.delta
  BY <1>1, EffectiveIs
<1>3. /\ c.points \in Seq(PointSet) /\ Len(c.points) = n /\ DOMAIN c.points = 1 .. n /\ c.delta \in Int
      /\ c.delta \in Slack
      /\ c.minimum = b.minimum + d /\ c.maximum = b.maximum + d
      /\ \A i \in 1 .. n : /\ c.points[i] \in PointSet /\ c.points[i].at = b.points[i].at
                           /\ c.points[i].slack \in Slack
                           /\ c.points[i].slack + c.delta = Effective(b)[i].slack + d
  <2>1. CASE b.delta + d \in Slack
    <3>1. c.points = b.points /\ c.delta = b.delta + d /\ c.minimum = b.minimum + d
          /\ c.maximum = b.maximum + d
      BY <2>1 DEF LazyDelta
    <3>2. \A i \in 1 .. n : b.points[i].slack \in Slack /\ b.points[i].slack \in Int
      BY <1>1, <1>2, TimesAreIntegers DEF Storable
    <3> HIDE DEF c, n
    <3>3. b.delta + d \in Int
      BY <1>1
    <3>4. ASSUME NEW i \in 1 .. n
          PROVE  c.points[i].slack + c.delta = Effective(b)[i].slack + d
      <4>1. c.points[i].slack + c.delta = b.points[i].slack + (b.delta + d)
        BY <3>1
      <4>2. Effective(b)[i].slack + d = (b.points[i].slack + b.delta) + d
        BY <1>2
      <4> QED BY <1>1, <3>2, <4>1, <4>2
    <3> QED BY <1>1, <1>2, <2>1, <3>1, <3>2, <3>3, <3>4
  <2>2. CASE b.delta + d \notin Slack
    <3>1. c.points = Effective(b) /\ c.delta = d /\ c.minimum = b.minimum + d
          /\ c.maximum = b.maximum + d
      BY <2>2 DEF LazyDelta
    <3>2. \A i \in 1 .. n : Effective(b)[i].slack \in Slack
      BY <1>1 DEF Storable
    <3> HIDE DEF c, n
    <3> QED BY <1>1, <1>2, <3>1, <3>2
  <2> QED BY <2>1, <2>2
<1>4. c \in BlockRecord
  <2>1. c = [points |-> c.points, delta |-> c.delta, minimum |-> c.minimum, maximum |-> c.maximum]
    BY DEF LazyDelta
  <2> HIDE DEF c
  <2>2. c.minimum \in Int /\ c.maximum \in Int
    BY <1>1, <1>3
  <2> QED BY <1>3, <2>1, <2>2 DEF BlockRecord
<1> HIDE DEF c, n
<1>5. /\ DOMAIN Effective(c) = 1 .. n
      /\ \A i \in 1 .. n : /\ Effective(c)[i] \in PointSet
                           /\ Effective(c)[i].at = Effective(b)[i].at
                           /\ Effective(c)[i].slack = Effective(b)[i].slack + d
  BY <1>2, <1>3, <1>4, EffectiveIs
<1>6. \A i \in 1 .. n : Effective(c)[i] = [Effective(b)[i] EXCEPT !.slack = @ + d]
  <2>1. SUFFICES ASSUME NEW i \in 1 .. n PROVE Effective(c)[i] = [Effective(b)[i] EXCEPT !.slack = @ + d]
    OBVIOUS
  <2> DEFINE p == Effective(b)[i]
             q == Effective(c)[i]
  <2>2. p \in PointSet /\ q \in PointSet /\ q.at = p.at /\ q.slack = p.slack + d
    BY <1>2, <1>5
  <2> HIDE DEF p, q
  <2>3. q = [p EXCEPT !.slack = @ + d]
    BY <2>2 DEF PointSet
  <2> QED BY <2>3 DEF p, q
<1>7. c.points # <<>> /\ InTime(c.points)
  <2>1. InTime(b.points)
    BY DEF BlockOK
  <2> QED BY <1>1, <1>3, <2>1 DEF InTime
<1>8. ASSUME NEW e \in Extremes PROVE IsExtreme(e, c[e], Values(Effective(c)))
  <2>1. IsExtreme(e, b[e], Values(Effective(b))) /\ b[e] \in Int /\ c[e] = b[e] + d
    <3>1. b["minimum"] \in Int /\ b["maximum"] \in Int
          /\ c["minimum"] = b["minimum"] + d /\ c["maximum"] = b["maximum"] + d
      BY <1>1, <1>3
    <3> QED BY <3>1 DEF BlockOK, Extremes
  <2>2. \A i \in 1 .. n : Effective(b)[i].slack \in Int
    BY <1>2, TimesAreIntegers
  <2>3. PICK j \in 1 .. n : b[e] = Effective(b)[j].slack
    BY <1>2, <2>1 DEF IsExtreme, Values
  <2>4. c[e] \in Values(Effective(c))
    <3>1. c[e] = Effective(c)[j].slack
      BY <1>5, <2>1, <2>3
    <3> QED BY <1>5, <3>1 DEF Values
  <2>5. ASSUME NEW x \in Values(Effective(c))
        PROVE  IF e = "minimum" THEN c[e] <= x ELSE c[e] >= x
    <3>1. PICK i \in 1 .. n : x = Effective(c)[i].slack
      BY <1>5 DEF Values
    <3>2. x = Effective(b)[i].slack + d
      BY <1>5, <3>1
    <3>3. IF e = "minimum" THEN b[e] <= Effective(b)[i].slack ELSE b[e] >= Effective(b)[i].slack
      BY <1>2, <2>1 DEF IsExtreme, Values
    <3> QED BY <1>1, <2>1, <2>2, <3>2, <3>3
  <2> QED BY <2>4, <2>5 DEF IsExtreme
<1>9. BlockOK(c)
  BY <1>4, <1>7, <1>8 DEF BlockOK
<1>10. Storable(c)
  <2>1. n <= MaxPoints
    BY DEF Storable, n
  <2>2. \A i \in 1 .. n : Effective(c)[i].slack \in Slack
    BY <1>1, <1>5
  <2> QED BY <1>3, <2>1, <2>2 DEF Storable
<1> QED BY <1>1, <1>3, <1>6, <1>9, <1>10 DEF c

\* The effective points of a block, those from i up to but not j raised.
RaisedRange(b, i, j, d) ==
  [k \in DOMAIN b.points |->
     IF i <= k /\ k < j THEN [Effective(b)[k] EXCEPT !.slack = @ + d] ELSE Effective(b)[k]]

\* A block that takes a delta in part is a new one, without repetitions.
LEMMA RangeIs ==
  ASSUME NEW b, BlockOK(b), Storable(b), NEW d \in Int, NEW i \in Int, NEW j \in Int, i # j,
         \A k \in DOMAIN b.points : RaisedRange(b, i, j, d)[k].slack \in Slack
  PROVE  LET c == PointRangeDelta(b, i, j, d) IN
         /\ BlockOK(c) /\ Storable(c)
         /\ Firm(ToSet(Effective(c)), ToSet(RaisedRange(b, i, j, d)))
<1> DEFINE r == RaisedRange(b, i, j, d)
           n == Len(b.points)
<1>1. DOMAIN b.points = 1 .. n /\ n \in Nat \ {0} /\ b \in BlockRecord /\ InTime(b.points)
      /\ n <= MaxPoints
  BY BlockFacts DEF BlockOK, Storable
<1>2. \A k \in 1 .. n : Effective(b)[k] \in PointSet /\ Effective(b)[k].at = b.points[k].at
  BY <1>1, EffectiveIs
<1>3. \A k \in 1 .. n : r[k] \in PointSet /\ r[k].at = b.points[k].at
  <2>1. SUFFICES ASSUME NEW k \in 1 .. n PROVE r[k] \in PointSet /\ r[k].at = b.points[k].at
    OBVIOUS
  <2> DEFINE p == Effective(b)[k]
  <2>2. r[k] = [p EXCEPT !.slack = @ + d] \/ r[k] = p
    BY <1>1 DEF RaisedRange
  <2>3. p \in PointSet /\ p.at = b.points[k].at
    BY <1>2
  <2> HIDE DEF p, r
  <2> QED BY <2>2, <2>3 DEF PointSet
<1>4. r \in Seq(PointSet) /\ Len(r) = n /\ DOMAIN r = 1 .. n
  <2>1. r \in [1 .. n -> PointSet]
    BY <1>1, <1>3 DEF RaisedRange
  <2> HIDE DEF r, n
  <2> QED BY <1>1, <2>1, RowIsSequence
<1> HIDE DEF r, n
<1>5. Ordered(r) /\ r # <<>>
  <2>1. InTime(r)
    BY <1>1, <1>3, <1>4 DEF InTime
  <2>2. \A k \in 1 .. n : r[k].slack \in Slack
    BY <1>1 DEF r
  <2> QED BY <1>1, <1>4, <2>1, <2>2 DEF Ordered
<1>6. Ordered(Distinct(r)) /\ Len(Distinct(r)) \in 1 .. n /\ Firm(ToSet(Distinct(r)), ToSet(r))
  BY <1>4, <1>5, DistinctIs
<1>7. Len(Distinct(r)) \in 1 .. MaxPoints
  BY <1>1, <1>6, TimelineConstants
<1>8. /\ BlockOK(BlockOf(Distinct(r))) /\ Storable(BlockOf(Distinct(r)))
      /\ Effective(BlockOf(Distinct(r))) = Distinct(r)
  BY <1>6, <1>7, NewBlock
<1>9. PointRangeDelta(b, i, j, d) = BlockOf(Distinct(r))
  BY DEF PointRangeDelta, r, RaisedRange
<1> QED BY <1>6, <1>8, <1>9 DEF r

\* The sets of a row together.
AllOf(P, n) == UNION {P[k] : k \in 1 .. n}

\* Firmness in each of a row of sets is firmness in all.
LEMMA FirmTogether ==
  ASSUME NEW n \in Nat, NEW P, NEW Q,
         \A k \in 1 .. n : P[k] \in SUBSET PointSet /\ Firm(Q[k], P[k]),
         \A k, l \in 1 .. n : k < l => Ahead(P[k], P[l])
  PROVE  Firm(AllOf(Q, n), AllOf(P, n))
<1>1. \A k \in 1 .. n : Q[k] \subseteq P[k]
  BY DEF Firm
<1>2. ASSUME NEW k \in 1 .. n, NEW p \in P[k]
      PROVE  \E q \in AllOf(Q, n) :
               /\ q.at <= p.at /\ q.slack = p.slack
               /\ \A r \in AllOf(Q, n) : r.at <= p.at => r.at <= q.at
  <2>1. PICK q \in Q[k] : /\ q.at <= p.at /\ q.slack = p.slack
                          /\ \A r \in Q[k] : r.at <= p.at => r.at <= q.at
    BY DEF Firm
  <2>2. p.at \in Int /\ q.at \in Int /\ q \in P[k]
    BY <1>1, TimesAreIntegers
  <2>3. ASSUME NEW l \in 1 .. n, NEW r \in Q[l], r.at <= p.at PROVE r.at <= q.at
    <3>1. r.at \in Int /\ r \in P[l]
      BY <1>1, TimesAreIntegers
    <3>2. CASE l = k
      BY <2>1, <2>3, <3>2
    <3>3. CASE l < k
      <4>1. r.at < q.at
        BY <2>2, <3>1, <3>3 DEF Ahead
      <4> QED BY <2>2, <3>1, <4>1
    <3>4. ~(k < l)
      <4>1. ASSUME k < l PROVE FALSE
        <5>1. p.at < r.at
          BY <3>1, <4>1 DEF Ahead
        <5> QED BY <2>2, <2>3, <3>1, <5>1
      <4> QED BY <4>1
    <3>5. l = k \/ l < k
      BY <3>4
    <3> QED BY <3>2, <3>3, <3>5
  <2> QED BY <2>1, <2>3 DEF AllOf
<1> QED BY <1>1, <1>2 DEF Firm, AllOf

\* The points of a set, those of an interval raised.
RaisedSet(P, i, d) == {Raised(p, i, d) : p \in P}

\* A timeline whose blocks say what those of another say, raised in an interval.
LEMMA RaisedBlocks ==
  ASSUME NEW bs, Kept(bs), NEW i, NEW d \in Int,
         NEW cs, DOMAIN cs = DOMAIN bs, cs = [k \in DOMAIN bs |-> cs[k]],
         \A k \in DOMAIN bs :
           /\ BlockOK(cs[k]) /\ Storable(cs[k])
           /\ Firm(ToSet(Effective(cs[k])), RaisedSet(ToSet(Effective(bs[k])), i, d))
  PROVE  /\ Kept(cs)
         /\ Firm(Shown(cs), RaisedSet(Shown(bs), i, d))
<1> DEFINE n == Len(bs)
           P == [k \in 1 .. n |-> RaisedSet(ToSet(Effective(bs[k])), i, d)]
           Q == [k \in 1 .. n |-> ToSet(Effective(cs[k]))]
<1>1. TimelineOK(bs) /\ n \in Nat /\ DOMAIN bs = 1 .. n
  BY DEF Kept, TimelineOK
<1>2. \A p \in PointSet : Raised(p, i, d) \in PointSet /\ Raised(p, i, d).at = p.at
  <2>1. SUFFICES ASSUME NEW p \in PointSet PROVE Raised(p, i, d) \in PointSet /\ Raised(p, i, d).at = p.at
    OBVIOUS
  <2>2. p.slack \in Int
    BY DEF PointSet
  <2> QED BY <2>2 DEF Raised, PointSet
<1>3. ASSUME NEW k \in 1 .. n
      PROVE  /\ ToSet(Effective(bs[k])) \in SUBSET PointSet /\ P[k] \in SUBSET PointSet
             /\ \A p \in P[k] : \E x \in DOMAIN bs[k].points : p.at = bs[k].points[x].at
  <2>1. Ordered(Effective(bs[k])) /\ BlockOK(bs[k])
    BY <1>1, KeptPoints
  <2>2. ToSet(Effective(bs[k])) \in SUBSET PointSet
    BY <2>1, OrderedSet
  <2>3. ASSUME NEW p \in P[k] PROVE p \in PointSet /\ \E x \in DOMAIN bs[k].points : p.at = bs[k].points[x].at
    <3>1. PICK q \in ToSet(Effective(bs[k])) : p = Raised(q, i, d)
      BY DEF RaisedSet
    <3>2. PICK x \in DOMAIN bs[k].points : q = Effective(bs[k])[x]
      BY DEF ToSet, Effective
    <3>3. q.at = bs[k].points[x].at
      BY <1>1, <3>2, BlockShows
    <3>4. q \in PointSet
      BY <2>2
    <3> QED BY <1>2, <3>1, <3>3, <3>4
  <2> QED BY <2>2, <2>3
<1>4. ASSUME NEW k \in 1 .. n, NEW l \in 1 .. n, k < l PROVE Ahead(P[k], P[l])
  <2>1. SUFFICES ASSUME NEW p \in P[k], NEW q \in P[l] PROVE p.at < q.at
    BY DEF Ahead
  <2>2. PICK x \in DOMAIN bs[k].points : p.at = bs[k].points[x].at
    BY <1>3
  <2>3. PICK y \in DOMAIN bs[l].points : q.at = bs[l].points[y].at
    BY <1>3
  <2>4. bs[k].points[x].at < bs[l].points[y].at
    BY <1>1, <1>4, BlockShows
  <2> QED BY <2>2, <2>3, <2>4
<1>5. \A k \in 1 .. n : Q[k] \subseteq P[k] /\ Firm(Q[k], P[k])
  <2>1. \A k \in 1 .. n : Firm(Q[k], P[k])
    BY <1>1
  <2> HIDE DEF P, Q, n
  <2> QED BY <2>1 DEF Firm
<1>6. ASSUME NEW k \in 1 .. n, NEW x \in DOMAIN cs[k].points
      PROVE  Effective(cs[k])[x] \in Q[k] /\ Effective(cs[k])[x].at = cs[k].points[x].at
  <2>1. cs[k] \in BlockRecord
    BY <1>1 DEF BlockOK
  <2>2. Effective(cs[k])[x].at = cs[k].points[x].at /\ x \in DOMAIN Effective(cs[k])
    BY <2>1, EffectiveIs
  <2> QED BY <2>2 DEF ToSet
<1>7. Shown(cs) = AllOf(Q, n)
  BY <1>1 DEF Shown, AllOf
<1>8. RaisedSet(Shown(bs), i, d) = AllOf(P, n)
  BY <1>1 DEF Shown, AllOf, RaisedSet
<1> HIDE DEF P, Q, n
<1>9. Firm(Shown(cs), RaisedSet(Shown(bs), i, d))
  <2>1. \A k \in 1 .. n : P[k] \in SUBSET PointSet /\ Firm(Q[k], P[k])
    BY <1>3, <1>5
  <2>2. \A k, l \in 1 .. n : k < l => Ahead(P[k], P[l])
    BY <1>4
  <2>3. Firm(AllOf(Q, n), AllOf(P, n))
    BY <1>1, <2>1, <2>2, FirmTogether
  <2> QED BY <1>7, <1>8, <2>3
<1>10. TimelineOK(cs)
  <2>1. cs \in Seq(BlockRecord) /\ DOMAIN cs = 1 .. n
    <3>1. cs \in [1 .. n -> BlockRecord]
      BY <1>1 DEF BlockOK
    <3> QED BY <1>1, <3>1, RowIsSequence
  <2>2. ASSUME NEW k \in 1 .. n, NEW l \in 1 .. n, k < l PROVE Apart(cs[k], cs[l])
    BY <1>4, <1>5, <1>6, <2>2 DEF Apart, Ahead
  <2> QED BY <1>1, <2>1, <2>2 DEF TimelineOK
<1> QED BY <1>9, <1>10 DEF Kept

\* The order of two points of a timeline is that of their times.
LEMMA PlaceOrder ==
  ASSUME NEW bs, TimelineOK(bs), NEW k \in DOMAIN bs, NEW l \in DOMAIN bs,
         NEW x \in DOMAIN bs[k].points, NEW y \in DOMAIN bs[l].points
  PROVE  /\ bs[k].points[x].at \in Int /\ bs[l].points[y].at \in Int
         /\ bs[k].points[x].at <= bs[l].points[y].at <=> k < l \/ (k = l /\ x <= y)
         /\ bs[k].points[x].at < bs[l].points[y].at <=> k < l \/ (k = l /\ x < y)
<1>1. DOMAIN bs = 1 .. Len(bs) /\ Len(bs) \in Nat /\ BlockOK(bs[k]) /\ BlockOK(bs[l])
  BY ShownIs DEF TimelineOK
<1>2. /\ DOMAIN bs[k].points = 1 .. Len(bs[k].points) /\ DOMAIN bs[l].points = 1 .. Len(bs[l].points)
      /\ bs[k].points[x].at \in Int /\ bs[l].points[y].at \in Int
  BY <1>1, BlockFacts
<1>3. k \in Int /\ l \in Int /\ x \in Int /\ y \in Int
  BY <1>1, <1>2
<1>4. k < l \/ (k = l /\ x < y) => bs[k].points[x].at < bs[l].points[y].at
  BY BlockShows
<1>5. l < k \/ (l = k /\ y < x) => bs[l].points[y].at < bs[k].points[x].at
  BY BlockShows
<1>6. k = l /\ x = y => bs[k].points[x].at = bs[l].points[y].at
  OBVIOUS
<1>7. k < l \/ l < k \/ (k = l /\ (x < y \/ y < x \/ x = y))
  BY <1>3
<1>8. /\ ~(k < l /\ l < k) /\ (k < l => k # l) /\ (l < k => k # l)
      /\ (x < y => x <= y) /\ (x = y => x <= y) /\ ~(x <= y /\ y < x) /\ ~(x < y /\ x = y)
  BY <1>3
<1> DEFINE u == bs[k].points[x].at
           v == bs[l].points[y].at
<1>9. (u < v => u <= v) /\ (u = v => u <= v /\ ~(u < v)) /\ (v < u => ~(u <= v) /\ ~(u < v))
  BY <1>2
<1>10. u <= v <=> k < l \/ (k = l /\ x <= y)
  BY <1>4, <1>5, <1>6, <1>7, <1>8, <1>9
<1>11. u < v <=> k < l \/ (k = l /\ x < y)
  BY <1>4, <1>5, <1>6, <1>7, <1>8, <1>9
<1> QED BY <1>2, <1>10, <1>11

\* Where there is a point at time t, it is the one in force.
LEMMA BoundaryIs ==
  ASSUME NEW bs, TimelineOK(bs), NEW t \in Int, \E p \in Shown(bs) : p.at = t
  PROVE  LET k == HomeOf(bs, t)
             x == PointOf(bs[k], t)
         IN  k \in DOMAIN bs /\ x \in DOMAIN bs[k].points /\ bs[k].points[x].at = t
<1> DEFINE h == HomeOf(bs, t)
<1>1. PICK k \in DOMAIN bs : \E x \in DOMAIN bs[k].points : bs[k].points[x].at = t
  <2>1. PICK p \in Shown(bs) : p.at = t
    OBVIOUS
  <2>2. PICK k \in DOMAIN bs : \E x \in DOMAIN bs[k].points : p = Effective(bs[k])[x]
    BY ShownIs
  <2> QED BY <2>1, <2>2, BlockShows
<1>2. PICK x \in DOMAIN bs[k].points : bs[k].points[x].at = t
  BY <1>1
<1>3. DOMAIN bs = 1 .. Len(bs) /\ Len(bs) \in Nat /\ \A l \in DOMAIN bs : BlockOK(bs[l])
  BY ShownIs DEF TimelineOK
<1>4. h \in 0 .. Len(bs) /\ \A l \in DOMAIN bs : bs[l].points[1].at <= t <=> l <= h
  BY HomeIs
<1>5. /\ 1 \in DOMAIN bs[k].points /\ DOMAIN bs[k].points = 1 .. Len(bs[k].points)
      /\ bs[k].points[1].at <= bs[k].points[x].at
  BY <1>3, BlockFacts
<1> HIDE DEF h
<1>6. k <= h /\ h \in DOMAIN bs
  <2>1. k <= h
    BY <1>2, <1>4, <1>5
  <2> QED BY <1>3, <1>4, <2>1
<1>7. h = k
  <2>1. h <= h /\ 1 \in DOMAIN bs[h].points
    BY <1>3, <1>4, <1>6, BlockFacts
  <2>2. bs[h].points[1].at <= bs[k].points[x].at
    BY <1>2, <1>4, <1>6, <2>1
  <2>3. h < k \/ (h = k /\ 1 <= x)
    BY <1>6, <2>1, <2>2, PlaceOrder
  <2> QED BY <1>3, <1>6, <2>3
<1> DEFINE n == PointOf(bs[k], t)
<1>8. n \in 0 .. Len(bs[k].points) /\ \A i \in DOMAIN bs[k].points : bs[k].points[i].at <= t <=> i <= n
  BY <1>3, PointIs
<1> HIDE DEF n
<1>9. x <= n /\ n \in DOMAIN bs[k].points
  <2>1. bs[k].points[x].at <= t
    BY <1>2
  <2> QED BY <1>5, <1>8, <2>1
<1>10. n <= x
  <2>1. n <= n
    BY <1>8
  <2>2. bs[k].points[n].at <= bs[k].points[x].at
    BY <1>2, <1>8, <1>9, <2>1
  <2>3. k < k \/ (k = k /\ n <= x)
    BY <1>9, <2>2, PlaceOrder
  <2> QED BY <1>3, <2>3
<1>11. n = x
  BY <1>5, <1>8, <1>9, <1>10
<1> QED BY <1>2, <1>7, <1>11 DEF h, n

\* Raising the points from one place to another raises the slack between their times.
LEMMA ChangedIs ==
  ASSUME NEW bs, Kept(bs), NEW i, Spans(i), NEW d \in Slack,
         \E p \in Shown(bs) : p.at = i.from, \E p \in Shown(bs) : p.at = i.to,
         \A t \in i.from .. i.to - 1 : SlackAt(bs, t) + d \in Slack
  PROVE  LET cs == Changed(bs, i, d) IN
         /\ Kept(cs) /\ DOMAIN cs = DOMAIN bs /\ DOMAIN bs # {}
         /\ \A t \in Int : SlackAt(cs, t) = IF i.from <= t /\ t < i.to THEN SlackAt(bs, t) + d
                                            ELSE SlackAt(bs, t)
<1> DEFINE cs == Changed(bs, i, d)
           a == HomeOf(bs, i.from)
           b == HomeOf(bs, i.to)
           x == PointOf(bs[a], i.from)
           z == PointOf(bs[b], i.to)
           In(p) == i.from <= p.at /\ p.at < i.to
           from(k) == IF k = a THEN x ELSE 1
           to(k) == IF k = b THEN z ELSE Len(bs[k].points) + 1
<1>1. /\ TimelineOK(bs) /\ i.from \in Int /\ i.to \in Int /\ i.from < i.to /\ d \in Int
      /\ DOMAIN bs = 1 .. Len(bs) /\ Len(bs) \in Nat
      /\ Shown(bs) \in SUBSET PointSet
  <2>1. d \in Int
    BY TimelineConstants DEF Slack
  <2>2. TimelineOK(bs)
    BY DEF Kept
  <2> QED BY <2>1, <2>2, IntervalFacts, ShownIs
<1>2. /\ a \in DOMAIN bs /\ x \in DOMAIN bs[a].points /\ bs[a].points[x].at = i.from
      /\ b \in DOMAIN bs /\ z \in DOMAIN bs[b].points /\ bs[b].points[z].at = i.to
  BY <1>1, BoundaryIs
<1> HIDE DEF a, b, x, z
<1>3. a < b \/ (a = b /\ x < z)
  BY <1>1, <1>2, PlaceOrder
<1>4. ASSUME NEW k \in DOMAIN bs, NEW y \in DOMAIN bs[k].points
      PROVE  /\ Effective(bs[k])[y] \in Shown(bs) /\ Effective(bs[k])[y] \in PointSet
             /\ In(Effective(bs[k])[y]) <=>
                  (a < k \/ (a = k /\ x <= y)) /\ (k < b \/ (k = b /\ y < z))
  <2>1. /\ Effective(bs[k])[y] \in Shown(bs) /\ Effective(bs[k])[y] \in PointSet
        /\ Effective(bs[k])[y].at = bs[k].points[y].at
    BY <1>1, BlockShows
  <2>2. i.from <= bs[k].points[y].at <=> a < k \/ (a = k /\ x <= y)
    BY <1>1, <1>2, PlaceOrder
  <2>3. bs[k].points[y].at < i.to <=> k < b \/ (k = b /\ y < z)
    BY <1>1, <1>2, PlaceOrder
  <2> QED BY <2>1, <2>2, <2>3
<1>5. ASSUME NEW p \in Shown(bs)
      PROVE  /\ p.slack \in Slack
             /\ In(p) => p.slack + d \in Slack
  <2>1. p.slack \in Slack /\ p \in PointSet /\ p.at \in Int
    BY <1>1, KeptShows, TimesAreIntegers
  <2>2. ASSUME In(p) PROVE p.slack + d \in Slack
    <3>1. Shows(Shown(bs), p.at, p.slack)
      BY <1>1, PointShowsItself
    <3>2. p.slack = SlackAt(bs, p.at)
      BY <1>1, <2>1, <3>1, SlackIs
    <3>3. p.at \in i.from .. i.to - 1
      BY <1>1, <2>1, <2>2
    <3> QED BY <3>2, <3>3
  <2> QED BY <2>1, <2>2
<1>6. \A p \in PointSet : Raised(p, i, d) = IF In(p) THEN [p EXCEPT !.slack = @ + d] ELSE p
  BY DEF Raised, PointSet
<1> HIDE DEF In
<1>7. /\ DOMAIN cs = DOMAIN bs /\ cs = [k \in DOMAIN bs |-> cs[k]]
      /\ \A k \in DOMAIN bs :
           cs[k] = IF k \notin a .. b THEN bs[k]
                   ELSE IF k # b /\ from(k) = 1 THEN LazyDelta(bs[k], d)
                   ELSE PointRangeDelta(bs[k], from(k), to(k), d)
  <2> HIDE DEF Effective
  <2> QED BY DEF Changed, a, b, x, z
<1> HIDE DEF cs
<1>8. ASSUME NEW k \in DOMAIN bs
      PROVE  /\ BlockOK(cs[k]) /\ Storable(cs[k])
             /\ Firm(ToSet(Effective(cs[k])), RaisedSet(ToSet(Effective(bs[k])), i, d))
  <2> DEFINE B == bs[k]
             n == Len(B.points)
             E == Effective(B)
             R == RaisedSet(ToSet(E), i, d)
  <2>1. BlockOK(B) /\ Storable(B) /\ DOMAIN E = DOMAIN B.points
        /\ DOMAIN B.points = 1 .. n /\ n \in Nat \ {0} /\ k \in Int /\ a \in Int /\ b \in Int
    <3>1. BlockOK(B) /\ Storable(B)
      BY KeptPoints
    <3>2. DOMAIN E = DOMAIN B.points
      BY DEF Effective
    <3>3. k \in Int /\ a \in Int /\ b \in Int
      BY <1>1, <1>2
    <3> HIDE DEF B
    <3> QED BY <3>1, <3>2, <3>3, BlockFacts
  <2>2. \A y \in 1 .. n :
          /\ E[y] \in Shown(bs) /\ E[y] \in PointSet
          /\ In(E[y]) <=> (a < k \/ (a = k /\ x <= y)) /\ (k < b \/ (k = b /\ y < z))
    BY <1>4, <2>1
  <2>3. \A y \in 1 .. n : Raised(E[y], i, d) = IF In(E[y]) THEN [E[y] EXCEPT !.slack = @ + d] ELSE E[y]
    BY <1>6, <2>2
  <2>4. R = {Raised(E[y], i, d) : y \in 1 .. n}
    BY <2>1 DEF ToSet, RaisedSet
  <2>5. ASSUME cs[k] = B, \A y \in 1 .. n : ~In(E[y])
        PROVE  /\ BlockOK(cs[k]) /\ Storable(cs[k]) /\ Firm(ToSet(Effective(cs[k])), R)
    <3>1. R = ToSet(E)
      <4> HIDE DEF R, E
      <4> QED BY <2>1, <2>3, <2>4, <2>5 DEF ToSet
    <3>2. \A p \in ToSet(E) : p.at \in Int
      BY <2>1, <2>2, TimesAreIntegers DEF ToSet
    <3> HIDE DEF R
    <3>3. Firm(ToSet(E), ToSet(E))
      BY <3>2 DEF Firm
    <3> QED BY <2>1, <2>5, <3>1, <3>3
  <2>6. CASE k \notin a .. b
    <3>1. \A y \in 1 .. n : ~In(E[y])
      BY <2>1, <2>2, <2>6
    <3>2. cs[k] = B
      BY <1>7, <2>6
    <3> QED BY <2>5, <3>1, <3>2
  <2>7. CASE k \in a .. b /\ k # b /\ from(k) = 1
    <3>1. k < b /\ (a < k \/ (a = k /\ x = 1))
      BY <2>1, <2>7
    <3>2. \A y \in 1 .. n : In(E[y])
      BY <2>1, <2>2, <3>1
    <3>3. cs[k] = LazyDelta(B, d)
      BY <1>7, <2>7
    <3>4. \A y \in DOMAIN B.points : E[y].slack + d \in Slack
      BY <1>5, <2>1, <2>2, <3>2
    <3> DEFINE C == LazyDelta(B, d)
    <3>5. /\ BlockOK(C) /\ Storable(C) /\ DOMAIN C.points = DOMAIN B.points
          /\ \A y \in DOMAIN B.points : Effective(C)[y] = [E[y] EXCEPT !.slack = @ + d]
      BY <2>1, <3>4, LazyIs
    <3>6. DOMAIN Effective(C) = 1 .. n
      BY <2>1, <3>5 DEF Effective
    <3> HIDE DEF C, R, E
    <3>7. \A y \in 1 .. n : Effective(C)[y] = Raised(E[y], i, d)
      BY <2>1, <2>3, <3>2, <3>5
    <3>8. ToSet(Effective(C)) = R
      BY <2>4, <3>6, <3>7 DEF ToSet
    <3>9. \A p \in ToSet(Effective(C)) : p.at \in Int
      <4>1. Effective(C) \in Seq(PointSet)
        BY <3>5, EffectiveIs DEF BlockOK
      <4>2. \A y \in 1 .. n : Effective(C)[y] \in PointSet
        BY <3>6, <4>1
      <4> QED BY <3>6, <4>2, TimesAreIntegers DEF ToSet
    <3>10. Firm(ToSet(Effective(C)), R)
      BY <3>8, <3>9 DEF Firm
    <3> QED BY <3>3, <3>5, <3>10 DEF C, R, E
  <2>8. CASE k \in a .. b /\ ~(k # b /\ from(k) = 1)
    <3>1. cs[k] = PointRangeDelta(B, from(k), to(k), d)
      BY <1>7, <2>8
    <3>2. /\ from(k) \in Int /\ to(k) \in Int
          /\ \A y \in 1 .. n : In(E[y]) <=> from(k) <= y /\ y < to(k)
      <4>1. x \in Int /\ z \in Int
        <5>1. /\ DOMAIN bs[a].points = 1 .. Len(bs[a].points)
              /\ DOMAIN bs[b].points = 1 .. Len(bs[b].points)
          BY <1>1, <1>2, BlockFacts DEF TimelineOK
        <5> QED BY <1>2, <5>1
      <4>2. from(k) \in Int /\ to(k) \in Int
        BY <2>1, <4>1
      <4>3. ASSUME NEW y \in 1 .. n
            PROVE  (a < k \/ (a = k /\ x <= y)) <=> from(k) <= y
        BY <2>1, <2>8, <4>1
      <4>4. ASSUME NEW y \in 1 .. n
            PROVE  (k < b \/ (k = b /\ y < z)) <=> y < to(k)
        BY <2>1, <2>8, <4>1
      <4> HIDE DEF from, to, E
      <4> QED BY <2>2, <4>2, <4>3, <4>4
    <3> DEFINE f == from(k)
               g == to(k)
    <3>3. f \in Int /\ g \in Int /\ cs[k] = PointRangeDelta(B, f, g, d)
          /\ \A y \in 1 .. n : In(E[y]) <=> f <= y /\ y < g
      BY <3>1, <3>2
    <3> HIDE DEF from, to, f, g
    <3>4. CASE f = g
      <4>1. \A y \in 1 .. n : ~In(E[y])
        BY <3>3, <3>4
      <4>2. cs[k] = B
        BY <3>3, <3>4 DEF PointRangeDelta
      <4> QED BY <2>5, <4>1, <4>2
    <3>5. CASE f # g
      <4> DEFINE r == RaisedRange(B, f, g, d)
      <4>1. DOMAIN r = 1 .. n
        BY <2>1 DEF RaisedRange
      <4>2. \A y \in 1 .. n : r[y] = Raised(E[y], i, d)
        <5>1. \A y \in 1 .. n : r[y] = IF f <= y /\ y < g THEN [E[y] EXCEPT !.slack = @ + d] ELSE E[y]
          BY <2>1 DEF RaisedRange
        <5> HIDE DEF r, E
        <5> QED BY <2>3, <3>3, <5>1
      <4>3. \A y \in 1 .. n : r[y].slack \in Slack
        <5>1. SUFFICES ASSUME NEW y \in 1 .. n PROVE Raised(E[y], i, d).slack \in Slack
          BY <4>2
        <5> DEFINE p == E[y]
        <5>2. p \in Shown(bs) /\ p \in PointSet
          BY <2>2
        <5> HIDE DEF p
        <5>3. CASE In(p)
          <6>1. Raised(p, i, d) = [p EXCEPT !.slack = @ + d]
            BY <1>6, <5>2, <5>3
          <6>2. Raised(p, i, d).slack = p.slack + d
            BY <5>2, <6>1 DEF PointSet
          <6> QED BY <1>5, <5>2, <5>3, <6>2 DEF p
        <5>4. CASE ~In(p)
          <6>1. Raised(p, i, d) = p
            BY <1>6, <5>2, <5>4
          <6> QED BY <1>5, <5>2, <6>1 DEF p
        <5> QED BY <5>3, <5>4
      <4>4. ToSet(r) = R
        <5> HIDE DEF r, R, E
        <5> QED BY <2>4, <4>1, <4>2 DEF ToSet
      <4>5. /\ BlockOK(cs[k]) /\ Storable(cs[k]) /\ Firm(ToSet(Effective(cs[k])), ToSet(r))
        <5>1. \A y \in DOMAIN B.points : RaisedRange(B, f, g, d)[y].slack \in Slack
          BY <2>1, <4>3
        <5> HIDE DEF r, B
        <5> QED BY <1>1, <2>1, <3>3, <3>5, <5>1, RangeIs DEF r
      <4> QED BY <4>4, <4>5
    <3> QED BY <3>4, <3>5
  <2> QED BY <2>6, <2>7, <2>8
<1>9. Kept(cs) /\ Firm(Shown(cs), RaisedSet(Shown(bs), i, d))
  BY <1>1, <1>7, <1>8, RaisedBlocks
<1>10. ASSUME NEW t \in Int
       PROVE  SlackAt(cs, t) = IF i.from <= t /\ t < i.to THEN SlackAt(bs, t) + d ELSE SlackAt(bs, t)
  <2> DEFINE v == IF i.from <= t /\ t < i.to THEN SlackAt(bs, t) + d ELSE SlackAt(bs, t)
             P == RaisedSet(Shown(bs), i, d)
  <2>1. Shows(Shown(bs), t, SlackAt(bs, t)) /\ TimelineOK(cs)
    BY <1>1, <1>9, SlackIs DEF Kept
  <2>2. Shows(P, t, v)
    BY <1>1, <2>1, ShowsRaised DEF RaisedSet
  <2>3. P \in SUBSET PointSet
    <3>1. \A p \in PointSet : Raised(p, i, d) \in PointSet
      BY <1>1 DEF Raised, PointSet
    <3> QED BY <1>1, <3>1 DEF RaisedSet
  <2>4. Says(Shown(cs), P)
    BY <1>9, FirmSays
  <2> HIDE DEF P, v
  <2>5. Shows(Shown(cs), t, v)
    BY <2>2, <2>3, <2>4, ShowsThinned DEF Says
  <2> QED BY <2>1, <2>5, SlackIs DEF v
<1> QED BY <1>2, <1>7, <1>9, <1>10 DEF cs

-----------------------------------------------------------------------------
(* Joining neighbours.                                                      *)

\* Firmness is transitive.
LEMMA FirmFirm ==
  ASSUME NEW P \in SUBSET PointSet, NEW Q, NEW R, Firm(Q, P), Firm(R, Q)
  PROVE  Firm(R, P)
<1>1. R \subseteq Q /\ Q \subseteq P /\ \A p \in P : p.at \in Int
  BY TimesAreIntegers DEF Firm
<1>2. ASSUME NEW p \in P
      PROVE  \E r \in R : /\ r.at <= p.at /\ r.slack = p.slack
                          /\ \A x \in R : x.at <= p.at => x.at <= r.at
  <2>1. PICK q \in Q : /\ q.at <= p.at /\ q.slack = p.slack
                       /\ \A x \in Q : x.at <= p.at => x.at <= q.at
    BY DEF Firm
  <2>2. PICK r \in R : /\ r.at <= q.at /\ r.slack = q.slack
                       /\ \A x \in R : x.at <= q.at => x.at <= r.at
    BY DEF Firm
  <2>3. r.at <= p.at
    BY <1>1, <2>1, <2>2
  <2>4. ASSUME NEW x \in R, x.at <= p.at PROVE x.at <= r.at
    BY <1>1, <2>1, <2>2, <2>4
  <2> QED BY <2>1, <2>2, <2>3, <2>4
<1> QED BY <1>1, <1>2 DEF Firm

\* Firmness behind other points is firmness of all of them.
LEMMA FirmBehind ==
  ASSUME NEW L \in SUBSET PointSet, NEW P \in SUBSET PointSet, NEW Q, Firm(Q, P), Ahead(L, P)
  PROVE  Firm(L \cup Q, L \cup P)
<1>1. Q \subseteq P /\ \A p \in L \cup P : p.at \in Int
  BY TimesAreIntegers DEF Firm
<1>2. ASSUME NEW p \in L
      PROVE  \E q \in L \cup Q : /\ q.at <= p.at /\ q.slack = p.slack
                                 /\ \A x \in L \cup Q : x.at <= p.at => x.at <= q.at
  BY <1>1
<1>3. ASSUME NEW p \in P
      PROVE  \E q \in L \cup Q : /\ q.at <= p.at /\ q.slack = p.slack
                                 /\ \A x \in L \cup Q : x.at <= p.at => x.at <= q.at
  <2>1. PICK q \in Q : /\ q.at <= p.at /\ q.slack = p.slack
                       /\ \A x \in Q : x.at <= p.at => x.at <= q.at
    BY DEF Firm
  <2>2. \A x \in L : x.at <= q.at
    BY <1>1 DEF Ahead
  <2> QED BY <2>1, <2>2
<1> QED BY <1>1, <1>2, <1>3 DEF Firm

\* First points that repeat the slack of the last of X can go.
LEMMA GivenUp ==
  ASSUME NEW X \in SUBSET PointSet, NEW l \in X, \A x \in X : x.at <= l.at,
         NEW points, Ordered(points), Ahead(X, ToSet(points)),
         NEW given \in 0 .. Len(points), \A n \in 1 .. given : points[n].slack = l.slack
  PROVE  Firm(X \cup ToSet(SubSeq(points, given + 1, Len(points))), X \cup ToSet(points))
<1> DEFINE gone == SubSeq(points, 1, given)
           rest == SubSeq(points, given + 1, Len(points))
           Q == X \cup ToSet(rest)
<1>1. /\ Ordered(gone) /\ Ordered(rest) /\ Len(gone) = given
      /\ ToSet(points) = ToSet(gone) \cup ToSet(rest)
      /\ Ahead(ToSet(gone), ToSet(rest))
      /\ \A k \in 1 .. given : gone[k] = points[k]
  BY PointsCut
<1> HIDE DEF gone, rest
<1>2. \A p \in X \cup ToSet(points) : p.at \in Int
  BY OrderedSet, TimesAreIntegers
<1>3. ASSUME NEW p \in Q
      PROVE  \E q \in Q : /\ q.at <= p.at /\ q.slack = p.slack
                          /\ \A x \in Q : x.at <= p.at => x.at <= q.at
  BY <1>1, <1>2
<1>4. ASSUME NEW p \in ToSet(gone)
      PROVE  \E q \in Q : /\ q.at <= p.at /\ q.slack = p.slack
                          /\ \A x \in Q : x.at <= p.at => x.at <= q.at
  <2>1. p.slack = l.slack
    <3>1. PICK k \in 1 .. given : p = gone[k]
      BY <1>1, OrderedSet DEF ToSet
    <3> QED BY <1>1, <3>1
  <2>2. l.at <= p.at /\ l \in Q
    <3>1. p \in ToSet(points)
      BY <1>1
    <3>2. l.at < p.at
      BY <3>1 DEF Ahead
    <3> QED BY <1>2, <3>1, <3>2
  <2>3. ASSUME NEW x \in ToSet(rest), x.at <= p.at PROVE FALSE
    <3>1. p.at < x.at
      BY <1>1 DEF Ahead
    <3> QED BY <1>1, <1>2, <2>3, <3>1
  <2> QED BY <2>1, <2>2, <2>3
<1>5. X \cup ToSet(points) = Q \cup ToSet(gone)
  BY <1>1
<1>6. Firm(Q, X \cup ToSet(points))
  BY <1>3, <1>4, <1>5 DEF Firm
<1> QED BY <1>6 DEF rest

\* The first blocks of a timeline, and the last.
LEMMA FrontAndLast ==
  ASSUME NEW bs, Kept(bs), bs # <<>>
  PROVE  /\ Kept(Front(bs)) /\ BlockOK(Last(bs)) /\ Storable(Last(bs))
         /\ Shown(bs) = Shown(Front(bs)) \cup ToSet(Effective(Last(bs)))
         /\ Ahead(Shown(Front(bs)), ToSet(Effective(Last(bs))))
<1> DEFINE n == Len(bs)
<1>1. n \in Nat \ {0} /\ DOMAIN bs = 1 .. n /\ bs \in Seq(BlockRecord)
  BY DEF Kept, TimelineOK
<1>2. n \in DOMAIN bs
  BY <1>1
<1>3. Preceding(bs, n) = Front(bs) /\ bs[n] = Last(bs)
  BY DEF Preceding, Front, Last
<1>4. Behind(bs, n) = <<>>
  BY <1>1 DEF Behind
<1> HIDE DEF n
<1>5. Shown(Behind(bs, n)) = {}
  BY <1>4, NoBlocks
<1>6. /\ Kept(Preceding(bs, n))
      /\ Shown(bs) = Shown(Preceding(bs, n)) \cup ToSet(Effective(bs[n])) \cup Shown(Behind(bs, n))
      /\ Ahead(Shown(Preceding(bs, n)), ToSet(Effective(bs[n])))
  BY <1>2, Parted
<1>7. BlockOK(bs[n]) /\ Storable(bs[n])
  BY <1>2, KeptPoints
<1> QED BY <1>3, <1>5, <1>6, <1>7

\* A block behind a timeline.
LEMMA BlockAppended ==
  ASSUME NEW bs, Kept(bs), NEW b, BlockOK(b), Storable(b),
         Ahead(Shown(bs), ToSet(Effective(b)))
  PROVE  Kept(Append(bs, b)) /\ Shown(Append(bs, b)) = Shown(bs) \cup ToSet(Effective(b))
<1> DEFINE one == <<b>>
<1>1. Kept(one) /\ Shown(one) = ToSet(Effective(b))
  BY OneBlock
<1>2. bs \in Seq(BlockRecord) /\ b \in BlockRecord
  BY DEF Kept, TimelineOK, BlockOK
<1>3. Append(bs, b) = bs \o one
  BY <1>2
<1> HIDE DEF one
<1>4. Kept(bs \o one) /\ Shown(bs \o one) = Shown(bs) \cup Shown(one)
  BY <1>1, Joined
<1> QED BY <1>1, <1>3, <1>4

\* Absorbing a block, the timeline says what both say.
LEMMA AbsorbIs ==
  ASSUME NEW bs, Kept(bs), NEW b, BlockOK(b), Storable(b),
         Ahead(Shown(bs), ToSet(Effective(b)))
  PROVE  /\ Kept(Absorb(bs, b))
         /\ Firm(Shown(Absorb(bs, b)), Shown(bs) \cup ToSet(Effective(b)))
<1> DEFINE points == Effective(b)
           both == Shown(bs) \cup ToSet(points)
           cs == Absorb(bs, b)
<1>1. Kept(<<b>>) /\ Shown(<<b>>) = ToSet(points)
  BY OneBlock
<1>2. Ordered(points) /\ points # <<>> /\ Len(points) \in 1 .. MaxPoints
  <2> DEFINE one == <<b>>
  <2>1. Kept(one) /\ 1 \in DOMAIN one /\ one[1] = b
    BY <1>1
  <2> HIDE DEF one
  <2>2. Ordered(Effective(one[1])) /\ Effective(one[1]) # <<>>
        /\ Len(Effective(one[1])) = Len(one[1].points) /\ Len(one[1].points) \in 1 .. MaxPoints
    BY <2>1, KeptPoints
  <2> QED BY <2>1, <2>2
<1>3. both \in SUBSET PointSet /\ Shown(bs) \in SUBSET PointSet /\ \A p \in both : p.at \in Int
  <2>1. Shown(bs) \in SUBSET PointSet
    BY ShownIs DEF Kept
  <2>2. ToSet(points) \in SUBSET PointSet
    BY <1>2, OrderedSet
  <2>3. both \in SUBSET PointSet
    BY <2>1, <2>2
  <2> HIDE DEF both
  <2> QED BY <2>1, <2>3, TimesAreIntegers
<1>4. CASE bs = <<>>
  <2>1. cs = <<b>>
    BY <1>4 DEF Absorb
  <2>2. Shown(bs) = {}
    BY <1>4, NoBlocks
  <2>3. Shown(<<b>>) = both
    BY <1>1, <2>2
  <2>4. Firm(both, both)
    BY <1>3 DEF Firm
  <2> HIDE DEF both, cs
  <2>5. Kept(cs) /\ Firm(Shown(cs), both)
    BY <1>1, <2>1, <2>3, <2>4
  <2> QED BY <2>5 DEF both, cs
<1>5. CASE bs # <<>>
  <2> DEFINE left == Last(bs)
             front == Front(bs)
             before == Effective(left)
             HasRoom(n) == Len(left.points) + Len(points) - n <= MaxPoints
             GivesUp(n) == points[n + 1].slack = Last(before).slack
             S == {n \in 0 .. Len(points) : n < Len(points) => HasRoom(n) \/ ~GivesUp(n)}
             given == Min(S)
             rest == SubSeq(points, given + 1, Len(points))
  <2>1. /\ Kept(front) /\ BlockOK(left) /\ Storable(left)
        /\ Shown(bs) = Shown(front) \cup ToSet(before)
        /\ Ahead(Shown(front), ToSet(before))
    BY <1>5, FrontAndLast
  <2>2. /\ Ordered(before) /\ Len(before) = Len(left.points) /\ Len(before) \in 1 .. MaxPoints
    <3> DEFINE one == <<left>>
    <3>1. Kept(one) /\ 1 \in DOMAIN one /\ one[1] = left
      BY <2>1, OneBlock
    <3> HIDE DEF one, left
    <3>2. /\ Ordered(Effective(one[1])) /\ Len(Effective(one[1])) = Len(one[1].points)
          /\ Len(one[1].points) \in 1 .. MaxPoints
      BY <3>1, KeptPoints
    <3> QED BY <3>1, <3>2
  <2> HIDE DEF left, front
  <2>3. given \in 0 .. Len(points) /\ \A n \in 0 .. Len(points) : n < given => ~HasRoom(n) /\ GivesUp(n)
    <3>1. S \in SUBSET Nat /\ Len(points) \in S
      BY <1>2
    <3>2. PICK m \in S : \A n \in S : m <= n
      <4> HIDE DEF S
      <4> QED BY <3>1, LeastNatural
    <3>3. given = m
      <4> HIDE DEF S
      <4>1. S \in SUBSET Int /\ IsExtreme("minimum", m, S)
        BY <3>1, <3>2 DEF IsExtreme
      <4>2. "minimum" \in Extremes /\ Extreme("minimum", S) = given
        BY DEF Extremes, Extreme
      <4> HIDE DEF given
      <4> QED BY <4>1, <4>2, ExtremeIs
    <3>4. m \in 0 .. Len(points)
      OBVIOUS
    <3>5. ASSUME NEW n \in 0 .. Len(points), n < m PROVE ~HasRoom(n) /\ GivesUp(n)
      <4>1. n \notin S
        <5> HIDE DEF S
        <5>1. ASSUME n \in S PROVE FALSE
          <6>1. m <= n
            BY <3>2, <5>1
          <6> QED BY <3>4, <3>5, <6>1
        <5> QED BY <5>1
      <4>2. ~(n < Len(points) => HasRoom(n) \/ ~GivesUp(n))
        <5> HIDE DEF HasRoom, GivesUp
        <5> QED BY <4>1
      <4> QED BY <4>2
    <3> HIDE DEF given, HasRoom, GivesUp, S
    <3> QED BY <3>3, <3>4, <3>5
  <2>4. cs = IF rest = <<>> THEN bs
             ELSE IF HasRoom(given) THEN Append(front, BlockOf(Distinct(before \o rest)))
             ELSE Append(bs, IF given = 0 THEN b ELSE BlockOf(rest))
    <3> HIDE DEF Effective, BlockOf, Distinct
    <3> QED BY <1>5 DEF Absorb, left, front
  <2> HIDE DEF given, S, cs
  <2> DEFINE l == Last(before)
  <2>5. l \in ToSet(before) /\ \A p \in Shown(bs) : p.at <= l.at
    <3>1. Len(before) \in DOMAIN before /\ l \in ToSet(before)
      BY <2>2, OrderedSet DEF Last
    <3>2. \A p \in ToSet(before) : p.at <= l.at
      <4>1. SUFFICES ASSUME NEW k \in DOMAIN before PROVE before[k].at <= l.at
        BY DEF ToSet
      <4>2. /\ k = Len(before) \/ k < Len(before)
            /\ before[k].at \in Int /\ before[Len(before)].at \in Int
        BY <2>2, <3>1, OrderedSet
      <4>3. k < Len(before) => before[k].at < before[Len(before)].at
        BY <2>2, <3>1 DEF Ordered, InTime
      <4> QED BY <4>2, <4>3 DEF Last
    <3>3. \A p \in Shown(front) : p.at <= l.at
      <4>1. SUFFICES ASSUME NEW p \in Shown(front) PROVE p.at <= l.at
        OBVIOUS
      <4>2. p.at < l.at
        BY <2>1, <3>1 DEF Ahead
      <4>3. p.at \in Int /\ l.at \in Int
        BY <1>3, <2>1, <3>1
      <4> QED BY <4>2, <4>3
    <3> HIDE DEF l
    <3> QED BY <2>1, <3>1, <3>2, <3>3
  <2>6. \A n \in 1 .. given : points[n].slack = l.slack
    <3>1. SUFFICES ASSUME NEW n \in 1 .. given PROVE points[n].slack = l.slack
      OBVIOUS
    <3>2. n - 1 \in 0 .. Len(points) /\ n - 1 < given /\ n - 1 + 1 = n
      BY <1>2, <2>3
    <3>3. points[n - 1 + 1].slack = l.slack
      BY <2>3, <3>2
    <3> HIDE DEF points, l
    <3> QED BY <3>2, <3>3
  <2> HIDE DEF l, points
  <2>7. /\ Ordered(rest) /\ Len(rest) = Len(points) - given
        /\ ToSet(rest) \subseteq ToSet(points)
        /\ given = 0 => ToSet(rest) = ToSet(points)
    <3>1. LET xs == SubSeq(points, 1, given) IN
          /\ Ordered(xs) /\ Ordered(rest) /\ Len(xs) = given /\ Len(rest) = Len(points) - given
          /\ ToSet(points) = ToSet(xs) \cup ToSet(rest)
      BY <1>2, <2>3, PointsCut
    <3> DEFINE xs == SubSeq(points, 1, given)
    <3>2. given = 0 => ToSet(xs) = {}
      BY <3>1, OrderedSet DEF ToSet
    <3> HIDE DEF xs, rest
    <3> QED BY <3>1, <3>2 DEF xs
  <2>8. Ahead(Shown(bs), ToSet(rest)) /\ Ahead(ToSet(before), ToSet(rest))
        /\ Ahead(Shown(front), ToSet(points)) /\ Ahead(ToSet(before), ToSet(points))
    <3>1. Ahead(Shown(bs), ToSet(points))
      BY DEF points
    <3> HIDE DEF rest
    <3> QED BY <2>1, <2>7, <3>1 DEF Ahead
  <2>9. Firm(Shown(bs) \cup ToSet(rest), both)
    <3>1. l \in Shown(bs) /\ Ahead(Shown(bs), ToSet(points))
      BY <2>1, <2>5 DEF points
    <3> QED BY <1>2, <1>3, <2>3, <2>5, <2>6, <3>1, GivenUp
  <2>10. Firm(ToSet(before) \cup ToSet(rest), ToSet(before) \cup ToSet(points))
    <3>1. ToSet(before) \in SUBSET PointSet /\ \A p \in ToSet(before) : p.at <= l.at
      BY <1>3, <2>1, <2>5
    <3> QED BY <1>2, <2>3, <2>5, <2>6, <2>8, <3>1, GivenUp
  <2> HIDE DEF rest, before, both
  <2>11. CASE rest = <<>>
    <3>1. ToSet(rest) = {}
      BY <2>11 DEF ToSet
    <3>2. cs = bs
      BY <2>4, <2>11
    <3> QED BY <2>9, <3>1, <3>2 DEF both, points, cs
  <2>12. CASE rest # <<>> /\ HasRoom(given)
    <3> DEFINE joined == before \o rest
    <3>1. /\ Ordered(joined) /\ ToSet(joined) = ToSet(before) \cup ToSet(rest)
          /\ Len(joined) = Len(before) + Len(rest)
      BY <2>2, <2>7, <2>8, PointsJoined
    <3> HIDE DEF joined
    <3>2. Len(joined) \in 1 .. MaxPoints
      <4>1. /\ Len(before) \in Nat \ {0} /\ Len(rest) = Len(points) - given /\ given \in 0 .. Len(points)
            /\ Len(points) \in Nat /\ MaxPoints \in Nat
            /\ Len(before) + Len(points) - given <= MaxPoints
        BY <1>2, <2>2, <2>3, <2>7, <2>12, TimelineConstants
      <4> QED BY <3>1, <4>1
    <3>3. joined # <<>>
      BY <3>2
    <3>4. /\ Ordered(Distinct(joined)) /\ Len(Distinct(joined)) \in 1 .. Len(joined)
          /\ Firm(ToSet(Distinct(joined)), ToSet(joined))
      BY <3>1, <3>3, DistinctIs
    <3>5. Len(Distinct(joined)) \in 1 .. MaxPoints
      <4>1. MaxPoints \in Nat /\ Len(joined) \in 1 .. MaxPoints /\ Len(Distinct(joined)) \in 1 .. Len(joined)
        BY <3>2, <3>4, TimelineConstants
      <4> QED BY ONLY <4>1
    <3> DEFINE new == BlockOf(Distinct(joined))
    <3>6. BlockOK(new) /\ Storable(new) /\ Effective(new) = Distinct(joined)
      BY <3>4, <3>5, NewBlock
    <3> HIDE DEF new
    <3>7. ToSet(before) \cup ToSet(points) \in SUBSET PointSet
      BY <1>3, <2>1 DEF both
    <3>8. Firm(ToSet(Effective(new)), ToSet(before) \cup ToSet(points))
      BY <2>10, <3>1, <3>4, <3>6, <3>7, FirmFirm
    <3>9. Ahead(Shown(front), ToSet(before) \cup ToSet(points))
      BY <2>1, <2>8 DEF Ahead
    <3>10. Ahead(Shown(front), ToSet(Effective(new)))
      BY <3>8, <3>9 DEF Ahead, Firm
    <3>11. Kept(Append(front, new)) /\ Shown(Append(front, new)) = Shown(front) \cup ToSet(Effective(new))
      BY <2>1, <3>6, <3>10, BlockAppended
    <3>12. Shown(front) \in SUBSET PointSet
      BY <1>3, <2>1
    <3>13. Firm(Shown(front) \cup ToSet(Effective(new)), Shown(front) \cup (ToSet(before) \cup ToSet(points)))
      BY <3>7, <3>8, <3>9, <3>12, FirmBehind
    <3>14. both = Shown(front) \cup (ToSet(before) \cup ToSet(points))
      BY <2>1 DEF both
    <3>15. cs = Append(front, new)
      BY <2>4, <2>12 DEF new, joined
    <3>16. Kept(cs) /\ Firm(Shown(cs), both)
      BY <3>11, <3>13, <3>14, <3>15
    <3> QED BY <3>16 DEF both, points, cs
  <2>13. CASE rest # <<>> /\ ~HasRoom(given)
    <3> DEFINE new == IF given = 0 THEN b ELSE BlockOf(rest)
    <3>1. BlockOK(new) /\ Storable(new) /\ ToSet(Effective(new)) = ToSet(rest)
      <4>1. CASE given = 0
        BY <2>7, <4>1 DEF points
      <4>2. CASE given # 0
        <5>1. Len(rest) \in 1 .. MaxPoints
          <6>1. Len(rest) # 0
            BY <2>7, <2>13 DEF Ordered
          <6> QED BY <1>2, <2>3, <2>7, <6>1, TimelineConstants
        <5>2. BlockOK(BlockOf(rest)) /\ Storable(BlockOf(rest)) /\ Effective(BlockOf(rest)) = rest
          BY <2>7, <5>1, NewBlock
        <5> QED BY <4>2, <5>2
      <4> QED BY <4>1, <4>2
    <3>2. cs = Append(bs, new)
      BY <2>4, <2>13
    <3> HIDE DEF new
    <3>3. Kept(cs) /\ Shown(cs) = Shown(bs) \cup ToSet(rest)
      BY <2>8, <3>1, <3>2, BlockAppended
    <3>4. Kept(cs) /\ Firm(Shown(cs), both)
      BY <2>9, <3>3
    <3> QED BY <3>4 DEF both, points, cs
  <2> QED BY <2>11, <2>12, <2>13
<1> QED BY <1>4, <1>5

\* Firmness before other points is firmness of all of them.
LEMMA FirmBefore ==
  ASSUME NEW P \in SUBSET PointSet, NEW R \in SUBSET PointSet, NEW Q, Firm(Q, P), Ahead(P, R)
  PROVE  Firm(Q \cup R, P \cup R)
<1>1. Q \subseteq P /\ \A p \in P \cup R : p.at \in Int
  BY TimesAreIntegers DEF Firm
<1>2. ASSUME NEW p \in P
      PROVE  \E q \in Q \cup R : /\ q.at <= p.at /\ q.slack = p.slack
                                 /\ \A x \in Q \cup R : x.at <= p.at => x.at <= q.at
  <2>1. PICK q \in Q : /\ q.at <= p.at /\ q.slack = p.slack
                       /\ \A x \in Q : x.at <= p.at => x.at <= q.at
    BY DEF Firm
  <2>2. \A x \in R : ~(x.at <= p.at)
    BY <1>1 DEF Ahead
  <2> QED BY <2>1, <2>2
<1>3. ASSUME NEW p \in R
      PROVE  \E q \in Q \cup R : /\ q.at <= p.at /\ q.slack = p.slack
                                 /\ \A x \in Q \cup R : x.at <= p.at => x.at <= q.at
  BY <1>1
<1> QED BY <1>1, <1>2, <1>3 DEF Firm

\* Only points of no slack before all others are dropped at the start.
LEMMA LeadingZeroIs ==
  ASSUME NEW points, Ordered(points)
  PROVE  LET rest == WithoutLeadingZero(points) IN
         /\ Ordered(rest) /\ Len(rest) <= Len(points) /\ Len(rest) \in Nat
         /\ ToSet(rest) \subseteq ToSet(points)
         /\ \A p \in ToSet(points) \ ToSet(rest) : p.slack = 0 /\ \A q \in ToSet(rest) : p.at < q.at
<1> DEFINE rest == WithoutLeadingZero(points)
<1>1. points \in Seq(PointSet) /\ DOMAIN points = 1 .. Len(points) /\ Len(points) \in Nat
  BY DEF Ordered
<1>2. CASE points # <<>> /\ points[1].slack = 0
  <2>1. rest = SubSeq(points, 2, Len(points)) /\ Len(points) >= 1
    <3>1. Tail(points) = SubSeq(points, 2, Len(points))
      BY <1>1, <1>2, TailIsSubSeq
    <3>2. rest = Tail(points)
      BY <1>2 DEF WithoutLeadingZero
    <3> QED BY <1>1, <1>2, <3>1, <3>2
  <2> DEFINE xs == SubSeq(points, 1, 1)
             ys == SubSeq(points, 1 + 1, Len(points))
  <2>2. /\ Ordered(xs) /\ Ordered(ys) /\ Len(xs) = 1 /\ Len(ys) = Len(points) - 1
        /\ ToSet(points) = ToSet(xs) \cup ToSet(ys)
        /\ Ahead(ToSet(xs), ToSet(ys))
        /\ \A k \in 1 .. 1 : xs[k] = points[k]
    <3>1. 1 \in 0 .. Len(points)
      BY <1>1, <2>1
    <3> QED BY <3>1, PointsCut
  <2>3. rest = ys
    <3>1. 1 + 1 = 2
      OBVIOUS
    <3> HIDE DEF rest
    <3> QED BY <2>1, <3>1
  <2> HIDE DEF xs, ys, rest
  <2>4. ToSet(xs) = {points[1]}
    <3>1. DOMAIN xs = {1} /\ xs[1] = points[1]
      BY <2>2, OrderedSet
    <3> QED BY <3>1 DEF ToSet
  <2>5. \A p \in ToSet(points) \ ToSet(rest) : p.slack = 0 /\ \A q \in ToSet(rest) : p.at < q.at
    BY <1>2, <2>2, <2>3, <2>4 DEF Ahead
  <2>6. Len(rest) <= Len(points) /\ Len(rest) \in Nat
    BY <1>1, <2>1, <2>2, <2>3
  <2>7. ToSet(rest) \subseteq ToSet(points) /\ Ordered(rest)
    BY <2>2, <2>3
  <2> QED BY <2>5, <2>6, <2>7 DEF rest
<1>3. CASE ~(points # <<>> /\ points[1].slack = 0)
  <2>1. rest = points
    BY <1>3 DEF WithoutLeadingZero
  <2> QED BY <1>1, <2>1
<1> QED BY <1>2, <1>3

\* The loop over the blocks, block by block.
LEMMA RebalanceRuns ==
  ASSUME NEW ordered, NEW n \in Nat
  PROVE  LET done[k \in 0 .. n] == IF k = 0 THEN <<>> ELSE Absorb(done[k - 1], ordered[k])
         IN  done[0] = <<>> /\ \A k \in 1 .. n : done[k] = Absorb(done[k - 1], ordered[k])
<1> DEFINE Step(done, k) == IF k = 0 THEN <<>> ELSE Absorb(done[k - 1], ordered[k])
           Runs(done, k) == done = [l \in 0 .. k |-> Step(done, l)]
           Bad == {k \in 0 .. n : ~ \E done : Runs(done, k)}
<1> HIDE DEF Absorb
<1>1. Bad = {}
  <2>1. SUFFICES ASSUME Bad # {} PROVE FALSE
    OBVIOUS
  <2>2. PICK m \in Bad : \A k \in Bad : m <= k
    <3>1. Bad \in SUBSET Nat
      OBVIOUS
    <3> HIDE DEF Bad
    <3> QED BY <2>1, <3>1, LeastNatural
  <2>3. m # 0
    <3>1. Runs([l \in 0 .. 0 |-> <<>>], 0)
      OBVIOUS
    <3> QED BY <3>1
  <2>4. m - 1 \in 0 .. n /\ m - 1 \notin Bad /\ m \in 1 .. n
    <3>1. m \in 0 .. n /\ m - 1 \in 0 .. n
      BY <2>3
    <3> HIDE DEF Bad
    <3> QED BY <2>2, <3>1
  <2>5. PICK done : Runs(done, m - 1)
    BY <2>4
  <2> DEFINE longer == [l \in 0 .. m |-> IF l = m THEN Absorb(done[m - 1], ordered[m]) ELSE done[l]]
  <2>6. ASSUME NEW l \in 0 .. m PROVE longer[l] = Step(longer, l)
    <3>1. CASE l = m
      <4>1. m - 1 \in 0 .. m /\ m - 1 # m /\ m # 0
        BY <2>4
      <4>2. longer[m - 1] = done[m - 1] /\ longer[m] = Absorb(done[m - 1], ordered[m])
        BY <2>4, <4>1
      <4> HIDE DEF longer
      <4> QED BY <3>1, <4>1, <4>2
    <3>2. CASE l # m
      <4>1. l \in 0 .. m - 1 /\ (l # 0 => l - 1 \in 0 .. m /\ l - 1 # m)
        BY <2>4, <3>2
      <4>2. longer[l] = done[l] /\ (l # 0 => longer[l - 1] = done[l - 1])
        BY <3>2, <4>1
      <4>3. done[l] = Step(done, l)
        BY <2>5, <4>1
      <4> HIDE DEF longer
      <4> QED BY <4>2, <4>3
    <3> QED BY <3>1, <3>2
  <2>7. Runs(longer, m)
    <3> HIDE DEF Step
    <3>1. longer = [l \in 0 .. m |-> longer[l]]
      OBVIOUS
    <3> HIDE DEF longer
    <3> QED BY <2>6, <3>1
  <2> HIDE DEF Runs
  <2> QED BY <2>7
<1>2. \E done : Runs(done, n)
  <2>1. n \in 0 .. n
    OBVIOUS
  <2>2. n \notin Bad
    <3> HIDE DEF Bad
    <3> QED BY <1>1
  <2> HIDE DEF Runs
  <2> QED BY <2>1, <2>2
<1> DEFINE chosen == CHOOSE done : Runs(done, n)
<1>3. Runs(chosen, n)
  <2> HIDE DEF Runs
  <2> QED BY <1>2
<1>4. chosen[0] = <<>> /\ \A k \in 1 .. n : chosen[k] = Absorb(chosen[k - 1], ordered[k])
  <2> HIDE DEF chosen
  <2>1. \A k \in 0 .. n : chosen[k] = Step(chosen, k)
    BY <1>3
  <2>2. 0 \in 0 .. n /\ \A k \in 1 .. n : k \in 0 .. n /\ k # 0
    OBVIOUS
  <2> QED BY <2>1, <2>2
<1> QED BY <1>4

\* The points of the first blocks.
Upto(bs, n) == UNION {ToSet(Effective(bs[k])) : k \in 1 .. n}

\* What the first blocks show grows block by block to what all show.
LEMMA UptoIs ==
  ASSUME NEW bs, Kept(bs)
  PROVE  /\ Upto(bs, 0) = {} /\ Upto(bs, Len(bs)) = Shown(bs)
         /\ \A k \in 1 .. Len(bs) :
              /\ Upto(bs, k) = Upto(bs, k - 1) \cup ToSet(Effective(bs[k]))
              /\ Upto(bs, k) \in SUBSET PointSet
              /\ ToSet(Effective(bs[k])) \in SUBSET PointSet
              /\ Ahead(Upto(bs, k - 1), ToSet(Effective(bs[k])))
<1>1. DOMAIN bs = 1 .. Len(bs) /\ Len(bs) \in Nat /\ Shown(bs) \in SUBSET PointSet
  BY ShownIs DEF Kept
<1>2. Upto(bs, 0) = {}
  BY DEF Upto
<1>3. Upto(bs, Len(bs)) = Shown(bs)
  BY <1>1 DEF Upto, Shown
<1>4. ASSUME NEW k \in 1 .. Len(bs)
      PROVE  /\ Upto(bs, k) = Upto(bs, k - 1) \cup ToSet(Effective(bs[k]))
             /\ Upto(bs, k) \in SUBSET PointSet
             /\ ToSet(Effective(bs[k])) \in SUBSET PointSet
             /\ Ahead(Upto(bs, k - 1), ToSet(Effective(bs[k])))
  <2>1. \A l : l \in 1 .. k <=> l \in 1 .. k - 1 \/ l = k
    BY <1>1
  <2>2. Upto(bs, k) = Upto(bs, k - 1) \cup ToSet(Effective(bs[k]))
    BY <2>1 DEF Upto
  <2>3. Upto(bs, k) \subseteq Shown(bs)
    <3>1. \A l \in 1 .. k : l \in DOMAIN bs
      BY <1>1
    <3> QED BY <3>1 DEF Upto, Shown
  <2>4. Ahead(Upto(bs, k - 1), ToSet(Effective(bs[k])))
    <3>1. k \in DOMAIN bs /\ \A l \in 1 .. k - 1 : l \in DOMAIN bs /\ l < k
      BY <1>1
    <3>2. SUFFICES ASSUME NEW l \in 1 .. k - 1, NEW p \in ToSet(Effective(bs[l])),
                          NEW q \in ToSet(Effective(bs[k]))
                   PROVE  p.at < q.at
      BY DEF Ahead, Upto
    <3>3. PICK i \in DOMAIN bs[l].points : p = Effective(bs[l])[i]
      BY DEF ToSet, Effective
    <3>4. PICK j \in DOMAIN bs[k].points : q = Effective(bs[k])[j]
      BY DEF ToSet, Effective
    <3>5. TimelineOK(bs)
      BY DEF Kept
    <3>6. p.at = bs[l].points[i].at /\ q.at = bs[k].points[j].at
      BY <3>1, <3>3, <3>4, <3>5, BlockShows
    <3>7. bs[l].points[i].at < bs[k].points[j].at
      BY <3>1, <3>5, PlaceOrder
    <3> QED BY <3>6, <3>7
  <2> QED BY <1>1, <2>2, <2>3, <2>4
<1> QED BY <1>2, <1>3, <1>4

\* Combining neighbours changes no slack.
LEMMA NormalizeIs ==
  ASSUME NEW bs, Kept(bs), bs # <<>>
  PROVE  LET cs == NormalizeAndRebalance(bs) IN
         Kept(cs) /\ \A t \in Int : SlackAt(cs, t) = SlackAt(bs, t)
<1> DEFINE points == WithoutLeadingZero(Effective(bs[1]))
           first == IF points = <<>> THEN <<>> ELSE <<BlockOf(points)>>
           ordered == first \o Tail(bs)
           n == Len(ordered)
<1>1. TimelineOK(bs) /\ bs \in Seq(BlockRecord) /\ 1 \in DOMAIN bs /\ Len(bs) \in Nat
      /\ Shown(bs) \in SUBSET PointSet
  BY ShownIs DEF Kept, TimelineOK
<1>2. /\ Ordered(Effective(bs[1])) /\ Len(Effective(bs[1])) \in 1 .. MaxPoints
  BY <1>1, KeptPoints
<1>3. /\ Ordered(points) /\ Len(points) <= Len(Effective(bs[1])) /\ Len(points) \in Nat
      /\ ToSet(points) \subseteq ToSet(Effective(bs[1]))
      /\ \A p \in ToSet(Effective(bs[1])) \ ToSet(points) :
           p.slack = 0 /\ \A q \in ToSet(points) : p.at < q.at
  BY <1>2, LeadingZeroIs
<1>4. /\ Kept(Behind(bs, 1))
      /\ Shown(bs) = ToSet(Effective(bs[1])) \cup Shown(Behind(bs, 1))
      /\ Ahead(ToSet(Effective(bs[1])), Shown(Behind(bs, 1)))
  <2>1. Preceding(bs, 1) = <<>>
    BY <1>1 DEF Preceding
  <2>2. Shown(Preceding(bs, 1)) = {}
    BY <2>1, NoBlocks
  <2>3. /\ Kept(Behind(bs, 1))
        /\ Shown(bs) = Shown(Preceding(bs, 1)) \cup ToSet(Effective(bs[1])) \cup Shown(Behind(bs, 1))
        /\ Ahead(ToSet(Effective(bs[1])), Shown(Behind(bs, 1)))
    BY <1>1, Parted
  <2> QED BY <2>2, <2>3
<1>5. Behind(bs, 1) = Tail(bs)
  <2>1. Tail(bs) = SubSeq(bs, 2, Len(bs))
    BY <1>1, TailIsSubSeq
  <2>2. 1 + 1 = 2
    OBVIOUS
  <2> QED BY <2>1, <2>2 DEF Behind
<1> HIDE DEF points
<1>6. Kept(first) /\ Shown(first) = ToSet(points)
  <2>1. CASE points = <<>>
    <3>1. ToSet(points) = {}
      BY <2>1 DEF ToSet
    <3> QED BY <2>1, <3>1, NoBlocks
  <2>2. CASE points # <<>>
    <3>1. Len(points) \in 1 .. MaxPoints
      <4>1. Len(points) # 0
        BY <1>3, <2>2 DEF Ordered
      <4>2. MaxPoints \in Nat
        BY TimelineConstants
      <4> QED BY <1>2, <1>3, <4>1, <4>2
    <3>2. BlockOK(BlockOf(points)) /\ Storable(BlockOf(points)) /\ Effective(BlockOf(points)) = points
      BY <1>3, <3>1, NewBlock
    <3> QED BY <2>2, <3>2, OneBlock
  <2> QED BY <2>1, <2>2
<1> HIDE DEF first
<1>7. Kept(ordered) /\ Shown(ordered) = ToSet(points) \cup Shown(Behind(bs, 1))
  <2>1. Ahead(Shown(first), Shown(Behind(bs, 1)))
    BY <1>3, <1>4, <1>6 DEF Ahead
  <2>2. Kept(first \o Behind(bs, 1))
        /\ Shown(first \o Behind(bs, 1)) = Shown(first) \cup Shown(Behind(bs, 1))
    BY <1>4, <1>6, <2>1, Joined
  <2> QED BY <1>5, <1>6, <2>2
<1> HIDE DEF ordered, n
<1>8. Says(Shown(ordered), Shown(bs))
  <2>1. Shown(ordered) \subseteq Shown(bs)
    BY <1>3, <1>4, <1>7
  <2>2. ASSUME NEW p \in Shown(bs) \ Shown(ordered) PROVE Shows(Shown(ordered), p.at, p.slack)
    <3>1. p \in ToSet(Effective(bs[1])) \ ToSet(points)
      BY <1>4, <1>7, <2>2
    <3>2. p.slack = 0 /\ \A q \in Shown(ordered) : p.at < q.at
      BY <1>3, <1>4, <1>7, <3>1 DEF Ahead
    <3> QED BY <3>2 DEF Shows
  <2> QED BY <2>1, <2>2 DEF Says
<1> DEFINE done[k \in 0 .. n] == IF k = 0 THEN <<>> ELSE Absorb(done[k - 1], ordered[k])
<1>9. NormalizeAndRebalance(bs) = done[n]
  BY DEF NormalizeAndRebalance, n, ordered, first, points
<1>10. n \in Nat /\ DOMAIN ordered = 1 .. n
  BY <1>7, ShownIs DEF Kept, n
<1>11. done[0] = <<>> /\ \A k \in 1 .. n : done[k] = Absorb(done[k - 1], ordered[k])
  BY <1>10, RebalanceRuns
<1> HIDE DEF done
<1> DEFINE Good(k) == Kept(done[k]) /\ Firm(Shown(done[k]), Upto(ordered, k))
           Bad == {k \in 0 .. n : ~Good(k)}
<1>12. Bad = {}
  <2>1. SUFFICES ASSUME Bad # {} PROVE FALSE
    OBVIOUS
  <2>2. PICK m \in Bad : \A k \in Bad : m <= k
    <3>1. Bad \in SUBSET Nat
      OBVIOUS
    <3> HIDE DEF Bad
    <3> QED BY <2>1, <3>1, LeastNatural
  <2>3. m \in 0 .. n /\ ~Good(m)
    OBVIOUS
  <2>4. m # 0
    <3>1. Kept(done[0]) /\ Shown(done[0]) = {} /\ Upto(ordered, 0) = {}
      BY <1>7, <1>11, NoBlocks, UptoIs
    <3>2. Good(0)
      BY <3>1 DEF Firm
    <3> HIDE DEF Good
    <3> QED BY <2>3, <3>2
  <2>5. m \in 1 .. n /\ m - 1 \in 0 .. n /\ ~(m <= m - 1)
    BY <1>10, <2>3, <2>4
  <2>6. Kept(done[m - 1]) /\ Firm(Shown(done[m - 1]), Upto(ordered, m - 1))
    BY <2>2, <2>5
  <2> HIDE DEF Bad, Good
  <2> DEFINE b == ordered[m]
             B == ToSet(Effective(b))
             U == Upto(ordered, m - 1)
             d == done[m - 1]
  <2>7. /\ BlockOK(b) /\ Storable(b)
        /\ Upto(ordered, m) = U \cup B /\ Upto(ordered, m) \in SUBSET PointSet /\ B \in SUBSET PointSet
        /\ Ahead(U, B)
    <3>1. BlockOK(b) /\ Storable(b)
      BY <1>7, <1>10, <2>5, KeptPoints
    <3>2. m \in 1 .. Len(ordered)
      BY <2>5 DEF n
    <3> QED BY <1>7, <3>1, <3>2, UptoIs
  <2>8. Kept(d) /\ Firm(Shown(d), U) /\ U \in SUBSET PointSet
    BY <2>6, <2>7
  <2>9. done[m] = Absorb(d, b)
    BY <1>11, <2>5
  <2> HIDE DEF b, B, U, d
  <2>10. Ahead(Shown(d), ToSet(Effective(b)))
    BY <2>7, <2>8 DEF Ahead, Firm, B
  <2>11. Kept(done[m]) /\ Firm(Shown(done[m]), Shown(d) \cup B)
    BY <2>7, <2>8, <2>9, <2>10, AbsorbIs DEF B
  <2>12. Firm(Shown(d) \cup B, U \cup B)
    BY <2>7, <2>8, FirmBefore
  <2>13. Firm(Shown(done[m]), U \cup B)
    BY <2>7, <2>11, <2>12, FirmFirm
  <2>14. Good(m)
    BY <2>7, <2>11, <2>13 DEF Good
  <2> QED BY <2>3, <2>14
<1>13. Kept(done[n]) /\ Firm(Shown(done[n]), Shown(ordered))
  <2>1. n \in 0 .. n
    BY <1>10
  <2> HIDE DEF Good
  <2>2. Good(n)
    BY <1>12, <2>1 DEF Bad
  <2>3. Upto(ordered, n) = Shown(ordered)
    BY <1>7, UptoIs DEF n
  <2> QED BY <2>2, <2>3 DEF Good
<1>14. ASSUME NEW t \in Int PROVE SlackAt(done[n], t) = SlackAt(bs, t)
  <2>1. Says(Shown(done[n]), Shown(ordered))
    BY <1>13, FirmSays
  <2>2. Says(Shown(done[n]), Shown(bs))
    BY <1>1, <1>8, <2>1, SaysSame
  <2>3. Shows(Shown(bs), t, SlackAt(bs, t)) /\ TimelineOK(done[n])
    BY <1>1, <1>13, SlackIs DEF Kept
  <2>4. Shows(Shown(done[n]), t, SlackAt(bs, t))
    BY <1>1, <2>2, <2>3, ShowsThinned DEF Says
  <2> QED BY <2>3, <2>4, SlackIs
<1> QED BY <1>9, <1>13, <1>14

\* A delta that fits is added to the slack of its interval, and to no other.
LEMMA ApplyIs ==
  ASSUME NEW bs, Kept(bs), NEW i, Spans(i), NEW d \in Slack,
         \A t \in i.from .. i.to - 1 : SlackAt(bs, t) + d \in Slack
  PROVE  LET cs == ApplyDelta(bs, i, d) IN
         /\ Kept(cs)
         /\ \A t \in Int : SlackAt(cs, t) = IF i.from <= t /\ t < i.to THEN SlackAt(bs, t) + d
                                            ELSE SlackAt(bs, t)
<1> DEFINE es == EnsureBoundary(bs, i.to)
           fs == EnsureBoundary(es, i.from)
           gs == Changed(fs, i, d)
           cs == NormalizeAndRebalance(gs)
<1>1. i.from \in Time /\ i.to \in Time /\ i.from \in Int /\ i.to \in Int
  BY IntervalFacts
<1>2. /\ Kept(es) /\ \E p \in Shown(es) : p.at = i.to
      /\ \A s \in Int : SlackAt(es, s) = SlackAt(bs, s)
  BY <1>1, BoundaryIsEnsured
<1> HIDE DEF es
<1>3. /\ Kept(fs) /\ Shown(es) \subseteq Shown(fs) /\ \E p \in Shown(fs) : p.at = i.from
      /\ \A s \in Int : SlackAt(fs, s) = SlackAt(es, s)
  BY <1>1, <1>2, BoundaryIsEnsured
<1>4. /\ \E p \in Shown(fs) : p.at = i.to
      /\ \A s \in Int : SlackAt(fs, s) = SlackAt(bs, s)
  BY <1>2, <1>3
<1>5. \A t \in i.from .. i.to - 1 : SlackAt(fs, t) + d \in Slack
  BY <1>1, <1>4
<1> HIDE DEF fs
<1>6. /\ Kept(gs) /\ DOMAIN gs # {}
      /\ \A t \in Int : SlackAt(gs, t) = IF i.from <= t /\ t < i.to THEN SlackAt(fs, t) + d
                                         ELSE SlackAt(fs, t)
  BY <1>3, <1>4, <1>5, ChangedIs
<1>7. gs # <<>>
  <2> HIDE DEF gs
  <2> QED BY <1>6
<1> HIDE DEF gs
<1>8. Kept(cs) /\ \A t \in Int : SlackAt(cs, t) = SlackAt(gs, t)
  BY <1>6, <1>7, NormalizeIs
<1>9. cs = ApplyDelta(bs, i, d)
  BY DEF ApplyDelta, cs, gs, fs, es
<1> HIDE DEF cs
<1> QED BY <1>4, <1>6, <1>8, <1>9

\* A sequence of points, and then those of a block.
Followed(points, b) == points \o Effective(b)

\* The points of all blocks, block by block.
LEMMA PointsRun ==
  ASSUME NEW bs, NEW n \in Nat
  PROVE  LET points[k \in 0 .. n] == IF k = 0 THEN <<>> ELSE points[k - 1] \o Effective(bs[k])
         IN  points[0] = <<>> /\ \A k \in 1 .. n : points[k] = points[k - 1] \o Effective(bs[k])
<1> DEFINE Step(points, k) == IF k = 0 THEN <<>> ELSE Followed(points[k - 1], bs[k])
           Runs(points, k) == points = [l \in 0 .. k |-> Step(points, l)]
           Bad == {k \in 0 .. n : ~ \E points : Runs(points, k)}
<1>1. Bad = {}
  <2>1. SUFFICES ASSUME Bad # {} PROVE FALSE
    OBVIOUS
  <2>2. PICK m \in Bad : \A k \in Bad : m <= k
    <3>1. Bad \in SUBSET Nat
      OBVIOUS
    <3> HIDE DEF Bad
    <3> QED BY <2>1, <3>1, LeastNatural
  <2>3. m # 0
    <3>1. Runs([l \in 0 .. 0 |-> <<>>], 0)
      OBVIOUS
    <3> QED BY <3>1
  <2>4. m - 1 \in 0 .. n /\ m - 1 \notin Bad /\ m \in 1 .. n
    <3>1. m \in 0 .. n /\ m - 1 \in 0 .. n
      BY <2>3
    <3> HIDE DEF Bad
    <3> QED BY <2>2, <3>1
  <2>5. PICK points : Runs(points, m - 1)
    BY <2>4
  <2> DEFINE longer == [l \in 0 .. m |-> IF l = m THEN Followed(points[m - 1], bs[m]) ELSE points[l]]
  <2>6. ASSUME NEW l \in 0 .. m PROVE longer[l] = Step(longer, l)
    <3>1. CASE l = m
      <4>1. m - 1 \in 0 .. m /\ m - 1 # m /\ m # 0
        BY <2>4
      <4>2. longer[m - 1] = points[m - 1] /\ longer[m] = Followed(points[m - 1], bs[m])
        BY <2>4, <4>1
      <4> HIDE DEF longer
      <4> QED BY <3>1, <4>1, <4>2
    <3>2. CASE l # m
      <4>1. l \in 0 .. m - 1 /\ (l # 0 => l - 1 \in 0 .. m /\ l - 1 # m)
        BY <2>4, <3>2
      <4>2. longer[l] = points[l] /\ (l # 0 => longer[l - 1] = points[l - 1])
        BY <3>2, <4>1
      <4>3. points[l] = Step(points, l)
        BY <2>5, <4>1
      <4> HIDE DEF longer
      <4> QED BY <4>2, <4>3
    <3> QED BY <3>1, <3>2
  <2>7. Runs(longer, m)
    <3> HIDE DEF Step
    <3>1. longer = [l \in 0 .. m |-> longer[l]]
      OBVIOUS
    <3> HIDE DEF longer
    <3> QED BY <2>6, <3>1
  <2> HIDE DEF Runs
  <2> QED BY <2>7
<1>2. \E points : Runs(points, n)
  <2>1. n \in 0 .. n
    OBVIOUS
  <2>2. n \notin Bad
    <3> HIDE DEF Bad
    <3> QED BY <1>1
  <2> HIDE DEF Runs
  <2> QED BY <2>1, <2>2
<1> DEFINE chosen == CHOOSE points : Runs(points, n)
<1>3. Runs(chosen, n)
  <2> HIDE DEF Runs
  <2> QED BY <1>2
<1>4. chosen[0] = <<>> /\ \A k \in 1 .. n : chosen[k] = Followed(chosen[k - 1], bs[k])
  <2> HIDE DEF chosen
  <2>1. \A k \in 0 .. n : chosen[k] = Step(chosen, k)
    BY <1>3
  <2>2. 0 \in 0 .. n /\ \A k \in 1 .. n : k \in 0 .. n /\ k # 0
    OBVIOUS
  <2> QED BY <2>1, <2>2
<1> QED BY <1>4 DEF Followed

\* The timelines between the windows of a claim.
TakenOf(bs, windows, d, n) ==
  LET taken[k \in 0 .. n] == IF k = 0 THEN bs ELSE ApplyDelta(taken[k - 1], windows[k], d)
  IN  taken

\* The windows of a claim, window by window.
LEMMA WindowsRun ==
  ASSUME NEW bs, NEW windows, NEW d, NEW n \in Nat
  PROVE  LET taken == TakenOf(bs, windows, d, n)
         IN  taken[0] = bs /\ \A k \in 1 .. n : taken[k] = ApplyDelta(taken[k - 1], windows[k], d)
<1> DEFINE Step(taken, k) == IF k = 0 THEN bs ELSE ApplyDelta(taken[k - 1], windows[k], d)
           Runs(taken, k) == taken = [l \in 0 .. k |-> Step(taken, l)]
           Bad == {k \in 0 .. n : ~ \E taken : Runs(taken, k)}
<1> HIDE DEF ApplyDelta
<1>1. Bad = {}
  <2>1. SUFFICES ASSUME Bad # {} PROVE FALSE
    OBVIOUS
  <2>2. PICK m \in Bad : \A k \in Bad : m <= k
    <3>1. Bad \in SUBSET Nat
      OBVIOUS
    <3> HIDE DEF Bad
    <3> QED BY <2>1, <3>1, LeastNatural
  <2>3. m # 0
    <3>1. Runs([l \in 0 .. 0 |-> bs], 0)
      OBVIOUS
    <3> QED BY <3>1
  <2>4. m - 1 \in 0 .. n /\ m - 1 \notin Bad /\ m \in 1 .. n
    <3>1. m \in 0 .. n /\ m - 1 \in 0 .. n
      BY <2>3
    <3> HIDE DEF Bad
    <3> QED BY <2>2, <3>1
  <2>5. PICK taken : Runs(taken, m - 1)
    BY <2>4
  <2> DEFINE longer == [l \in 0 .. m |-> IF l = m THEN ApplyDelta(taken[m - 1], windows[m], d) ELSE taken[l]]
  <2>6. ASSUME NEW l \in 0 .. m PROVE longer[l] = Step(longer, l)
    <3>1. CASE l = m
      <4>1. m - 1 \in 0 .. m /\ m - 1 # m /\ m # 0
        BY <2>4
      <4>2. longer[m - 1] = taken[m - 1] /\ longer[m] = ApplyDelta(taken[m - 1], windows[m], d)
        BY <2>4, <4>1
      <4> HIDE DEF longer
      <4> QED BY <3>1, <4>1, <4>2
    <3>2. CASE l # m
      <4>1. l \in 0 .. m - 1 /\ (l # 0 => l - 1 \in 0 .. m /\ l - 1 # m)
        BY <2>4, <3>2
      <4>2. longer[l] = taken[l] /\ (l # 0 => longer[l - 1] = taken[l - 1])
        BY <3>2, <4>1
      <4>3. taken[l] = Step(taken, l)
        BY <2>5, <4>1
      <4> HIDE DEF longer
      <4> QED BY <4>2, <4>3
    <3> QED BY <3>1, <3>2
  <2>7. Runs(longer, m)
    <3> HIDE DEF Step
    <3>1. longer = [l \in 0 .. m |-> longer[l]]
      OBVIOUS
    <3> HIDE DEF longer
    <3> QED BY <2>6, <3>1
  <2> HIDE DEF Runs
  <2> QED BY <2>7
<1>2. \E taken : Runs(taken, n)
  <2>1. n \in 0 .. n
    OBVIOUS
  <2>2. n \notin Bad
    <3> HIDE DEF Bad
    <3> QED BY <1>1
  <2> HIDE DEF Runs
  <2> QED BY <2>1, <2>2
<1> DEFINE chosen == CHOOSE taken : Runs(taken, n)
<1>3. Runs(chosen, n)
  <2> HIDE DEF Runs
  <2> QED BY <1>2
<1>4. chosen[0] = bs /\ \A k \in 1 .. n : chosen[k] = ApplyDelta(chosen[k - 1], windows[k], d)
  <2> HIDE DEF chosen
  <2>1. \A k \in 0 .. n : chosen[k] = Step(chosen, k)
    BY <1>3
  <2>2. 0 \in 0 .. n /\ \A k \in 1 .. n : k \in 0 .. n /\ k # 0
    OBVIOUS
  <2> QED BY <2>1, <2>2
<1>5. TakenOf(bs, windows, d, n) = chosen
  BY Zenon DEF TakenOf
<1> HIDE DEF chosen
<1> QED BY <1>4, <1>5

-----------------------------------------------------------------------------
(* The points at which slack changes.                                       *)

\* Every point says something that was not said before it.
Terse(points) ==
  /\ \A n \in DOMAIN points : n > 1 => points[n - 1].slack # points[n].slack
  /\ 1 \in DOMAIN points => points[1].slack # 0

\* Without repetitions, no points are no points.
LEMMA DistinctOfNone == Distinct(<<>>) = <<>>
<1> DEFINE K == Needed(<<>>)
           list == Listed(K)
           D == Distinct(<<>>)
<1>1. K = {}
  BY DEF Needed
<1>2. IsListing(list, K)
  <2>1. IsFiniteSet(K) /\ K \in SUBSET Int
    BY <1>1, FS_EmptySet
  <2> HIDE DEF K
  <2> QED BY <2>1, ListedInOrder
<1>3. list \in Seq(K) /\ Len(list) = 0
  BY <1>1, <1>2, FS_EmptySet DEF IsListing
<1>4. DOMAIN list = {}
  <2> HIDE DEF list, K
  <2> QED BY <1>3
<1>5. D = [k \in DOMAIN list |-> <<>>[list[k]]]
  BY DEF Distinct, Needed
<1> HIDE DEF D, list
<1>6. D \in [1 .. 0 -> {}]
  BY <1>4, <1>5
<1>7. D \in Seq({}) /\ Len(D) = 0
  BY <1>6, RowIsSequence
<1>8. D = <<>>
  BY <1>7
<1> QED BY <1>8 DEF D

\* Points without repetitions and leading zero say the same, and nothing twice.
LEMMA CondensedIs ==
  ASSUME NEW points, Ordered(points)
  PROVE  LET rest == WithoutLeadingZero(Distinct(points)) IN
         Ordered(rest) /\ Terse(rest) /\ Says(ToSet(rest), ToSet(points))
<1> DEFINE kept == Distinct(points)
           rest == WithoutLeadingZero(kept)
<1>1. CASE points = <<>>
  <2>1. rest = points
    BY <1>1, DistinctOfNone DEF WithoutLeadingZero
  <2>2. DOMAIN points = {}
    BY <1>1
  <2> HIDE DEF rest
  <2> QED BY <2>1, <2>2 DEF Terse, Says, rest
<1>2. CASE points # <<>>
  <2>1. /\ Ordered(kept) /\ kept # <<>> /\ Len(kept) \in 1 .. Len(points)
        /\ Firm(ToSet(kept), ToSet(points))
        /\ \A n \in DOMAIN kept : n > 1 => kept[n - 1].slack # kept[n].slack
    BY <1>2, DistinctIs
  <2> HIDE DEF kept
  <2>2. /\ Ordered(rest) /\ Len(rest) <= Len(kept) /\ Len(rest) \in Nat
        /\ ToSet(rest) \subseteq ToSet(kept)
        /\ \A p \in ToSet(kept) \ ToSet(rest) : p.slack = 0 /\ \A q \in ToSet(rest) : p.at < q.at
    BY <2>1, LeadingZeroIs
  <2>3. Says(ToSet(rest), ToSet(points))
    <3> HIDE DEF rest
    <3>1. Says(ToSet(rest), ToSet(kept))
      BY <2>2 DEF Says, Shows
    <3> QED BY <2>1, <3>1, FirmSays, SaysSame, OrderedSet
  <2>4. kept \in Seq(PointSet) /\ DOMAIN kept = 1 .. Len(kept) /\ Len(kept) \in Nat \ {0}
    BY <2>1 DEF Ordered
  <2>5. Terse(rest)
    <3>1. CASE kept[1].slack = 0
      <4>1. Tail(kept) = SubSeq(kept, 2, Len(kept))
        BY <2>1, <2>4, TailIsSubSeq
      <4>2. rest = Tail(kept)
        BY <2>1, <3>1 DEF WithoutLeadingZero
      <4> DEFINE ys == SubSeq(kept, 2, Len(kept))
                 m == Len(kept) - 1
      <4>3. /\ DOMAIN ys = 1 .. m /\ m \in Nat
            /\ \A k \in 1 .. m : ys[k] = kept[k + 1]
        BY <2>4
      <4>4. rest = ys
        BY <4>1, <4>2
      <4> HIDE DEF rest, ys
      <4>5. ASSUME NEW n \in DOMAIN rest, n > 1 PROVE rest[n - 1].slack # rest[n].slack
        <5>1. n \in 1 .. m /\ n - 1 \in 1 .. m /\ n + 1 \in DOMAIN kept /\ n - 1 + 1 = n
              /\ n + 1 > 1 /\ n + 1 - 1 = n
          BY <2>4, <4>3, <4>4, <4>5
        <5>2. rest[n] = kept[n + 1] /\ rest[n - 1] = kept[n]
          BY <4>3, <4>4, <5>1
        <5> DEFINE l == n + 1
        <5>3. l \in DOMAIN kept /\ l > 1 /\ l - 1 = n /\ rest[n] = kept[l]
          BY <5>1, <5>2
        <5> HIDE DEF l
        <5> QED BY <2>1, <5>2, <5>3
      <4>6. ASSUME 1 \in DOMAIN rest PROVE rest[1].slack # 0
        <5>1. 2 \in DOMAIN kept /\ rest[1] = kept[2] /\ 2 > 1 /\ 2 - 1 = 1
          BY <2>4, <4>3, <4>4, <4>6
        <5> QED BY <2>1, <3>1, <5>1
      <4> QED BY <4>5, <4>6 DEF Terse
    <3>2. CASE kept[1].slack # 0
      <4>1. rest = kept
        BY <3>2 DEF WithoutLeadingZero
      <4> HIDE DEF rest
      <4> QED BY <2>1, <3>2, <4>1 DEF Terse
    <3> QED BY <3>1, <3>2
  <2> QED BY <2>2, <2>3, <2>5 DEF rest, kept
<1> QED BY <1>1, <1>2

\* Such points are at the times at which the slack they show changes.
LEMMA TerseIs ==
  ASSUME NEW points, Ordered(points), Terse(points), NEW p \in PointSet
  PROVE  p \in ToSet(points) <=> /\ Shows(ToSet(points), p.at, p.slack)
                                 /\ ~Shows(ToSet(points), p.at - 1, p.slack)
<1> DEFINE P == ToSet(points)
<1>1. /\ P \in SUBSET PointSet /\ points \in Seq(PointSet) /\ DOMAIN points = 1 .. Len(points)
      /\ Len(points) \in Nat /\ \A i \in DOMAIN points : points[i] \in P /\ points[i].at \in Int
      /\ \A q \in P : q.at \in Int
  BY OrderedSet, TimesAreIntegers DEF Ordered
<1>2. \A q \in P : \E i \in DOMAIN points : q = points[i]
  BY DEF ToSet
<1>3. \A i, j \in DOMAIN points : i < j => points[i].at < points[j].at
  BY DEF Ordered, InTime
<1>4. OnePerTime(P)
  BY <1>1, <1>2, <1>3 DEF OnePerTime
<1>5. p.at \in Int /\ p.at - 1 \in Int /\ p.at - 1 < p.at
  BY TimesAreIntegers
<1> HIDE DEF P
<1>6. ASSUME p \in P PROVE Shows(P, p.at, p.slack) /\ ~Shows(P, p.at - 1, p.slack)
  <2>1. PICK k \in DOMAIN points : p = points[k]
    BY <1>2, <1>6
  <2>2. Shows(P, p.at, p.slack)
    BY <1>1, <1>6, PointShowsItself
  <2>3. \E v : Shows(P, p.at - 1, v) /\ v # p.slack
    <3>1. CASE k = 1
      <4>1. \A q \in P : p.at - 1 < q.at
        <5>1. SUFFICES ASSUME NEW j \in DOMAIN points PROVE p.at - 1 < points[j].at
          BY <1>2
        <5>2. j = 1 \/ 1 < j
          BY <1>1
        <5> QED BY <1>1, <1>3, <2>1, <3>1, <5>2
      <4>2. p.slack # 0
        BY <2>1, <3>1 DEF Terse
      <4> QED BY <4>1, <4>2 DEF Shows
    <3>2. CASE k # 1
      <4>1. k - 1 \in DOMAIN points /\ k - 1 < k /\ k > 1
        BY <1>1, <3>2
      <4>2. points[k - 1].slack # p.slack
        BY <2>1, <4>1 DEF Terse
      <4>3. points[k - 1].at <= p.at - 1
        BY <1>1, <1>3, <2>1, <4>1
      <4>4. ASSUME NEW j \in DOMAIN points, points[j].at <= p.at - 1
            PROVE  points[j].at <= points[k - 1].at
        <5>1. ~(k < j) /\ j # k
          BY <1>1, <1>3, <1>5, <2>1, <4>4
        <5>2. j = k - 1 \/ j < k - 1
          BY <1>1, <5>1
        <5> QED BY <1>1, <1>3, <4>1, <5>2
      <4>5. Shows(P, p.at - 1, points[k - 1].slack)
        BY <1>1, <1>2, <4>1, <4>3, <4>4 DEF Shows
      <4> QED BY <4>2, <4>5
    <3> QED BY <3>1, <3>2
  <2> QED BY <1>1, <1>4, <1>5, <2>2, <2>3, ShowsOnce
<1>7. ASSUME Shows(P, p.at, p.slack), ~Shows(P, p.at - 1, p.slack) PROVE p \in P
  <2>1. ASSUME \A q \in P : p.at < q.at PROVE \A q \in P : p.at - 1 < q.at
    BY <1>1, <1>5, <2>1
  <2>2. PICK q \in P : q.at <= p.at /\ q.slack = p.slack /\ \A r \in P : r.at <= p.at => r.at <= q.at
    BY <1>7, <2>1 DEF Shows
  <2>3. q.at = p.at
    <3>1. SUFFICES ASSUME q.at # p.at PROVE FALSE
      OBVIOUS
    <3>2. q.at <= p.at - 1 /\ \A r \in P : r.at <= p.at - 1 => r.at <= p.at
      BY <1>1, <1>5, <2>2, <3>1
    <3> QED BY <1>7, <2>2, <3>2 DEF Shows
  <2>4. q = p
    BY <1>1, <2>2, <2>3 DEF PointSet
  <2> QED BY <2>4
<1> QED BY <1>6, <1>7 DEF P

\* Points in order are told by their set: each is where it is in any other sequence.
LEMMA StartsLike ==
  ASSUME NEW xs, NEW ys, Ordered(xs), Ordered(ys), ToSet(xs) = ToSet(ys)
  PROVE  \A k \in DOMAIN xs : k \in DOMAIN ys /\ xs[k] = ys[k]
<1> DEFINE Bad == {k \in DOMAIN xs : ~(k \in DOMAIN ys /\ xs[k] = ys[k])}
<1>1. /\ DOMAIN xs = 1 .. Len(xs) /\ Len(xs) \in Nat /\ DOMAIN ys = 1 .. Len(ys) /\ Len(ys) \in Nat
      /\ \A i \in DOMAIN xs : xs[i].at \in Int /\ \E j \in DOMAIN ys : ys[j] = xs[i]
      /\ \A i \in DOMAIN ys : ys[i].at \in Int /\ \E j \in DOMAIN xs : xs[j] = ys[i]
  <2>1. /\ DOMAIN xs = 1 .. Len(xs) /\ Len(xs) \in Nat /\ DOMAIN ys = 1 .. Len(ys) /\ Len(ys) \in Nat
        /\ \A i \in DOMAIN xs : xs[i] \in ToSet(xs) /\ xs[i].at \in Int
        /\ \A i \in DOMAIN ys : ys[i] \in ToSet(ys) /\ ys[i].at \in Int
    BY OrderedSet
  <2> QED BY <2>1 DEF ToSet
<1>2. /\ \A i, j \in DOMAIN xs : i < j => xs[i].at < xs[j].at
      /\ \A i, j \in DOMAIN ys : i < j => ys[i].at < ys[j].at
  BY DEF Ordered, InTime
<1>3. /\ \A i \in DOMAIN xs : ~(xs[i].at < xs[i].at)
      /\ \A i \in DOMAIN ys : ~(ys[i].at < ys[i].at)
  <2>1. \A x \in Int : ~(x < x)
    OBVIOUS
  <2> QED BY <1>1, <2>1
<1>4. /\ \A i \in DOMAIN xs : i \in Nat /\ 1 <= i
      /\ \A i \in DOMAIN ys : i \in Nat /\ i <= Len(ys)
      /\ \A i \in Nat : 1 <= i /\ i <= Len(ys) => i \in DOMAIN ys
  BY <1>1
<1>5. Bad = {}
  <2>1. SUFFICES ASSUME Bad # {} PROVE FALSE
    OBVIOUS
  <2>2. PICK k \in Bad : \A l \in Bad : k <= l
    <3>1. Bad \in SUBSET Nat
      BY <1>1
    <3> HIDE DEF Bad
    <3> QED BY <2>1, <3>1, LeastNatural
  <2>3. k \in DOMAIN xs /\ ~(k \in DOMAIN ys /\ xs[k] = ys[k])
    OBVIOUS
  <2>4. \A l \in DOMAIN xs : l < k => l \in DOMAIN ys /\ xs[l] = ys[l]
    <3>1. ASSUME NEW l \in DOMAIN xs, l < k PROVE ~(k <= l)
      <4>1. l \in Nat /\ k \in Nat
        <5> HIDE DEF Bad
        <5> QED BY <1>4, <2>3
      <4> HIDE DEF Bad
      <4> QED BY <3>1, <4>1
    <3>2. ASSUME NEW l \in DOMAIN xs, l < k PROVE l \notin Bad
      <4> HIDE DEF Bad
      <4> QED BY <2>2, <3>1, <3>2
    <3>3. \A l \in DOMAIN xs : l \notin Bad => l \in DOMAIN ys /\ xs[l] = ys[l]
      OBVIOUS
    <3> HIDE DEF Bad
    <3> QED BY <3>2, <3>3
  <2> HIDE DEF Bad
  <2>5. PICK j \in DOMAIN ys : ys[j] = xs[k]
    BY <1>1, <2>3
  <2>6. ~(j < k) /\ j # k
    <3>1. j < k => j \in DOMAIN xs
      BY <1>1, <2>3
    <3>2. j < k => xs[j] = xs[k] /\ xs[j].at < xs[k].at
      BY <1>2, <2>3, <2>4, <2>5, <3>1
    <3>3. ~(xs[k].at < xs[k].at)
      BY <1>3, <2>3
    <3>4. j < k => FALSE
      BY <3>2, <3>3, Zenon
    <3>5. j # k
      BY <2>3, <2>5
    <3> QED BY <3>4, <3>5, Zenon
  <2>7. k \in DOMAIN ys /\ k < j
    <3> DEFINE n == Len(ys)
    <3>1. k \in Nat /\ 1 <= k /\ j \in Nat /\ j <= n /\ n \in Nat
      BY <1>1, <1>4, <2>3
    <3> HIDE DEF n
    <3>2. k < j /\ k <= n
      BY <2>6, <3>1
    <3> QED BY <1>4, <3>1, <3>2 DEF n
  <2>8. PICK l \in DOMAIN xs : xs[l] = ys[k]
    BY <1>1, <2>7
  <2>9. ~(l < k)
    <3>1. l < k => l \in DOMAIN ys /\ ys[l] = ys[k] /\ ys[l].at < ys[k].at
      BY <1>2, <2>4, <2>7, <2>8
    <3>2. ~(ys[k].at < ys[k].at)
      BY <1>3, <2>7
    <3>3. l < k => FALSE
      BY <3>1, <3>2, Zenon
    <3> QED BY <3>3, Zenon
  <2>10. ys[k].at < ys[j].at
    BY <1>2, <2>7
  <2>11. xs[k].at <= xs[l].at
    <3>1. k = l \/ k < l
      <4>1. k \in Nat /\ l \in Nat
        BY <1>4, <2>3
      <4> QED BY <2>9, <4>1
    <3>2. xs[k].at \in Int /\ (k < l => xs[k].at < xs[l].at) /\ xs[l].at \in Int
      BY <1>1, <1>2, <2>3
    <3> QED BY <3>1, <3>2
  <2>12. ys[j].at <= ys[k].at /\ ys[j].at \in Int /\ ys[k].at \in Int
    <3>1. xs[k].at = ys[j].at /\ xs[l].at = ys[k].at
      BY <2>5, <2>8
    <3> QED BY <1>1, <2>7, <2>11, <3>1
  <2> QED BY <2>10, <2>12
<1> HIDE DEF Bad
<1>6. \A k \in DOMAIN xs : k \notin Bad
  BY <1>5
<1> QED BY <1>6 DEF Bad

\* Points in order of time are determined by the set of them.
LEMMA ToldBySet ==
  ASSUME NEW xs, NEW ys, Ordered(xs), Ordered(ys), ToSet(xs) = ToSet(ys)
  PROVE  xs = ys
<1>1. /\ xs \in Seq(PointSet) /\ ys \in Seq(PointSet)
      /\ DOMAIN xs = 1 .. Len(xs) /\ Len(xs) \in Nat /\ DOMAIN ys = 1 .. Len(ys) /\ Len(ys) \in Nat
  BY DEF Ordered
<1>2. \A k \in DOMAIN xs : k \in DOMAIN ys /\ xs[k] = ys[k]
  BY StartsLike
<1>3. \A k \in DOMAIN ys : k \in DOMAIN xs /\ xs[k] = ys[k]
  BY StartsLike
<1>4. Len(xs) = Len(ys)
  <2>1. Len(xs) <= Len(ys)
    BY <1>1, <1>2
  <2>2. Len(ys) <= Len(xs)
    BY <1>1, <1>3
  <2>3. Len(xs) \in Nat /\ Len(ys) \in Nat
    BY <1>1
  <2> DEFINE n == Len(xs)
             m == Len(ys)
  <2>4. n \in Nat /\ m \in Nat /\ n <= m /\ m <= n
    BY <2>1, <2>2, <2>3
  <2> HIDE DEF n, m
  <2>5. n = m
    BY <2>4
  <2> QED BY <2>5 DEF n, m
<1> QED BY <1>1, <1>2, <1>4

\* The effective points of a timeline are at the times at which its slack changes.
LEMMA EffectivePointsIs ==
  ASSUME NEW bs, Kept(bs)
  PROVE  /\ Ordered(EffectivePoints(bs))
         /\ \A t \in Int : Shows(ToSet(EffectivePoints(bs)), t, SlackAt(bs, t))
         /\ \A p \in PointSet : p \in ToSet(EffectivePoints(bs)) <=>
              SlackAt(bs, p.at) = p.slack /\ SlackAt(bs, p.at - 1) # p.slack
<1> DEFINE n == Len(bs)
           points[k \in 0 .. n] == IF k = 0 THEN <<>> ELSE points[k - 1] \o Effective(bs[k])
           all == points[n]
           rest == WithoutLeadingZero(Distinct(all))
<1>1. n \in Nat /\ DOMAIN bs = 1 .. n /\ Shown(bs) \in SUBSET PointSet /\ OnePerTime(Shown(bs))
  BY ShownIs DEF Kept
<1>2. EffectivePoints(bs) = rest
  BY DEF EffectivePoints
<1>3. points[0] = <<>> /\ \A k \in 1 .. n : points[k] = points[k - 1] \o Effective(bs[k])
  BY <1>1, PointsRun
<1> HIDE DEF points
<1> DEFINE Good(k) == Ordered(points[k]) /\ ToSet(points[k]) = Upto(bs, k)
           Bad == {k \in 0 .. n : ~Good(k)}
<1>4. Bad = {}
  <2>1. SUFFICES ASSUME Bad # {} PROVE FALSE
    OBVIOUS
  <2>2. PICK m \in Bad : \A k \in Bad : m <= k
    <3>1. Bad \in SUBSET Nat
      OBVIOUS
    <3> HIDE DEF Bad
    <3> QED BY <2>1, <3>1, LeastNatural
  <2>3. m \in 0 .. n /\ ~Good(m)
    OBVIOUS
  <2>4. m # 0
    <3>1. DOMAIN points[0] = {} /\ points[0] \in Seq(PointSet)
      BY <1>3
    <3>2. Ordered(points[0]) /\ ToSet(points[0]) = {}
      BY <3>1 DEF Ordered, InTime, ToSet
    <3>3. Good(0)
      BY <3>2, UptoIs
    <3> HIDE DEF Good
    <3> QED BY <2>3, <3>3
  <2>5. m \in 1 .. n /\ m - 1 \in 0 .. n /\ ~(m <= m - 1)
    BY <1>1, <2>3, <2>4
  <2>6. Ordered(points[m - 1]) /\ ToSet(points[m - 1]) = Upto(bs, m - 1)
    BY <2>2, <2>5
  <2> HIDE DEF Bad, Good
  <2>7. Ordered(Effective(bs[m]))
    BY <1>1, <2>5, KeptPoints
  <2>8. /\ Upto(bs, m) = Upto(bs, m - 1) \cup ToSet(Effective(bs[m]))
        /\ Ahead(Upto(bs, m - 1), ToSet(Effective(bs[m])))
    BY <2>5, UptoIs
  <2> DEFINE xs == points[m - 1]
             ys == Effective(bs[m])
  <2>9. Ordered(xs \o ys) /\ ToSet(xs \o ys) = ToSet(xs) \cup ToSet(ys)
    <3>1. Ordered(xs) /\ Ordered(ys) /\ Ahead(ToSet(xs), ToSet(ys))
      BY <2>6, <2>7, <2>8
    <3> HIDE DEF xs, ys
    <3> QED BY <3>1, PointsJoined
  <2>10. points[m] = xs \o ys
    BY <1>3, <2>5
  <2>11. Ordered(points[m]) /\ ToSet(points[m]) = Upto(bs, m)
    <3>1. ToSet(xs) = Upto(bs, m - 1) /\ ys = Effective(bs[m])
      BY <2>6
    <3> DEFINE zs == xs \o ys
    <3>2. Ordered(zs) /\ ToSet(zs) = ToSet(xs) \cup ToSet(ys) /\ points[m] = zs
      BY <2>9, <2>10
    <3> HIDE DEF xs, ys, zs
    <3> QED BY <2>8, <3>1, <3>2
  <2> QED BY <2>3, <2>11 DEF Good
<1>5. Ordered(all) /\ ToSet(all) = Shown(bs)
  <2>1. n \in 0 .. n
    BY <1>1
  <2> HIDE DEF Good, n
  <2>2. Good(n)
    BY <1>4, <2>1 DEF Bad
  <2>3. Upto(bs, n) = Shown(bs)
    BY UptoIs DEF n
  <2> QED BY <2>2, <2>3 DEF Good
<1> HIDE DEF all
<1>6. Ordered(rest) /\ Terse(rest) /\ Says(ToSet(rest), Shown(bs))
  BY <1>5, CondensedIs
<1> HIDE DEF rest
<1> DEFINE P == ToSet(rest)
<1>7. P \in SUBSET PointSet /\ OnePerTime(P)
  BY <1>1, <1>6 DEF Says, OnePerTime
<1>8. ASSUME NEW t \in Int PROVE Shows(P, t, SlackAt(bs, t))
  <2>1. Shows(Shown(bs), t, SlackAt(bs, t))
    BY SlackIs DEF Kept
  <2>2. P \in SUBSET Shown(bs) /\ \A p \in Shown(bs) \ P : Shows(P, p.at, p.slack)
    BY <1>6 DEF Says
  <2> HIDE DEF P
  <2> QED BY <1>1, <2>1, <2>2, ShowsThinned
<1>9. ASSUME NEW p \in PointSet
      PROVE  p \in P <=> SlackAt(bs, p.at) = p.slack /\ SlackAt(bs, p.at - 1) # p.slack
  <2>1. p.at \in Int /\ p.at - 1 \in Int
    BY TimesAreIntegers
  <2>2. p \in P <=> Shows(P, p.at, p.slack) /\ ~Shows(P, p.at - 1, p.slack)
    BY <1>6, TerseIs
  <2> HIDE DEF P
  <2> DEFINE u == p.at - 1
  <2>3. u \in Int /\ p.at \in Int /\ u = p.at - 1
    BY <2>1
  <2> HIDE DEF u
  <2>4. Shows(P, p.at, p.slack) <=> SlackAt(bs, p.at) = p.slack
    BY <1>7, <1>8, <2>3, ShowsOnce
  <2>5. Shows(P, u, p.slack) <=> SlackAt(bs, u) = p.slack
    BY <1>7, <1>8, <2>3, ShowsOnce
  <2> QED BY <2>2, <2>3, <2>4, <2>5
<1> QED BY <1>2, <1>6, <1>8, <1>9

\* Timelines of the same slack have the same effective points.
LEMMA SamePoints ==
  ASSUME NEW xs, NEW ys, Kept(xs), Kept(ys),
         \A t \in -1 .. Horizon : SlackAt(xs, t) = SlackAt(ys, t)
  PROVE  EffectivePoints(xs) = EffectivePoints(ys)
<1>1. /\ Ordered(EffectivePoints(xs)) /\ Ordered(EffectivePoints(ys))
      /\ ToSet(EffectivePoints(xs)) \in SUBSET PointSet
      /\ ToSet(EffectivePoints(ys)) \in SUBSET PointSet
  BY EffectivePointsIs, OrderedSet
<1>2. ASSUME NEW p \in PointSet
      PROVE  p \in ToSet(EffectivePoints(xs)) <=> p \in ToSet(EffectivePoints(ys))
  <2>1. SlackAt(xs, p.at) = SlackAt(ys, p.at) /\ SlackAt(xs, p.at - 1) = SlackAt(ys, p.at - 1)
    <3> DEFINE u == p.at
    <3>1. u \in 0 .. Horizon
      BY TimesAreIntegers DEF Time
    <3>2. u \in -1 .. Horizon /\ u - 1 \in -1 .. Horizon
      BY <3>1, TimelineConstants
    <3> QED BY <3>2
  <2> QED BY <2>1, EffectivePointsIs
<1>3. ToSet(EffectivePoints(xs)) = ToSet(EffectivePoints(ys))
  BY <1>1, <1>2
<1> QED BY <1>1, <1>3, ToldBySet

\* slack_bound decides whether a delta fits at every time of the interval.
LEMMA FitsIs ==
  ASSUME NEW bs, TimelineOK(bs), NEW i, Spans(i), NEW d \in Int
  PROVE  Fits(bs, i, d) <=> \A t \in i.from .. i.to - 1 : SlackAt(bs, t) + d \in Slack
<1> DEFINE S == SlackOf(bs, i)
           least == SlackBound(bs, i, "minimum")
           most == SlackBound(bs, i, "maximum")
<1>1. /\ least \in S /\ \A x \in S : least <= x
      /\ most \in S /\ \A x \in S : most >= x
  BY BoundIs DEF IsExtreme, Extremes
<1>2. /\ S \subseteq Int
      /\ \A t \in i.from .. i.to - 1 : SlackAt(bs, t) \in S
      /\ \A x \in S : \E t \in i.from .. i.to - 1 : x = SlackAt(bs, t)
  <2>1. \A t \in i.from .. i.to - 1 : t \in Int
    BY IntervalFacts
  <2>2. \A t \in i.from .. i.to - 1 : SlackAt(bs, t) \in Int
    BY <2>1, SlackIs
  <2> QED BY <2>2 DEF SlackOf
<1>3. Fits(bs, i, d) <=> least + d \in Slack /\ most + d \in Slack
  BY DEF Fits, Extremes
<1> HIDE DEF S, least, most
<1>4. ASSUME least + d \in Slack, most + d \in Slack, NEW t \in i.from .. i.to - 1
      PROVE  SlackAt(bs, t) + d \in Slack
  <2> DEFINE x == SlackAt(bs, t)
  <2>1. x \in Int /\ least <= x /\ most >= x /\ least \in Int /\ most \in Int
    BY <1>1, <1>2
  <2> HIDE DEF x
  <2>2. x + d \in Slack
    BY <1>4, <2>1, TimelineConstants DEF Slack
  <2> QED BY <2>2 DEF x
<1>5. ASSUME \A t \in i.from .. i.to - 1 : SlackAt(bs, t) + d \in Slack
      PROVE  least + d \in Slack /\ most + d \in Slack
  BY <1>1, <1>2, <1>5
<1> QED BY <1>3, <1>4, <1>5

-----------------------------------------------------------------------------
(* Admission, window by window.                                             *)

\* Where admission cuts an interval.
Cuts(bs, i) ==
  {i.from, i.to} \cup
  {p.at : p \in {q \in ToSet(EffectivePoints(bs)) : i.from < q.at /\ q.at < i.to}}

\* The windows of an interval follow one another from its start to its end.
LEMMA WindowsIs ==
  ASSUME NEW bs, Kept(bs), NEW i, Spans(i)
  PROVE  LET windows == Windows(bs, i)
             order == Listed(Cuts(bs, i))
             n == Len(order)
         IN  /\ n - 1 \in Nat /\ Len(windows) = n - 1
             /\ order[1] = i.from /\ order[n] = i.to
             /\ \A k \in 1 .. n : order[k] \in Time
             /\ \A j, k \in 1 .. n : j < k => order[j] < order[k]
             /\ \A k \in 1 .. n - 1 : windows[k] = [from |-> order[k], to |-> order[k + 1]]
<1> DEFINE cuts == Cuts(bs, i)
           windows == Windows(bs, i)
           order == Listed(cuts)
           n == Len(order)
<1>1. cuts \in SUBSET Time /\ i.from \in cuts /\ i.to \in cuts
      /\ \A t \in cuts : i.from <= t /\ t <= i.to
  <2>1. \A q \in ToSet(EffectivePoints(bs)) : q.at \in Time /\ q.at \in Int
    BY EffectivePointsIs, OrderedSet, TimesAreIntegers
  <2>2. i.from \in Time /\ i.to \in Time /\ i.from \in Int /\ i.to \in Int /\ i.from < i.to
    BY IntervalFacts
  <2> QED BY <2>1, <2>2 DEF Cuts
<1>2. windows = [k \in 1 .. n - 1 |-> [from |-> order[k], to |-> order[k + 1]]]
  BY DEF Windows, Cuts
<1> HIDE DEF cuts
<1>3. IsFiniteSet(cuts) /\ cuts \in SUBSET Int
  <2>1. IsFiniteSet(Time)
    BY TimelineConstants, FS_Interval DEF Time
  <2> QED BY <1>1, <2>1, SmallerPart, TimesAreIntegers
<1>4. IsListing(order, cuts)
  BY <1>3, ListedInOrder
<1>5. order \in Seq(cuts) /\ (\A t \in cuts : \E k \in DOMAIN order : order[k] = t) /\ Ascends(order)
  BY <1>4 DEF IsListing
<1>6. /\ order[1] <= i.from /\ i.to <= order[n]
      /\ n \in Nat /\ 1 \in DOMAIN order /\ n \in DOMAIN order
  <2>1. /\ order[1] <= i.from
        /\ Len(order) \in Nat /\ 1 \in DOMAIN order /\ Len(order) \in DOMAIN order
    BY <1>1, <1>3, <1>4, ListingGaps
  <2>2. i.to <= order[Len(order)]
    BY <1>1, <1>3, <1>4, ListingGaps
  <2> QED BY <2>1, <2>2
<1> HIDE DEF windows, order
<1>7. DOMAIN order = 1 .. n /\ n \in Nat /\ \A k \in 1 .. n : order[k] \in cuts
  BY <1>5
<1>8. \A k \in 1 .. n : order[k] \in Time /\ order[k] \in Int /\ i.from <= order[k] /\ order[k] <= i.to
  BY <1>1, <1>7, TimesAreIntegers
<1> HIDE DEF n
<1>9. order[1] = i.from /\ order[n] = i.to
  <2>1. /\ i.from \in Int /\ i.to \in Int /\ order[1] \in Int /\ order[n] \in Int
        /\ i.from <= order[1] /\ order[n] <= i.to
    BY <1>6, <1>7, <1>8, IntervalFacts
  <2> DEFINE x == order[1]
             y == order[n]
             a == i.from
             b == i.to
  <2>2. a \in Int /\ b \in Int /\ x \in Int /\ y \in Int /\ a <= x /\ x <= a /\ y <= b /\ b <= y
    BY <1>6, <2>1
  <2> HIDE DEF x, y, a, b
  <2>3. x = a /\ y = b
    BY <2>2
  <2> QED BY <2>3 DEF x, y, a, b
<1>10. \A j, k \in 1 .. n : j < k => order[j] < order[k]
  BY <1>5, <1>7 DEF Ascends
<1>11. n - 1 \in Nat
  BY <1>6, <1>7
<1>12. Len(windows) = n - 1 /\ \A k \in 1 .. n - 1 : windows[k] = [from |-> order[k], to |-> order[k + 1]]
  <2> DEFINE l == n - 1
  <2>1. windows = [k \in 1 .. l |-> [from |-> order[k], to |-> order[k + 1]]] /\ l \in Nat
    BY <1>2, <1>11
  <2> HIDE DEF l
  <2>2. \A k \in 1 .. l : windows[k] = [from |-> order[k], to |-> order[k + 1]]
    BY <2>1
  <2> DEFINE W == {windows[k] : k \in 1 .. l}
  <2>3. windows \in [1 .. l -> W]
    BY <2>1
  <2> HIDE DEF W
  <2>4. Len(windows) = l
    BY <2>1, <2>3, RowIsSequence
  <2> QED BY <2>2, <2>4 DEF l
<1> QED BY <1>8, <1>9, <1>10, <1>11, <1>12 DEF n, windows, order, cuts

\* What a claim takes window by window is what it takes at once.
LEMMA AdmittedIs ==
  ASSUME NEW bs, Kept(bs), NEW i, Spans(i), NEW d \in Slack,
         \A t \in i.from .. i.to - 1 : SlackAt(bs, t) + d \in Slack
  PROVE  LET windows == Windows(bs, i)
             taken[n \in 0 .. Len(windows)] ==
               IF n = 0 THEN bs ELSE ApplyDelta(taken[n - 1], windows[n], d)
             cs == taken[Len(windows)]
         IN
         /\ Kept(cs)
         /\ \A t \in Int : SlackAt(cs, t) = IF i.from <= t /\ t < i.to THEN SlackAt(bs, t) + d
                                            ELSE SlackAt(bs, t)
<1> DEFINE windows == Windows(bs, i)
           order == Listed(Cuts(bs, i))
           n == Len(windows)
           taken[k \in 0 .. n] == IF k = 0 THEN bs ELSE ApplyDelta(taken[k - 1], windows[k], d)
<1>1. /\ n \in Nat /\ Len(order) = n + 1
      /\ order[1] = i.from /\ order[n + 1] = i.to
      /\ \A k \in 1 .. n + 1 : order[k] \in Time
      /\ \A j, k \in 1 .. n + 1 : j < k => order[j] < order[k]
      /\ \A k \in 1 .. n : windows[k] = [from |-> order[k], to |-> order[k + 1]]
  <2> DEFINE m == Len(order)
  <2>1. /\ m - 1 \in Nat /\ n = m - 1
        /\ order[1] = i.from /\ order[m] = i.to
        /\ \A k \in 1 .. m : order[k] \in Time
        /\ \A j, k \in 1 .. m : j < k => order[j] < order[k]
        /\ \A k \in 1 .. m - 1 : windows[k] = [from |-> order[k], to |-> order[k + 1]]
    BY WindowsIs
  <2>2. m \in Nat
    BY <2>1
  <2> HIDE DEF n, m, windows, order
  <2>3. m = n + 1 /\ m - 1 = n
    BY <2>1, <2>2
  <2> QED BY <2>1, <2>3 DEF m
<1>2. taken[0] = bs /\ \A k \in 1 .. n : taken[k] = ApplyDelta(taken[k - 1], windows[k], d)
  <2> HIDE DEF windows, order, n
  <2>1. taken = TakenOf(bs, windows, d, n)
    BY Zenon DEF TakenOf
  <2> HIDE DEF taken
  <2> QED BY <1>1, <2>1, WindowsRun
<1> HIDE DEF windows, order, n, taken
<1> DEFINE Done(k, t) == IF i.from <= t /\ t < order[k + 1] THEN SlackAt(bs, t) + d ELSE SlackAt(bs, t)
           Good(k) == Kept(taken[k]) /\ \A t \in Int : SlackAt(taken[k], t) = Done(k, t)
           Bad == {k \in 0 .. n : ~Good(k)}
<1>3. /\ \A t \in i.from .. i.to - 1 : t \in Int
      /\ i.from \in Int /\ i.to \in Int
      /\ \A t \in Int : SlackAt(bs, t) \in Int
      /\ d \in Int
      /\ \A t \in Time : t \in Int
  BY IntervalFacts, SlackIs, TimesAreIntegers DEF Kept, Slack
<1>4. Bad = {}
  <2>1. SUFFICES ASSUME Bad # {} PROVE FALSE
    OBVIOUS
  <2>2. PICK m \in Bad : \A k \in Bad : m <= k
    <3>1. Bad \in SUBSET Nat
      OBVIOUS
    <3> HIDE DEF Bad
    <3> QED BY <2>1, <3>1, LeastNatural
  <2>3. m \in 0 .. n /\ ~Good(m)
    OBVIOUS
  <2>4. m # 0
    <3>1. ASSUME NEW t \in Int PROVE SlackAt(taken[0], t) = Done(0, t)
      <4>1. order[0 + 1] = i.from
        BY <1>1
      <4>2. ~(i.from <= t /\ t < i.from)
        BY <1>3
      <4> QED BY <1>2, <4>1, <4>2
    <3>2. Good(0)
      BY <1>2, <3>1
    <3> HIDE DEF Good
    <3> QED BY <2>3, <3>2
  <2>5. m \in 1 .. n /\ m - 1 \in 0 .. n /\ ~(m <= m - 1) /\ m - 1 + 1 = m
    BY <1>1, <2>3, <2>4
  <2>6. Kept(taken[m - 1]) /\ \A t \in Int : SlackAt(taken[m - 1], t) = Done(m - 1, t)
    BY <2>2, <2>5
  <2> HIDE DEF Bad, Good
  <2> DEFINE w == windows[m]
             a == order[m]
             b == order[m + 1]
             from == taken[m - 1]
  <2>7. w = [from |-> a, to |-> b]
    BY <1>1, <2>5
  <2>8. a \in Time /\ b \in Time /\ a < b /\ i.from <= a /\ b <= i.to
    <3>1. /\ m \in 1 .. n + 1 /\ m + 1 \in 1 .. n + 1 /\ m < m + 1
          /\ (m = 1 \/ 1 < m) /\ (m + 1 = n + 1 \/ m + 1 < n + 1)
          /\ 1 \in 1 .. n + 1 /\ n + 1 \in 1 .. n + 1
      BY <1>1, <2>5
    <3> DEFINE l == m + 1
               z == n + 1
    <3>2. /\ m \in 1 .. z /\ l \in 1 .. z /\ m < l /\ (m = 1 \/ 1 < m) /\ (l = z \/ l < z)
          /\ 1 \in 1 .. z /\ z \in 1 .. z
          /\ \A k \in 1 .. z : order[k] \in Time
          /\ \A j, k \in 1 .. z : j < k => order[j] < order[k]
          /\ order[1] = i.from /\ order[z] = i.to
      BY <1>1, <3>1
    <3> HIDE DEF l, z
    <3>3. order[m] \in Time /\ order[l] \in Time /\ order[m] < order[l]
          /\ (i.from = order[m] \/ i.from < order[m]) /\ (order[l] = i.to \/ order[l] < i.to)
      BY <3>2
    <3>4. order[m] \in Int /\ order[l] \in Int
      BY <1>3, <3>3
    <3>5. i.from <= order[m] /\ order[l] <= i.to
      BY <1>3, <3>3, <3>4
    <3> QED BY <3>3, <3>5 DEF l
  <2>9. /\ Kept(from)
        /\ \A t \in Int : SlackAt(from, t) = IF i.from <= t /\ t < a THEN SlackAt(bs, t) + d
                                             ELSE SlackAt(bs, t)
    BY <2>5, <2>6
  <2>10. taken[m] = ApplyDelta(from, w, d)
    BY <1>2, <2>5
  <2> HIDE DEF w, a, b, from
  <2>11. Spans(w) /\ w.from = a /\ w.to = b /\ a \in Int /\ b \in Int
    BY <1>3, <2>7, <2>8 DEF Spans
  <2>12. \A t \in w.from .. w.to - 1 : SlackAt(from, t) + d \in Slack
    <3>1. SUFFICES ASSUME NEW t \in w.from .. w.to - 1 PROVE SlackAt(from, t) + d \in Slack
      OBVIOUS
    <3>2. t \in Int /\ t \in i.from .. i.to - 1 /\ ~(t < a)
      BY <1>3, <2>8, <2>11
    <3> QED BY <2>9, <3>2
  <2>13. /\ Kept(taken[m])
         /\ \A t \in Int : SlackAt(taken[m], t) =
              IF w.from <= t /\ t < w.to THEN SlackAt(from, t) + d ELSE SlackAt(from, t)
    BY <2>9, <2>10, <2>11, <2>12, ApplyIs
  <2>14. ASSUME NEW t \in Int PROVE SlackAt(taken[m], t) = Done(m, t)
    <3>1. SlackAt(taken[m], t) = IF a <= t /\ t < b THEN SlackAt(from, t) + d ELSE SlackAt(from, t)
      BY <2>11, <2>13
    <3>2. SlackAt(from, t) = IF i.from <= t /\ t < a THEN SlackAt(bs, t) + d ELSE SlackAt(bs, t)
      BY <2>9
    <3>3. Done(m, t) = IF i.from <= t /\ t < b THEN SlackAt(bs, t) + d ELSE SlackAt(bs, t)
      BY DEF b
    <3> HIDE DEF Done
    <3>4. CASE a <= t
      BY <1>3, <2>8, <2>11, <3>1, <3>2, <3>3, <3>4
    <3>5. CASE ~(a <= t)
      BY <1>3, <2>8, <2>11, <3>1, <3>2, <3>3, <3>5
    <3> QED BY <3>4, <3>5
  <2>15. Good(m)
    BY <2>13, <2>14 DEF Good
  <2> QED BY <2>3, <2>15
<1>5. Good(n)
  <2>1. n \in 0 .. n
    BY <1>1
  <2> HIDE DEF Good
  <2> QED BY <1>4, <2>1 DEF Bad
<1>6. /\ Kept(taken[n])
      /\ \A t \in Int : SlackAt(taken[n], t) = IF i.from <= t /\ t < i.to THEN SlackAt(bs, t) + d
                                              ELSE SlackAt(bs, t)
  BY <1>1, <1>5
<1> QED BY <1>6 DEF taken, n, windows

-----------------------------------------------------------------------------
(* Sorting.                                                                 *)

\* Segments as they may be declared.
Segments == {s \in [from : Time, to : Time, capacity : Nat] : s.from < s.to}

\* The ends and the capacity of a segment are numbers.
LEMMA SegmentFacts ==
  ASSUME NEW s \in Segments
  PROVE  /\ s.from \in Int /\ s.to \in Int /\ s.capacity \in Int /\ s.capacity \in Nat
         /\ s.from < s.to /\ s.from \in Time /\ s.to \in Time
<1>1. s \in [from : Time, to : Time, capacity : Nat] /\ s.from < s.to
  BY DEF Segments
<1>2. s.from \in Time /\ s.to \in Time /\ s.capacity \in Nat
  BY <1>1
<1>3. s.from \in Int /\ s.to \in Int
  BY <1>2, TimesAreIntegers
<1>4. s.capacity \in Int
  BY <1>2
<1> QED BY <1>1, <1>2, <1>3, <1>4, Zenon

\* Segment j comes up to segment k.
UpTo(segments, j, k) ==
  \/ Before(segments[j], segments[k])
  \/ ~Before(segments[k], segments[j]) /\ j <= k

\* Sorting puts every segment in a place of its own.
LEMMA PlaceIs ==
  ASSUME NEW segments \in Seq(Segments)
  PROVE  /\ \A k \in DOMAIN segments : Place(segments, k) \in 1 .. Len(segments)
         /\ \A j, k \in DOMAIN segments : Place(segments, j) = Place(segments, k) => j = k
         /\ \A n \in DOMAIN segments : \E k \in DOMAIN segments : Place(segments, k) = n
<1> DEFINE D == DOMAIN segments
           n == Len(segments)
           Up(k) == {j \in D : UpTo(segments, j, k)}
           rank == [k \in D |-> Place(segments, k)]
<1>1. D = 1 .. n /\ n \in Nat
  OBVIOUS
<1>2. IsFiniteSet(D) /\ Cardinality(D) = n
  <2>1. 1 \in Int /\ n \in Int
    BY <1>1
  <2> HIDE DEF n
  <2>2. IsFiniteSet(1 .. n) /\ Cardinality(1 .. n) = IF 1 > n THEN 0 ELSE n - 1 + 1
    BY <2>1, FS_Interval
  <2>3. Cardinality(1 .. n) = n
    BY <1>1, <2>2
  <2> HIDE DEF D
  <2> QED BY <1>1, <2>2, <2>3
<1>3. \A k \in D : Place(segments, k) = Cardinality(Up(k))
  BY DEF Place, UpTo
<1>4. \A k \in D : /\ segments[k].from \in Int /\ segments[k].to \in Int
                   /\ segments[k].capacity \in Int /\ k \in Int
  BY SegmentFacts
<1> HIDE DEF D, n
<1>5. \A k \in D : UpTo(segments, k, k)
  BY <1>4 DEF UpTo
<1>6. \A j, k \in D : UpTo(segments, j, k) \/ UpTo(segments, k, j)
  BY <1>4 DEF UpTo
<1>7. ASSUME NEW j \in D, NEW k \in D, UpTo(segments, j, k), UpTo(segments, k, j) PROVE j = k
  <2>1. ~Before(segments[j], segments[k]) \/ ~Before(segments[k], segments[j])
    BY <1>4 DEF Before
  <2>2. j <= k /\ k <= j
    BY <1>7, <2>1 DEF UpTo
  <2> QED BY <1>4, <2>2
<1>8. ASSUME NEW j \in D, NEW k \in D, NEW l \in D, UpTo(segments, j, k), UpTo(segments, k, l)
      PROVE  UpTo(segments, j, l)
  <2> DEFINE a == segments[j].from
             b == segments[j].to
             c == segments[j].capacity
             x == segments[k].from
             y == segments[k].to
             z == segments[k].capacity
             p == segments[l].from
             q == segments[l].to
             r == segments[l].capacity
  <2>1. /\ a \in Int /\ b \in Int /\ c \in Int /\ x \in Int /\ y \in Int /\ z \in Int
        /\ p \in Int /\ q \in Int /\ r \in Int /\ j \in Int /\ k \in Int /\ l \in Int
    BY <1>4
  <2>2. \/ a < x \/ (a = x /\ b < y) \/ (a = x /\ b = y /\ c < z)
        \/ (a = x /\ b = y /\ c = z /\ j <= k)
    <3>1. Before(segments[j], segments[k]) <=> a < x \/ (a = x /\ b < y) \/ (a = x /\ b = y /\ c < z)
      BY DEF Before
    <3>2. Before(segments[k], segments[j]) <=> x < a \/ (x = a /\ y < b) \/ (x = a /\ y = b /\ z < c)
      BY DEF Before
    <3>3. Before(segments[j], segments[k]) \/ (~Before(segments[k], segments[j]) /\ j <= k)
      BY <1>8 DEF UpTo
    <3> HIDE DEF a, b, c, x, y, z
    <3> QED BY <2>1, <3>1, <3>2, <3>3
  <2>3. \/ x < p \/ (x = p /\ y < q) \/ (x = p /\ y = q /\ z < r)
        \/ (x = p /\ y = q /\ z = r /\ k <= l)
    <3>1. Before(segments[k], segments[l]) <=> x < p \/ (x = p /\ y < q) \/ (x = p /\ y = q /\ z < r)
      BY DEF Before
    <3>2. Before(segments[l], segments[k]) <=> p < x \/ (p = x /\ q < y) \/ (p = x /\ q = y /\ r < z)
      BY DEF Before
    <3>3. Before(segments[k], segments[l]) \/ (~Before(segments[l], segments[k]) /\ k <= l)
      BY <1>8 DEF UpTo
    <3> HIDE DEF x, y, z, p, q, r
    <3> QED BY <2>1, <3>1, <3>2, <3>3
  <2>4. \/ a < p \/ (a = p /\ b < q) \/ (a = p /\ b = q /\ c < r)
        \/ (a = p /\ b = q /\ c = r /\ j <= l)
    <3> HIDE DEF a, b, c, x, y, z, p, q, r
    <3> QED BY <2>1, <2>2, <2>3
  <2>5. Before(segments[j], segments[l]) <=> a < p \/ (a = p /\ b < q) \/ (a = p /\ b = q /\ c < r)
    BY DEF Before
  <2>6. Before(segments[l], segments[j]) <=> p < a \/ (p = a /\ q < b) \/ (p = a /\ q = b /\ r < c)
    BY DEF Before
  <2> HIDE DEF a, b, c, x, y, z, p, q, r
  <2> QED BY <2>1, <2>4, <2>5, <2>6 DEF UpTo
<1> HIDE DEF Up
<1>9. \A k \in D : Up(k) \in SUBSET D /\ k \in Up(k)
  BY <1>5 DEF Up
<1>10. ASSUME NEW k \in D PROVE Place(segments, k) \in 1 .. n
  <2>1. /\ Cardinality(Up(k)) \in Nat /\ Cardinality(D) \in Nat
        /\ Cardinality(Up(k)) <= Cardinality(D) /\ IsFiniteSet(Up(k))
    BY <1>2, <1>9, SmallerPart
  <2>2. Cardinality(Up(k)) # 0
    BY <1>9, <2>1, FS_EmptySet
  <2> QED BY <1>2, <1>3, <2>1, <2>2
<1>11. ASSUME NEW j \in D, NEW k \in D, UpTo(segments, j, k), j # k
       PROVE  Place(segments, j) < Place(segments, k)
  <2>1. Up(j) \in SUBSET Up(k)
    BY <1>8, <1>11 DEF Up
  <2>2. k \notin Up(j)
    BY <1>7, <1>11 DEF Up
  <2>3. Up(j) # Up(k)
    BY <1>9, <2>2
  <2>4. IsFiniteSet(Up(k))
    BY <1>2, <1>9, SmallerPart
  <2>5. Cardinality(Up(j)) < Cardinality(Up(k))
    BY <2>1, <2>3, <2>4, SmallerPart
  <2> QED BY <1>3, <2>5
<1>12. ASSUME NEW j \in D, NEW k \in D, Place(segments, j) = Place(segments, k) PROVE j = k
  <2>1. SUFFICES ASSUME j # k PROVE FALSE
    OBVIOUS
  <2>2. Place(segments, j) < Place(segments, k) \/ Place(segments, k) < Place(segments, j)
    BY <1>6, <1>11, <2>1
  <2>3. Place(segments, j) \in Int /\ Place(segments, k) \in Int
    BY <1>10
  <2> QED BY <1>12, <2>2, <2>3
<1>13. \A i \in 1 .. n : \E k \in D : rank[k] = i
  <2>1. rank \in [D -> 1 .. Cardinality(D)]
    BY <1>2, <1>10
  <2>2. \A j, k \in D : rank[j] = rank[k] => j = k
    BY <1>12
  <2> HIDE DEF rank
  <2> QED BY <1>2, <2>1, <2>2, RanksFill
<1>14. \A i \in 1 .. n : \E k \in D : Place(segments, k) = i
  BY <1>13
<1> QED BY <1>1, <1>10, <1>12, <1>14 DEF D, n

\* The segments in their places.
Sorted(segments) ==
  [n \in DOMAIN segments |-> segments[CHOOSE k \in DOMAIN segments : Place(segments, k) = n]]

\* Sorting keeps every segment, and adds none.
LEMMA SortedIs ==
  ASSUME NEW segments \in Seq(Segments)
  PROVE  /\ Sorted(segments) \in Seq(Segments) /\ DOMAIN Sorted(segments) = DOMAIN segments
         /\ \A n \in DOMAIN segments : \E k \in DOMAIN segments : Sorted(segments)[n] = segments[k]
         /\ \A k \in DOMAIN segments : \E n \in DOMAIN segments : Sorted(segments)[n] = segments[k]
<1> DEFINE D == DOMAIN segments
           at(n) == CHOOSE k \in D : Place(segments, k) = n
           sorted == Sorted(segments)
<1>1. D = 1 .. Len(segments) /\ Len(segments) \in Nat /\ \A k \in D : segments[k] \in Segments
  OBVIOUS
<1>2. sorted = [n \in D |-> segments[at(n)]]
  BY DEF Sorted
<1>3. \A n \in D : at(n) \in D /\ Place(segments, at(n)) = n
  BY PlaceIs
<1>4. \A k \in D : Place(segments, k) \in D /\ at(Place(segments, k)) = k
  BY <1>1, <1>3, PlaceIs
<1> HIDE DEF at, D, sorted
<1>5. sorted \in [1 .. Len(segments) -> Segments]
  BY <1>1, <1>2, <1>3
<1>6. sorted \in Seq(Segments) /\ DOMAIN sorted = D
  BY <1>1, <1>5, RowIsSequence
<1>7. \A n \in D : \E k \in D : sorted[n] = segments[k]
  BY <1>2, <1>3
<1>8. \A k \in D : \E n \in D : sorted[n] = segments[k]
  BY <1>2, <1>4
<1> QED BY <1>6, <1>7, <1>8 DEF D, sorted

-----------------------------------------------------------------------------
(* Capacity curves.                                                         *)

InSegment(s, t) == s.from <= t /\ t < s.to
Disjoint(c) == \A j, k \in DOMAIN c : j < k => c[j].to <= c[k].from

\* The entries of a sequence of segments.
LEMMA CurveFacts ==
  ASSUME NEW c \in Seq(Segments)
  PROVE  /\ DOMAIN c = 1 .. Len(c) /\ Len(c) \in Nat
         /\ \A k \in DOMAIN c : /\ c[k] \in Segments
                                /\ c[k].from \in Int /\ c[k].to \in Int
                                /\ c[k].capacity \in Int /\ c[k].capacity \in Nat
                                /\ c[k].from < c[k].to
                                /\ c[k].from \in Time /\ c[k].to \in Time
<1>1. DOMAIN c = 1 .. Len(c) /\ Len(c) \in Nat /\ \A k \in DOMAIN c : c[k] \in Segments
  OBVIOUS
<1> QED BY <1>1, SegmentFacts

\* The capacity at a time is that of the segment it lies in, or none.
LEMMA CapacityIs ==
  ASSUME NEW c \in Seq(Segments), Disjoint(c), NEW t \in Int
  PROVE  /\ \A k \in DOMAIN c : InSegment(c[k], t) => CapacityAt(c, t) = c[k].capacity
         /\ (\A k \in DOMAIN c : ~InSegment(c[k], t)) => CapacityAt(c, t) = 0
<1> DEFINE started == {k \in DOMAIN c : c[k].from <= t}
           n == Len(c)
           m == Cardinality(started)
<1>1. /\ DOMAIN c = 1 .. n /\ n \in Nat
      /\ \A k \in DOMAIN c : c[k].from \in Int /\ c[k].to \in Int /\ c[k].from < c[k].to
  BY CurveFacts
<1>2. \A j, k \in DOMAIN c : j < k => c[j].to <= c[k].from
  BY DEF Disjoint
<1>3. CapacityAt(c, t) = IF started = {} THEN 0
                         ELSE IF t < c[Max(started)].to THEN c[Max(started)].capacity ELSE 0
  BY DEF CapacityAt
<1>4. started \in SUBSET (1 .. n) /\ \A i \in started, j \in 1 .. n : j < i => j \in started
  <2>1. ASSUME NEW i \in started, NEW j \in 1 .. n, j < i PROVE j \in started
    <3>1. i \in DOMAIN c /\ j \in DOMAIN c /\ c[i].from <= t
      BY <1>1
    <3>2. c[j].to <= c[i].from /\ c[j].from < c[j].to
      BY <1>1, <1>2, <2>1, <3>1
    <3>3. c[j].from \in Int /\ c[j].to \in Int /\ c[i].from \in Int
      BY <1>1, <3>1
    <3>4. c[j].from <= t
      BY <3>1, <3>2, <3>3
    <3> QED BY <3>1, <3>4
  <2> QED BY <1>1, <2>1
<1>5. m \in 0 .. n /\ \A i \in 1 .. n : i \in started <=> i <= m
  <2> HIDE DEF started, n
  <2> QED BY <1>1, <1>4, PrefixCount
<1>6. \A k \in 1 .. n : c[k].from <= t <=> k <= m
  BY <1>1, <1>5
<1>7. CASE started = {}
  BY <1>1, <1>3, <1>7 DEF InSegment
<1>8. CASE started # {}
  <2>1. m \in 1 .. n /\ m \in started /\ \A i \in started : i <= m
    <3> HIDE DEF started, m, n
    <3>1. PICK i \in started : TRUE
      BY <1>8
    <3>2. i \in 1 .. n /\ i <= m
      BY <1>4, <1>5
    <3>3. m \in 1 .. n
      BY <1>5, <3>2
    <3>4. m \in Int
      BY <1>5
    <3> QED BY <1>4, <1>5, <3>3, <3>4
  <2> HIDE DEF started, m
  <2>2. Max(started) = m
    <3>1. started \in SUBSET Int
      BY <1>4
    <3>2. IsExtreme("maximum", m, started)
      <4>1. m \in Int /\ \A x \in started : x \in Int
        BY <2>1, <3>1
      <4> QED BY <2>1, <4>1 DEF IsExtreme
    <3>3. Extreme("maximum", started) = m
      BY <3>1, <3>2, ExtremeIs DEF Extremes
    <3> QED BY <3>3 DEF Extreme
  <2>3. CapacityAt(c, t) = IF t < c[m].to THEN c[m].capacity ELSE 0
    BY <1>3, <1>8, <2>2
  <2>4. ASSUME NEW k \in DOMAIN c, InSegment(c[k], t) PROVE k = m
    <3>1. c[k].from <= t /\ t < c[k].to
      BY <2>4 DEF InSegment
    <3>2. k <= m /\ k \in Int /\ m \in Int
      BY <1>1, <1>6, <2>1, <3>1
    <3>3. ~(k < m)
      <4>1. SUFFICES ASSUME k < m PROVE FALSE
        OBVIOUS
      <4>2. c[k].to <= c[m].from /\ c[m].from <= t
        BY <1>1, <1>2, <1>6, <2>1, <4>1
      <4>3. c[k].to \in Int /\ c[m].from \in Int
        BY <1>1, <2>1
      <4> QED BY <3>1, <4>2, <4>3
    <3> QED BY <3>2, <3>3
  <2>5. t < c[m].to => InSegment(c[m], t)
    BY <1>1, <1>6, <2>1 DEF InSegment
  <2> QED BY <1>1, <2>1, <2>3, <2>4, <2>5 DEF InSegment
<1> QED BY <1>7, <1>8

\* Segments checked one after the other are disjoint.
LEMMA CheckedIs ==
  ASSUME NEW c \in Seq(Segments),
         \A k \in DOMAIN c : k > 1 => c[k - 1].from <= c[k].from /\ ~Overlaps(c[k - 1], c[k])
  PROVE  Disjoint(c)
<1> DEFINE Bad == {k \in DOMAIN c : \E j \in DOMAIN c : j < k /\ ~(c[j].to <= c[k].from)}
<1>1. /\ DOMAIN c = 1 .. Len(c) /\ Len(c) \in Nat
      /\ \A k \in DOMAIN c : c[k].from \in Int /\ c[k].to \in Int /\ c[k].from < c[k].to
  BY CurveFacts
<1>2. Bad = {}
  <2>1. SUFFICES ASSUME Bad # {} PROVE FALSE
    OBVIOUS
  <2>2. PICK k \in Bad : \A l \in Bad : k <= l
    <3>1. Bad \in SUBSET Nat
      BY <1>1
    <3> HIDE DEF Bad
    <3> QED BY <2>1, <3>1, LeastNatural
  <2>3. PICK j \in DOMAIN c : j < k /\ ~(c[j].to <= c[k].from)
    OBVIOUS
  <2>4. k \in DOMAIN c /\ k > 1 /\ k - 1 \in DOMAIN c
    BY <1>1, <2>3
  <2>5. \A i \in DOMAIN c : i < k - 1 => c[i].to <= c[k - 1].from
    <3>1. k \in Nat /\ ~(k <= k - 1)
      BY <1>1, <2>4
    <3>2. k - 1 \notin Bad
      <4> HIDE DEF Bad
      <4> QED BY <2>2, <3>1
    <3> QED BY <2>4, <3>2
  <2> HIDE DEF Bad
  <2> DEFINE h == k - 1
  <2>6. /\ h \in DOMAIN c /\ (j = h \/ j < h)
        /\ c[h].from <= c[k].from /\ ~Overlaps(c[h], c[k])
        /\ (j < h => c[j].to <= c[h].from)
    BY <1>1, <2>3, <2>4, <2>5
  <2> HIDE DEF h
  <2>7. /\ c[h].from \in Int /\ c[h].to \in Int /\ c[h].from < c[h].to
        /\ c[k].from \in Int /\ c[k].to \in Int /\ c[k].from < c[k].to
        /\ c[j].from \in Int /\ c[j].to \in Int
    BY <1>1, <2>4, <2>6
  <2>8. c[h].to <= c[k].from
    BY <2>6, <2>7 DEF Overlaps
  <2>9. c[j].to <= c[k].from
    <3>1. CASE j = h
      BY <2>8, <3>1
    <3>2. CASE j < h
      <4>1. c[j].to <= c[h].from
        BY <2>6, <3>2
      <4> QED BY <2>7, <2>8, <4>1
    <3> QED BY <2>6, <3>1, <3>2
  <2> QED BY <2>3, <2>9
<1>3. ASSUME NEW j \in DOMAIN c, NEW k \in DOMAIN c, j < k PROVE c[j].to <= c[k].from
  BY <1>2, <1>3
<1> QED BY <1>3 DEF Disjoint

\* A run of segments that join covers all times from its start to its end equally high.
LEMMA RunIs ==
  ASSUME NEW c \in Seq(Segments), NEW a \in DOMAIN c, NEW b \in DOMAIN c,
         \A k \in a + 1 .. b : Joins(c[k - 1], c[k])
  PROVE  \A k \in a .. b :
           /\ c[k].capacity = c[a].capacity
           /\ \A t \in Int : c[a].from <= t /\ t < c[k].to => \E l \in a .. k : InSegment(c[l], t)
<1> DEFINE Good(k) ==
             /\ c[k].capacity = c[a].capacity
             /\ \A t \in Int : c[a].from <= t /\ t < c[k].to => \E l \in a .. k : InSegment(c[l], t)
           Bad == {k \in a .. b : ~Good(k)}
<1>1. /\ DOMAIN c = 1 .. Len(c) /\ Len(c) \in Nat /\ a \in Nat /\ b \in Nat
      /\ \A k \in DOMAIN c : c[k].from \in Int /\ c[k].to \in Int /\ c[k].from < c[k].to
  BY CurveFacts
<1>2. Bad = {}
  <2>1. SUFFICES ASSUME Bad # {} PROVE FALSE
    OBVIOUS
  <2>2. PICK k \in Bad : \A l \in Bad : k <= l
    <3>1. Bad \in SUBSET Nat
      BY <1>1
    <3> HIDE DEF Bad
    <3> QED BY <2>1, <3>1, LeastNatural
  <2>3. k \in a .. b /\ ~Good(k)
    OBVIOUS
  <2>4. k # a
    <3>1. a \in a .. a
      BY <1>1
    <3>2. Good(a)
      BY <3>1 DEF InSegment
    <3> HIDE DEF Good
    <3> QED BY <2>3, <3>2
  <2>5. k - 1 \in a .. b /\ ~(k <= k - 1) /\ k \in a + 1 .. b
    BY <1>1, <2>3, <2>4
  <2> DEFINE h == k - 1
  <2>6. Good(h)
    BY <2>2, <2>5
  <2>7. Joins(c[h], c[k])
    BY <2>5
  <2> HIDE DEF Bad
  <2>8. h \in Int /\ k = h + 1 /\ h \in a .. b /\ h \in DOMAIN c /\ k \in DOMAIN c
    BY <1>1, <2>3, <2>5
  <2> HIDE DEF h
  <2>9. c[h].to = c[k].from /\ c[k].capacity = c[a].capacity
    BY <2>6, <2>7 DEF Joins
  <2>10. ASSUME NEW t \in Int, c[a].from <= t, t < c[k].to PROVE \E l \in a .. k : InSegment(c[l], t)
    <3>1. CASE t < c[h].to
      <4>1. PICK l \in a .. h : InSegment(c[l], t)
        BY <2>6, <2>10, <3>1
      <4>2. l \in a .. k
        BY <1>1, <2>8
      <4> QED BY <4>1, <4>2
    <3>2. CASE ~(t < c[h].to)
      <4>1. c[k].from <= t
        BY <1>1, <2>8, <2>9, <3>2
      <4>2. k \in a .. k
        BY <1>1, <2>3
      <4> QED BY <2>10, <4>1, <4>2 DEF InSegment
    <3> QED BY <3>1, <3>2
  <2> QED BY <2>3, <2>9, <2>10
<1> HIDE DEF Good
<1>3. \A k \in a .. b : Good(k)
  BY <1>2
<1> QED BY <1>3 DEF Good

\* Where runs start, and where they end.
RunStarts(c) == {k \in DOMAIN c : k > 1 => ~Joins(c[k - 1], c[k])}
RunEnd(c, starts, j) == IF j = Len(starts) THEN Len(c) ELSE starts[j + 1] - 1

\* Runs follow one another, from the first segment to the last.
LEMMA RunsAre ==
  ASSUME NEW c \in Seq(Segments)
  PROVE  LET starts == Listed(RunStarts(c))
             End(j) == RunEnd(c, starts, j)
         IN  /\ Len(starts) \in Nat /\ DOMAIN starts = 1 .. Len(starts)
             /\ \A j \in 1 .. Len(starts) :
                  /\ starts[j] \in DOMAIN c /\ End(j) \in DOMAIN c /\ starts[j] <= End(j)
                  /\ starts[j] \in RunStarts(c)
                  /\ \A k \in starts[j] + 1 .. End(j) : Joins(c[k - 1], c[k])
             /\ \A j, l \in 1 .. Len(starts) : j < l => End(j) < starts[l]
             /\ \A k \in DOMAIN c : \E j \in 1 .. Len(starts) : k \in starts[j] .. End(j)
<1> DEFINE K == RunStarts(c)
           starts == Listed(K)
           N == Len(starts)
           n == Len(c)
           End(j) == RunEnd(c, starts, j)
<1>1. /\ DOMAIN c = 1 .. n /\ n \in Nat
  BY CurveFacts
<1>2. K \in SUBSET (1 .. n) /\ K \in SUBSET Int
  BY <1>1 DEF RunStarts
<1>3. IsFiniteSet(K)
  <2>1. IsFiniteSet(1 .. n)
    BY <1>1, FS_Interval
  <2> HIDE DEF K
  <2> QED BY <1>2, <2>1, SmallerPart
<1>4. IsListing(starts, K)
  <2> HIDE DEF K
  <2> QED BY <1>2, <1>3, ListedInOrder
<1>5. n > 0 => 1 \in K
  BY <1>1 DEF RunStarts
<1>6. \A k \in 1 .. n : k \notin K => k > 1 /\ Joins(c[k - 1], c[k])
  BY <1>1 DEF RunStarts
<1> HIDE DEF starts, K, n
<1>7. /\ N \in Nat /\ DOMAIN starts = 1 .. N /\ Ascends(starts)
      /\ \A j \in 1 .. N : starts[j] \in K /\ starts[j] \in 1 .. n /\ starts[j] \in Int
  <2>1. starts \in Seq(K) /\ Ascends(starts)
    BY <1>4 DEF IsListing
  <2>2. N \in Nat /\ DOMAIN starts = 1 .. N /\ \A j \in 1 .. N : starts[j] \in K
    BY <2>1
  <2>3. \A k \in K : k \in 1 .. n /\ k \in Int
    BY <1>2
  <2> HIDE DEF N
  <2> QED BY <2>1, <2>2, <2>3
<1>8. ASSUME NEW k \in K
      PROVE  /\ starts[1] <= k /\ k <= starts[N] /\ N \in 1 .. N /\ 1 \in 1 .. N
             /\ \A j \in 1 .. N - 1 : k <= starts[j] \/ starts[j + 1] <= k
  <2>1. /\ starts[1] <= k /\ k <= starts[Len(starts)]
        /\ \A j \in 1 .. Len(starts) - 1 : k <= starts[j] \/ starts[j + 1] <= k
        /\ Len(starts) \in Nat /\ 1 \in DOMAIN starts /\ Len(starts) \in DOMAIN starts
    BY <1>2, <1>4, ListingGaps
  <2> QED BY <1>7, <2>1
<1>9. \A j \in 1 .. N : /\ j = N => End(j) = n
                        /\ j # N => j + 1 \in 1 .. N /\ End(j) = starts[j + 1] - 1
  <2>1. N \in Nat
    BY <1>7
  <2>2. \A j : (j = N => End(j) = n) /\ (j # N => End(j) = starts[j + 1] - 1)
    BY DEF RunEnd, n
  <2> HIDE DEF N, End
  <2> QED BY <2>1, <2>2
<1> HIDE DEF N, End
<1>10. \A j, l \in 1 .. N : j < l => starts[j] < starts[l]
  BY <1>7 DEF Ascends
<1>11. ASSUME NEW j \in 1 .. N
       PROVE  /\ End(j) \in 1 .. n /\ starts[j] <= End(j)
              /\ \A k \in K : k <= starts[j] \/ End(j) < k
  <2>1. CASE j = N
    <3>1. \A k \in K : k <= starts[j]
      BY <1>8, <2>1
    <3>2. End(j) = n /\ starts[j] \in 1 .. n
      BY <1>7, <1>9, <2>1
    <3> QED BY <1>1, <3>1, <3>2
  <2>2. CASE j # N
    <3> DEFINE l == j + 1
    <3>1. l \in 1 .. N /\ j < l /\ End(j) = starts[l] - 1 /\ j \in 1 .. N - 1
      BY <1>7, <1>9, <2>2
    <3>2. \A k \in K : k <= starts[j] \/ starts[l] <= k
      BY <1>8, <3>1
    <3> HIDE DEF l
    <3>3. starts[j] < starts[l] /\ starts[l] \in 1 .. n /\ starts[j] \in 1 .. n
      BY <1>7, <1>10, <3>1
    <3>4. \A k \in K : k \in Int
      BY <1>2
    <3>5. End(j) \in 1 .. n /\ starts[j] <= End(j)
      BY <1>1, <3>1, <3>3
    <3>6. \A k \in K : k <= starts[j] \/ End(j) < k
      BY <3>1, <3>2, <3>3, <3>4
    <3> QED BY <3>5, <3>6
  <2> QED BY <2>1, <2>2
<1>12. ASSUME NEW j \in 1 .. N, NEW k \in starts[j] + 1 .. End(j) PROVE Joins(c[k - 1], c[k])
  <2>1. k \in 1 .. n /\ starts[j] < k /\ k <= End(j) /\ k \in Int /\ End(j) \in Int /\ starts[j] \in Int
    BY <1>1, <1>7, <1>11
  <2>2. k \notin K
    BY <1>11, <2>1
  <2> QED BY <1>6, <2>1, <2>2
<1>13. ASSUME NEW j \in 1 .. N, NEW l \in 1 .. N, j < l PROVE End(j) < starts[l]
  <2> DEFINE m == j + 1
  <2>1. m \in 1 .. N /\ j # N /\ End(j) = starts[m] - 1 /\ (m = l \/ m < l)
    BY <1>7, <1>9, <1>13
  <2> HIDE DEF m
  <2>2. starts[m] <= starts[l] /\ starts[m] \in Int /\ starts[l] \in Int
    BY <1>7, <1>10, <2>1
  <2> QED BY <2>1, <2>2
<1>14. ASSUME NEW k \in 1 .. n PROVE \E j \in 1 .. N : k \in starts[j] .. End(j)
  <2> DEFINE A == {j \in 1 .. N : starts[j] <= k}
             m == Cardinality(A)
  <2>1. A \in SUBSET (1 .. N) /\ \A i \in A, j \in 1 .. N : j < i => j \in A
    <3>1. SUFFICES ASSUME NEW i \in A, NEW j \in 1 .. N, j < i PROVE j \in A
      OBVIOUS
    <3>2. starts[j] < starts[i] /\ starts[i] <= k /\ starts[i] \in Int /\ starts[j] \in Int
      BY <1>7, <1>10, <3>1
    <3> QED BY <3>2
  <2>2. m \in 0 .. N /\ \A i \in 1 .. N : i \in A <=> i <= m
    <3> HIDE DEF A
    <3> QED BY <1>7, <2>1, PrefixCount
  <2>3. 1 \in 1 .. N /\ starts[1] <= k
    <3>1. 1 \in K
      BY <1>1, <1>5
    <3> QED BY <1>7, <1>8, <3>1
  <2>4. 1 \in A
    BY <2>3
  <2> HIDE DEF m
  <2>5. m \in 1 .. N
    BY <2>2, <2>3, <2>4
  <2>6. starts[m] <= k
    <3>1. m <= m
      BY <2>5
    <3> QED BY <2>2, <2>5, <3>1
  <2>7. k <= End(m)
    <3>1. CASE m = N
      BY <1>9, <2>5, <3>1
    <3>2. CASE m # N
      <4> DEFINE l == m + 1
      <4>1. l \in 1 .. N /\ ~(l <= m) /\ End(m) = starts[l] - 1
        BY <1>7, <1>9, <2>5, <3>2
      <4> HIDE DEF l
      <4>2. ~(starts[l] <= k) /\ starts[l] \in Int
        BY <1>7, <2>2, <4>1
      <4> QED BY <4>1, <4>2
    <3> QED BY <3>1, <3>2
  <2>8. k \in starts[m] .. End(m)
    BY <1>7, <1>11, <2>5, <2>6, <2>7
  <2> QED BY <2>5, <2>8
<1> QED BY <1>1, <1>7, <1>11, <1>12, <1>13, <1>14 DEF N, End, K, starts, n

\* A curve: disjoint segments in order, none of which joins the one before it.
CurveOK(c) ==
  /\ c \in Seq(Segments) /\ Disjoint(c)
  /\ \A k \in DOMAIN c : c[k].capacity <= MaxQuantity
  /\ \A k \in 2 .. Len(c) : ~Joins(c[k - 1], c[k])

\* Making runs one segment each gives a curve of the same capacity.
LEMMA NormalizedIs ==
  ASSUME NEW c \in Seq(Segments), Disjoint(c), \A k \in DOMAIN c : c[k].capacity <= MaxQuantity
  PROVE  LET r == NormalizeSorted(c) IN
         /\ CurveOK(r)
         /\ \A t \in Int : CapacityAt(r, t) = CapacityAt(c, t)
<1> DEFINE starts == Listed(RunStarts(c))
           End(j) == RunEnd(c, starts, j)
           N == Len(starts)
           r == NormalizeSorted(c)
<1>1. /\ DOMAIN c = 1 .. Len(c) /\ Len(c) \in Nat
      /\ \A k \in DOMAIN c : /\ c[k] \in Segments
                             /\ c[k].from \in Int /\ c[k].to \in Int /\ c[k].from < c[k].to
                             /\ c[k].from \in Time /\ c[k].to \in Time /\ c[k].capacity \in Nat
  BY CurveFacts
<1>2. /\ N \in Nat /\ DOMAIN starts = 1 .. N
      /\ \A j \in 1 .. N :
           /\ starts[j] \in DOMAIN c /\ End(j) \in DOMAIN c /\ starts[j] <= End(j)
           /\ starts[j] \in RunStarts(c)
           /\ \A k \in starts[j] + 1 .. End(j) : Joins(c[k - 1], c[k])
      /\ \A j, l \in 1 .. N : j < l => End(j) < starts[l]
      /\ \A k \in DOMAIN c : \E j \in 1 .. N : k \in starts[j] .. End(j)
  BY RunsAre
<1>3. r = [j \in DOMAIN starts |-> [c[starts[j]] EXCEPT !.to = c[End(j)].to]]
  BY DEF NormalizeSorted, RunEnd, RunStarts
<1>4. \A j \in 1 .. N : j # N => End(j) = starts[j + 1] - 1
  BY DEF RunEnd
<1> HIDE DEF starts, End, N, r
<1>5. \A j, k \in DOMAIN c : j < k => c[j].to <= c[k].from
  BY DEF Disjoint
<1>6. ASSUME NEW j \in 1 .. N
      PROVE  /\ r[j].from = c[starts[j]].from /\ r[j].to = c[End(j)].to
             /\ r[j].capacity = c[starts[j]].capacity
             /\ r[j] \in Segments
  <2> DEFINE a == starts[j]
             b == End(j)
             s == c[a]
             e == c[b].to
  <2>1. a \in DOMAIN c /\ b \in DOMAIN c /\ (a = b \/ a < b)
    BY <1>1, <1>2
  <2>2. r[j] = [s EXCEPT !.to = e]
    BY <1>2, <1>3
  <2> HIDE DEF a, b
  <2>3. s.from < e
    <3>1. CASE a = b
      BY <1>1, <2>1, <3>1
    <3>2. CASE a < b
      <4>1. c[a].to <= c[b].from
        BY <1>5, <2>1, <3>2
      <4>2. /\ c[a].from \in Int /\ c[a].to \in Int /\ c[b].from \in Int /\ c[b].to \in Int
            /\ c[a].from < c[a].to /\ c[b].from < c[b].to
        BY <1>1, <2>1
      <4> QED BY <4>1, <4>2
    <3> QED BY <2>1, <3>1, <3>2
  <2>4. s \in [from : Time, to : Time, capacity : Nat] /\ e \in Time
    BY <1>1, <2>1 DEF Segments
  <2> HIDE DEF s, e
  <2>5. /\ r[j] \in [from : Time, to : Time, capacity : Nat]
        /\ r[j].from = s.from /\ r[j].to = e /\ r[j].capacity = s.capacity
    BY <2>2, <2>4
  <2>6. r[j] \in Segments
    BY <2>3, <2>5 DEF Segments
  <2> QED BY <2>5, <2>6 DEF s, e, a, b
<1>7. r \in Seq(Segments) /\ Len(r) = N /\ DOMAIN r = 1 .. N
  <2>1. r \in [1 .. N -> Segments]
    BY <1>2, <1>3, <1>6
  <2> QED BY <1>2, <2>1, RowIsSequence
<1>8. ASSUME NEW j \in 1 .. N
      PROVE  \A k \in starts[j] .. End(j) :
               /\ c[k].capacity = r[j].capacity
               /\ \A t \in Int : r[j].from <= t /\ t < c[k].to =>
                    \E l \in starts[j] .. k : InSegment(c[l], t)
  <2> DEFINE a == starts[j]
             b == End(j)
  <2>1. a \in DOMAIN c /\ b \in DOMAIN c /\ \A k \in a + 1 .. b : Joins(c[k - 1], c[k])
    BY <1>2
  <2> HIDE DEF a, b
  <2>2. \A k \in a .. b :
           /\ c[k].capacity = c[a].capacity
           /\ \A t \in Int : c[a].from <= t /\ t < c[k].to => \E l \in a .. k : InSegment(c[l], t)
    BY <2>1, RunIs
  <2>3. r[j].from = c[a].from /\ r[j].capacity = c[a].capacity
    BY <1>6 DEF a
  <2> QED BY <2>2, <2>3 DEF a, b
<1>9. Disjoint(r)
  <2>1. SUFFICES ASSUME NEW j \in 1 .. N, NEW l \in 1 .. N, j < l PROVE r[j].to <= r[l].from
    BY <1>7 DEF Disjoint
  <2>2. c[End(j)].to <= c[starts[l]].from
    BY <1>2, <1>5, <2>1
  <2> QED BY <1>6, <2>2
<1>10. ASSUME NEW k \in 2 .. N PROVE ~Joins(r[k - 1], r[k])
  <2> DEFINE j == k - 1
             b == End(j)
             a == starts[k]
  <2>1. j \in 1 .. N /\ k \in 1 .. N /\ j # N /\ j + 1 = k
    BY <1>2
  <2>2. b = a - 1
    BY <1>4, <2>1
  <2>3. a \in RunStarts(c) /\ a \in DOMAIN c /\ b \in DOMAIN c
    BY <1>2, <2>1
  <2>4. r[j].to = c[b].to /\ r[k].from = c[a].from /\ r[k].capacity = c[a].capacity
    BY <1>6, <2>1
  <2>5. c[b].capacity = r[j].capacity
    <3>1. b \in starts[j] .. End(j)
      BY <1>1, <1>2, <2>1
    <3> QED BY <1>8, <2>1, <3>1
  <2> HIDE DEF j, a, b
  <2>6. ~Joins(c[b], c[a])
    <3>1. a > 1
      BY <1>1, <2>2, <2>3
    <3>2. a > 1 => ~Joins(c[a - 1], c[a])
      BY <2>3 DEF RunStarts
    <3> QED BY <2>2, <3>1, <3>2
  <2>7. ~Joins(r[j], r[k])
    BY <2>4, <2>5, <2>6 DEF Joins
  <2> QED BY <2>7 DEF j
<1>11. CurveOK(r)
  <2>1. \A k \in DOMAIN r : r[k].capacity <= MaxQuantity
    BY <1>2, <1>6, <1>7
  <2> QED BY <1>7, <1>9, <1>10, <2>1 DEF CurveOK
<1>12. ASSUME NEW t \in Int PROVE CapacityAt(r, t) = CapacityAt(c, t)
  <2>1. /\ \A k \in DOMAIN c : InSegment(c[k], t) => CapacityAt(c, t) = c[k].capacity
        /\ (\A k \in DOMAIN c : ~InSegment(c[k], t)) => CapacityAt(c, t) = 0
    BY CapacityIs
  <2>2. /\ \A k \in DOMAIN r : InSegment(r[k], t) => CapacityAt(r, t) = r[k].capacity
        /\ (\A k \in DOMAIN r : ~InSegment(r[k], t)) => CapacityAt(r, t) = 0
    BY <1>7, <1>9, CapacityIs
  <2>3. ASSUME NEW j \in 1 .. N, InSegment(r[j], t)
        PROVE  \E k \in DOMAIN c : InSegment(c[k], t) /\ c[k].capacity = r[j].capacity
    <3> DEFINE a == starts[j]
               b == End(j)
    <3>1. a \in DOMAIN c /\ b \in DOMAIN c /\ b \in a .. b
      BY <1>1, <1>2
    <3>2. r[j].from <= t /\ t < c[b].to
      BY <1>6, <2>3 DEF InSegment
    <3>3. PICK l \in a .. b : InSegment(c[l], t)
      BY <1>8, <3>1, <3>2
    <3>4. l \in DOMAIN c /\ c[l].capacity = r[j].capacity
      BY <1>1, <1>8, <3>1
    <3> QED BY <3>3, <3>4
  <2>4. ASSUME NEW k \in DOMAIN c, InSegment(c[k], t)
        PROVE  \E j \in DOMAIN r : InSegment(r[j], t)
    <3>1. PICK j \in 1 .. N : k \in starts[j] .. End(j)
      BY <1>2
    <3> DEFINE a == starts[j]
               b == End(j)
    <3>2. a \in DOMAIN c /\ b \in DOMAIN c /\ (a = k \/ a < k) /\ (k = b \/ k < b)
      <4>1. a \in DOMAIN c /\ b \in DOMAIN c /\ k \in a .. b
        BY <1>2, <3>1
      <4> HIDE DEF a, b
      <4>2. a \in Int /\ b \in Int /\ k \in Int
        BY <1>1, <4>1
      <4> QED BY <4>1, <4>2
    <3>3. r[j].from = c[a].from /\ r[j].to = c[b].to
      BY <1>6
    <3> HIDE DEF a, b
    <3>4. c[a].from <= c[k].from
      <4>1. c[a].from \in Int /\ c[a].to \in Int /\ c[k].from \in Int /\ c[a].from < c[a].to
        BY <1>1, <3>2
      <4>2. a < k => c[a].to <= c[k].from
        BY <1>5, <3>2
      <4> QED BY <3>2, <4>1, <4>2
    <3>5. c[k].to <= c[b].to
      <4>1. c[b].from \in Int /\ c[b].to \in Int /\ c[k].to \in Int /\ c[b].from < c[b].to
        BY <1>1, <3>2
      <4>2. k < b => c[k].to <= c[b].from
        BY <1>5, <3>2
      <4> QED BY <3>2, <4>1, <4>2
    <3>6. /\ c[a].from \in Int /\ c[b].to \in Int /\ c[k].from \in Int /\ c[k].to \in Int
          /\ c[k].from <= t /\ t < c[k].to
      BY <1>1, <2>4, <3>2 DEF InSegment
    <3>7. c[a].from <= t /\ t < c[b].to
      BY <3>4, <3>5, <3>6
    <3> QED BY <1>7, <3>3, <3>7 DEF InSegment
  <2> QED BY <1>7, <2>1, <2>2, <2>3, <2>4
<1> QED BY <1>11, <1>12 DEF r

\* What a curve says at time t of the segments it was declared by.
AsDeclared(c, segments, t) ==
  /\ \A k \in DOMAIN segments : InSegment(segments[k], t) => CapacityAt(c, t) = segments[k].capacity
  /\ (\A k \in DOMAIN segments : ~InSegment(segments[k], t)) => CapacityAt(c, t) = 0

\* A curve that is not refused is in order, and has the capacity that was declared.
LEMMA DeclaredIs ==
  ASSUME NEW segments \in Seq(Segments), FromUnsorted(segments) # Rejected
  PROVE  LET c == FromUnsorted(segments) IN
         CurveOK(c) /\ \A t \in Int : AsDeclared(c, segments, t)
<1> DEFINE sorted == Sorted(segments)
           c == FromUnsorted(segments)
<1>1. c = FromSorted(sorted)
  BY DEF FromUnsorted, Sorted
<1>2. /\ sorted \in Seq(Segments) /\ DOMAIN sorted = DOMAIN segments
      /\ \A n \in DOMAIN segments : \E k \in DOMAIN segments : sorted[n] = segments[k]
      /\ \A k \in DOMAIN segments : \E n \in DOMAIN segments : sorted[n] = segments[k]
  BY SortedIs
<1> HIDE DEF sorted, c
<1>3. /\ \A k \in DOMAIN sorted : sorted[k].capacity <= MaxQuantity
      /\ \A k \in DOMAIN sorted : k > 1 =>
           /\ sorted[k - 1].from <= sorted[k].from
           /\ ~Overlaps(sorted[k - 1], sorted[k])
      /\ c = NormalizeSorted(sorted)
  BY <1>1 DEF FromSorted, c
<1>4. Disjoint(sorted)
  BY <1>2, <1>3, CheckedIs
<1>5. CurveOK(c) /\ \A t \in Int : CapacityAt(c, t) = CapacityAt(sorted, t)
  BY <1>2, <1>3, <1>4, NormalizedIs
<1>6. ASSUME NEW t \in Int PROVE AsDeclared(c, segments, t)
  <2>1. /\ \A k \in DOMAIN sorted : InSegment(sorted[k], t) => CapacityAt(sorted, t) = sorted[k].capacity
        /\ (\A k \in DOMAIN sorted : ~InSegment(sorted[k], t)) => CapacityAt(sorted, t) = 0
    BY <1>2, <1>4, CapacityIs
  <2>2. CapacityAt(c, t) = CapacityAt(sorted, t)
    BY <1>5
  <2>3. ASSUME NEW k \in DOMAIN segments, InSegment(segments[k], t)
        PROVE  CapacityAt(c, t) = segments[k].capacity
    <3>1. PICK n \in DOMAIN segments : sorted[n] = segments[k]
      BY <1>2
    <3> QED BY <1>2, <2>1, <2>2, <2>3, <3>1
  <2>4. ASSUME \A k \in DOMAIN segments : ~InSegment(segments[k], t) PROVE CapacityAt(c, t) = 0
    <3>1. \A n \in DOMAIN sorted : ~InSegment(sorted[n], t)
      BY <1>2, <2>4
    <3> QED BY <2>1, <2>2, <3>1
  <2> QED BY <2>3, <2>4 DEF AsDeclared
<1> QED BY <1>5, <1>6 DEF c

\* Without segments, there is no capacity.
LEMMA NothingDeclared ==
  /\ CurveOK(<<>>) /\ <<>> \in Seq(Segments) /\ \A t \in Int : AsDeclared(<<>>, <<>>, t)
<1> DEFINE c == <<>>
<1>1. c \in Seq(Segments) /\ DOMAIN c = {} /\ Len(c) = 0
  OBVIOUS
<1> HIDE DEF c
<1>2. CurveOK(c)
  BY <1>1 DEF CurveOK, Disjoint
<1>3. \A t \in Int : CapacityAt(c, t) = 0
  BY <1>1, <1>2, CapacityIs DEF CurveOK
<1>4. \A t \in Int : AsDeclared(c, c, t)
  BY <1>1, <1>3 DEF AsDeclared
<1> QED BY <1>1, <1>2, <1>4 DEF c

\* The declarations are sequences of segments.
LEMMA DeclarationIs ==
  ASSUME NEW d \in Declaration
  PROVE  d \in Seq(Segments)
<1> DEFINE R == [from : Time, to : Time, capacity : Nat]
<1>1. d \in Seq(R) /\ \A k \in DOMAIN d : d[k].from < d[k].to
  BY TimelineConstants
<1>2. DOMAIN d = 1 .. Len(d) /\ Len(d) \in Nat /\ \A k \in DOMAIN d : d[k] \in R
  <2> HIDE DEF R
  <2> QED BY <1>1
<1>3. \A k \in DOMAIN d : d[k] \in Segments
  <2>1. \A s \in R : s.from < s.to => s \in Segments
    BY DEF Segments
  <2> HIDE DEF R
  <2> QED BY <1>1, <1>2, <2>1
<1> HIDE DEF R
<1>4. d \in [1 .. Len(d) -> Segments]
  BY <1>1, <1>2, <1>3
<1> QED BY <1>2, <1>4, RowIsSequence

\* The capacity at any time is within the bounds of quantities.
LEMMA CapacityBounds ==
  ASSUME NEW c, CurveOK(c), NEW t \in Int
  PROVE  CapacityAt(c, t) \in Nat /\ CapacityAt(c, t) <= MaxQuantity
<1>1. c \in Seq(Segments) /\ Disjoint(c)
  BY DEF CurveOK
<1>2. \A k \in DOMAIN c : c[k].capacity \in Nat /\ c[k].capacity <= MaxQuantity
  BY <1>1, CurveFacts DEF CurveOK
<1>3. /\ \A k \in DOMAIN c : InSegment(c[k], t) => CapacityAt(c, t) = c[k].capacity
      /\ (\A k \in DOMAIN c : ~InSegment(c[k], t)) => CapacityAt(c, t) = 0
  BY <1>1, CapacityIs
<1> QED BY <1>2, <1>3, TimelineConstants

-----------------------------------------------------------------------------
(* Usage.                                                                   *)

\* The claims that are in force at a time, that start and that end.
InForce(t) == {k \in Kind : Claim[k].from <= t /\ t < Claim[k].to}
Starting(t) == {k \in Kind : Claim[k].from = t}
Ending(t) == {k \in Kind : Claim[k].to = t}

\* The kinds of claims are numbered; a claim is of an interval and takes something.
LEMMA KindFacts ==
  /\ Kind = 1 .. Len(Claim) /\ Len(Claim) \in Nat
  /\ \A k \in Kind : /\ Claim[k].from \in Int /\ Claim[k].to \in Int /\ Claim[k].from < Claim[k].to
                     /\ Claim[k].from \in Time /\ Claim[k].to \in Time
                     /\ Claim[k].quantity \in 1 .. MaxQuantity /\ Claim[k].quantity \in Nat
                     /\ Claim[k] \in [from : Time, to : Time, quantity : 1 .. MaxQuantity]
<1> DEFINE R == [from : Time, to : Time, quantity : 1 .. MaxQuantity]
<1>1. Claim \in Seq(R) /\ \A k \in Kind : Claim[k].from < Claim[k].to
  BY TimelineConstants
<1>2. Kind = 1 .. Len(Claim) /\ Len(Claim) \in Nat /\ \A k \in Kind : Claim[k] \in R
  <2> HIDE DEF R
  <2> QED BY <1>1 DEF Kind
<1>3. \A s \in R : s.from \in Time /\ s.to \in Time /\ s.quantity \in 1 .. MaxQuantity
  OBVIOUS
<1> HIDE DEF R
<1>4. \A k \in Kind : Claim[k].from \in Time /\ Claim[k].to \in Time /\ Claim[k].quantity \in 1 .. MaxQuantity
  BY <1>2, <1>3
<1>5. \A q \in 1 .. MaxQuantity : q \in Nat
  OBVIOUS
<1>6. \A k \in Kind : Claim[k].from \in Int /\ Claim[k].to \in Int
  BY <1>4, TimesAreIntegers
<1> QED BY <1>1, <1>2, <1>4, <1>5, <1>6 DEF R

\* What the active claims of the kinds in S take, kind by kind.
Taken(active, S) == [k \in Kind |-> IF k \in S THEN active[k] * Claim[k].quantity ELSE 0]

\* What is taken is a natural number, of every kind and altogether.
LEMMA TakenIs ==
  ASSUME NEW active \in [Kind -> Nat], NEW S
  PROVE  /\ Taken(active, S) \in [1 .. Len(Claim) -> Nat]
         /\ Taken(active, S) \in [1 .. Len(Claim) -> Int]
         /\ Total(active, S) = SumTo(Taken(active, S), Len(Claim))
         /\ Total(active, S) \in Nat
         /\ \A k \in Kind : active[k] * Claim[k].quantity \in Nat
<1>1. Kind = 1 .. Len(Claim) /\ Len(Claim) \in Nat /\ \A k \in Kind : Claim[k].quantity \in Nat
  BY KindFacts
<1>2. \A k \in Kind : active[k] * Claim[k].quantity \in Nat
  <2>1. \A a, b \in Nat : a * b \in Nat
    OBVIOUS
  <2> QED BY <1>1, <2>1
<1>3. Taken(active, S) \in [1 .. Len(Claim) -> Nat] /\ Taken(active, S) \in [1 .. Len(Claim) -> Int]
  BY <1>1, <1>2 DEF Taken
<1>4. Total(active, S) = SumTo(Taken(active, S), Len(Claim))
  BY DEF Total, Taken
<1>5. SumTo(Taken(active, S), Len(Claim)) \in Nat
  BY <1>1, <1>3, SumNonnegative
<1> QED BY <1>2, <1>3, <1>4, <1>5

\* Usage changes by the claims that start and the claims that end.
LEMMA UsageChanges ==
  ASSUME NEW active \in [Kind -> Nat], NEW t \in Int
  PROVE  Total(active, InForce(t)) =
           Total(active, InForce(t - 1)) - Ended(active, t) + Started(active, t)
<1> DEFINE n == Len(Claim)
           now == Taken(active, InForce(t))
           then == Taken(active, InForce(t - 1))
           ends == Taken(active, Ending(t))
           starts == Taken(active, Starting(t))
           both == [k \in 1 .. n |-> now[k] + ends[k]]
<1>1. /\ n \in Nat /\ now \in [1 .. n -> Int] /\ then \in [1 .. n -> Int]
      /\ ends \in [1 .. n -> Int] /\ starts \in [1 .. n -> Int]
  BY KindFacts, TakenIs
<1>2. ASSUME NEW k \in Kind PROVE now[k] + ends[k] = then[k] + starts[k]
  <2> DEFINE q == active[k] * Claim[k].quantity
             a == Claim[k].from
             b == Claim[k].to
  <2>1. q \in Nat /\ a \in Int /\ b \in Int /\ a < b
    BY TakenIs, KindFacts
  <2>2. /\ now[k] = IF a <= t /\ t < b THEN q ELSE 0
        /\ then[k] = IF a <= t - 1 /\ t - 1 < b THEN q ELSE 0
        /\ ends[k] = IF b = t THEN q ELSE 0
        /\ starts[k] = IF a = t THEN q ELSE 0
    BY DEF Taken, InForce, Starting, Ending
  <2> HIDE DEF q, a, b, now, then, ends, starts
  <2> QED BY <2>1, <2>2
<1>3. /\ Total(active, InForce(t)) = SumTo(now, n)
      /\ Total(active, InForce(t - 1)) = SumTo(then, n)
      /\ Ended(active, t) = SumTo(ends, n)
      /\ Started(active, t) = SumTo(starts, n)
      /\ Total(active, InForce(t)) \in Nat /\ Total(active, InForce(t - 1)) \in Nat
      /\ Ended(active, t) \in Nat /\ Started(active, t) \in Nat
  BY TakenIs DEF Ended, Started, Ending, Starting
<1> HIDE DEF now, then, ends, starts, n
<1>4. both \in [1 .. n -> Int] /\ \A k \in 1 .. n : both[k] = now[k] + ends[k]
  BY <1>1
<1>5. \A k \in 1 .. n : both[k] = then[k] + starts[k]
  BY <1>2, <1>4, KindFacts DEF n
<1> HIDE DEF both
<1>6. SumTo(both, n) = SumTo(now, n) + SumTo(ends, n)
  BY <1>1, <1>4, SumAdds
<1>7. SumTo(both, n) = SumTo(then, n) + SumTo(starts, n)
  BY <1>1, <1>4, <1>5, SumAdds
<1> DEFINE w == Total(active, InForce(t))
           x == Total(active, InForce(t - 1))
           y == Ended(active, t)
           z == Started(active, t)
<1>8. w \in Int /\ x \in Int /\ y \in Int /\ z \in Int /\ w + y = x + z
  BY <1>3, <1>6, <1>7
<1> HIDE DEF w, x, y, z
<1>9. w = x - y + z
  BY <1>8
<1> QED BY <1>9 DEF w, x, y, z

\* One claim of a kind more, if e is 1, or less, if it is -1, and what that adds to usage.
With(active, j, e) == [active EXCEPT ![j] = @ + e]
Added(j, e, t) == IF Claim[j].from <= t /\ t < Claim[j].to THEN e * Claim[j].quantity ELSE 0

\* One claim more, or one claim less, changes the usage of its interval.
LEMMA UsageOfClaim ==
  ASSUME NEW active \in [Kind -> Nat], NEW j \in Kind, NEW e \in {-1, 1}, active[j] + e \in Nat, NEW t \in Int
  PROVE  /\ With(active, j, e) \in [Kind -> Nat]
         /\ Total(With(active, j, e), InForce(t)) = Total(active, InForce(t)) + Added(j, e, t)
<1> DEFINE more == [active EXCEPT ![j] = @ + e]
           f == Taken(more, InForce(t))
           g == Taken(active, InForce(t))
           n == Len(Claim)
           q == Claim[j].quantity
           in == Claim[j].from <= t /\ t < Claim[j].to
<1>1. more \in [Kind -> Nat] /\ more[j] = active[j] + e /\ \A k \in Kind : k # j => more[k] = active[k]
  OBVIOUS
<1>2. n \in Nat /\ Kind = 1 .. n /\ q \in Nat /\ active[j] \in Nat
  BY KindFacts
<1> HIDE DEF more
<1>3. f \in [1 .. n -> Int] /\ g \in [1 .. n -> Int]
      /\ Total(more, InForce(t)) = SumTo(f, n) /\ Total(active, InForce(t)) = SumTo(g, n)
      /\ Total(more, InForce(t)) \in Nat /\ Total(active, InForce(t)) \in Nat
  BY <1>1, TakenIs
<1>4. \A k \in 1 .. n : k # j => f[k] = g[k]
  BY <1>1, <1>2 DEF Taken
<1>5. f[j] = (IF in THEN (active[j] + e) * q ELSE 0) /\ g[j] = (IF in THEN active[j] * q ELSE 0)
  BY <1>1 DEF Taken, InForce
<1>6. f[j] = g[j] + IF in THEN e * q ELSE 0
  <2> HIDE DEF f, g, q, in
  <2>1. \A a, b \in Nat : (a + 1) * b = a * b + 1 * b /\ (a + -1) * b = a * b + (-1) * b
    OBVIOUS
  <2>2. (active[j] + e) * q = active[j] * q + e * q
    BY <1>2, <2>1
  <2>3. active[j] * q \in Int /\ e * q \in Int
    BY <1>2
  <2> QED BY <1>5, <2>2, <2>3
<1>7. SumTo(f, n) = SumTo(g, n) + f[j] - g[j]
  <2> HIDE DEF f, g, n
  <2> QED BY <1>2, <1>3, <1>4, SumChanges
<1>8. f[j] \in Int /\ g[j] \in Int /\ j \in 1 .. n
  BY <1>2, <1>3
<1> DEFINE d == IF in THEN e * q ELSE 0
           u == f[j]
           v == g[j]
<1>9. d \in Int /\ u \in Int /\ v \in Int /\ u = v + d
  <2>1. e * q \in Int
    BY <1>2
  <2> HIDE DEF f, g, in, q
  <2> QED BY <1>6, <1>8, <2>1
<1>10. SumTo(f, n) = SumTo(g, n) + d
  <2>1. SumTo(g, n) \in Int
    BY <1>3
  <2> HIDE DEF d, u, v, n
  <2>2. SumTo(f, n) = SumTo(g, n) + u - v
    BY <1>7 DEF u, v
  <2> QED BY <1>9, <2>1, <2>2
<1>11. With(active, j, e) = more /\ Added(j, e, t) = d
  BY DEF With, Added, more
<1> HIDE DEF d
<1>12. Total(more, InForce(t)) = Total(active, InForce(t)) + d
  BY <1>3, <1>10
<1> QED BY <1>1, <1>11, <1>12

-----------------------------------------------------------------------------
(* Building the index anew.                                                 *)

\* One event after the other.
NoEvents == [capacity |-> 0, usage |-> 0, points |-> <<>>]
ScanStep(c, active, times, before, t) ==
  [capacity |-> CapacityEvent(c, t, before.capacity),
   usage |-> before.usage - Ended(active, t) + Started(active, t),
   points |-> before.points \o
     (IF t \in times
      THEN <<Point(t, CapacityEvent(c, t, before.capacity)
                        - (before.usage - Ended(active, t) + Started(active, t)))>>
      ELSE <<>>)]
ScanOf(c, active, times, n) ==
  LET scan[t \in 0 .. n] ==
        LET before == IF t = 0 THEN NoEvents ELSE scan[t - 1]
        IN  ScanStep(c, active, times, before, t)
  IN  scan

\* The scan takes one step after the other.
LEMMA ScanRun ==
  ASSUME NEW c, NEW active, NEW times, NEW n \in Nat
  PROVE  LET scan == ScanOf(c, active, times, n)
         IN  /\ scan[0] = ScanStep(c, active, times, NoEvents, 0)
             /\ \A k \in 1 .. n : scan[k] = ScanStep(c, active, times, scan[k - 1], k)
<1> DEFINE Step(scan, k) == ScanStep(c, active, times, IF k = 0 THEN NoEvents ELSE scan[k - 1], k)
           Runs(scan, k) == scan = [l \in 0 .. k |-> Step(scan, l)]
           Bad == {k \in 0 .. n : ~ \E scan : Runs(scan, k)}
<1> HIDE DEF ScanStep, NoEvents
<1>1. Bad = {}
  <2>1. SUFFICES ASSUME Bad # {} PROVE FALSE
    OBVIOUS
  <2>2. PICK m \in Bad : \A k \in Bad : m <= k
    <3>1. Bad \in SUBSET Nat
      OBVIOUS
    <3> HIDE DEF Bad
    <3> QED BY <2>1, <3>1, LeastNatural
  <2>3. m # 0
    <3>1. Runs([l \in 0 .. 0 |-> ScanStep(c, active, times, NoEvents, 0)], 0)
      OBVIOUS
    <3> QED BY <3>1
  <2>4. m - 1 \in 0 .. n /\ m - 1 \notin Bad /\ m \in 1 .. n
    <3>1. m \in 0 .. n /\ m - 1 \in 0 .. n
      BY <2>3
    <3> HIDE DEF Bad
    <3> QED BY <2>2, <3>1
  <2>5. PICK scan : Runs(scan, m - 1)
    BY <2>4
  <2> DEFINE longer == [l \in 0 .. m |-> IF l = m THEN ScanStep(c, active, times, scan[m - 1], m) ELSE scan[l]]
  <2>6. ASSUME NEW l \in 0 .. m PROVE longer[l] = Step(longer, l)
    <3>1. CASE l = m
      <4>1. m - 1 \in 0 .. m /\ m - 1 # m /\ m # 0
        BY <2>4
      <4>2. longer[m - 1] = scan[m - 1] /\ longer[m] = ScanStep(c, active, times, scan[m - 1], m)
        BY <2>4, <4>1
      <4> HIDE DEF longer
      <4> QED BY <3>1, <4>1, <4>2
    <3>2. CASE l # m
      <4>1. l \in 0 .. m - 1 /\ (l # 0 => l - 1 \in 0 .. m /\ l - 1 # m)
        BY <2>4, <3>2
      <4>2. longer[l] = scan[l] /\ (l # 0 => longer[l - 1] = scan[l - 1])
        BY <3>2, <4>1
      <4>3. scan[l] = Step(scan, l)
        BY <2>5, <4>1
      <4> HIDE DEF longer
      <4> QED BY <4>2, <4>3
    <3> QED BY <3>1, <3>2
  <2>7. Runs(longer, m)
    <3> HIDE DEF Step
    <3>1. longer = [l \in 0 .. m |-> longer[l]]
      OBVIOUS
    <3> HIDE DEF longer
    <3> QED BY <2>6, <3>1
  <2> HIDE DEF Runs
  <2> QED BY <2>7
<1>2. \E scan : Runs(scan, n)
  <2>1. n \in 0 .. n
    OBVIOUS
  <2>2. n \notin Bad
    <3> HIDE DEF Bad
    <3> QED BY <1>1
  <2> HIDE DEF Runs
  <2> QED BY <2>1, <2>2
<1> DEFINE chosen == CHOOSE scan : Runs(scan, n)
<1>3. Runs(chosen, n)
  <2> HIDE DEF Runs
  <2> QED BY <1>2
<1>4. chosen[0] = ScanStep(c, active, times, NoEvents, 0)
      /\ \A k \in 1 .. n : chosen[k] = ScanStep(c, active, times, chosen[k - 1], k)
  <2> HIDE DEF chosen
  <2>1. \A k \in 0 .. n : chosen[k] = Step(chosen, k)
    BY <1>3
  <2>2. 0 \in 0 .. n /\ \A k \in 1 .. n : k \in 0 .. n /\ k # 0
    OBVIOUS
  <2> QED BY <2>1, <2>2
<1>5. ScanOf(c, active, times, n) = chosen
  BY Zenon DEF ScanOf, ScanStep, NoEvents
<1> HIDE DEF chosen
<1> QED BY <1>4, <1>5

\* The times of all events.
EventTimes(c, active) ==
  UNION ({{s.from, s.to} : s \in ToSet(c)} \cup
         {{Claim[k].from, Claim[k].to} : k \in {k \in Kind : active[k] > 0}})

\* The points of a rebuild are those that the scan has when it ends.
LEMMA RebuiltPointsAre ==
  ASSUME NEW c, NEW active
  PROVE  RebuiltPoints(c, active) = ScanOf(c, active, EventTimes(c, active), Horizon)[Horizon].points
BY Zenon DEF RebuiltPoints, ScanOf, ScanStep, NoEvents, EventTimes, Time

\* The times of events are the ends of segments and of active claims.
LEMMA EventTimesAre ==
  ASSUME NEW c \in Seq(Segments), NEW active \in [Kind -> Nat], NEW t
  PROVE  t \in EventTimes(c, active) <=>
           \/ \E k \in DOMAIN c : t = c[k].from \/ t = c[k].to
           \/ \E k \in Kind : active[k] > 0 /\ (t = Claim[k].from \/ t = Claim[k].to)
<1> DEFINE A == {{s.from, s.to} : s \in ToSet(c)}
           B == {{Claim[k].from, Claim[k].to} : k \in {k \in Kind : active[k] > 0}}
<1>1. t \in EventTimes(c, active) <=> (\E X \in A : t \in X) \/ (\E X \in B : t \in X)
  BY DEF EventTimes
<1> DEFINE Ends(s) == {s.from, s.to}
<1>2. \A s : t \in Ends(s) <=> t = s.from \/ t = s.to
  OBVIOUS
<1>3. \A X : X \in A <=> \E k \in DOMAIN c : X = Ends(c[k])
  <2>1. A = {Ends(s) : s \in ToSet(c)}
    OBVIOUS
  <2>2. \A s : s \in ToSet(c) <=> \E k \in DOMAIN c : s = c[k]
    BY DEF ToSet
  <2> HIDE DEF A, Ends
  <2> QED BY <2>1, <2>2
<1>4. \A X : X \in B <=> \E k \in Kind : active[k] > 0 /\ X = Ends(Claim[k])
  <2>1. B = {Ends(Claim[k]) : k \in {k \in Kind : active[k] > 0}}
    OBVIOUS
  <2> HIDE DEF B, Ends
  <2> QED BY <2>1
<1> HIDE DEF A, B, Ends
<1>5. (\E X \in A : t \in X) <=> \E k \in DOMAIN c : t = c[k].from \/ t = c[k].to
  BY <1>2, <1>3
<1>6. (\E X \in B : t \in X) <=>
        \E k \in Kind : active[k] > 0 /\ (t = Claim[k].from \/ t = Claim[k].to)
  BY <1>2, <1>4
<1> QED BY <1>1, <1>5, <1>6

\* Slack, by the definition of it: capacity less the claims in force.
SlackFrom(c, active, t) == CapacityAt(c, t) - Total(active, InForce(t))

\* What an event says of the capacity, after what was said before.
LEMMA EventIs ==
  ASSUME NEW c \in Seq(Segments), Disjoint(c), NEW t \in Int
  PROVE  CapacityEvent(c, t, CapacityAt(c, t - 1)) = CapacityAt(c, t)
<1>1. /\ \A k \in DOMAIN c : InSegment(c[k], t) => CapacityAt(c, t) = c[k].capacity
      /\ (\A k \in DOMAIN c : ~InSegment(c[k], t)) => CapacityAt(c, t) = 0
  BY CapacityIs
<1>2. /\ \A k \in DOMAIN c : InSegment(c[k], t - 1) => CapacityAt(c, t - 1) = c[k].capacity
      /\ (\A k \in DOMAIN c : ~InSegment(c[k], t - 1)) => CapacityAt(c, t - 1) = 0
  <2> DEFINE s == t - 1
  <2>1. s \in Int
    OBVIOUS
  <2> HIDE DEF s
  <2>2. /\ \A k \in DOMAIN c : InSegment(c[k], s) => CapacityAt(c, s) = c[k].capacity
        /\ (\A k \in DOMAIN c : ~InSegment(c[k], s)) => CapacityAt(c, s) = 0
    BY <2>1, CapacityIs
  <2> QED BY <2>2 DEF s
<1>3. /\ DOMAIN c = 1 .. Len(c) /\ Len(c) \in Nat
      /\ \A k \in DOMAIN c : c[k].from \in Int /\ c[k].to \in Int /\ c[k].from < c[k].to
  BY CurveFacts
<1>4. CASE \E k \in DOMAIN c : c[k].from = t
  <2> DEFINE k == CHOOSE k \in DOMAIN c : c[k].from = t
  <2>1. k \in DOMAIN c /\ c[k].from = t
    BY <1>4
  <2>2. CapacityEvent(c, t, CapacityAt(c, t - 1)) = c[k].capacity
    BY <1>4 DEF CapacityEvent
  <2> HIDE DEF k
  <2>3. InSegment(c[k], t)
    BY <1>3, <2>1 DEF InSegment
  <2> QED BY <1>1, <2>1, <2>2, <2>3
<1>5. CASE ~(\E k \in DOMAIN c : c[k].from = t) /\ \E k \in DOMAIN c : c[k].to = t
  <2>1. PICK j \in DOMAIN c : c[j].to = t
    BY <1>5
  <2>2. CapacityEvent(c, t, CapacityAt(c, t - 1)) = 0
    BY <1>5 DEF CapacityEvent
  <2>3. ASSUME NEW k \in DOMAIN c PROVE ~InSegment(c[k], t)
    <3>1. SUFFICES ASSUME InSegment(c[k], t) PROVE FALSE
      OBVIOUS
    <3>2. c[k].from < t /\ t < c[k].to
      BY <1>3, <1>5, <3>1 DEF InSegment
    <3>3. j < k \/ k < j \/ j = k
      BY <1>3
    <3>4. /\ c[j].from \in Int /\ c[j].to \in Int /\ c[j].from < c[j].to
          /\ c[k].from \in Int /\ c[k].to \in Int
      BY <1>3
    <3>5. (j < k => c[j].to <= c[k].from) /\ (k < j => c[k].to <= c[j].from)
      BY DEF Disjoint
    <3> QED BY <2>1, <3>2, <3>3, <3>4, <3>5
  <2> QED BY <1>1, <2>2, <2>3
<1>6. CASE \A k \in DOMAIN c : c[k].from # t /\ c[k].to # t
  <2>1. CapacityEvent(c, t, CapacityAt(c, t - 1)) = CapacityAt(c, t - 1)
    BY <1>6 DEF CapacityEvent
  <2>2. \A k \in DOMAIN c : InSegment(c[k], t) <=> InSegment(c[k], t - 1)
    BY <1>3, <1>6 DEF InSegment
  <2> QED BY <1>1, <1>2, <2>1, <2>2
<1> QED BY <1>4, <1>5, <1>6

\* Without an event, slack does not change.
LEMMA QuietIs ==
  ASSUME NEW c \in Seq(Segments), Disjoint(c), NEW active \in [Kind -> Nat], NEW t \in Int,
         t \notin EventTimes(c, active)
  PROVE  SlackFrom(c, active, t) = SlackFrom(c, active, t - 1)
<1>1. /\ \A k \in DOMAIN c : c[k].from # t /\ c[k].to # t
      /\ \A k \in Kind : active[k] > 0 => Claim[k].from # t /\ Claim[k].to # t
  BY EventTimesAre
<1>2. CapacityAt(c, t) = CapacityAt(c, t - 1)
  <2>1. CapacityEvent(c, t, CapacityAt(c, t - 1)) = CapacityAt(c, t - 1)
    BY <1>1 DEF CapacityEvent
  <2> QED BY <2>1, EventIs
<1>3. ASSUME NEW S \in SUBSET Kind, \A k \in S : active[k] = 0 PROVE Total(active, S) = 0
  <2> DEFINE f == Taken(active, S)
             n == Len(Claim)
  <2>1. n \in Nat /\ f \in [1 .. n -> Int] /\ Total(active, S) = SumTo(f, n)
    BY KindFacts, TakenIs
  <2>2. \A k \in 1 .. n : f[k] = 0
    <3>1. \A k \in Kind : k \in S => active[k] * Claim[k].quantity = 0
      BY <1>3, KindFacts
    <3> QED BY <3>1, KindFacts DEF Taken
  <2> HIDE DEF f, n
  <2> QED BY <2>1, <2>2, SumOfZeros
<1>4. \A k \in Kind : active[k] \in Nat
  OBVIOUS
<1>5. Started(active, t) = 0
  <2>1. Starting(t) \in SUBSET Kind /\ \A k \in Starting(t) : active[k] = 0
    BY <1>1, <1>4 DEF Starting
  <2>2. Total(active, Starting(t)) = 0
    BY <1>3, <2>1
  <2> QED BY <2>2 DEF Started, Starting
<1>6. Ended(active, t) = 0
  <2>1. Ending(t) \in SUBSET Kind /\ \A k \in Ending(t) : active[k] = 0
    BY <1>1, <1>4 DEF Ending
  <2>2. Total(active, Ending(t)) = 0
    BY <1>3, <2>1
  <2> QED BY <2>2 DEF Ended, Ending
<1>7. Total(active, InForce(t - 1)) \in Nat
  BY TakenIs
<1>8. Total(active, InForce(t)) = Total(active, InForce(t - 1))
  BY <1>5, <1>6, <1>7, UsageChanges
<1> QED BY <1>2, <1>8 DEF SlackFrom

\* Before all times there is neither capacity nor usage.
LEMMA BeforeTime ==
  ASSUME NEW c \in Seq(Segments), Disjoint(c), NEW active \in [Kind -> Nat]
  PROVE  /\ CapacityAt(c, -1) = 0 /\ Total(active, InForce(-1)) = 0
         /\ SlackFrom(c, active, -1) = 0
<1>1. -1 \in Int /\ \A t \in Time : ~(t <= -1)
  BY TimesAreIntegers
<1>2. CapacityAt(c, -1) = 0
  <2>1. \A k \in DOMAIN c : ~InSegment(c[k], -1)
    BY <1>1, CurveFacts DEF InSegment
  <2> QED BY <1>1, <2>1, CapacityIs
<1>3. Total(active, InForce(-1)) = 0
  <2> DEFINE S == InForce(-1)
             f == Taken(active, S)
             n == Len(Claim)
  <2>1. n \in Nat /\ f \in [1 .. n -> Int] /\ Total(active, S) = SumTo(f, n)
    BY KindFacts, TakenIs
  <2>2. \A k \in 1 .. n : f[k] = 0
    <3>1. \A k \in Kind : k \notin S
      BY <1>1, KindFacts DEF InForce
    <3> QED BY <3>1, KindFacts DEF Taken
  <2> HIDE DEF f, n
  <2> QED BY <2>1, <2>2, SumOfZeros
<1> QED BY <1>2, <1>3 DEF SlackFrom

\* A later point.
LEMMA PointAppended ==
  ASSUME NEW xs \in Seq(PointSet), InTime(xs), NEW p \in PointSet, \A q \in ToSet(xs) : q.at < p.at
  PROVE  /\ xs \o <<p>> \in Seq(PointSet) /\ InTime(xs \o <<p>>)
         /\ ToSet(xs \o <<p>>) = ToSet(xs) \cup {p}
<1> DEFINE ys == <<p>>
           zs == xs \o ys
           n == Len(xs)
<1>1. ys \in Seq(PointSet) /\ Len(ys) = 1 /\ ys[1] = p
  OBVIOUS
<1> HIDE DEF ys
<1>2. /\ zs \in Seq(PointSet) /\ Len(zs) = n + Len(ys)
      /\ n \in Nat /\ DOMAIN xs = 1 .. n /\ DOMAIN zs = 1 .. n + Len(ys)
      /\ \A k \in 1 .. n : zs[k] = xs[k]
      /\ \A k \in 1 .. Len(ys) : zs[n + k] = ys[k]
  BY <1>1, JoinedEntries
<1>3. zs[n + 1] = p /\ DOMAIN zs = 1 .. n + 1
  <2>1. 1 \in 1 .. Len(ys)
    BY <1>1
  <2> HIDE DEF zs, n
  <2> QED BY <1>1, <1>2, <2>1
<1> HIDE DEF zs, n
<1>4. \A k \in 1 .. n + 1 : k \in 1 .. n \/ k = n + 1
  BY <1>2
<1>5. InTime(zs)
  <2>1. SUFFICES ASSUME NEW i \in DOMAIN zs, NEW j \in DOMAIN zs, i < j PROVE zs[i].at < zs[j].at
    BY DEF InTime
  <2>2. i \in 1 .. n
    BY <1>2, <1>3, <2>1
  <2>3. CASE j \in 1 .. n
    BY <1>2, <2>1, <2>2, <2>3 DEF InTime
  <2>4. CASE j = n + 1
    <3>1. xs[i] \in ToSet(xs)
      BY <1>2, <2>2 DEF ToSet
    <3> QED BY <1>2, <1>3, <2>2, <2>4, <3>1
  <2> QED BY <1>3, <1>4, <2>3, <2>4
<1>6. ToSet(zs) = ToSet(xs) \cup {p}
  <2>1. \A x : x \in ToSet(zs) <=> \E k \in 1 .. n + 1 : x = zs[k]
    BY <1>3 DEF ToSet
  <2>2. \A x : x \in ToSet(xs) <=> \E k \in 1 .. n : x = xs[k]
    BY <1>2 DEF ToSet
  <2>3. \A k \in 1 .. n : k \in 1 .. n + 1
    BY <1>2
  <2>4. n + 1 \in 1 .. n + 1
    BY <1>2
  <2>5. \A x : x \in ToSet(zs) <=> x \in ToSet(xs) \/ x = p
    BY <1>2, <1>3, <1>4, <2>1, <2>2, <2>3, <2>4
  <2> QED BY <2>5
<1> QED BY <1>2, <1>5, <1>6 DEF zs, ys

\* What is carried to time t: the state of the time before it, and the points up to it.
Carried(c, active, s, t) ==
  /\ s.capacity = CapacityAt(c, t - 1)
  /\ s.usage = Total(active, InForce(t - 1))
  /\ s.points \in Seq(PointSet) /\ InTime(s.points)
  /\ \A p \in PointSet : p \in ToSet(s.points) <=>
       p.at \in EventTimes(c, active) /\ p.at < t /\ p.slack = SlackFrom(c, active, p.at)

\* A step of the scan carries capacity, usage and points to the next time.
LEMMA ScanCarries ==
  ASSUME NEW c \in Seq(Segments), Disjoint(c), NEW active \in [Kind -> Nat], NEW t \in Time,
         NEW before, Carried(c, active, before, t)
  PROVE  Carried(c, active, ScanStep(c, active, EventTimes(c, active), before, t), t + 1)
<1> DEFINE times == EventTimes(c, active)
           capacity == CapacityEvent(c, t, before.capacity)
           usage == before.usage - Ended(active, t) + Started(active, t)
           slack == capacity - usage
           new == IF t \in times THEN <<Point(t, slack)>> ELSE <<>>
           points == before.points \o new
           s == ScanStep(c, active, times, before, t)
<1>1. s.capacity = capacity /\ s.usage = usage /\ s.points = points
  BY DEF ScanStep
<1>2. t \in Int /\ t + 1 - 1 = t
  BY TimesAreIntegers
<1>3. capacity = CapacityAt(c, t)
  BY <1>2, EventIs DEF Carried
<1>4. usage = Total(active, InForce(t))
  BY <1>2, UsageChanges DEF Carried
<1>5. slack = SlackFrom(c, active, t) /\ slack \in Int
  <2>1. CapacityAt(c, t) \in Int
    <3>1. \A k \in DOMAIN c : c[k].capacity \in Int
      BY CurveFacts
    <3> QED BY <1>2, <3>1, CapacityIs
  <2>2. Total(active, InForce(t)) \in Int
    BY TakenIs
  <2> QED BY <1>3, <1>4, <2>1, <2>2 DEF SlackFrom
<1> DEFINE old == before.points
<1>6. /\ old \in Seq(PointSet) /\ InTime(old)
      /\ \A p \in PointSet : p \in ToSet(old) <=>
           p.at \in times /\ p.at < t /\ p.slack = SlackFrom(c, active, p.at)
      /\ ToSet(old) \in SUBSET PointSet
  <2>1. /\ old \in Seq(PointSet) /\ InTime(old)
        /\ \A p \in PointSet : p \in ToSet(old) <=>
             p.at \in times /\ p.at < t /\ p.slack = SlackFrom(c, active, p.at)
    BY DEF Carried
  <2>2. ToSet(old) \in SUBSET PointSet
    BY <2>1 DEF ToSet
  <2> QED BY <2>1, <2>2
<1> HIDE DEF s, times, capacity, usage, slack, old
<1>7. /\ points \in Seq(PointSet) /\ InTime(points)
      /\ \A p \in PointSet : p \in ToSet(points) <=>
           p.at \in times /\ p.at < t + 1 /\ p.slack = SlackFrom(c, active, p.at)
  <2>1. CASE t \in times
    <3> DEFINE q == Point(t, slack)
    <3>1. q \in PointSet /\ q.at = t /\ q.slack = slack
      BY <1>5 DEF Point, PointSet
    <3>2. points = old \o <<q>>
      BY <2>1 DEF old
    <3> HIDE DEF q, new, points
    <3>3. \A p \in ToSet(old) : p.at < q.at
      BY <1>6, <3>1
    <3>4. points \in Seq(PointSet) /\ InTime(points) /\ ToSet(points) = ToSet(old) \cup {q}
      BY <1>6, <3>1, <3>2, <3>3, PointAppended
    <3>5. ASSUME NEW p \in PointSet
          PROVE  p \in ToSet(points) <=>
                   p.at \in times /\ p.at < t + 1 /\ p.slack = SlackFrom(c, active, p.at)
      <4>1. p.at \in Int
        BY TimesAreIntegers
      <4>2. p.at < t + 1 <=> p.at < t \/ p.at = t
        BY <1>2, <4>1
      <4>3. p = q <=> p.at = t /\ p.slack = slack
        BY <3>1 DEF PointSet
      <4> QED BY <1>2, <1>5, <1>6, <2>1, <3>4, <4>1, <4>2, <4>3
    <3> QED BY <3>4, <3>5
  <2>2. CASE t \notin times
    <3>1. points = old
      <4>1. new = <<>>
        BY <2>2
      <4> HIDE DEF new
      <4>2. old \o <<>> = old
        BY <1>6
      <4> QED BY <4>1, <4>2 DEF old
    <3> HIDE DEF new, points
    <3>2. ASSUME NEW p \in PointSet
          PROVE  p \in ToSet(points) <=>
                   p.at \in times /\ p.at < t + 1 /\ p.slack = SlackFrom(c, active, p.at)
      <4>1. p.at \in Int
        BY TimesAreIntegers
      <4>2. p.at < t + 1 <=> p.at < t \/ p.at = t
        BY <1>2, <4>1
      <4> QED BY <1>6, <2>2, <3>1, <4>2
    <3> QED BY <1>6, <3>1, <3>2
  <2> QED BY <2>1, <2>2
<1> HIDE DEF points
<1> DEFINE u == t + 1
<1>8. u - 1 = t
  BY <1>2
<1>9. /\ s.capacity = CapacityAt(c, u - 1) /\ s.usage = Total(active, InForce(u - 1))
      /\ s.points \in Seq(PointSet) /\ InTime(s.points)
      /\ \A p \in PointSet : p \in ToSet(s.points) <=>
           p.at \in EventTimes(c, active) /\ p.at < u /\ p.slack = SlackFrom(c, active, p.at)
  <2>1. s.capacity = CapacityAt(c, u - 1) /\ s.usage = Total(active, InForce(u - 1))
    <3> HIDE DEF u
    <3> QED BY <1>1, <1>3, <1>4, <1>8
  <2>2. /\ points \in Seq(PointSet) /\ InTime(points)
        /\ \A p \in PointSet : p \in ToSet(points) <=>
             p.at \in EventTimes(c, active) /\ p.at < u /\ p.slack = SlackFrom(c, active, p.at)
    BY <1>7, Zenon DEF times
  <2> HIDE DEF u
  <2> QED BY <1>1, <2>1, <2>2, Zenon
<1> HIDE DEF u
<1>10. Carried(c, active, s, u)
  BY <1>9 DEF Carried
<1> QED BY <1>10 DEF s, times, u

\* A rebuild has a point at the time of every event, of the slack of that time.
LEMMA RebuiltPointsAreExact ==
  ASSUME NEW c \in Seq(Segments), Disjoint(c), NEW active \in [Kind -> Nat]
  PROVE  LET points == RebuiltPoints(c, active) IN
         /\ points \in Seq(PointSet) /\ InTime(points)
         /\ \A p \in PointSet : p \in ToSet(points) <=>
              p.at \in EventTimes(c, active) /\ p.slack = SlackFrom(c, active, p.at)
<1> DEFINE times == EventTimes(c, active)
           n == Horizon
           scan == ScanOf(c, active, times, n)
           Good(k) == Carried(c, active, scan[k], k + 1)
           Bad == {k \in 0 .. n : ~Good(k)}
<1>1. n \in Nat /\ Time = 0 .. n
  BY TimelineConstants DEF Time
<1>2. /\ scan[0] = ScanStep(c, active, times, NoEvents, 0)
      /\ \A k \in 1 .. n : scan[k] = ScanStep(c, active, times, scan[k - 1], k)
  BY <1>1, ScanRun
<1>3. Carried(c, active, NoEvents, 0)
  <2>1. 0 - 1 = -1
    OBVIOUS
  <2>2. NoEvents.capacity = CapacityAt(c, 0 - 1) /\ NoEvents.usage = Total(active, InForce(0 - 1))
    BY <2>1, BeforeTime DEF NoEvents
  <2>3. NoEvents.points = <<>>
    BY DEF NoEvents
  <2>4. <<>> \in Seq(PointSet) /\ InTime(<<>>) /\ ToSet(<<>>) = {}
    BY DEF InTime, ToSet
  <2>5. \A p \in PointSet : ~(p.at < 0)
    BY TimesAreIntegers
  <2> HIDE DEF times
  <2> QED BY <2>2, <2>3, <2>4, <2>5 DEF Carried
<1> HIDE DEF scan
<1>4. Bad = {}
  <2>1. SUFFICES ASSUME Bad # {} PROVE FALSE
    OBVIOUS
  <2>2. PICK m \in Bad : \A k \in Bad : m <= k
    <3>1. Bad \in SUBSET Nat
      BY <1>1
    <3> HIDE DEF Bad
    <3> QED BY <2>1, <3>1, LeastNatural
  <2>3. m \in 0 .. n /\ ~Good(m)
    OBVIOUS
  <2>4. m # 0
    <3>1. Carried(c, active, scan[0], 0 + 1)
      <4>1. 0 \in Time
        BY <1>1
      <4> QED BY <1>2, <1>3, <4>1, ScanCarries
    <3> QED BY <2>3, <3>1
  <2>5. m \in 1 .. n /\ m - 1 \in 0 .. n /\ ~(m <= m - 1) /\ m - 1 + 1 = m /\ m \in Time
    BY <1>1, <2>3, <2>4
  <2>6. Carried(c, active, scan[m - 1], m)
    <3>1. Good(m - 1)
      BY <2>2, <2>5
    <3> QED BY <2>5, <3>1
  <2>7. scan[m] = ScanStep(c, active, times, scan[m - 1], m)
    BY <1>2, <2>5
  <2>8. Carried(c, active, scan[m], m + 1)
    BY <2>5, <2>6, <2>7, ScanCarries
  <2> QED BY <2>3, <2>8
<1>5. Carried(c, active, scan[n], n + 1)
  <2>1. n \in 0 .. n
    BY <1>1
  <2> HIDE DEF Good
  <2>2. Good(n)
    BY <1>4, <2>1 DEF Bad
  <2> QED BY <2>2 DEF Good
<1>6. RebuiltPoints(c, active) = scan[n].points
  BY RebuiltPointsAre DEF scan
<1>7. \A p \in PointSet : p.at < n + 1
  <2>1. \A p \in PointSet : p.at \in 0 .. n
    BY <1>1, TimesAreIntegers
  <2> HIDE DEF n
  <2> QED BY <1>1, <2>1
<1> QED BY <1>5, <1>6, <1>7 DEF Carried

\* Multiples of the size of a block.
LEMMA Multiples ==
  ASSUME NEW M \in Nat \ {0}
  PROVE  /\ 0 * M = 0
         /\ \A k \in Nat : k * M \in Nat /\ (k + 1) * M = k * M + M
         /\ \A j, k \in Nat : j <= k => j * M <= k * M
<1>1. \A j, k \in Nat : j * M \in Nat
  OBVIOUS
<1>2. ASSUME NEW j \in Nat, NEW k \in Nat, j <= k PROVE j * M <= k * M
  <2> DEFINE d == k - j
  <2>1. d \in Nat /\ k = j + d
    BY <1>2
  <2> HIDE DEF d
  <2>2. k * M = j * M + d * M
    BY <2>1
  <2>3. d * M \in Nat /\ j * M \in Nat
    BY <1>1, <2>1
  <2> QED BY <2>2, <2>3
<1> QED BY <1>1, <1>2

\* How many blocks are needed.
LEMMA BlocksNeeded ==
  ASSUME NEW L \in Nat, NEW M \in Nat \ {0}
  PROVE  LET n == (L + M - 1) \div M IN
         n \in Nat /\ L <= n * M /\ (n > 0 => (n - 1) * M < L)
<1> DEFINE n == (L + M - 1) \div M
           r == (L + M - 1) % M
<1>1. n \in Int /\ r \in 0 .. M - 1 /\ L + M - 1 = M * n + r
  OBVIOUS
<1> HIDE DEF n, r
<1>2. M * n = n * M /\ n * M \in Int
  BY <1>1
<1>3. n \in Nat
  <2>1. SUFFICES ASSUME n < 0 PROVE FALSE
    BY <1>1
  <2> DEFINE d == -n - 1
  <2>2. d \in Nat /\ n = -d - 1
    BY <1>1, <2>1
  <2>3. d * M \in Nat
    BY <2>2
  <2>4. n * M = -(d * M) - M
    BY <2>2
  <2> HIDE DEF d
  <2> QED BY <1>1, <1>2, <2>3, <2>4
<1>4. L <= n * M
  BY <1>1, <1>2
<1>5. ASSUME n > 0 PROVE (n - 1) * M < L
  <2>1. (n - 1) * M = n * M - M
    BY <1>1
  <2> QED BY <1>1, <1>2, <2>1
<1> QED BY <1>3, <1>4, <1>5 DEF n

\* The first and the last point of the k-th of them.
ChunkFrom(k) == (k - 1) * MaxPoints + 1
ChunkTo(k, L) == Min({k * MaxPoints, L})

\* The chunks divide the points: none is empty or too long, none is in two.
LEMMA ChunkBounds ==
  ASSUME NEW L \in Nat
  PROVE  LET n == (L + MaxPoints - 1) \div MaxPoints IN
         /\ n \in Nat
         /\ \A k \in 1 .. n : /\ ChunkFrom(k) \in 1 .. L /\ ChunkTo(k, L) \in 1 .. L
                              /\ ChunkFrom(k) <= ChunkTo(k, L)
                              /\ ChunkTo(k, L) - ChunkFrom(k) + 1 <= MaxPoints
         /\ \A j, k \in 1 .. n : j < k => ChunkTo(j, L) < ChunkFrom(k)
         /\ \A i \in 1 .. L : \E k \in 1 .. n : i \in ChunkFrom(k) .. ChunkTo(k, L)
<1> DEFINE M == MaxPoints
           n == (L + M - 1) \div M
           f(k) == k * M
<1>1. M \in Nat \ {0}
  BY TimelineConstants
<1>2. /\ f(0) = 0
      /\ \A k \in Nat : f(k) \in Nat /\ f(k + 1) = f(k) + M
      /\ \A j, k \in Nat : j <= k => f(j) <= f(k)
  BY <1>1, Multiples
<1>3. n \in Nat /\ L <= f(n) /\ (n > 0 => f(n - 1) < L)
  <2> HIDE DEF M
  <2> QED BY <1>1, BlocksNeeded
<1>4. \A k : ChunkFrom(k) = f(k - 1) + 1
  BY DEF ChunkFrom
<1>5. \A k : ChunkTo(k, L) = Min({f(k), L})
  BY DEF ChunkTo
<1> HIDE DEF M, n, f
<1>6. ASSUME NEW k \in Nat PROVE ChunkTo(k, L) = IF f(k) <= L THEN f(k) ELSE L
  <2> DEFINE a == f(k)
             m == IF a <= L THEN a ELSE L
             S == {a, L}
  <2>1. a \in Int /\ L \in Int
    BY <1>2
  <2> HIDE DEF a
  <2>2. S \in SUBSET Int /\ IsExtreme("minimum", m, S)
    BY <2>1 DEF IsExtreme
  <2> HIDE DEF m, S
  <2>3. Extreme("minimum", S) = m
    BY <2>2, ExtremeIs DEF Extremes
  <2>4. Min(S) = m
    BY <2>3 DEF Extreme
  <2> QED BY <1>5, <2>4 DEF m, S, a
<1>7. ASSUME NEW k \in 1 .. n
      PROVE  /\ f(k) = f(k - 1) + M /\ f(k - 1) \in Nat /\ f(k) \in Nat
             /\ f(k - 1) < L
  <2> DEFINE j == k - 1
             m == n - 1
  <2>1. j \in Nat /\ k = j + 1 /\ m \in Nat /\ j <= m /\ n > 0
    BY <1>3
  <2> HIDE DEF j, m
  <2>2. f(k) = f(j) + M /\ f(j) \in Nat /\ f(k) \in Nat /\ f(j) <= f(m) /\ f(m) \in Nat
    BY <1>2, <2>1
  <2>3. f(m) < L
    BY <1>3, <2>1 DEF m
  <2> QED BY <2>2, <2>3 DEF j
<1>8. ASSUME NEW k \in 1 .. n
      PROVE  /\ ChunkFrom(k) \in 1 .. L /\ ChunkTo(k, L) \in 1 .. L
             /\ ChunkFrom(k) <= ChunkTo(k, L)
             /\ ChunkTo(k, L) - ChunkFrom(k) + 1 <= M
  <2> DEFINE x == f(k - 1)
             y == f(k)
             p == ChunkFrom(k)
             q == ChunkTo(k, L)
  <2>1. y = x + M /\ x \in Nat /\ x < L
    BY <1>7
  <2>2. p = x + 1 /\ q = IF y <= L THEN y ELSE L
    <3>1. k \in Nat
      BY <1>3
    <3> QED BY <1>4, <1>6, <3>1
  <2> HIDE DEF x, y, p, q
  <2>3. p \in 1 .. L /\ q \in 1 .. L /\ p <= q /\ q - p + 1 <= M
    BY <1>1, <2>1, <2>2
  <2> QED BY <2>3 DEF p, q
<1>9. ASSUME NEW j \in 1 .. n, NEW k \in 1 .. n, j < k PROVE ChunkTo(j, L) < ChunkFrom(k)
  <2> DEFINE h == k - 1
             x == f(j)
             y == f(h)
  <2>1. j \in Nat /\ h \in Nat /\ j <= h
    BY <1>3, <1>9
  <2>2. x <= y /\ x \in Nat /\ y \in Nat
    <3> HIDE DEF h
    <3> QED BY <1>2, <2>1
  <2>3. ChunkFrom(k) = y + 1
    BY <1>4
  <2>4. ChunkTo(j, L) = IF x <= L THEN x ELSE L
    BY <1>6, <2>1
  <2> HIDE DEF x, y
  <2> QED BY <2>2, <2>3, <2>4
<1>10. ASSUME NEW i \in 1 .. L PROVE \E k \in 1 .. n : i \in ChunkFrom(k) .. ChunkTo(k, L)
  <2> DEFINE S == {k \in 0 .. n : i <= f(k)}
  <2>1. n \in S /\ S \in SUBSET Nat
    <3>1. f(n) \in Nat
      BY <1>2, <1>3
    <3> QED BY <1>3, <3>1
  <2>2. PICK k \in S : \A l \in S : k <= l
    <3> HIDE DEF S
    <3> QED BY <2>1, LeastNatural
  <2>3. k \in 0 .. n /\ i <= f(k)
    OBVIOUS
  <2>4. k # 0
    BY <1>2, <2>3
  <2> DEFINE h == k - 1
  <2>5. h \in 0 .. n /\ ~(k <= h) /\ k \in 1 .. n /\ k \in Nat
    BY <1>3, <2>3, <2>4
  <2>6. ~(i <= f(h))
    <3>1. h \notin S
      <4> HIDE DEF S
      <4> QED BY <2>2, <2>5
    <3> HIDE DEF h
    <3> QED BY <2>5, <3>1
  <2>7. f(h) \in Nat /\ f(k) \in Nat
    BY <1>7, <2>5
  <2>8. ChunkFrom(k) = f(h) + 1 /\ ChunkTo(k, L) = IF f(k) <= L THEN f(k) ELSE L
    BY <1>4, <1>6, <2>5
  <2> HIDE DEF h, S
  <2>9. i \in ChunkFrom(k) .. ChunkTo(k, L)
    BY <2>3, <2>6, <2>7, <2>8
  <2> QED BY <2>5, <2>9
<1> QED BY <1>3, <1>8, <1>9, <1>10 DEF n, M

\* A part of points in order.
LEMMA PartOfPoints ==
  ASSUME NEW points, Ordered(points), NEW a \in 1 .. Len(points), NEW b \in 1 .. Len(points), a <= b
  PROVE  LET part == SubSeq(points, a, b) IN
         /\ Ordered(part) /\ Len(part) = b - a + 1
         /\ \A p : p \in ToSet(part) <=> \E i \in a .. b : p = points[i]
<1> DEFINE part == SubSeq(points, a, b)
           n == b - a + 1
<1>1. points \in Seq(PointSet) /\ InTime(points) /\ DOMAIN points = 1 .. Len(points) /\ Len(points) \in Nat
      /\ \A i \in DOMAIN points : points[i].slack \in Slack
  BY DEF Ordered
<1>2. a \in Nat \ {0} /\ b \in 0 .. Len(points) /\ a <= b + 1 /\ b \in Nat
  BY <1>1
<1>3. /\ part \in Seq(PointSet) /\ Len(part) = b - a + 1 /\ DOMAIN part = 1 .. b - a + 1
      /\ \A k \in 1 .. b - a + 1 : part[k] = points[a + k - 1] /\ a + k - 1 \in DOMAIN points
      /\ \A k \in a .. b : k - a + 1 \in 1 .. b - a + 1 /\ part[k - a + 1] = points[k]
  BY <1>1, <1>2, PartEntries
<1>4. n \in Nat
  BY <1>2
<1> HIDE DEF part
<1>5. DOMAIN part = 1 .. n /\ \A k \in 1 .. n : part[k] = points[a + k - 1] /\ a + k - 1 \in DOMAIN points
  BY <1>3
<1>6. \A k \in a .. b : k - a + 1 \in 1 .. n /\ part[k - a + 1] = points[k]
  BY <1>3
<1>7. \A k \in 1 .. n : a + k - 1 \in a .. b
  BY <1>2
<1> HIDE DEF n
<1>8. InTime(part)
  <2>1. SUFFICES ASSUME NEW i \in 1 .. n, NEW j \in 1 .. n, i < j PROVE part[i].at < part[j].at
    BY <1>5 DEF InTime
  <2> DEFINE x == a + i - 1
             y == a + j - 1
  <2>2. x < y /\ x \in DOMAIN points /\ y \in DOMAIN points /\ part[i] = points[x] /\ part[j] = points[y]
    BY <1>2, <1>4, <1>5, <2>1
  <2> HIDE DEF x, y
  <2> QED BY <1>1, <2>2 DEF InTime
<1>9. Ordered(part)
  <2>1. \A i \in DOMAIN part : part[i].slack \in Slack
    BY <1>1, <1>5
  <2> QED BY <1>3, <1>8, <2>1 DEF Ordered
<1>10. \A p : p \in ToSet(part) <=> \E i \in a .. b : p = points[i]
  <2>1. \A p : p \in ToSet(part) <=> \E k \in 1 .. n : p = part[k]
    BY <1>5 DEF ToSet
  <2>2. ASSUME NEW k \in 1 .. n PROVE \E i \in a .. b : part[k] = points[i]
    BY <1>5, <1>7
  <2>3. ASSUME NEW i \in a .. b PROVE \E k \in 1 .. n : points[i] = part[k]
    BY <1>6
  <2>4. ASSUME NEW p, p \in ToSet(part) PROVE \E i \in a .. b : p = points[i]
    <3>1. PICK k \in 1 .. n : p = part[k]
      BY <2>1, <2>4
    <3> QED BY <2>2, <3>1
  <2>5. ASSUME NEW p, NEW i \in a .. b, p = points[i] PROVE p \in ToSet(part)
    BY <2>1, <2>3, <2>5
  <2> QED BY <2>4, <2>5
<1> QED BY <1>3, <1>9, <1>10 DEF part

\* Blocks made of points in order are a timeline of these points.
LEMMA ChunksAre ==
  ASSUME NEW points, Ordered(points)
  PROVE  Kept(Chunks(points)) /\ Shown(Chunks(points)) = ToSet(points)
<1> DEFINE L == Len(points)
           n == (L + MaxPoints - 1) \div MaxPoints
           Part(k) == SubSeq(points, ChunkFrom(k), ChunkTo(k, L))
           bs == Chunks(points)
<1>1. L \in Nat /\ DOMAIN points = 1 .. L
  BY DEF Ordered
<1>2. /\ n \in Nat
      /\ \A k \in 1 .. n : /\ ChunkFrom(k) \in 1 .. L /\ ChunkTo(k, L) \in 1 .. L
                           /\ ChunkFrom(k) <= ChunkTo(k, L)
                           /\ ChunkTo(k, L) - ChunkFrom(k) + 1 <= MaxPoints
      /\ \A j, k \in 1 .. n : j < k => ChunkTo(j, L) < ChunkFrom(k)
      /\ \A i \in 1 .. L : \E k \in 1 .. n : i \in ChunkFrom(k) .. ChunkTo(k, L)
  BY <1>1, ChunkBounds
<1>3. bs = [k \in 1 .. n |-> BlockOf(Part(k))]
  BY DEF Chunks, ChunkFrom, ChunkTo
<1> HIDE DEF n, bs
<1>4. ASSUME NEW k \in 1 .. n
      PROVE  /\ Ordered(Part(k)) /\ Len(Part(k)) \in 1 .. MaxPoints
             /\ \A p : p \in ToSet(Part(k)) <=> \E i \in ChunkFrom(k) .. ChunkTo(k, L) : p = points[i]
  <2> DEFINE a == ChunkFrom(k)
             b == ChunkTo(k, L)
  <2>1. a \in 1 .. L /\ b \in 1 .. L /\ a <= b /\ b - a + 1 <= MaxPoints
    BY <1>2
  <2> HIDE DEF a, b
  <2>2. /\ Ordered(SubSeq(points, a, b)) /\ Len(SubSeq(points, a, b)) = b - a + 1
        /\ \A p : p \in ToSet(SubSeq(points, a, b)) <=> \E i \in a .. b : p = points[i]
    BY <2>1, PartOfPoints
  <2>3. b - a + 1 \in 1 .. MaxPoints
    BY <1>1, <2>1, TimelineConstants
  <2> QED BY <2>2, <2>3 DEF a, b
<1> HIDE DEF Part
<1>5. \A k \in 1 .. n : /\ BlockOK(bs[k]) /\ Storable(bs[k])
                        /\ Effective(bs[k]) = Part(k) /\ bs[k].points = Part(k)
  BY <1>3, <1>4, NewBlock
<1>6. bs \in Seq(BlockRecord) /\ DOMAIN bs = 1 .. n
  <2>1. bs \in [1 .. n -> BlockRecord]
    BY <1>3, <1>5 DEF BlockOK
  <2> QED BY <1>2, <2>1, RowIsSequence
<1>7. ASSUME NEW j \in 1 .. n, NEW k \in 1 .. n, j < k PROVE Apart(bs[j], bs[k])
  <2>1. ASSUME NEW p \in ToSet(Part(j)), NEW q \in ToSet(Part(k)) PROVE p.at < q.at
    <3>1. PICK x \in ChunkFrom(j) .. ChunkTo(j, L) : p = points[x]
      BY <1>4
    <3>2. PICK y \in ChunkFrom(k) .. ChunkTo(k, L) : q = points[y]
      BY <1>4
    <3>3. /\ ChunkTo(j, L) < ChunkFrom(k) /\ ChunkTo(j, L) \in 1 .. L /\ ChunkFrom(k) \in 1 .. L
          /\ ChunkFrom(j) \in 1 .. L /\ ChunkTo(k, L) \in 1 .. L
      BY <1>2, <1>7
    <3>4. x < y /\ x \in DOMAIN points /\ y \in DOMAIN points
      BY <1>1, <3>3
    <3> QED BY <3>1, <3>2, <3>4 DEF Ordered, InTime
  <2>2. /\ \A i \in DOMAIN Part(j) : Part(j)[i] \in ToSet(Part(j))
        /\ \A i \in DOMAIN Part(k) : Part(k)[i] \in ToSet(Part(k))
    BY DEF ToSet
  <2> QED BY <1>5, <2>1, <2>2 DEF Apart
<1>8. Kept(bs)
  BY <1>5, <1>6, <1>7 DEF Kept, TimelineOK
<1>9. Shown(bs) = ToSet(points)
  <2>1. \A p : p \in Shown(bs) <=> \E k \in 1 .. n : p \in ToSet(Part(k))
    BY <1>5, <1>6 DEF Shown
  <2>2. \A p : p \in ToSet(points) <=> \E i \in 1 .. L : p = points[i]
    BY <1>1 DEF ToSet
  <2>3. ASSUME NEW k \in 1 .. n, NEW p \in ToSet(Part(k)) PROVE p \in ToSet(points)
    <3>1. PICK i \in ChunkFrom(k) .. ChunkTo(k, L) : p = points[i]
      BY <1>4
    <3>2. i \in 1 .. L
      BY <1>1, <1>2
    <3> QED BY <2>2, <3>1, <3>2
  <2>4. ASSUME NEW i \in 1 .. L PROVE \E k \in 1 .. n : points[i] \in ToSet(Part(k))
    BY <1>2, <1>4
  <2> QED BY <2>1, <2>2, <2>3, <2>4
<1> QED BY <1>8, <1>9 DEF bs

\* The slack that points at all events show is that of curve and claims.
LEMMA EventsShow ==
  ASSUME NEW c \in Seq(Segments), Disjoint(c), NEW active \in [Kind -> Nat],
         NEW P \in SUBSET PointSet,
         \A p \in PointSet : p \in P <=>
           p.at \in EventTimes(c, active) /\ p.slack = SlackFrom(c, active, p.at)
  PROVE  \A t \in -1 .. Horizon : Shows(P, t, SlackFrom(c, active, t))
<1> DEFINE times == EventTimes(c, active)
           Good(k) == Shows(P, k - 1, SlackFrom(c, active, k - 1))
           n == Horizon + 1
           Bad == {k \in 0 .. n : ~Good(k)}
<1>1. n \in Nat /\ Time = 0 .. Horizon /\ Horizon \in Nat
  BY TimelineConstants DEF Time
<1>2. \A p \in PointSet : p.at \in Int /\ p.at \in Nat
  BY TimesAreIntegers
<1>3. \A t \in Int : SlackFrom(c, active, t) \in Int
  <2>1. SUFFICES ASSUME NEW t \in Int PROVE SlackFrom(c, active, t) \in Int
    OBVIOUS
  <2>2. CapacityAt(c, t) \in Int
    <3>1. \A k \in DOMAIN c : c[k].capacity \in Int
      BY CurveFacts
    <3> QED BY <3>1, CapacityIs
  <2>3. Total(active, InForce(t)) \in Int
    BY TakenIs
  <2> QED BY <2>2, <2>3 DEF SlackFrom
<1>4. Bad = {}
  <2>1. SUFFICES ASSUME Bad # {} PROVE FALSE
    OBVIOUS
  <2>2. PICK k \in Bad : \A l \in Bad : k <= l
    <3>1. Bad \in SUBSET Nat
      BY <1>1
    <3> HIDE DEF Bad
    <3> QED BY <2>1, <3>1, LeastNatural
  <2>3. k \in 0 .. n /\ ~Good(k)
    OBVIOUS
  <2>4. k # 0
    <3>1. 0 - 1 = -1
      OBVIOUS
    <3>2. \A p \in P : -1 < p.at
      BY <1>2
    <3>3. SlackFrom(c, active, -1) = 0
      BY BeforeTime
    <3>4. Shows(P, -1, 0)
      BY <3>2 DEF Shows
    <3>5. Good(0)
      BY <3>1, <3>3, <3>4
    <3> HIDE DEF Good
    <3> QED BY <2>3, <3>5
  <2> DEFINE h == k - 1
  <2>5. h \in 0 .. n /\ ~(k <= h) /\ h \in Time /\ h \in Int
    BY <1>1, <2>3, <2>4
  <2>6. Shows(P, h - 1, SlackFrom(c, active, h - 1))
    <3> HIDE DEF h
    <3>1. Good(h)
      BY <2>2, <2>5
    <3> QED BY <3>1
  <2>7. ~Shows(P, h, SlackFrom(c, active, h))
    BY <2>3
  <2> HIDE DEF Bad, Good, h, n
  <2>8. CASE h \in times
    <3> DEFINE p == Point(h, SlackFrom(c, active, h))
    <3>1. p \in PointSet /\ p.at = h /\ p.slack = SlackFrom(c, active, h)
      BY <1>3, <2>5 DEF Point, PointSet
    <3> HIDE DEF p
    <3>2. p \in P
      BY <2>8, <3>1
    <3>3. Shows(P, p.at, p.slack)
      BY <3>2, PointShowsItself
    <3> QED BY <2>7, <3>1, <3>3
  <2>9. CASE h \notin times
    <3>1. SlackFrom(c, active, h) = SlackFrom(c, active, h - 1)
      BY <2>5, <2>9, QuietIs
    <3>2. \A p \in P : p.at # h
      BY <2>9
    <3>3. \A p \in P : p.at <= h - 1 <=> p.at <= h
      BY <1>2, <2>5, <3>2
    <3>4. \A p \in P : h - 1 < p.at <=> h < p.at
      BY <1>2, <2>5, <3>2
    <3>5. Shows(P, h, SlackFrom(c, active, h - 1))
      <4> DEFINE v == SlackFrom(c, active, h - 1)
      <4>1. Shows(P, h - 1, v)
        BY <2>6
      <4> HIDE DEF v
      <4>2. Shows(P, h, v)
        BY <3>3, <3>4, <4>1 DEF Shows
      <4> QED BY <4>2 DEF v
    <3> QED BY <2>7, <3>1, <3>5
  <2> QED BY <2>8, <2>9
<1>5. ASSUME NEW t \in -1 .. Horizon PROVE Shows(P, t, SlackFrom(c, active, t))
  <2> DEFINE k == t + 1
  <2>1. k \in 0 .. n /\ k - 1 = t
    BY <1>1
  <2> HIDE DEF k, n, Good
  <2>2. Good(k)
    BY <1>4, <2>1
  <2> QED BY <2>1, <2>2 DEF Good
<1> QED BY <1>5

\* The slack of a timeline is that of a curve and claims.
ExactFor(bs, c, active) == \A t \in -1 .. Horizon : SlackAt(bs, t) = SlackFrom(c, active, t)

\* A timeline that is built anew is exact.
LEMMA RebuiltIs ==
  ASSUME NEW c \in Seq(Segments), Disjoint(c), NEW active \in [Kind -> Nat],
         Representable(c, active)
  PROVE  Kept(Rebuilt(c, active)) /\ ExactFor(Rebuilt(c, active), c, active)
<1> DEFINE points == RebuiltPoints(c, active)
           rest == WithoutLeadingZero(Distinct(points))
           bs == Chunks(rest)
           P == ToSet(points)
<1>1. bs = Rebuilt(c, active)
  BY DEF Rebuilt
<1>2. /\ points \in Seq(PointSet) /\ InTime(points)
      /\ \A p \in PointSet : p \in P <=>
           p.at \in EventTimes(c, active) /\ p.slack = SlackFrom(c, active, p.at)
  BY RebuiltPointsAreExact
<1>3. Values(points) \subseteq Slack
  BY DEF Representable
<1> HIDE DEF points
<1>4. Ordered(points)
  BY <1>2, <1>3 DEF Ordered, Values
<1>5. P \in SUBSET PointSet /\ OnePerTime(P)
  <2>1. P \in SUBSET PointSet
    BY <1>4, OrderedSet
  <2> HIDE DEF P
  <2> QED BY <1>2, <2>1 DEF OnePerTime, PointSet
<1>6. \A t \in -1 .. Horizon : Shows(P, t, SlackFrom(c, active, t))
  <2> HIDE DEF P
  <2> QED BY <1>2, <1>5, EventsShow
<1>7. Ordered(rest) /\ Says(ToSet(rest), P)
  BY <1>4, CondensedIs
<1> HIDE DEF rest
<1>8. Kept(bs) /\ Shown(bs) = ToSet(rest)
  BY <1>7, ChunksAre
<1> HIDE DEF bs, P
<1>9. ASSUME NEW t \in -1 .. Horizon PROVE SlackAt(bs, t) = SlackFrom(c, active, t)
  <2>1. t \in Int
    OBVIOUS
  <2>2. Shows(Shown(bs), t, SlackFrom(c, active, t))
    BY <1>5, <1>6, <1>7, <1>8, <2>1, ShowsThinned DEF Says
  <2> QED BY <1>8, <2>1, <2>2, SlackIs DEF Kept
<1> QED BY <1>1, <1>8, <1>9 DEF ExactFor

-----------------------------------------------------------------------------
(* The invariant.                                                          *)

\* The blocks are legal, the curve is in order and as it was declared, and slack is
\* what curve and claims leave at every time.
TInv ==
  /\ Kept(blocks)
  /\ claims \in [Kind -> Nat]
  /\ CurveOK(curve)
  /\ declared \in Seq(Segments)
  /\ \A t \in Int : AsDeclared(curve, declared, t)
  /\ ExactFor(blocks, curve, claims)
  /\ outcome \in {"Ok", "SlackOverflow"}

\* A claim spans an interval, and its quantity is a delta that blocks can keep.
LEMMA ClaimSpans ==
  ASSUME NEW k \in Kind
  PROVE  /\ Spans(Claim[k])
         /\ Claim[k].quantity \in Slack /\ -Claim[k].quantity \in Slack
         /\ Claim[k].quantity \in Nat \ {0}
<1>1. Claim[k].quantity \in 1 .. MaxQuantity
  BY KindFacts
<1>2. Spans(Claim[k])
  BY KindFacts DEF Spans
<1>3. Claim[k].quantity \in Slack /\ -Claim[k].quantity \in Slack /\ Claim[k].quantity \in Nat \ {0}
  <2> DEFINE q == Claim[k].quantity
  <2>1. q \in 1 .. MaxQuantity
    BY <1>1
  <2> HIDE DEF q
  <2>2. q \in Slack /\ -q \in Slack /\ q \in Nat \ {0}
    BY <2>1, TimelineConstants DEF Slack
  <2> QED BY <2>2 DEF q
<1> QED BY <1>2, <1>3

\* Slack moves by d in the interval of a claim.
Moved(bs, cs, k, d) ==
  \A t \in Int : SlackAt(cs, t) = IF Claim[k].from <= t /\ t < Claim[k].to
                                  THEN SlackAt(bs, t) + d ELSE SlackAt(bs, t)

\* If a claim is added or removed as its quantity is taken or restored, slack stays what
\* curve and claims leave.
LEMMA ClaimMoves ==
  ASSUME NEW bs, NEW cs, NEW c, NEW active \in [Kind -> Nat], ExactFor(bs, c, active),
         CurveOK(c), NEW k \in Kind, NEW e \in {-1, 1}, active[k] + e \in Nat, NEW d,
         d = -(e * Claim[k].quantity), Moved(bs, cs, k, d)
  PROVE  With(active, k, e) \in [Kind -> Nat] /\ ExactFor(cs, c, With(active, k, e))
<1> DEFINE more == With(active, k, e)
<1>1. more \in [Kind -> Nat]
  <2>1. 0 \in Int
    OBVIOUS
  <2> QED BY <2>1, UsageOfClaim
<1>2. SUFFICES ASSUME NEW t \in -1 .. Horizon
               PROVE  SlackAt(cs, t) = SlackFrom(c, more, t)
  BY <1>1 DEF ExactFor
<1>3. t \in Int
  BY TimelineConstants
<1> DEFINE was == Total(active, InForce(t))
           now == Total(more, InForce(t))
           capacity == CapacityAt(c, t)
           before == SlackAt(bs, t)
           after == SlackAt(cs, t)
           covers == Claim[k].from <= t /\ t < Claim[k].to
           q == e * Claim[k].quantity
<1>4. before = capacity - was
  BY DEF ExactFor, SlackFrom
<1>5. now = was + IF covers THEN q ELSE 0
  <2>1. now = was + Added(k, e, t)
    BY <1>3, UsageOfClaim
  <2>2. Added(k, e, t) = IF covers THEN q ELSE 0
    BY Zenon DEF Added
  <2> QED BY <2>1, <2>2, Zenon
<1>6. after = IF covers THEN before + d ELSE before
  BY <1>3 DEF Moved
<1>7. capacity \in Int /\ was \in Int
  <2>1. was \in Nat
    BY TakenIs, Zenon
  <2>2. capacity \in Nat
    BY <1>3, CapacityBounds, Zenon
  <2> HIDE DEF was, capacity
  <2> QED BY <2>1, <2>2
<1>8. q \in Int /\ d = -q
  BY ClaimSpans
<1>9. after = capacity - now
  <2> HIDE DEF was, now, capacity, before, after, covers, q
  <2> QED BY <1>4, <1>5, <1>6, <1>7, <1>8
<1> QED BY <1>9 DEF SlackFrom

\* Nothing is declared and nothing claimed at first.
LEMMA TInitIs ==
  ASSUME TInit
  PROVE  TInv
<1>1. Kept(blocks) /\ \A t \in Int : SlackAt(blocks, t) = 0
  <2>1. blocks = <<>> /\ Kept(blocks) /\ Shown(blocks) = {}
    BY NoBlocks DEF TInit
  <2>2. ASSUME NEW t \in Int PROVE SlackAt(blocks, t) = 0
    <3>1. Shows(Shown(blocks), t, 0)
      BY <2>1 DEF Shows
    <3> QED BY <2>1, <3>1, SlackIs DEF Kept
  <2> QED BY <2>1, <2>2
<1>2. claims \in [Kind -> Nat] /\ \A k \in Kind : claims[k] = 0
  BY DEF TInit
<1>3. CurveOK(curve) /\ declared \in Seq(Segments) /\ \A t \in Int : AsDeclared(curve, declared, t)
  BY NothingDeclared DEF TInit
<1>4. ExactFor(blocks, curve, claims)
  <2>1. SUFFICES ASSUME NEW t \in -1 .. Horizon
                 PROVE  SlackAt(blocks, t) = SlackFrom(curve, claims, t)
    BY DEF ExactFor
  <2>2. t \in Int
    BY TimelineConstants
  <2>3. CapacityAt(curve, t) = 0
    <3>1. curve \in Seq(Segments) /\ Disjoint(curve) /\ curve = <<>>
      BY <1>3 DEF CurveOK, TInit
    <3>2. \A k \in DOMAIN curve : ~InSegment(curve[k], t)
      BY <3>1
    <3> QED BY <2>2, <3>1, <3>2, CapacityIs
  <2>4. Total(claims, InForce(t)) = 0
    <3> DEFINE f == Taken(claims, InForce(t))
    <3>1. f \in [1 .. Len(Claim) -> Int] /\ Total(claims, InForce(t)) = SumTo(f, Len(Claim))
      BY <1>2, TakenIs
    <3>2. \A k \in 1 .. Len(Claim) : f[k] = 0
      <4>1. ASSUME NEW k \in Kind PROVE f[k] = 0
        <5>1. claims[k] = 0 /\ Claim[k].quantity \in Nat
          BY <1>2, KindFacts
        <5>2. f[k] = IF k \in InForce(t) THEN claims[k] * Claim[k].quantity ELSE 0
          BY Zenon DEF Taken
        <5> DEFINE q == Claim[k].quantity
        <5>3. 0 * q = 0
          <6>1. q \in Nat
            BY <5>1
          <6> HIDE DEF q
          <6> QED BY <6>1
        <5>4. claims[k] * Claim[k].quantity = 0
          BY <5>1, <5>3, Zenon
        <5> HIDE DEF f
        <5> QED BY <5>2, <5>4
      <4> HIDE DEF f
      <4> QED BY <4>1, KindFacts
    <3> HIDE DEF f
    <3> QED BY <3>1, <3>2, KindFacts, SumOfZeros
  <2> QED BY <1>1, <2>2, <2>3, <2>4 DEF SlackFrom
<1> QED BY <1>1, <1>2, <1>3, <1>4 DEF TInv, TInit

\* What is true of the index stays so when the blocks are others that show the slack
\* which a claim more, or a claim less, leaves.
LEMMA ClaimedIs ==
  ASSUME TInv, NEW k \in Kind, NEW e \in {-1, 1}, claims[k] + e \in Nat, NEW d,
         d = -(e * Claim[k].quantity),
         Kept(blocks'), Moved(blocks, blocks', k, d), claims' = With(claims, k, e), outcome' = "Ok", UNCHANGED <<curve, declared>>
  PROVE  TInv'
<1>1. /\ claims \in [Kind -> Nat] /\ CurveOK(curve) /\ declared \in Seq(Segments)
      /\ \A t \in Int : AsDeclared(curve, declared, t)
      /\ ExactFor(blocks, curve, claims)
  BY DEF TInv
<1>2. claims' \in [Kind -> Nat] /\ ExactFor(blocks', curve, claims')
  BY <1>1, ClaimMoves
<1> QED BY <1>1, <1>2 DEF TInv

\* A claim is consumed.
LEMMA ConsumeIs ==
  ASSUME TInv, NEW k \in Kind, Consume(k)
  PROVE  TInv'
<1> DEFINE c == Claim[k]
           d == -c.quantity
<1>1. Kept(blocks) /\ TimelineOK(blocks) /\ claims \in [Kind -> Nat]
  BY DEF TInv, Kept
<1>2. Spans(c) /\ d \in Slack /\ d \in Int /\ c.quantity \in Nat \ {0}
  BY ClaimSpans
<1>3. CASE /\ Fits(blocks, c, d) /\ blocks' = ApplyDelta(blocks, c, d)
           /\ Claimed(k)
  <2>1. \A t \in c.from .. c.to - 1 : SlackAt(blocks, t) + d \in Slack
    <3> HIDE DEF c, d
    <3> QED BY <1>1, <1>2, <1>3, FitsIs
  <2>2. Kept(blocks') /\ \A t \in Int : SlackAt(blocks', t) = IF c.from <= t /\ t < c.to
                                          THEN SlackAt(blocks, t) + d ELSE SlackAt(blocks, t)
    <3> HIDE DEF c, d
    <3> QED BY <1>1, <1>2, <1>3, <2>1, ApplyIs
  <2>3. claims' = With(claims, k, 1) /\ outcome' = "Ok" /\ UNCHANGED <<curve, declared>>
    BY <1>3 DEF Claimed, With
  <2>4. claims[k] + 1 \in Nat /\ d = -(1 * Claim[k].quantity) /\ 1 \in {-1, 1}
    BY <1>1, <1>2
  <2>5. Moved(blocks, blocks', k, d)
    BY <2>2, Zenon DEF Moved
  <2> QED BY <2>2, <2>3, <2>4, <2>5, ClaimedIs
<1>4. CASE Overflow
  BY <1>4 DEF Overflow, TInv
<1> QED BY <1>3, <1>4 DEF Consume

\* A claim is admitted, window by window.
LEMMA AdmitIs ==
  ASSUME TInv, NEW k \in Kind, Admit(k)
  PROVE  TInv'
<1> DEFINE c == Claim[k]
           d == -c.quantity
<1>1. Kept(blocks) /\ TimelineOK(blocks) /\ claims \in [Kind -> Nat]
  BY DEF TInv, Kept
<1>2. Spans(c) /\ d \in Slack /\ d \in Int /\ c.quantity \in Nat \ {0}
  BY ClaimSpans
<1>3. Fits(blocks, c, d)
  BY DEF Admit
<1>4. \A t \in c.from .. c.to - 1 : SlackAt(blocks, t) + d \in Slack
  <2> HIDE DEF c, d
  <2> QED BY <1>1, <1>2, <1>3, FitsIs
<1>5. blocks' = LET windows == Windows(blocks, c)
                    taken[n \in 0 .. Len(windows)] ==
                      IF n = 0 THEN blocks ELSE ApplyDelta(taken[n - 1], windows[n], d)
                IN  taken[Len(windows)]
  BY DEF Admit
<1>6. Kept(blocks') /\ \A t \in Int : SlackAt(blocks', t) = IF c.from <= t /\ t < c.to
                                        THEN SlackAt(blocks, t) + d ELSE SlackAt(blocks, t)
  <2> HIDE DEF c, d
  <2> QED BY <1>1, <1>2, <1>4, <1>5, AdmittedIs
<1>7. claims' = With(claims, k, 1) /\ outcome' = "Ok" /\ UNCHANGED <<curve, declared>>
  BY DEF Admit, Claimed, With
<1>8. claims[k] + 1 \in Nat /\ d = -(1 * Claim[k].quantity) /\ 1 \in {-1, 1}
  BY <1>1, <1>2
<1>9. Moved(blocks, blocks', k, d)
  BY <1>6, Zenon DEF Moved
<1> QED BY <1>6, <1>7, <1>8, <1>9, ClaimedIs

\* A claim is restored.
LEMMA RestoreIs ==
  ASSUME TInv, NEW k \in Kind, Restore(k)
  PROVE  TInv'
<1> DEFINE c == Claim[k]
           d == c.quantity
<1>1. Kept(blocks) /\ TimelineOK(blocks) /\ claims \in [Kind -> Nat]
  BY DEF TInv, Kept
<1>2. Spans(c) /\ d \in Slack /\ d \in Int /\ d \in Nat
  BY ClaimSpans
<1>3. CASE /\ Fits(blocks, c, d) /\ blocks' = ApplyDelta(blocks, c, d)
           /\ claims' = [claims EXCEPT ![k] = @ - 1]
           /\ outcome' = "Ok" /\ UNCHANGED <<curve, declared>>
  <2>1. \A t \in c.from .. c.to - 1 : SlackAt(blocks, t) + d \in Slack
    <3> HIDE DEF c, d
    <3> QED BY <1>1, <1>2, <1>3, FitsIs
  <2>2. Kept(blocks') /\ \A t \in Int : SlackAt(blocks', t) = IF c.from <= t /\ t < c.to
                                          THEN SlackAt(blocks, t) + d ELSE SlackAt(blocks, t)
    <3> HIDE DEF c, d
    <3> QED BY <1>1, <1>2, <1>3, <2>1, ApplyIs
  <2>3. claims' = With(claims, k, -1)
    BY <1>1, <1>3 DEF With
  <2>4. claims[k] > 0 /\ claims[k] \in Nat
    BY <1>1 DEF Restore
  <2>5. claims[k] + -1 \in Nat
    BY <2>4
  <2>6. d = -((-1) * Claim[k].quantity) /\ -1 \in {-1, 1}
    BY <1>2
  <2>7. Moved(blocks, blocks', k, d)
    BY <2>2, Zenon DEF Moved
  <2> QED BY <1>3, <2>2, <2>3, <2>5, <2>6, <2>7, ClaimedIs
<1>4. CASE Overflow
  BY <1>4 DEF Overflow, TInv
<1> QED BY <1>3, <1>4 DEF Restore

\* The index is built anew.
LEMMA RebuildIs ==
  ASSUME TInv, NEW segments \in Seq(Segments), Rebuild(segments)
  PROVE  TInv'
<1> DEFINE c == FromUnsorted(segments)
<1>1. CASE /\ Representable(c, claims)
           /\ curve' = c /\ declared' = segments /\ blocks' = Rebuilt(c, claims)
           /\ outcome' = "Ok" /\ UNCHANGED claims
  <2>1. CurveOK(c) /\ \A t \in Int : AsDeclared(c, segments, t)
    BY DeclaredIs DEF Rebuild
  <2>2. c \in Seq(Segments) /\ Disjoint(c) /\ claims \in [Kind -> Nat]
    BY <2>1 DEF CurveOK, TInv
  <2>3. Kept(Rebuilt(c, claims)) /\ ExactFor(Rebuilt(c, claims), c, claims)
    <3> HIDE DEF c
    <3> QED BY <1>1, <2>2, RebuiltIs
  <2> HIDE DEF c
  <2> QED BY <1>1, <2>1, <2>2, <2>3 DEF TInv
<1>2. CASE Overflow
  BY <1>2 DEF Overflow, TInv
<1> QED BY <1>1, <1>2 DEF Rebuild

\* Every step preserves the invariant.
LEMMA TNextIs ==
  ASSUME TInv, [TNext]_tvars
  PROVE  TInv'
<1>1. ASSUME NEW k \in Kind, Consume(k) PROVE TInv'
  BY <1>1, ConsumeIs
<1>2. ASSUME NEW k \in Kind, Admit(k) PROVE TInv'
  BY <1>2, AdmitIs
<1>3. ASSUME NEW k \in Kind, Restore(k) PROVE TInv'
  BY <1>3, RestoreIs
<1>4. ASSUME NEW d \in Declaration, Rebuild(d) PROVE TInv'
  <2>1. d \in Seq(Segments)
    BY DeclarationIs
  <2> QED BY <1>4, <2>1, RebuildIs
<1>5. CASE Rebuild(declared)
  <2>1. declared \in Seq(Segments)
    BY DEF TInv
  <2> QED BY <1>5, <2>1, RebuildIs
<1>6. CASE UNCHANGED tvars
  BY <1>6 DEF tvars, TInv
<1> QED BY <1>1, <1>2, <1>3, <1>4, <1>5, <1>6 DEF TNext

\* The blocks stay legal and slack what curve and claims leave, whatever was consumed,
\* admitted, restored and rebuilt.
THEOREM InvariantHolds == TSpec => []TInv
<1>1. TInit => TInv
  BY TInitIs
<1>2. TInv /\ [TNext]_tvars => TInv'
  BY TNextIs
<1> QED BY <1>1, <1>2, PTL DEF TSpec

-----------------------------------------------------------------------------
(* What the index answers.                                                  *)

\* However lazily deltas were added, blocks split and joined, slack_at answers what curve
\* and claims leave.
THEOREM AnswersAreExact == TSpec => []IndexIsExact
<1>1. ASSUME TInv PROVE IndexIsExact
  <2>1. ASSUME NEW t \in Time PROVE SlackAt(blocks, t) = Reference(t)
    <3>1. t \in -1 .. Horizon
      BY TimelineConstants DEF Time
    <3>2. SlackAt(blocks, t) = SlackFrom(curve, claims, t)
      BY <1>1, <3>1 DEF TInv, ExactFor
    <3> QED BY <3>2, Zenon DEF Reference, SlackFrom, InForce
  <2> QED BY <2>1 DEF IndexIsExact
<1> QED BY <1>1, InvariantHolds, PTL

\* slack_bound answers with the least or greatest slack of the interval, although it reads
\* the extremes of whole blocks instead of their points.
THEOREM ExtremesAreExact == TSpec => []BoundsAreExact
<1>1. ASSUME TInv PROVE BoundsAreExact
  <2> DEFINE slack == [t \in Time |-> Reference(t)]
  <2>1. ASSUME NEW i \in Interval, NEW e \in Extremes
        PROVE  SlackBound(blocks, i, e) = Extreme(e, {slack[t] : t \in i.from .. i.to - 1})
    <3> DEFINE S == {slack[t] : t \in i.from .. i.to - 1}
               m == SlackBound(blocks, i, e)
    <3>1. Spans(i) /\ TimelineOK(blocks) /\ ExactFor(blocks, curve, claims)
      BY <1>1 DEF Interval, Spans, TInv, Kept
    <3>2. IsExtreme(e, m, SlackOf(blocks, i))
      BY <3>1, BoundIs
    <3>3. ASSUME NEW t \in i.from .. i.to - 1
          PROVE  slack[t] = SlackAt(blocks, t) /\ slack[t] \in Int
      <4>1. t \in Time
        BY <3>1, IntervalFacts, TimelineConstants DEF Time
      <4>2. SlackAt(blocks, t) \in Int
        BY <3>1, <4>1, SlackIs, TimesAreIntegers
      <4>3. t \in -1 .. Horizon
        BY <4>1, TimelineConstants DEF Time
      <4>4. Reference(t) = SlackFrom(curve, claims, t)
        BY Zenon DEF Reference, SlackFrom, InForce
      <4>5. SlackAt(blocks, t) = Reference(t)
        BY <3>1, <4>3, <4>4 DEF ExactFor
      <4>6. slack[t] = Reference(t)
        BY <4>1, Zenon
      <4> QED BY <4>2, <4>5, <4>6
    <3>4. S = SlackOf(blocks, i)
      <4> HIDE DEF slack
      <4> QED BY <3>3 DEF SlackOf
    <3>5. S \in SUBSET Int
      <4> HIDE DEF slack
      <4> QED BY <3>3
    <3> HIDE DEF S, m
    <3>6. Extreme(e, S) = m
      BY <3>2, <3>4, <3>5, ExtremeIs
    <3> QED BY <3>6 DEF S, m
  <2> QED BY <2>1 DEF BoundsAreExact
<1> QED BY <1>1, InvariantHolds, PTL

\* What the capacity is after segments were sorted and joined is what they declare.
THEOREM DeclarationsHold == TSpec => []CurveIsAsDeclared
<1>1. ASSUME TInv PROVE CurveIsAsDeclared
  <2>1. ASSUME NEW t \in Time
        PROVE  LET inForce == {k \in DOMAIN declared : declared[k].from <= t /\ t < declared[k].to}
               IN  /\ inForce = {} => CapacityAt(curve, t) = 0
                   /\ \A k \in inForce : CapacityAt(curve, t) = declared[k].capacity
    <3>1. AsDeclared(curve, declared, t)
      BY <1>1, TimesAreIntegers DEF TInv
    <3> QED BY <3>1 DEF AsDeclared, InSegment
  <2>2. \A k \in 2 .. Len(curve) : ~Joins(curve[k - 1], curve[k])
    BY <1>1 DEF TInv, CurveOK
  <2> QED BY <2>1, <2>2 DEF CurveIsAsDeclared
<1> QED BY <1>1, InvariantHolds, PTL

\* A claim that was taken can be given back: where it is in force, slack is below capacity
\* by its quantity at least.
THEOREM RestoringCannotFail == TSpec => []RestoreNeverFails
<1>1. ASSUME TInv PROVE RestoreNeverFails
  <2>1. SUFFICES ASSUME NEW k \in Kind, claims[k] > 0
                 PROVE  Fits(blocks, Claim[k], Claim[k].quantity)
    BY DEF RestoreNeverFails
  <2>2. /\ TimelineOK(blocks) /\ Kept(blocks) /\ ExactFor(blocks, curve, claims)
        /\ CurveOK(curve) /\ claims \in [Kind -> Nat]
    BY <1>1 DEF TInv, Kept
  <2>3. Spans(Claim[k]) /\ Claim[k].quantity \in Nat \ {0}
    BY ClaimSpans
  <2>4. ASSUME NEW t \in Claim[k].from .. Claim[k].to - 1
        PROVE  SlackAt(blocks, t) + Claim[k].quantity \in Slack
    <3> DEFINE capacity == CapacityAt(curve, t)
               used == Total(claims, InForce(t))
               less == Total(With(claims, k, -1), InForce(t))
               s == SlackAt(blocks, t)
               q == Claim[k].quantity
    <3>1. t \in Int /\ t \in -1 .. Horizon /\ Claim[k].from <= t /\ t < Claim[k].to
      <4> DEFINE from == Claim[k].from
                 to == Claim[k].to
      <4>1. from \in 0 .. Horizon /\ to \in 0 .. Horizon
        BY <2>3 DEF Spans, Time
      <4>2. t \in from .. to - 1
        OBVIOUS
      <4> HIDE DEF from, to
      <4>3. t \in Int /\ t \in -1 .. Horizon /\ from <= t /\ t < to
        BY <4>1, <4>2, TimelineConstants
      <4> QED BY <4>3 DEF from, to
    <3>2. s = capacity - used
      BY <2>2, <3>1 DEF ExactFor, SlackFrom
    <3>3. capacity \in Nat /\ capacity <= MaxQuantity
      BY <2>2, <3>1, CapacityBounds
    <3>4. claims[k] + -1 \in Nat /\ -1 \in {-1, 1}
      BY <2>1, <2>2
    <3>5. With(claims, k, -1) \in [Kind -> Nat] /\ less = used + Added(k, -1, t)
      BY <2>2, <3>1, <3>4, UsageOfClaim
    <3>6. Added(k, -1, t) = -q
      <4>1. Added(k, -1, t) = (-1) * q
        BY <3>1 DEF Added
      <4> QED BY <2>3, <4>1
    <3>7. less \in Nat /\ used \in Nat
      BY <2>2, <3>5, TakenIs
    <3>8. s \in Slack
      BY <2>2, <3>1, KeptSlack
    <3> HIDE DEF capacity, used, less, s, q
    <3>9. q \in Nat
      BY <2>3 DEF q
    <3>10. s + q \in Slack
      <4>1. less = used - q
        BY <3>5, <3>6, <3>7, <3>9
      <4> QED BY <3>2, <3>3, <3>7, <3>8, <3>9, <4>1, TimelineConstants DEF Slack
    <3> QED BY <3>10 DEF s, q
  <2>5. Claim[k].quantity \in Int
    BY <2>3
  <2> QED BY <2>2, <2>3, <2>4, <2>5, FitsIs
<1> QED BY <1>1, InvariantHolds, PTL

\* Updates leave the points that a rebuild would give.
THEOREM RebuildsMatch == TSpec => []UpdatesMatchRebuild
<1>1. ASSUME TInv PROVE UpdatesMatchRebuild
  <2>1. /\ Kept(blocks) /\ ExactFor(blocks, curve, claims)
        /\ curve \in Seq(Segments) /\ Disjoint(curve) /\ claims \in [Kind -> Nat]
    BY <1>1 DEF TInv, CurveOK
  <2> DEFINE points == RebuiltPoints(curve, claims)
             bs == Rebuilt(curve, claims)
  <2>2. /\ points \in Seq(PointSet)
        /\ \A p \in PointSet : p \in ToSet(points) <=>
             p.at \in EventTimes(curve, claims) /\ p.slack = SlackFrom(curve, claims, p.at)
    BY <2>1, RebuiltPointsAreExact
  <2>3. ASSUME NEW n \in DOMAIN points PROVE points[n].slack \in Slack
    <3> DEFINE p == points[n]
    <3> HIDE DEF points
    <3>1. p \in PointSet /\ p \in ToSet(points)
      BY <2>2 DEF ToSet
    <3> HIDE DEF p
    <3>2. p.slack = SlackFrom(curve, claims, p.at)
      BY <2>2, <3>1
    <3>3. p.at \in Int /\ p.at \in -1 .. Horizon
      BY <3>1, TimesAreIntegers, TimelineConstants DEF Time
    <3>4. p.slack = SlackAt(blocks, p.at)
      BY <2>1, <3>2, <3>3 DEF ExactFor
    <3>5. p.slack \in Slack
      BY <2>1, <3>3, <3>4, KeptSlack
    <3> QED BY <3>5 DEF p
  <2>4. Representable(curve, claims)
    <3> HIDE DEF points
    <3>1. Values(points) \subseteq Slack
      BY <2>3 DEF Values
    <3> QED BY <3>1 DEF Representable, points
  <2>5. Kept(bs) /\ ExactFor(bs, curve, claims)
    BY <2>1, <2>4, RebuiltIs
  <2> HIDE DEF bs, points
  <2>6. \A t \in -1 .. Horizon : SlackAt(blocks, t) = SlackAt(bs, t)
    BY <2>1, <2>5 DEF ExactFor
  <2>7. EffectivePoints(blocks) = EffectivePoints(bs)
    BY <2>1, <2>5, <2>6, SamePoints
  <2> QED BY <2>7 DEF UpdatesMatchRebuild, bs
<1> QED BY <1>1, InvariantHolds, PTL

\* Blocks keep their size and order, and extremes that are those of their points.
THEOREM TypeCorrect == TSpec => []TTypeOK
<1>1. ASSUME TInv PROVE TTypeOK
  <2>1. Kept(blocks) /\ TimelineOK(blocks) /\ outcome \in {"Ok", "SlackOverflow"}
    BY <1>1 DEF TInv, Kept
  <2>2. ASSUME NEW k \in DOMAIN blocks
        PROVE  LET b == blocks[k]
                   effective == Values(Effective(b))
               IN  /\ Len(b.points) \in 1 .. MaxPoints
                   /\ Values(b.points) \subseteq Slack /\ b.delta \in Slack
                   /\ b.minimum = Min(effective) /\ b.maximum = Max(effective)
                   /\ effective \subseteq Slack
    <3> DEFINE b == blocks[k]
               effective == Values(Effective(b))
    <3>1. BlockOK(b) /\ Storable(b) /\ Len(b.points) \in 1 .. MaxPoints
      BY <2>1, KeptPoints
    <3>2. /\ b \in BlockRecord /\ DOMAIN Effective(b) = DOMAIN b.points
          /\ \A e \in Extremes : IsExtreme(e, b[e], effective)
      BY <3>1, EffectiveIs DEF BlockOK
    <3>3. b.delta \in Slack
          /\ \A i \in DOMAIN b.points : b.points[i].slack \in Slack /\ Effective(b)[i].slack \in Slack
      BY <3>1 DEF Storable
    <3>4. Values(b.points) \subseteq Slack /\ effective \subseteq Slack
      <4> HIDE DEF b
      <4> QED BY <3>2, <3>3 DEF Values
    <3>5. effective \in SUBSET Int
      <4> HIDE DEF effective
      <4> QED BY <3>4, TimelineConstants DEF Slack
    <3>6. ASSUME NEW e \in Extremes PROVE Extreme(e, effective) = b[e]
      <4> HIDE DEF effective, b
      <4> QED BY <3>2, <3>5, ExtremeIs
    <3>7. b["minimum"] = Min(effective) /\ b["maximum"] = Max(effective)
      <4> HIDE DEF effective, b
      <4>1. Extreme("minimum", effective) = Min(effective) /\ Extreme("maximum", effective) = Max(effective)
        BY DEF Extreme
      <4>2. "minimum" \in Extremes /\ "maximum" \in Extremes
        BY DEF Extremes
      <4> QED BY <3>6, <4>1, <4>2
    <3> HIDE DEF effective, b
    <3>8. b.minimum = Min(effective) /\ b.maximum = Max(effective)
      BY <3>7
    <3> QED BY <3>1, <3>3, <3>4, <3>8 DEF effective, b
  <2>3. ASSUME NEW k \in DOMAIN blocks, NEW l \in DOMAIN blocks,
               NEW i \in DOMAIN blocks[k].points, NEW j \in DOMAIN blocks[l].points,
               k < l \/ (k = l /\ i < j)
        PROVE  blocks[k].points[i].at < blocks[l].points[j].at
    BY <2>1, <2>3, PlaceOrder
  <2> QED BY <2>1, <2>2, <2>3 DEF TTypeOK
<1> QED BY <1>1, InvariantHolds, PTL

\* A moment after a point is shown by it, up to the next one.
LEMMA UpToTheNext ==
  ASSUME NEW bs, Kept(bs), NEW k \in 1 .. Len(EffectivePoints(bs)) - 1,
         NEW t \in EffectivePoints(bs)[k].at .. EffectivePoints(bs)[k + 1].at - 1
  PROVE  SlackAt(bs, t) = EffectivePoints(bs)[k].slack
<1> DEFINE points == EffectivePoints(bs)
           P == ToSet(points)
<1>1. Ordered(points) /\ Shows(P, t, SlackAt(bs, t))
  BY EffectivePointsIs
<1> HIDE DEF points
<1>2. /\ P \in SUBSET PointSet /\ DOMAIN points = 1 .. Len(points) /\ Len(points) \in Nat
      /\ \A i \in DOMAIN points : points[i] \in P /\ points[i].at \in Int
  BY <1>1, OrderedSet
<1> DEFINE h == k + 1
<1>3. k \in DOMAIN points /\ h \in DOMAIN points /\ t \in Int
      /\ points[k].at <= t /\ t < points[h].at
  BY <1>2 DEF points
<1>4. OnePerTime(P)
  <2>1. ASSUME NEW p \in P, NEW q \in P, p.at = q.at PROVE p = q
    <3>1. PICK i \in DOMAIN points : p = points[i]
      BY DEF ToSet
    <3>2. PICK j \in DOMAIN points : q = points[j]
      BY DEF ToSet
    <3>3. ~(i < j) /\ ~(j < i)
      BY <1>1, <1>2, <2>1, <3>1, <3>2 DEF Ordered, InTime
    <3>4. i = j
      BY <1>2, <3>3
    <3> QED BY <3>1, <3>2, <3>4
  <2> HIDE DEF P
  <2> QED BY <2>1 DEF OnePerTime
<1>5. ASSUME NEW q \in P, q.at <= t PROVE q.at <= points[k].at
  <2>1. PICK i \in DOMAIN points : q = points[i]
    BY DEF ToSet
  <2>2. ~(h < i) /\ i # h
    BY <1>1, <1>2, <1>3, <1>5, <2>1 DEF Ordered, InTime
  <2>3. i <= k
    BY <1>2, <1>3, <2>2
  <2>4. i = k \/ i < k
    BY <1>2, <2>3
  <2> QED BY <1>1, <1>2, <1>3, <2>1, <2>4 DEF Ordered, InTime
<1>6. Shows(P, t, points[k].slack)
  BY <1>2, <1>3, <1>5 DEF Shows
<1>7. SlackAt(bs, t) = points[k].slack
  <2> HIDE DEF P
  <2> QED BY <1>1, <1>2, <1>3, <1>4, <1>6, ShowsOnce
<1> QED BY <1>7 DEF points

\* Where slack is f at every time, and not below zero before, a stretch of equal deficit
\* that is as long as possible lies between a point and the next.
Deficit(f, i) ==
  /\ f[i.from] < 0
  /\ \A t \in i.from .. i.to - 1 : f[t] = f[i.from]
  /\ i.from = 0 \/ f[i.from - 1] # f[i.from]
  /\ f[i.to] # f[i.from]

\* The part of time between a point of negative slack and the next is such a stretch.
LEMMA PointsCutDeficits ==
  ASSUME NEW bs, Kept(bs), NEW f, \A t \in Time : f[t] = SlackAt(bs, t),
         NEW k \in 1 .. Len(EffectivePoints(bs)) - 1, EffectivePoints(bs)[k].slack < 0
  PROVE  LET points == EffectivePoints(bs)
             i == [from |-> points[k].at, to |-> points[k + 1].at]
         IN  i \in Interval /\ Deficit(f, i) /\ f[i.from] = points[k].slack
<1> DEFINE points == EffectivePoints(bs)
           h == k + 1
           p == points[k]
           q == points[h]
           a == p.at
           b == q.at
           i == [from |-> a, to |-> b]
<1>1. Ordered(points)
  BY EffectivePointsIs
<1>2. /\ \A t \in a .. b - 1 : SlackAt(bs, t) = p.slack
      /\ k \in 1 .. Len(points) - 1 /\ p.slack < 0
  BY UpToTheNext
<1>3. /\ \A r \in PointSet : r \in ToSet(points) <=>
           SlackAt(bs, r.at) = r.slack /\ SlackAt(bs, r.at - 1) # r.slack
  BY EffectivePointsIs
<1> HIDE DEF points
<1>4. /\ DOMAIN points = 1 .. Len(points) /\ Len(points) \in Nat
      /\ ToSet(points) \in SUBSET PointSet
      /\ \A n \in DOMAIN points : points[n] \in ToSet(points) /\ points[n].at \in Int
  BY <1>1, OrderedSet
<1>5. k \in DOMAIN points /\ h \in DOMAIN points /\ k < h
  BY <1>2, <1>4
<1>6. p \in ToSet(points) /\ q \in ToSet(points) /\ p \in PointSet /\ q \in PointSet
  BY <1>4, <1>5
<1>7. a < b
  BY <1>1, <1>5 DEF Ordered, InTime
<1>8. a \in Time /\ b \in Time /\ a \in Int /\ b \in Int
  BY <1>6, TimesAreIntegers
<1>9. SlackAt(bs, a) = p.slack /\ SlackAt(bs, a - 1) # p.slack
      /\ SlackAt(bs, b) = q.slack /\ SlackAt(bs, b - 1) # q.slack
  BY <1>3, <1>6
<1> HIDE DEF p, q, a, b
<1>10. i \in Interval
  BY <1>7, <1>8 DEF Interval
<1>11. i.from = a /\ i.to = b
  OBVIOUS
<1>12. f[a] = p.slack /\ f[b] = q.slack
  BY <1>8, <1>9
<1>13. \A t \in a .. b - 1 : f[t] = f[a]
  <2>1. \A t \in a .. b - 1 : t \in Time
    BY <1>8, TimelineConstants DEF Time
  <2> QED BY <1>2, <1>12, <2>1
<1>14. a = 0 \/ f[a - 1] # f[a]
  <2>1. a = 0 \/ a - 1 \in Time
    BY <1>8, TimelineConstants DEF Time
  <2> QED BY <1>9, <1>12, <2>1
<1>15. f[b] # f[a]
  <2>1. b - 1 \in a .. b - 1
    BY <1>7, <1>8
  <2> QED BY <1>2, <1>9, <1>12, <2>1
<1>16. Deficit(f, i) /\ f[i.from] = p.slack
  <2> HIDE DEF i
  <2> QED BY <1>2, <1>11, <1>12, <1>13, <1>14, <1>15 DEF Deficit
<1> QED BY <1>10, <1>16 DEF p, q, a, b, points

\* Every such stretch lies between a point and the next.
LEMMA DeficitsLieBetweenPoints ==
  ASSUME NEW bs, Kept(bs), NEW f, \A t \in Time : f[t] = SlackAt(bs, t), SlackAt(bs, -1) = 0,
         NEW i \in Interval, Deficit(f, i)
  PROVE  LET points == EffectivePoints(bs) IN
         \E k \in 1 .. Len(points) - 1 :
           /\ points[k].slack < 0 /\ points[k].slack = f[i.from]
           /\ points[k].at = i.from /\ points[k + 1].at = i.to
<1> DEFINE points == EffectivePoints(bs)
           P == ToSet(points)
           a == i.from
           b == i.to
           p == [at |-> a, slack |-> SlackAt(bs, a)]
           q == [at |-> b, slack |-> SlackAt(bs, b)]
<1>1. Ordered(points)
      /\ \A r \in PointSet : r \in P <=>
           SlackAt(bs, r.at) = r.slack /\ SlackAt(bs, r.at - 1) # r.slack
  BY EffectivePointsIs
<1> HIDE DEF points
<1>2. /\ DOMAIN points = 1 .. Len(points) /\ Len(points) \in Nat
      /\ P \in SUBSET PointSet
      /\ \A n \in DOMAIN points : points[n] \in P /\ points[n].at \in Int
  BY <1>1, OrderedSet
<1> HIDE DEF P
<1>3. a \in Time /\ b \in Time /\ a \in Int /\ b \in Int /\ a < b
  BY TimesAreIntegers DEF Interval
<1>4. /\ f[a] < 0 /\ \A t \in a .. b - 1 : f[t] = f[a]
      /\ a = 0 \/ f[a - 1] # f[a]
      /\ f[b] # f[a]
  BY Zenon DEF Deficit
<1> HIDE DEF a, b
<1>5. \A t \in a .. b - 1 : t \in Time /\ SlackAt(bs, t) = SlackAt(bs, a)
  <2>1. \A t \in a .. b - 1 : t \in Time
    BY <1>3, TimelineConstants DEF Time
  <2> QED BY <1>3, <1>4, <2>1
<1>6. p \in PointSet /\ q \in PointSet
  BY <1>3, TimesAreIntegers, SlackIs DEF Kept, PointSet
<1>7. p \in P
  <2>1. SlackAt(bs, a - 1) # SlackAt(bs, a)
    <3>1. CASE a = 0
      <4>1. a - 1 = -1
        BY <3>1
      <4> QED BY <1>3, <1>4, <4>1
    <3>2. CASE a # 0
      <4>1. a - 1 \in Time
        BY <1>3, <3>2, TimelineConstants DEF Time
      <4> QED BY <1>3, <1>4, <3>2, <4>1
    <3> QED BY <3>1, <3>2
  <2>2. p.at = a /\ p.slack = SlackAt(bs, a)
    OBVIOUS
  <2> HIDE DEF p
  <2> QED BY <1>1, <1>6, <2>1, <2>2
<1>8. q \in P
  <2>1. SlackAt(bs, b - 1) # SlackAt(bs, b)
    <3>1. b - 1 \in a .. b - 1
      BY <1>3
    <3>2. SlackAt(bs, b - 1) = SlackAt(bs, a)
      BY <1>5, <3>1
    <3> QED BY <1>3, <1>4, <3>2
  <2>2. q.at = b /\ q.slack = SlackAt(bs, b)
    OBVIOUS
  <2> HIDE DEF q
  <2> QED BY <1>1, <1>6, <2>1, <2>2
<1>9. p.at = a /\ p.slack = f[a] /\ q.at = b
  BY <1>3
<1> HIDE DEF p, q
<1>10. PICK k \in DOMAIN points : points[k] = p
  BY <1>7 DEF P, ToSet
<1>11. PICK l \in DOMAIN points : points[l] = q
  BY <1>8 DEF P, ToSet
<1> DEFINE h == k + 1
<1>12. k < l
  <2>1. ~(l < k) /\ l # k
    BY <1>1, <1>3, <1>9, <1>10, <1>11 DEF Ordered, InTime
  <2> QED BY <1>2, <2>1
<1>13. h \in DOMAIN points /\ k < h /\ k \in 1 .. Len(points) - 1
  BY <1>2, <1>12
<1>14. l = h
  <2>1. SUFFICES ASSUME h < l PROVE FALSE
    BY <1>2, <1>12
  <2> DEFINE r == points[h]
             t == r.at
             u == t - 1
  <2>2. r \in P /\ r \in PointSet /\ t \in Int
    BY <1>2, <1>13
  <2>3. a < t /\ t < b
    BY <1>1, <1>9, <1>10, <1>11, <1>13, <2>1 DEF Ordered, InTime
  <2>4. SlackAt(bs, t) = r.slack /\ SlackAt(bs, u) # r.slack
    BY <1>1, <2>2
  <2> HIDE DEF r, t
  <2>5. t \in a .. b - 1 /\ u \in a .. b - 1
    BY <1>3, <2>2, <2>3
  <2> HIDE DEF u
  <2> QED BY <1>5, <2>4, <2>5
<1>15. points[k].slack = f[a] /\ points[k].slack < 0 /\ points[k].at = a /\ points[h].at = b
  BY <1>4, <1>9, <1>10, <1>11, <1>14
<1> QED BY <1>13, <1>15 DEF points, a, b

\* deficit_intervals answers with the longest stretches of equal deficit.
THEOREM DeficitsAnswered == TSpec => []DeficitsAreExact
<1>1. ASSUME TInv PROVE DeficitsAreExact
  <2> DEFINE slack == [t \in Time |-> Reference(t)]
             points == EffectivePoints(blocks)
             Of(k) == [from |-> points[k].at, to |-> points[k + 1].at, amount |-> -points[k].slack]
             Told(i) == [from |-> i.from, to |-> i.to, amount |-> -slack[i.from]]
  <2>1. Kept(blocks) /\ ExactFor(blocks, curve, claims)
    BY <1>1 DEF TInv
  <2>2. \A t \in Time : slack[t] = SlackAt(blocks, t)
    <3>1. SUFFICES ASSUME NEW t \in Time PROVE slack[t] = SlackAt(blocks, t)
      OBVIOUS
    <3>2. t \in -1 .. Horizon
      BY TimelineConstants DEF Time
    <3>3. Reference(t) = SlackFrom(curve, claims, t)
      BY Zenon DEF Reference, SlackFrom, InForce
    <3>4. SlackAt(blocks, t) = Reference(t)
      BY <2>1, <3>2, <3>3 DEF ExactFor
    <3> QED BY <3>4
  <2>3. SlackAt(blocks, -1) = 0
    <3>1. curve \in Seq(Segments) /\ Disjoint(curve) /\ claims \in [Kind -> Nat]
      BY <1>1 DEF TInv, CurveOK
    <3>2. SlackFrom(curve, claims, -1) = 0
      BY <3>1, BeforeTime
    <3>3. -1 \in -1 .. Horizon
      BY TimelineConstants
    <3> QED BY <2>1, <3>2, <3>3 DEF ExactFor
  <2> HIDE DEF slack
  <2>4. ASSUME NEW k \in 1 .. Len(points) - 1, points[k].slack < 0
        PROVE  \E i \in Interval : Deficit(slack, i) /\ Of(k) = Told(i)
    <3> DEFINE i == [from |-> points[k].at, to |-> points[k + 1].at]
    <3>1. i \in Interval /\ Deficit(slack, i) /\ slack[i.from] = points[k].slack
      BY <2>1, <2>2, <2>4, PointsCutDeficits
    <3>2. Of(k) = Told(i)
      BY <3>1
    <3> QED BY <3>1, <3>2
  <2>5. ASSUME NEW i \in Interval, Deficit(slack, i)
        PROVE  \E k \in 1 .. Len(points) - 1 : points[k].slack < 0 /\ Of(k) = Told(i)
    <3>1. PICK k \in 1 .. Len(points) - 1 :
            /\ points[k].slack < 0 /\ points[k].slack = slack[i.from]
            /\ points[k].at = i.from /\ points[k + 1].at = i.to
      BY <2>1, <2>2, <2>3, <2>5, DeficitsLieBetweenPoints
    <3>2. Of(k) = Told(i)
      BY <3>1
    <3> QED BY <3>1, <3>2
  <2>6. DeficitIntervals(blocks) = {Of(k) : k \in {k \in 1 .. Len(points) - 1 : points[k].slack < 0}}
    BY DEF DeficitIntervals, IsDeficit
  <2>7. {Of(k) : k \in {k \in 1 .. Len(points) - 1 : points[k].slack < 0}}
          = {Told(i) : i \in {i \in Interval : Deficit(slack, i)}}
    <3> HIDE DEF Of, Told, points
    <3> QED BY <2>4, <2>5
  <2>8. DeficitIntervals(blocks) = {Told(i) : i \in {i \in Interval : Deficit(slack, i)}}
    BY <2>6, <2>7
  <2> QED BY <2>8 DEF DeficitsAreExact, Deficit, slack
<1> QED BY <1>1, InvariantHolds, PTL
=============================================================================
